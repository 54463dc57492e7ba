---------------------------- MODULE MCOpenAICompat ----------------------------
(* Small instances of OpenAICompat for TLC.                                *)
EXTENDS OpenAICompat, TLC

CONSTANTS text, thought, other

Blanks == [content |-> Nothing, reasoning_content |-> Nothing, reasoning |-> Nothing,
           finish_reason |-> "", prompt_tokens |-> Absent, completion_tokens |-> Absent]

\* Frames as backends send them, mixed ones included.
SomeLines ==
    { Blanks,
      [content |-> text] @@ Blanks,
      [reasoning_content |-> thought] @@ Blanks,
      [reasoning |-> other] @@ Blanks,
      [reasoning_content |-> thought, reasoning |-> other] @@ Blanks,
      [content |-> text, reasoning |-> thought] @@ Blanks,
      [finish_reason |-> "stop"] @@ Blanks,
      [finish_reason |-> "length"] @@ Blanks,
      [content |-> text, finish_reason |-> "length"] @@ Blanks,
      [prompt_tokens |-> 3, completion_tokens |-> 0] @@ Blanks,
      [completion_tokens |-> 2] @@ Blanks,
      [finish_reason |-> "stop", prompt_tokens |-> 2, completion_tokens |-> 2] @@ Blanks }
==============================================================================
