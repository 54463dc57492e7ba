----------------------------- MODULE OpenAICompat -----------------------------
(***************************************************************************)
(* The adapter between an OpenAI-compatible backend and the engine seam:   *)
(* one call of stream(), an asynchronous generator that its caller resumes *)
(* and may close.                                                          *)
(*                                                                         *)
(* The backend is external and may send any lines.  A line is what its     *)
(* JSON says; a missing, empty or ill-typed field is Nothing (Absent for   *)
(* a count).  A line without any field stands for those _parse_sse makes   *)
(* nothing of: keep-alives, comments, [DONE], undecodable frames.          *)
(***************************************************************************)
EXTENDS Integers, SequencesExt

CONSTANTS
    Pieces,     \* the nonempty strings a delta may carry
    Counts,     \* the numbers a usage object may carry
    Lines,      \* the lines a backend may send
    Nothing,    \* not a piece
    Absent,     \* not a count
    MaxLines    \* bound of the model: lines of one answer

Reasons == {"", "stop", "length"}       \* finish_reason

Line == [content : Pieces \cup {Nothing},
         reasoning_content : Pieces \cup {Nothing},
         reasoning : Pieces \cup {Nothing},
         finish_reason : Reasons,
         prompt_tokens : Counts \cup {Absent},
         completion_tokens : Counts \cup {Absent}]

Numbers == Counts \cup {0}             \* zero is "not reported"

ASSUME LinesTyped == Lines \subseteq Line /\ MaxLines \in Nat
ASSUME SymbolsApart == Nothing \notin Pieces /\ Absent \notin Numbers
ASSUME CountsTyped == Counts \subseteq Nat

VARIABLES
    include_reasoning,  \* the engine's setting
    phase,          \* where the generator is
    answered,       \* answer_chars # 0
    reasoned,       \* reasoning_chars # 0
    usage,          \* the last counts the backend reported
    finish_reason,  \* the last reason it gave
    due,            \* what this line, or the end, has still to yield
    out,            \* what was yielded (history)
    lines           \* the lines read (history)

seen == <<answered, reasoned, usage, finish_reason>>
vars == <<include_reasoning, phase, seen, due, out, lines>>

-----------------------------------------------------------------------------
(* One line.                                                               *)

Piece(text) == [kind |-> "piece", text |-> text]
Usage(counts, reason) ==
    [kind |-> "usage", prompt |-> counts.prompt, completion |-> counts.completion,
     finish |-> reason]

NoCounts == [prompt |-> 0, completion |-> 0]

\* usage is None until a frame reports a count.
Unreported == [prompt |-> Absent, completion |-> Absent]

\* A piece that is there, as a sequence of one.
Given(text) == IF text = Nothing THEN << >> ELSE <<Piece(text)>>

\* The first of the two keys that holds a nonempty string.
Thought(line) ==
    IF line.reasoning_content # Nothing THEN line.reasoning_content ELSE line.reasoning

\* An int in either place makes a Usage; the other one is then 0.
CountsIn(line) ==
    LET OrZero(count) == IF count = Absent THEN 0 ELSE count
    IN  IF line.prompt_tokens = Absent /\ line.completion_tokens = Absent
        THEN Unreported
        ELSE [prompt |-> OrZero(line.prompt_tokens),
              completion |-> OrZero(line.completion_tokens)]

\* (mutant of Yields) either/or: reasoning hides the text next to it
YieldsEither(line, kept) ==
    IF Thought(line) = Nothing THEN Given(line.content)
    ELSE IF kept THEN Given(Thought(line)) ELSE << >>

\* What a line makes the generator yield.
Yields(line, kept) ==
    (IF kept THEN Given(Thought(line)) ELSE << >>) \o Given(line.content)

-----------------------------------------------------------------------------
(* The generator.                                                          *)

Init ==
    /\ include_reasoning \in BOOLEAN
    /\ phase = "asked"
    /\ answered = FALSE /\ reasoned = FALSE
    /\ usage = Unreported /\ finish_reason = ""
    /\ due = << >> /\ out = << >> /\ lines = << >>

\* The backend's status: below 400 the stream begins.
Open ==
    /\ phase = "asked"
    /\ phase' = "reading"
    /\ UNCHANGED <<include_reasoning, seen, due, out, lines>>

\* A status of 400 or more, a backend that cannot be reached, or an HTTP error
\* while a line is awaited: EngineError.
Fail ==
    /\ phase \in {"asked", "reading"} /\ due = << >>
    /\ phase' = "failed"
    /\ UNCHANGED <<include_reasoning, seen, due, out, lines>>

AwaitsLine == phase = "reading" /\ due = << >> /\ Len(lines) < MaxLines

\* (mutant of Read) a reason of null in a later frame clears the one given
ReadLastReason(line) ==
    /\ AwaitsLine
    /\ lines' = Append(lines, line)
    /\ finish_reason' = line.finish_reason
    /\ usage' = IF CountsIn(line) # Unreported THEN CountsIn(line) ELSE usage
    /\ reasoned' = (reasoned \/ Thought(line) # Nothing)
    /\ answered' = (answered \/ line.content # Nothing)
    /\ due' = Yields(line, include_reasoning)
    /\ UNCHANGED <<include_reasoning, phase, out>>

\* A line arrives.
Read(line) ==
    /\ AwaitsLine
    /\ lines' = Append(lines, line)
    /\ finish_reason' = IF line.finish_reason # "" THEN line.finish_reason ELSE finish_reason
    /\ usage' = IF CountsIn(line) # Unreported THEN CountsIn(line) ELSE usage
    /\ reasoned' = (reasoned \/ Thought(line) # Nothing)
    /\ answered' = (answered \/ line.content # Nothing)
    /\ due' = Yields(line, include_reasoning)
    /\ UNCHANGED <<include_reasoning, phase, out>>

\* The caller asks for the next item and gets it.
Give ==
    /\ due # << >> /\ phase \in {"reading", "closing"}
    /\ out' = Append(out, Head(due))
    /\ due' = Tail(due)
    /\ UNCHANGED <<include_reasoning, phase, seen, lines>>

\* Nothing but reasoning, and reasoning is not kept.
Blank == reasoned /\ ~answered /\ ~include_reasoning

\* The counts if there are any; otherwise a cut alone is worth a Usage.
Closing ==
    IF usage # Unreported THEN <<Usage(usage, finish_reason)>>
    ELSE IF finish_reason = "length" THEN <<Usage(NoCounts, finish_reason)>>
    ELSE << >>

\* (mutant of EndOfLines) any answer with reasoning is a success
EndQuietly ==
    /\ phase = "reading" /\ due = << >>
    /\ phase' = "closing" /\ due' = Closing
    /\ UNCHANGED <<include_reasoning, seen, out, lines>>

\* (mutant of EndOfLines) the usage is yielded before the answer is judged
EndBilled ==
    /\ phase = "reading" /\ due = << >>
    /\ \/ Blank /\ phase' = "no_answer" /\ out' = out \o Closing /\ UNCHANGED due
       \/ ~Blank /\ phase' = "closing" /\ due' = Closing /\ UNCHANGED out
    /\ UNCHANGED <<include_reasoning, seen, lines>>

\* The backend has closed the stream: NoAnswerError, or the closing Usage.
EndOfLines ==
    /\ phase = "reading" /\ due = << >>
    /\ \/ Blank /\ phase' = "no_answer" /\ UNCHANGED due
       \/ ~Blank /\ phase' = "closing" /\ due' = Closing
    /\ UNCHANGED <<include_reasoning, seen, out, lines>>

Return ==
    /\ phase = "closing" /\ due = << >>
    /\ phase' = "ended"
    /\ UNCHANGED <<include_reasoning, seen, due, out, lines>>

\* The caller closes the generator, or is cancelled inside it.
Close ==
    /\ phase \in {"asked", "reading", "closing"}
    /\ phase' = "closed"
    /\ UNCHANGED <<include_reasoning, seen, due, out, lines>>

Next ==
    \/ Open \/ Fail \/ Give \/ EndOfLines \/ Return \/ Close
    \/ \E line \in Lines : Read(line)

Spec == Init /\ [][Next]_vars

-----------------------------------------------------------------------------
(* What the backend said, as a reader of its lines would put it.           *)

Said(Says(_)) == \E i \in DOMAIN lines : Says(lines[i])

ReasonsGiven == { i \in DOMAIN lines : lines[i].finish_reason # "" }
CountsGiven ==
    { i \in DOMAIN lines : {lines[i].prompt_tokens, lines[i].completion_tokens} # {Absent} }

LastOf(S) == CHOOSE i \in S : \A j \in S : j <= i

Texts(items) ==
    FlattenSeq([ i \in DOMAIN items |->
        IF items[i].kind = "piece" THEN <<items[i]>> ELSE << >> ])

Usages == [kind : {"usage"}, prompt : Numbers, completion : Numbers, finish : Reasons]
Items == [kind : {"piece"}, text : Pieces] \cup Usages

TypeOK ==
    /\ include_reasoning \in BOOLEAN
    /\ phase \in {"asked", "reading", "closing", "ended", "failed", "no_answer", "closed"}
    /\ answered \in BOOLEAN /\ reasoned \in BOOLEAN
    /\ usage \in [prompt : Numbers, completion : Numbers] \cup {Unreported}
    /\ finish_reason \in Reasons
    /\ due \in Seq(Items) /\ out \in Seq(Items)
    /\ lines \in Seq(Lines)

\* Nothing the backend said in its answer is lost, invented or put in another
\* order, whatever a frame mixes: the texts of the lines, each behind the
\* reasoning next to it if reasoning is kept, are what was yielded or is due.
AnswerIsWhatWasSaid ==
    Texts(out \o due) =
        FlattenSeq([ i \in DOMAIN lines |->
            (IF ~include_reasoning THEN << >>
             ELSE IF lines[i].reasoning_content # Nothing
                  THEN <<Piece(lines[i].reasoning_content)>>
                  ELSE Given(lines[i].reasoning))
            \o Given(lines[i].content) ])

\* Reasoning that used up the budget is never handed over as a blank success;
\* and the error that says so is raised for that only: for a backend that is well,
\* has reasoned, and has given no text.
BlankIsLoud ==
    LET reasonedOnly ==
            /\ Said(LAMBDA l : {l.reasoning_content, l.reasoning} # {Nothing})
            /\ ~Said(LAMBDA l : l.content # Nothing)
            /\ ~include_reasoning
    IN  /\ phase = "ended" => ~reasonedOnly
        /\ phase = "no_answer" => reasonedOnly

\* An answer that was cut off is never left unlabelled: when the last reason the
\* backend gave is "length", a stream that ends without an error ends with a Usage
\* that says so, counts or no counts.
CutIsReported ==
    (/\ phase = "ended" /\ ReasonsGiven # {}
     /\ lines[LastOf(ReasonsGiven)].finish_reason = "length")
    => out # << >> /\ Last(out).kind = "usage" /\ Last(out).finish = "length"

\* The engine's last word on the counts is what the peer's receipt is made from, in
\* whatever frame it came; a count it left out is 0, which is "not reported".
LastCountsReported ==
    phase = "ended" /\ CountsGiven # {} =>
        LET said == lines[LastOf(CountsGiven)] IN
        /\ out # << >> /\ Last(out).kind = "usage"
        /\ Last(out).prompt = IF said.prompt_tokens = Absent THEN 0 ELSE said.prompt_tokens
        /\ Last(out).completion =
               IF said.completion_tokens = Absent THEN 0 ELSE said.completion_tokens

\* The closing Usage is the backend's last word, on the counts and on a cut.
LastWordReported == CutIsReported /\ LastCountsReported

Outcome ==
    CASE phase = "ended" -> "done"
      [] phase \in {"failed", "no_answer"} -> "failed"
      [] phase = "closed" -> "closed"
      [] OTHER -> "open"

Seam == INSTANCE Engine WITH end <- Outcome

\* The adapter keeps the contract of the engine seam: at most one Usage, behind all
\* the text, and no error once there is one.
KeepsContract == Seam!Spec
==============================================================================
