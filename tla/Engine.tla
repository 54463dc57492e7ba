-------------------------------- MODULE Engine --------------------------------
(***************************************************************************)
(* What the engine seam promises to its caller, the peer: pieces of text,  *)
(* optionally a single Usage behind all of them, and an end or an error    *)
(* which it has not billed.  The caller may stop listening at any time.    *)
(***************************************************************************)
EXTENDS Sequences

CONSTANTS
    Pieces,     \* the nonempty pieces of text
    Usages      \* what may be reported of a completion

VARIABLES
    out,    \* what the caller was given, in order
    end     \* whether the stream is open, and if not, how it ended

vars == <<out, end>>

IsUsage(item) == item.kind = "usage"

Reported == \E i \in DOMAIN out : IsUsage(out[i])

Init == out = << >> /\ end = "open"

Yield(item) ==
    /\ end = "open" /\ ~Reported
    /\ out' = Append(out, item)
    /\ UNCHANGED end

\* An error is raised before any usage: a failed answer is not billed.
End(how) ==
    /\ end = "open"
    /\ how = "failed" => ~Reported
    /\ end' = how
    /\ UNCHANGED out

Next ==
    \/ \E item \in [kind : {"piece"}, text : Pieces] \cup Usages : Yield(item)
    \/ \E how \in {"done", "failed", "closed"} : End(how)

Spec == Init /\ [][Next]_vars
==============================================================================
