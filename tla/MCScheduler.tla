----------------------------- MODULE MCScheduler -----------------------------
(* Small instances of Scheduler for TLC.                                   *)
EXTENDS Scheduler

CONSTANTS r1, r2, r3, m1, m2

\* Callers are interchangeable.
CallerSymmetry == Permutations(Requests)

\* One peer of each of two models, one slot each.
TwinPeers == {1, 2}
TwinSlots == [p \in TwinPeers |-> 1]
MixedServes == (1 :> m1) @@ (2 :> m2)

\* A single peer with one slot.
LonePeer == {1}
LoneServes == [p \in LonePeer |-> m1]
LoneSlots == [p \in LonePeer |-> 1]
==============================================================================
