------------------------------ MODULE LeasePool ------------------------------
(***************************************************************************)
(* What the coordinator promises about peer slots, without saying how it   *)
(* queues, times out or picks: a request holds at most one slot, a slot is *)
(* never moved from peer to peer, a peer is never handed more leases than  *)
(* it has slots, and a lease is used at most once, while it is held.       *)
(***************************************************************************)
EXTENDS Integers, FiniteSets

CONSTANTS Requests, Peers, NoPeer, MaxConcurrent

VARIABLES
    holder,     \* holder[r]: the peer whose slot request r holds, or NoPeer
    used        \* the requests whose lease has been redeemed

vars == <<holder, used>>

Init == /\ holder = [r \in Requests |-> NoPeer]
        /\ used = {}

Load(h, p) == Cardinality({r \in Requests : h[r] = p})

\* One call of the coordinator may take back several slots and hand them on:
\* to new requests, and never beyond what a peer can carry.
Reassign ==
    /\ holder' \in [Requests -> Peers \cup {NoPeer}]
    /\ \A r \in Requests : holder[r] # NoPeer => holder'[r] \in {holder[r], NoPeer}
    /\ \A p \in Peers : Load(holder', p) <= MaxConcurrent[p]
    /\ used' = {r \in used : holder'[r] # NoPeer}

\* A held lease is redeemed, once.
Redeem(r) ==
    /\ holder[r] # NoPeer
    /\ r \notin used
    /\ used' = used \cup {r}
    /\ UNCHANGED holder

Next == Reassign \/ \E r \in Requests : Redeem(r)

Spec == Init /\ [][Next]_vars
==============================================================================
