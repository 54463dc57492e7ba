------------------------------- MODULE Registry -------------------------------
(***************************************************************************)
(* The coordinator's registry for one peer: what its owner's heartbeats    *)
(* say of it (liveness, routing), and what they and the contributors' own  *)
(* beats earn the members that pooled the peer's memory.  Peers share no   *)
(* state of the registry, so one peer is the whole component.              *)
(*                                                                         *)
(* Contribution is accounted per unit of time: unit u is the time from     *)
(* u - 1 to u, and an account holds, for every unit, what its member was   *)
(* paid for it.  Amounts are multiplied by Total, which keeps the split    *)
(* of a residency among the contributors in whole numbers.                 *)
(***************************************************************************)
EXTENDS Integers, FiniteSetsExt

CONSTANTS
    Owner,              \* the member that runs the peer's endpoint
    Contributors,       \* members listed as contributors; {} when the owner is alone
    Declared,           \* Declared[m]: the share the roster declares for m, in GB
    Capacity,           \* capacity_gb; 0 when the roster declares none
    MaxConcurrent,
    HeartbeatTimeout,
    MaxCredited,        \* MAX_CREDITED_INTERVAL
    Reports,            \* residencies a beat may claim, honest or not
    StartTime,          \* what time.monotonic() reads when the coordinator starts
    MaxTime             \* bound of the model: the clock stops there

Total == IF Contributors = {} THEN 1
         ELSE MapThenSumSet(LAMBDA m : Declared[m], Contributors)

ASSUME SharesDeclared ==
    /\ IsFiniteSet(Contributors)
    /\ Declared \in [Contributors -> Nat \ {0}]
    /\ Capacity \in Nat
    /\ Total \in Nat \ {0}
    /\ Contributors # {} => Capacity = Total
ASSUME TimingTyped ==
    /\ HeartbeatTimeout \in Nat /\ MaxCredited \in Nat \ {0}
    /\ StartTime \in Nat /\ MaxTime \in Nat /\ StartTime <= MaxTime
ASSUME ReportsTyped == Reports \subseteq Int /\ MaxConcurrent \in Nat \ {0}

VARIABLES
    now,        \* the monotonic clock
    head,       \* the peer's PeerState
    account,    \* account[m]: m's Attestation, and what m was paid
    spoke,      \* spoke[m]: when m last signed a beat of its own, or 0 (history)
    gap,        \* units between two owner beats too far apart, in service (history)
    down        \* units through which the head was known and not healthy (history)

vars == <<now, head, account, spoke, gap, down>>

Units == 1..MaxTime

\* Whom credit_split names.
Earners == IF Contributors = {} THEN {Owner} ELSE Contributors

FailureLimit == 2       \* mark_failure: "two strikes"; the count stops there

HeadStates ==
    [known : BOOLEAN, seen : 0..MaxTime, resident : Nat, healthy : BOOLEAN,
     inFlight : Nat, failures : 0..FailureLimit, credited : 0..MaxTime]

\* No beat has come since the coordinator was started.
Unheard == [known |-> FALSE, seen |-> 0, resident |-> 0, healthy |-> FALSE,
            inFlight |-> 0, failures |-> 0, credited |-> 0]

\* An account that is not known has no Attestation yet.
Accounts ==
    [known : BOOLEAN, seen : 0..MaxTime, resident : Nat, credited : 0..MaxTime,
     own : [Units -> Nat],      \* paid on the member's own beats
     byHead : [Units -> Nat]]   \* paid on the owner's beats

-----------------------------------------------------------------------------
(* Residency: claims are capped by the roster, and split by it.            *)

AtMost(a, b) == IF a <= b THEN a ELSE b

Floored(gb) == IF gb < 0 THEN 0 ELSE gb

\* (mutant of Capped) takes a claim below nothing
CappedAbove(gb) == IF Capacity > 0 /\ gb > Capacity THEN Capacity ELSE gb

\* _capped(): nothing above what the roster declares, and nothing below zero.
Capped(gb) == IF Capacity > 0 /\ gb > Capacity THEN Capacity ELSE Floored(gb)

OwnShare(m, gb) == AtMost(Floored(gb), Declared[m])

\* Total times m's part of credit_split(gb).
Split(m, gb) == IF Contributors = {} THEN gb ELSE gb * Declared[m]

-----------------------------------------------------------------------------
(* Crediting.                                                              *)

Elapsed(since) == AtMost(now - since, MaxCredited)

\* record_contribution: amount for each of the units that just passed.
Paid(table, units, amount) ==
    [u \in Units |-> IF now - units < u /\ u <= now THEN table[u] + amount
                     ELSE table[u]]

Attesting(a) == a.known /\ now - a.seen <= HeartbeatTimeout

\* (mutant of Settle) pays on the owner's word whoever speaks for itself
SettleAll(m, a) ==
    LET units == Elapsed(head.credited)
    IN IF units <= 0 THEN a
       ELSE [a EXCEPT !.known = TRUE,
                      !.credited = now,
                      !.byHead = IF head.resident > 0 /\ head.healthy
                                 THEN Paid(@, units, Split(m, head.resident))
                                 ELSE @]

\* (mutant of Settle) does not look at the health the interval was lived under
SettleUnhealthy(m, a) ==
    LET units == Elapsed(head.credited)
    IN IF units <= 0 \/ Attesting(a) THEN a
       ELSE [a EXCEPT !.known = TRUE,
                      !.credited = now,
                      !.byHead = Paid(@, units, Split(m, head.resident))]

\* (mutant of Settle) does not note up to when the member is paid
SettleUnmarked(m, a) ==
    LET units == Elapsed(head.credited)
    IN IF units <= 0 \/ Attesting(a) \/ ~ head.healthy THEN a
       ELSE [a EXCEPT !.byHead = Paid(@, units, Split(m, head.resident))]

\* (mutant of Settle) notes the payment as if the member had spoken
SettleSeen(m, a) ==
    LET units == Elapsed(head.credited)
    IN IF units <= 0 \/ Attesting(a) THEN a
       ELSE [a EXCEPT !.known = TRUE, !.credited = now, !.seen = now]

\* An owner's beat settles the interval since the owner's last one with member
\* m, unless m's own beats do.  A new Attestation has last_seen 0.0.
Settle(m, a) ==
    LET units == Elapsed(head.credited)
    IN IF units <= 0 \/ Attesting(a) THEN a
       ELSE [a EXCEPT !.known = TRUE,
                      !.credited = now,
                      !.byHead = IF head.resident > 0 /\ head.healthy
                                 THEN Paid(@, units, Split(m, head.resident))
                                 ELSE @]

\* attest(): m's own beat pays m for the time since it was last paid, provided
\* that the peer serves now.
Attested(m, a, gb, serving) ==
    [known |-> TRUE,
     seen |-> now,
     resident |-> OwnShare(m, gb),
     credited |-> now,
     own |-> IF a.known /\ Elapsed(a.credited) > 0 /\ a.resident > 0 /\ serving
             THEN Paid(a.own, Elapsed(a.credited), a.resident * Total)
             ELSE a.own,
     byHead |-> a.byHead]

-----------------------------------------------------------------------------
(* Operations.                                                             *)

IsLive == head.known /\ head.healthy /\ now - head.seen <= HeartbeatTimeout

\* A beat signed by the owner.  If the owner contributes too, it attests last,
\* when the peer's new health is already in place.
Heartbeat(gb, healthy) ==
    LET Later(m) == IF head.known THEN Settle(m, account[m]) ELSE account[m]
    IN /\ head' = [known |-> TRUE, seen |-> now, credited |-> now,
                   resident |-> Capped(gb), healthy |-> healthy,
                   inFlight |-> head.inFlight,
                   failures |-> IF healthy THEN 0 ELSE head.failures]
       /\ account' = [m \in Earners |->
                         IF m = Owner /\ m \in Contributors
                         THEN Attested(m, Later(m), Capped(gb), healthy)
                         ELSE Later(m)]
       /\ spoke' = [m \in Earners |-> IF m = Owner THEN now ELSE spoke[m]]
       /\ gap' = IF head.healthy /\ now - head.credited > HeartbeatTimeout
                 THEN gap \cup {u \in Units : head.credited < u /\ u <= now} ELSE gap
       /\ UNCHANGED <<now, down>>

\* (mutant of Attest) a contributor's beat keeps the peer routable
AttestLive(m, gb) ==
    /\ account' = [account EXCEPT ![m] = Attested(m, @, gb, head.known /\ head.healthy)]
    /\ head' = [head EXCEPT !.seen = now]
    /\ spoke' = [spoke EXCEPT ![m] = now]
    /\ UNCHANGED <<now, gap, down>>

\* A beat signed by a declared contributor that is not the owner.
Attest(m, gb) ==
    /\ account' = [account EXCEPT ![m] = Attested(m, @, gb, head.known /\ head.healthy)]
    /\ spoke' = [spoke EXCEPT ![m] = now]
    /\ UNCHANGED <<now, head, gap, down>>

\* The scheduler takes a slot of a live peer, and gives it back; nothing tells
\* the registry that a relay went well.
AcquireSlot ==
    /\ IsLive
    /\ head.inFlight < MaxConcurrent
    /\ head' = [head EXCEPT !.inFlight = @ + 1]
    /\ UNCHANGED <<now, account, spoke, gap, down>>

ReleaseSlot ==
    /\ head.inFlight > 0
    /\ head' = [head EXCEPT !.inFlight = @ - 1]
    /\ UNCHANGED <<now, account, spoke, gap, down>>

\* A relay to the peer failed: it holds a slot until its stream is wound up.
MarkFailure ==
    LET n == AtMost(head.failures + 1, FailureLimit)
    IN /\ head.inFlight > 0
       /\ head' = [head EXCEPT !.failures = n,
                               !.healthy = @ /\ n < FailureLimit]
       /\ UNCHANGED <<now, account, spoke, gap, down>>

\* /v1/stats: asking for the state of a peer that never beat creates it.
Snapshot ==
    /\ ~ head.known
    /\ head' = [head EXCEPT !.known = TRUE]
    /\ UNCHANGED <<now, account, spoke, gap, down>>

\* The Attestation is gone, and what was paid remains.
Forgotten(a) == [a EXCEPT !.known = FALSE, !.seen = 0, !.resident = 0, !.credited = 0]

\* The coordinator is started again: what members were paid is in the ledger's file,
\* everything else of the registry was in memory.
Restart ==
    /\ head' = Unheard
    /\ account' = [m \in Earners |-> Forgotten(account[m])]
    /\ UNCHANGED <<now, spoke, gap, down>>

Tick ==
    /\ now < MaxTime
    /\ now' = now + 1
    /\ down' = IF head.known /\ ~ head.healthy THEN down \cup {now + 1} ELSE down
    /\ UNCHANGED <<head, account, spoke, gap>>

Init ==
    /\ now = StartTime
    /\ head = Unheard
    /\ account = [m \in Earners |->
                     [known |-> FALSE, seen |-> 0, resident |-> 0, credited |-> 0,
                      own |-> [u \in Units |-> 0], byHead |-> [u \in Units |-> 0]]]
    /\ spoke = [m \in Earners |-> 0]
    /\ gap = {}
    /\ down = {}

Next ==
    \/ \E gb \in Reports, healthy \in BOOLEAN : Heartbeat(gb, healthy)
    \/ \E m \in Contributors \ {Owner}, gb \in Reports : Attest(m, gb)
    \/ AcquireSlot \/ ReleaseSlot \/ MarkFailure
    \/ Snapshot \/ Restart
    \/ Tick

Spec == Init /\ [][Next]_vars

-----------------------------------------------------------------------------
(* Properties.                                                             *)

\* Every variable keeps its type.
TypeOK ==
    /\ now \in StartTime..MaxTime
    /\ head \in HeadStates
    /\ account \in [Earners -> Accounts]
    /\ spoke \in [Earners -> 0..MaxTime]
    /\ gap \in SUBSET Units
    /\ down \in SUBSET Units

\* As long as the owner's beats keep coming, the two crediting paths partition
\* time and the roster's shares bound them: for no unit of time is a
\* contributor paid more than its declared share, whatever was reported.
ShareRespected ==
    \A m \in Contributors, u \in Units \ gap :
        account[m].own[u] + account[m].byHead[u] <= Declared[m] * Total

\* The owner's word never pays for time through which the peer was down.
HeadNeverPaysOutage ==
    \A m \in Earners, u \in down : account[m].byHead[u] = 0

\* A member's own beat never pays for time that was already paid for, on
\* whoever's word: coming back does not re-bill what the head covered.
OwnBeatNeverRebills ==
    [][\A m \in Earners, u \in Units :
          account'[m].own[u] # account[m].own[u]
              => account[m].own[u] + account[m].byHead[u] = 0]_vars

\* contributors() reports a member as attesting only if that member has signed
\* a beat of its own within the timeout.
AttestingMeansSpoke ==
    \A m \in Contributors :
        Attesting(account[m]) => spoke[m] > 0 /\ now - spoke[m] <= HeartbeatTimeout

\* Only the owner brings a peer back into routing, by a beat that says healthy
\* and that reaches the registry now.
OnlyOwnerRestoresRouting ==
    [][~ IsLive /\ IsLive' =>
          /\ head'.seen = now /\ head'.credited = now /\ head'.failures = 0
          /\ Owner \in Earners => spoke'[Owner] = now]_vars

-----------------------------------------------------------------------------
(* What the repository says of crediting and the code does not do.         *)

\* "The two crediting paths must partition time, not overlap it": nobody is
\* paid for the same time on both words.
PathsPartitionTime ==
    \A m \in Contributors, u \in Units :
        account[m].own[u] = 0 \/ account[m].byHead[u] = 0

\* "What must not happen is the outage itself being paid for -- then or
\* retroactively once the group returns."
OutageNeverPaid ==
    \A m \in Earners, u \in down : account[m].own[u] + account[m].byHead[u] = 0
==============================================================================
