------------------------------ MODULE Scheduler ------------------------------
(***************************************************************************)
(* The coordinator's scheduler, the part of the registry it schedules on   *)
(* (liveness and slots), and the two handlers that drive it: POST /v1/lease *)
(* and POST /v1/infer.                                                     *)
(*                                                                         *)
(* Everything runs on one asyncio event loop, so code between two awaits   *)
(* is one step.  A request is one client exchange: the /v1/lease call, the *)
(* lease it may obtain, and the relay that the lease may open.  A request  *)
(* stands for its own request_id; Forget makes it available for a new      *)
(* exchange once nothing in the coordinator refers to the old one.         *)
(*                                                                         *)
(* Time is a Tick that moves every timer by one unit.  Timers stop at the  *)
(* first value past their limit, so that time itself needs no bound.       *)
(***************************************************************************)
EXTENDS Integers, FiniteSets, SequencesExt

CONSTANTS
    Requests,           \* client exchanges that can be outstanding together
    Models,
    Scores,             \* fair-share scores a member can have when it queues
    Peers,              \* roster peers; ids are naturals because ids break ties
    Serves,             \* Serves[p]: the model peer p serves
    MaxConcurrent,      \* MaxConcurrent[p]: slots the roster gives peer p
    MaxQueue, LeaseTTL, QueueTimeout, HeartbeatTimeout

NoPeer == 0

ASSUME RequestsFinite == IsFiniteSet(Requests)
ASSUME PeersAreIds == Peers \subseteq Nat \ {NoPeer}
ASSUME RosterTyped == Serves \in [Peers -> Models] /\ MaxConcurrent \in [Peers -> Nat \ {0}]
ASSUME ScoresTyped == Scores \subseteq Int
ASSUME SomeWish == Models # {} /\ Scores # {}
ASSUME TimingTyped == /\ MaxQueue \in Nat /\ LeaseTTL \in Nat
                      /\ QueueTimeout \in Nat /\ HeartbeatTimeout \in Nat

VARIABLES
    pool,       \* the Scheduler object and the registry's in_flight counters
    ask,        \* ask[r]: model and score of r's _Waiter, or NoAsk
    call,       \* call[r]: where the /v1/lease handler of r is, or its answer
    wait,       \* wait[r]: time left before wait_for gives up
    via,        \* via[r]: the peer r's relay streams from, or NoPeer
    failed,     \* requests whose relay raised RelayError and is being wound up
    opened,     \* opened[r]: relays opened on r's lease (history)
    beat        \* beat[p]: the registry's PeerState: health, age, failures

vars == <<pool, ask, call, wait, via, failed, opened, beat>>

NoAsk == [model |-> CHOOSE m \in Models : TRUE, score |-> CHOOSE n \in Scores : TRUE]

FutureStates == {"none", "pending", "result", "cancelled"}
Suspended == {"waiting", "timing_out", "cancelling"}
Answers == {"granted", "queue_full", "no_capacity", "cancelled"}
FailureLimit == 2       \* mark_failure: "two strikes"; the count stops there

\* The state one scheduler call reads and writes.  The heap is kept in the
\* order heappop returns it: by falling score, and by arrival among equals.
Pools == [waiters : Seq(Requests),                     \* _waiters
          future : [Requests -> FutureStates],         \* _Waiter.future
          leases : Seq(Requests),                      \* _leases, in dict order
          at : [Requests -> Peers \cup {NoPeer}],      \* Lease.peer
          left : [Requests -> Int],                    \* Lease.expires_at - now
          inFlight : [Peers -> Nat],                   \* PeerState.in_flight
          redeemed : SUBSET Requests]                  \* _redeemed

-----------------------------------------------------------------------------
(* Registry: who is live, who has a slot.                                  *)

IsLive(p) == beat[p].healthy /\ beat[p].age <= HeartbeatTimeout

Live(m) == {p \in Peers : Serves[p] = m /\ IsLive(p)}

\* (mutant of Free) a full peer still counts as free
FreeOrFull(s, m) == {p \in Live(m) : s.inFlight[p] <= MaxConcurrent[p]}

Free(s, m) == {p \in Live(m) : s.inFlight[p] < MaxConcurrent[p]}

-----------------------------------------------------------------------------
(* Scheduler: operations on the pool.                                      *)

LeastLoaded(s, candidates) ==
    CHOOSE p \in candidates : \A q \in candidates :
        \/ s.inFlight[p] < s.inFlight[q]
        \/ s.inFlight[p] = s.inFlight[q] /\ p <= q

Issue(s, r, p) ==
    [s EXCEPT !.inFlight[p] = @ + 1,
              !.leases = Append(@, r),
              !.at[r] = p,
              !.left[r] = LeaseTTL]

\* One turn of _dispatch's loop: skip a finished future, defer a waiter no peer
\* can serve now, otherwise issue its lease and resolve its future.
Serve(s, r) ==
    LET free == Free(s, ask[r].model)
    IN IF s.future[r] # "pending" THEN s
       ELSE IF free = {} THEN [s EXCEPT !.waiters = Append(@, r)]
       ELSE [Issue(s, r, LeastLoaded(s, free)) EXCEPT !.future[r] = "result"]

\* (mutant of Dispatch) gives up at the first waiter no peer can serve
DispatchFirst(s) ==
    LET servable == {k \in DOMAIN s.waiters : Free(s, ask[s.waiters[k]].model) # {}}
    IN IF s.waiters = << >> \/ 1 \notin servable THEN s
       ELSE Serve([s EXCEPT !.waiters = Tail(@)], s.waiters[1])

Dispatch(s) ==
    LET scan[k \in 0..Len(s.waiters)] ==
            IF k = 0 THEN [s EXCEPT !.waiters = << >>]
                     ELSE Serve(scan[k - 1], s.waiters[k])
    IN scan[Len(s.waiters)]

\* s without r, which occurs in it at most once.
Without(s, r) ==
    IF r \in ToSet(s) THEN RemoveAt(s, CHOOSE k \in DOMAIN s : s[k] = r) ELSE s

\* (mutant of Pop) reads the lease without popping it
PopKept(s, r) ==
    IF s.at[r] = NoPeer THEN s
    ELSE [s EXCEPT !.inFlight[s.at[r]] = @ - 1, !.redeemed = @ \ {r}]

\* (mutant of Pop) leaves the mark of redemption behind
PopMarked(s, r) ==
    IF s.at[r] = NoPeer THEN s
    ELSE [s EXCEPT !.leases = Without(@, r),
                   !.at[r] = NoPeer,
                   !.left[r] = 0,
                   !.inFlight[s.at[r]] = @ - 1]

\* release() up to its call of _dispatch: pop the lease if it is there, forget
\* that it was redeemed, give the slot back (never below zero).
Pop(s, r) ==
    IF s.at[r] = NoPeer THEN [s EXCEPT !.redeemed = @ \ {r}]
    ELSE [s EXCEPT !.leases = Without(@, r),
                   !.at[r] = NoPeer,
                   !.left[r] = 0,
                   !.inFlight[s.at[r]] = IF @ = 0 THEN 0 ELSE @ - 1,
                   !.redeemed = @ \ {r}]

Release(s, r) == Dispatch(Pop(s, r))

Expired(s, r) == s.left[r] < 0

\* (mutant of ExpireStale) one call reclaims one lease
ExpireOldest(s) ==
    IF s.leases # << >> /\ Expired(s, Head(s.leases)) THEN Release(s, Head(s.leases)) ELSE s

\* Every lease that is past its TTL when the sweep starts is released, in the
\* order of the dict.
ExpireStale(s) ==
    LET sweep[k \in 0..Len(s.leases)] ==
            IF k = 0 THEN s
            ELSE IF Expired(s, s.leases[k]) THEN Release(sweep[k - 1], s.leases[k])
            ELSE sweep[k - 1]
    IN sweep[Len(s.leases)]

\* (mutant of Push) first come, first served
PushLast(s, r, score) ==
    [s EXCEPT !.waiters = Append(@, r), !.future[r] = "pending"]

\* heappush: behind every waiter whose score is at least this one's.
Push(s, r, score) ==
    LET ahead == {k \in DOMAIN s.waiters : ask[s.waiters[k]].score >= score}
    IN [s EXCEPT !.waiters = InsertAt(@, Cardinality(ahead) + 1, r),
                 !.future[r] = "pending"]

\* (mutant of Drop) leaves a waiter that gave up in the heap
DropNothing(s, r) == s

Drop(s, r) == [s EXCEPT !.waiters = Without(@, r)]

-----------------------------------------------------------------------------
(* The handlers.                                                           *)

\* POST /v1/lease up to its answer, or to the await on the waiter's future.
\* The score is whatever the ledger's balance gives the member at this moment.
Lease(r, m, score) ==
    LET s == ExpireStale(pool)
        free == Free(s, m)
    IN /\ call[r] = "idle"
       /\ \/ /\ Live(m) = {}
             /\ call' = [call EXCEPT ![r] = "no_capacity"]
             /\ pool' = s
             /\ UNCHANGED <<ask, wait>>
          \/ /\ free # {}
             /\ call' = [call EXCEPT ![r] = "granted"]
             /\ pool' = Issue(s, r, LeastLoaded(s, free))
             /\ UNCHANGED <<ask, wait>>
          \/ /\ Live(m) # {} /\ free = {} /\ Len(s.waiters) >= MaxQueue
             /\ call' = [call EXCEPT ![r] = "queue_full"]
             /\ pool' = s
             /\ UNCHANGED <<ask, wait>>
          \/ /\ Live(m) # {} /\ free = {} /\ Len(s.waiters) < MaxQueue
             /\ call' = [call EXCEPT ![r] = "waiting"]
             /\ pool' = Push(s, r, score)
             /\ ask' = [ask EXCEPT ![r] = [model |-> m, score |-> score]]
             /\ wait' = [wait EXCEPT ![r] = QueueTimeout]
       /\ UNCHANGED <<via, failed, opened, beat>>

\* The handler's task is cancelled while it awaits the future: asyncio cancels
\* the future if it is still pending, and otherwise only marks the task.  The
\* task itself runs later (Resume), so other calls may come in between.
Interrupt(r, as) ==
    /\ call' = [call EXCEPT ![r] = as]
    /\ pool' = [pool EXCEPT !.future[r] = IF @ = "pending" THEN "cancelled" ELSE @]
    /\ UNCHANGED <<ask, wait, via, failed, opened, beat>>

\* (mutant of Timeout) awaits the future without a deadline
TimeoutNever(r) == call[r] = "waiting" /\ FALSE /\ Interrupt(r, "timing_out")

\* wait_for's deadline, which from Python 3.12 cancels the awaiting task.
Timeout(r) ==
    /\ call[r] = "waiting"
    /\ wait[r] = 0
    /\ Interrupt(r, "timing_out")

\* The server cancels the handler; that outweighs a deadline that has fired.
Cancel(r) ==
    /\ call[r] \in {"waiting", "timing_out"}
    /\ Interrupt(r, "cancelling")

\* The awaiting task runs again and acquire() returns or raises.
Resume(r) ==
    /\ \/ /\ call[r] = "waiting" /\ pool.future[r] = "result"
          /\ call' = [call EXCEPT ![r] = "granted"]
          /\ UNCHANGED pool
       \/ /\ call[r] = "timing_out"
          /\ call' = [call EXCEPT ![r] = "queue_full"]
          /\ pool' = Drop(pool, r)
       \/ /\ call[r] = "cancelling"
          /\ call' = [call EXCEPT ![r] = "cancelled"]
          /\ pool' = Drop(pool, r)
    /\ ask' = [ask EXCEPT ![r] = NoAsk]
    /\ wait' = [wait EXCEPT ![r] = 0]
    /\ UNCHANGED <<via, failed, opened, beat>>

\* POST /v1/infer up to the start of the relay.  Only a client that was told
\* its request_id can send it.  redeem() refuses an unknown or already redeemed
\* lease without changing anything, so those calls are stuttering steps.
InferExpired(r) ==
    /\ call[r] = "granted"
    /\ pool.at[r] # NoPeer
    /\ Expired(pool, r)
    /\ pool' = Release(pool, r)
    /\ UNCHANGED <<ask, call, wait, via, failed, opened, beat>>

Infer(r) ==
    /\ call[r] = "granted"
    /\ pool.at[r] # NoPeer
    /\ ~ Expired(pool, r)
    /\ r \notin pool.redeemed
    /\ pool' = [pool EXCEPT !.redeemed = @ \cup {r}]
    /\ via' = [via EXCEPT ![r] = pool.at[r]]
    /\ opened' = [opened EXCEPT ![r] = @ + 1]
    /\ UNCHANGED <<ask, call, wait, failed, beat>>

\* relay_to_peer raises RelayError: stream() marks the peer, and then yields an
\* error frame, so its finally clause runs in a later step.
RelayFails(r) ==
    LET p == via[r]
        n == IF beat[p].failures < FailureLimit THEN beat[p].failures + 1 ELSE FailureLimit
    IN /\ p # NoPeer
       /\ r \notin failed
       /\ failed' = failed \cup {r}
       /\ beat' = [beat EXCEPT ![p].failures = n,
                               ![p].healthy = @ /\ n < FailureLimit]
       /\ UNCHANGED <<pool, ask, call, wait, via, opened>>

\* stream()'s finally clause: after the last line, after the error frame, or
\* when the client has gone away.
EndRelay(r) ==
    /\ via[r] # NoPeer
    /\ pool' = Release(pool, r)
    /\ via' = [via EXCEPT ![r] = NoPeer]
    /\ failed' = failed \ {r}
    /\ UNCHANGED <<ask, call, wait, opened, beat>>

\* A heartbeat from the peer's owner.  It can bring capacity back, but it does
\* not call _dispatch.
Heartbeat(p, healthy) ==
    /\ beat' = [beat EXCEPT ![p] =
                   [healthy |-> healthy, age |-> 0,
                    failures |-> IF healthy THEN 0 ELSE @.failures]]
    /\ UNCHANGED <<pool, ask, call, wait, via, failed, opened>>

Tick ==
    /\ pool' = [pool EXCEPT !.left =
                   [r \in Requests |-> IF pool.at[r] # NoPeer /\ pool.left[r] >= 0
                                       THEN pool.left[r] - 1 ELSE pool.left[r]]]
    /\ wait' = [r \in Requests |-> IF wait[r] > 0 THEN wait[r] - 1 ELSE 0]
    /\ beat' = [p \in Peers |-> IF beat[p].age <= HeartbeatTimeout
                                THEN [beat[p] EXCEPT !.age = @ + 1] ELSE beat[p]]
    /\ UNCHANGED <<ask, call, via, failed, opened>>

\* The exchange is over and its request_id names nothing any more: the request
\* stands for a new exchange from here on.
Forget(r) ==
    /\ call[r] \in Answers
    /\ pool.at[r] = NoPeer
    /\ via[r] = NoPeer
    /\ call' = [call EXCEPT ![r] = "idle"]
    /\ pool' = [pool EXCEPT !.future[r] = "none"]
    /\ opened' = [opened EXCEPT ![r] = 0]
    /\ UNCHANGED <<ask, wait, via, failed, beat>>

-----------------------------------------------------------------------------
Init ==
    /\ pool = [waiters |-> << >>, future |-> [r \in Requests |-> "none"],
               leases |-> << >>, at |-> [r \in Requests |-> NoPeer],
               left |-> [r \in Requests |-> 0],
               inFlight |-> [p \in Peers |-> 0], redeemed |-> {}]
    /\ ask = [r \in Requests |-> NoAsk]
    /\ call = [r \in Requests |-> "idle"]
    /\ wait = [r \in Requests |-> 0]
    /\ via = [r \in Requests |-> NoPeer]
    /\ failed = {}
    /\ opened = [r \in Requests |-> 0]
    /\ beat = [p \in Peers |-> [healthy |-> FALSE, age |-> 0, failures |-> 0]]

Next ==
    \/ \E r \in Requests :
        \/ \E m \in Models, score \in Scores : Lease(r, m, score)
        \/ Timeout(r) \/ Cancel(r) \/ Resume(r)
        \/ InferExpired(r) \/ Infer(r) \/ RelayFails(r) \/ EndRelay(r)
        \/ Forget(r)
    \/ \E p \in Peers, healthy \in BOOLEAN : Heartbeat(p, healthy)
    \/ Tick

\* The event loop keeps time, fires timers that are due and resumes tasks that
\* are ready.  Nothing obliges a client, a peer or the network to act.
Fairness ==
    /\ WF_vars(Tick)
    /\ \A r \in Requests : WF_vars(Timeout(r)) /\ WF_vars(Resume(r))

Spec == Init /\ [][Next]_vars

FairSpec == Spec /\ Fairness

-----------------------------------------------------------------------------
(* Properties.                                                             *)

\* Every variable keeps its type.
TypeOK ==
    /\ pool \in Pools
    /\ ask \in [Requests -> [model : Models, score : Scores]]
    /\ call \in [Requests -> {"idle"} \cup Suspended \cup Answers]
    /\ wait \in [Requests -> Nat]
    /\ via \in [Requests -> Peers \cup {NoPeer}]
    /\ failed \in SUBSET Requests
    /\ opened \in [Requests -> Nat]
    /\ beat \in [Peers -> [healthy : BOOLEAN, age : Nat, failures : 0..FailureLimit]]

Held(s) == {r \in Requests : s.at[r] # NoPeer}

Pending == {r \in Requests : pool.future[r] = "pending"}

\* No slot is leaked and none is returned twice: a peer's in_flight counter is
\* at all times the number of leases on it, whatever the order in which
\* release(), redeem() and expire_stale() reach the same lease.
SlotAccounting ==
    \A p \in Peers :
        pool.inFlight[p] = Cardinality({r \in Requests : pool.at[r] = p})

\* A peer is never promised beyond the roster's max_concurrent.
WithinCapacity == \A p \in Peers : pool.inFlight[p] <= MaxConcurrent[p]

\* _leases and _redeemed agree: the dict lists each lease once, and a lease
\* that is gone leaves no mark behind (_redeemed cannot grow for ever).
LeaseTableConsistent ==
    /\ IsInjective(pool.leases)
    /\ ToSet(pool.leases) = Held(pool)
    /\ pool.redeemed \subseteq Held(pool)

\* No waiter is lost: whoever awaits an unresolved future is in the heap, once,
\* the heap holds nobody who has been answered, it returns waiters by falling
\* score, and its bound is respected.
QueueConsistent ==
    /\ IsInjective(pool.waiters)
    /\ Pending \subseteq ToSet(pool.waiters)
    /\ \A r \in ToSet(pool.waiters) : call[r] \in Suspended
    /\ \A i, j \in DOMAIN pool.waiters :
          i < j => ask[pool.waiters[i]].score >= ask[pool.waiters[j]].score
    /\ Len(pool.waiters) <= MaxQueue

\* r's future is resolved by this step.
ServedNow(r) == r \in Pending /\ pool'.future[r] = "result"

\* Among waiters for one model, nobody is served while a waiter with a higher
\* score is passed over.
ServedByFairShare ==
    [][\A a, b \in Requests :
          /\ ServedNow(b)
          /\ a \in Pending /\ ask[a].model = ask[b].model
          /\ ask[a].score > ask[b].score
          => ServedNow(a)]_vars

\* r waits although a live peer of its model has a free slot.
Unserved(r) == r \in Pending /\ Free(pool, ask[r].model) # {}

\* A slot that comes back is offered at once: after any step that takes a lease
\* away, no waiter is left whose model has a live peer with a free slot.  The one
\* way to wait beside a free slot is that its peer came back with a heartbeat, which
\* offers it to nobody.
FreedSlotsAreOffered ==
    [][/\ (\E r \in Held(pool) : r \notin Held(pool'))
             => \A r \in Requests : ~ Unserved(r)'
       /\ (\E r \in Requests : ~ Unserved(r) /\ Unserved(r)')
             => \E p \in Peers : ~ IsLive(p) /\ IsLive(p)']_vars

\* Nobody is made to wait, or turned away from a full queue, for a slot whose lease has
\* run out: each live peer of the model then carries a lease in force for every slot it
\* has.  A slot that was leaked is back when it is wanted, at the latest after the TTL.
BusyIsInForce ==
    [][\A r \in Requests :
          call[r] = "idle" /\ call'[r] \in {"waiting", "queue_full"} =>
              \E m \in Models :
                 /\ Live(m) # {}
                 /\ call'[r] = "waiting" => ask'[r].model = m
                 /\ \A p \in Live(m) :
                       Cardinality({q \in Requests : pool'.at[q] = p /\ ~ Expired(pool', q)})
                           = MaxConcurrent[p]]_vars

\* Every lease request is answered: with a lease, or with a refusal when its
\* queue_timeout has passed.
Answered == \A r \in Requests : call[r] \in Suspended ~> call[r] \in Answers

\* The scheduler keeps the promise of LeasePool: releases, expiry and dispatch,
\* in the batches in which the code performs them, are legal moves of slots.
Promise == INSTANCE LeasePool WITH
               holder <- pool.at, used <- pool.redeemed
KeepsPromise == Promise!Spec

-----------------------------------------------------------------------------
(* What the repository says of the scheduler and the code does not do.     *)

\* expire_stale: "Reclaim slots for leases nobody redeemed."  When a lease call
\* runs it, a lease that has been redeemed keeps its slot.
OnlyUnredeemedReclaimed ==
    [][(\E q \in Requests : call[q] = "idle" /\ call'[q] # "idle")
          => pool.redeemed \subseteq Held(pool')]_vars

\* A refused caller holds no slot (test_resilience: "A leaked peer slot is the
\* worst class of bug here").
RefusedHoldsNoSlot ==
    \A r \in Requests : call[r] = "queue_full" => pool.at[r] = NoPeer
==============================================================================
