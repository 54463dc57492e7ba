------------------------------ MODULE ReplayProofs ------------------------------
(***************************************************************************)
(* Replay rejection for every window, cache size, sender's clock and       *)
(* history of deliveries, restarts and clock corrections, as long as the   *)
(* cache outlives the window (assumption CacheOutlivesWindow); and the     *)
(* exchange whose peer is such an endpoint, for every set of rosters and   *)
(* keys the three programs may be started with.                            *)
(***************************************************************************)
EXTENDS Exchange, FiniteSetTheorems, TLAPS

\* clock + setback is what the clock would show without the corrections: it
\* never decreases, so an entry that has expired on it stays expired.  The date
\* of a message that was accepted is at most Grace later than its acceptance,
\* hence TTL - Grace before its entry's expiry.
Remembered(v) ==
    /\ v \in seen => accepted[v] = 1
    /\ accepted[v] # 0 =>
          /\ accepted[v] = 1
          /\ ts[v] + TTL <= expiry[v] + Grace
          /\ v \in seen \/ expiry[v] <= clock + setback

IInv ==
    /\ TypeOK
    /\ \A v \in Messages : Remembered(v)
    /\ \A v \in Messages : ts[v] = Unsent => accepted[v] = 0 /\ first[v] = Never
    /\ \A v \in Messages : first[v] # Never => ts[v] <= first[v] + Grace

\* Nothing was signed or accepted when the endpoint starts.
LEMMA InitHolds == Init => IInv
<1> SUFFICES ASSUME Init PROVE IInv
  OBVIOUS
<1>1. CacheBounded
  BY CacheTyped, FS_EmptySet DEF Init, CacheBounded
<1>2. TypeOK
  BY <1>1, ModelTyped DEF Init, TypeOK, Unsent, Never
<1>3. \A v \in Messages : accepted[v] = 0 /\ first[v] = Never /\ v \notin seen
  BY DEF Init
<1> QED
  BY <1>2, <1>3 DEF IInv, Remembered

\* Pruning keeps the bound, and what it drops has expired.
LEMMA Pruned ==
    ASSUME IInv
    PROVE  /\ Kept \subseteq seen /\ IsFiniteSet(Kept) /\ Cardinality(Kept) \in Nat
           /\ Cardinality(Kept) <= MaxEntries
           /\ \A v \in seen \ Kept : expiry[v] <= clock + setback
<1>1. Kept \subseteq seen /\ IsFiniteSet(seen) /\ Cardinality(seen) <= MaxEntries
  BY DEF Kept, IInv, TypeOK, CacheBounded
<1>2. IsFiniteSet(Kept) /\ Cardinality(Kept) <= Cardinality(seen)
  BY <1>1, FS_Subset
<1>3. Cardinality(Kept) \in Nat /\ Cardinality(seen) \in Nat /\ MaxEntries \in Nat
  BY <1>1, <1>2, FS_CardinalityType, CacheTyped
<1>4. ASSUME NEW v \in seen \ Kept PROVE expiry[v] <= clock + setback
  <2>1. /\ ~ (expiry[v] > clock) /\ expiry[v] \in Nat
        /\ clock \in Nat /\ setback \in Nat
    BY <1>4, ModelTyped DEF Kept, IInv, TypeOK
  <2> QED
    BY <2>1
<1> QED
  BY <1>1, <1>2, <1>3, <1>4

\* A message is dated within the drift of the endpoint's clock.
LEMMA SignStep ==
    ASSUME IInv, NEW v \in Messages, NEW date \in -Drift..(MaxClock + Drift), Sign(v, date)
    PROVE  IInv'
<1>1. /\ clock \in 0..MaxClock /\ ts \in [Messages -> Int]
      /\ Drift \in Nat /\ date \in Int
  BY ModelTyped DEF IInv, TypeOK
<1>2. /\ ts[v] = Unsent /\ date >= clock - Drift
      /\ ts' = [ts EXCEPT ![v] = date]
      /\ UNCHANGED <<clock, setback, seen, expiry, accepted, first>>
  BY <1>1 DEF Sign
<1>3. accepted[v] = 0 /\ first[v] = Never
  BY <1>2 DEF IInv
<1>4. date # Unsent
  BY <1>1, <1>2, ModelTyped DEF Unsent
<1>5. CacheBounded'
  BY <1>2 DEF IInv, TypeOK, CacheBounded
<1>6. TypeOK'
  BY <1>1, <1>2, <1>5 DEF IInv, TypeOK
<1>7. \A w \in Messages : Remembered(w)'
  BY <1>1, <1>2, <1>3 DEF IInv, Remembered
<1>8. \A w \in Messages : /\ ts'[w] = Unsent => accepted'[w] = 0 /\ first'[w] = Never
                          /\ first'[w] # Never => ts'[w] <= first'[w] + Grace
  BY <1>1, <1>2, <1>3, <1>4 DEF IInv
<1> QED
  BY <1>6, <1>7, <1>8 DEF IInv

\* A refused delivery leaves an entry where it was, or drops it as outdated.
LEMMA RefuseStep ==
    ASSUME IInv, NEW v \in Messages, Refuse(v)
    PROVE  IInv'
<1>1. /\ seen' = Kept
      /\ UNCHANGED <<clock, setback, ts, expiry, accepted, first>>
  BY DEF Refuse
<1>2. TypeOK'
  BY <1>1, Pruned DEF IInv, TypeOK, CacheBounded
<1>3. \A w \in Messages : Remembered(w)'
  BY <1>1, Pruned DEF IInv, Remembered
<1> QED
  BY <1>1, <1>2, <1>3 DEF IInv

\* A message that is fresh and not remembered has not been accepted.
LEMMA FreshIsNew ==
    ASSUME IInv, NEW v \in Messages, Fresh(ts[v]), v \notin Kept
    PROVE  accepted[v] = 0
<1>1. /\ clock \in Nat /\ setback \in 0..MaxSetback /\ MaxSetback \in Nat
      /\ ts[v] \in Int /\ expiry[v] \in Nat
      /\ MaxAge \in Nat /\ Grace \in Nat /\ TTL \in Nat
  BY ModelTyped, WindowTyped DEF IInv, TypeOK
<1>2. SUFFICES ASSUME accepted[v] # 0 PROVE FALSE
  OBVIOUS
<1>3. /\ ts[v] + TTL <= expiry[v] + Grace
      /\ v \in seen \/ expiry[v] <= clock + setback
  BY <1>2 DEF IInv, Remembered
<1>4. expiry[v] <= clock + setback
  BY <1>3, Pruned
<1>5. clock - ts[v] <= MaxAge
  BY DEF Fresh
<1> QED
  BY <1>1, <1>3, <1>4, <1>5, CacheOutlivesWindow

\* An accepted message is remembered, at the cost of the oldest entry at most.
LEMMA AcceptStep ==
    ASSUME IInv, NEW v \in Messages, Accept(v)
    PROVE  IInv'
<1>1. /\ clock \in Nat /\ setback \in Nat /\ TTL \in Nat /\ Grace \in Nat
      /\ ts \in [Messages -> Int] /\ expiry \in [Messages -> Nat]
      /\ accepted \in [Messages -> Nat] /\ first \in [Messages -> Nat \cup {Never}]
      /\ seen \subseteq Messages
  BY ModelTyped, WindowTyped DEF IInv, TypeOK
<1>2. /\ ts[v] # Unsent /\ v \notin Kept /\ Fresh(ts[v])
      /\ expiry' = [expiry EXCEPT ![v] = clock + TTL]
      /\ first' = [first EXCEPT ![v] = IF @ = Never THEN clock ELSE @]
      /\ UNCHANGED <<clock, setback, ts>>
  BY DEF Accept
<1>3. accepted[v] = 0 /\ ts[v] <= clock + Grace
  BY <1>2, FreshIsNew DEF Fresh
<1>4. /\ Kept \subseteq seen /\ IsFiniteSet(Kept) /\ Cardinality(Kept) \in Nat
      /\ Cardinality(Kept) <= MaxEntries /\ MaxEntries \in Nat
      /\ \A w \in seen \ Kept : expiry[w] <= clock + setback
  BY Pruned, CacheTyped
<1>5. \A w \in Messages : /\ ts'[w] = Unsent => w # v /\ accepted[w] = 0 /\ first'[w] = Never
                          /\ first'[w] # Never => ts'[w] <= first'[w] + Grace
  <2>1. \A w \in Messages : /\ ts[w] = Unsent => accepted[w] = 0 /\ first[w] = Never
                            /\ first[w] # Never => ts[w] <= first[w] + Grace
    BY DEF IInv
  <2> QED
    BY <1>1, <1>2, <1>3, <2>1 DEF Never
<1>6. CASE /\ Cardinality(Kept) < MaxEntries
           /\ seen' = Kept \cup {v}
           /\ accepted' = [accepted EXCEPT ![v] = @ + 1]
  <2>1. CacheBounded'
    <3>1. IsFiniteSet(Kept \cup {v}) /\ Cardinality(Kept \cup {v}) = Cardinality(Kept) + 1
      BY <1>2, <1>4, FS_AddElement
    <3> QED
      BY <1>4, <1>6, <3>1 DEF CacheBounded
  <2>2. TypeOK'
    BY <1>1, <1>2, <1>4, <1>6, <2>1 DEF IInv, TypeOK
  <2>3. \A w \in Messages : Remembered(w)'
    BY <1>1, <1>2, <1>3, <1>4, <1>6 DEF IInv, Remembered
  <2> QED
    BY <1>1, <1>5, <1>6, <2>2, <2>3 DEF IInv
<1>7. ASSUME NEW x \in Kept,
             seen' = (Kept \ {x}) \cup {v},
             accepted' = [accepted EXCEPT ![v] = @ + 1, ![x] = 0]
      PROVE  IInv'
  <2>1. CacheBounded'
    <3>1. IsFiniteSet(Kept \ {x}) /\ Cardinality(Kept \ {x}) = Cardinality(Kept) - 1
      BY <1>4, FS_RemoveElement
    <3>2. /\ IsFiniteSet((Kept \ {x}) \cup {v})
          /\ Cardinality((Kept \ {x}) \cup {v}) = Cardinality(Kept \ {x}) + 1
      BY <1>2, <3>1, FS_AddElement
    <3> QED
      BY <1>4, <1>7, <3>1, <3>2 DEF CacheBounded
  <2>2. TypeOK'
    BY <1>1, <1>2, <1>4, <1>7, <2>1 DEF IInv, TypeOK
  <2>3. \A w \in Messages : accepted'[w] = IF w = x THEN 0 ELSE IF w = v THEN 1 ELSE accepted[w]
    BY <1>1, <1>2, <1>3, <1>4, <1>7
  <2>4. \A w \in Messages : Remembered(w)'
    BY <1>1, <1>2, <1>3, <1>4, <1>7, <2>3 DEF IInv, Remembered
  <2> QED
    BY <1>1, <1>5, <2>2, <2>3, <2>4 DEF IInv
<1> QED
  BY <1>6, <1>7 DEF Accept

\* A restart forgets all entries, and the history says so.
LEMMA RestartStep == ASSUME IInv, Restart PROVE IInv'
<1>1. /\ seen' = {}
      /\ accepted' = [v \in Messages |-> IF v \in seen THEN 0 ELSE accepted[v]]
      /\ UNCHANGED <<clock, setback, ts, expiry, first>>
  BY DEF Restart
<1>2. CacheBounded'
  BY <1>1, CacheTyped, FS_EmptySet DEF CacheBounded
<1>3. TypeOK'
  BY <1>1, <1>2 DEF IInv, TypeOK
<1>4. \A w \in Messages : Remembered(w)'
  BY <1>1 DEF IInv, Remembered
<1>5. \A w \in Messages : accepted[w] = 0 => accepted'[w] = 0
  BY <1>1
<1> QED
  BY <1>1, <1>2, <1>3, <1>4, <1>5 DEF IInv

\* The clock moves on, or is set back within its bound.
LEMMA ClockStep == ASSUME IInv, Tick \/ SetBack PROVE IInv'
<1>1. clock \in 0..MaxClock /\ setback \in 0..MaxSetback /\ MaxClock \in Nat /\ MaxSetback \in Nat
  BY ModelTyped DEF IInv, TypeOK
<1>2. /\ UNCHANGED <<ts, seen, expiry, accepted, first>>
      /\ \/ clock' = clock + 1 /\ setback' = setback
         \/ clock' = clock - 1 /\ setback' = setback + 1
      /\ clock' \in 0..MaxClock /\ setback' \in 0..MaxSetback
  BY <1>1 DEF Tick, SetBack
<1>3. TypeOK'
  BY <1>2 DEF IInv, TypeOK, CacheBounded
<1>4. ASSUME NEW w \in Messages PROVE Remembered(w)'
  <2>1. expiry[w] \in Nat /\ Remembered(w)
    BY DEF IInv, TypeOK
  <2>2. /\ clock \in Int /\ setback \in Int /\ clock' \in Int /\ setback' \in Int
        /\ expiry[w] \in Int
    BY <1>1, <1>2, <2>1
  <2> QED
    BY <1>2, <2>1, <2>2 DEF Remembered
<1> QED
  BY <1>2, <1>3, <1>4 DEF IInv

\* Every delivery, restart and clock step keeps the invariant.
LEMMA StepHolds == IInv /\ [Next]_vars => IInv'
<1> SUFFICES ASSUME IInv, [Next]_vars PROVE IInv'
  OBVIOUS
<1>1. ASSUME UNCHANGED vars PROVE IInv'
  BY <1>1 DEF vars, IInv, TypeOK, CacheBounded, Remembered
<1>2. ASSUME NEW v \in Messages, RefuseStale(v) PROVE IInv'
  BY <1>1, <1>2 DEF RefuseStale
<1> QED
  BY <1>1, <1>2, SignStep, RefuseStep, AcceptStep, RestartStep, ClockStep DEF Next

\* An accepted message is in the cache for as long as it is fresh, unless a restart
\* or a full cache lost it.
THEOREM Invariance == Spec => []IInv
<1> QED
  BY InitHolds, StepHolds, PTL DEF Spec

\* Every variable keeps its type.
THEOREM TypeCorrect == Spec => []TypeOK
<1>1. IInv => TypeOK
  BY DEF IInv
<1> QED
  BY Invariance, <1>1, PTL

\* A message is accepted once, unless a restart or a full cache lost its entry.
THEOREM AtMostOneAcceptance == Spec => []AcceptedOnce
<1>1. IInv => AcceptedOnce
  BY DEF IInv, Remembered, AcceptedOnce
<1> QED
  BY Invariance, <1>1, PTL

\* The seen-set never outgrows max_entries.
THEOREM CacheStaysBounded == Spec => []CacheBounded
<1>1. IInv => CacheBounded
  BY DEF IInv, TypeOK
<1> QED
  BY Invariance, <1>1, PTL

\* No copy is accepted later than MaxAge + Grace after the first, restarts or not.
THEOREM ExposureIsBounded == Spec => ExposureBounded
<1> DEFINE Late(v) == accepted'[v] > accepted[v] /\ first[v] # Never
                          => clock <= first[v] + MaxAge + Grace
<1>1. IInv /\ [Next]_vars => [\A v \in Messages : Late(v)]_vars
  <2> SUFFICES ASSUME IInv, [Next]_vars, NEW v \in Messages,
                      accepted'[v] > accepted[v], first[v] # Never
               PROVE  clock <= first[v] + MaxAge + Grace
    OBVIOUS
  <2>1. /\ accepted \in [Messages -> Nat] /\ ts[v] \in Int /\ clock \in Nat
        /\ first[v] \in Nat /\ MaxAge \in Nat /\ Grace \in Nat
    BY ModelTyped, WindowTyped DEF IInv, TypeOK
  <2>2. ts[v] <= first[v] + Grace
    BY DEF IInv
  <2>3. Fresh(ts[v])
    <3>1. CASE \E w \in Messages : Accept(w)
      BY <2>1, <3>1 DEF Accept
    <3>2. CASE accepted' = accepted
      BY <2>1, <3>2
    <3>3. CASE Restart
      BY <2>1, <3>3 DEF Restart
    <3> QED
      BY <3>1, <3>2, <3>3 DEF Next, Sign, RefuseStale, Refuse, Tick, SetBack, vars
  <2> QED
    BY <2>1, <2>2, <2>3 DEF Fresh
<1> QED
  BY Invariance, <1>1, PTL DEF Spec, ExposureBounded
-----------------------------------------------------------------------------
(* The exchange, whose peer is such an endpoint.                           *)

\* What has a date is sealed, and stays as it was sealed.  What the peer remembers
\* it has begun to answer, or cannot answer before it is started again.
EInv ==
    /\ ExchangeTypeOK
    /\ IInv
    /\ \A v \in Messages : ts[v] # Unsent => asked[v].at = "sealed"
    /\ NothingServableIsLost

\* Whatever the three programs do, the peer's window takes a step of Replay or none.
LEMMA WindowStep ==
    ASSUME [ExchangeNext]_exchange
    PROVE  [Next]_vars
<1>1. CASE UNCHANGED exchange
  BY <1>1 DEF exchange, window, vars
<1>2. ASSUME NEW v \in Messages, Accept(v) \/ RefuseStale(v) \/ Refuse(v) PROVE Next
  BY <1>2 DEF Next
<1>3. ASSUME NEW v \in Messages, NEW model \in Models, NEW roster \in Rosters,
             Lease(v, model, roster)
      PROVE  UNCHANGED vars
  BY <1>3 DEF Lease, window, vars
<1>4. ASSUME NEW v \in Messages, NEW date \in -Drift..(MaxClock + Drift), NEW sound,
             Seal(v, date, sound)
      PROVE  Next
  BY <1>4 DEF Seal, Next
<1>5. ASSUME NEW v \in Messages, Balk(v) \/ Relay(v) \/ Expire(v) \/ Finish(v)
      PROVE  UNCHANGED vars
  BY <1>5 DEF Balk, Relay, Expire, Finish, window, vars
<1>6. ASSUME NEW v \in Messages, Infer(v) \/ InferAgain(v) \/ InferAltered(v)
      PROVE  Next \/ UNCHANGED vars
  BY <1>2, <1>6 DEF Infer, InferAgain, InferAltered, Admit, RefuseEnvelope,
                    exchange, window, vars
<1>7. ASSUME NEW roster \in Rosters, RestartCoordinator(roster) PROVE UNCHANGED vars
  BY <1>7 DEF RestartCoordinator, window, vars
<1>8. ASSUME NEW roster \in Rosters, NEW key \in Keys, RestartPeer(roster, key) PROVE Next
  BY <1>8 DEF RestartPeer, Next
<1>9. CASE Tick \/ SetBack
  BY <1>9 DEF Next
<1> QED
  BY <1>1, <1>3, <1>4, <1>5, <1>6, <1>7, <1>8, <1>9 DEF ExchangeNext

\* Handing a slot on and redeeming a lease keep the coordinator's table typed.
LEMMA PoolTyped ==
    ASSUME used \in SUBSET Messages, holder \in [Messages -> {ThePeer, NoPeer}],
           \/ Pool!Reassign
           \/ \E v \in Messages : Pool!Redeem(v)
           \/ UNCHANGED pool
    PROVE  holder' \in [Messages -> {ThePeer, NoPeer}] /\ used' \in SUBSET Messages
<1>1. CASE Pool!Reassign
  <2>1. {ThePeer} \cup {NoPeer} = {ThePeer, NoPeer}
    OBVIOUS
  <2> QED
    BY <1>1, <2>1 DEF Pool!Reassign
<1>2. ASSUME NEW v \in Messages, Pool!Redeem(v)
      PROVE  holder' \in [Messages -> {ThePeer, NoPeer}] /\ used' \in SUBSET Messages
  BY <1>2 DEF Pool!Redeem
<1>3. CASE UNCHANGED pool
  BY <1>3 DEF pool
<1> QED
  BY <1>1, <1>2, <1>3

\* A step leaves the rosters and the key among those that are about, the clients, the
\* relays and the answers where they can be, and moves slots as LeasePool allows.
StepTyped ==
    /\ coordinator' \in Rosters
    /\ peer' \in [roster : Rosters, key : Keys]
    /\ relay' \in [Messages -> {"none", "open", "serving"}]
    /\ asked' \in [Messages -> Exchanges]
    /\ answered' \in SUBSET Messages
    /\ \/ Pool!Reassign
       \/ \E v \in Messages : Pool!Redeem(v)
       \/ UNCHANGED pool

LEMMA StepsTyped ==
    ASSUME ExchangeTypeOK, [ExchangeNext]_exchange
    PROVE  StepTyped
<1>1. /\ coordinator \in Rosters /\ peer \in [roster : Rosters, key : Keys]
      /\ asked \in [Messages -> Exchanges]
      /\ relay \in [Messages -> {"none", "open", "serving"}]
      /\ answered \in SUBSET Messages
  BY DEF ExchangeTypeOK
<1>2. \A r \in Rosters : Entry[r].key \in Keys
  BY RosterTyped
<1>3. CASE UNCHANGED exchange
  BY <1>1, <1>3 DEF exchange, StepTyped
<1>4. ASSUME NEW v \in Messages, NEW model \in Models, NEW roster \in Rosters,
             Lease(v, model, roster)
      PROVE  StepTyped
  <2>1. [at |-> "leased", model |-> model, roster |-> roster,
         offered |-> Entry[coordinator].key] \in Exchanges
    BY <1>1, <1>2 DEF Exchanges
  <2> QED
    BY <1>1, <1>4, <2>1 DEF Lease, StepTyped
<1>5. ASSUME NEW v \in Messages, NEW date \in -Drift..(MaxClock + Drift), NEW sound \in BOOLEAN,
             Seal(v, date, sound)
      PROVE  StepTyped
  <2>1. asked[v].at = "leased" /\ asked[v] \in Exchanges
    BY <1>1, <1>5 DEF Seal
  <2>2. asked[v].roster \in Rosters
    BY <2>1 DEF Exchanges, Idle, Refused
  <2>3. Entry[asked[v].roster].key \in Keys
    BY <1>2, <2>2
  <2>4. Sealed(Entry[asked[v].roster].key, sound) \in Exchanges
    BY <2>3 DEF Sealed, Exchanges
  <2> QED
    BY <1>1, <1>5, <2>4 DEF Seal, StepTyped
<1>6. ASSUME NEW v \in Messages, Balk(v) PROVE StepTyped
  <2>1. Refused \in Exchanges
    BY DEF Exchanges
  <2> QED
    BY <1>1, <1>6, <2>1 DEF Balk, StepTyped
<1>7. ASSUME NEW v \in Messages, Relay(v) PROVE StepTyped
  BY <1>1, <1>7 DEF Relay, StepTyped
<1>8. ASSUME NEW v \in Messages, Expire(v) \/ Finish(v) PROVE StepTyped
  BY <1>1, <1>8 DEF Expire, Finish, EndRelay, StepTyped
<1>9. ASSUME NEW v \in Messages, Infer(v) PROVE StepTyped
  BY <1>1, <1>9 DEF Infer, Admit, EndRelay, StepTyped
<1>10. ASSUME NEW v \in Messages, InferAgain(v) \/ InferAltered(v) PROVE StepTyped
  BY <1>1, <1>3, <1>10 DEF InferAgain, InferAltered, Admit, StepTyped
<1>11. ASSUME NEW roster \in Rosters, RestartCoordinator(roster) PROVE StepTyped
  <2>1. Pool!Reassign
    <3>1. holder' = [v \in Messages |-> NoPeer] /\ used' = {}
      BY <1>11 DEF RestartCoordinator
    <3>2. Pool!Load(holder', ThePeer) <= Slots
      <4>1. {v \in Messages : holder'[v] = ThePeer} = {}
        BY <3>1 DEF ThePeer, NoPeer
      <4>2. Cardinality({}) <= Slots
        BY FS_EmptySet, SlotsTyped
      <4> QED
        BY <4>1, <4>2 DEF Pool!Load, Cardinality, Pool!Cardinality
    <3>3. holder' \in [Messages -> {ThePeer} \cup {NoPeer}]
      BY <3>1
    <3>4. \A v \in Messages : holder'[v] = NoPeer
      BY <3>1
    <3>5. used' = {v \in used : holder'[v] # NoPeer}
      BY <3>1, <3>4 DEF ExchangeTypeOK
    <3> QED
      BY <3>2, <3>3, <3>4, <3>5 DEF Pool!Reassign
  <2> QED
    BY <1>1, <1>11, <2>1 DEF RestartCoordinator, StepTyped
<1>12. ASSUME NEW roster \in Rosters, NEW key \in Keys, RestartPeer(roster, key)
       PROVE  StepTyped
  BY <1>1, <1>12 DEF RestartPeer, StepTyped
<1>13. CASE (Tick \/ SetBack) /\ UNCHANGED <<coordinator, peer, pool, asked, relay, answered>>
  BY <1>1, <1>13 DEF StepTyped
<1> QED
  BY <1>3, <1>4, <1>5, <1>6, <1>7, <1>8, <1>9, <1>10, <1>11, <1>12, <1>13 DEF ExchangeNext

\* Nothing is asked for when the three programs start.
LEMMA ExchangeInitHolds == ExchangeInit => EInv
<1> SUFFICES ASSUME ExchangeInit PROVE EInv
  OBVIOUS
<1>1. IInv
  BY InitHolds DEF ExchangeInit
<1>2. Idle \in Exchanges
  BY DEF Exchanges
<1>3. holder = [v \in Messages |-> NoPeer] /\ used = {}
  BY DEF ExchangeInit, Pool!Init
<1>4. ExchangeTypeOK
  BY <1>1, <1>2, <1>3 DEF ExchangeInit, ExchangeTypeOK, IInv
<1>5. ts = [v \in Messages |-> Unsent] /\ seen = {}
  BY DEF ExchangeInit, Init
<1> QED
  BY <1>1, <1>4, <1>5 DEF EInv, NothingServableIsLost

\* A client's record changes only before it is sealed, and a message gets its date
\* with its seal.
LEMMA SealedStays ==
    ASSUME ExchangeTypeOK, [ExchangeNext]_exchange, NEW w \in Messages
    PROVE  /\ asked[w].at = "sealed" => asked'[w] = asked[w]
           /\ ts'[w] = ts[w] \/ asked'[w].at = "sealed"
<1> DEFINE Stays == /\ asked[w].at = "sealed" => asked'[w] = asked[w]
                    /\ ts'[w] = ts[w] \/ asked'[w].at = "sealed"
<1>1. asked \in [Messages -> Exchanges] /\ ts \in [Messages -> Int]
  BY DEF ExchangeTypeOK, TypeOK
<1>2. CASE UNCHANGED <<asked, ts>>
  BY <1>2
<1>3. ASSUME NEW v \in Messages, NEW model \in Models, NEW roster \in Rosters,
             Lease(v, model, roster)
      PROVE  Stays
  BY <1>1, <1>3 DEF Lease, Idle, window
<1>4. ASSUME NEW v \in Messages, NEW date \in -Drift..(MaxClock + Drift), NEW sound \in BOOLEAN,
             Seal(v, date, sound)
      PROVE  Stays
  <2>1. Sealed(Entry[asked[v].roster].key, sound).at = "sealed"
    BY DEF Sealed
  <2> QED
    BY <1>1, <1>4, <2>1 DEF Seal, Sign
<1>5. ASSUME NEW v \in Messages, Balk(v) PROVE Stays
  BY <1>1, <1>5 DEF Balk, window
<1>6. ASSUME NEW v \in Messages,
             \/ Relay(v) \/ Expire(v) \/ Finish(v)
             \/ Infer(v) \/ InferAgain(v) \/ InferAltered(v)
      PROVE  UNCHANGED <<asked, ts>>
  BY <1>6 DEF Relay, Expire, Finish, Infer, InferAgain, InferAltered, Admit, RefuseEnvelope,
              Accept, RefuseStale, Refuse, exchange, window, vars
<1>7. ASSUME \/ \E roster \in Rosters : RestartCoordinator(roster)
             \/ \E roster \in Rosters, key \in Keys : RestartPeer(roster, key)
             \/ (Tick \/ SetBack) /\ UNCHANGED <<coordinator, peer, pool, asked, relay, answered>>
             \/ UNCHANGED exchange
      PROVE  UNCHANGED <<asked, ts>>
  BY <1>7 DEF RestartCoordinator, RestartPeer, Restart, Tick, SetBack, exchange, window
<1> QED
  BY <1>2, <1>3, <1>4, <1>5, <1>6, <1>7 DEF ExchangeNext

\* A dated id enters the seen-set when the peer begins to answer, or when what it opens
\* is of no use to it, and the key the peer opens with changes only when the set is emptied.
LEMMA SeenSteps ==
    ASSUME [ExchangeNext]_exchange
    PROVE  \/ seen' = {}
           \/ /\ peer' = peer /\ answered \subseteq answered'
              /\ \A w \in seen' \ seen : ts[w] # Unsent /\ (w \in answered' \/ ~ Servable(w))
<1> DEFINE Enters == /\ peer' = peer /\ answered \subseteq answered'
                     /\ \A w \in seen' \ seen : ts[w] # Unsent /\ (w \in answered' \/ ~ Servable(w))
<1>1. CASE seen' = seen /\ peer' = peer /\ answered' = answered
  BY <1>1
<1>2. ASSUME NEW v \in Messages, Admit(v), peer' = peer PROVE Enters
  BY <1>2 DEF Admit, Accept, Kept
<1>3. ASSUME NEW v \in Messages, RefuseEnvelope(v), UNCHANGED <<peer, answered>>
      PROVE  Enters
  BY <1>3 DEF RefuseEnvelope, Accept, Refuse, RefuseStale, Kept, window, vars
<1>4. ASSUME NEW v \in Messages, Infer(v) \/ InferAgain(v) PROVE Enters
  BY <1>2, <1>3, <1>4 DEF Infer, InferAgain
<1>5. ASSUME NEW v \in Messages,
             \/ \E model \in Models, roster \in Rosters : Lease(v, model, roster)
             \/ \E date \in -Drift..(MaxClock + Drift), sound \in BOOLEAN : Seal(v, date, sound)
             \/ Balk(v) \/ Relay(v) \/ Expire(v) \/ Finish(v) \/ InferAltered(v)
      PROVE  seen' = seen /\ peer' = peer /\ answered' = answered
  BY <1>5 DEF Lease, Seal, Sign, Balk, Relay, Expire, Finish, InferAltered, exchange, window
<1>6. ASSUME \/ \E roster \in Rosters : RestartCoordinator(roster)
             \/ (Tick \/ SetBack) /\ UNCHANGED <<coordinator, peer, pool, asked, relay, answered>>
             \/ UNCHANGED exchange
      PROVE  seen' = seen /\ peer' = peer /\ answered' = answered
  BY <1>6 DEF RestartCoordinator, Tick, SetBack, exchange, window
<1>7. ASSUME NEW roster \in Rosters, NEW key \in Keys, RestartPeer(roster, key)
      PROVE  seen' = {}
  BY <1>7 DEF RestartPeer, Restart
<1> QED
  BY <1>1, <1>4, <1>5, <1>6, <1>7 DEF ExchangeNext

\* Every step of the three programs keeps the invariant.
LEMMA ExchangeStepHolds == EInv /\ [ExchangeNext]_exchange => EInv'
<1> SUFFICES ASSUME EInv, [ExchangeNext]_exchange PROVE EInv'
  OBVIOUS
<1>1. ExchangeTypeOK /\ IInv
  BY DEF EInv
<1>2. IInv'
  BY <1>1, WindowStep, StepHolds
<1>3. ExchangeTypeOK'
  <2>1. StepTyped
    BY <1>1, StepsTyped
  <2>2. TypeOK'
    BY <1>2 DEF IInv
  <2>3. used \in SUBSET Messages /\ holder \in [Messages -> {ThePeer, NoPeer}]
    BY <1>1 DEF ExchangeTypeOK
  <2>4. holder' \in [Messages -> {ThePeer, NoPeer}] /\ used' \in SUBSET Messages
    BY <2>1, <2>3, PoolTyped DEF StepTyped
  <2> QED
    BY <2>1, <2>2, <2>4 DEF ExchangeTypeOK, StepTyped
<1>4. \A w \in Messages : ts'[w] # Unsent => asked'[w].at = "sealed"
  BY <1>1, SealedStays DEF EInv
<1>5. NothingServableIsLost'
  <2> SUFFICES ASSUME NEW w \in seen', w \notin answered' PROVE ~ Servable(w)'
    BY DEF NothingServableIsLost
  <2>1. w \in Messages /\ ts'[w] # Unsent
    BY <1>2 DEF IInv, TypeOK, Remembered
  <2>2. /\ peer' = peer /\ answered \subseteq answered'
        /\ w \notin seen => ts[w] # Unsent /\ ~ Servable(w)
    <3>1. seen' # {}
      OBVIOUS
    <3> QED
      BY <3>1, SeenSteps
  <2>3. ~ Servable(w)
    BY <2>2 DEF EInv, NothingServableIsLost
  <2>4. asked'[w] = asked[w]
    <3>1. CASE w \in seen
      <4>1. ts[w] # Unsent
        BY <1>1, <2>1, <3>1 DEF IInv, Remembered
      <4> QED
        BY <1>1, <2>1, <4>1, SealedStays DEF EInv
    <3>2. CASE ts[w] # Unsent
      BY <1>1, <2>1, <3>2, SealedStays DEF EInv
    <3> QED
      BY <2>2, <3>1, <3>2
  <2> QED
    BY <2>2, <2>3, <2>4 DEF Servable
<1> QED
  BY <1>2, <1>3, <1>4, <1>5 DEF EInv

\* Whatever is in the seen-set and is not being answered cannot be opened by the peer.
THEOREM ExchangeInvariance == ExchangeSpec => []EInv
<1> QED
  BY ExchangeInitHolds, ExchangeStepHolds, PTL DEF ExchangeSpec

\* Every variable of the exchange keeps its type.
THEOREM ExchangeTypeCorrect == ExchangeSpec => []ExchangeTypeOK
<1>1. EInv => ExchangeTypeOK
  BY DEF EInv
<1> QED
  BY ExchangeInvariance, <1>1, PTL

\* A refusal never costs a request that the peer could have answered: what it remembers
\* it has begun to answer, or it cannot open it with the key it runs with.
THEOREM NothingIsLost == ExchangeSpec => []NothingServableIsLost
<1>1. EInv => NothingServableIsLost
  BY DEF EInv
<1> QED
  BY ExchangeInvariance, <1>1, PTL

\* The exchange gives its peer's window nothing to do that Replay does not allow.
THEOREM PeerImplementsReplay == ExchangeSpec => Spec
<1>1. ExchangeInit => Init
  BY DEF ExchangeInit
<1> QED
  BY <1>1, WindowStep, PTL DEF ExchangeSpec, Spec

\* In an exchange too the peer accepts a message once, unless it lost its entry.
THEOREM OncePerExchange == ExchangeSpec => []AcceptedOnce
<1> QED
  BY PeerImplementsReplay, AtMostOneAcceptance, PTL

\* In an exchange too no copy is accepted later than the window allows.
THEOREM ExposurePerExchange == ExchangeSpec => ExposureBounded
<1> QED
  BY PeerImplementsReplay, ExposureIsBounded, PTL

\* An envelope whose relay begins is fresh and new to a peer that lists its sender and
\* can open it, whatever copies reached that peer before.
THEOREM RelayedIsWelcome == ExchangeSpec => LetThroughIsWelcome
<1> DEFINE Welcome(v) == /\ relay[v] = "none" /\ relay'[v] = "open"
                         /\ Listed /\ Servable(v)
                         => Fresh(ts[v]) /\ v \notin Kept
<1>1. EInv /\ [ExchangeNext]_exchange => [\A v \in Messages \ answered : Welcome(v)]_exchange
  <2> SUFFICES ASSUME EInv, [ExchangeNext]_exchange, NEW v \in Messages \ answered,
                      relay[v] = "none", relay'[v] = "open", Servable(v)
               PROVE  Fresh(ts[v]) /\ v \notin Kept
    OBVIOUS
  <2>1. relay \in [Messages -> {"none", "open", "serving"}]
    BY DEF EInv, ExchangeTypeOK
  <2>2. relay' # relay
    OBVIOUS
  <2>3. ASSUME NEW w \in Messages, Finish(w) \/ Infer(w) PROVE FALSE
    BY <2>1, <2>2, <2>3 DEF Finish, EndRelay, Infer, NoPeer
  <2>4. PICK w \in Messages : Relay(w)
    BY <2>2, <2>3 DEF ExchangeNext, Lease, Seal, Balk, Expire, InferAgain, InferAltered,
                      RestartCoordinator, RestartPeer, exchange
  <2>5. w = v /\ Fresh(ts[v])
    BY <2>1, <2>4 DEF Relay
  <2>6. v \notin Kept
    BY DEF EInv, NothingServableIsLost, Kept
  <2> QED
    BY <2>5, <2>6
<1> QED
  BY ExchangeInvariance, <1>1, PTL DEF ExchangeSpec, LetThroughIsWelcome

-----------------------------------------------------------------------------
(* The coordinator's slots in the exchange.                                *)

\* A lease in use has a relay and the reverse, and only what is sealed is relayed.
SlotsSound ==
    /\ SlotsFollowRelays
    /\ \A v \in Messages : relay[v] # "none" => asked[v].at = "sealed"

\* The end of a relay returns its lease, if it is still there.
LEMMA RelayEnds ==
    ASSUME ExchangeTypeOK, SlotsSound, NEW v \in Messages, EndRelay(v), asked' = asked
    PROVE  SlotsSound'
<1>1. /\ relay' = [relay EXCEPT ![v] = "none"] /\ holder' = [holder EXCEPT ![v] = NoPeer]
      /\ used' = {w \in used : holder'[w] # NoPeer}
      /\ holder \in [Messages -> {ThePeer, NoPeer}]
      /\ relay \in [Messages -> {"none", "open", "serving"}]
  BY DEF EndRelay, Pool!Reassign, ExchangeTypeOK
<1> QED
  BY <1>1 DEF SlotsSound, SlotsFollowRelays, ThePeer, NoPeer

\* Every step keeps marks and relays together.
LEMMA SlotsStep ==
    ASSUME ExchangeTypeOK, SlotsSound, [ExchangeNext]_exchange
    PROVE  SlotsSound'
<1>1. /\ holder \in [Messages -> {ThePeer, NoPeer}] /\ used \in SUBSET Messages
      /\ relay \in [Messages -> {"none", "open", "serving"}]
      /\ asked \in [Messages -> Exchanges]
  BY DEF ExchangeTypeOK
<1>2. CASE UNCHANGED <<holder, used, relay, asked>>
  BY <1>2 DEF SlotsSound, SlotsFollowRelays
\* A lease is handed to an exchange that has none, and takes no other's.
<1>3. ASSUME NEW v \in Messages, NEW model \in Models, NEW roster \in Rosters,
             Lease(v, model, roster)
      PROVE  SlotsSound'
  <2>1. /\ holder' = [holder EXCEPT ![v] = ThePeer] /\ relay' = relay
        /\ used' = {w \in used : holder'[w] # NoPeer}
        /\ asked[v].at = "idle"
        /\ \A w \in Messages \ {v} : asked'[w] = asked[w]
    BY <1>1, <1>3 DEF Lease, Pool!Reassign, Idle
  <2>2. relay[v] = "none"
    BY <2>1 DEF SlotsSound
  <2> QED
    BY <1>1, <2>1, <2>2 DEF SlotsSound, SlotsFollowRelays, ThePeer, NoPeer
\* The client's own steps are those of one that has no relay yet.
<1>4. ASSUME NEW v \in Messages,
             \/ \E date \in -Drift..(MaxClock + Drift), sound \in BOOLEAN : Seal(v, date, sound)
             \/ Balk(v)
      PROVE  SlotsSound'
  <2>1. /\ holder' = holder /\ used' = used /\ relay' = relay
        /\ asked[v].at = "leased"
        /\ \A w \in Messages \ {v} : asked'[w] = asked[w]
    BY <1>1, <1>4 DEF Seal, Balk, pool
  <2>2. relay[v] = "none"
    BY <2>1 DEF SlotsSound
  <2> QED
    BY <2>1, <2>2 DEF SlotsSound, SlotsFollowRelays
<1>5. ASSUME NEW v \in Messages, Relay(v) PROVE SlotsSound'
  <2>1. /\ relay' = [relay EXCEPT ![v] = "open"] /\ used' = used \cup {v}
        /\ holder' = holder /\ holder[v] = ThePeer /\ asked' = asked
        /\ asked[v].at = "sealed"
    BY <1>1, <1>5 DEF Relay, Pool!Redeem
  <2> QED
    BY <1>1, <2>1 DEF SlotsSound, SlotsFollowRelays
<1>6. ASSUME NEW v \in Messages, Expire(v) PROVE SlotsSound'
  <2>1. /\ relay' = relay /\ asked' = asked /\ holder' = [holder EXCEPT ![v] = NoPeer]
        /\ used' = {w \in used : holder'[w] # NoPeer}
    BY <1>6 DEF Expire, Pool!Reassign
  <2> QED
    BY <1>1, <2>1 DEF SlotsSound, SlotsFollowRelays, ThePeer, NoPeer
<1>7. ASSUME NEW v \in Messages, Finish(v) PROVE SlotsSound'
  BY <1>7, RelayEnds DEF Finish
<1>8. ASSUME NEW v \in Messages, Infer(v) PROVE SlotsSound'
  <2>1. CASE EndRelay(v) /\ asked' = asked
    BY <2>1, RelayEnds
  <2>2. CASE /\ relay[v] = "open" /\ relay' = [relay EXCEPT ![v] = "serving"]
             /\ asked' = asked /\ UNCHANGED pool
    BY <1>1, <2>2 DEF SlotsSound, SlotsFollowRelays, pool
  <2> QED
    BY <1>8, <2>1, <2>2 DEF Infer
<1>9. ASSUME NEW roster \in Rosters, RestartCoordinator(roster) PROVE SlotsSound'
  <2>1. /\ used' = {} /\ \A v \in Messages : relay'[v] = "none"
    BY <1>9 DEF RestartCoordinator
  <2> QED
    BY <2>1 DEF SlotsSound, SlotsFollowRelays
<1>10. ASSUME \/ \E v \in Messages : InferAgain(v) \/ InferAltered(v)
              \/ \E roster \in Rosters, key \in Keys : RestartPeer(roster, key)
              \/ (Tick \/ SetBack) /\ UNCHANGED <<coordinator, peer, pool, asked, relay, answered>>
              \/ UNCHANGED exchange
       PROVE  SlotsSound'
  <2>1. UNCHANGED <<holder, used, relay, asked>>
    BY <1>10 DEF InferAgain, InferAltered, RestartPeer, exchange, pool
  <2> QED
    BY <1>2, <2>1
<1> QED
  BY <1>3, <1>4, <1>5, <1>6, <1>7, <1>8, <1>9, <1>10 DEF ExchangeNext

\* The leases in force that are marked are those a relay runs on: whoever ends a relay, and
\* whatever became of the lease in between, no slot stays behind.
THEOREM SlotsAreFollowed == ExchangeSpec => []SlotsFollowRelays
<1>1. ExchangeInit => SlotsSound
  BY DEF ExchangeInit, Pool!Init, SlotsSound, SlotsFollowRelays, ThePeer, NoPeer
<1>2. EInv /\ SlotsSound /\ [ExchangeNext]_exchange => SlotsSound'
  BY SlotsStep DEF EInv
<1>3. SlotsSound => SlotsFollowRelays
  BY DEF SlotsSound
<1> QED
  BY <1>1, <1>2, <1>3, ExchangeInvariance, PTL DEF ExchangeSpec

\* The three programs together move slots as LeasePool allows, a restart of the
\* coordinator included.
THEOREM CoordinatorImplementsLeasePool == ExchangeSpec => Pool!Spec
<1>1. ExchangeInit => Pool!Init
  BY DEF ExchangeInit
<1>2. EInv /\ [ExchangeNext]_exchange => [Pool!Next]_(Pool!vars)
  <2> SUFFICES ASSUME EInv, [ExchangeNext]_exchange PROVE [Pool!Next]_(Pool!vars)
    OBVIOUS
  <2>1. StepTyped
    BY StepsTyped DEF EInv
  <2> QED
    BY <2>1 DEF StepTyped, Pool!Next, Pool!vars, pool
<1> QED
  BY <1>1, <1>2, ExchangeInvariance, PTL DEF ExchangeSpec, Pool!Spec
==============================================================================
