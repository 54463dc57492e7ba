-------------------------------- MODULE Replay --------------------------------
(***************************************************************************)
(* Replay rejection: the freshness window and the seen-set that the        *)
(* coordinator applies to signed requests (their nonce) and a peer applies *)
(* to envelopes (their request_id).  One instance of this module is one    *)
(* such endpoint.  A message is signed once, with the sender's idea of the *)
(* time, and the network may deliver it any number of times, or late.      *)
(*                                                                         *)
(* The endpoint reads the wall clock, which may be set back now and then:  *)
(* setback is how much further it once showed than it should have, and     *)
(* MaxSetback bounds what all the corrections together take away.          *)
(***************************************************************************)
EXTENDS Integers, FiniteSets

CONSTANTS
    Messages,
    MaxAge,             \* max_age
    Grace,              \* CLOCK_SKEW_GRACE
    TTL,                \* how long the cache remembers: twice max_age
    MaxEntries,         \* max_entries
    MaxSetback,         \* bound on what clock corrections take away in total
    Drift,              \* how far a sender's clock may be off
    MaxClock            \* bound of the model: the wall clock stops there

ASSUME WindowTyped == MaxAge \in Nat /\ Grace \in Nat /\ TTL \in Nat
ASSUME ModelTyped == MaxSetback \in Nat /\ Drift \in Nat /\ MaxClock \in Nat
ASSUME CacheTyped == MaxEntries \in Nat \ {0}

\* The cache must outlive the window: a message may be dated Grace ahead, stays
\* fresh for MaxAge after its date, and corrections may stretch that.
ASSUME CacheOutlivesWindow == Grace + MaxAge + MaxSetback < TTL

Unsent == -1 - Drift            \* earlier than any date a sender can write
Never == -1

VARIABLES
    clock,      \* the endpoint's wall clock
    setback,    \* what corrections took away so far
    ts,         \* ts[v]: the date message v was signed with, or Unsent
    seen,       \* the keys of NonceCache._seen
    expiry,     \* expiry[v]: its value for v (of no account when v is not a key)
    accepted,   \* accepted[v]: how often v was accepted, since the cache last
                \* lost v to a restart or to a newer entry (history)
    first       \* first[v]: the clock when v was accepted first, or Never (history)

vars == <<clock, setback, ts, seen, expiry, accepted, first>>

-----------------------------------------------------------------------------
\* (mutant of Fresh) no bound on messages from the future
FreshAhead(date) == clock - date <= MaxAge

\* check_fresh.  Dates that are not numbers never get here: they are refused.
Fresh(date) == date <= clock + Grace /\ clock - date <= MaxAge

\* (mutant of Kept) forgets an entry as soon as the message is late
KeptShort == {v \in seen : expiry[v] > clock + MaxAge}

\* _prune: entries that reach their expiry are dropped.
Kept == {v \in seen : expiry[v] > clock}

\* min(_seen, key=_seen.get); any of them when several are due together.
Oldest(v) == v \in Kept /\ \A w \in Kept : expiry[v] <= expiry[w]

\* A sender signs v, by its own clock.
Sign(v, date) ==
    /\ ts[v] = Unsent
    /\ date \in (clock - Drift)..(clock + Drift)
    /\ ts' = [ts EXCEPT ![v] = date]
    /\ UNCHANGED <<clock, setback, seen, expiry, accepted, first>>

\* v arrives outside its window: refused before the cache is asked.
RefuseStale(v) ==
    /\ ts[v] # Unsent
    /\ ~ Fresh(ts[v])
    /\ UNCHANGED vars

\* The cache has seen v: refused, but the cache is pruned all the same.
Refuse(v) ==
    /\ ts[v] # Unsent
    /\ Fresh(ts[v])
    /\ v \in Kept
    /\ seen' = Kept
    /\ UNCHANGED <<clock, setback, ts, expiry, accepted, first>>

\* (mutant of Accept) a full cache simply grows
AcceptGrowing(v) ==
    /\ ts[v] # Unsent
    /\ Fresh(ts[v])
    /\ v \notin Kept
    /\ seen' = Kept \cup {v}
    /\ expiry' = [expiry EXCEPT ![v] = clock + TTL]
    /\ accepted' = [accepted EXCEPT ![v] = @ + 1]
    /\ first' = [first EXCEPT ![v] = IF @ = Never THEN clock ELSE @]
    /\ UNCHANGED <<clock, setback, ts>>

\* v arrives, is fresh and not in the cache: it is remembered, at the expense
\* of the entry that is due soonest when the cache is full.
Accept(v) ==
    /\ ts[v] # Unsent
    /\ Fresh(ts[v])
    /\ v \notin Kept
    /\ \/ /\ Cardinality(Kept) < MaxEntries
          /\ seen' = Kept \cup {v}
          /\ accepted' = [accepted EXCEPT ![v] = @ + 1]
       \/ /\ Cardinality(Kept) >= MaxEntries
          /\ \E w \in Kept : /\ Oldest(w)
                             /\ seen' = (Kept \ {w}) \cup {v}
                             /\ accepted' = [accepted EXCEPT ![v] = @ + 1, ![w] = 0]
    /\ expiry' = [expiry EXCEPT ![v] = clock + TTL]
    /\ first' = [first EXCEPT ![v] = IF @ = Never THEN clock ELSE @]
    /\ UNCHANGED <<clock, setback, ts>>

\* The cache lives in memory only.
Restart ==
    /\ seen' = {}
    /\ accepted' = [v \in Messages |-> IF v \in seen THEN 0 ELSE accepted[v]]
    /\ UNCHANGED <<clock, setback, ts, expiry, first>>

Tick ==
    /\ clock < MaxClock
    /\ clock' = clock + 1
    /\ UNCHANGED <<setback, ts, seen, expiry, accepted, first>>

\* The machine's clock is corrected backwards.
SetBack ==
    /\ clock > 0
    /\ setback < MaxSetback
    /\ clock' = clock - 1
    /\ setback' = setback + 1
    /\ UNCHANGED <<ts, seen, expiry, accepted, first>>

Init ==
    /\ clock = 0
    /\ setback = 0
    /\ ts = [v \in Messages |-> Unsent]
    /\ seen = {}
    /\ expiry = [v \in Messages |-> 0]
    /\ accepted = [v \in Messages |-> 0]
    /\ first = [v \in Messages |-> Never]

Next ==
    \/ \E v \in Messages : \E date \in -Drift..(MaxClock + Drift) : Sign(v, date)
    \/ \E v \in Messages : RefuseStale(v) \/ Refuse(v) \/ Accept(v)
    \/ Restart
    \/ Tick
    \/ SetBack

Spec == Init /\ [][Next]_vars

-----------------------------------------------------------------------------
(* Properties.                                                             *)

\* The cache never outgrows its bound.
CacheBounded == IsFiniteSet(seen) /\ Cardinality(seen) <= MaxEntries

\* Every variable keeps its type, and the cache its bound.
TypeOK ==
    /\ clock \in 0..MaxClock
    /\ setback \in 0..MaxSetback
    /\ ts \in [Messages -> Int]
    /\ seen \in SUBSET Messages /\ CacheBounded
    /\ expiry \in [Messages -> Nat]
    /\ accepted \in [Messages -> Nat]
    /\ first \in [Messages -> Nat \cup {Never}]

\* A message is accepted once, unless a restart or a full cache lost its entry:
\* expiry alone never lets it in again, however late copies arrive and whatever
\* the sender's clock and the corrections of ours are.
AcceptedOnce == \A v \in Messages : accepted[v] <= 1

\* The exposure is bounded by the window and not by uptime: even after restarts
\* no copy is accepted later than MaxAge + Grace after the first.
ExposureBounded ==
    [][\A v \in Messages :
          accepted'[v] > accepted[v] /\ first[v] # Never
              => clock <= first[v] + MaxAge + Grace]_vars
==============================================================================
