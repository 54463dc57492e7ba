----------------------------- MODULE RegistryProofs -----------------------------
(***************************************************************************)
(* What Registry guarantees for every roster, timeout, clock and sequence  *)
(* of beats.  The clock bound MaxTime is any number.                       *)
(***************************************************************************)
EXTENDS Registry, TLAPS

\* What an account m owes to the order of past payments: nothing is paid past
\* now, or past the moment an Attestation is settled up to.  While the head is
\* healthy (hh), the owner's beats have paid nothing past hc, the last of them,
\* and a member's own beats nothing that the owner's next one would pay again.
\* g are the units that lie in a gap between two owner beats.
Settled(m, a, g, hh, hc) ==
    /\ a \in Accounts
    /\ a.seen <= now /\ a.credited <= now
    /\ m \in Contributors => a.resident <= Declared[m]
    /\ \A u \in Units :
          /\ a.own[u] # 0 => /\ u <= now
                             /\ a.known => u <= a.credited
                             /\ hh => u <= hc \/ (a.known /\ u <= a.seen)
          /\ a.byHead[u] # 0 => /\ u <= now
                                /\ a.known => u <= a.credited
                                /\ hh => u <= hc
          /\ m \in Contributors /\ u \notin g
                => a.own[u] + a.byHead[u] <= Declared[m] * Total

\* The inductive invariant.
IInv ==
    /\ TypeOK
    /\ head.seen <= now /\ head.credited <= now
    /\ head.healthy => head.known
    /\ Contributors # {} => head.resident <= Capacity
    /\ \A m \in Earners : Settled(m, account[m], gap, head.healthy, head.credited)
    /\ \A u \in down : u <= now /\ (head.healthy => u <= head.credited)
    /\ HeadNeverPaysOutage

\* Arithmetic that the provers do not do on their own: products of naturals.
LEMMA ProductMonotone ==
    ASSUME NEW a \in Nat, NEW b \in Nat, NEW c \in Nat, a <= b
    PROVE  a * c \in Nat /\ b * c \in Nat /\ a * c <= b * c
OBVIOUS

\* Multiplication of naturals commutes.
LEMMA ProductCommutes ==
    ASSUME NEW a \in Nat, NEW b \in Nat
    PROVE  a * b = b * a
OBVIOUS

\* Claims are capped to something the roster vouches for.
LEMMA CapsBound ==
    ASSUME NEW gb \in Int
    PROVE  /\ Capped(gb) \in Nat
           /\ Contributors # {} => Capped(gb) <= Capacity
           /\ \A m \in Contributors : OwnShare(m, gb) \in Nat /\ OwnShare(m, gb) <= Declared[m]
<1>1. Capacity \in Nat /\ (Contributors # {} => Capacity > 0)
  BY SharesDeclared
<1>2. \A m \in Contributors : Declared[m] \in Nat
  BY SharesDeclared
<1>3. Floored(gb) \in Nat
  BY DEF Floored
<1> QED
  BY <1>1, <1>2, <1>3 DEF Capped, OwnShare, AtMost, Floored

\* What a payment does to a table.
LEMMA PaidTable ==
    ASSUME NEW table \in [Units -> Nat], NEW units \in Int, NEW amount \in Nat
    PROVE  /\ Paid(table, units, amount) \in [Units -> Nat]
           /\ \A u \in Units : Paid(table, units, amount)[u] =
                 IF now - units < u /\ u <= now THEN table[u] + amount ELSE table[u]
BY DEF Paid

\* The interval since a credit mark, capped, does not reach back beyond the mark.
LEMMA ElapsedRange ==
    ASSUME NEW since \in 0..MaxTime, now \in 0..MaxTime
    PROVE  Elapsed(since) \in Int /\ now - Elapsed(since) >= since
BY TimingTyped DEF Elapsed, AtMost

\* A split residency is a natural number, and at most the declared share.
LEMMA SplitBound ==
    ASSUME NEW m \in Earners, NEW gb \in Nat, Contributors # {} => gb <= Capacity
    PROVE  /\ Split(m, gb) \in Nat
           /\ m \in Contributors => Split(m, gb) <= Declared[m] * Total
<1>1. CASE Contributors = {}
  BY <1>1 DEF Split
<1>2. CASE Contributors # {}
  <2>1. m \in Contributors /\ Declared[m] \in Nat /\ Total \in Nat /\ gb <= Total
    BY <1>2, SharesDeclared DEF Earners
  <2>2. gb * Declared[m] \in Nat /\ gb * Declared[m] <= Total * Declared[m]
    BY <2>1, ProductMonotone
  <2>3. Total * Declared[m] = Declared[m] * Total
    BY <2>1, ProductCommutes
  <2> QED
    BY <1>2, <2>2, <2>3 DEF Split
<1> QED
  BY <1>1, <1>2

\* The units of time that an owner's beat closes too late.
Late == IF head.healthy /\ now - head.credited > HeartbeatTimeout
        THEN gap \cup {u \in Units : head.credited < u /\ u <= now} ELSE gap

\* An owner's beat settles an account up to now.
LEMMA SettleSettles ==
    ASSUME IInv, NEW m \in Earners, head.known
    PROVE  /\ Settled(m, Settle(m, account[m]), Late, TRUE, now)
           /\ Settle(m, account[m]).own = account[m].own
           /\ \A u \in down : Settle(m, account[m]).byHead[u] = 0
<1> DEFINE a == account[m]
           n == Elapsed(head.credited)
           s == Settle(m, a)
           paid == IF head.resident > 0 /\ head.healthy
                   THEN Paid(a.byHead, n, Split(m, head.resident)) ELSE a.byHead
<1>1. /\ now \in 0..MaxTime /\ head \in HeadStates
      /\ a \in Accounts /\ gap \subseteq Units /\ down \subseteq Units
  BY TimingTyped DEF IInv, TypeOK
<1>2. /\ a.known \in BOOLEAN /\ a.seen \in 0..MaxTime /\ a.resident \in Nat
      /\ a.credited \in 0..MaxTime
      /\ a.own \in [Units -> Nat] /\ a.byHead \in [Units -> Nat]
      /\ head.credited \in 0..MaxTime /\ head.resident \in Nat
      /\ head.healthy \in BOOLEAN
  BY <1>1 DEF Accounts, HeadStates
<1>3. n \in Int /\ now - n >= head.credited
  BY <1>1, <1>2, ElapsedRange
<1>4. Settled(m, a, gap, head.healthy, head.credited)
  BY DEF IInv
<1>5. \A u \in Units : u \in Nat
  BY DEF Units
<1>6. gap \subseteq Late
  BY DEF Late
<1>7. HeartbeatTimeout \in Nat
  BY TimingTyped
<1>8. head.credited <= now
  BY DEF IInv
<1> HIDE DEF a, n, s
<1>10. CASE n <= 0 \/ Attesting(a)
  <2>1. s = a
    BY <1>10 DEF s, n, Settle
  <2>2. Settled(m, a, Late, TRUE, now)
    BY <1>1, <1>2, <1>4, <1>5, <1>6, <1>8 DEF Settled
  <2>3. \A u \in down : a.byHead[u] = 0
    BY DEF IInv, HeadNeverPaysOutage, a
  <2> QED
    BY <2>1, <2>2, <2>3 DEF s, a
<1>11. CASE ~ (n <= 0 \/ Attesting(a))
  <2>1. s = [a EXCEPT !.known = TRUE, !.credited = now, !.byHead = paid]
    BY <1>11 DEF s, n, Settle
  <2>2. /\ Split(m, head.resident) \in Nat
        /\ m \in Contributors => Split(m, head.resident) <= Declared[m] * Total
    BY <1>2, SplitBound DEF IInv
  <2>3. /\ paid \in [Units -> Nat]
        /\ \A u \in Units : paid[u] =
              IF head.resident > 0 /\ head.healthy /\ now - n < u /\ u <= now
              THEN a.byHead[u] + Split(m, head.resident) ELSE a.byHead[u]
    BY <1>2, <1>3, <2>2, PaidTable
  <2> HIDE DEF paid
  <2>4. /\ s.known = TRUE /\ s.credited = now /\ s.byHead = paid
        /\ s.own = a.own /\ s.seen = a.seen /\ s.resident = a.resident
        /\ s \in Accounts
    BY <1>1, <1>2, <2>1, <2>3 DEF Accounts
  <2>5. ASSUME NEW u \in Units
        PROVE  /\ s.own[u] # 0 => u <= now /\ u <= s.credited
               /\ s.byHead[u] # 0 => u <= now /\ u <= s.credited
               /\ m \in Contributors /\ u \notin Late
                     => s.own[u] + s.byHead[u] <= Declared[m] * Total
    <3>1. /\ a.own[u] \in Nat /\ a.byHead[u] \in Nat /\ u \in Nat
          /\ a.own[u] # 0 => /\ u <= now
                             /\ head.healthy => u <= head.credited \/ (a.known /\ u <= a.seen)
          /\ a.byHead[u] # 0 => u <= now /\ (head.healthy => u <= head.credited)
          /\ m \in Contributors /\ u \notin gap
                => a.own[u] + a.byHead[u] <= Declared[m] * Total
          /\ a.seen <= now /\ a.credited <= now
      BY <1>2, <1>4, <1>5 DEF Settled
    <3>2. CASE head.healthy /\ now - n < u /\ u <= now
      <4>1. a.byHead[u] = 0
        BY <1>1, <1>2, <1>3, <3>1, <3>2
      <4>2. u \notin Late => a.own[u] = 0
        BY <1>1, <1>2, <1>3, <1>7, <1>11, <3>1, <3>2 DEF Late, Attesting
      <4>3. paid[u] = 0 \/ paid[u] = Split(m, head.resident)
        BY <2>2, <2>3, <3>2, <4>1
      <4>4. m \in Contributors => 0 <= Declared[m] * Total
        BY SharesDeclared, ProductMonotone
      <4> QED
        BY <1>1, <1>2, <1>6, <2>2, <2>4, <3>1, <3>2, <4>2, <4>3, <4>4
    <3>3. CASE ~ (head.healthy /\ now - n < u /\ u <= now)
      <4>1. paid[u] = a.byHead[u]
        BY <2>3, <3>3
      <4> QED
        BY <1>1, <1>2, <1>6, <1>8, <2>4, <3>1, <4>1
    <3> QED
      BY <3>2, <3>3
  <2>6. ASSUME NEW u \in down
        PROVE  paid[u] = 0
    <3>1. a.byHead[u] = 0 /\ u \in Units
      BY <1>1 DEF IInv, HeadNeverPaysOutage, a
    <3>2. head.healthy => ~ (now - n < u)
      BY <1>1, <1>2, <1>3, <1>5, <3>1 DEF IInv
    <3> QED
      BY <2>3, <3>1, <3>2
  <2>7. Settled(m, s, Late, TRUE, now)
    <3>1. s.seen <= now /\ s.credited <= now /\ (m \in Contributors => s.resident <= Declared[m])
      BY <1>1, <1>4, <2>4 DEF Settled
    <3> QED
      BY <2>4, <2>5, <3>1 DEF Settled
  <2> QED
    BY <2>4, <2>6, <2>7 DEF s, a
<1> QED
  BY <1>10, <1>11

\* A member's own beat keeps its account settled, pays nothing for time that
\* was paid for, and leaves the other table alone.
LEMMA AttestSettles ==
    ASSUME now \in 0..MaxTime, NEW m \in Contributors, NEW a, NEW g, NEW hh, NEW hc,
           Settled(m, a, g, hh, hc), NEW gb \in Int, NEW serving \in BOOLEAN
    PROVE  /\ Settled(m, Attested(m, a, gb, serving), g, hh, hc)
           /\ Attested(m, a, gb, serving).byHead = a.byHead
           /\ \A u \in Units :
                 Attested(m, a, gb, serving).own[u] # a.own[u]
                     => a.own[u] + a.byHead[u] = 0
<1> DEFINE n == Elapsed(a.credited)
           owed == a.known /\ n > 0 /\ a.resident > 0 /\ serving
           paid == IF owed THEN Paid(a.own, n, a.resident * Total) ELSE a.own
           s == Attested(m, a, gb, serving)
<1>1. /\ a.known \in BOOLEAN /\ a.seen \in 0..MaxTime /\ a.resident \in Nat
      /\ a.credited \in 0..MaxTime
      /\ a.own \in [Units -> Nat] /\ a.byHead \in [Units -> Nat]
      /\ a.resident <= Declared[m] /\ Declared[m] \in Nat /\ Total \in Nat
  BY SharesDeclared DEF Settled, Accounts
<1>2. n \in Int /\ now - n >= a.credited
  BY <1>1, ElapsedRange
<1>3. a.resident * Total \in Nat /\ a.resident * Total <= Declared[m] * Total
  BY <1>1, ProductMonotone
<1>4. OwnShare(m, gb) \in Nat /\ OwnShare(m, gb) <= Declared[m]
  BY CapsBound
<1> HIDE DEF n
<1>5. /\ paid \in [Units -> Nat]
      /\ \A u \in Units : paid[u] =
            IF owed /\ now - n < u /\ u <= now
            THEN a.own[u] + a.resident * Total ELSE a.own[u]
  BY <1>1, <1>2, <1>3, PaidTable
<1>6. s = [known |-> TRUE, seen |-> now, resident |-> OwnShare(m, gb),
           credited |-> now, own |-> paid, byHead |-> a.byHead]
  BY DEF Attested, n
<1> HIDE DEF owed, paid, s
<1>7. s \in Accounts
  BY <1>1, <1>4, <1>5, <1>6 DEF Accounts
<1>8. ASSUME NEW u \in Units
      PROVE  /\ paid[u] # 0 => u <= now
             /\ a.byHead[u] # 0 => u <= now /\ (hh => u <= hc)
             /\ u \notin g => paid[u] + a.byHead[u] <= Declared[m] * Total
             /\ paid[u] # a.own[u] => a.own[u] + a.byHead[u] = 0
  <2>0. u \in Nat
    BY DEF Units
  <2>1. /\ a.own[u] \in Nat /\ a.byHead[u] \in Nat /\ u \in Nat
        /\ a.own[u] # 0 => u <= now /\ (a.known => u <= a.credited)
        /\ a.byHead[u] # 0 => /\ u <= now
                              /\ a.known => u <= a.credited
                              /\ hh => u <= hc
        /\ u \notin g => a.own[u] + a.byHead[u] <= Declared[m] * Total
        /\ a.seen <= now /\ a.credited <= now
    BY <1>1, <2>0 DEF Settled
  <2>2. CASE owed /\ now - n < u /\ u <= now
    <3>1. a.own[u] = 0 /\ a.byHead[u] = 0
      BY <1>1, <1>2, <2>1, <2>2 DEF owed
    <3>2. paid[u] = a.resident * Total
      BY <1>3, <1>5, <2>2, <3>1
    <3> QED
      BY <1>3, <2>1, <2>2, <3>1, <3>2
  <2>3. CASE ~ (owed /\ now - n < u /\ u <= now)
    <3>1. paid[u] = a.own[u]
      BY <1>5, <2>3
    <3> QED
      BY <1>1, <2>1, <3>1
  <2> QED
    BY <2>2, <2>3
<1>9. Settled(m, s, g, hh, hc)
  BY <1>4, <1>6, <1>7, <1>8 DEF Settled
<1> QED
  BY <1>6, <1>8, <1>9 DEF s

-----------------------------------------------------------------------------
(* Every step keeps the invariant.                                         *)

\* The owner's account is settled first and attests for itself afterwards; the
\* others are only settled.
LEMMA BeatAccount ==
    ASSUME IInv, NEW gb \in Reports, NEW healthy \in BOOLEAN, Heartbeat(gb, healthy),
           NEW m \in Earners
    PROVE  /\ Settled(m, account'[m], Late, TRUE, now)
           /\ \A u \in down : account'[m].byHead[u] = 0
           /\ \A u \in Units :
                 account'[m].own[u] # account[m].own[u]
                     => account[m].own[u] + account[m].byHead[u] = 0
<1> DEFINE x == IF head.known THEN Settle(m, account[m]) ELSE account[m]
<1>1. now \in 0..MaxTime /\ Capped(gb) \in Int /\ down \subseteq Units
  BY ReportsTyped, TimingTyped, CapsBound DEF IInv, TypeOK
<1>2. /\ Settled(m, x, Late, TRUE, now)
      /\ x.own = account[m].own
      /\ \A u \in down : x.byHead[u] = 0
  <2>1. CASE head.known
    BY <2>1, SettleSettles
  <2>2. CASE ~ head.known
    <3>1. Settled(m, account[m], gap, head.healthy, head.credited) /\ head.credited <= now
      BY DEF IInv
    <3>2. gap \subseteq Late
      BY DEF Late
    <3>3. /\ head.credited \in 0..MaxTime
          /\ \A u \in Units : u \in Nat
          /\ account[m].byHead \in [Units -> Nat]
      BY <3>1 DEF IInv, TypeOK, HeadStates, Units, Settled, Accounts
    <3>4. Settled(m, account[m], Late, TRUE, now)
      BY <1>1, <3>1, <3>2, <3>3 DEF Settled
    <3>5. \A u \in down : account[m].byHead[u] = 0
      BY DEF IInv, HeadNeverPaysOutage
    <3> QED
      BY <2>2, <3>4, <3>5
  <2> QED
    BY <2>1, <2>2
<1>3. account'[m] = IF m = Owner /\ m \in Contributors
                    THEN Attested(m, x, Capped(gb), healthy) ELSE x
  BY DEF Heartbeat
<1> HIDE DEF x
<1>4. CASE m = Owner /\ m \in Contributors
  <2>1. /\ Settled(m, account'[m], Late, TRUE, now)
        /\ account'[m].byHead = x.byHead
        /\ \A u \in Units : account'[m].own[u] # x.own[u] => x.own[u] + x.byHead[u] = 0
    <3> DEFINE hh == TRUE
               claim == Capped(gb)
    <3>1. account'[m] = Attested(m, x, claim, healthy) /\ m \in Contributors
      BY <1>3, <1>4
    <3>2. Settled(m, x, Late, hh, now) /\ claim \in Int /\ now \in 0..MaxTime
      BY <1>1, <1>2
    <3> HIDE DEF hh, claim
    <3>3. /\ Settled(m, Attested(m, x, claim, healthy), Late, hh, now)
          /\ Attested(m, x, claim, healthy).byHead = x.byHead
          /\ \A u \in Units :
                Attested(m, x, claim, healthy).own[u] # x.own[u]
                    => x.own[u] + x.byHead[u] = 0
      BY <3>1, <3>2, AttestSettles
    <3> QED
      BY <3>1, <3>3 DEF hh
  <2>2. \A u \in Units : x.own[u] + x.byHead[u] = 0
                            => account[m].own[u] + account[m].byHead[u] = 0
    <3>1. CASE ~ head.known
      BY <3>1 DEF x
    <3>2. CASE head.known
      <4>1. x = Settle(m, account[m])
        BY <3>2 DEF x
      <4>2. ASSUME NEW u \in Units
            PROVE  x.byHead[u] = 0 => account[m].byHead[u] = 0
        <5>1. /\ Elapsed(head.credited) \in Int
              /\ Split(m, head.resident) \in Nat
              /\ account[m] \in Accounts /\ account[m].byHead \in [Units -> Nat]
          BY <1>1, ElapsedRange, SplitBound DEF IInv, TypeOK, HeadStates, Settled, Accounts
        <5>2. \/ x.byHead = account[m].byHead
              \/ x.byHead = Paid(account[m].byHead, Elapsed(head.credited),
                                 Split(m, head.resident))
          BY <4>1, <5>1 DEF Settle, Accounts
        <5> QED
          BY <5>1, <5>2, PaidTable
      <4>3. \A u \in Units : /\ x.own[u] \in Nat /\ x.byHead[u] \in Nat
                             /\ x.own[u] = account[m].own[u]
        BY <1>2 DEF Settled, Accounts
      <4> QED
        BY <4>2, <4>3
    <3> QED
      BY <3>1, <3>2
  <2> QED
    BY <1>1, <1>2, <2>1, <2>2
<1>5. CASE ~ (m = Owner /\ m \in Contributors)
  BY <1>2, <1>3, <1>5
<1> QED
  BY <1>4, <1>5

\* An owner's beat: its own share, the silent members' shares, the new health.
LEMMA HeartbeatStep ==
    ASSUME IInv, NEW gb \in Reports, NEW healthy \in BOOLEAN, Heartbeat(gb, healthy)
    PROVE  IInv'
<1>1. /\ now \in StartTime..MaxTime /\ now \in 0..MaxTime
      /\ head \in HeadStates /\ down \subseteq Units /\ gap \subseteq Units
      /\ spoke \in [Earners -> 0..MaxTime] /\ account \in [Earners -> Accounts]
  BY TimingTyped DEF IInv, TypeOK
<1>2. /\ now' = now /\ down' = down /\ gap' = Late
      /\ head' = [known |-> TRUE, seen |-> now, credited |-> now,
                  resident |-> Capped(gb), healthy |-> healthy,
                  inFlight |-> head.inFlight,
                  failures |-> IF healthy THEN 0 ELSE head.failures]
  BY DEF Heartbeat, Late
<1>3. Capped(gb) \in Nat /\ (Contributors # {} => Capped(gb) <= Capacity)
  BY ReportsTyped, CapsBound
<1>4. \A m \in Earners : /\ Settled(m, account'[m], Late, TRUE, now)
                         /\ \A u \in down : account'[m].byHead[u] = 0
  BY BeatAccount
<1>5. head' \in HeadStates
  BY <1>1, <1>2, <1>3 DEF HeadStates, FailureLimit
<1>6. account' \in [Earners -> Accounts]
  <2>1. \A m \in Earners : account'[m] \in Accounts
    BY <1>4 DEF Settled
  <2>2. account' = [m \in Earners |-> account'[m]]
    BY DEF Heartbeat
  <2> QED
    BY <2>1, <2>2
<1>7. spoke' \in [Earners -> 0..MaxTime]
  BY <1>1 DEF Heartbeat
<1>8. TypeOK'
  BY <1>1, <1>2, <1>5, <1>6, <1>7 DEF TypeOK, Late
<1>9. \A m \in Earners : Settled(m, account[m], gap, head.healthy, head.credited)'
  BY <1>2, <1>4 DEF Settled
<1>10. \A u \in down' : u <= now'
  BY <1>2 DEF IInv
<1>11. HeadNeverPaysOutage'
  BY <1>2, <1>4 DEF HeadNeverPaysOutage
<1>12. /\ head'.seen <= now' /\ head'.credited <= now' /\ (head'.healthy => head'.known)
       /\ Contributors # {} => head'.resident <= Capacity
       /\ head'.credited = now'
  BY <1>1, <1>2, <1>3
<1> QED
  BY <1>8, <1>9, <1>10, <1>11, <1>12 DEF IInv

\* A contributor's own beat pays that contributor, and only for unpaid time.
LEMMA AttestStep ==
    ASSUME IInv, NEW m \in Contributors \ {Owner}, NEW gb \in Reports, Attest(m, gb)
    PROVE  /\ IInv'
           /\ \A e \in Earners, u \in Units :
                 account'[e].own[u] # account[e].own[u]
                     => account[e].own[u] + account[e].byHead[u] = 0
<1> DEFINE a == Attested(m, account[m], gb, head.known /\ head.healthy)
<1>1. /\ now \in StartTime..MaxTime /\ now \in 0..MaxTime /\ m \in Earners
      /\ head \in HeadStates /\ down \subseteq Units /\ gb \in Int
      /\ spoke \in [Earners -> 0..MaxTime] /\ account \in [Earners -> Accounts]
      /\ (head.known /\ head.healthy) \in BOOLEAN
  BY TimingTyped, ReportsTyped DEF IInv, TypeOK, Earners, HeadStates
<1>2. /\ Settled(m, a, gap, head.healthy, head.credited)
      /\ a.byHead = account[m].byHead
      /\ \A u \in Units : a.own[u] # account[m].own[u]
                             => account[m].own[u] + account[m].byHead[u] = 0
  <2>1. m \in Contributors /\ Settled(m, account[m], gap, head.healthy, head.credited)
    BY <1>1 DEF IInv
  <2> DEFINE serving == head.known /\ head.healthy
  <2>2. serving \in BOOLEAN
    BY <1>1
  <2> HIDE DEF serving
  <2>3. a = Attested(m, account[m], gb, serving)
    BY DEF a, serving
  <2> HIDE DEF a
  <2> QED
    BY <1>1, <2>1, <2>2, <2>3, AttestSettles
<1>3. /\ account' = [account EXCEPT ![m] = a]
      /\ spoke' = [spoke EXCEPT ![m] = now]
      /\ UNCHANGED <<now, head, gap, down>>
  BY DEF Attest
<1> HIDE DEF a
<1>4. a \in Accounts
  BY <1>2 DEF Settled
<1>5. TypeOK'
  BY <1>1, <1>3, <1>4 DEF IInv, TypeOK
<1>6. \A e \in Earners : Settled(e, account[e], gap, head.healthy, head.credited)'
  <2>1. \A e \in Earners : Settled(e, account'[e], gap, head.healthy, head.credited)
    BY <1>1, <1>2, <1>3 DEF IInv
  <2> QED
    BY <1>3, <2>1 DEF Settled
<1>7. HeadNeverPaysOutage'
  BY <1>1, <1>2, <1>3 DEF IInv, HeadNeverPaysOutage
<1>8. IInv'
  BY <1>3, <1>5, <1>6, <1>7 DEF IInv
<1> QED
  BY <1>1, <1>2, <1>3, <1>8

\* Slots, failures, a look at the statistics, and the clock.
LEMMA OtherStep ==
    ASSUME IInv, AcquireSlot \/ ReleaseSlot \/ MarkFailure \/ Snapshot \/ Tick
    PROVE  IInv' /\ account' = account
<1>1. /\ now \in StartTime..MaxTime /\ now \in 0..MaxTime
      /\ head \in HeadStates /\ down \subseteq Units
  BY TimingTyped DEF IInv, TypeOK
<1>2. ASSUME UNCHANGED <<now, account, spoke, gap, down>>, head' \in HeadStates,
             head'.seen = head.seen, head'.credited = head.credited,
             head'.resident = head.resident,
             head'.healthy => head.healthy, head.known => head'.known
      PROVE  IInv'
  <2>1. TypeOK'
    BY <1>2 DEF IInv, TypeOK
  <2>2. \A e \in Earners : Settled(e, account[e], gap, head.healthy, head.credited)'
    BY <1>2 DEF IInv, Settled
  <2>3. HeadNeverPaysOutage'
    BY <1>2 DEF IInv, HeadNeverPaysOutage
  <2> QED
    BY <1>2, <2>1, <2>2, <2>3 DEF IInv
<1>3. CASE AcquireSlot \/ ReleaseSlot
  BY <1>1, <1>2, <1>3 DEF AcquireSlot, ReleaseSlot, HeadStates
<1>4. CASE MarkFailure
  <2>1. AtMost(head.failures + 1, FailureLimit) \in 0..FailureLimit
    BY <1>1 DEF HeadStates, AtMost, FailureLimit
  <2> QED
    BY <1>1, <1>2, <1>4, <2>1 DEF MarkFailure, HeadStates
<1>5. CASE Snapshot
  BY <1>1, <1>2, <1>5 DEF Snapshot, HeadStates
<1>6. CASE Tick
  <2>1. /\ now' = now + 1 /\ now < MaxTime
        /\ UNCHANGED <<head, account, spoke, gap>>
        /\ down' \subseteq down \cup {now + 1}
        /\ head.healthy /\ head.known => down' = down
    BY <1>6 DEF Tick
  <2>2. TypeOK'
    BY <1>1, <2>1, TimingTyped DEF IInv, TypeOK, Units
  <2>3. \A e \in Earners : Settled(e, account[e], gap, head.healthy, head.credited)'
    <3>1. \A e \in Earners : Settled(e, account[e], gap, head.healthy, head.credited)
      BY DEF IInv
    <3>2. \A e \in Earners : account[e].seen \in Int /\ account[e].credited \in Int
      BY <3>1 DEF Settled, Accounts
    <3>3. \A u \in Units : u \in Int
      BY DEF Units
    <3>4. now \in Int /\ (\A e \in Earners : account'[e] = account[e])
          /\ now' = now + 1 /\ head' = head /\ gap' = gap
      BY <1>1, <2>1
    <3> QED
      BY <3>1, <3>2, <3>3, <3>4 DEF Settled
  <2>4. ASSUME NEW u \in down', NEW e \in Earners
        PROVE  u <= now' /\ (head'.healthy => u <= head'.credited) /\ account'[e].byHead[u] = 0
    <3>1. CASE u \in down
      BY <1>1, <2>1, <3>1 DEF IInv, HeadNeverPaysOutage, Units
    <3>2. CASE u \notin down
      <4>1. u = now + 1 /\ u \in Units /\ ~ head.healthy
        BY <1>1, <2>1, <3>2, TimingTyped DEF IInv, Units
      <4>2. Settled(e, account[e], gap, head.healthy, head.credited)
        BY DEF IInv
      <4>3. account[e].byHead[u] = 0
        BY <1>1, <4>1, <4>2 DEF Settled, Accounts
      <4> QED
        BY <1>1, <2>1, <4>1, <4>3
    <3> QED
      BY <3>1, <3>2
  <2>5. \A u \in down' : u <= now' /\ (head'.healthy => u <= head'.credited)
    <3>1. Earners # {}
      BY DEF Earners
    <3> QED
      BY <2>4, <3>1
  <2>6. HeadNeverPaysOutage'
    BY <2>1, <2>4 DEF HeadNeverPaysOutage
  <2>7. head.seen \in Int /\ head.credited \in Int
    BY <1>1 DEF HeadStates
  <2> QED
    BY <1>1, <2>1, <2>2, <2>3, <2>5, <2>6, <2>7 DEF IInv
<1>7. account' = account
  BY DEF AcquireSlot, ReleaseSlot, MarkFailure, Snapshot, Tick
<1> QED
  BY <1>3, <1>4, <1>5, <1>6, <1>7

\* A registry started anew knows no member, and has paid nothing past now.
LEMMA RestartStep ==
    ASSUME IInv, Restart
    PROVE  IInv' /\ \A m \in Earners : account'[m].own = account[m].own
<1>1. /\ head' = Unheard /\ UNCHANGED <<now, spoke, gap, down>>
      /\ account' = [m \in Earners |-> Forgotten(account[m])]
  BY DEF Restart
<1>2. /\ now \in StartTime..MaxTime /\ now \in 0..MaxTime /\ 0 \in 0..MaxTime
      /\ account \in [Earners -> Accounts]
  BY TimingTyped DEF IInv, TypeOK
<1>3. ASSUME NEW m \in Earners
      PROVE  /\ Settled(m, account'[m], gap, FALSE, 0)
             /\ account'[m].own = account[m].own
             /\ account'[m].byHead = account[m].byHead
  <2>1. account[m] \in Accounts /\ Settled(m, account[m], gap, head.healthy, head.credited)
    BY <1>2 DEF IInv
  <2>2. account'[m] = Forgotten(account[m])
    BY <1>1
  <2>3. /\ Forgotten(account[m]) \in Accounts
        /\ ~ Forgotten(account[m]).known
        /\ Forgotten(account[m]).seen = 0 /\ Forgotten(account[m]).credited = 0
        /\ Forgotten(account[m]).resident = 0
        /\ Forgotten(account[m]).own = account[m].own
        /\ Forgotten(account[m]).byHead = account[m].byHead
    BY <1>2, <2>1 DEF Forgotten, Accounts
  <2>4. m \in Contributors => 0 <= Declared[m]
    BY SharesDeclared
  <2> QED
    BY <1>2, <2>1, <2>2, <2>3, <2>4 DEF Settled
<1>4. TypeOK'
  <2>1. Unheard \in HeadStates
    BY <1>2 DEF Unheard, HeadStates, FailureLimit
  <2>2. account' \in [Earners -> Accounts]
    BY <1>1, <1>3 DEF Settled
  <2> QED
    BY <1>1, <2>1, <2>2 DEF IInv, TypeOK
<1>5. \A m \in Earners : Settled(m, account[m], gap, head.healthy, head.credited)'
  BY <1>1, <1>3 DEF Settled, Unheard
<1>6. HeadNeverPaysOutage'
  BY <1>1, <1>3 DEF IInv, HeadNeverPaysOutage
<1>7. /\ head'.seen = 0 /\ head'.credited = 0 /\ head'.resident = 0 /\ ~ head'.healthy
      /\ Capacity \in Nat
  BY <1>1, SharesDeclared DEF Unheard
<1>8. \A u \in down' : u <= now' /\ (head'.healthy => u <= head'.credited)
  BY <1>1, <1>7 DEF IInv
<1>9. IInv'
  BY <1>1, <1>2, <1>4, <1>5, <1>6, <1>7, <1>8 DEF IInv
<1> QED
  BY <1>3, <1>9

\* Nobody has been paid when the registry starts.
LEMMA InitHolds == Init => IInv
<1> SUFFICES ASSUME Init PROVE IInv
  OBVIOUS
<1>1. TypeOK
  BY TimingTyped DEF Init, Unheard, TypeOK, HeadStates, Accounts, FailureLimit
<1>2. \A m \in Earners : Settled(m, account[m], gap, head.healthy, head.credited)
  <2>1. ASSUME NEW m \in Earners
        PROVE  Settled(m, account[m], gap, head.healthy, head.credited)
    <3>1. account[m] = [known |-> FALSE, seen |-> 0, resident |-> 0, credited |-> 0,
                        own |-> [u \in Units |-> 0], byHead |-> [u \in Units |-> 0]]
      BY DEF Init
    <3>2. account[m] \in Accounts /\ now \in Nat
      BY <1>1, TimingTyped DEF TypeOK
    <3>3. m \in Contributors => Declared[m] \in Nat /\ Declared[m] * Total \in Nat
      BY SharesDeclared, ProductMonotone
    <3> QED
      BY <3>1, <3>2, <3>3 DEF Settled
  <2> QED
    BY <2>1
<1>3. /\ head.seen = 0 /\ head.credited = 0 /\ head.resident = 0 /\ ~ head.healthy
      /\ down = {} /\ 0 <= now /\ 0 <= Capacity
  BY SharesDeclared, TimingTyped DEF Init, Unheard
<1>4. HeadNeverPaysOutage
  BY <1>3 DEF HeadNeverPaysOutage
<1> QED
  BY <1>1, <1>2, <1>3, <1>4 DEF IInv

\* The part of every step that OwnBeatNeverRebills is about.
NoRebill ==
    \A m \in Earners, u \in Units :
        account'[m].own[u] # account[m].own[u]
            => account[m].own[u] + account[m].byHead[u] = 0

\* Every beat, failure and tick keeps the invariant and pays no time twice by
\* the members' own word.
LEMMA StepHolds == IInv /\ [Next]_vars => IInv' /\ (account' # account => NoRebill)
<1> SUFFICES ASSUME IInv, [Next]_vars PROVE IInv' /\ (account' # account => NoRebill)
  OBVIOUS
<1>1. ASSUME NEW gb \in Reports, NEW healthy \in BOOLEAN, Heartbeat(gb, healthy)
      PROVE  IInv' /\ NoRebill
  BY <1>1, HeartbeatStep, BeatAccount DEF NoRebill
<1>2. ASSUME NEW m \in Contributors \ {Owner}, NEW gb \in Reports, Attest(m, gb)
      PROVE  IInv' /\ NoRebill
  BY <1>2, AttestStep DEF NoRebill
<1>3. CASE AcquireSlot \/ ReleaseSlot \/ MarkFailure \/ Snapshot \/ Tick
  BY <1>3, OtherStep
<1>4. CASE Restart
  BY <1>4, RestartStep DEF NoRebill
<1>5. CASE UNCHANGED vars
  <2>1. UNCHANGED <<now, head, account, spoke, gap, down>>
    BY <1>5 DEF vars
  <2>2. \A m \in Earners : Settled(m, account[m], gap, head.healthy, head.credited)'
    BY <2>1 DEF IInv, Settled
  <2>3. TypeOK' /\ HeadNeverPaysOutage'
    BY <2>1 DEF IInv, TypeOK, HeadNeverPaysOutage
  <2> QED
    BY <2>1, <2>2, <2>3 DEF IInv
<1> QED
  BY <1>1, <1>2, <1>3, <1>4, <1>5 DEF Next

\* Every account is settled: nothing is paid ahead of its credit mark, and, outside
\* pauses of the owner, no unit of time behind it is paid beyond the share.
THEOREM Invariance == Spec => []IInv
<1>1. IInv /\ [Next]_vars => IInv'
  BY StepHolds
<1> QED
  BY InitHolds, <1>1, PTL DEF Spec

-----------------------------------------------------------------------------
(* What a reader should know.                                              *)

\* Every variable keeps its type.
THEOREM TypeCorrect == Spec => []TypeOK
<1>1. IInv => TypeOK
  BY DEF IInv
<1> QED
  BY Invariance, <1>1, PTL

\* For no unit of time outside a gap in the owner's beats do the two crediting
\* paths together pay a contributor more than the share the roster declares.
THEOREM SharesRespected == Spec => []ShareRespected
<1>1. IInv => ShareRespected
  <2> SUFFICES ASSUME IInv, NEW m \in Contributors, NEW u \in Units \ gap
               PROVE  account[m].own[u] + account[m].byHead[u] <= Declared[m] * Total
    BY DEF ShareRespected
  <2>1. m \in Earners
    BY DEF Earners
  <2> QED
    BY <2>1 DEF IInv, Settled
<1> QED
  BY Invariance, <1>1, PTL

\* The owner's beats pay for no unit of time through which the peer was down.
THEOREM OutageUnpaidByHead == Spec => []HeadNeverPaysOutage
<1>1. IInv => HeadNeverPaysOutage
  BY DEF IInv
<1> QED
  BY Invariance, <1>1, PTL

\* A member's own beats pay for no unit of time that was paid for before.
THEOREM OwnBeatsAddOnly == Spec => OwnBeatNeverRebills
<1>1. IInv /\ [Next]_vars =>
        [\A m \in Earners, u \in Units :
            account'[m].own[u] # account[m].own[u]
                => account[m].own[u] + account[m].byHead[u] = 0]_vars
  <2> SUFFICES ASSUME IInv, [Next]_vars
               PROVE  NoRebill
    BY DEF NoRebill
  <2>1. CASE account' = account
    BY <2>1 DEF NoRebill
  <2> QED
    BY <2>1, StepHolds
<1> QED
  BY Invariance, <1>1, PTL DEF Spec, OwnBeatNeverRebills

\* A peer comes back into routing only by a beat of its owner's.
THEOREM RoutingRestoredByOwner == Spec => OnlyOwnerRestoresRouting
<1> DEFINE Restored ==
        ~ IsLive /\ IsLive' =>
            /\ head'.seen = now /\ head'.credited = now /\ head'.failures = 0
            /\ Owner \in Earners => spoke'[Owner] = now
<1>1. IInv /\ [Next]_vars => [Restored]_vars
  <2> SUFFICES ASSUME IInv, [Next]_vars PROVE Restored
    OBVIOUS
  <2>1. ASSUME NEW gb \in Reports, NEW healthy \in BOOLEAN, Heartbeat(gb, healthy)
        PROVE  Restored
    BY <2>1 DEF Heartbeat, IsLive
  <2>2. ASSUME UNCHANGED <<now, head>> PROVE Restored
    BY <2>2 DEF IsLive
  <2>3. CASE \E m \in Contributors \ {Owner}, gb \in Reports : Attest(m, gb)
    BY <2>2, <2>3 DEF Attest
  <2>4. head \in HeadStates /\ now \in Nat
    BY TimingTyped DEF IInv, TypeOK
  <2>5. CASE AcquireSlot \/ ReleaseSlot \/ MarkFailure
    BY <2>4, <2>5 DEF AcquireSlot, ReleaseSlot, MarkFailure, IsLive, HeadStates
  <2>6. CASE Snapshot
    BY <2>4, <2>6 DEF Snapshot, IsLive, HeadStates, IInv
  <2>7. CASE Tick
    BY <2>4, <2>7, TimingTyped DEF Tick, IsLive, HeadStates
  <2>8. CASE Restart
    BY <2>8 DEF Restart, Unheard, IsLive
  <2>9. CASE UNCHANGED vars
    BY <2>2, <2>9 DEF vars
  <2> QED
    BY <2>1, <2>3, <2>5, <2>6, <2>7, <2>8, <2>9 DEF Next
<1> QED
  BY Invariance, <1>1, PTL DEF Spec, OnlyOwnerRestoresRouting

\* Once the machine has been up for longer than the timeout, a member is
\* reported as attesting only if it signed a beat of its own within the timeout.
THEOREM AttestingIsEvidence ==
    ASSUME StartTime > HeartbeatTimeout
    PROVE  Spec => []AttestingMeansSpoke
<1> DEFINE Heard ==
        \A m \in Contributors :
            /\ account[m].seen = 0 \/ account[m].seen = spoke[m]
<1>1. Init => Heard
  BY DEF Init, Earners
<1>2. IInv /\ Heard /\ [Next]_vars => Heard'
  <2> SUFFICES ASSUME IInv, Heard, [Next]_vars, NEW m \in Contributors
               PROVE  account'[m].seen = 0 \/ account'[m].seen = spoke'[m]
    OBVIOUS
  <2>1. /\ m \in Earners /\ account \in [Earners -> Accounts]
        /\ account[m] \in Accounts /\ spoke \in [Earners -> 0..MaxTime]
    BY DEF IInv, TypeOK, Earners
  <2>2. ASSUME NEW gb \in Reports, NEW healthy \in BOOLEAN, Heartbeat(gb, healthy)
        PROVE  account'[m].seen = 0 \/ account'[m].seen = spoke'[m]
    <3> DEFINE x == IF head.known THEN Settle(m, account[m]) ELSE account[m]
    <3>1. x.seen = account[m].seen
      BY <2>1 DEF Settle, Accounts
    <3>2. /\ account'[m] = IF m = Owner /\ m \in Contributors
                           THEN Attested(m, x, Capped(gb), healthy) ELSE x
          /\ spoke'[m] = IF m = Owner THEN now ELSE spoke[m]
      BY <2>1, <2>2 DEF Heartbeat
    <3> HIDE DEF x
    <3> QED
      BY <3>1, <3>2 DEF Attested
  <2>3. ASSUME NEW e \in Contributors \ {Owner}, NEW gb \in Reports, Attest(e, gb)
        PROVE  account'[m].seen = 0 \/ account'[m].seen = spoke'[m]
    BY <2>1, <2>3 DEF Attest, Attested, Earners
  <2>4. CASE AcquireSlot \/ ReleaseSlot \/ MarkFailure \/ Snapshot \/ Tick
    BY <2>4 DEF AcquireSlot, ReleaseSlot, MarkFailure, Snapshot, Tick
  <2>5. CASE Restart
    BY <2>1, <2>5 DEF Restart, Forgotten, Accounts
  <2>6. CASE UNCHANGED vars
    BY <2>6 DEF vars
  <2> QED
    BY <2>2, <2>3, <2>4, <2>5, <2>6 DEF Next
<1>3. IInv /\ Heard => AttestingMeansSpoke
  <2> SUFFICES ASSUME IInv, Heard, NEW m \in Contributors, Attesting(account[m])
               PROVE  spoke[m] > 0 /\ now - spoke[m] <= HeartbeatTimeout
    BY DEF AttestingMeansSpoke
  <2>1. now >= StartTime /\ now \in Nat /\ StartTime \in Nat /\ HeartbeatTimeout \in Nat
    BY TimingTyped DEF IInv, TypeOK
  <2>2. account[m].seen \in Nat /\ spoke[m] \in Nat
    BY DEF IInv, TypeOK, Accounts, Earners
  <2> QED
    BY <2>1, <2>2 DEF Attesting
<1> HIDE DEF Heard
<1> QED
  BY Invariance, <1>1, <1>2, <1>3, PTL DEF Spec
==============================================================================
