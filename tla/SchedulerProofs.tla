--------------------------- MODULE SchedulerProofs ---------------------------
(***************************************************************************)
(* Proofs about Scheduler, for every finite set of requests and every      *)
(* roster.                                                                 *)
(***************************************************************************)
EXTENDS Scheduler, SequenceTheorems, IterationTheorems

-----------------------------------------------------------------------------
(* The invariant of the pool, and what a scheduler call may do to it.      *)

\* Accounting, capacity, marks only on held leases, and the fact that makes
\* them inductive: a request whose future is pending has no lease yet.
Sound(s) ==
    /\ s \in Pools
    /\ \A p \in Peers : s.inFlight[p] = Cardinality({r \in Requests : s.at[r] = p})
    /\ \A p \in Peers : s.inFlight[p] <= MaxConcurrent[p]
    /\ \A r \in Requests : s.future[r] = "pending" => s.at[r] = NoPeer
    /\ s.redeemed \subseteq Held(s)

\* From s to t leases only end, or start for pending requests; marks end with
\* their leases; a future that is not pending stays what it is.
Moves(s, t) ==
    /\ \A r \in Requests :
          /\ s.at[r] # NoPeer => t.at[r] \in {s.at[r], NoPeer}
          /\ s.future[r] # "pending" => /\ t.future[r] = s.future[r]
                                        /\ s.at[r] = NoPeer => t.at[r] = NoPeer
    /\ t.redeemed = {r \in s.redeemed : t.at[r] # NoPeer}

\* The sound pools that a call can reach from the sound pool s.
Reach(s) == {t \in Pools : Sound(t) /\ Moves(s, t)}

\* Doing nothing is a legal move.
LEMMA ReachesItself ==
    ASSUME NEW s, Sound(s)
    PROVE  s \in Reach(s)
BY DEF Reach, Moves, Sound, Held

\* Legal moves compose: a release and its dispatches are one.
LEMMA ReachTransitive ==
    ASSUME NEW s, NEW t \in Reach(s), NEW u \in Reach(t), Sound(s)
    PROVE  u \in Reach(s)
<1>1. /\ Sound(t) /\ Moves(s, t) /\ u \in Pools /\ Sound(u) /\ Moves(t, u)
  BY DEF Reach
<1>2. ASSUME NEW r \in Requests, s.at[r] # NoPeer
      PROVE  u.at[r] \in {s.at[r], NoPeer}
  <2>1. s.future[r] # "pending"
    BY <1>2 DEF Sound
  <2>2. t.future[r] # "pending" /\ t.at[r] \in {s.at[r], NoPeer}
    BY <1>1, <1>2, <2>1 DEF Moves
  <2> QED
    BY <1>1, <2>2 DEF Moves
<1>3. ASSUME NEW r \in Requests, s.future[r] # "pending"
      PROVE  /\ u.future[r] = s.future[r]
             /\ s.at[r] = NoPeer => u.at[r] = NoPeer
  <2>1. t.future[r] = s.future[r] /\ (s.at[r] = NoPeer => t.at[r] = NoPeer)
    BY <1>1, <1>3 DEF Moves
  <2> QED
    BY <1>1, <1>3, <2>1 DEF Moves
<1>4. u.redeemed = {r \in s.redeemed : u.at[r] # NoPeer}
  <2>1. ASSUME NEW r \in s.redeemed, u.at[r] # NoPeer
        PROVE  t.at[r] # NoPeer
    <3>1. r \in Requests /\ s.at[r] # NoPeer
      BY DEF Sound, Held
    <3>2. s.future[r] # "pending"
      BY <3>1 DEF Sound
    <3>3. t.future[r] # "pending"
      BY <1>1, <3>1, <3>2 DEF Moves
    <3> QED
      BY <1>1, <2>1, <3>1, <3>3 DEF Moves
  <2>2. t.redeemed = {r \in s.redeemed : t.at[r] # NoPeer}
    BY <1>1 DEF Moves
  <2>3. u.redeemed = {r \in t.redeemed : u.at[r] # NoPeer}
    BY <1>1 DEF Moves
  <2> QED
    BY <2>1, <2>2, <2>3
<1> QED
  BY <1>1, <1>2, <1>3, <1>4 DEF Reach, Moves

-----------------------------------------------------------------------------
(* The operations of the scheduler keep the pool sound.                    *)

\* min() over a non-empty set of peers returns one of them.
LEMMA LeastLoadedIsCandidate ==
    ASSUME NEW s, Sound(s), NEW C \in SUBSET Peers, C # {}
    PROVE  LeastLoaded(s, C) \in C
<1> DEFINE L == {s.inFlight[p] : p \in C}
<1>1. \A p \in C : s.inFlight[p] \in Nat /\ p \in Nat
  BY PeersAreIds DEF Sound, Pools
<1>2. PICK x \in L : \A y \in L : x <= y
  <2>1. L \in SUBSET Nat /\ L # {}
    BY <1>1
  <2> QED
    BY <2>1, LeastNatural
<1> DEFINE M == {p \in C : s.inFlight[p] = x}
<1>3. PICK p \in M : \A q \in M : p <= q
  <2>1. M \in SUBSET Nat /\ M # {}
    BY <1>1, <1>2
  <2> QED
    BY <2>1, LeastNatural
<1>4. p \in C /\ \A q \in C : \/ s.inFlight[p] < s.inFlight[q]
                              \/ s.inFlight[p] = s.inFlight[q] /\ p <= q
  BY <1>1, <1>2, <1>3
<1> HIDE DEF L, M
<1> QED
  BY <1>4 DEF LeastLoaded

\* The peer that acquire() and _dispatch() choose has a free slot.
LEMMA LeastLoadedFree ==
    ASSUME NEW s, Sound(s), NEW m, Free(s, m) # {}
    PROVE  /\ LeastLoaded(s, Free(s, m)) \in Peers
           /\ s.inFlight[LeastLoaded(s, Free(s, m))]
                 < MaxConcurrent[LeastLoaded(s, Free(s, m))]
<1>1. Free(s, m) \in SUBSET Peers
  BY DEF Free, Live
<1>2. LeastLoaded(s, Free(s, m)) \in Free(s, m)
  BY <1>1, LeastLoadedIsCandidate
<1> QED
  BY <1>2 DEF Free, Live

On(s, p) == {r \in Requests : s.at[r] = p}

\* A lease for a request that holds none, on a peer with a free slot.
LEMMA GrantSound ==
    ASSUME NEW s, Sound(s), NEW t \in Pools, NEW r \in Requests, NEW p \in Peers,
           s.at[r] = NoPeer, s.inFlight[p] < MaxConcurrent[p],
           t.at = [s.at EXCEPT ![r] = p],
           t.inFlight = [s.inFlight EXCEPT ![p] = @ + 1],
           t.redeemed = s.redeemed,
           t.future[r] # "pending",
           \A z \in Requests \ {r} : t.future[z] = s.future[z]
    PROVE  Sound(t)
<1>1. s \in Pools /\ p # NoPeer
  BY PeersAreIds DEF Sound
<1>2. ASSUME NEW q \in Peers
      PROVE  t.inFlight[q] = Cardinality(On(t, q)) /\ t.inFlight[q] <= MaxConcurrent[q]
  <2>1. s.inFlight[q] = Cardinality(On(s, q)) /\ s.inFlight[q] <= MaxConcurrent[q]
    BY DEF Sound, On
  <2>2. CASE q = p
    <3>1. On(t, p) = On(s, p) \cup {r} /\ r \notin On(s, p)
      BY <1>1 DEF Pools, On
    <3>2. IsFiniteSet(On(s, p))
      BY RequestsFinite, FS_Subset DEF On
    <3>3. Cardinality(On(t, p)) = Cardinality(On(s, p)) + 1
      BY <3>1, <3>2, FS_AddElement
    <3>4. t.inFlight[p] = s.inFlight[p] + 1
      BY <1>1 DEF Pools
    <3>5. s.inFlight[p] \in Nat /\ MaxConcurrent[p] \in Nat
      BY <1>1, RosterTyped DEF Pools
    <3> QED
      BY <2>1, <2>2, <3>3, <3>4, <3>5
  <2>3. CASE q # p
    <3>1. On(t, q) = On(s, q)
      BY <1>1, <2>3, PeersAreIds DEF Pools, On
    <3>2. t.inFlight[q] = s.inFlight[q]
      BY <1>1, <2>3 DEF Pools
    <3> QED
      BY <2>1, <3>1, <3>2
  <2> QED
    BY <2>2, <2>3
<1>3. ASSUME NEW z \in Requests, t.future[z] = "pending" PROVE t.at[z] = NoPeer
  <2>1. z # r /\ s.future[z] = "pending"
    BY <1>3
  <2> QED
    BY <1>1, <2>1 DEF Pools, Sound
<1>4. t.redeemed \subseteq Held(t)
  <2>1. s.redeemed \subseteq Held(s)
    BY DEF Sound
  <2>2. Held(s) \subseteq Held(t)
    BY <1>1 DEF Held, Pools
  <2> QED
    BY <2>1, <2>2
<1> QED
  BY <1>2, <1>3, <1>4 DEF Sound, On

\* A lease that ends gives one slot back, and the counter was not zero: the
\* clamp of release_slot never acts.
LEMMA ReturnSound ==
    ASSUME NEW s, Sound(s), NEW t \in Pools, NEW r \in Requests,
           s.at[r] # NoPeer,
           t.at = [s.at EXCEPT ![r] = NoPeer],
           t.inFlight = [s.inFlight EXCEPT ![s.at[r]] = IF @ = 0 THEN 0 ELSE @ - 1],
           t.redeemed = s.redeemed \ {r},
           t.future = s.future
    PROVE  Sound(t)
<1> DEFINE p == s.at[r]
<1>1. s \in Pools /\ p \in Peers /\ p # NoPeer
  BY PeersAreIds DEF Sound, Pools
<1>2. ASSUME NEW q \in Peers
      PROVE  t.inFlight[q] = Cardinality(On(t, q)) /\ t.inFlight[q] <= MaxConcurrent[q]
  <2>1. s.inFlight[q] = Cardinality(On(s, q)) /\ s.inFlight[q] <= MaxConcurrent[q]
    BY DEF Sound, On
  <2>2. s.inFlight[q] \in Nat /\ MaxConcurrent[q] \in Nat
    BY <1>1, RosterTyped DEF Pools
  <2>3. CASE q = p
    <3>1. On(t, q) = On(s, q) \ {r} /\ r \in On(s, q)
      BY <1>1, <2>3 DEF Pools, On
    <3>2. IsFiniteSet(On(s, q))
      BY RequestsFinite, FS_Subset DEF On
    <3>3. Cardinality(On(t, q)) = Cardinality(On(s, q)) - 1
      BY <3>1, <3>2, FS_RemoveElement
    <3>4. On(s, q) # {} /\ Cardinality(On(s, q)) # 0
      BY <3>1, <3>2, FS_EmptySet
    <3>5. t.inFlight[q] = s.inFlight[q] - 1
      BY <1>1, <2>1, <2>3, <3>4 DEF Pools
    <3> QED
      BY <2>1, <2>2, <3>3, <3>5
  <2>4. CASE q # p
    <3>1. On(t, q) = On(s, q)
      BY <1>1, <2>4, PeersAreIds DEF Pools, On
    <3>2. t.inFlight[q] = s.inFlight[q]
      BY <1>1, <2>4 DEF Pools
    <3> QED
      BY <2>1, <3>1, <3>2
  <2> QED
    BY <2>3, <2>4
<1>3. \A z \in Requests : t.future[z] = "pending" => t.at[z] = NoPeer
  BY <1>1 DEF Pools, Sound
<1>4. t.redeemed \subseteq Held(t)
  BY <1>1 DEF Held, Pools, Sound
<1> QED
  BY <1>2, <1>3, <1>4 DEF Sound, On

\* Issuing a lease changes the caller's lease and the peer's count only.
LEMMA IssueTyped ==
    ASSUME NEW s \in Pools, NEW r \in Requests, NEW p \in Peers
    PROVE  /\ Issue(s, r, p) \in Pools
           /\ Issue(s, r, p).future = s.future
           /\ Issue(s, r, p).at = [s.at EXCEPT ![r] = p]
           /\ Issue(s, r, p).inFlight = [s.inFlight EXCEPT ![p] = @ + 1]
           /\ Issue(s, r, p).redeemed = s.redeemed
<1>1. /\ Append(s.leases, r) \in Seq(Requests)
      /\ [s.at EXCEPT ![r] = p] \in [Requests -> Peers \cup {NoPeer}]
      /\ [s.left EXCEPT ![r] = LeaseTTL] \in [Requests -> Int]
      /\ [s.inFlight EXCEPT ![p] = @ + 1] \in [Peers -> Nat]
  BY TimingTyped DEF Pools
<1> QED
  BY <1>1 DEF Issue, Pools

\* One turn of the dispatch loop keeps the pool sound.
LEMMA ServeReaches ==
    ASSUME NEW s, Sound(s), NEW r \in Requests
    PROVE  Serve(s, r) \in Reach(s)
<1> DEFINE free == Free(s, ask[r].model)
           p == LeastLoaded(s, free)
<1>1. s \in Pools
  BY DEF Sound
<1>2. CASE s.future[r] # "pending"
  BY <1>2, ReachesItself DEF Serve
<1>3. CASE s.future[r] = "pending" /\ free = {}
  <2> DEFINE t == [s EXCEPT !.waiters = Append(@, r)]
  <2>1. /\ t \in Pools /\ t.future = s.future /\ t.at = s.at
        /\ t.inFlight = s.inFlight /\ t.redeemed = s.redeemed
    <3>1. Append(s.waiters, r) \in Seq(Requests)
      BY <1>1 DEF Pools
    <3> QED
      BY <1>1, <3>1 DEF Pools
  <2>2. Serve(s, r) = t
    BY <1>3 DEF Serve
  <2> HIDE DEF t
  <2>3. Sound(t)
    BY <2>1 DEF Sound, Held
  <2>4. Moves(s, t)
    BY <2>1 DEF Moves, Sound, Held
  <2> QED
    BY <2>1, <2>2, <2>3, <2>4 DEF Reach
<1>4. CASE s.future[r] = "pending" /\ free # {}
  <2> DEFINE i == Issue(s, r, p)
             t == [i EXCEPT !.future[r] = "result"]
  <2>1. p \in Peers /\ s.inFlight[p] < MaxConcurrent[p]
    BY <1>4, LeastLoadedFree
  <2>2. Serve(s, r) = t
    BY <1>4 DEF Serve
  <2> HIDE DEF p, free
  <2>3. /\ i \in Pools /\ i.future = s.future /\ i.redeemed = s.redeemed
        /\ i.at = [s.at EXCEPT ![r] = p]
        /\ i.inFlight = [s.inFlight EXCEPT ![p] = @ + 1]
    BY <1>1, <2>1, IssueTyped
  <2> HIDE DEF i
  <2>4. /\ t \in Pools
        /\ t.at = i.at /\ t.inFlight = i.inFlight /\ t.redeemed = i.redeemed
        /\ t.future = [i.future EXCEPT ![r] = "result"]
    BY <2>3 DEF Pools, FutureStates
  <2> HIDE DEF t
  <2>5. s.at[r] = NoPeer
    BY <1>4 DEF Sound
  <2>6. t.future[r] # "pending" /\ \A z \in Requests \ {r} : t.future[z] = s.future[z]
    BY <1>1, <2>3, <2>4 DEF Pools
  <2>7. Sound(t)
    <3>1. /\ t \in Pools /\ t.redeemed = s.redeemed
          /\ t.at = [s.at EXCEPT ![r] = p]
          /\ t.inFlight = [s.inFlight EXCEPT ![p] = @ + 1]
      BY <2>3, <2>4
    <3> QED
      BY <2>1, <2>5, <2>6, <3>1, GrantSound
  <2>8. Moves(s, t)
    <3>1. ASSUME NEW z \in Requests \ {r}
          PROVE  t.at[z] = s.at[z] /\ t.future[z] = s.future[z]
      BY <1>1, <2>3, <2>4, <2>6 DEF Pools
    <3>2. r \notin s.redeemed
      BY <2>5 DEF Sound, Held
    <3>3. s.redeemed = {z \in s.redeemed : t.at[z] # NoPeer}
      BY <3>1, <3>2 DEF Sound, Held
    <3>4. t.redeemed = s.redeemed
      BY <2>3, <2>4
    <3> QED
      BY <1>4, <2>5, <3>1, <3>3, <3>4 DEF Moves
  <2> QED
    BY <2>2, <2>4, <2>7, <2>8 DEF Reach
<1> QED
  BY <1>2, <1>3, <1>4

\* The turns of the dispatch loop, however many waiters it serves or defers.
DispatchTurns(s) ==
    {f \in [0..Len(s.waiters) -> Reach(s)] :
        /\ f[0] = [s EXCEPT !.waiters = << >>]
        /\ \A k \in 1..Len(s.waiters) : f[k] = Serve(f[k - 1], s.waiters[k])
        /\ Dispatch(s) = f[Len(s.waiters)]}

\* The dispatch loop goes from one sound pool to the next.
LEMMA DispatchLoop ==
    ASSUME NEW s, Sound(s)
    PROVE  DispatchTurns(s) # {}
<1> DEFINE R == Reach(s)
           n == Len(s.waiters)
           start == [s EXCEPT !.waiters = << >>]
           F == [x \in R \X (1..n) |-> Serve(x[1], s.waiters[x[2]])]
           Loop(f) == [k \in 0..n |-> IF k = 0 THEN start
                                      ELSE Serve(f[k - 1], s.waiters[k])]
           scan == CHOOSE f : f = Loop(f)
<1>1. s \in Pools /\ n \in Nat /\ \A k \in 1..n : s.waiters[k] \in Requests
  BY DEF Sound, Pools
<1>2. start \in R
  <2>1. /\ start \in Pools /\ start.future = s.future /\ start.at = s.at
        /\ start.inFlight = s.inFlight /\ start.redeemed = s.redeemed
    <3>1. << >> \in Seq(Requests)
      OBVIOUS
    <3> QED
      BY <1>1, <3>1 DEF Pools
  <2> HIDE DEF start
  <2>2. Sound(start)
    BY <2>1 DEF Sound, Held
  <2>3. Moves(s, start)
    BY <2>1 DEF Moves, Sound, Held
  <2> QED
    BY <2>1, <2>2, <2>3 DEF Reach
<1>3. ASSUME NEW t \in R, NEW k \in 1..n
      PROVE  Serve(t, s.waiters[k]) \in R
  <2>1. Serve(t, s.waiters[k]) \in Reach(t)
    BY <1>1, ServeReaches DEF Reach
  <2> QED
    BY <2>1, ReachTransitive
<1>4. F \in [R \X (1..n) -> R]
  BY <1>3
<1> HIDE DEF R, n, start
<1>5. PICK f \in [0..n -> R] : /\ f[0] = start
                               /\ \A k \in 1..n : f[k] = F[<<f[k - 1], k>>]
  <2> HIDE DEF F
  <2>1. n \in Nat
    BY <1>1
  <2>2. Iterations(R, start, n, F) # {}
    BY <1>2, <1>4, <2>1, IterationExists
  <2> QED
    BY <2>2 DEF Iterations
<1>6. f = Loop(f)
  <2>1. ASSUME NEW k \in 0..n, k # 0
        PROVE  f[k] = Serve(f[k - 1], s.waiters[k])
    <3>1. k \in 1..n /\ k - 1 \in 0..n
      BY <1>1, <2>1
    <3>2. f[k - 1] \in R /\ f[k] = F[<<f[k - 1], k>>]
      BY <1>5, <3>1
    <3> QED
      BY <3>1, <3>2
  <2>2. f = [k \in 0..n |-> f[k]]
    OBVIOUS
  <2>3. \A k \in 0..n : f[k] = IF k = 0 THEN start ELSE Serve(f[k - 1], s.waiters[k])
    BY <1>5, <2>1
  <2> HIDE DEF F
  <2> QED
    BY <2>2, <2>3
<1>7. scan = Loop(scan)
  <2> HIDE DEF Loop
  <2> QED
    BY <1>6
<1>8. scan[0] = start /\ \A k \in 1..n : scan[k] = Serve(scan[k - 1], s.waiters[k])
  <2> HIDE DEF scan
  <2> QED
    BY <1>1, <1>7
<1>9. ASSUME NEW m \in 0..n PROVE scan[m] \in R
  <2> HIDE DEF scan
  <2>1. m \in Nat /\ \A k \in 1..m : k \in 1..n
    BY <1>1
  <2>2. ASSUME NEW k \in 1..m, scan[k - 1] \in R
        PROVE  scan[k] \in R
    BY <1>3, <1>8, <2>1, <2>2
  <2> QED
    BY <1>2, <1>8, <2>1, <2>2, LoopStays
<1>10. Dispatch(s) = scan[n]
  BY DEF Dispatch, n, start
<1>11. scan \in [0..n -> R]
  <2> HIDE DEF scan
  <2> QED
    BY <1>7, <1>9
<1> HIDE DEF scan
<1>12. scan \in DispatchTurns(s)
  BY <1>8, <1>10, <1>11 DEF DispatchTurns, R, n, start
<1> QED
  BY <1>12

\* A dispatch is a legal move.
LEMMA DispatchReaches ==
    ASSUME NEW s, Sound(s)
    PROVE  Dispatch(s) \in Reach(s)
<1>1. PICK f \in DispatchTurns(s) : TRUE
  BY DispatchLoop
<1>2. Len(s.waiters) \in Nat
  BY DEF Sound, Pools
<1> QED
  BY <1>1, <1>2 DEF DispatchTurns

\* Removing an element from a sequence leaves a sequence over the same set.
LEMMA WithoutTyped ==
    ASSUME NEW S, NEW q \in Seq(S), NEW r
    PROVE  Without(q, r) \in Seq(S)
<1>1. CASE r \notin ToSet(q)
  BY <1>1 DEF Without
<1>2. CASE r \in ToSet(q)
  <2> DEFINE i == CHOOSE k \in DOMAIN q : q[k] = r
  <2>1. i \in 1..Len(q)
    BY <1>2 DEF ToSet
  <2> HIDE DEF i
  <2>2. SubSeq(q, 1, i - 1) \in Seq(S) /\ SubSeq(q, i + 1, Len(q)) \in Seq(S)
    BY <2>1, SubSeqProperties
  <2> QED
    BY <1>2, <2>2 DEF Without, RemoveAt, i
<1> QED
  BY <1>1, <1>2

\* Ending a lease, if there is one, returns its slot and is a legal move.
LEMMA PopReaches ==
    ASSUME NEW s, Sound(s), NEW r \in Requests
    PROVE  Pop(s, r) \in Reach(s)
<1> DEFINE t == Pop(s, r)
<1>1. s \in Pools
  BY DEF Sound
<1>2. CASE s.at[r] = NoPeer
  <2>1. /\ t \in Pools /\ t.future = s.future /\ t.at = s.at
        /\ t.inFlight = s.inFlight /\ t.redeemed = s.redeemed \ {r}
    BY <1>1, <1>2 DEF Pop, Pools
  <2> HIDE DEF t
  <2>2. t.redeemed = s.redeemed
    BY <1>2, <2>1 DEF Sound, Held
  <2>3. Sound(t)
    BY <2>1, <2>2 DEF Sound, Held
  <2>4. Moves(s, t)
    BY <2>1, <2>2 DEF Moves, Sound, Held
  <2> QED
    BY <2>1, <2>3, <2>4 DEF Reach, t
<1>3. CASE s.at[r] # NoPeer
  <2>1. s.at[r] \in Peers
    BY <1>1, <1>3 DEF Pools
  <2>2. /\ Without(s.leases, r) \in Seq(Requests)
        /\ [s.at EXCEPT ![r] = NoPeer] \in [Requests -> Peers \cup {NoPeer}]
        /\ [s.left EXCEPT ![r] = 0] \in [Requests -> Int]
        /\ [s.inFlight EXCEPT ![s.at[r]] = IF @ = 0 THEN 0 ELSE @ - 1] \in [Peers -> Nat]
    <3>1. Without(s.leases, r) \in Seq(Requests)
      BY <1>1, WithoutTyped DEF Pools
    <3> QED
      BY <1>1, <2>1, <3>1 DEF Pools
  <2>3. /\ t \in Pools /\ t.future = s.future
        /\ t.at = [s.at EXCEPT ![r] = NoPeer]
        /\ t.inFlight = [s.inFlight EXCEPT ![s.at[r]] = IF @ = 0 THEN 0 ELSE @ - 1]
        /\ t.redeemed = s.redeemed \ {r}
    BY <1>1, <1>3, <2>1, <2>2 DEF Pop, Pools
  <2> HIDE DEF t
  <2>4. Sound(t)
    BY <1>3, <2>3, ReturnSound
  <2>5. Moves(s, t)
    BY <1>1, <1>3, <2>3 DEF Moves, Sound, Held, Pools
  <2> QED
    BY <2>3, <2>4, <2>5 DEF Reach, t
<1> QED
  BY <1>2, <1>3

\* release(): the slot returns and is dispatched at once.
LEMMA ReleaseReaches ==
    ASSUME NEW s, Sound(s), NEW r \in Requests
    PROVE  Release(s, r) \in Reach(s)
<1>1. Pop(s, r) \in Reach(s) /\ Sound(Pop(s, r))
  BY PopReaches DEF Reach
<1>2. Dispatch(Pop(s, r)) \in Reach(Pop(s, r))
  BY <1>1, DispatchReaches
<1> QED
  BY <1>1, <1>2, ReachTransitive DEF Release

\* The turns of the sweep over the lease table, however many leases it ends and however
\* many waiters each freed slot serves.
ExpireTurns(s) ==
    {f \in [0..Len(s.leases) -> Reach(s)] :
        /\ f[0] = s
        /\ \A k \in 1..Len(s.leases) :
              f[k] = IF Expired(s, s.leases[k]) THEN Release(f[k - 1], s.leases[k])
                                                ELSE f[k - 1]
        /\ ExpireStale(s) = f[Len(s.leases)]}

\* The sweep goes from one sound pool to the next.
LEMMA ExpireLoop ==
    ASSUME NEW s, Sound(s)
    PROVE  ExpireTurns(s) # {}
<1> DEFINE R == Reach(s)
           n == Len(s.leases)
           Turn(t, k) == IF Expired(s, s.leases[k]) THEN Release(t, s.leases[k]) ELSE t
           F == [x \in R \X (1..n) |-> Turn(x[1], x[2])]
           Loop(f) == [k \in 0..n |-> IF k = 0 THEN s
                                      ELSE IF Expired(s, s.leases[k])
                                           THEN Release(f[k - 1], s.leases[k])
                                      ELSE f[k - 1]]
           sweep == CHOOSE f : f = Loop(f)
<1>1. s \in Pools /\ n \in Nat /\ \A k \in 1..n : s.leases[k] \in Requests
  BY DEF Sound, Pools
<1>2. s \in R
  BY ReachesItself
<1>3. ASSUME NEW t \in R, NEW k \in 1..n PROVE Turn(t, k) \in R
  <2>1. Release(t, s.leases[k]) \in Reach(t)
    BY <1>1, ReleaseReaches DEF Reach
  <2>2. Release(t, s.leases[k]) \in R
    BY <2>1, ReachTransitive
  <2> HIDE DEF R
  <2> QED
    BY <2>2
<1> HIDE DEF R, n, Turn
<1>4. F \in [R \X (1..n) -> R]
  BY <1>3
<1>5. PICK f \in [0..n -> R] : /\ f[0] = s
                               /\ \A k \in 1..n : f[k] = F[<<f[k - 1], k>>]
  <2> HIDE DEF F
  <2>1. n \in Nat
    BY <1>1
  <2>2. Iterations(R, s, n, F) # {}
    BY <1>2, <1>4, <2>1, IterationExists
  <2> QED
    BY <2>2 DEF Iterations
<1>6. f = Loop(f)
  <2>1. ASSUME NEW k \in 0..n, k # 0
        PROVE  f[k] = Turn(f[k - 1], k)
    <3>1. k \in 1..n /\ k - 1 \in 0..n
      BY <1>1, <2>1
    <3>2. f[k - 1] \in R /\ f[k] = F[<<f[k - 1], k>>]
      BY <1>5, <3>1
    <3> QED
      BY <3>1, <3>2
  <2>2. f = [k \in 0..n |-> f[k]]
    OBVIOUS
  <2>3. \A k \in 0..n : f[k] = IF k = 0 THEN s
                               ELSE IF Expired(s, s.leases[k])
                                    THEN Release(f[k - 1], s.leases[k])
                               ELSE f[k - 1]
    BY <1>5, <2>1 DEF Turn
  <2> HIDE DEF F
  <2> QED
    BY <2>2, <2>3
<1>7. sweep = Loop(sweep)
  <2> HIDE DEF Loop
  <2> QED
    BY <1>6
<1>8. sweep[0] = s /\ \A k \in 1..n : sweep[k] = Turn(sweep[k - 1], k)
  <2> HIDE DEF sweep
  <2> QED
    BY <1>1, <1>7 DEF Turn
<1>9. ASSUME NEW m \in 0..n PROVE sweep[m] \in R
  <2> HIDE DEF sweep
  <2>1. m \in Nat /\ \A k \in 1..m : k \in 1..n
    BY <1>1
  <2>2. ASSUME NEW k \in 1..m, sweep[k - 1] \in R
        PROVE  sweep[k] \in R
    BY <1>3, <1>8, <2>1, <2>2
  <2> QED
    BY <1>2, <1>8, <2>1, <2>2, LoopStays
<1>10. ExpireStale(s) = sweep[n]
  BY DEF ExpireStale, n
<1>11. sweep \in [0..n -> R]
  <2> HIDE DEF sweep
  <2> QED
    BY <1>7, <1>9
<1> HIDE DEF sweep
<1>12. sweep \in ExpireTurns(s)
  BY <1>8, <1>10, <1>11 DEF ExpireTurns, R, n, Turn
<1> QED
  BY <1>12

\* A sweep is a legal move.
LEMMA ExpireStaleReaches ==
    ASSUME NEW s, Sound(s)
    PROVE  ExpireStale(s) \in Reach(s)
<1>1. PICK f \in ExpireTurns(s) : TRUE
  BY ExpireLoop
<1>2. Len(s.leases) \in Nat
  BY DEF Sound, Pools
<1> QED
  BY <1>1, <1>2 DEF ExpireTurns

-----------------------------------------------------------------------------
(* The inductive invariant and its steps.                                  *)

\* Beyond the pool's own soundness: an unresolved future belongs to a handler
\* that awaits it, an exchange that has not begun holds nothing, and a request
\* that opened a relay either has no lease any more or has it marked.
IInv ==
    /\ TypeOK
    /\ Sound(pool)
    /\ \A r \in Requests : pool.future[r] = "pending" => call[r] = "waiting"
    /\ \A r \in Requests : call[r] = "idle" => pool.at[r] = NoPeer /\ opened[r] = 0
    /\ \A r \in Requests :
          opened[r] # 0 => /\ opened[r] = 1
                           /\ call[r] = "granted"
                           /\ pool.at[r] # NoPeer => r \in pool.redeemed

\* What a step may do to leases and marks, seen from LeasePool.
HandsOver ==
    /\ \A r \in Requests : pool.at[r] # NoPeer => pool'.at[r] \in {pool.at[r], NoPeer}
    /\ pool'.redeemed = {r \in pool.redeemed : pool'.at[r] # NoPeer}

\* A step that only lets the pool evolve, and touches no exchange.
LEMMA ReachStep ==
    ASSUME IInv, pool' \in Reach(pool), UNCHANGED <<ask, call, wait, opened>>,
           via' \in [Requests -> Peers \cup {NoPeer}], failed' \in SUBSET Requests,
           beat' = beat
    PROVE  IInv' /\ HandsOver
<1>1. Sound(pool)' /\ Moves(pool, pool') /\ pool' \in Pools
  BY DEF Reach, Sound, Held
<1>2. HandsOver
  BY <1>1 DEF Moves, HandsOver
<1>3. TypeOK'
  BY <1>1 DEF IInv, TypeOK
<1>4. \A r \in Requests : pool'.future[r] = "pending" => call'[r] = "waiting"
  BY <1>1 DEF IInv, Moves
<1>5. \A r \in Requests : call'[r] = "idle" => pool'.at[r] = NoPeer /\ opened'[r] = 0
  BY <1>1 DEF IInv, Moves
<1>6. ASSUME NEW r \in Requests, opened'[r] # 0
      PROVE  /\ opened'[r] = 1
             /\ call'[r] = "granted"
             /\ pool'.at[r] # NoPeer => r \in pool'.redeemed
  <2>1. /\ opened[r] = 1 /\ call[r] = "granted"
        /\ pool.at[r] # NoPeer => r \in pool.redeemed
    BY <1>6 DEF IInv
  <2>2. pool.future[r] # "pending"
    BY <2>1 DEF IInv
  <2> QED
    BY <1>1, <2>1, <2>2 DEF Moves
<1> QED
  BY <1>1, <1>2, <1>3, <1>4, <1>5, <1>6 DEF IInv

\* A step that leaves leases, marks and counters alone.
LEMMA SameLeases ==
    ASSUME NEW s, Sound(s), NEW t \in Pools,
           t.at = s.at, t.inFlight = s.inFlight, t.redeemed = s.redeemed,
           \A r \in Requests : t.future[r] = "pending" => t.at[r] = NoPeer
    PROVE  /\ Sound(t)
           /\ t.redeemed = {r \in s.redeemed : t.at[r] # NoPeer}
BY DEF Sound, Held

\* A deadline or a cancellation marks the call and touches no slot.
LEMMA InterruptStep ==
    ASSUME IInv, NEW r \in Requests, NEW as \in {"timing_out", "cancelling"},
           call[r] \in Suspended, Interrupt(r, as)
    PROVE  IInv' /\ HandsOver
<1>1. pool \in Pools /\ Sound(pool)
  BY DEF IInv, Sound
<1>2. /\ pool' \in Pools
      /\ pool'.at = pool.at /\ pool'.inFlight = pool.inFlight
      /\ pool'.redeemed = pool.redeemed
      /\ pool'.future = [pool.future EXCEPT ![r] = IF @ = "pending" THEN "cancelled" ELSE @]
  <2>1. [pool.future EXCEPT ![r] = IF @ = "pending" THEN "cancelled" ELSE @]
            \in [Requests -> FutureStates]
    BY <1>1 DEF Pools, FutureStates
  <2> QED
    BY <1>1, <2>1 DEF Interrupt, Pools
<1>3. \A z \in Requests : pool'.future[z] = "pending" =>
                              z # r /\ pool.future[z] = "pending"
  BY <1>1, <1>2 DEF Pools
<1>4. \A z \in Requests : pool'.future[z] = "pending" => pool'.at[z] = NoPeer
  BY <1>1, <1>2, <1>3 DEF Sound
<1>5. Sound(pool') /\ HandsOver
  BY <1>1, <1>2, <1>4, SameLeases DEF HandsOver
<1>6. /\ call \in [Requests -> {"idle"} \cup Suspended \cup Answers]
      /\ call' = [call EXCEPT ![r] = as] /\ call[r] \in Suspended
      /\ UNCHANGED <<ask, wait, via, failed, opened, beat>>
  BY DEF IInv, TypeOK, Interrupt
<1>7. TypeOK'
  BY <1>2, <1>6 DEF IInv, TypeOK, Suspended
<1>8. \A z \in Requests : pool'.future[z] = "pending" => call'[z] = "waiting"
  BY <1>3, <1>6 DEF IInv
<1>9. \A z \in Requests : call'[z] = "idle" => pool'.at[z] = NoPeer /\ opened'[z] = 0
  BY <1>2, <1>6 DEF IInv, Suspended
<1>10. \A z \in Requests :
          opened'[z] # 0 => /\ opened'[z] = 1 /\ call'[z] = "granted"
                            /\ pool'.at[z] # NoPeer => z \in pool'.redeemed
  BY <1>2, <1>6 DEF IInv, Suspended
<1> QED
  BY <1>5, <1>7, <1>8, <1>9, <1>10 DEF IInv

\* The waiting task runs on: it has its lease, or leaves the queue.
LEMMA ResumeStep ==
    ASSUME IInv, NEW r \in Requests, Resume(r)
    PROVE  IInv' /\ HandsOver
<1>1. pool \in Pools /\ Sound(pool)
  BY DEF IInv, Sound
<1>2. /\ pool' \in Pools
      /\ pool'.at = pool.at /\ pool'.inFlight = pool.inFlight
      /\ pool'.redeemed = pool.redeemed /\ pool'.future = pool.future
  <2>1. Without(pool.waiters, r) \in Seq(Requests)
    BY <1>1, WithoutTyped DEF Pools
  <2> QED
    BY <1>1, <2>1 DEF Resume, Drop, Pools
<1>3. Sound(pool') /\ HandsOver
  BY <1>1, <1>2, SameLeases DEF HandsOver, Sound
<1>4. /\ call \in [Requests -> {"idle"} \cup Suspended \cup Answers]
      /\ pool.future[r] # "pending" /\ call[r] \in Suspended
      /\ \E a \in Answers : call' = [call EXCEPT ![r] = a]
      /\ wait' = [wait EXCEPT ![r] = 0]
      /\ ask' \in [Requests -> [model : Models, score : Scores]]
      /\ UNCHANGED <<via, failed, opened, beat>>
  BY SomeWish DEF IInv, TypeOK, Resume, Answers, Suspended, NoAsk
<1>5. PICK a \in Answers : call' = [call EXCEPT ![r] = a]
  BY <1>4
<1>6. TypeOK'
  BY <1>2, <1>4, <1>5 DEF IInv, TypeOK
<1>7. \A z \in Requests : pool'.future[z] = "pending" => call'[z] = "waiting"
  BY <1>2, <1>4, <1>5 DEF IInv
<1>8. \A z \in Requests : call'[z] = "idle" => pool'.at[z] = NoPeer /\ opened'[z] = 0
  BY <1>2, <1>4, <1>5 DEF IInv, Answers
<1>9. \A z \in Requests :
          opened'[z] # 0 => /\ opened'[z] = 1 /\ call'[z] = "granted"
                            /\ pool'.at[z] # NoPeer => z \in pool'.redeemed
  BY <1>2, <1>4, <1>5 DEF IInv, Suspended
<1> QED
  BY <1>3, <1>6, <1>7, <1>8, <1>9 DEF IInv

\* A delivery of the envelope redeems the lease or changes nothing.
LEMMA InferStep ==
    ASSUME IInv, NEW r \in Requests, Infer(r)
    PROVE  IInv' /\ Promise!Redeem(r)
<1>1. pool \in Pools /\ Sound(pool)
  BY DEF IInv, Sound
<1>2. /\ pool' \in Pools
      /\ pool'.at = pool.at /\ pool'.inFlight = pool.inFlight
      /\ pool'.redeemed = pool.redeemed \cup {r} /\ pool'.future = pool.future
  <2>1. pool.redeemed \cup {r} \in SUBSET Requests
    BY <1>1 DEF Pools
  <2> QED
    BY <1>1, <2>1 DEF Infer, Pools
<1>3. /\ pool.at[r] # NoPeer /\ call[r] = "granted" /\ r \notin pool.redeemed
      /\ via' = [via EXCEPT ![r] = pool.at[r]]
      /\ opened' = [opened EXCEPT ![r] = @ + 1]
      /\ UNCHANGED <<ask, call, wait, failed, beat>>
  BY DEF Infer
<1>4. Sound(pool')
  BY <1>1, <1>2, <1>3 DEF Sound, Held
<1>5. opened[r] = 0
  BY <1>3 DEF IInv
<1>6. TypeOK'
  <2>1. via' \in [Requests -> Peers \cup {NoPeer}] /\ opened' \in [Requests -> Nat]
    BY <1>1, <1>3 DEF IInv, TypeOK, Pools
  <2> QED
    BY <1>2, <1>3, <2>1 DEF IInv, TypeOK
<1>7. \A z \in Requests :
          opened'[z] # 0 => /\ opened'[z] = 1 /\ call'[z] = "granted"
                            /\ pool'.at[z] # NoPeer => z \in pool'.redeemed
  BY <1>2, <1>3, <1>5 DEF IInv, TypeOK
<1>8. \A z \in Requests : call'[z] = "idle" => pool'.at[z] = NoPeer /\ opened'[z] = 0
  BY <1>2, <1>3 DEF IInv, TypeOK
<1>9. \A z \in Requests : pool'.future[z] = "pending" => call'[z] = "waiting"
  BY <1>2, <1>3 DEF IInv
<1>10. Promise!Redeem(r)
  BY <1>2, <1>3 DEF Promise!Redeem
<1> QED
  BY <1>4, <1>6, <1>7, <1>8, <1>9, <1>10 DEF IInv

\* The end of a relay returns the slot and dispatches.
LEMMA ReleaseStep ==
    ASSUME IInv, NEW r \in Requests, InferExpired(r) \/ EndRelay(r)
    PROVE  IInv' /\ HandsOver
<1>1. pool' = Release(pool, r)
  BY DEF InferExpired, EndRelay
<1>2. pool' \in Reach(pool)
  BY <1>1, ReleaseReaches DEF IInv
<1>3. /\ UNCHANGED <<ask, call, wait, opened, beat>>
      /\ via' \in [Requests -> Peers \cup {NoPeer}] /\ failed' \in SUBSET Requests
  BY DEF IInv, TypeOK, InferExpired, EndRelay
<1> QED
  BY <1>2, <1>3, ReachStep

\* Steps of peers and of the clock, which leave the exchanges as they are.
LEMMA BeatStep ==
    ASSUME IInv, \/ \E r \in Requests : RelayFails(r)
                 \/ \E p \in Peers, healthy \in BOOLEAN : Heartbeat(p, healthy)
    PROVE  IInv' /\ HandsOver
<1>1. UNCHANGED <<pool, ask, call, wait, via, opened>>
  BY DEF RelayFails, Heartbeat
<1>2. beat \in [Peers -> [healthy : BOOLEAN, age : Nat, failures : 0..FailureLimit]]
      /\ failed \in SUBSET Requests
  BY DEF IInv, TypeOK
<1>3. /\ beat' \in [Peers -> [healthy : BOOLEAN, age : Nat, failures : 0..FailureLimit]]
      /\ failed' \in SUBSET Requests
  <2>1. ASSUME NEW r \in Requests, RelayFails(r) 
        PROVE  <1>3!1 /\ <1>3!2
    <3> DEFINE p == via[r]
               n == IF beat[p].failures < FailureLimit THEN beat[p].failures + 1 ELSE FailureLimit
    <3>1. p \in Peers /\ failed' = failed \cup {r}
      BY <2>1 DEF RelayFails, IInv, TypeOK
    <3>2. beat' = [beat EXCEPT ![p].failures = n, ![p].healthy = @ /\ n < FailureLimit]
      BY <2>1 DEF RelayFails
    <3>3. beat[p] \in [healthy : BOOLEAN, age : Nat, failures : 0..FailureLimit]
      BY <1>2, <3>1
    <3>4. n \in 0..FailureLimit
      BY <3>3 DEF FailureLimit
    <3> HIDE DEF n, p
    <3>5. [beat[p] EXCEPT !.failures = n, !.healthy = @ /\ n < FailureLimit]
             \in [healthy : BOOLEAN, age : Nat, failures : 0..FailureLimit]
      BY <3>3, <3>4
    <3>6. beat' = [beat EXCEPT ![p] =
                     [beat[p] EXCEPT !.failures = n, !.healthy = @ /\ n < FailureLimit]]
      BY <1>2, <3>1, <3>2
    <3>7. beat' \in [Peers -> [healthy : BOOLEAN, age : Nat, failures : 0..FailureLimit]]
      BY <1>2, <3>1, <3>5, <3>6
    <3> QED
      BY <1>2, <3>1, <3>7
  <2>2. ASSUME NEW p \in Peers, NEW healthy \in BOOLEAN, Heartbeat(p, healthy)
        PROVE  <1>3!1 /\ <1>3!2
    BY <1>2, <2>2 DEF Heartbeat, FailureLimit
  <2> QED
    BY <2>1, <2>2
<1>4. pool \in Pools /\ Sound(pool)
  BY DEF IInv, Sound
<1>5. HandsOver
  BY <1>1, <1>4 DEF HandsOver, Sound, Held
<1>6. TypeOK'
  BY <1>1, <1>3 DEF IInv, TypeOK
<1> QED
  BY <1>1, <1>5, <1>6 DEF IInv, Sound, Held

\* Time passes; slots, futures and leases stay.
LEMMA TickStep ==
    ASSUME IInv, Tick
    PROVE  IInv' /\ HandsOver
<1>1. pool \in Pools /\ Sound(pool)
  BY DEF IInv, Sound
<1> DEFINE left == [r \in Requests |-> IF pool.at[r] # NoPeer /\ pool.left[r] >= 0
                                       THEN pool.left[r] - 1 ELSE pool.left[r]]
<1>2. left \in [Requests -> Int]
  BY <1>1 DEF Pools
<1>3. pool' = [pool EXCEPT !.left = left]
  BY DEF Tick
<1> HIDE DEF left
<1>4. /\ pool' \in Pools
      /\ pool'.at = pool.at /\ pool'.inFlight = pool.inFlight
      /\ pool'.redeemed = pool.redeemed /\ pool'.future = pool.future
  BY <1>1, <1>2, <1>3 DEF Pools
<1>5. Sound(pool') /\ HandsOver
  BY <1>1, <1>4, SameLeases DEF HandsOver, Sound
<1>6. UNCHANGED <<ask, call, via, failed, opened>>
  BY DEF Tick
<1>7. wait' \in [Requests -> Nat]
  BY DEF IInv, TypeOK, Tick
<1>8. beat' \in [Peers -> [healthy : BOOLEAN, age : Nat, failures : 0..FailureLimit]]
  BY DEF IInv, TypeOK, Tick
<1>9. TypeOK'
  BY <1>4, <1>6, <1>7, <1>8 DEF IInv, TypeOK
<1> QED
  BY <1>4, <1>5, <1>6, <1>9 DEF IInv

\* A finished exchange makes room for another caller.
LEMMA ForgetStep ==
    ASSUME IInv, NEW r \in Requests, Forget(r)
    PROVE  IInv' /\ HandsOver
<1>1. pool \in Pools /\ Sound(pool)
  BY DEF IInv, Sound
<1>2. /\ pool' \in Pools
      /\ pool'.at = pool.at /\ pool'.inFlight = pool.inFlight
      /\ pool'.redeemed = pool.redeemed
      /\ pool'.future = [pool.future EXCEPT ![r] = "none"]
  BY <1>1 DEF Forget, Pools, FutureStates
<1>3. \A z \in Requests : pool'.future[z] = "pending" =>
                              z # r /\ pool.future[z] = "pending"
  BY <1>1, <1>2 DEF Pools
<1>4. \A z \in Requests : pool'.future[z] = "pending" => pool'.at[z] = NoPeer
  BY <1>1, <1>2, <1>3 DEF Sound
<1>5. Sound(pool') /\ HandsOver
  BY <1>1, <1>2, <1>4, SameLeases DEF HandsOver
<1>6. /\ call' = [call EXCEPT ![r] = "idle"] /\ opened' = [opened EXCEPT ![r] = 0]
      /\ pool.at[r] = NoPeer
      /\ UNCHANGED <<ask, wait, via, failed, beat>>
  BY DEF Forget
<1>8. TypeOK'
  BY <1>2, <1>6 DEF IInv, TypeOK
<1>9. \A z \in Requests : pool'.future[z] = "pending" => call'[z] = "waiting"
  BY <1>3, <1>6 DEF IInv, TypeOK
<1>10. \A z \in Requests : call'[z] = "idle" => pool'.at[z] = NoPeer /\ opened'[z] = 0
  BY <1>2, <1>6 DEF IInv, TypeOK
<1>11. \A z \in Requests :
          opened'[z] # 0 => /\ opened'[z] = 1 /\ call'[z] = "granted"
                            /\ pool'.at[z] # NoPeer => z \in pool'.redeemed
  BY <1>2, <1>6 DEF IInv, TypeOK
<1> QED
  BY <1>5, <1>8, <1>9, <1>10, <1>11 DEF IInv

\* Inserting an element anywhere in a sequence keeps it a sequence.
LEMMA InsertTyped ==
    ASSUME NEW S, NEW q \in Seq(S), NEW i \in 1..(Len(q) + 1), NEW r \in S
    PROVE  InsertAt(q, i, r) \in Seq(S)
<1>1. SubSeq(q, 1, i - 1) \in Seq(S) /\ SubSeq(q, i, Len(q)) \in Seq(S)
  BY SubSeqProperties
<1> QED
  BY <1>1 DEF InsertAt

\* Queueing makes a pending future and touches no slot.
LEMMA PushTyped ==
    ASSUME NEW s \in Pools, NEW r \in Requests, NEW score
    PROVE  /\ Push(s, r, score) \in Pools
           /\ Push(s, r, score).future = [s.future EXCEPT ![r] = "pending"]
           /\ Push(s, r, score).at = s.at
           /\ Push(s, r, score).inFlight = s.inFlight
           /\ Push(s, r, score).redeemed = s.redeemed
<1> DEFINE ahead == {k \in DOMAIN s.waiters : ask[s.waiters[k]].score >= score}
           i == Cardinality(ahead) + 1
           q == InsertAt(s.waiters, i, r)
<1>1. i \in 1..(Len(s.waiters) + 1)
  <2>1. s.waiters \in Seq(Requests) /\ DOMAIN s.waiters = 1..Len(s.waiters)
        /\ Len(s.waiters) \in Nat
    BY DEF Pools
  <2>2. IsFiniteSet(1..Len(s.waiters)) /\ Cardinality(1..Len(s.waiters)) = Len(s.waiters)
    BY <2>1, FS_Interval
  <2>3. ahead \subseteq 1..Len(s.waiters)
    BY <2>1
  <2> HIDE DEF ahead
  <2>4. Cardinality(ahead) \in Nat /\ Cardinality(ahead) <= Len(s.waiters)
    BY <2>2, <2>3, FS_Subset, FS_CardinalityType
  <2> QED
    BY <2>1, <2>4
<1>2. q \in Seq(Requests)
  BY <1>1, InsertTyped DEF Pools
<1>3. Push(s, r, score) = [s EXCEPT !.waiters = q, !.future[r] = "pending"]
  BY DEF Push
<1> HIDE DEF q
<1>4. [s.future EXCEPT ![r] = "pending"] \in [Requests -> FutureStates]
  BY DEF Pools, FutureStates
<1> QED
  BY <1>2, <1>3, <1>4 DEF Pools

\* A lease request: the sweep, then a slot, a place in the queue, or a refusal.
LEMMA LeaseStep ==
    ASSUME IInv, NEW r \in Requests, NEW m \in Models, NEW score \in Scores,
           Lease(r, m, score)
    PROVE  IInv' /\ HandsOver
<1> DEFINE s == ExpireStale(pool)
           p == LeastLoaded(s, Free(s, m))
<1>1. Sound(pool) /\ pool \in Pools /\ call[r] = "idle"
  BY DEF IInv, Sound, Lease
<1>2. Sound(s) /\ Moves(pool, s) /\ s \in Pools
  BY <1>1, ExpireStaleReaches DEF Reach
<1>3. /\ pool.at[r] = NoPeer /\ pool.future[r] # "pending" /\ opened[r] = 0
      /\ s.at[r] = NoPeer /\ s.future[r] = pool.future[r]
  BY <1>1, <1>2 DEF IInv, Moves
<1>4. /\ ask' \in [Requests -> [model : Models, score : Scores]]
      /\ UNCHANGED <<via, failed, opened, beat>>
  BY DEF Lease, IInv, TypeOK
\* What the four outcomes have in common.
<1>5. \E a \in {"no_capacity", "granted", "queue_full", "waiting"} :
         /\ call' = [call EXCEPT ![r] = a]
         /\ wait' \in [Requests -> Nat]
         /\ pool' \in Pools /\ Sound(pool')
         /\ \A z \in Requests \ {r} : pool'.at[z] = s.at[z] /\ pool'.future[z] = s.future[z]
         /\ pool'.redeemed = s.redeemed
         /\ a # "waiting" => pool'.future[r] = s.future[r]
  <2>1. wait \in [Requests -> Nat]
    BY DEF IInv, TypeOK
  <2>2. CASE pool' = s /\ UNCHANGED wait
             /\ call' \in {[call EXCEPT ![r] = a] : a \in {"no_capacity", "queue_full"}}
    BY <1>2, <2>1, <2>2
  <2>3. CASE /\ Free(s, m) # {} /\ pool' = Issue(s, r, p)
             /\ call' = [call EXCEPT ![r] = "granted"] /\ UNCHANGED wait
    <3>1. p \in Peers /\ s.inFlight[p] < MaxConcurrent[p]
      BY <1>2, <2>3, LeastLoadedFree
    <3> HIDE DEF p, s
    <3>2. /\ pool' \in Pools /\ pool'.future = s.future
          /\ pool'.at = [s.at EXCEPT ![r] = p]
          /\ pool'.inFlight = [s.inFlight EXCEPT ![p] = @ + 1]
          /\ pool'.redeemed = s.redeemed
      BY <1>2, <2>3, <3>1, IssueTyped
    <3>3. Sound(pool')
      BY <1>2, <1>3, <3>1, <3>2, GrantSound
    <3>4. \A z \in Requests \ {r} : pool'.at[z] = s.at[z]
      BY <1>2, <3>2 DEF Pools
    <3> QED
      BY <2>1, <2>3, <3>2, <3>3, <3>4
  <2>4. CASE /\ pool' = Push(s, r, score)
             /\ call' = [call EXCEPT ![r] = "waiting"]
             /\ wait' = [wait EXCEPT ![r] = QueueTimeout]
    <3> HIDE DEF s
    <3>1. /\ pool' \in Pools
          /\ pool'.future = [s.future EXCEPT ![r] = "pending"]
          /\ pool'.at = s.at /\ pool'.inFlight = s.inFlight
          /\ pool'.redeemed = s.redeemed
      BY <1>2, <2>4, PushTyped
    <3>2. \A z \in Requests \ {r} : pool'.at[z] = s.at[z] /\ pool'.future[z] = s.future[z]
      BY <1>2, <3>1 DEF Pools
    <3>3. \A z \in Requests : pool'.future[z] = "pending" => pool'.at[z] = NoPeer
      BY <1>2, <1>3, <3>1, <3>2 DEF Sound
    <3>4. Sound(pool')
      BY <1>2, <3>1, <3>3, SameLeases
    <3>5. wait' \in [Requests -> Nat]
      BY <2>1, <2>4, TimingTyped
    <3> QED
      BY <2>4, <3>1, <3>2, <3>4, <3>5
  <2> HIDE DEF s, p
  <2> QED
    BY <2>2, <2>3, <2>4 DEF Lease, s, p
<1>6. PICK a \in {"no_capacity", "granted", "queue_full", "waiting"} : <1>5!(a)
  BY <1>5
<1> HIDE DEF s, p
<1>7. HandsOver
  <2>1. r \notin pool.redeemed /\ r \notin s.redeemed
    BY <1>1, <1>2, <1>3 DEF Sound, Held
  <2>2. pool.redeemed \subseteq Requests
    BY <1>1 DEF Pools
  <2> QED
    BY <1>2, <1>3, <1>6, <2>1, <2>2 DEF HandsOver, Moves
<1>8. TypeOK'
  BY <1>4, <1>6 DEF IInv, TypeOK, Suspended, Answers
<1>9. ASSUME NEW z \in Requests, pool'.future[z] = "pending" PROVE call'[z] = "waiting"
  <2>1. CASE z = r
    BY <1>3, <1>6, <1>9, <2>1 DEF IInv, TypeOK
  <2>2. CASE z # r
    BY <1>2, <1>6, <1>9, <2>2 DEF IInv, TypeOK, Moves
  <2> QED
    BY <2>1, <2>2
<1>10. ASSUME NEW z \in Requests, call'[z] = "idle"
       PROVE  pool'.at[z] = NoPeer /\ opened'[z] = 0
  <2>1. z # r /\ call[z] = "idle"
    BY <1>6, <1>10 DEF IInv, TypeOK
  <2>2. pool.at[z] = NoPeer /\ pool.future[z] # "pending" /\ opened[z] = 0
    BY <2>1 DEF IInv
  <2> QED
    BY <1>2, <1>4, <1>6, <2>1, <2>2 DEF Moves
<1>11. ASSUME NEW z \in Requests, opened'[z] # 0
       PROVE  /\ opened'[z] = 1 /\ call'[z] = "granted"
              /\ pool'.at[z] # NoPeer => z \in pool'.redeemed
  <2>1. z # r /\ opened[z] # 0
    BY <1>3, <1>4, <1>11
  <2>2. /\ opened[z] = 1 /\ call[z] = "granted" /\ pool.future[z] # "pending"
        /\ pool.at[z] # NoPeer => z \in pool.redeemed
    BY <2>1 DEF IInv
  <2>3. s.at[z] # NoPeer => z \in s.redeemed
    BY <1>2, <2>2 DEF Moves
  <2>4. call'[z] = call[z]
    BY <1>6, <2>1 DEF IInv, TypeOK
  <2> QED
    BY <1>4, <1>6, <2>1, <2>2, <2>3, <2>4
<1> QED
  BY <1>6, <1>7, <1>8, <1>9, <1>10, <1>11 DEF IInv

-----------------------------------------------------------------------------
(* Theorems.                                                               *)

\* No leases, no waiters, every slot free.
LEMMA InitSound == Init => IInv
<1> SUFFICES ASSUME Init PROVE IInv
  OBVIOUS
<1>1. TypeOK
  <2>1. pool \in Pools
    <3>1. << >> \in Seq(Requests)
      OBVIOUS
    <3> QED
      BY <3>1 DEF Init, Pools, FutureStates
  <2>2. ask \in [Requests -> [model : Models, score : Scores]]
    BY SomeWish DEF Init, NoAsk
  <2> QED
    BY <2>1, <2>2 DEF Init, TypeOK, FailureLimit
<1>2. \A p \in Peers : {r \in Requests : pool.at[r] = p} = {}
  BY PeersAreIds DEF Init
<1>3. ASSUME NEW p \in Peers
      PROVE  /\ pool.inFlight[p] = Cardinality({r \in Requests : pool.at[r] = p})
             /\ pool.inFlight[p] <= MaxConcurrent[p]
  <2>1. pool.inFlight[p] = 0 /\ MaxConcurrent[p] \in Nat
    BY RosterTyped DEF Init
  <2>2. Cardinality({r \in Requests : pool.at[r] = p}) = 0
    BY <1>2, FS_EmptySet
  <2> QED
    BY <2>1, <2>2
<1> QED
  BY <1>1, <1>3 DEF Init, IInv, Sound, TypeOK

\* Every step keeps the invariant, and is a legal move, a redemption, or nothing to
\* the pool.
LEMMA StepSound ==
    ASSUME IInv, [Next]_vars
    PROVE  IInv' /\ (HandsOver \/ \E r \in Requests : Promise!Redeem(r))
<1>1. CASE UNCHANGED vars
  BY <1>1 DEF vars, IInv, TypeOK, Sound, Held, HandsOver
<1>2. ASSUME NEW r \in Requests, NEW m \in Models, NEW score \in Scores, Lease(r, m, score)
      PROVE  IInv' /\ HandsOver
  BY <1>2, LeaseStep
<1>3. ASSUME NEW r \in Requests, Timeout(r) \/ Cancel(r)
      PROVE  IInv' /\ HandsOver
  BY <1>3, InterruptStep DEF Timeout, Cancel, Suspended
<1>4. ASSUME NEW r \in Requests, Resume(r) PROVE IInv' /\ HandsOver
  BY <1>4, ResumeStep
<1>5. ASSUME NEW r \in Requests, InferExpired(r) \/ EndRelay(r)
      PROVE  IInv' /\ HandsOver
  BY <1>5, ReleaseStep
<1>6. ASSUME NEW r \in Requests, Infer(r) PROVE IInv' /\ Promise!Redeem(r)
  BY <1>6, InferStep
<1>7. ASSUME NEW r \in Requests, Forget(r) PROVE IInv' /\ HandsOver
  BY <1>7, ForgetStep
<1>8. ASSUME \/ \E r \in Requests : RelayFails(r)
             \/ \E p \in Peers, healthy \in BOOLEAN : Heartbeat(p, healthy)
      PROVE  IInv' /\ HandsOver
  BY <1>8, BeatStep
<1>9. ASSUME Tick PROVE IInv' /\ HandsOver
  BY <1>9, TickStep
<1> QED
  BY <1>1, <1>2, <1>3, <1>4, <1>5, <1>6, <1>7, <1>8, <1>9 DEF Next

\* The inductive invariant holds in every state the scheduler can reach.
THEOREM Invariance == Spec => []IInv
<1>1. IInv /\ [Next]_vars => IInv'
  BY StepSound
<1> QED
  BY InitSound, <1>1, PTL DEF Spec

\* Every variable keeps its type.
THEOREM TypeCorrect == Spec => []TypeOK
<1>1. IInv => TypeOK
  BY DEF IInv
<1> QED
  BY Invariance, <1>1, PTL

\* The in_flight counter of a peer is always the number of leases on it: no
\* release is lost and none counts twice.
THEOREM SlotsAccounted == Spec => []SlotAccounting
<1>1. IInv => SlotAccounting
  BY DEF IInv, Sound, SlotAccounting
<1> QED
  BY Invariance, <1>1, PTL

\* No peer is ever promised beyond its max_concurrent.
THEOREM CapacityRespected == Spec => []WithinCapacity
<1>1. IInv => WithinCapacity
  BY DEF IInv, Sound, WithinCapacity
<1> QED
  BY Invariance, <1>1, PTL

\* A lease is redeemed at most once, whatever duplicates of its envelope come
\* before, during or after the relay it opened.
RedeemedAtMostOnce == \A r \in Requests : opened[r] <= 1

\* However often an envelope is sent, its lease opens one relay at most.
THEOREM OneRelayPerLease == Spec => []RedeemedAtMostOnce
<1>1. IInv => RedeemedAtMostOnce
  BY DEF IInv, TypeOK, RedeemedAtMostOnce
<1> QED
  BY Invariance, <1>1, PTL

\* The scheduler implements LeasePool.
THEOREM ImplementsLeasePool == Spec => KeepsPromise
<1>1. Init => Promise!Init
  BY DEF Init, Promise!Init
<1>2. IInv /\ [Next]_vars => [Promise!Next]_(Promise!vars)
  <2> SUFFICES ASSUME IInv, [Next]_vars PROVE Promise!Next
    OBVIOUS
  <2>1. IInv' /\ (HandsOver \/ \E r \in Requests : Promise!Redeem(r))
    BY StepSound
  <2>2. ASSUME HandsOver PROVE Promise!Reassign
    <3>1. pool' \in Pools
      BY <2>1 DEF IInv, TypeOK
    <3>2. ASSUME NEW p \in Peers
          PROVE  Promise!Load(pool'.at, p) <= MaxConcurrent[p]
      <4>1. pool'.inFlight[p] = Cardinality({r \in Requests : pool'.at[r] = p})
            /\ pool'.inFlight[p] <= MaxConcurrent[p]
        BY <2>1 DEF IInv, Sound
      <4>2. Promise!Load(pool'.at, p) = Cardinality({r \in Requests : pool'.at[r] = p})
        BY DEF Promise!Load, Promise!Cardinality, Cardinality
      <4> QED
        BY <4>1, <4>2
    <3> QED
      BY <2>2, <3>1, <3>2 DEF Promise!Reassign, HandsOver, Pools
  <2> QED
    BY <2>1, <2>2 DEF Promise!Next
<1> QED
  BY Invariance, <1>1, <1>2, PTL DEF Spec, KeepsPromise, Promise!Spec

-----------------------------------------------------------------------------
(* Sequences that list each request once, in the order of their scores.    *)

Sorted(q) ==
    \A i, j \in DOMAIN q : i < j => ask[q[i]].score >= ask[q[j]].score

\* Taking out the element at a position moves those behind it up.
LEMMA RemoveAtProperties ==
    ASSUME NEW S, NEW q \in Seq(S), NEW i \in 1..Len(q)
    PROVE  /\ RemoveAt(q, i) \in Seq(S)
           /\ Len(RemoveAt(q, i)) = Len(q) - 1
           /\ \A j \in 1..(Len(q) - 1) :
                 RemoveAt(q, i)[j] = IF j < i THEN q[j] ELSE q[j + 1]
<1> DEFINE a == SubSeq(q, 1, i - 1)
           b == SubSeq(q, i + 1, Len(q))
<1>1. Len(q) \in Nat /\ i \in Nat /\ \A k \in 1..Len(q) : q[k] \in S
  OBVIOUS
<1>2. /\ a \in Seq(S) /\ Len(a) = i - 1
      /\ \A k \in 1..(i - 1) : a[k] = q[k]
  BY <1>1, SubSeqProperties
<1>3. /\ b \in Seq(S) /\ Len(b) = Len(q) - i
      /\ \A k \in 1..(Len(q) - i) : b[k] = q[i + k]
  BY <1>1, SubSeqProperties
<1> HIDE DEF a, b
<1>4. /\ a \o b \in Seq(S) /\ Len(a \o b) = Len(a) + Len(b)
      /\ \A j \in 1..(Len(a) + Len(b)) :
            (a \o b)[j] = IF j <= Len(a) THEN a[j] ELSE b[j - Len(a)]
  BY <1>2, <1>3, ConcatProperties
<1>5. RemoveAt(q, i) = a \o b
  BY DEF RemoveAt, a, b
<1>6. Len(a) + Len(b) = Len(q) - 1
  BY <1>1, <1>2, <1>3
<1>7. ASSUME NEW j \in 1..(Len(q) - 1)
      PROVE  (a \o b)[j] = IF j < i THEN q[j] ELSE q[j + 1]
  <2>1. CASE j < i
    <3>1. j \in 1..(i - 1) /\ j <= Len(a)
      BY <1>1, <1>2, <2>1
    <3> QED
      BY <1>2, <1>4, <1>6, <2>1, <3>1
  <2>2. CASE ~ (j < i)
    <3>1. ~ (j <= Len(a)) /\ j - Len(a) \in 1..(Len(q) - i) /\ i + (j - Len(a)) = j + 1
      BY <1>1, <1>2, <2>2
    <3> QED
      BY <1>3, <1>4, <1>6, <2>2, <3>1
  <2> QED
    BY <2>1, <2>2
<1> QED
  BY <1>4, <1>5, <1>6, <1>7

\* t is q with r at position i.
Inserted(q, i, r, t) ==
    /\ Len(t) = Len(q) + 1
    /\ \A j \in 1..(Len(q) + 1) :
          t[j] = IF j < i THEN q[j] ELSE IF j = i THEN r ELSE q[j - 1]

\* Putting an element at a position moves those from there on down.
LEMMA InsertAtProperties ==
    ASSUME NEW S, NEW q \in Seq(S), NEW i \in 1..(Len(q) + 1), NEW r \in S
    PROVE  InsertAt(q, i, r) \in Seq(S) /\ Inserted(q, i, r, InsertAt(q, i, r))
<1> DEFINE a == SubSeq(q, 1, i - 1)
           b == SubSeq(q, i, Len(q))
           c == a \o <<r>>
<1>1. Len(q) \in Nat /\ i \in Nat /\ \A k \in 1..Len(q) : q[k] \in S
  OBVIOUS
<1>2. /\ a \in Seq(S) /\ Len(a) = i - 1
      /\ \A k \in 1..(i - 1) : a[k] = q[k]
  BY <1>1, SubSeqProperties
<1>3. /\ b \in Seq(S) /\ Len(b) = Len(q) - i + 1
      /\ \A k \in 1..(Len(q) - i + 1) : b[k] = q[i + k - 1]
  BY <1>1, SubSeqProperties
<1> HIDE DEF a, b
<1>4. /\ c \in Seq(S) /\ Len(c) = i
      /\ \A k \in 1..i : c[k] = IF k < i THEN q[k] ELSE r
  <2>1. <<r>> \in Seq(S) /\ Len(<<r>>) = 1 /\ <<r>>[1] = r
    OBVIOUS
  <2>2. /\ c \in Seq(S) /\ Len(c) = Len(a) + 1
        /\ \A k \in 1..(Len(a) + 1) : c[k] = IF k <= Len(a) THEN a[k] ELSE <<r>>[k - Len(a)]
    BY <1>2, <2>1, ConcatProperties
  <2>3. ASSUME NEW k \in 1..i PROVE c[k] = IF k < i THEN q[k] ELSE r
    <3>1. CASE k < i
      <4>1. k \in 1..(i - 1) /\ k <= Len(a)
        BY <1>1, <1>2, <3>1
      <4> QED
        BY <1>2, <2>2, <3>1, <4>1
    <3>2. CASE k = i
      <4>1. k - Len(a) = 1 /\ ~ (k <= Len(a)) /\ k \in 1..(Len(a) + 1)
        BY <1>1, <1>2, <3>2
      <4> QED
        BY <2>1, <2>2, <3>2, <4>1
    <3>3. k < i \/ k = i
      BY <1>1
    <3> QED
      BY <3>1, <3>2, <3>3
  <2> QED
    BY <1>1, <1>2, <2>2, <2>3
<1> HIDE DEF c
<1>5. /\ c \o b \in Seq(S) /\ Len(c \o b) = Len(c) + Len(b)
      /\ \A j \in 1..(Len(c) + Len(b)) :
            (c \o b)[j] = IF j <= Len(c) THEN c[j] ELSE b[j - Len(c)]
  BY <1>3, <1>4, ConcatProperties
<1>6. InsertAt(q, i, r) = c \o b
  BY DEF InsertAt, a, b, c
<1>7. Len(c) + Len(b) = Len(q) + 1
  BY <1>1, <1>3, <1>4
<1>8. ASSUME NEW j \in 1..(Len(q) + 1)
      PROVE  (c \o b)[j] = IF j < i THEN q[j] ELSE IF j = i THEN r ELSE q[j - 1]
  <2>1. CASE j <= i
    <3>1. j \in 1..i /\ j <= Len(c)
      BY <1>1, <1>4, <2>1
    <3> QED
      BY <1>1, <1>4, <1>5, <1>7, <2>1, <3>1
  <2>2. CASE ~ (j <= i)
    <3>1. /\ ~ (j <= Len(c)) /\ j - Len(c) \in 1..(Len(q) - i + 1)
          /\ i + (j - Len(c)) - 1 = j - 1 /\ ~ (j < i) /\ j # i
      BY <1>1, <1>4, <2>2
    <3> QED
      BY <1>3, <1>5, <1>7, <3>1
  <2> QED
    BY <2>1, <2>2
<1> QED
  BY <1>5, <1>6, <1>7, <1>8 DEF Inserted

\* Without r the sequence has the other elements, once each and in their order.
LEMMA WithoutProperties ==
    ASSUME NEW S, NEW q \in Seq(S), IsInjective(q), NEW r
    PROVE  /\ Without(q, r) \in Seq(S) /\ Len(Without(q, r)) <= Len(q)
           /\ IsInjective(Without(q, r))
           /\ ToSet(Without(q, r)) = ToSet(q) \ {r}
           /\ Sorted(q) => Sorted(Without(q, r))
<1>1. CASE r \notin ToSet(q)
  BY <1>1 DEF Without
<1>2. CASE r \in ToSet(q)
  <2> DEFINE i == CHOOSE k \in DOMAIN q : q[k] = r
             t == RemoveAt(q, i)
             old(j) == IF j < i THEN j ELSE j + 1
  <2>1. Len(q) \in Nat /\ DOMAIN q = 1..Len(q) /\ i \in 1..Len(q) /\ q[i] = r
    BY <1>2 DEF ToSet
  <2> HIDE DEF i
  <2>2. /\ t \in Seq(S) /\ Len(t) = Len(q) - 1
        /\ \A j \in 1..(Len(q) - 1) : t[j] = q[old(j)]
    BY <2>1, RemoveAtProperties
  <2>3. DOMAIN t = 1..(Len(q) - 1)
    BY <2>2
  <2> HIDE DEF t
  <2>4. /\ \A j \in DOMAIN t : old(j) \in DOMAIN q /\ old(j) # i
        /\ \A j, k \in DOMAIN t : j < k => old(j) < old(k)
        /\ \A k \in DOMAIN q : k # i => \E j \in DOMAIN t : old(j) = k
    <3>1. \A j \in DOMAIN t : old(j) \in DOMAIN q /\ old(j) # i
      BY <2>1, <2>3
    <3>2. \A j, k \in DOMAIN t : j < k => old(j) < old(k)
      BY <2>1, <2>3
    <3>3. ASSUME NEW k \in DOMAIN q, k # i
          PROVE  \E j \in DOMAIN t : old(j) = k
      <4>1. CASE k < i
        <5>1. k \in DOMAIN t /\ old(k) = k
          BY <2>1, <2>3, <4>1
        <5> QED
          BY <5>1
      <4>2. CASE k > i
        <5>1. k - 1 \in DOMAIN t /\ old(k - 1) = k
          BY <2>1, <2>3, <4>2
        <5> QED
          BY <5>1
      <4> QED
        BY <2>1, <3>3, <4>1, <4>2
    <3> QED
      BY <3>1, <3>2, <3>3
  <2>5. \A j, k \in DOMAIN t : old(j) = old(k) => j = k
    BY <2>1, <2>3
  <2> HIDE DEF old
  <2>6. IsInjective(t)
    BY <2>2, <2>3, <2>4, <2>5 DEF IsInjective
  <2>7. ToSet(t) = ToSet(q) \ {r}
    BY <2>1, <2>2, <2>3, <2>4 DEF ToSet, IsInjective
  <2>8. Sorted(q) => Sorted(t)
    BY <2>2, <2>3, <2>4 DEF Sorted
  <2>9. Without(q, r) = t
    BY <1>2 DEF Without, t, i
  <2> QED
    BY <2>1, <2>2, <2>6, <2>7, <2>8, <2>9
<1> QED
  BY <1>1, <1>2

\* Behind the others, r is an element once, and in order if nobody has a lower score.
LEMMA AppendDistinct ==
    ASSUME NEW S, NEW q \in Seq(S), NEW r \in S, IsInjective(q), r \notin ToSet(q)
    PROVE  /\ IsInjective(Append(q, r))
           /\ ToSet(Append(q, r)) = ToSet(q) \cup {r}
           /\ Sorted(q) /\ (\A x \in ToSet(q) : ask[x].score >= ask[r].score)
                 => Sorted(Append(q, r))
<1> DEFINE t == Append(q, r)
           n == Len(q)
<1>1. /\ n \in Nat /\ DOMAIN q = 1..n /\ DOMAIN t = 1..(n + 1)
      /\ \A i \in 1..n : t[i] = q[i]
      /\ t[n + 1] = r
  BY AppendProperties
<1> HIDE DEF t, n
<1>2. \A i \in DOMAIN t : i = n + 1 \/ i \in DOMAIN q
  BY <1>1
<1>3. \A i \in DOMAIN q : i \in DOMAIN t /\ t[i] = q[i] /\ t[i] \in ToSet(q) /\ i < n + 1
  BY <1>1 DEF ToSet
<1>4. IsInjective(t)
  BY <1>1, <1>2, <1>3 DEF IsInjective
<1>5. n + 1 \in DOMAIN t
  BY <1>1
<1>6. ToSet(t) = ToSet(q) \cup {r}
  BY <1>1, <1>2, <1>3, <1>5 DEF ToSet
<1>7. ASSUME Sorted(q), \A x \in ToSet(q) : ask[x].score >= ask[r].score,
             NEW i \in DOMAIN t, NEW j \in DOMAIN t, i < j
      PROVE  ask[t[i]].score >= ask[t[j]].score
  <2>1. i \in DOMAIN q
    BY <1>1, <1>7
  <2>2. CASE j = n + 1
    BY <1>1, <1>3, <1>7, <2>1, <2>2
  <2>3. CASE j \in DOMAIN q
    BY <1>3, <1>7, <2>1, <2>3 DEF Sorted
  <2> QED
    BY <1>2, <2>2, <2>3
<1> QED
  BY <1>4, <1>6, <1>7 DEF Sorted, t

-----------------------------------------------------------------------------
(* The queue and the table of leases, and what a dispatch does to them.    *)

AskTyped == ask \in [Requests -> [model : Models, score : Scores]]

\* The table lists each lease once, and nothing else.
TableSound(s) == IsInjective(s.leases) /\ ToSet(s.leases) = Held(s)

\* The heap has room and order, everybody who can be served is in it, and nobody who has
\* been.
QueueSound(s) ==
    /\ IsInjective(s.waiters) /\ Sorted(s.waiters) /\ Len(s.waiters) <= MaxQueue
    /\ \A r \in Requests : s.future[r] = "pending" => r \in ToSet(s.waiters)
    /\ \A r \in ToSet(s.waiters) : s.future[r] # "result"

Tidy(s) == AskTyped /\ Sound(s) /\ TableSound(s) /\ QueueSound(s)

\* A future that is pending stays so or gets its result.
Settles(s, t) ==
    \A r \in Requests : s.future[r] = "pending" => t.future[r] \in {"pending", "result"}

\* From s to t, no waiter is served before one for the same model with a higher score.
Fair(s, t) ==
    \A a, b \in Requests :
        /\ s.future[a] = "pending" /\ s.future[b] = "pending"
        /\ ask[a].model = ask[b].model /\ ask[a].score > ask[b].score
        /\ t.future[b] = "result"
        => t.future[a] = "result"

\* Nobody waits for a model that has a free slot.
Offered(s) == \A r \in Requests : s.future[r] = "pending" => Free(s, ask[r].model) = {}

\* The tidy pools that a scheduler call can make of s.
Tidies(s) ==
    {t \in Reach(s) : /\ Tidy(t) /\ ToSet(t.waiters) \subseteq ToSet(s.waiters)
                      /\ Settles(s, t) /\ Fair(s, t)}

\* Doing nothing keeps everything.
LEMMA TidiesItself ==
    ASSUME NEW s, Tidy(s)
    PROVE  s \in Tidies(s)
<1>1. s \in Reach(s)
  BY ReachesItself DEF Tidy
<1>2. Settles(s, s) /\ Fair(s, s)
  BY DEF Settles, Fair
<1> QED
  BY <1>1, <1>2 DEF Tidies

\* One call after the other does not overtake anybody either: who is passed over by
\* neither is passed over by the two.
LEMMA TidiesTransitive ==
    ASSUME NEW s, Sound(s), NEW t \in Tidies(s), NEW u \in Tidies(t)
    PROVE  u \in Tidies(s)
<1>1. /\ t \in Reach(s) /\ ToSet(t.waiters) \subseteq ToSet(s.waiters)
      /\ Settles(s, t) /\ Fair(s, t)
  BY DEF Tidies
<1>2. /\ u \in Reach(t) /\ Tidy(u) /\ ToSet(u.waiters) \subseteq ToSet(t.waiters)
      /\ Settles(t, u) /\ Fair(t, u) /\ Moves(t, u)
  BY DEF Tidies, Reach
<1>3. u \in Reach(s)
  BY <1>1, <1>2, ReachTransitive
<1>4. \A r \in Requests : t.future[r] = "result" => u.future[r] = "result"
  BY <1>2 DEF Moves
<1>5. Settles(s, u)
  BY <1>1, <1>2, <1>4 DEF Settles
<1>6. ASSUME NEW a \in Requests, NEW b \in Requests,
             s.future[a] = "pending", s.future[b] = "pending",
             ask[a].model = ask[b].model, ask[a].score > ask[b].score,
             u.future[b] = "result"
      PROVE  u.future[a] = "result"
  <2>1. t.future[a] \in {"pending", "result"} /\ t.future[b] \in {"pending", "result"}
    BY <1>1, <1>6 DEF Settles
  <2>2. CASE t.future[a] = "result"
    BY <1>4, <2>2
  <2>3. CASE t.future[a] = "pending"
    <3>1. t.future[b] = "pending"
      BY <1>1, <1>6, <2>1, <2>3 DEF Fair
    <3> QED
      BY <1>2, <1>6, <2>3, <3>1 DEF Fair
  <2> QED
    BY <2>1, <2>2, <2>3
<1> QED
  BY <1>1, <1>2, <1>3, <1>5, <1>6 DEF Tidies, Fair

\* What a turn of the dispatch loop can do: nothing, a deferral, or a lease.
ServesAs(s, r, t) ==
    \/ s.future[r] # "pending" /\ t = s
    \/ /\ s.future[r] = "pending" /\ Free(s, ask[r].model) = {}
       /\ t.waiters = Append(s.waiters, r) /\ t.future = s.future
       /\ t.leases = s.leases /\ t.at = s.at /\ t.inFlight = s.inFlight
    \/ /\ s.future[r] = "pending" /\ Free(s, ask[r].model) # {}
       /\ t.waiters = s.waiters /\ t.future = [s.future EXCEPT ![r] = "result"]
       /\ t.leases = Append(s.leases, r)
       /\ \E p \in Peers : /\ t.at = [s.at EXCEPT ![r] = p]
                           /\ t.inFlight = [s.inFlight EXCEPT ![p] = @ + 1]

\* A turn does one of the three.
LEMMA ServeCases ==
    ASSUME NEW s, Sound(s), NEW r \in Requests, NEW t, t = Serve(s, r)
    PROVE  ServesAs(s, r, t)
<1> DEFINE free == Free(s, ask[r].model)
           p == LeastLoaded(s, free)
<1>1. s \in Pools
  BY DEF Sound
<1>2. CASE s.future[r] # "pending"
  BY <1>2 DEF Serve, ServesAs
<1>3. CASE s.future[r] = "pending" /\ free = {}
  <2>1. t = [s EXCEPT !.waiters = Append(@, r)]
    BY <1>3 DEF Serve
  <2> QED
    BY <1>1, <1>3, <2>1 DEF Pools, ServesAs
<1>4. CASE s.future[r] = "pending" /\ free # {}
  <2>1. p \in Peers
    BY <1>4, LeastLoadedFree
  <2>2. t = [Issue(s, r, p) EXCEPT !.future[r] = "result"]
    BY <1>4 DEF Serve
  <2> HIDE DEF p
  <2>3. /\ t.waiters = s.waiters /\ t.leases = Append(s.leases, r)
        /\ t.future = [s.future EXCEPT ![r] = "result"]
        /\ t.at = [s.at EXCEPT ![r] = p]
        /\ t.inFlight = [s.inFlight EXCEPT ![p] = @ + 1]
    BY <1>1, <2>2 DEF Issue, Pools
  <2> QED
    BY <1>4, <2>1, <2>3 DEF ServesAs
<1> QED
  BY <1>2, <1>3, <1>4

\* A new lease goes to the end of the table.
LEMMA TableGrows ==
    ASSUME NEW s, Sound(s), TableSound(s), NEW r \in Requests, s.at[r] = NoPeer,
           NEW p \in Peers, NEW t, t.leases = Append(s.leases, r), t.at = [s.at EXCEPT ![r] = p]
    PROVE  TableSound(t)
<1>1. s.leases \in Seq(Requests) /\ s.at \in [Requests -> Peers \cup {NoPeer}]
  BY DEF Sound, Pools
<1>2. r \notin ToSet(s.leases)
  BY DEF TableSound, Held
<1>3. IsInjective(t.leases) /\ ToSet(t.leases) = ToSet(s.leases) \cup {r}
  BY <1>1, <1>2, AppendDistinct DEF TableSound
<1>4. Held(t) = Held(s) \cup {r}
  BY <1>1, PeersAreIds DEF Held
<1> QED
  BY <1>3, <1>4 DEF TableSound

\* A peer that gets a lease has no more room than before.
LEMMA FreeShrinks ==
    ASSUME NEW s, Sound(s), NEW t, NEW p \in Peers,
           t.inFlight = [s.inFlight EXCEPT ![p] = @ + 1],
           NEW m, Free(s, m) = {}
    PROVE  Free(t, m) = {}
<1>1. s.inFlight \in [Peers -> Nat] /\ MaxConcurrent \in [Peers -> Nat \ {0}]
  BY RosterTyped DEF Sound, Pools
<1>2. ASSUME NEW q \in Peers, t.inFlight[q] < MaxConcurrent[q]
      PROVE  s.inFlight[q] < MaxConcurrent[q]
  BY <1>1, <1>2
<1> QED
  BY <1>2 DEF Free, Live

\* The first k waiters of s.
Seen(s, k) == {s.waiters[j] : j \in 1..k}

\* The pool t after k turns of the dispatch loop over s: the new heap holds, in order,
\* the waiters seen so far that no peer could serve.
Scanned(s, t, k) ==
    /\ TableSound(t)
    /\ IsInjective(t.waiters) /\ Sorted(t.waiters) /\ Len(t.waiters) <= k
    /\ ToSet(t.waiters) = {r \in Seen(s, k) : t.future[r] = "pending"}
    /\ \A r \in ToSet(t.waiters) : Free(t, ask[r].model) = {}
    /\ Settles(s, t) /\ Fair(s, t)

\* A waiter that has its turn comes behind those seen before, of which none has a lower
\* score and all that have a higher one are among them.
LEMMA TurnOfWaiter ==
    ASSUME NEW s, Tidy(s), NEW k \in 1..Len(s.waiters), NEW r, r = s.waiters[k]
    PROVE  /\ r \in Requests /\ r \notin Seen(s, k - 1)
           /\ Seen(s, k) = Seen(s, k - 1) \cup {r} /\ Seen(s, k) \subseteq Requests
           /\ \A x \in Seen(s, k - 1) : ask[x].score >= ask[r].score
           /\ \A x \in Requests : s.future[x] = "pending" /\ ask[x].score > ask[r].score
                                     => x \in Seen(s, k - 1)
<1>1. s.waiters \in Seq(Requests) /\ IsInjective(s.waiters) /\ Sorted(s.waiters)
  BY DEF Tidy, Sound, Pools, QueueSound
<1>2. /\ Len(s.waiters) \in Nat /\ DOMAIN s.waiters = 1..Len(s.waiters)
      /\ \A j \in 1..Len(s.waiters) : s.waiters[j] \in Requests
  BY <1>1
<1>3. \A j \in 1..(k - 1) : j \in DOMAIN s.waiters /\ j < k
  BY <1>2
<1>4. r \in Requests /\ r \notin Seen(s, k - 1)
  BY <1>1, <1>2, <1>3 DEF Seen, IsInjective
<1>5. Seen(s, k) = Seen(s, k - 1) \cup {r}
  <2>1. \A j \in 1..k : j \in 1..(k - 1) \/ j = k
    BY <1>2
  <2>2. k \in 1..k /\ \A j \in 1..(k - 1) : j \in 1..k
    BY <1>2
  <2> QED
    BY <2>1, <2>2 DEF Seen
<1>6. Seen(s, k) \subseteq Requests
  BY <1>2, <1>3, <1>4, <1>5 DEF Seen
<1>7. \A x \in Seen(s, k - 1) : ask[x].score >= ask[r].score
  BY <1>1, <1>2, <1>3 DEF Seen, Sorted
<1>8. ASSUME NEW x \in Requests, s.future[x] = "pending", ask[x].score > ask[r].score
      PROVE  x \in Seen(s, k - 1)
  <2>1. PICK j \in DOMAIN s.waiters : s.waiters[j] = x
    BY <1>8 DEF Tidy, QueueSound, ToSet
  <2>2. ask[x].score \in Int /\ ask[r].score \in Int
    BY <1>4, ScoresTyped DEF Tidy, AskTyped
  <2>3. ~ (ask[r].score >= ask[x].score)
    BY <1>8, <2>2
  <2>4. ~ (k < j)
    BY <1>1, <1>2, <2>1, <2>3 DEF Sorted
  <2>5. j # k
    BY <1>8, <2>1, <2>2
  <2>6. j \in 1..(k - 1)
    BY <1>2, <2>4, <2>5
  <2> QED
    BY <2>1, <2>6 DEF Seen
<1> QED
  BY <1>4, <1>5, <1>6, <1>7, <1>8

\* A turn of the dispatch loop is the next stage of the scan.
LEMMA ServeScans ==
    ASSUME NEW s, Tidy(s), NEW k \in 1..Len(s.waiters), NEW t \in Reach(s),
           Scanned(s, t, k - 1), NEW u, u = Serve(t, s.waiters[k])
    PROVE  Scanned(s, u, k)
<1> DEFINE r == s.waiters[k]
<1>1. /\ r \in Requests /\ r \notin Seen(s, k - 1)
      /\ Seen(s, k) = Seen(s, k - 1) \cup {r} /\ Seen(s, k) \subseteq Requests
      /\ \A x \in Seen(s, k - 1) : ask[x].score >= ask[r].score
      /\ \A x \in Requests : s.future[x] = "pending" /\ ask[x].score > ask[r].score
                                => x \in Seen(s, k - 1)
  BY TurnOfWaiter
<1>2. u = Serve(t, r)
  OBVIOUS
<1> HIDE DEF r
<1>3. /\ TableSound(t)
      /\ IsInjective(t.waiters) /\ Sorted(t.waiters) /\ Len(t.waiters) <= k - 1
      /\ ToSet(t.waiters) = {x \in Seen(s, k - 1) : t.future[x] = "pending"}
      /\ \A x \in ToSet(t.waiters) : Free(t, ask[x].model) = {}
      /\ Settles(s, t) /\ Fair(s, t)
  BY DEF Scanned
<1>4. Sound(t) /\ Moves(s, t) /\ t.waiters \in Seq(Requests) /\ Len(t.waiters) \in Nat
      /\ t.future \in [Requests -> FutureStates]
  BY DEF Reach, Sound, Pools
<1>5. k \in Nat
  BY DEF Tidy, Sound, Pools
<1>6. r \notin ToSet(t.waiters) /\ ToSet(t.waiters) \subseteq Requests
  BY <1>1, <1>3
<1>7. CASE t.future[r] # "pending" /\ u = t
  <2>1. ToSet(u.waiters) = {x \in Seen(s, k) : u.future[x] = "pending"}
    BY <1>1, <1>3, <1>7
  <2>2. Len(u.waiters) <= k
    BY <1>3, <1>4, <1>5, <1>7
  <2> QED
    BY <1>3, <1>7, <2>1, <2>2 DEF Scanned
<1>8. CASE /\ t.future[r] = "pending" /\ Free(t, ask[r].model) = {}
           /\ u.waiters = Append(t.waiters, r) /\ u.future = t.future
           /\ u.leases = t.leases /\ u.at = t.at /\ u.inFlight = t.inFlight
  <2>1. /\ IsInjective(u.waiters) /\ Sorted(u.waiters)
        /\ ToSet(u.waiters) = ToSet(t.waiters) \cup {r}
    BY <1>1, <1>3, <1>4, <1>6, <1>8, AppendDistinct
  <2>2. Len(u.waiters) <= k
    <3>1. Len(u.waiters) = Len(t.waiters) + 1
      BY <1>1, <1>4, <1>8
    <3> QED
      BY <1>3, <1>4, <1>5, <3>1
  <2>3. ToSet(u.waiters) = {x \in Seen(s, k) : u.future[x] = "pending"}
    BY <1>1, <1>3, <1>8, <2>1
  <2>4. \A x \in ToSet(u.waiters) : Free(u, ask[x].model) = {}
    BY <1>3, <1>8, <2>1 DEF Free
  <2>5. TableSound(u)
    BY <1>3, <1>8 DEF TableSound, Held
  <2>6. Settles(s, u) /\ Fair(s, u)
    BY <1>3, <1>8 DEF Settles, Fair
  <2> QED
    BY <2>1, <2>2, <2>3, <2>4, <2>5, <2>6 DEF Scanned
<1>9. ASSUME t.future[r] = "pending", Free(t, ask[r].model) # {},
             u.waiters = t.waiters, u.future = [t.future EXCEPT ![r] = "result"],
             u.leases = Append(t.leases, r),
             NEW p \in Peers, u.at = [t.at EXCEPT ![r] = p],
             u.inFlight = [t.inFlight EXCEPT ![p] = @ + 1]
      PROVE  Scanned(s, u, k)
  <2>1. t.at[r] = NoPeer
    BY <1>1, <1>4, <1>9 DEF Sound
  <2>2. TableSound(u)
    <3>1. /\ Sound(t) /\ TableSound(t) /\ r \in Requests /\ p \in Peers
          /\ u.leases = Append(t.leases, r) /\ u.at = [t.at EXCEPT ![r] = p]
      BY <1>1, <1>3, <1>4, <1>9
    <3> QED
      BY <2>1, <3>1, TableGrows
  <2>3. u.future[r] = "result" /\ \A x \in Requests \ {r} : u.future[x] = t.future[x]
    BY <1>1, <1>4, <1>9
  <2>4. ToSet(u.waiters) = {x \in Seen(s, k) : u.future[x] = "pending"}
    BY <1>1, <1>3, <1>9, <2>3
  <2>5. ASSUME NEW x \in ToSet(u.waiters) PROVE Free(u, ask[x].model) = {}
    <3> DEFINE m == ask[x].model
    <3>1. /\ Sound(t) /\ p \in Peers /\ Free(t, m) = {}
          /\ u.inFlight = [t.inFlight EXCEPT ![p] = @ + 1]
      BY <1>3, <1>4, <1>9
    <3> HIDE DEF m
    <3>2. Free(u, m) = {}
      BY <3>1, FreeShrinks
    <3> QED
      BY <3>2 DEF m
  <2>6. Settles(s, u)
    BY <1>3, <2>3 DEF Settles
  <2>7. ASSUME NEW a \in Requests, NEW b \in Requests,
               s.future[a] = "pending", s.future[b] = "pending",
               ask[a].model = ask[b].model, ask[a].score > ask[b].score,
               u.future[b] = "result"
        PROVE  u.future[a] = "result"
    <3>1. t.future[a] \in {"pending", "result"}
      BY <1>3, <2>7 DEF Settles
    <3>2. CASE t.future[a] = "result"
      BY <2>3, <3>2
    <3>3. CASE t.future[a] = "pending" /\ b = r
      <4>1. a \in ToSet(t.waiters)
        BY <1>1, <1>3, <2>7, <3>3
      <4> QED
        BY <1>3, <1>9, <2>7, <3>3, <4>1
    <3>4. CASE t.future[a] = "pending" /\ b # r
      <4>1. t.future[b] = "result"
        BY <2>3, <2>7, <3>4
      <4> QED
        BY <1>3, <2>7, <3>4, <4>1 DEF Fair
    <3> QED
      BY <3>1, <3>2, <3>3, <3>4
  <2>8. Fair(s, u)
    BY <2>7 DEF Fair
  <2>9. Len(u.waiters) <= k
    BY <1>3, <1>4, <1>5, <1>9
  <2> QED
    BY <1>3, <1>9, <2>2, <2>4, <2>5, <2>6, <2>8, <2>9 DEF Scanned
<1>10. ServesAs(t, r, u)
  BY <1>1, <1>2, <1>4, ServeCases
<1> QED
  BY <1>7, <1>8, <1>9, <1>10 DEF ServesAs

\* A dispatch leaves nobody waiting beside a free slot, loses nobody and overtakes nobody.
LEMMA DispatchTidies ==
    ASSUME NEW s, Tidy(s)
    PROVE  Dispatch(s) \in Tidies(s) /\ Offered(Dispatch(s))
<1> DEFINE n == Len(s.waiters)
           S == [k \in 0..n |-> {t \in Reach(s) : Scanned(s, t, k)}]
<1>1. Sound(s) /\ s \in Pools /\ s.waiters \in Seq(Requests) /\ n \in Nat /\ n <= MaxQueue
  BY DEF Tidy, Sound, Pools, QueueSound
<1>2. PICK f \in DispatchTurns(s) : TRUE
  BY <1>1, DispatchLoop
<1>3. /\ f[0] = [s EXCEPT !.waiters = << >>]
      /\ \A k \in 0..n : f[k] \in Reach(s)
      /\ \A k \in 1..n : f[k] = Serve(f[k - 1], s.waiters[k])
      /\ Dispatch(s) = f[n]
  BY <1>2 DEF DispatchTurns
<1>4. Scanned(s, f[0], 0)
  <2> DEFINE t == f[0]
  <2>1. /\ t.waiters = << >> /\ t.future = s.future /\ t.leases = s.leases /\ t.at = s.at
    BY <1>1, <1>3 DEF Pools
  <2> HIDE DEF t
  <2>2. DOMAIN << >> = {}
    OBVIOUS
  <2>3. IsInjective(t.waiters) /\ Sorted(t.waiters) /\ ToSet(t.waiters) = {}
    BY <2>1, <2>2 DEF IsInjective, Sorted, ToSet
  <2>4. Len(t.waiters) <= 0
    BY <2>1
  <2>5. Seen(s, 0) = {}
    BY DEF Seen
  <2>6. TableSound(t)
    BY <2>1 DEF Tidy, TableSound, Held
  <2>7. Settles(s, t) /\ Fair(s, t)
    BY <2>1 DEF Settles, Fair
  <2>8. Scanned(s, t, 0)
    BY <2>3, <2>4, <2>5, <2>6, <2>7 DEF Scanned
  <2> QED
    BY <2>8 DEF t
<1> HIDE DEF n
<1>5. f[0] \in S[0]
  <2>1. 0 \in 0..n
    BY <1>1
  <2> QED
    BY <1>3, <1>4, <2>1
<1>6. ASSUME NEW k \in 1..n, f[k - 1] \in S[k - 1] PROVE f[k] \in S[k]
  <2>1. k \in 0..n /\ k - 1 \in 0..n /\ k \in 1..Len(s.waiters)
    BY <1>1 DEF n
  <2>2. f[k - 1] \in Reach(s) /\ Scanned(s, f[k - 1], k - 1)
    BY <1>6, <2>1
  <2>3. f[k] \in Reach(s) /\ f[k] = Serve(f[k - 1], s.waiters[k])
    BY <1>3, <2>1
  <2> HIDE DEF S
  <2>4. Scanned(s, f[k], k)
    BY <2>1, <2>2, <2>3, ServeScans
  <2> QED
    BY <2>1, <2>3, <2>4 DEF S
<1> HIDE DEF S
<1>7. f[n] \in S[n]
  BY <1>1, <1>5, <1>6, LoopAdvances
<1> DEFINE t == f[n]
<1>8. t \in Reach(s) /\ Scanned(s, t, n) /\ Dispatch(s) = t
  <2>1. n \in 0..n
    BY <1>1
  <2> QED
    BY <1>3, <1>7, <2>1 DEF S
<1> HIDE DEF t
<1>9. Seen(s, n) = ToSet(s.waiters)
  BY <1>1 DEF Seen, ToSet, n
<1>10. ASSUME NEW r \in Requests, t.future[r] = "pending"
       PROVE  r \in ToSet(t.waiters)
  <2>1. s.future[r] = "pending"
    BY <1>8, <1>10 DEF Reach, Moves
  <2>2. r \in ToSet(s.waiters)
    BY <2>1 DEF Tidy, QueueSound
  <2> QED
    BY <1>8, <1>9, <1>10, <2>2 DEF Scanned
<1>11. Len(t.waiters) \in Nat /\ Len(t.waiters) <= MaxQueue
  <2>1. t.waiters \in Seq(Requests) /\ Len(t.waiters) <= n
    BY <1>8 DEF Reach, Pools, Scanned
  <2> QED
    BY <1>1, <2>1, TimingTyped
<1>12. QueueSound(t)
  BY <1>8, <1>10, <1>11 DEF QueueSound, Scanned
<1>13. Tidy(t)
  BY <1>8, <1>12 DEF Tidy, Reach, Scanned
<1>14. Offered(t)
  BY <1>8, <1>10 DEF Offered, Scanned
<1> QED
  BY <1>8, <1>9, <1>13, <1>14 DEF Tidies, Scanned

\* Taking a lease out of the table leaves the queue alone.
LEMMA PopTidies ==
    ASSUME NEW s, Tidy(s), NEW r \in Requests
    PROVE  Pop(s, r) \in Tidies(s)
<1> DEFINE t == Pop(s, r)
<1>1. s \in Pools /\ Sound(s) /\ t \in Reach(s) /\ Sound(t)
  BY PopReaches DEF Tidy, Sound, Reach
<1>2. t.waiters = s.waiters /\ t.future = s.future
  BY <1>1 DEF Pop, Pools
<1>3. TableSound(t)
  <2>1. CASE s.at[r] = NoPeer
    <3>1. t.leases = s.leases /\ t.at = s.at
      BY <1>1, <2>1 DEF Pop, Pools
    <3> QED
      BY <3>1 DEF Tidy, TableSound, Held
  <2>2. CASE s.at[r] # NoPeer
    <3>1. t.leases = Without(s.leases, r) /\ t.at = [s.at EXCEPT ![r] = NoPeer]
      BY <1>1, <2>2 DEF Pop, Pools
    <3> HIDE DEF t
    <3>2. s.leases \in Seq(Requests) /\ IsInjective(s.leases) /\ ToSet(s.leases) = Held(s)
      BY <1>1 DEF Tidy, TableSound, Pools
    <3>3. IsInjective(t.leases) /\ ToSet(t.leases) = Held(s) \ {r}
      BY <3>1, <3>2, WithoutProperties
    <3>4. Held(t) = Held(s) \ {r}
      BY <1>1, <3>1 DEF Held, Pools
    <3> QED
      BY <3>3, <3>4 DEF TableSound
  <2> QED
    BY <2>1, <2>2
<1> HIDE DEF t
<1>4. QueueSound(t)
  BY <1>2 DEF Tidy, QueueSound
<1>5. Settles(s, t) /\ Fair(s, t)
  BY <1>2 DEF Settles, Fair
<1>6. Tidy(t)
  BY <1>1, <1>3, <1>4 DEF Tidy
<1>7. t \in Tidies(s)
  BY <1>1, <1>2, <1>5, <1>6 DEF Tidies
<1> QED
  BY <1>7 DEF t

\* release(): what comes back is offered in the order of the queue.
LEMMA ReleaseTidies ==
    ASSUME NEW s, Tidy(s), NEW r \in Requests
    PROVE  Release(s, r) \in Tidies(s) /\ Offered(Release(s, r))
<1> DEFINE t == Pop(s, r)
<1>1. Sound(s) /\ t \in Tidies(s) /\ Tidy(t)
  BY PopTidies DEF Tidies, Tidy
<1>2. Release(s, r) = Dispatch(t)
  BY DEF Release
<1> HIDE DEF t
<1> DEFINE u == Dispatch(t)
<1>3. u \in Tidies(t) /\ Offered(u)
  BY <1>1, DispatchTidies
<1> HIDE DEF u
<1>4. u \in Tidies(s)
  BY <1>1, <1>3, TidiesTransitive
<1> QED
  BY <1>2, <1>3, <1>4 DEF u

\* The sweep does nothing, or ends with everything offered.
LEMMA ExpireStaleTidies ==
    ASSUME NEW s, Tidy(s)
    PROVE  /\ ExpireStale(s) \in Tidies(s)
           /\ ExpireStale(s) = s \/ Offered(ExpireStale(s))
<1> DEFINE n == Len(s.leases)
           S == {t \in Tidies(s) : t = s \/ Offered(t)}
<1>1. Sound(s) /\ n \in Nat /\ \A k \in 1..n : s.leases[k] \in Requests
  BY DEF Tidy, Sound, Pools
<1>2. PICK f \in ExpireTurns(s) : TRUE
  BY <1>1, ExpireLoop
<1>3. /\ f[0] = s
      /\ \A k \in 1..n : f[k] = IF Expired(s, s.leases[k])
                                THEN Release(f[k - 1], s.leases[k]) ELSE f[k - 1]
      /\ ExpireStale(s) = f[n]
  BY <1>2 DEF ExpireTurns
<1> HIDE DEF n
<1>4. f[0] \in S
  BY <1>3, TidiesItself
<1>5. ASSUME NEW k \in 1..n, f[k - 1] \in S PROVE f[k] \in S
  <2> DEFINE t == f[k - 1]
             r == s.leases[k]
             u == Release(t, r)
  <2>1. t \in Tidies(s) /\ (t = s \/ Offered(t)) /\ r \in Requests
    BY <1>1, <1>5
  <2>2. f[k] = IF Expired(s, r) THEN u ELSE t
    BY <1>3
  <2> HIDE DEF t, r
  <2>3. Tidy(t)
    BY <2>1 DEF Tidies
  <2>4. u \in Tidies(t) /\ Offered(u)
    BY <2>1, <2>3, ReleaseTidies
  <2> HIDE DEF u
  <2>5. u \in Tidies(s)
    BY <1>1, <2>1, <2>4, TidiesTransitive
  <2> QED
    BY <2>1, <2>2, <2>4, <2>5
<1> HIDE DEF S
<1>6. f[n] \in S
  BY <1>1, <1>4, <1>5, LoopStays
<1> QED
  BY <1>3, <1>6 DEF S

\* heappush: an element put between those that rank at least as high and those that rank
\* at most as high.
LEMMA InsertRanked ==
    ASSUME NEW S, NEW q \in Seq(S), NEW r \in S, r \notin ToSet(q), IsInjective(q),
           NEW c \in 0..Len(q), NEW rank \in [S -> Int],
           \A i, j \in DOMAIN q : i < j => rank[q[i]] >= rank[q[j]],
           \A i \in 1..c : rank[q[i]] >= rank[r],
           \A i \in (c + 1)..Len(q) : rank[r] >= rank[q[i]],
           NEW t, t = InsertAt(q, c + 1, r)
    PROVE  /\ t \in Seq(S) /\ Len(t) = Len(q) + 1
           /\ IsInjective(t) /\ ToSet(t) = ToSet(q) \cup {r}
           /\ \A i, j \in DOMAIN t : i < j => rank[t[i]] >= rank[t[j]]
<1> DEFINE n == Len(q)
           old(j) == IF j < c + 1 THEN j ELSE j - 1
<1>1. n \in Nat /\ c \in Nat /\ c <= n /\ DOMAIN q = 1..n
  OBVIOUS
<1>2. /\ t \in Seq(S) /\ Len(t) = n + 1
      /\ \A j \in 1..(n + 1) :
            t[j] = IF j < c + 1 THEN q[j] ELSE IF j = c + 1 THEN r ELSE q[j - 1]
  <2> DEFINE i == c + 1
  <2>1. i \in 1..(Len(q) + 1) /\ t = InsertAt(q, i, r)
    BY <1>1
  <2> HIDE DEF i
  <2>2. t \in Seq(S) /\ Inserted(q, i, r, t)
    BY <2>1, InsertAtProperties
  <2> QED
    BY <2>2 DEF i, Inserted
<1>3. DOMAIN t = 1..(n + 1)
  BY <1>2
<1> HIDE DEF n
<1>4. /\ \A j \in DOMAIN t : j # c + 1 => old(j) \in DOMAIN q /\ t[j] = q[old(j)]
      /\ c + 1 \in DOMAIN t /\ t[c + 1] = r
  <2>1. ASSUME NEW j \in DOMAIN t, j # c + 1
        PROVE  old(j) \in DOMAIN q /\ t[j] = q[old(j)]
    <3>1. CASE j < c + 1
      BY <1>1, <1>2, <1>3, <3>1
    <3>2. CASE j > c + 1
      <4>1. ~ (j < c + 1) /\ j - 1 \in 1..n
        BY <1>1, <1>3, <3>2
      <4> QED
        BY <1>1, <1>2, <1>3, <2>1, <4>1
    <3> QED
      BY <1>1, <1>3, <2>1, <3>1, <3>2
  <2>2. c + 1 \in DOMAIN t
    BY <1>1, <1>3
  <2>3. t[c + 1] = r
    BY <1>1, <1>2, <1>3, <2>2
  <2> QED
    BY <2>1, <2>2, <2>3
<1>5. /\ \A i, j \in DOMAIN t : i # c + 1 /\ j # c + 1 /\ i < j => old(i) < old(j)
      /\ \A i, j \in DOMAIN t : i # c + 1 /\ j # c + 1 /\ old(i) = old(j) => i = j
      /\ \A i \in DOMAIN t : i < c + 1 => old(i) \in 1..c
      /\ \A i \in DOMAIN t : i > c + 1 => old(i) \in (c + 1)..n
      /\ \A i \in DOMAIN t : i < c + 1 \/ i = c + 1 \/ i > c + 1
  BY <1>1, <1>3
<1>6. ASSUME NEW k \in DOMAIN q
      PROVE  \E j \in DOMAIN t : j # c + 1 /\ old(j) = k
  <2>1. CASE k < c + 1
    <3>1. k \in DOMAIN t /\ k # c + 1 /\ old(k) = k
      BY <1>1, <1>3, <2>1
    <3> QED
      BY <3>1
  <2>2. CASE ~ (k < c + 1)
    <3>1. k + 1 \in DOMAIN t /\ k + 1 # c + 1 /\ old(k + 1) = k
      BY <1>1, <1>3, <2>2
    <3> QED
      BY <3>1
  <2> QED
    BY <2>1, <2>2
<1> HIDE DEF old
<1>7. IsInjective(t)
  <2>1. \A j \in DOMAIN t : j # c + 1 => t[j] # r
    BY <1>4 DEF ToSet
  <2> QED
    BY <1>4, <1>5, <2>1 DEF IsInjective
<1>8. ToSet(t) = ToSet(q) \cup {r}
  <2>1. \A k \in DOMAIN q : \E j \in DOMAIN t : t[j] = q[k]
    BY <1>4, <1>6
  <2> QED
    BY <1>4, <2>1 DEF ToSet
<1>9. ASSUME NEW i \in DOMAIN t, NEW j \in DOMAIN t, i < j
      PROVE  rank[t[i]] >= rank[t[j]]
  <2>1. CASE i = c + 1
    <3>1. j > c + 1 /\ j # c + 1
      BY <1>1, <1>3, <1>9, <2>1
    <3>2. old(j) \in (c + 1)..Len(q)
      BY <1>5, <3>1 DEF n
    <3> QED
      BY <1>4, <2>1, <3>1, <3>2
  <2>2. CASE j = c + 1
    <3>1. i < c + 1 /\ i # c + 1
      BY <1>1, <1>3, <1>9, <2>2
    <3>2. old(i) \in 1..c
      BY <1>5, <3>1
    <3> QED
      BY <1>4, <2>2, <3>1, <3>2
  <2>3. CASE i # c + 1 /\ j # c + 1
    BY <1>4, <1>5, <1>9, <2>3
  <2> QED
    BY <2>1, <2>2, <2>3
<1> QED
  BY <1>2, <1>7, <1>8, <1>9 DEF n

-----------------------------------------------------------------------------
(* The invariant of the queue and the table, and what a step may do.       *)

\* The heap lists handlers that still await their futures.
Waits ==
    /\ TableSound(pool) /\ QueueSound(pool)
    /\ \A r \in ToSet(pool.waiters) : call[r] \in Suspended

QInv == IInv /\ Waits

\* What a step may do to those who wait: it overtakes nobody, it offers the slots it
\* frees, and nobody comes to wait beside a free slot but by a peer that comes back.
Careful ==
    /\ Fair(pool, pool')
    /\ (\E r \in Held(pool) : r \notin Held(pool')) => \A r \in Requests : ~ Unserved(r)'
    /\ (\E r \in Requests : ~ Unserved(r) /\ Unserved(r)')
           => \E p \in Peers : ~ IsLive(p) /\ IsLive(p)'

\* Under the invariant the pool is tidy.
LEMMA PoolTidy ==
    ASSUME QInv
    PROVE  Tidy(pool) /\ Sound(pool) /\ AskTyped /\ pool.waiters \in Seq(Requests)
BY DEF QInv, IInv, Waits, Tidy, TypeOK, AskTyped, Sound, Pools

\* While no peer's health changes, who waits in vain is a matter of the pool alone.
LEMMA UnservedStays ==
    ASSUME beat' = beat, NEW r \in Requests
    PROVE  Unserved(r)' <=> pool'.future[r] = "pending" /\ Free(pool', ask'[r].model) # {}
BY DEF Unserved, Pending, Free, Live, IsLive

\* A step that issues and ends no lease, and answers nobody.
LEMMA QuietStep ==
    ASSUME QInv, IInv',
           pool'.at = pool.at, pool'.leases = pool.leases, pool'.inFlight = pool.inFlight,
           \A r \in Requests : pool'.future[r] = "pending" => pool.future[r] = "pending",
           \A r \in Requests : pool'.future[r] = "result" => pool.future[r] = "result",
           IsInjective(pool'.waiters), Sorted(pool'.waiters), Len(pool'.waiters) <= MaxQueue,
           ToSet(pool'.waiters) \subseteq ToSet(pool.waiters),
           \A r \in ToSet(pool.waiters) :
               r \in ToSet(pool'.waiters) \/ pool'.future[r] # "pending",
           \A r \in ToSet(pool'.waiters) : ask'[r] = ask[r] /\ call'[r] \in Suspended
    PROVE  QInv' /\ Careful
<1>1. /\ TableSound(pool) /\ QueueSound(pool)
      /\ pool'.waiters \in Seq(Requests) /\ pool.waiters \in Seq(Requests)
  BY DEF QInv, Waits, IInv, TypeOK, Pools
<1>2. TableSound(pool)'
  BY <1>1 DEF TableSound, Held
<1>3. ToSet(pool.waiters) \subseteq Requests /\ ToSet(pool'.waiters) \subseteq Requests
  BY <1>1 DEF ToSet
<1>4. \A i \in DOMAIN pool'.waiters : ask'[pool'.waiters[i]] = ask[pool'.waiters[i]]
  BY DEF ToSet
<1>5. Sorted(pool.waiters)'
  BY <1>4 DEF Sorted
<1>6. \A r \in Requests : pool'.future[r] = "pending" => r \in ToSet(pool'.waiters)
  BY <1>1, <1>3 DEF QueueSound
<1>7. \A r \in ToSet(pool'.waiters) : pool'.future[r] # "result"
  BY <1>1, <1>3 DEF QueueSound
<1>8. QueueSound(pool)'
  BY <1>5, <1>6, <1>7 DEF QueueSound
<1>9. QInv'
  BY <1>2, <1>8 DEF QInv, Waits
<1>10. Fair(pool, pool')
  BY DEF Fair
<1>11. Held(pool') = Held(pool)
  BY DEF Held
<1>12. ASSUME NEW r \in Requests, ~ Unserved(r), Unserved(r)'
       PROVE  \E p \in Peers : ~ IsLive(p) /\ IsLive(p)'
  <2>1. pool'.future[r] = "pending" /\ pool.future[r] = "pending"
    BY <1>12 DEF Unserved, Pending
  <2>2. ask'[r] = ask[r]
    BY <1>6, <2>1
  <2>3. Free(pool, ask[r].model) = {}
    BY <1>12, <2>1 DEF Unserved, Pending
  <2>4. PICK p \in Peers : /\ Serves[p] = ask[r].model /\ IsLive(p)'
                           /\ pool'.inFlight[p] < MaxConcurrent[p]
    BY <1>12, <2>2 DEF Unserved, Free, Live
  <2>5. ~ IsLive(p)
    BY <2>3, <2>4 DEF Free, Live
  <2> QED
    BY <2>4, <2>5
<1> QED
  BY <1>9, <1>10, <1>11, <1>12 DEF Careful

\* Steps that leave the queue as it is.
LEMMA SameQueueStep ==
    ASSUME QInv, IInv', ask' = ask,
           pool'.at = pool.at, pool'.leases = pool.leases, pool'.inFlight = pool.inFlight,
           pool'.waiters = pool.waiters,
           \A r \in Requests : \/ pool'.future[r] = pool.future[r]
                               \/ pool'.future[r] \in {"cancelled", "none"},
           \A r \in ToSet(pool.waiters) : call'[r] \in Suspended
    PROVE  QInv' /\ Careful
<1>1. /\ IsInjective(pool'.waiters) /\ Sorted(pool'.waiters) /\ Len(pool'.waiters) <= MaxQueue
      /\ ToSet(pool'.waiters) = ToSet(pool.waiters)
  BY DEF QInv, Waits, QueueSound
<1>2. \A r \in Requests : /\ pool'.future[r] = "pending" => pool.future[r] = "pending"
                          /\ pool'.future[r] = "result" => pool.future[r] = "result"
  OBVIOUS
<1> QED
  BY <1>1, <1>2, QuietStep

\* A deadline, a cancellation, a delivery of the envelope, a relay that fails, a beat,
\* the clock and the end of an exchange do not touch the heap.
LEMMA PassingStep ==
    ASSUME QInv, IInv',
           \/ \E r \in Requests : \/ Timeout(r) \/ Cancel(r) \/ Infer(r)
                                  \/ RelayFails(r) \/ Forget(r)
           \/ \E p \in Peers, healthy \in BOOLEAN : Heartbeat(p, healthy)
           \/ Tick
           \/ UNCHANGED vars
    PROVE  QInv' /\ Careful
<1>1. /\ pool \in Pools /\ ToSet(pool.waiters) \subseteq Requests
      /\ \A r \in ToSet(pool.waiters) : call[r] \in Suspended
      /\ call \in [Requests -> {"idle"} \cup Suspended \cup Answers]
  <2>1. pool \in Pools /\ pool.waiters \in Seq(Requests)
    BY DEF QInv, IInv, TypeOK, Pools
  <2> QED
    BY <2>1 DEF QInv, Waits, IInv, TypeOK, ToSet
<1> DEFINE Stays ==
      /\ pool'.at = pool.at /\ pool'.leases = pool.leases /\ pool'.inFlight = pool.inFlight
      /\ pool'.waiters = pool.waiters /\ ask' = ask
      /\ \A r \in Requests : \/ pool'.future[r] = pool.future[r]
                             \/ pool'.future[r] \in {"cancelled", "none"}
      /\ \A r \in ToSet(pool.waiters) : call'[r] \in Suspended
<1>2. Stays
  <2>1. ASSUME NEW r \in Requests, NEW as \in {"timing_out", "cancelling"}, Interrupt(r, as)
        PROVE  Stays
    BY <1>1, <2>1 DEF Interrupt, Suspended, Pools
  <2>2. ASSUME NEW r \in Requests, Timeout(r) \/ Cancel(r) PROVE Stays
    BY <2>1, <2>2 DEF Timeout, Cancel
  <2>3. ASSUME NEW r \in Requests, Infer(r) PROVE Stays
    BY <1>1, <2>3 DEF Infer, Pools
  <2>4. ASSUME NEW r \in Requests, Forget(r) PROVE Stays
    <3>1. r \notin ToSet(pool.waiters)
      BY <1>1, <2>4 DEF Forget, Suspended, Answers
    <3>2. call' = [call EXCEPT ![r] = "idle"] /\ pool' = [pool EXCEPT !.future[r] = "none"]
          /\ ask' = ask
      BY <2>4 DEF Forget
    <3> QED
      BY <1>1, <3>1, <3>2 DEF Pools
  <2>5. CASE Tick
    BY <1>1, <2>5 DEF Tick, Pools
  <2>6. CASE UNCHANGED <<pool, ask, call>>
    BY <1>1, <2>6
  <2>7. CASE \/ \E r \in Requests : RelayFails(r)
             \/ \E p \in Peers, healthy \in BOOLEAN : Heartbeat(p, healthy)
             \/ UNCHANGED vars
    BY <2>6, <2>7 DEF RelayFails, Heartbeat, vars
  <2> QED
    BY <2>2, <2>3, <2>4, <2>5, <2>7
<1> QED
  BY <1>2, SameQueueStep

\* A waiter leaves the heap with its lease, or takes itself out.
LEMMA ResumingStep ==
    ASSUME QInv, IInv', NEW r \in Requests, Resume(r)
    PROVE  QInv' /\ Careful
<1>1. /\ pool \in Pools /\ pool.waiters \in Seq(Requests) /\ QueueSound(pool)
      /\ ask \in [Requests -> [model : Models, score : Scores]]
      /\ call \in [Requests -> {"idle"} \cup Suspended \cup Answers]
      /\ \A x \in ToSet(pool.waiters) : call[x] \in Suspended
  BY DEF QInv, Waits, IInv, TypeOK, Pools
<1>2. /\ IsInjective(pool.waiters) /\ Sorted(pool.waiters) /\ Len(pool.waiters) <= MaxQueue
      /\ ToSet(pool.waiters) \subseteq Requests
      /\ \A x \in ToSet(pool.waiters) : pool.future[x] # "result"
  BY <1>1 DEF QueueSound, ToSet
<1>3. /\ pool'.at = pool.at /\ pool'.leases = pool.leases /\ pool'.inFlight = pool.inFlight
      /\ pool'.future = pool.future
      /\ \A x \in Requests \ {r} : ask'[x] = ask[x] /\ call'[x] = call[x]
  BY <1>1 DEF Resume, Drop, Pools
<1>4. /\ pool.future[r] # "pending"
      /\ IsInjective(pool'.waiters) /\ Sorted(pool'.waiters) /\ Len(pool'.waiters) <= MaxQueue
      /\ ToSet(pool'.waiters) = ToSet(pool.waiters) \ {r}
  <2>1. CASE call[r] = "waiting"
    <3>1. pool.future[r] = "result" /\ pool' = pool
      BY <2>1 DEF Resume
    <3> QED
      BY <1>2, <3>1
  <2>2. CASE call[r] # "waiting"
    <3>1. pool' = Drop(pool, r)
      BY <2>2 DEF Resume
    <3>2. pool'.waiters = Without(pool.waiters, r)
      BY <1>1, <3>1 DEF Drop, Pools
    <3>3. pool.future[r] # "pending"
      BY <2>2 DEF QInv, IInv
    <3>4. /\ IsInjective(pool'.waiters) /\ Sorted(pool'.waiters)
          /\ ToSet(pool'.waiters) = ToSet(pool.waiters) \ {r}
          /\ pool'.waiters \in Seq(Requests) /\ Len(pool'.waiters) <= Len(pool.waiters)
      BY <1>1, <1>2, <3>2, WithoutProperties
    <3>5. Len(pool'.waiters) \in Nat /\ Len(pool.waiters) \in Nat
      BY <1>1, <3>4
    <3> QED
      BY <1>2, <3>3, <3>4, <3>5, TimingTyped
  <2> QED
    BY <2>1, <2>2
<1>5. \A x \in ToSet(pool.waiters) : x \in ToSet(pool'.waiters) \/ pool'.future[x] # "pending"
  BY <1>3, <1>4
<1>6. \A x \in ToSet(pool'.waiters) : ask'[x] = ask[x] /\ call'[x] \in Suspended
  BY <1>1, <1>2, <1>3, <1>4
<1>7. ToSet(pool'.waiters) \subseteq ToSet(pool.waiters)
  BY <1>4
<1>8. \A x \in Requests : /\ pool'.future[x] = "pending" => pool.future[x] = "pending"
                          /\ pool'.future[x] = "result" => pool.future[x] = "result"
  BY <1>3
<1> QED
  BY <1>3, <1>4, <1>5, <1>6, <1>7, <1>8, QuietStep

\* The end of a relay, or of a lease found expired: the queue moves up.
LEMMA ReturningStep ==
    ASSUME QInv, IInv', NEW r \in Requests, InferExpired(r) \/ EndRelay(r)
    PROVE  QInv' /\ Careful
<1>1. pool' = Release(pool, r) /\ UNCHANGED <<ask, call, beat>>
  BY DEF InferExpired, EndRelay
<1>2. pool' \in Tidies(pool) /\ Offered(pool')
  BY <1>1, PoolTidy, ReleaseTidies
<1>3. /\ Tidy(pool') /\ Fair(pool, pool')
      /\ ToSet(pool'.waiters) \subseteq ToSet(pool.waiters)
  BY <1>2 DEF Tidies
<1>4. TableSound(pool)' /\ QueueSound(pool)'
  BY <1>1, <1>3 DEF Tidy, TableSound, QueueSound, Sorted, Held
<1>5. QInv'
  BY <1>1, <1>3, <1>4 DEF QInv, Waits
<1>6. ASSUME NEW x \in Requests PROVE ~ Unserved(x)'
  <2>1. beat' = beat /\ ask' = ask
    BY <1>1
  <2>2. pool'.future[x] = "pending" => Free(pool', ask'[x].model) = {}
    BY <1>2, <2>1 DEF Offered
  <2> QED
    BY <2>1, <2>2, UnservedStays
<1> QED
  BY <1>3, <1>5, <1>6 DEF Careful

\* A lease request that has swept the table into s, of which nothing is taken.
LEMMA AfterSweep ==
    ASSUME QInv, IInv', NEW r \in Requests, call[r] = "idle", beat' = beat,
           NEW s \in Tidies(pool), s = pool \/ Offered(s),
           Held(s) \subseteq Held(pool'),
           \A m : Free(s, m) = {} => Free(pool', m) = {},
           \A x \in Requests \ {r} : /\ pool'.future[x] = s.future[x]
                                     /\ ask'[x] = ask[x] /\ call'[x] = call[x],
           pool'.future[r] = "pending" => Free(pool', ask'[r].model) = {},
           TableSound(pool'), QueueSound(pool)',
           \A x \in ToSet(pool'.waiters) \ {r} : x \in ToSet(s.waiters),
           r \in ToSet(pool'.waiters) => call'[r] \in Suspended
    PROVE  QInv' /\ Careful
<1>1. /\ Fair(pool, s) /\ Settles(pool, s) /\ ToSet(s.waiters) \subseteq ToSet(pool.waiters)
  BY DEF Tidies
<1>2. ToSet(pool'.waiters) \subseteq Requests
  <2>1. pool'.waiters \in Seq(Requests)
    BY DEF IInv, TypeOK, Pools
  <2> QED
    BY <2>1 DEF ToSet
<1>3. \A x \in ToSet(pool'.waiters) : call'[x] \in Suspended
  BY <1>1, <1>2 DEF QInv, Waits
<1>4. QInv'
  BY <1>3 DEF QInv, Waits, TableSound, Held
<1>5. pool.future[r] # "pending"
  BY DEF QInv, IInv
<1>6. Fair(pool, pool')
  BY <1>1, <1>5 DEF Fair
<1>7. ASSUME NEW x \in Requests, Unserved(x)'
      PROVE  x # r /\ s = pool /\ Unserved(x)
  <2>1. pool'.future[x] = "pending" /\ Free(pool', ask'[x].model) # {}
    BY <1>7, UnservedStays
  <2>2. x # r
    BY <2>1
  <2>3. s.future[x] = "pending" /\ Free(s, ask[x].model) # {}
    BY <2>1, <2>2
  <2>4. s = pool
    BY <2>3 DEF Offered
  <2> QED
    BY <2>2, <2>3, <2>4 DEF Unserved, Pending
<1>8. ASSUME NEW x \in Held(pool), x \notin Held(pool'), NEW y \in Requests
      PROVE  ~ Unserved(y)'
  BY <1>7, <1>8
<1> QED
  BY <1>4, <1>6, <1>7, <1>8 DEF Careful

\* POST /v1/lease: the sweep, then an answer or a place in the queue.
LEMMA LeasingStep ==
    ASSUME QInv, IInv', NEW r \in Requests, NEW m \in Models, NEW score \in Scores,
           Lease(r, m, score)
    PROVE  QInv' /\ Careful
<1> DEFINE s == ExpireStale(pool)
           free == Free(s, m)
           p == LeastLoaded(s, free)
<1>1. /\ call[r] = "idle" /\ UNCHANGED <<via, failed, opened, beat>>
      /\ \/ pool' = s /\ UNCHANGED ask
         \/ free # {} /\ pool' = Issue(s, r, p) /\ UNCHANGED ask
         \/ /\ free = {} /\ Len(s.waiters) < MaxQueue
            /\ pool' = Push(s, r, score)
            /\ ask' = [ask EXCEPT ![r] = [model |-> m, score |-> score]]
            /\ call' = [call EXCEPT ![r] = "waiting"]
      /\ \E a \in Answers \cup {"waiting"} : call' = [call EXCEPT ![r] = a]
  BY DEF Lease, Answers
<1>2. s \in Tidies(pool) /\ (s = pool \/ Offered(s))
  BY PoolTidy, ExpireStaleTidies
<1> HIDE DEF s
<1>3. /\ Tidy(s) /\ Sound(s) /\ TableSound(s) /\ QueueSound(s) /\ Moves(pool, s)
      /\ ToSet(s.waiters) \subseteq ToSet(pool.waiters)
  BY <1>2 DEF Tidies, Reach, Tidy
<1>4. s \in Pools /\ s.waiters \in Seq(Requests) /\ s.at \in [Requests -> Peers \cup {NoPeer}]
      /\ s.future \in [Requests -> FutureStates] /\ s.leases \in Seq(Requests)
  BY <1>3 DEF Sound, Pools
<1>5. /\ pool.future[r] # "pending" /\ pool.at[r] = NoPeer
      /\ r \notin ToSet(pool.waiters)
      /\ ask \in [Requests -> [model : Models, score : Scores]]
      /\ call \in [Requests -> {"idle"} \cup Suspended \cup Answers]
  BY <1>1 DEF QInv, IInv, Waits, Suspended, TypeOK
<1>6. s.at[r] = NoPeer /\ s.future[r] # "pending" /\ r \notin ToSet(s.waiters)
  BY <1>3, <1>5 DEF Moves
<1>7. \A x \in Requests \ {r} : call'[x] = call[x]
  BY <1>1, <1>5
<1>8. ToSet(s.waiters) \subseteq Requests
  BY <1>4 DEF ToSet
<1>9. CASE pool' = s /\ UNCHANGED ask
  <2>1. QueueSound(pool)'
    BY <1>3, <1>9 DEF QueueSound, Sorted
  <2> QED
    BY <1>1, <1>2, <1>3, <1>6, <1>7, <1>9, <2>1, AfterSweep
<1>10. CASE free # {} /\ pool' = Issue(s, r, p) /\ UNCHANGED ask
  <2>1. p \in Peers
    BY <1>3, <1>10, LeastLoadedFree
  <2> HIDE DEF p, free
  <2>2. /\ pool'.future = s.future /\ pool'.waiters = s.waiters
        /\ pool'.leases = Append(s.leases, r)
        /\ pool'.at = [s.at EXCEPT ![r] = p]
        /\ pool'.inFlight = [s.inFlight EXCEPT ![p] = @ + 1]
    BY <1>4, <1>10 DEF Issue, Pools
  <2>3. TableSound(pool')
    BY <1>3, <1>6, <2>1, <2>2, TableGrows
  <2>4. ASSUME NEW n, Free(s, n) = {} PROVE Free(pool', n) = {}
    BY <1>3, <2>1, <2>2, <2>4, FreeShrinks
  <2>5. Held(s) \subseteq Held(pool')
    BY <1>4, <2>1, <2>2, PeersAreIds DEF Held
  <2>6. QueueSound(pool)'
    BY <1>3, <1>10, <2>2 DEF QueueSound, Sorted
  <2> QED
    BY <1>1, <1>2, <1>6, <1>7, <1>10, <2>2, <2>3, <2>4, <2>5, <2>6, AfterSweep
<1>11. CASE /\ free = {} /\ Len(s.waiters) < MaxQueue
            /\ pool' = Push(s, r, score)
            /\ ask' = [ask EXCEPT ![r] = [model |-> m, score |-> score]]
            /\ call' = [call EXCEPT ![r] = "waiting"]
  <2> DEFINE q == s.waiters
             ahead == {k \in DOMAIN q : ask[q[k]].score >= score}
             c == Cardinality(ahead)
             rank == [x \in Requests |-> ask'[x].score]
  <2>1. /\ ask'[r] = [model |-> m, score |-> score]
        /\ \A x \in Requests \ {r} : ask'[x] = ask[x]
    BY <1>5, <1>11
  <2>2. rank \in [Requests -> Int] /\ rank[r] = score
        /\ \A k \in DOMAIN q : /\ rank[q[k]] = ask[q[k]].score /\ q[k] \in Requests \ {r}
                               /\ ask[q[k]].score \in Int
    <3>1. \A x \in Requests : ask'[x].score \in Int /\ ask[x].score \in Int
      BY <1>5, <2>1, ScoresTyped
    <3>2. \A k \in DOMAIN q : q[k] \in Requests \ {r}
      BY <1>4, <1>6, <1>8 DEF ToSet
    <3> QED
      BY <2>1, <3>1, <3>2
  <2>3. Len(q) \in Nat /\ DOMAIN q = 1..Len(q) /\ score \in Int
    BY <1>4, ScoresTyped
  <2>4. c \in 0..Len(q) /\ ahead = 1..c
    <3>1. ASSUME NEW k \in ahead, NEW j \in 1..k PROVE j \in ahead
      <4>1. j \in DOMAIN q /\ k \in DOMAIN q /\ ask[q[k]].score >= score
        BY <2>3
      <4>2. CASE j = k
        BY <4>1, <4>2
      <4>3. CASE j < k
        <5>1. ask[q[j]].score >= ask[q[k]].score
          BY <1>3, <4>1, <4>3 DEF QueueSound, Sorted
        <5>2. ask[q[j]].score \in Int /\ ask[q[k]].score \in Int
          BY <2>2, <4>1
        <5>3. ask[q[j]].score >= score
          BY <2>3, <4>1, <5>1, <5>2
        <5> QED
          BY <4>1, <5>3
      <4> QED
        BY <2>3, <4>1, <4>2, <4>3
    <3>2. ahead \in SUBSET (1..Len(q))
      BY <2>3
    <3> HIDE DEF ahead
    <3> QED
      BY <2>3, <3>1, <3>2, InitialSegment
  <2>5. pool'.waiters = InsertAt(q, c + 1, r) /\ pool'.future = [s.future EXCEPT ![r] = "pending"]
        /\ pool'.leases = s.leases /\ pool'.at = s.at /\ pool'.inFlight = s.inFlight
    BY <1>4, <1>11 DEF Push, Pools
  <2>6. \A i, j \in DOMAIN q : i < j => rank[q[i]] >= rank[q[j]]
    BY <1>3, <2>2 DEF QueueSound, Sorted
  <2>7. \A i \in 1..c : rank[q[i]] >= rank[r]
    <3>1. \A i \in ahead : i \in DOMAIN q /\ ask[q[i]].score >= score
      OBVIOUS
    <3> HIDE DEF ahead, c, rank
    <3> QED
      BY <2>2, <2>4, <3>1
  <2>8. ASSUME NEW i \in (c + 1)..Len(q) PROVE rank[r] >= rank[q[i]]
    <3>1. i \in DOMAIN q /\ i \notin 1..c
      <4> HIDE DEF c
      <4> QED
        BY <2>3, <2>4
    <3>2. ~ (ask[q[i]].score >= score)
      BY <2>4, <3>1
    <3> HIDE DEF rank, c
    <3> QED
      BY <2>2, <2>3, <3>1, <3>2
  <2> HIDE DEF ahead, c, rank
  <2> DEFINE t == pool'.waiters
  <2>9. q \in Seq(Requests) /\ IsInjective(q) /\ r \notin ToSet(q)
    BY <1>3, <1>4, <1>6 DEF QueueSound
  <2>10. t = InsertAt(q, c + 1, r)
    BY <2>5
  <2> HIDE DEF q, t
  <2>11. /\ Len(t) = Len(q) + 1 /\ IsInjective(t) /\ ToSet(t) = ToSet(q) \cup {r}
         /\ t \in Seq(Requests)
         /\ \A i, j \in DOMAIN t : i < j => rank[t[i]] >= rank[t[j]]
    BY <2>2, <2>4, <2>6, <2>7, <2>8, <2>9, <2>10, InsertRanked
  <2>12. Sorted(pool.waiters)'
    <3>1. \A i \in DOMAIN t : t[i] \in Requests
      BY <2>11
    <3>2. \A i \in DOMAIN t : rank[t[i]] = ask'[t[i]].score
      BY <3>1 DEF rank
    <3> QED
      BY <2>11, <3>2 DEF Sorted, t
  <2>13. QueueSound(pool)'
    <3>1. Len(t) <= MaxQueue
      BY <1>11, <2>3, <2>11, TimingTyped DEF q
    <3>2. ASSUME NEW x \in Requests, pool'.future[x] = "pending" PROVE x \in ToSet(t)
      BY <1>3, <1>4, <2>5, <2>11, <3>2 DEF QueueSound, q
    <3>3. ASSUME NEW x \in ToSet(t) PROVE pool'.future[x] # "result"
      BY <1>3, <1>4, <1>8, <2>5, <2>11, <3>3 DEF QueueSound, q
    <3> QED
      BY <2>11, <2>12, <3>1, <3>2, <3>3 DEF QueueSound, t
  <2>14. TableSound(pool') /\ Held(s) \subseteq Held(pool')
    BY <1>3, <2>5 DEF TableSound, Held
  <2>15. \A n : Free(pool', n) = Free(s, n)
    BY <2>5 DEF Free
  <2>16. \A x \in Requests \ {r} : pool'.future[x] = s.future[x]
    BY <1>4, <2>5
  <2>17. Free(pool', ask'[r].model) = {}
    BY <1>11, <2>1, <2>15
  <2>18. \A x \in ToSet(pool'.waiters) \ {r} : x \in ToSet(s.waiters)
    BY <2>11 DEF t, q
  <2>19. call'[r] \in Suspended
    BY <1>5, <1>11 DEF Suspended
  <2> QED
    BY <1>1, <1>2, <1>7, <2>1, <2>13, <2>14, <2>15, <2>16, <2>17, <2>18, <2>19, AfterSweep
<1> QED
  BY <1>1, <1>9, <1>10, <1>11

\* Every step keeps the queue and the table, and is careful with those who wait.
LEMMA StepWaits ==
    ASSUME QInv, [Next]_vars
    PROVE  QInv' /\ Careful
<1>1. IInv'
  BY StepSound DEF QInv
<1>2. ASSUME NEW r \in Requests, NEW m \in Models, NEW score \in Scores, Lease(r, m, score)
      PROVE  QInv' /\ Careful
  BY <1>1, <1>2, LeasingStep
<1>3. ASSUME NEW r \in Requests, Resume(r) PROVE QInv' /\ Careful
  BY <1>1, <1>3, ResumingStep
<1>4. ASSUME NEW r \in Requests, InferExpired(r) \/ EndRelay(r) PROVE QInv' /\ Careful
  BY <1>1, <1>4, ReturningStep
<1>5. CASE \/ \E r \in Requests : \/ Timeout(r) \/ Cancel(r) \/ Infer(r)
                                  \/ RelayFails(r) \/ Forget(r)
           \/ \E p \in Peers, healthy \in BOOLEAN : Heartbeat(p, healthy)
           \/ Tick
           \/ UNCHANGED vars
  BY <1>1, <1>5, PassingStep
<1> QED
  BY <1>2, <1>3, <1>4, <1>5 DEF Next

LEMMA InitWaits ==
    ASSUME Init
    PROVE  QInv
<1>1. IInv
  BY InitSound
<1>2. /\ pool.waiters = << >> /\ pool.leases = << >>
      /\ \A r \in Requests : pool.at[r] = NoPeer /\ pool.future[r] = "none"
  BY DEF Init
<1>3. DOMAIN << >> = {} /\ Len(<< >>) = 0
  OBVIOUS
<1>4. IsInjective(<< >>) /\ Sorted(<< >>) /\ ToSet(<< >>) = {}
  BY <1>3 DEF IsInjective, Sorted, ToSet
<1>5. Held(pool) = {}
  BY <1>2 DEF Held
<1> QED
  BY <1>1, <1>2, <1>3, <1>4, <1>5, TimingTyped DEF QInv, Waits, TableSound, QueueSound

\* TableSound and QueueSound hold at all times, for every number of requests, roster and
\* bound.
THEOREM QueueInvariance == Spec => []QInv
<1>1. QInv /\ [Next]_vars => QInv'
  BY StepWaits
<1> QED
  BY InitWaits, <1>1, PTL DEF Spec

\* No waiter is lost: the heap holds whoever awaits an unresolved future, once, nobody
\* who has been answered, by falling score and within its bound, through every release,
\* sweep, deadline and cancellation.
THEOREM QueueIsConsistent == Spec => []QueueConsistent
<1>1. QInv => QueueConsistent
  BY DEF QInv, Waits, QueueSound, Sorted, QueueConsistent, Pending
<1> QED
  BY QueueInvariance, <1>1, PTL

\* The dict of leases lists each lease once and no other, and no mark of redemption
\* outlives its lease.
THEOREM LeaseTableIsConsistent == Spec => []LeaseTableConsistent
<1>1. QInv => LeaseTableConsistent
  BY DEF QInv, IInv, Waits, TableSound, Sound, LeaseTableConsistent
<1> QED
  BY QueueInvariance, <1>1, PTL

\* Whoever is served by a step has no waiter for the same model and with a higher score
\* passed over, however many slots the step frees.
THEOREM FairShareOrder == Spec => ServedByFairShare
<1>1. QInv /\ [Next]_vars =>
        \A a, b \in Requests :
           /\ ServedNow(b)
           /\ a \in Pending /\ ask[a].model = ask[b].model
           /\ ask[a].score > ask[b].score
           => ServedNow(a)
  <2>1. ASSUME Careful, NEW a \in Requests, NEW b \in Requests, ServedNow(b),
               a \in Pending, ask[a].model = ask[b].model, ask[a].score > ask[b].score
        PROVE  ServedNow(a)
    BY <2>1 DEF Careful, Fair, ServedNow, Pending
  <2> QED
    BY <2>1, StepWaits
<1> QED
  BY QueueInvariance, <1>1, PTL DEF Spec, ServedByFairShare

\* After a step that takes a lease away nobody waits beside a free slot, and the only way
\* to come to wait beside one is a heartbeat that brings its peer back.
THEOREM FreedSlotsOffered == Spec => FreedSlotsAreOffered
<1>1. QInv /\ [Next]_vars =>
        /\ (\E r \in Held(pool) : r \notin Held(pool'))
              => \A r \in Requests : ~ Unserved(r)'
        /\ (\E r \in Requests : ~ Unserved(r) /\ Unserved(r)')
              => \E p \in Peers : ~ IsLive(p) /\ IsLive(p)'
  BY StepWaits DEF Careful
<1> QED
  BY QueueInvariance, <1>1, PTL DEF Spec, FreedSlotsAreOffered

-----------------------------------------------------------------------------
(* The sweep leaves no lease that has run out.                             *)

\* The leases that are held past their TTL.
Stale(s) == {r \in Held(s) : Expired(s, r)}

\* A turn of the dispatch issues fresh leases only.
LEMMA ServeStale ==
    ASSUME NEW s, Sound(s), NEW r \in Requests
    PROVE  Stale(Serve(s, r)) \subseteq Stale(s)
<1> DEFINE free == Free(s, ask[r].model)
           p == LeastLoaded(s, free)
           i == Issue(s, r, p)
           t == [i EXCEPT !.future[r] = "result"]
<1>1. s \in Pools
  BY DEF Sound
<1>2. CASE s.future[r] # "pending"
  BY <1>2 DEF Serve
<1>3. CASE s.future[r] = "pending" /\ free = {}
  <2>1. Serve(s, r) = [s EXCEPT !.waiters = Append(@, r)]
    BY <1>3 DEF Serve
  <2>2. Serve(s, r).at = s.at /\ Serve(s, r).left = s.left
    BY <1>1, <2>1 DEF Pools
  <2> QED
    BY <2>2 DEF Stale, Held, Expired
<1>4. CASE s.future[r] = "pending" /\ free # {}
  <2>1. Serve(s, r) = t
    BY <1>4 DEF Serve
  <2>2. p \in Peers
    BY <1>4, LeastLoadedFree
  <2> HIDE DEF p, free
  <2>3. /\ i \in Pools /\ i.at = [s.at EXCEPT ![r] = p]
        /\ i.left = [s.left EXCEPT ![r] = LeaseTTL]
    <3>1. /\ i \in Pools /\ i.future = s.future /\ i.redeemed = s.redeemed
          /\ i.at = [s.at EXCEPT ![r] = p]
          /\ i.inFlight = [s.inFlight EXCEPT ![p] = @ + 1]
      BY <1>1, <2>2, IssueTyped
    <3>2. i.left = [s.left EXCEPT ![r] = LeaseTTL]
      BY <1>1 DEF Issue, Pools
    <3> QED
      BY <3>1, <3>2
  <2> HIDE DEF i
  <2>4. t.at = i.at /\ t.left = i.left
    BY <2>3 DEF Pools
  <2> HIDE DEF t
  <2>5. ~ Expired(t, r)
    BY <1>1, <2>3, <2>4, TimingTyped DEF Expired, Pools
  <2>6. \A q \in Requests \ {r} : t.at[q] = s.at[q] /\ t.left[q] = s.left[q]
    BY <1>1, <2>3, <2>4 DEF Pools
  <2> QED
    BY <2>1, <2>5, <2>6 DEF Stale, Held, Expired
<1> QED
  BY <1>2, <1>3, <1>4

\* So does the whole dispatch.
LEMMA DispatchStale ==
    ASSUME NEW s, Sound(s)
    PROVE  Stale(Dispatch(s)) \subseteq Stale(s)
<1> DEFINE n == Len(s.waiters)
           S == {t \in Reach(s) : Stale(t) \subseteq Stale(s)}
<1>1. s \in Pools /\ n \in Nat /\ \A k \in 1..n : s.waiters[k] \in Requests
  BY DEF Sound, Pools
<1>2. PICK f \in DispatchTurns(s) : TRUE
  BY DispatchLoop
<1>3. /\ f \in [0..n -> Reach(s)] /\ f[0] = [s EXCEPT !.waiters = << >>]
      /\ \A k \in 1..n : f[k] = Serve(f[k - 1], s.waiters[k])
      /\ Dispatch(s) = f[n]
  BY <1>2 DEF DispatchTurns
<1>4. f[0] \in S
  <2>1. f[0] \in Reach(s)
    <3>1. 0 \in 0..n
      BY <1>1
    <3> QED
      BY <1>3, <3>1
  <2>2. f[0].at = s.at /\ f[0].left = s.left
    BY <1>1, <1>3 DEF Pools
  <2> QED
    BY <2>1, <2>2 DEF Stale, Held, Expired
<1>5. ASSUME NEW k \in 1..n, f[k - 1] \in S PROVE f[k] \in S
  <2>1. k \in 0..n /\ s.waiters[k] \in Requests /\ f[k] = Serve(f[k - 1], s.waiters[k])
    BY <1>1, <1>3
  <2>2. Sound(f[k - 1])
    BY <1>5 DEF Reach
  <2>3. Stale(f[k]) \subseteq Stale(f[k - 1])
    BY <2>1, <2>2, ServeStale
  <2>4. f[k] \in Reach(s)
    BY <1>3, <2>1
  <2> QED
    BY <1>5, <2>3, <2>4
<1> HIDE DEF S, n
<1>6. f[n] \in S
  BY <1>1, <1>4, <1>5, LoopStays
<1> QED
  BY <1>3, <1>6 DEF S

\* A release ends a lease, stale or not, and makes none stale.
LEMMA ReleaseStale ==
    ASSUME NEW s, Sound(s), NEW r \in Requests
    PROVE  Stale(Release(s, r)) \subseteq Stale(s) \ {r}
<1> DEFINE t == Pop(s, r)
<1>1. s \in Pools
  BY DEF Sound
<1>2. Stale(t) \subseteq Stale(s) \ {r}
  <2>1. CASE s.at[r] = NoPeer
    <3>1. t.at = s.at /\ t.left = s.left
      BY <1>1, <2>1 DEF Pop, Pools
    <3> HIDE DEF t
    <3> QED
      BY <2>1, <3>1 DEF Stale, Held, Expired
  <2>2. CASE s.at[r] # NoPeer
    <3>1. t.at = [s.at EXCEPT ![r] = NoPeer] /\ t.left = [s.left EXCEPT ![r] = 0]
      BY <1>1, <2>2 DEF Pop, Pools
    <3> HIDE DEF t
    <3> QED
      BY <1>1, <3>1 DEF Stale, Held, Expired, Pools
  <2> QED
    BY <2>1, <2>2
<1>3. Sound(t)
  BY PopReaches DEF Reach
<1> HIDE DEF t
<1>4. Stale(Dispatch(t)) \subseteq Stale(t)
  BY <1>3, DispatchStale
<1> QED
  BY <1>2, <1>4 DEF Release, t

\* After a sweep no lease is held past its TTL: the sweep reaches every entry of the
\* table, and what it hands out on the way is fresh.
LEMMA ExpireLeavesNone ==
    ASSUME NEW s, Sound(s), TableSound(s)
    PROVE  Stale(ExpireStale(s)) = {}
<1> DEFINE n == Len(s.leases)
           Left(k) == {q \in Stale(s) : \E j \in (k + 1)..n : s.leases[j] = q}
           S == [k \in 0..n |-> {t \in Reach(s) : Stale(t) \subseteq Left(k)}]
<1>1. s \in Pools /\ n \in Nat /\ \A k \in 1..n : s.leases[k] \in Requests
  BY DEF Sound, Pools
<1>2. PICK f \in ExpireTurns(s) : TRUE
  BY ExpireLoop
<1>3. /\ f \in [0..n -> Reach(s)] /\ f[0] = s
      /\ \A k \in 1..n : f[k] = IF Expired(s, s.leases[k])
                                THEN Release(f[k - 1], s.leases[k]) ELSE f[k - 1]
      /\ ExpireStale(s) = f[n]
  BY <1>2 DEF ExpireTurns
<1>4. 0 \in 0..n /\ n \in 0..n /\ f[0] \in Reach(s)
  BY <1>1, <1>3
<1>5. f[0] \in S[0]
  <2>1. ASSUME NEW q \in Stale(s) PROVE q \in Left(0)
    <3>1. q \in ToSet(s.leases)
      BY <2>1 DEF Stale, TableSound
    <3>2. PICK j \in 1..n : s.leases[j] = q
      BY <1>1, <3>1 DEF ToSet
    <3>3. j \in (0 + 1)..n
      BY <1>1
    <3> QED
      BY <3>2, <3>3
  <2> HIDE DEF Left
  <2> QED
    BY <1>3, <1>4, <2>1
<1>6. ASSUME NEW k \in 1..n, f[k - 1] \in S[k - 1] PROVE f[k] \in S[k]
  <2> DEFINE r == s.leases[k]
  <2>1. k \in 0..n /\ k - 1 \in 0..n /\ r \in Requests /\ (k - 1) + 1 = k
    BY <1>1
  <2>2. f[k - 1] \in Reach(s) /\ Stale(f[k - 1]) \subseteq Left(k - 1)
    <3> HIDE DEF Left
    <3> QED
      BY <1>6, <2>1
  <2>3. Sound(f[k - 1])
    BY <2>2 DEF Reach
  <2>4. Left(k - 1) \subseteq Left(k) \cup {r}
    <3>1. ASSUME NEW q \in Stale(s), NEW j \in k..n, s.leases[j] = q
          PROVE  q \in Left(k) \cup {r}
      <4>1. j = k \/ j \in (k + 1)..n
        BY <1>1
      <4> QED
        BY <3>1, <4>1
    <3> HIDE DEF r
    <3> QED
      BY <2>1, <3>1
  <2>5. Stale(f[k]) \subseteq Left(k)
    <3>1. CASE Expired(s, r)
      <4>1. f[k] = Release(f[k - 1], r)
        BY <1>3, <3>1
      <4> HIDE DEF r, Left
      <4>2. Stale(f[k]) \subseteq Stale(f[k - 1]) \ {r}
        BY <2>1, <2>3, <4>1, ReleaseStale
      <4> QED
        BY <2>2, <2>4, <4>2
    <3>2. CASE ~ Expired(s, r)
      <4>1. f[k] = f[k - 1]
        BY <1>3, <3>2
      <4>2. r \notin Left(k - 1)
        BY <3>2 DEF Stale
      <4> HIDE DEF r, Left
      <4> QED
        BY <2>2, <2>4, <4>1, <4>2
    <3> QED
      BY <3>1, <3>2
  <2>6. f[k] \in Reach(s)
    BY <1>3, <2>1
  <2> HIDE DEF Left
  <2> QED
    BY <2>1, <2>5, <2>6
<1>7. f[n] \in S[n]
  <2> HIDE DEF S, n
  <2> QED
    BY <1>1, <1>5, <1>6, LoopAdvances
<1>8. Left(n) = {}
  BY <1>1
<1> HIDE DEF Left
<1> QED
  BY <1>3, <1>4, <1>7, <1>8

\* A caller that is queued or turned away was compared with leases in force.
LEMMA BusyStep ==
    ASSUME QInv, NEW r \in Requests, NEW m \in Models, NEW score \in Scores,
           Lease(r, m, score), call'[r] \in {"waiting", "queue_full"}
    PROVE  /\ Live(m) # {}
           /\ call'[r] = "waiting" => ask'[r].model = m
           /\ \A p \in Live(m) :
                 Cardinality({q \in Requests : pool'.at[q] = p /\ ~ Expired(pool', q)})
                     = MaxConcurrent[p]
<1> DEFINE s == ExpireStale(pool)
<1>1. Sound(pool) /\ TableSound(pool)
  BY DEF QInv, IInv, Waits
<1>2. Sound(s) /\ s \in Pools /\ Stale(s) = {}
  BY <1>1, ExpireStaleReaches, ExpireLeavesNone DEF Reach
<1> HIDE DEF s
<1>3. /\ call \in [Requests -> {"idle"} \cup Suspended \cup Answers]
      /\ ask \in [Requests -> [model : Models, score : Scores]]
  BY DEF QInv, IInv, TypeOK
<1>4. /\ Live(m) # {} /\ Free(s, m) = {}
      /\ \/ /\ pool' = s /\ call' = [call EXCEPT ![r] = "queue_full"]
         \/ /\ pool' = Push(s, r, score) /\ call' = [call EXCEPT ![r] = "waiting"]
            /\ ask' = [ask EXCEPT ![r] = [model |-> m, score |-> score]]
  BY <1>3 DEF Lease, s
<1>5. pool'.at = s.at /\ pool'.left = s.left
  <2>1. Push(s, r, score).at = s.at /\ Push(s, r, score).left = s.left
    BY <1>2 DEF Push, Pools
  <2> QED
    BY <1>4, <2>1
<1>6. call'[r] = "waiting" => ask'[r].model = m
  BY <1>3, <1>4
<1>7. ASSUME NEW p \in Live(m)
      PROVE  Cardinality({q \in Requests : pool'.at[q] = p /\ ~ Expired(pool', q)})
                 = MaxConcurrent[p]
  <2>1. p \in Peers /\ p # NoPeer
    BY PeersAreIds DEF Live
  <2>2. /\ s.inFlight[p] = Cardinality(On(s, p)) /\ s.inFlight[p] <= MaxConcurrent[p]
        /\ s.inFlight[p] \in Nat /\ MaxConcurrent[p] \in Nat
    BY <1>2, <2>1, RosterTyped DEF Sound, Pools, On
  <2>3. ~ (s.inFlight[p] < MaxConcurrent[p])
    BY <1>4 DEF Free
  <2>4. {q \in Requests : pool'.at[q] = p /\ ~ Expired(pool', q)} = On(s, p)
    BY <1>2, <1>5, <2>1 DEF Stale, Held, Expired, On
  <2> QED
    BY <2>2, <2>3, <2>4
<1> QED
  BY <1>4, <1>6, <1>7

\* Whoever is queued or turned away finds every slot of its model's live peers taken by a
\* lease that has not run out, whatever was leaked before and however many leases ran out
\* together.
THEOREM BusyMeansInForce == Spec => BusyIsInForce
<1> DEFINE Busy(r) ==
      \E m \in Models :
         /\ Live(m) # {}
         /\ call'[r] = "waiting" => ask'[r].model = m
         /\ \A p \in Live(m) :
               Cardinality({q \in Requests : pool'.at[q] = p /\ ~ Expired(pool', q)})
                   = MaxConcurrent[p]
<1>1. QInv /\ [Next]_vars =>
        \A r \in Requests :
          call[r] = "idle" /\ call'[r] \in {"waiting", "queue_full"} => Busy(r)
  <2>1. SUFFICES ASSUME QInv, [Next]_vars, NEW r \in Requests,
                        call[r] = "idle", call'[r] \in {"waiting", "queue_full"}
                 PROVE  Busy(r)
    OBVIOUS
  <2>2. call \in [Requests -> {"idle"} \cup Suspended \cup Answers]
    BY <2>1 DEF QInv, IInv, TypeOK
  <2>3. PICK z \in Requests, m \in Models, score \in Scores : Lease(z, m, score)
    <3> HIDE DEF Busy
    <3>1. call'[r] # call[r]
      BY <2>1
    <3>2. ASSUME NEW z \in Requests,
                 \/ Timeout(z) \/ Cancel(z) \/ Resume(z)
                 \/ InferExpired(z) \/ Infer(z) \/ RelayFails(z) \/ EndRelay(z)
                 \/ Forget(z)
          PROVE  FALSE
      BY <2>1, <2>2, <3>2 DEF Timeout, Cancel, Interrupt, Resume, InferExpired, Infer,
         RelayFails, EndRelay, Forget, Suspended, Answers
    <3>3. (\E p \in Peers, healthy \in BOOLEAN : Heartbeat(p, healthy)) => call' = call
      BY DEF Heartbeat
    <3>4. (Tick => call' = call) /\ (UNCHANGED vars => call' = call)
      BY DEF Tick, vars
    <3> QED
      BY <2>1, <3>1, <3>2, <3>3, <3>4 DEF Next
  <2>4. z = r
    BY <2>1, <2>2, <2>3 DEF Lease
  <2> QED
    BY <2>1, <2>3, <2>4, BusyStep
<1> QED
  BY QueueInvariance, <1>1, PTL DEF Spec, BusyIsInForce
==============================================================================
