---------------------------- MODULE ReadinessProofs ----------------------------
(***************************************************************************)
(* What Readiness guarantees for any callers, limits, probe lengths and    *)
(* delays: a peer is called ready on evidence, its engine is not probed    *)
(* more often than the interval allows, and the coordinator's belief has   *)
(* evidence behind it that is not too old.                                 *)
(***************************************************************************)
EXTENDS Readiness, TLAPS

\* The line for the lock: who stands in it waits, nobody stands in it twice,
\* and a probe runs for the first in line.
Orderly ==
    /\ probe # Idle => line # << >>
    /\ \A k \in DOMAIN line : caller[line[k]] = "waiting"
    /\ \A i, j \in DOMAIN line : line[i] = line[j] => i = j

\* The loop's phases, and the limits of its timer.
Paced ==
    /\ caller[Loop] # "away" => beat.phase = "asking"
    /\ beat.phase = "sleeping" => beat.timer <= BeatInterval
    /\ beat.phase = "sending" => beat.timer <= Transit
    /\ beat.phase = "returning" => beat.timer <= SendMax

\* Where a verdict "ready" can be found, and what it says of the engine's
\* latest output: each place adds what time passes there.
Evident ==
    /\ progress <= Window => output <= progress
    /\ cache.ok /\ cache.age < ProbeInterval => output <= cache.age
    /\ caller[Loop] = "ready" => output <= Evidence
    /\ beat.phase = "sending" /\ beat.ok => output <= Evidence + beat.timer
    /\ heard.ok /\ heard.age <= HeartbeatTimeout => output <= Evidence + Transit + heard.age

\* The cached result is as old as the latest start of a probe.
Dated ==
    /\ probe = Idle => cache.age <= started
    /\ probe # Idle => started = AtMost(probe, ProbeInterval)

\* The inductive invariant.
IInv == TypeOK /\ Orderly /\ Paced /\ Evident /\ Dated

\* The limits derived from the constants are natural numbers.
LEMMA LimitsInNat ==
    /\ Evidence \in Nat /\ Horizon \in Nat
    /\ Window <= Evidence /\ ProbeInterval - 1 <= Evidence
    /\ Horizon = Evidence + Transit + HeartbeatTimeout
BY LimitsTyped DEF Evidence, Horizon

\* The process starts with nothing probed, nobody asking and no beat sent.
LEMMA InitHolds == Init => IInv
<1> SUFFICES ASSUME Init PROVE IInv
  OBVIOUS
<1>1. << >> \in Seq(Callers) /\ DOMAIN << >> = {}
  OBVIOUS
<1>2. Loop \in Callers
  BY DEF Callers
<1>3. TypeOK
  BY <1>1, LimitsTyped, LimitsInNat DEF Init, TypeOK, Idle, MaxMissed
<1>4. Orderly /\ Paced
  <2>1. DOMAIN line = {} /\ probe = Idle
    BY <1>1 DEF Init
  <2>2. /\ caller[Loop] = "away" /\ beat.phase = "sleeping" /\ beat.timer = BeatInterval
        /\ BeatInterval \in Nat
    BY <1>2, LimitsTyped DEF Init
  <2>3. Orderly
    BY <2>1 DEF Orderly
  <2> QED
    BY <2>2, <2>3 DEF Paced
<1>5. Evident /\ Dated
  BY <1>2, LimitsTyped, LimitsInNat DEF Init, Evident, Dated
<1> QED
  BY <1>3, <1>4, <1>5 DEF IInv

-----------------------------------------------------------------------------
(* ready() for one caller.                                                 *)

\* A caller that asks gets a verdict with evidence behind it, or the last
\* place in the line.
LEMMA CallAnswers ==
    ASSUME IInv, NEW c \in Callers, caller[c] = "away", Call(c)
    PROVE  /\ \E x \in {"waiting"} \cup Verdicts :
                 /\ caller' = [caller EXCEPT ![c] = x]
                 /\ x = "ready" => output <= Evidence
           /\ line' \in Seq(Callers)
           /\ line # << >> => line' # << >>
           /\ \A k \in DOMAIN line' : caller'[line'[k]] = "waiting"
           /\ \A i, j \in DOMAIN line' : line'[i] = line'[j] => i = j
<1>1. /\ caller \in [Callers -> {"away", "waiting"} \cup Verdicts] /\ line \in Seq(Callers)
      /\ cache \in [ok : BOOLEAN, age : 0..ProbeInterval]
      /\ output \in Nat /\ progress \in Nat
  BY LimitsTyped, LimitsInNat DEF IInv, TypeOK
<1>2. /\ \A k \in DOMAIN line : caller[line[k]] = "waiting"
      /\ \A i, j \in DOMAIN line : line[i] = line[j] => i = j
      /\ \A k \in DOMAIN line : line[k] \in Callers /\ line[k] # c
  BY <1>1 DEF IInv, Orderly
<1>3. CASE UNCHANGED line /\ \E x \in Verdicts :
             /\ caller' = [caller EXCEPT ![c] = x]
             /\ x = "ready" => output <= Evidence
  BY <1>1, <1>2, <1>3
<1>4. CASE /\ caller' = [caller EXCEPT ![c] = "waiting"]
           /\ line' = Append(line, c)
  <2>1. /\ line' \in Seq(Callers) /\ line' # << >>
        /\ DOMAIN line' = 1..(Len(line) + 1) /\ DOMAIN line = 1..Len(line) /\ Len(line) \in Nat
        /\ \A k \in 1..Len(line) : line'[k] = line[k]
        /\ line'[Len(line) + 1] = c
    BY <1>1, <1>4
  <2>2. ASSUME NEW k \in DOMAIN line' PROVE caller'[line'[k]] = "waiting"
    BY <1>1, <1>2, <1>4, <2>1
  <2>3. ASSUME NEW i \in DOMAIN line', NEW j \in DOMAIN line', line'[i] = line'[j]
        PROVE  i = j
    BY <1>2, <2>1, <2>3
  <2> QED
    BY <1>4, <2>1, <2>2, <2>3
<1>5. CASE progress <= Window
  <2>1. output <= Evidence
    BY <1>1, <1>5, LimitsTyped, LimitsInNat DEF IInv, Evident
  <2> QED
    BY <1>3, <1>5, <2>1 DEF Call, Verdicts
<1>6. CASE ~ (progress <= Window) /\ Fresh
  <2>1. cache.ok => output <= Evidence
    BY <1>1, <1>6, LimitsTyped, LimitsInNat DEF IInv, Evident, Fresh
  <2>2. Verdict(cache.ok) \in Verdicts /\ (Verdict(cache.ok) = "ready" => cache.ok)
    BY DEF Verdict, Verdicts
  <2> QED
    BY <1>3, <1>6, <2>1, <2>2 DEF Call
<1>7. CASE ~ (progress <= Window) /\ ~ Fresh
  BY <1>4, <1>7 DEF Call
<1> QED
  BY <1>5, <1>6, <1>7

\* The first in line gets its verdict and leaves.
LEMMA HeadLeaves ==
    ASSUME IInv, line # << >>, NEW x \in Verdicts,
           caller' = [caller EXCEPT ![Head(line)] = x], line' = Tail(line)
    PROVE  /\ Head(line) \in Callers /\ caller[Head(line)] = "waiting"
           /\ line' \in Seq(Callers)
           /\ \A k \in DOMAIN line' : caller'[line'[k]] = "waiting"
           /\ \A i, j \in DOMAIN line' : line'[i] = line'[j] => i = j
<1>1. /\ caller \in [Callers -> {"away", "waiting"} \cup Verdicts] /\ line \in Seq(Callers)
  BY DEF IInv, TypeOK
<1>2. /\ \A k \in DOMAIN line : caller[line[k]] = "waiting"
      /\ \A i, j \in DOMAIN line : line[i] = line[j] => i = j
  BY DEF IInv, Orderly
<1>3. /\ Len(line) \in Nat /\ Len(line) > 0 /\ DOMAIN line = 1..Len(line)
      /\ Head(line) = line[1] /\ Head(line) \in Callers
      /\ line' \in Seq(Callers) /\ Len(line') = Len(line) - 1
      /\ DOMAIN line' = 1..(Len(line) - 1)
      /\ \A k \in 1..(Len(line) - 1) : line'[k] = line[k + 1]
  BY <1>1
<1>4. \A k \in DOMAIN line' : k + 1 \in DOMAIN line /\ line'[k] = line[k + 1]
  BY <1>3
<1>5. ASSUME NEW k \in DOMAIN line' PROVE caller'[line'[k]] = "waiting"
  <2>1. line[k + 1] # line[1]
    BY <1>2, <1>3, <1>4
  <2> QED
    BY <1>1, <1>2, <1>3, <1>4, <2>1
<1>6. ASSUME NEW i \in DOMAIN line', NEW j \in DOMAIN line', line'[i] = line'[j]
      PROVE  i = j
  BY <1>2, <1>3, <1>4, <1>6
<1>7. caller[Head(line)] = "waiting"
  BY <1>2, <1>3
<1> QED
  BY <1>3, <1>5, <1>6, <1>7

-----------------------------------------------------------------------------
(* The actions.                                                            *)

\* A caller of /health asks, or goes away with its verdict.
LEMMA AskStep ==
    ASSUME IInv, NEW c \in Askers, Ask(c)
    PROVE  IInv'
<1>1. c \in Callers /\ c # Loop /\ Loop \in Callers
  BY CallersDistinct DEF Callers
<1>2. /\ caller[c] = "away" /\ Call(c)
      /\ UNCHANGED <<engine, output, progress, cache, probe, started, beat, heard>>
  BY DEF Ask
<1>3. PICK x \in {"waiting"} \cup Verdicts : caller' = [caller EXCEPT ![c] = x]
  BY <1>1, <1>2, CallAnswers
<1>4. /\ line' \in Seq(Callers)
      /\ line # << >> => line' # << >>
      /\ \A k \in DOMAIN line' : caller'[line'[k]] = "waiting"
      /\ \A i, j \in DOMAIN line' : line'[i] = line'[j] => i = j
  BY <1>1, <1>2, CallAnswers
<1>5. caller \in [Callers -> {"away", "waiting"} \cup Verdicts]
  BY DEF IInv, TypeOK
<1>6. /\ caller' \in [Callers -> {"away", "waiting"} \cup Verdicts]
      /\ caller'[Loop] = caller[Loop]
  BY <1>1, <1>3, <1>5
<1>7. TypeOK'
  BY <1>2, <1>4, <1>6 DEF IInv, TypeOK
<1>8. Orderly'
  BY <1>2, <1>4 DEF IInv, Orderly
<1>9. Paced' /\ Evident' /\ Dated'
  BY <1>2, <1>6 DEF IInv, Paced, Evident, Dated
<1> QED
  BY <1>7, <1>8, <1>9 DEF IInv

\* A caller of /health takes its answer, and stands nowhere afterwards.
LEMMA LeaveStep ==
    ASSUME IInv, NEW c \in Askers, Leave(c)
    PROVE  IInv'
<1>1. c \in Callers /\ c # Loop /\ Loop \in Callers
  BY CallersDistinct DEF Callers
<1>2. /\ caller[c] \in Verdicts /\ caller' = [caller EXCEPT ![c] = "away"]
      /\ UNCHANGED <<engine, output, progress, cache, line, probe, started, beat, heard>>
  BY DEF Leave
<1>3. caller \in [Callers -> {"away", "waiting"} \cup Verdicts] /\ line \in Seq(Callers)
  BY DEF IInv, TypeOK
<1>4. /\ caller' \in [Callers -> {"away", "waiting"} \cup Verdicts]
      /\ caller'[Loop] = caller[Loop]
      /\ \A d \in Callers : caller[d] = "waiting" => caller'[d] = "waiting"
  BY <1>1, <1>2, <1>3 DEF Verdicts
<1>5. TypeOK'
  BY <1>2, <1>4 DEF IInv, TypeOK
<1>6. \A k \in DOMAIN line : line[k] \in Callers
  BY <1>3
<1>7. Orderly'
  BY <1>2, <1>4, <1>6 DEF IInv, Orderly
<1>8. Paced' /\ Evident' /\ Dated'
  BY <1>2, <1>4 DEF IInv, Paced, Evident, Dated
<1> QED
  BY <1>5, <1>7, <1>8 DEF IInv

\* The holder of the lock finds the cache fresh, or starts a probe.
LEMMA EnterStep ==
    ASSUME IInv, Enter
    PROVE  IInv'
<1>1. /\ line # << >> /\ probe = Idle
      /\ UNCHANGED <<engine, output, progress, cache, beat, heard>>
  BY DEF Enter
<1>2. /\ caller \in [Callers -> {"away", "waiting"} \cup Verdicts]
      /\ cache \in [ok : BOOLEAN, age : 0..ProbeInterval] /\ output \in Nat
      /\ Loop \in Callers
  BY LimitsTyped, LimitsInNat DEF IInv, TypeOK, Callers
<1>3. CASE /\ Fresh
           /\ caller' = [caller EXCEPT ![Head(line)] = Verdict(cache.ok)]
           /\ line' = Tail(line) /\ UNCHANGED <<probe, started>>
  <2>1. Verdict(cache.ok) \in Verdicts /\ (Verdict(cache.ok) = "ready" => cache.ok)
    BY DEF Verdict, Verdicts
  <2>2. /\ Head(line) \in Callers /\ caller[Head(line)] = "waiting"
        /\ line' \in Seq(Callers)
        /\ \A k \in DOMAIN line' : caller'[line'[k]] = "waiting"
        /\ \A i, j \in DOMAIN line' : line'[i] = line'[j] => i = j
    BY <1>1, <1>3, <2>1, HeadLeaves
  <2>3. /\ caller' \in [Callers -> {"away", "waiting"} \cup Verdicts]
        /\ caller'[Loop] # "away" => caller[Loop] # "away"
    BY <1>2, <1>3, <2>1, <2>2
  <2>4. caller'[Loop] = "ready" => caller[Loop] = "ready" \/ cache.ok
    BY <1>2, <1>3, <2>1, <2>2
  <2>5. cache.ok => output <= Evidence
    BY <1>2, <1>3, LimitsTyped, LimitsInNat DEF IInv, Evident, Fresh
  <2>6. TypeOK'
    BY <1>1, <1>3, <2>2, <2>3 DEF IInv, TypeOK
  <2>7. Orderly' /\ Paced'
    BY <1>1, <1>3, <2>2, <2>3 DEF IInv, Orderly, Paced
  <2>8. Evident' /\ Dated'
    BY <1>1, <1>3, <2>4, <2>5 DEF IInv, Evident, Dated
  <2> QED
    BY <2>6, <2>7, <2>8 DEF IInv
<1>4. CASE /\ ~ Fresh /\ probe' = 0 /\ started' = 0
           /\ UNCHANGED <<caller, line>>
  <2>1. TypeOK'
    BY <1>1, <1>4, LimitsTyped DEF IInv, TypeOK
  <2>2. Orderly' /\ Paced' /\ Evident'
    BY <1>1, <1>4 DEF IInv, Orderly, Paced, Evident
  <2>3. Dated'
    BY <1>4, LimitsTyped DEF Dated, AtMost, Idle
  <2> QED
    BY <2>1, <2>2, <2>3 DEF IInv
<1> QED
  BY <1>3, <1>4 DEF Enter

\* A probe ends.
LEMMA ConcludeStep ==
    ASSUME IInv, Conclude
    PROVE  IInv'
<1> DEFINE x == Verdict(engine)
           age == AtMost(probe, ProbeInterval)
<1>1. /\ probe # Idle /\ output' = (IF engine THEN 0 ELSE output)
      /\ cache' = [ok |-> engine, age |-> age]
      /\ caller' = [caller EXCEPT ![Head(line)] = x]
      /\ line' = Tail(line) /\ probe' = Idle
      /\ UNCHANGED <<engine, progress, started, beat, heard>>
  BY DEF Conclude
<1>2. /\ caller \in [Callers -> {"away", "waiting"} \cup Verdicts]
      /\ engine \in BOOLEAN /\ output \in 0..(Horizon + 1) /\ started \in 0..ProbeInterval
      /\ progress \in Nat /\ beat.timer \in Nat /\ heard.age \in Nat
      /\ probe \in 0..ProbeMax /\ line # << >> /\ Loop \in Callers
  BY <1>1, LimitsTyped DEF IInv, TypeOK, Orderly, Callers
<1>3. x \in Verdicts /\ (x = "ready" => engine)
  BY DEF Verdict, Verdicts
<1>4. /\ age \in 0..ProbeInterval /\ started = age
  BY <1>1, <1>2, LimitsTyped DEF AtMost, IInv, Dated
<1> HIDE DEF x, age
<1>5. /\ Head(line) \in Callers /\ caller[Head(line)] = "waiting"
      /\ line' \in Seq(Callers)
      /\ \A k \in DOMAIN line' : caller'[line'[k]] = "waiting"
      /\ \A i, j \in DOMAIN line' : line'[i] = line'[j] => i = j
  BY <1>1, <1>2, <1>3, HeadLeaves
<1>6. /\ caller' \in [Callers -> {"away", "waiting"} \cup Verdicts]
      /\ caller'[Loop] # "away" => caller[Loop] # "away"
      /\ caller'[Loop] = "ready" => caller[Loop] = "ready" \/ engine
  BY <1>1, <1>2, <1>3, <1>5
<1>7. output' \in 0..(Horizon + 1) /\ output' <= output /\ (engine => output' = 0)
  BY <1>1, <1>2, LimitsInNat
<1>8. TypeOK'
  BY <1>1, <1>2, <1>4, <1>5, <1>6, <1>7 DEF IInv, TypeOK
<1>9. Orderly' /\ Paced'
  BY <1>1, <1>5, <1>6 DEF IInv, Orderly, Paced
<1>10. Dated'
  BY <1>1, <1>4 DEF Dated
<1>11. Evident'
  <2>1. cache'.ok = engine /\ cache'.age \in Nat
    BY <1>1, <1>4, LimitsTyped
  <2>2. beat' = beat /\ heard' = heard /\ progress' = progress
    BY <1>1
  <2>3. Evidence \in Nat /\ Transit \in Nat /\ output \in Nat /\ output' \in Nat
    BY <1>2, <1>7, LimitsInNat, LimitsTyped
  <2>4. Evident
    BY DEF IInv
  <2> QED
    BY <1>2, <1>6, <1>7, <2>1, <2>2, <2>3, <2>4, LimitsTyped DEF Evident
<1> QED
  BY <1>8, <1>9, <1>10, <1>11 DEF IInv

\* The engine answers somebody, breaks or comes back.
LEMMA EngineStep ==
    ASSUME IInv, Serve \/ Flip
    PROVE  IInv'
<1>1. CASE Serve
  <2>1. /\ output' = 0 /\ progress' = 0
        /\ UNCHANGED <<engine, cache, line, probe, started, caller, beat, heard>>
    BY <1>1 DEF Serve
  <2>2. TypeOK'
    BY <2>1, LimitsTyped, LimitsInNat DEF IInv, TypeOK
  <2>3. Orderly' /\ Paced' /\ Dated'
    BY <2>1 DEF IInv, Orderly, Paced, Dated
  <2>4. /\ cache.age \in Nat /\ beat.timer \in Nat /\ heard.age \in Nat
        /\ Transit \in Nat
    BY LimitsTyped DEF IInv, TypeOK
  <2>5. Evident'
    BY <2>1, <2>4, LimitsInNat, LimitsTyped DEF Evident
  <2> QED
    BY <2>2, <2>3, <2>5 DEF IInv
<1>2. CASE Flip
  <2>1. /\ engine' \in BOOLEAN
        /\ UNCHANGED <<output, progress, cache, line, probe, started, caller, beat, heard>>
    BY <1>2 DEF Flip, IInv, TypeOK
  <2> QED
    BY <2>1 DEF IInv, TypeOK, Orderly, Paced, Evident, Dated
<1> QED
  BY <1>1, <1>2

\* The heartbeat loop asks whether the peer is ready.
LEMMA WakeStep ==
    ASSUME IInv, Wake
    PROVE  IInv'
<1>1. /\ beat.phase = "sleeping" /\ Call(Loop)
      /\ beat' = [beat EXCEPT !.phase = "asking", !.timer = 0]
      /\ UNCHANGED <<engine, output, progress, cache, probe, started, heard>>
  BY DEF Wake
<1>2. Loop \in Callers /\ caller[Loop] = "away"
  BY <1>1 DEF IInv, Paced, Callers
<1>3. PICK x \in {"waiting"} \cup Verdicts : /\ caller' = [caller EXCEPT ![Loop] = x]
                                             /\ x = "ready" => output <= Evidence
  BY <1>1, <1>2, CallAnswers
<1>4. /\ line' \in Seq(Callers)
      /\ line # << >> => line' # << >>
      /\ \A k \in DOMAIN line' : caller'[line'[k]] = "waiting"
      /\ \A i, j \in DOMAIN line' : line'[i] = line'[j] => i = j
  BY <1>1, <1>2, CallAnswers
<1>5. caller \in [Callers -> {"away", "waiting"} \cup Verdicts]
  BY DEF IInv, TypeOK
<1>6. /\ caller' \in [Callers -> {"away", "waiting"} \cup Verdicts]
      /\ caller'[Loop] = x
  BY <1>2, <1>3, <1>5
<1>7. /\ beat.ok \in BOOLEAN
      /\ beat' = [phase |-> "asking", timer |-> 0, ok |-> beat.ok]
      /\ 0 \in 0..(BeatInterval + SendMax)
  <2>1. beat \in [phase : {"sleeping", "asking", "sending", "returning"},
                  timer : 0..(BeatInterval + SendMax), ok : BOOLEAN]
    BY DEF IInv, TypeOK
  <2>2. beat.ok \in BOOLEAN
    BY <2>1
  <2>3. beat' = [phase |-> "asking", timer |-> 0, ok |-> beat.ok]
    BY <1>1, <2>1
  <2> QED
    BY <2>2, <2>3, LimitsTyped
<1>8. TypeOK'
  BY <1>1, <1>4, <1>6, <1>7 DEF IInv, TypeOK
<1>9. Orderly' /\ Dated'
  BY <1>1, <1>4 DEF IInv, Orderly, Dated
<1>10. Paced'
  BY <1>7 DEF Paced
<1>11. Evident'
  BY <1>1, <1>3, <1>6, <1>7 DEF IInv, Evident
<1> QED
  BY <1>8, <1>9, <1>10, <1>11 DEF IInv

\* The loop sends what it was told, before anything else happens.
LEMMA SendStep ==
    ASSUME IInv, Send
    PROVE  IInv'
<1>1. /\ beat.phase = "asking" /\ caller[Loop] \in Verdicts
      /\ caller' = [caller EXCEPT ![Loop] = "away"]
      /\ UNCHANGED <<engine, output, progress, cache, line, probe, started>>
  BY DEF Send
<1>2. /\ caller \in [Callers -> {"away", "waiting"} \cup Verdicts] /\ Loop \in Callers
      /\ line \in Seq(Callers) /\ heard.missed \in 0..(MaxMissed + 1)
      /\ heard \in [ok : BOOLEAN, age : 0..(HeartbeatTimeout + 1), missed : 0..(MaxMissed + 1)]
  BY DEF IInv, TypeOK, Callers
<1>3. /\ caller' \in [Callers -> {"away", "waiting"} \cup Verdicts]
      /\ caller'[Loop] = "away"
      /\ \A d \in Callers : caller[d] = "waiting" => caller'[d] = "waiting"
  BY <1>1, <1>2 DEF Verdicts
<1> DEFINE verdict == caller[Loop] = "ready"
<1>4. \E phase \in {"sending", "returning"} :
         beat' = [phase |-> phase, timer |-> 0, ok |-> verdict]
  BY DEF Send
<1>5. verdict \in BOOLEAN /\ (verdict => caller[Loop] = "ready")
  OBVIOUS
<1> HIDE DEF verdict
<1>6. /\ heard' \in [ok : BOOLEAN, age : 0..(HeartbeatTimeout + 1), missed : 0..(MaxMissed + 1)]
      /\ heard'.ok = heard.ok /\ heard'.age = heard.age
  <2>1. AtMost(heard.missed + 1, MaxMissed + 1) \in 0..(MaxMissed + 1)
    BY <1>2 DEF AtMost, MaxMissed
  <2> QED
    BY <1>2, <2>1 DEF Send
<1>7. beat' \in [phase : {"sleeping", "asking", "sending", "returning"},
                 timer : 0..(BeatInterval + SendMax), ok : BOOLEAN]
  <2>1. 0 \in 0..(BeatInterval + SendMax)
    BY LimitsTyped
  <2> QED
    BY <1>4, <1>5, <2>1
<1>8. TypeOK'
  BY <1>1, <1>3, <1>6, <1>7 DEF IInv, TypeOK
<1>9. \A k \in DOMAIN line : line[k] \in Callers
  BY <1>2
<1>10. Orderly' /\ Dated'
  BY <1>1, <1>3, <1>9 DEF IInv, Orderly, Dated
<1>11. Paced'
  BY <1>3, <1>4, LimitsTyped DEF Paced
<1>12. Evident'
  <2>1. beat'.timer = 0 /\ beat'.ok = verdict
    BY <1>4
  <2> QED
    BY <1>1, <1>3, <1>6, <1>5, <2>1, LimitsInNat DEF IInv, Evident
<1> QED
  BY <1>8, <1>10, <1>11, <1>12 DEF IInv

\* The beat arrives; send_heartbeat returns.
LEMMA ArriveStep ==
    ASSUME IInv, Arrive
    PROVE  IInv'
<1>1. /\ beat.phase = "sending"
      /\ heard' = [ok |-> beat.ok, age |-> 0, missed |-> 0]
      /\ beat' = [beat EXCEPT !.phase = "returning"]
      /\ UNCHANGED <<engine, output, progress, cache, line, probe, started, caller>>
  BY DEF Arrive
<1>2. beat \in [phase : {"sleeping", "asking", "sending", "returning"},
                timer : 0..(BeatInterval + SendMax), ok : BOOLEAN]
  BY DEF IInv, TypeOK
<1>3. /\ beat' \in [phase : {"sleeping", "asking", "sending", "returning"},
                     timer : 0..(BeatInterval + SendMax), ok : BOOLEAN]
      /\ beat'.phase = "returning" /\ beat'.timer = beat.timer
  BY <1>1, <1>2
<1>4. beat.ok \in BOOLEAN
  BY <1>2
<1>5. heard' \in [ok : BOOLEAN, age : 0..(HeartbeatTimeout + 1), missed : 0..(MaxMissed + 1)]
  BY <1>1, <1>4, LimitsTyped DEF MaxMissed
<1>6. TypeOK'
  BY <1>1, <1>3, <1>5 DEF IInv, TypeOK
<1>7. caller[Loop] = "away" /\ beat.timer <= Transit /\ beat.timer \in Nat
  BY <1>1, <1>2, LimitsTyped DEF IInv, Paced
<1>8. Orderly' /\ Paced' /\ Dated'
  BY <1>1, <1>3, <1>7, LimitsTyped DEF IInv, Orderly, Paced, Dated
<1>9. Evident'
  <2>1. heard'.ok = beat.ok /\ heard'.age = 0
    BY <1>1
  <2>2. output \in Nat /\ Evidence \in Nat /\ Transit \in Nat
    BY LimitsTyped, LimitsInNat DEF IInv, TypeOK
  <2>3. beat.ok => output <= Evidence + Transit + 0
    BY <1>1, <1>7, <2>2 DEF IInv, Evident
  <2> QED
    BY <1>1, <1>3, <1>7, <2>1, <2>3 DEF IInv, Evident
<1> QED
  BY <1>6, <1>8, <1>9 DEF IInv

\* The loop goes to sleep again; nothing else changes.
LEMMA ReturnStep ==
    ASSUME IInv, Return
    PROVE  IInv'
<1>1. /\ beat.phase = "returning"
      /\ beat' = [beat EXCEPT !.phase = "sleeping", !.timer = 0]
      /\ UNCHANGED <<engine, output, progress, cache, line, probe, started, caller, heard>>
  BY DEF Return
<1>2. beat \in [phase : {"sleeping", "asking", "sending", "returning"},
                timer : 0..(BeatInterval + SendMax), ok : BOOLEAN]
  BY DEF IInv, TypeOK
<1>3. /\ beat' \in [phase : {"sleeping", "asking", "sending", "returning"},
                     timer : 0..(BeatInterval + SendMax), ok : BOOLEAN]
      /\ beat'.phase = "sleeping" /\ beat'.timer = 0
  <2>1. 0 \in 0..(BeatInterval + SendMax)
    BY LimitsTyped
  <2> QED
    BY <1>1, <1>2, <2>1
<1>4. TypeOK'
  BY <1>1, <1>3 DEF IInv, TypeOK
<1>5. Orderly' /\ Paced' /\ Evident' /\ Dated'
  BY <1>1, <1>3, LimitsTyped DEF IInv, Orderly, Paced, Evident, Dated
<1> QED
  BY <1>4, <1>5 DEF IInv

\* Time passes only when nothing is due, so that no verdict lies about.
LEMMA TickStep ==
    ASSUME IInv, Tick
    PROVE  IInv'
<1>1. /\ output' = AtMost(output + 1, Horizon + 1)
      /\ progress' = AtMost(progress + 1, Window + 1)
      /\ cache' = [cache EXCEPT !.age = AtMost(@ + 1, ProbeInterval)]
      /\ probe' = IF probe = Idle THEN Idle ELSE probe + 1
      /\ started' = AtMost(started + 1, ProbeInterval)
      /\ beat' = IF beat.phase = "asking" THEN beat ELSE [beat EXCEPT !.timer = @ + 1]
      /\ heard' = [heard EXCEPT !.age = AtMost(@ + 1, HeartbeatTimeout + 1)]
      /\ UNCHANGED <<engine, line, caller>>
  BY DEF Tick
<1>2. /\ probe # ProbeMax
      /\ beat.phase = "sleeping" => beat.timer # BeatInterval
      /\ beat.phase = "asking" => caller[Loop] \notin Verdicts
      /\ beat.phase = "sending" => beat.timer # Transit
      /\ beat.phase = "returning" => beat.timer # SendMax
  BY DEF Tick, Due
<1>3. /\ output \in 0..(Horizon + 1) /\ progress \in 0..(Window + 1)
      /\ cache \in [ok : BOOLEAN, age : 0..ProbeInterval]
      /\ probe \in {Idle} \cup 0..ProbeMax /\ started \in 0..ProbeInterval
      /\ beat \in [phase : {"sleeping", "asking", "sending", "returning"},
                   timer : 0..(BeatInterval + SendMax), ok : BOOLEAN]
      /\ heard \in [ok : BOOLEAN, age : 0..(HeartbeatTimeout + 1), missed : 0..(MaxMissed + 1)]
  BY DEF IInv, TypeOK
<1>4. /\ Evidence \in Nat /\ Horizon \in Nat /\ Window \in Nat /\ ProbeInterval \in Nat
      /\ ProbeMax \in Nat /\ BeatInterval \in Nat /\ SendMax \in Nat /\ Transit \in Nat
      /\ Transit <= SendMax /\ HeartbeatTimeout \in Nat
  BY LimitsTyped, LimitsInNat
<1>5. /\ output' \in 0..(Horizon + 1) /\ output' <= output + 1
      /\ progress' \in 0..(Window + 1) /\ (progress' <= Window => progress' = progress + 1)
      /\ started' \in 0..ProbeInterval /\ started' = AtMost(started + 1, ProbeInterval)
  BY <1>1, <1>3, <1>4 DEF AtMost
<1>6. /\ cache' \in [ok : BOOLEAN, age : 0..ProbeInterval] /\ cache'.ok = cache.ok
      /\ cache'.age = AtMost(cache.age + 1, ProbeInterval)
  <2>1. AtMost(cache.age + 1, ProbeInterval) \in 0..ProbeInterval
    BY <1>3, <1>4 DEF AtMost
  <2> QED
    BY <1>1, <1>3, <2>1
<1>7. /\ heard' \in [ok : BOOLEAN, age : 0..(HeartbeatTimeout + 1), missed : 0..(MaxMissed + 1)]
      /\ heard'.ok = heard.ok /\ heard'.age = AtMost(heard.age + 1, HeartbeatTimeout + 1)
  <2>1. AtMost(heard.age + 1, HeartbeatTimeout + 1) \in 0..(HeartbeatTimeout + 1)
    BY <1>3, <1>4 DEF AtMost
  <2> QED
    BY <1>1, <1>3, <2>1
<1>8. /\ beat.phase \in {"sleeping", "asking", "sending", "returning"}
      /\ beat.timer \in 0..(BeatInterval + SendMax)
      /\ cache.age \in 0..ProbeInterval /\ heard.age \in 0..(HeartbeatTimeout + 1)
  BY <1>3
<1>9. /\ beat.phase = "sleeping" => beat.timer < BeatInterval
      /\ beat.phase = "sending" => beat.timer < Transit
      /\ beat.phase = "returning" => beat.timer < SendMax
  BY <1>2, <1>4, <1>8 DEF IInv, Paced
<1>10. /\ beat' \in [phase : {"sleeping", "asking", "sending", "returning"},
                      timer : 0..(BeatInterval + SendMax), ok : BOOLEAN]
       /\ beat'.phase = beat.phase /\ beat'.ok = beat.ok
       /\ beat.phase # "asking" => beat'.timer = beat.timer + 1
  <2>1. CASE beat.phase = "asking"
    BY <1>1, <1>3, <2>1
  <2>2. CASE beat.phase # "asking"
    <3>1. beat.timer + 1 \in 0..(BeatInterval + SendMax)
      BY <1>4, <1>8, <1>9, <2>2
    <3>2. beat' = [beat EXCEPT !.timer = beat.timer + 1]
      BY <1>1, <2>2
    <3> QED
      BY <1>3, <3>1, <3>2
  <2> QED
    BY <2>1, <2>2
<1>11. probe' \in {Idle} \cup 0..ProbeMax /\ (probe' = Idle <=> probe = Idle)
  <2>1. CASE probe = Idle
    BY <1>1, <2>1
  <2>2. CASE probe # Idle
    <3>1. probe' = probe + 1 /\ probe \in 0..ProbeMax /\ probe # ProbeMax
      BY <1>1, <1>2, <1>3, <2>2
    <3>2. probe' \in 0..ProbeMax /\ Idle = -1
      BY <1>4, <3>1 DEF Idle
    <3> QED
      BY <2>2, <3>2
  <2> QED
    BY <2>1, <2>2
<1>12. TypeOK'
  BY <1>1, <1>5, <1>6, <1>7, <1>10, <1>11 DEF IInv, TypeOK
<1>13. Orderly'
  BY <1>1, <1>11 DEF IInv, Orderly
<1>14. Paced'
  BY <1>1, <1>4, <1>8, <1>9, <1>10 DEF IInv, Paced
<1>15. Dated'
  BY <1>1, <1>3, <1>4, <1>5, <1>6, <1>8, <1>11 DEF IInv, Dated, AtMost, Idle
<1>16. Evident'
  <2>1. Evident /\ caller[Loop] # "ready"
    BY <1>2 DEF IInv, Paced, Verdicts
  <2>2. cache'.age < ProbeInterval => cache'.age = cache.age + 1
    BY <1>4, <1>6, <1>8 DEF AtMost
  <2>3. heard'.age <= HeartbeatTimeout => heard'.age = heard.age + 1
    BY <1>4, <1>7, <1>8 DEF AtMost
  <2>4. progress' <= Window => output' <= progress'
    BY <1>3, <1>4, <1>5, <2>1 DEF Evident
  <2>5. cache'.ok /\ cache'.age < ProbeInterval => output' <= cache'.age
    BY <1>3, <1>4, <1>5, <1>6, <1>8, <2>1, <2>2 DEF Evident
  <2>6. beat'.phase = "sending" /\ beat'.ok => output' <= Evidence + beat'.timer
    BY <1>3, <1>4, <1>5, <1>8, <1>10, <2>1 DEF Evident
  <2>7. heard'.ok /\ heard'.age <= HeartbeatTimeout
            => output' <= Evidence + Transit + heard'.age
    BY <1>3, <1>4, <1>5, <1>7, <1>8, <2>1, <2>3 DEF Evident
  <2> QED
    BY <1>1, <2>1, <2>4, <2>5, <2>6, <2>7 DEF Evident
<1> QED
  BY <1>12, <1>13, <1>14, <1>15, <1>16 DEF IInv

\* Every step of callers, probe, backend, loop and network keeps the invariant.
LEMMA StepHolds == IInv /\ [Next]_vars => IInv'
<1> SUFFICES ASSUME IInv, [Next]_vars PROVE IInv'
  OBVIOUS
<1>1. CASE UNCHANGED vars
  BY <1>1 DEF vars, IInv, TypeOK, Orderly, Paced, Evident, Dated
<1>2. ASSUME NEW c \in Askers, Ask(c) \/ Leave(c) PROVE IInv'
  BY <1>2, AskStep, LeaveStep
<1> QED
  BY <1>1, <1>2, EnterStep, ConcludeStep, EngineStep, WakeStep, SendStep, ArriveStep,
     ReturnStep, TickStep DEF Next

-----------------------------------------------------------------------------
(* Theorems.                                                               *)

\* The waiters stand in line behind one probe, verdicts and beats rest on dated
\* evidence, and no beat is older than its transit allows.
THEOREM Invariance == Spec => []IInv
<1> QED
  BY InitHolds, StepHolds, PTL DEF Spec

\* Every variable keeps its type.
THEOREM TypeCorrect == Spec => []TypeOK
<1>1. IInv => TypeOK
  BY DEF IInv
<1> QED
  BY Invariance, <1>1, PTL

\* A peer is routed to only if its engine has produced output within Horizon:
\* the evidence window, the longest transit of a beat and the timeout, added up.
THEOREM RoutingHasEvidence == Spec => []RoutedOnEvidence
<1>1. IInv => RoutedOnEvidence
  <2> SUFFICES ASSUME IInv, heard.ok, heard.age <= HeartbeatTimeout
               PROVE  output <= Horizon
    BY DEF RoutedOnEvidence
  <2>1. /\ heard.age \in Nat /\ output \in Nat /\ Evidence \in Nat /\ Transit \in Nat
        /\ HeartbeatTimeout \in Nat /\ Horizon = Evidence + Transit + HeartbeatTimeout
    BY LimitsTyped, LimitsInNat DEF IInv, TypeOK
  <2> QED
    BY <2>1 DEF IInv, Evident
<1> QED
  BY Invariance, <1>1, PTL

\* Two starts of a probe are at least the interval apart.
THEOREM ProbesSpaced == Spec => ProbesAreSpaced
<1> DEFINE Spaced == probe = Idle /\ probe' # Idle => started >= ProbeInterval
<1>1. IInv /\ [Next]_vars => [Spaced]_vars
  <2> SUFFICES ASSUME IInv, [Next]_vars, probe = Idle, probe' # Idle
               PROVE  started >= ProbeInterval
    OBVIOUS
  <2>1. Enter
    BY DEF Next, vars, Ask, Leave, Conclude, Serve, Flip, Wake, Send, Arrive, Return, Tick
  <2>2. ~ Fresh
    BY <2>1 DEF Enter
  <2>3. cache.age \in Nat /\ started \in Nat /\ ProbeInterval \in Nat
    BY LimitsTyped DEF IInv, TypeOK
  <2> QED
    BY <2>2, <2>3 DEF IInv, Dated, Fresh
<1> QED
  BY Invariance, <1>1, PTL DEF Spec, ProbesAreSpaced

\* Nobody is told that the peer is ready without evidence from its engine.
THEOREM ReadinessHasEvidence == Spec => ReadyOnEvidence
<1> DEFINE Told(c) == caller[c] # "ready" /\ caller'[c] = "ready" => output' <= Evidence
<1>1. IInv /\ [Next]_vars => [\A c \in Callers : Told(c)]_vars
  <2> SUFFICES ASSUME IInv, [Next]_vars, NEW c \in Callers,
                      caller[c] # "ready", caller'[c] = "ready"
               PROVE  output' <= Evidence
    OBVIOUS
  <2>1. /\ caller \in [Callers -> {"away", "waiting"} \cup Verdicts] /\ output \in Nat
        /\ Evidence \in Nat
    BY LimitsTyped, LimitsInNat DEF IInv, TypeOK
  <2>2. ASSUME NEW d \in Callers, caller[d] = "away", Call(d), output' = output
        PROVE  output' <= Evidence
    <3>1. PICK x \in {"waiting"} \cup Verdicts :
             /\ caller' = [caller EXCEPT ![d] = x]
             /\ x = "ready" => output <= Evidence
      BY <2>2, CallAnswers
    <3> QED
      BY <2>1, <2>2, <3>1
  <2>3. CASE \E d \in Askers : Ask(d)
    <3>1. PICK d \in Askers : Ask(d)
      BY <2>3
    <3> QED
      BY <2>2, <3>1 DEF Ask, Callers
  <2>4. CASE Wake
    <3>1. Loop \in Callers /\ caller[Loop] = "away" /\ Call(Loop) /\ output' = output
      BY <2>4 DEF Wake, IInv, Paced, Callers
    <3> QED
      BY <2>2, <3>1
  <2>5. CASE Enter
    <3>1. /\ Fresh /\ caller' = [caller EXCEPT ![Head(line)] = Verdict(cache.ok)]
          /\ output' = output
      BY <2>5 DEF Enter
    <3>2. Verdict(cache.ok) = "ready"
      BY <2>1, <3>1
    <3>3. cache.ok /\ cache.age \in Nat /\ cache.age <= Evidence
      BY <3>1, <3>2, LimitsTyped, LimitsInNat DEF Fresh, Verdict, IInv, TypeOK
    <3> QED
      BY <2>1, <3>1, <3>3 DEF Fresh, IInv, Evident
  <2>6. CASE Conclude
    <3>1. Verdict(engine) = "ready"
      BY <2>1, <2>6 DEF Conclude
    <3>2. output' = 0
      BY <2>6, <3>1 DEF Conclude, Verdict
    <3> QED
      BY <2>1, <3>2
  <2>7. CASE Send \/ \E d \in Askers : Leave(d)
    BY <2>1, <2>7 DEF Send, Leave
  <2> QED
    BY <2>3, <2>4, <2>5, <2>6, <2>7 DEF Next, vars, Serve, Flip, Arrive, Return, Tick
<1> QED
  BY Invariance, <1>1, PTL DEF Spec, ReadyOnEvidence

-----------------------------------------------------------------------------
(* One lost beat.                                                          *)

\* The longest a turn of the loop takes, from one beat to the next.
Cycle == SendMax + BeatInterval + ProbeMax

\* What the coordinator may have waited already when the turn began.
Waited == IF heard.missed = 0 THEN 0 ELSE Cycle

\* The loop asks as long as it has not got its verdict, and waits in the line.
Asking ==
    /\ beat.phase = "asking" => caller[Loop] # "away"
    /\ caller[Loop] = "waiting" => \E k \in DOMAIN line : line[k] = Loop

\* How long the coordinator has heard nothing, by the place the loop has reached in its
\* turn: while it waits for a verdict, no longer than the probe runs.
Elapsed ==
    /\ beat.phase = "returning" => heard.age <= Waited + beat.timer
    /\ beat.phase = "sleeping" => heard.age <= Waited + SendMax + beat.timer
    /\ caller[Loop] = "waiting" /\ probe # Idle =>
          heard.age <= Waited + SendMax + BeatInterval + probe
    /\ caller[Loop] = "waiting" /\ probe = Idle =>
          \/ heard.age <= Waited + SendMax + BeatInterval
          \/ Fresh /\ heard.age <= Waited + Cycle
    /\ caller[Loop] \in Verdicts => heard.age <= Waited + Cycle
    /\ beat.phase = "sending" => heard.age <= Waited + Cycle + beat.timer

\* Probes are shorter than their spacing, and a beat may be lost before the timeout.
Tolerant ==
    /\ 2 * Cycle + Transit <= HeartbeatTimeout
    /\ ProbeMax < ProbeInterval

\* The inductive invariant.
MissInv ==
    /\ IInv
    /\ Asking
    /\ Tolerant /\ heard.missed <= 1 => Elapsed

\* The numbers that the arithmetic is about.
LEMMA ClockTyped ==
    ASSUME TypeOK
    PROVE  /\ heard.age \in Nat /\ heard.missed \in 0..3 /\ beat.timer \in Nat
           /\ probe \in {Idle} \cup 0..ProbeMax /\ cache.age \in Nat
           /\ SendMax \in Nat /\ BeatInterval \in Nat /\ ProbeMax \in Nat /\ Transit \in Nat
           /\ HeartbeatTimeout \in Nat /\ ProbeInterval \in Nat /\ Idle = -1
           /\ Cycle = SendMax + BeatInterval + ProbeMax /\ Cycle \in Nat
           /\ Waited \in {0, Cycle} /\ (heard.missed = 0 => Waited = 0)
           /\ (heard.missed # 0 => Waited = Cycle)
           /\ caller[Loop] \in {"away", "waiting"} \cup Verdicts
BY LimitsTyped DEF TypeOK, MaxMissed, Cycle, Waited, Idle, Callers

\* Steps that move neither the loop nor the clock, and only add to the line.
LEMMA LoopUndisturbed ==
    ASSUME MissInv, UNCHANGED <<cache, probe, beat, heard>>, caller'[Loop] = caller[Loop],
           \A k \in DOMAIN line : k \in DOMAIN line' /\ line'[k] = line[k]
    PROVE  Asking' /\ (Tolerant /\ heard'.missed <= 1 => Elapsed')
<1>1. Asking'
  BY DEF MissInv, Asking
<1>2. ASSUME Elapsed PROVE Elapsed'
  BY <1>2 DEF Elapsed, Waited, Fresh
<1> QED
  BY <1>1, <1>2 DEF MissInv

\* Callers of /health, and the engine.
LEMMA OthersMiss ==
    ASSUME MissInv, \/ \E c \in Askers : Ask(c) \/ Leave(c)
                    \/ Serve \/ Flip \/ UNCHANGED vars
    PROVE  Asking' /\ (Tolerant /\ heard'.missed <= 1 => Elapsed')
<1>1. /\ caller \in [Callers -> {"away", "waiting"} \cup Verdicts] /\ line \in Seq(Callers)
      /\ Loop \in Callers /\ Loop \notin Askers
  BY CallersDistinct DEF MissInv, IInv, TypeOK, Callers
<1>2. UNCHANGED <<cache, probe, beat, heard>>
  BY DEF Ask, Leave, Serve, Flip, vars
<1>3. caller'[Loop] = caller[Loop]
  BY <1>1 DEF Ask, Call, Leave, Serve, Flip, vars
<1>4. ASSUME NEW k \in DOMAIN line PROVE k \in DOMAIN line' /\ line'[k] = line[k]
  <2>1. line' = line \/ \E c \in Callers : line' = Append(line, c)
    BY DEF Ask, Call, Leave, Serve, Flip, vars, Callers
  <2>2. ASSUME NEW c \in Callers, line' = Append(line, c)
        PROVE  k \in DOMAIN line' /\ line'[k] = line[k]
    <3>1. DOMAIN line = 1..Len(line) /\ DOMAIN line' = 1..(Len(line) + 1) /\ Len(line) \in Nat
      BY <1>1, <2>2
    <3>2. k \in 1..Len(line) /\ k \in DOMAIN line'
      BY <3>1
    <3> QED
      BY <1>1, <2>2, <3>2
  <2> QED
    BY <2>1, <2>2
<1> QED
  BY <1>2, <1>3, <1>4, LoopUndisturbed

\* The first in line leaves it: the loop, or the loop moves up.
LEMMA LoopMovesUp ==
    ASSUME MissInv, line # << >>, NEW x \in Verdicts,
           caller' = [caller EXCEPT ![Head(line)] = x], line' = Tail(line), beat' = beat
    PROVE  /\ Asking'
           /\ caller'[Loop] = caller[Loop]
                 \/ (caller[Loop] = "waiting" /\ caller'[Loop] \in Verdicts)
<1>1. /\ caller \in [Callers -> {"away", "waiting"} \cup Verdicts] /\ line \in Seq(Callers)
      /\ Loop \in Callers
  BY DEF MissInv, IInv, TypeOK, Callers
<1>2. Head(line) \in Callers /\ caller[Head(line)] = "waiting"
  BY HeadLeaves DEF MissInv
<1>3. CASE Head(line) = Loop
  <2>1. caller'[Loop] = x /\ caller[Loop] = "waiting"
    BY <1>1, <1>2, <1>3
  <2>2. caller'[Loop] \notin {"away", "waiting"}
    BY <2>1 DEF Verdicts
  <2> QED
    BY <2>1, <2>2 DEF Asking
<1>4. CASE Head(line) # Loop
  <2>1. caller'[Loop] = caller[Loop]
    BY <1>1, <1>4
  <2>2. ASSUME NEW k \in DOMAIN line, line[k] = Loop
        PROVE  \E j \in DOMAIN line' : line'[j] = Loop
    <3>1. /\ Len(line) \in Nat /\ DOMAIN line = 1..Len(line) /\ Head(line) = line[1]
          /\ DOMAIN line' = 1..(Len(line) - 1)
          /\ \A j \in 1..(Len(line) - 1) : line'[j] = line[j + 1]
      BY <1>1
    <3>2. k \in 1..Len(line) /\ k # 1
      BY <1>4, <2>2, <3>1
    <3>3. k - 1 \in 1..(Len(line) - 1) /\ (k - 1) + 1 = k
      BY <3>1, <3>2
    <3> QED
      BY <2>2, <3>1, <3>3
  <2>3. Asking'
    BY <2>1, <2>2 DEF MissInv, Asking
  <2> QED
    BY <2>1, <2>3
<1> QED
  BY <1>3, <1>4

\* The holder of the lock uses the cache, or starts the probe that it is waiting for.
LEMMA EnterMiss ==
    ASSUME MissInv, Enter
    PROVE  Asking' /\ (Tolerant /\ heard'.missed <= 1 => Elapsed')
<1>1. /\ line # << >> /\ probe = Idle /\ UNCHANGED <<cache, beat, heard>>
  BY DEF Enter
<1>2. TypeOK
  BY DEF MissInv, IInv
<1>3. Waited' = Waited
  BY <1>1 DEF Waited
<1>4. CASE /\ Fresh
           /\ caller' = [caller EXCEPT ![Head(line)] = Verdict(cache.ok)]
           /\ line' = Tail(line) /\ UNCHANGED <<probe, started>>
  <2> DEFINE x == Verdict(cache.ok)
  <2>1. x \in Verdicts
    BY DEF Verdict, Verdicts
  <2> HIDE DEF x
  <2>2. /\ Asking'
        /\ caller'[Loop] = caller[Loop]
              \/ (caller[Loop] = "waiting" /\ caller'[Loop] \in Verdicts)
    BY <1>1, <1>4, <2>1, LoopMovesUp DEF x
  <2>3. ASSUME Elapsed PROVE Elapsed'
    <3>1. CASE caller'[Loop] = caller[Loop]
      BY <1>1, <1>3, <1>4, <2>3, <3>1 DEF Elapsed, Fresh
    <3>2. CASE caller[Loop] = "waiting" /\ caller'[Loop] \in Verdicts
      <4>1. heard.age <= Waited + Cycle
        <5>1. \/ heard.age <= Waited + SendMax + BeatInterval
              \/ heard.age <= Waited + Cycle
          BY <1>1, <2>3, <3>2 DEF Elapsed
        <5>2. /\ heard.age \in Nat /\ Waited \in Nat /\ SendMax \in Nat
              /\ BeatInterval \in Nat /\ ProbeMax \in Nat
              /\ Cycle = SendMax + BeatInterval + ProbeMax
          BY <1>2, ClockTyped
        <5> QED
          BY <5>1, <5>2
      <4>2. caller'[Loop] # "waiting"
        BY <3>2 DEF Verdicts
      <4> QED
        BY <1>1, <1>3, <2>3, <4>1, <4>2 DEF Elapsed
    <3> QED
      BY <2>2, <3>1, <3>2
  <2> QED
    BY <1>1, <2>2, <2>3 DEF MissInv
<1>5. CASE /\ ~ Fresh /\ probe' = 0 /\ started' = 0 /\ UNCHANGED <<caller, line>>
  <2>1. Asking'
    BY <1>1, <1>5 DEF MissInv, Asking
  <2>2. ASSUME Elapsed PROVE Elapsed'
    <3>1. caller[Loop] = "waiting" => heard.age <= Waited + SendMax + BeatInterval + 0
      BY <1>1, <1>2, <1>5, <2>2, ClockTyped DEF Elapsed
    <3>2. 0 # Idle
      BY DEF Idle
    <3> QED
      BY <1>1, <1>3, <1>5, <2>2, <3>1, <3>2 DEF Elapsed
  <2> QED
    BY <1>1, <2>1, <2>2 DEF MissInv
<1> QED
  BY <1>4, <1>5 DEF Enter

\* A probe ends: whoever waits for it gets its result without another.
LEMMA ConcludeMiss ==
    ASSUME MissInv, Conclude
    PROVE  Asking' /\ (Tolerant /\ heard'.missed <= 1 => Elapsed')
<1> DEFINE x == Verdict(engine)
<1>1. /\ probe # Idle /\ cache' = [ok |-> engine, age |-> AtMost(probe, ProbeInterval)]
      /\ caller' = [caller EXCEPT ![Head(line)] = x]
      /\ line' = Tail(line) /\ probe' = Idle /\ UNCHANGED <<beat, heard>>
  BY DEF Conclude
<1>2. TypeOK /\ line # << >>
  BY <1>1 DEF MissInv, IInv, Orderly
<1>3. x \in Verdicts
  BY DEF Verdict, Verdicts
<1> HIDE DEF x
<1>4. /\ Asking'
      /\ caller'[Loop] = caller[Loop]
            \/ (caller[Loop] = "waiting" /\ caller'[Loop] \in Verdicts)
  BY <1>1, <1>2, <1>3, LoopMovesUp
<1>5. Waited' = Waited
  BY <1>1 DEF Waited
<1>6. probe \in 0..ProbeMax /\ ProbeMax \in Nat /\ ProbeInterval \in Nat
  BY <1>1, <1>2, ClockTyped
<1>7. ASSUME Tolerant, Elapsed PROVE Elapsed'
  <2>1. Fresh'
    <3>1. cache'.age = AtMost(probe, ProbeInterval)
      BY <1>1
    <3> QED
      BY <1>6, <1>7, <3>1 DEF Fresh, Tolerant, AtMost
  <2>2. caller[Loop] = "waiting" => heard.age <= Waited + Cycle
    <3>1. caller[Loop] = "waiting" => heard.age <= Waited + SendMax + BeatInterval + probe
      BY <1>1, <1>7 DEF Elapsed
    <3>2. /\ heard.age \in Nat /\ Waited \in Nat /\ SendMax \in Nat /\ BeatInterval \in Nat
          /\ Cycle = SendMax + BeatInterval + ProbeMax
      BY <1>2, ClockTyped
    <3> QED
      BY <1>6, <3>1, <3>2
  <2>3. caller'[Loop] = "waiting" => caller[Loop] = "waiting"
    BY <1>4 DEF Verdicts
  <2>4. caller'[Loop] \in Verdicts => heard.age <= Waited + Cycle
    BY <1>4, <1>7, <2>2 DEF Elapsed
  <2> QED
    BY <1>1, <1>5, <1>7, <2>1, <2>2, <2>3, <2>4 DEF Elapsed
<1> QED
  BY <1>1, <1>4, <1>7 DEF MissInv

\* The loop wakes at the end of its interval, and has its verdict or a place in the line.
LEMMA WakeMiss ==
    ASSUME MissInv, Wake
    PROVE  Asking' /\ (Tolerant /\ heard'.missed <= 1 => Elapsed')
<1>1. /\ beat.phase = "sleeping" /\ beat.timer = BeatInterval /\ Call(Loop)
      /\ beat' = [beat EXCEPT !.phase = "asking", !.timer = 0]
      /\ UNCHANGED <<cache, probe, heard>>
  BY DEF Wake
<1>2. /\ TypeOK /\ line \in Seq(Callers) /\ Loop \in Callers
      /\ caller \in [Callers -> {"away", "waiting"} \cup Verdicts]
      /\ beat \in [phase : {"sleeping", "asking", "sending", "returning"},
                   timer : 0..(BeatInterval + SendMax), ok : BOOLEAN]
  BY DEF MissInv, IInv, TypeOK, Callers
<1>3. beat'.phase = "asking" /\ Waited' = Waited
  BY <1>1, <1>2 DEF Waited
<1>4. caller'[Loop] \in Verdicts \/ (caller'[Loop] = "waiting" /\ line' = Append(line, Loop))
  <2>1. PICK x \in {"waiting"} \cup Verdicts :
           /\ caller' = [caller EXCEPT ![Loop] = x]
           /\ x = "waiting" => line' = Append(line, Loop)
    <3>1. "ready" \in Verdicts /\ Verdict(cache.ok) \in Verdicts /\ "waiting" \notin Verdicts
      BY DEF Verdict, Verdicts
    <3> QED
      BY <1>1, <3>1 DEF Call
  <2>2. caller'[Loop] = x
    BY <1>2, <2>1
  <2> QED
    BY <2>1, <2>2
<1>5. Asking'
  <2>1. caller'[Loop] # "away"
    BY <1>4 DEF Verdicts
  <2>2. ASSUME line' = Append(line, Loop) PROVE \E k \in DOMAIN line' : line'[k] = Loop
    <3>1. Len(line) + 1 \in DOMAIN line' /\ line'[Len(line) + 1] = Loop
      BY <1>2, <2>2
    <3> QED
      BY <3>1
  <2> QED
    BY <1>4, <2>1, <2>2 DEF Asking, Verdicts
<1>6. ASSUME Elapsed PROVE Elapsed'
  <2>1. heard.age <= Waited + SendMax + BeatInterval
    BY <1>1, <1>6 DEF Elapsed
  <2>2. /\ heard.age \in Nat /\ SendMax \in Nat /\ BeatInterval \in Nat /\ ProbeMax \in Nat
        /\ Cycle = SendMax + BeatInterval + ProbeMax /\ Waited \in Nat
        /\ probe # Idle => probe \in Nat
    BY <1>2, ClockTyped
  <2>3. probe # Idle => heard.age <= Waited + SendMax + BeatInterval + probe
    BY <2>1, <2>2
  <2>4. heard.age <= Waited + Cycle
    BY <2>1, <2>2
  <2> QED
    BY <1>1, <1>3, <2>1, <2>3, <2>4 DEF Elapsed
<1> QED
  BY <1>1, <1>5, <1>6 DEF MissInv

\* A beat is sent, or lost: in the second case the coordinator waits for another turn.
LEMMA SendMiss ==
    ASSUME MissInv, Send
    PROVE  Asking' /\ (Tolerant /\ heard'.missed <= 1 => Elapsed')
<1>1. /\ beat.phase = "asking" /\ caller[Loop] \in Verdicts
      /\ caller' = [caller EXCEPT ![Loop] = "away"] /\ UNCHANGED <<cache, probe, line>>
  BY DEF Send
<1>2. /\ TypeOK /\ Loop \in Callers
      /\ caller \in [Callers -> {"away", "waiting"} \cup Verdicts]
      /\ heard \in [ok : BOOLEAN, age : 0..(HeartbeatTimeout + 1), missed : 0..(MaxMissed + 1)]
  BY DEF MissInv, IInv, TypeOK, Callers
<1>3. caller'[Loop] = "away" /\ "away" \notin Verdicts
  BY <1>1, <1>2 DEF Verdicts
<1>4. \/ beat'.phase = "sending" /\ beat'.timer = 0 /\ heard' = heard
      \/ /\ beat'.phase = "returning" /\ beat'.timer = 0
         /\ heard' = [heard EXCEPT !.missed = AtMost(@ + 1, MaxMissed + 1)]
  BY DEF Send
<1>5. Asking'
  BY <1>3, <1>4 DEF Asking
<1>6. CASE beat'.phase = "sending" /\ beat'.timer = 0 /\ heard' = heard
  <2>1. ASSUME Elapsed PROVE Elapsed'
    <3>1. heard.age <= Waited + Cycle + 0 /\ Waited' = Waited
      BY <1>1, <1>2, <1>6, <2>1, ClockTyped DEF Elapsed, Waited
    <3> QED
      BY <1>3, <1>6, <3>1 DEF Elapsed
  <2> QED
    BY <1>5, <1>6, <2>1 DEF MissInv
<1>7. CASE /\ beat'.phase = "returning" /\ beat'.timer = 0
           /\ heard' = [heard EXCEPT !.missed = AtMost(@ + 1, MaxMissed + 1)]
  <2>1. heard'.age = heard.age /\ heard'.missed = AtMost(heard.missed + 1, MaxMissed + 1)
    BY <1>2, <1>7
  <2>2. heard'.missed <= 1 => heard.missed = 0 /\ heard'.missed # 0
    BY <1>2, <2>1, ClockTyped DEF AtMost, MaxMissed
  <2>3. ASSUME Elapsed, heard'.missed <= 1 PROVE Elapsed'
    <3>1. heard.age <= Waited + Cycle /\ Waited = 0 /\ Waited' = Cycle
      BY <1>1, <1>2, <2>2, <2>3, ClockTyped DEF Elapsed, Waited
    <3>2. heard'.age <= Waited' + beat'.timer
      BY <1>2, <1>7, <2>1, <3>1, ClockTyped
    <3> QED
      BY <1>3, <1>7, <3>2 DEF Elapsed
  <2>4. heard'.missed <= 1 => heard.missed <= 1
    BY <2>2
  <2> QED
    BY <1>5, <2>3, <2>4 DEF MissInv
<1> QED
  BY <1>4, <1>6, <1>7

\* A beat arrives, and the coordinator's clock starts again; the loop goes to sleep.
LEMMA ArriveMiss ==
    ASSUME MissInv, Arrive \/ Return
    PROVE  Asking' /\ (Tolerant /\ heard'.missed <= 1 => Elapsed')
<1>1. /\ beat.phase \in {"sending", "returning"} /\ UNCHANGED <<cache, probe, line, caller>>
  BY DEF Arrive, Return
<1>2. /\ TypeOK /\ caller[Loop] = "away" /\ "away" \notin Verdicts
      /\ beat \in [phase : {"sleeping", "asking", "sending", "returning"},
                   timer : 0..(BeatInterval + SendMax), ok : BOOLEAN]
  BY <1>1 DEF MissInv, IInv, TypeOK, Paced, Verdicts
<1>3. CASE Arrive
  <2>1. /\ heard'.age = 0 /\ heard'.missed = 0
        /\ beat'.phase = "returning" /\ beat'.timer = beat.timer
    BY <1>2, <1>3 DEF Arrive
  <2>2. heard'.age <= Waited' + beat'.timer
    BY <1>2, <2>1, ClockTyped DEF Waited
  <2> QED
    BY <1>1, <1>2, <2>1, <2>2 DEF Asking, Elapsed
<1>4. CASE Return
  <2>1. /\ beat.phase = "returning" /\ heard' = heard
        /\ beat'.phase = "sleeping" /\ beat'.timer = 0
    BY <1>2, <1>4 DEF Return
  <2>2. Waited' = Waited
    BY <2>1 DEF Waited
  <2>3. beat.timer <= SendMax
    BY <2>1 DEF MissInv, IInv, Paced
  <2>4. ASSUME Elapsed PROVE heard.age <= Waited + SendMax + 0
    BY <1>2, <2>1, <2>3, <2>4, ClockTyped DEF Elapsed
  <2> QED
    BY <1>1, <1>2, <2>1, <2>2, <2>4 DEF MissInv, Asking, Elapsed
<1> QED
  BY <1>3, <1>4

\* A unit of time passes for the coordinator, and for the loop too.
LEMMA TickMiss ==
    ASSUME MissInv, IInv', Tick
    PROVE  Asking' /\ (Tolerant /\ heard'.missed <= 1 => Elapsed')
<1>1. /\ ~ (line # << >> /\ probe = Idle)
      /\ ~ (beat.phase = "asking" /\ caller[Loop] \in Verdicts)
      /\ probe' = (IF probe = Idle THEN Idle ELSE probe + 1)
      /\ beat' = (IF beat.phase = "asking" THEN beat ELSE [beat EXCEPT !.timer = @ + 1])
      /\ heard' = [heard EXCEPT !.age = AtMost(@ + 1, HeartbeatTimeout + 1)]
      /\ UNCHANGED <<line, caller>>
  BY DEF Tick, Due
<1>2. /\ TypeOK /\ line \in Seq(Callers)
      /\ heard \in [ok : BOOLEAN, age : 0..(HeartbeatTimeout + 1), missed : 0..(MaxMissed + 1)]
      /\ beat \in [phase : {"sleeping", "asking", "sending", "returning"},
                   timer : 0..(BeatInterval + SendMax), ok : BOOLEAN]
  BY DEF MissInv, IInv, TypeOK
<1>3. /\ heard'.missed = heard.missed /\ heard'.age <= heard.age + 1 /\ heard'.age \in Nat
  <2>1. heard'.missed = heard.missed /\ heard'.age = AtMost(heard.age + 1, HeartbeatTimeout + 1)
    BY <1>1, <1>2
  <2> QED
    BY <1>2, <2>1, ClockTyped DEF AtMost
<1>4. beat'.phase = beat.phase /\ (beat.phase # "asking" => beat'.timer = beat.timer + 1)
  BY <1>1, <1>2
<1>5. caller[Loop] \notin Verdicts
  BY <1>1 DEF MissInv, IInv, Paced, Verdicts
<1>6. caller[Loop] = "waiting" => probe # Idle
  <2>1. ASSUME NEW k \in DOMAIN line PROVE line # << >>
    BY <1>2
  <2> QED
    BY <1>1, <2>1 DEF MissInv, Asking
<1>7. Asking'
  BY <1>1, <1>4 DEF MissInv, Asking
<1>8. Waited' = Waited
  BY <1>3 DEF Waited
<1>9. ASSUME Elapsed PROVE Elapsed'
  <2>0. /\ heard.age \in Nat /\ beat.timer \in Nat /\ SendMax \in Nat /\ BeatInterval \in Nat
        /\ Cycle \in Nat /\ Waited \in Nat /\ heard'.age \in Nat
        /\ heard'.age <= heard.age + 1
    BY <1>2, <1>3, ClockTyped
  <2>1. ASSUME beat.phase = "returning" PROVE heard'.age <= Waited + beat'.timer
    <3>1. heard.age <= Waited + beat.timer /\ beat'.timer = beat.timer + 1
      BY <1>4, <1>9, <2>1 DEF Elapsed
    <3> QED
      BY <2>0, <3>1
  <2>2. ASSUME beat.phase = "sleeping" PROVE heard'.age <= Waited + SendMax + beat'.timer
    <3>1. heard.age <= Waited + SendMax + beat.timer /\ beat'.timer = beat.timer + 1
      BY <1>4, <1>9, <2>2 DEF Elapsed
    <3> QED
      BY <2>0, <3>1
  <2>3. ASSUME beat.phase = "sending" PROVE heard'.age <= Waited + Cycle + beat'.timer
    <3>1. heard.age <= Waited + Cycle + beat.timer /\ beat'.timer = beat.timer + 1
      BY <1>4, <1>9, <2>3 DEF Elapsed
    <3> QED
      BY <2>0, <3>1
  <2>4. caller[Loop] = "waiting" =>
           probe' # Idle /\ heard'.age <= Waited + SendMax + BeatInterval + probe'
    <3> SUFFICES ASSUME caller[Loop] = "waiting"
                 PROVE  probe' # Idle /\ heard'.age <= Waited + SendMax + BeatInterval + probe'
      OBVIOUS
    <3>1. probe # Idle /\ probe' = probe + 1
      BY <1>1, <1>6
    <3>2. probe \in Nat /\ Idle = -1
      BY <1>2, <3>1, ClockTyped
    <3>3. heard.age <= Waited + SendMax + BeatInterval + probe
      BY <1>9, <3>1 DEF Elapsed
    <3> QED
      BY <2>0, <3>1, <3>2, <3>3
  <2> QED
    BY <1>1, <1>4, <1>5, <1>8, <2>1, <2>2, <2>3, <2>4 DEF Elapsed
<1> QED
  BY <1>3, <1>7, <1>9 DEF MissInv

LEMMA MissStep == MissInv /\ [Next]_vars => MissInv'
<1> SUFFICES ASSUME MissInv, [Next]_vars PROVE MissInv'
  OBVIOUS
<1>1. IInv'
  BY StepHolds DEF MissInv
<1>2. Asking' /\ (Tolerant /\ heard'.missed <= 1 => Elapsed')
  BY <1>1, OthersMiss, EnterMiss, ConcludeMiss, WakeMiss, SendMiss, ArriveMiss, TickMiss
     DEF Next
<1> QED
  BY <1>1, <1>2 DEF MissInv, Tolerant, Cycle

LEMMA MissInit == Init => MissInv
<1> SUFFICES ASSUME Init PROVE MissInv
  OBVIOUS
<1>1. IInv
  BY InitHolds
<1>2. caller[Loop] = "away" /\ beat.phase = "sleeping" /\ heard.missed = 3
  BY DEF Init, Callers, MaxMissed
<1> QED
  BY <1>1, <1>2 DEF MissInv, Asking

\* If probes are shorter than their spacing and two turns of the loop fit into the
\* timeout, the coordinator loses sight of a peer only after two lost beats in a row,
\* however many callers stand in the line with the loop.
THEOREM OneMissIsTolerated == Spec => []OneMissTolerated
<1>1. MissInv => OneMissTolerated
  <2> SUFFICES ASSUME MissInv, Tolerant, heard.age > HeartbeatTimeout, ~ (heard.missed > 1)
               PROVE  FALSE
    BY DEF OneMissTolerated, Tolerant, Cycle
  <2>0. TypeOK
    BY DEF MissInv, IInv
  <2>8. /\ heard.age \in Nat /\ heard.missed \in 0..3 /\ beat.timer \in Nat
        /\ SendMax \in Nat /\ BeatInterval \in Nat /\ ProbeMax \in Nat /\ Transit \in Nat
        /\ HeartbeatTimeout \in Nat /\ Cycle = SendMax + BeatInterval + ProbeMax
        /\ Waited \in {0, Cycle} /\ Transit <= SendMax
    BY <2>0, ClockTyped, LimitsTyped
  <2>1. heard.missed <= 1
    BY <2>8
  <2>9. Elapsed /\ Asking /\ Paced
    BY <2>1 DEF MissInv, IInv
  <2>2. 2 * Cycle + Transit <= HeartbeatTimeout
    BY DEF Tolerant
  <2>3. CASE beat.phase = "returning"
    <3>1. heard.age <= Waited + beat.timer /\ beat.timer <= SendMax
      BY <2>9, <2>3 DEF Elapsed, Paced
    <3> QED
      BY <2>8, <2>2, <3>1
  <2>4. CASE beat.phase = "sleeping"
    <3>1. heard.age <= Waited + SendMax + beat.timer /\ beat.timer <= BeatInterval
      BY <2>9, <2>4 DEF Elapsed, Paced
    <3> QED
      BY <2>8, <2>2, <3>1
  <2>5. CASE beat.phase = "sending"
    <3>1. heard.age <= Waited + Cycle + beat.timer /\ beat.timer <= Transit
      BY <2>9, <2>5 DEF Elapsed, Paced
    <3> QED
      BY <2>8, <2>2, <3>1
  <2>6. CASE beat.phase = "asking"
    <3>1. caller[Loop] = "waiting" \/ caller[Loop] \in Verdicts
      BY <2>0, <2>9, <2>6, ClockTyped DEF Asking
    <3>2. probe # Idle => probe \in 0..ProbeMax
      BY <2>0, ClockTyped
    <3>3. heard.age <= Waited + Cycle
      BY <2>8, <2>9, <3>1, <3>2 DEF Elapsed
    <3> QED
      BY <2>8, <2>2, <3>3
  <2>7. beat.phase \in {"sleeping", "asking", "sending", "returning"}
    BY <2>0 DEF TypeOK
  <2> QED
    BY <2>3, <2>4, <2>5, <2>6, <2>7
<1> QED
  BY MissInit, MissStep, <1>1, PTL DEF Spec
================================================================================
