------------------------------ MODULE Readiness ------------------------------
(***************************************************************************)
(* How a peer knows that it can serve, and how the coordinator learns it:  *)
(* Peer.ready with its two caches and its single-flight lock, the callers  *)
(* of GET /health, the heartbeat loop, and what the coordinator holds of   *)
(* the peer's last beat.                                                   *)
(*                                                                         *)
(* Ages and timers count units of time and stop at the first value past    *)
(* the limit they are compared with; an age that has stopped also stands   *)
(* for "never".  Tick waits for what is due: the peer's event loop is not  *)
(* delayed by a whole unit.                                                *)
(***************************************************************************)
EXTENDS Integers, SequencesExt

CONSTANTS
    Askers,             \* callers of GET /health
    Loop,               \* the heartbeat loop, the other caller of ready()
    Window,             \* readiness_window
    ProbeInterval,      \* probe_interval
    ProbeMax,           \* longest an inference probe takes
    BeatInterval,       \* interval of the heartbeat loop
    Transit,            \* longest a beat that arrives is under way
    SendMax,            \* timeout of send_heartbeat
    HeartbeatTimeout    \* the coordinator's heartbeat_timeout

ASSUME CallersDistinct == Loop \notin Askers
ASSUME LimitsTyped ==
    /\ Window \in Nat /\ ProbeInterval \in Nat \ {0} /\ ProbeMax \in Nat
    /\ BeatInterval \in Nat \ {0} /\ HeartbeatTimeout \in Nat
    /\ SendMax \in Nat /\ Transit \in 0..SendMax

Callers == Askers \cup {Loop}

\* Evidence that a verdict may rest on is at most this old.
Evidence == IF Window >= ProbeInterval THEN Window ELSE ProbeInterval - 1

\* How long ago the engine may have failed when the coordinator still routes.
Horizon == Evidence + Transit + HeartbeatTimeout

VARIABLES
    engine,     \* the backend can serve
    output,     \* age of the engine's latest output, for whomever (history)
    progress,   \* age of _last_progress
    cache,      \* _cached, and the age of _cached_at
    line,       \* the callers at _probe_lock; the first holds it
    probe,      \* how long the holder's probe has run, or Idle
    started,    \* age of the latest start of a probe (history)
    caller,     \* caller[c]: where c's call of ready() is, or its verdict
    beat,       \* the loop: what it does, for how long, with which verdict
    heard       \* the coordinator: age and verdict of the peer's last beat, and
                \* how many beats were lost since (history; all, before the first)

vars == <<engine, output, progress, cache, line, probe, started, caller, beat, heard>>

Idle == -1
MaxMissed == 2      \* lost beats are counted up to here, and one more

AtMost(a, b) == IF a <= b THEN a ELSE b

-----------------------------------------------------------------------------
(* Peer.ready.                                                             *)

Verdicts == {"ready", "broken"}
Verdict(ok) == IF ok THEN "ready" ELSE "broken"

Fresh == cache.age < ProbeInterval

\* ready() up to its answer or its place in the line for the lock.
Call(c) ==
    IF progress <= Window THEN caller' = [caller EXCEPT ![c] = "ready"] /\ UNCHANGED line
    ELSE IF Fresh THEN caller' = [caller EXCEPT ![c] = Verdict(cache.ok)] /\ UNCHANGED line
    ELSE caller' = [caller EXCEPT ![c] = "waiting"] /\ line' = Append(line, c)

\* GET /health.
Ask(c) ==
    /\ caller[c] = "away"
    /\ Call(c)
    /\ UNCHANGED <<engine, output, progress, cache, probe, started, beat, heard>>

Leave(c) ==
    /\ caller[c] \in Verdicts
    /\ caller' = [caller EXCEPT ![c] = "away"]
    /\ UNCHANGED <<engine, output, progress, cache, line, probe, started, beat, heard>>

\* (mutant of Enter) probes without looking again
EnterBlind ==
    /\ line # << >>
    /\ probe = Idle
    /\ probe' = 0
    /\ started' = 0
    /\ UNCHANGED <<engine, output, progress, cache, line, caller, beat, heard>>

\* The first in line has the lock.  It looks at the cache again, and starts a
\* probe if that is still stale.
Enter ==
    /\ line # << >>
    /\ probe = Idle
    /\ \/ /\ Fresh
          /\ caller' = [caller EXCEPT ![Head(line)] = Verdict(cache.ok)]
          /\ line' = Tail(line)
          /\ UNCHANGED <<probe, started>>
       \/ /\ ~ Fresh
          /\ probe' = 0
          /\ started' = 0
          /\ UNCHANGED <<caller, line>>
    /\ UNCHANGED <<engine, output, progress, cache, beat, heard>>

\* (mutant of Conclude) an engine that cannot serve passes when its port is open
ConcludeAlive ==
    /\ probe # Idle
    /\ cache' = [ok |-> TRUE, age |-> AtMost(probe, ProbeInterval)]
    /\ caller' = [caller EXCEPT ![Head(line)] = "ready"]
    /\ line' = Tail(line)
    /\ probe' = Idle
    /\ UNCHANGED <<engine, output, progress, started, beat, heard>>

\* The probe ends: it got output from the engine (an answer, or reasoning only),
\* or failed.  The result is dated with the moment at which the probe began.
Conclude ==
    /\ probe # Idle
    /\ output' = IF engine THEN 0 ELSE output
    /\ cache' = [ok |-> engine, age |-> AtMost(probe, ProbeInterval)]
    /\ caller' = [caller EXCEPT ![Head(line)] = Verdict(engine)]
    /\ line' = Tail(line)
    /\ probe' = Idle
    /\ UNCHANGED <<engine, progress, started, beat, heard>>

-----------------------------------------------------------------------------
(* The engine and its real requests.                                       *)

\* note_progress: a chunk of somebody's answer.
Serve ==
    /\ engine
    /\ output' = 0
    /\ progress' = 0
    /\ UNCHANGED <<engine, cache, line, probe, started, caller, beat, heard>>

\* The backend breaks, or comes back.
Flip ==
    /\ engine' = ~ engine
    /\ UNCHANGED <<output, progress, cache, line, probe, started, caller, beat, heard>>

-----------------------------------------------------------------------------
(* heartbeat_loop.                                                         *)

\* The interval is over: the loop asks whether the peer is ready.
Wake ==
    /\ beat.phase = "sleeping"
    /\ beat.timer = BeatInterval
    /\ beat' = [beat EXCEPT !.phase = "asking", !.timer = 0]
    /\ Call(Loop)
    /\ UNCHANGED <<engine, output, progress, cache, probe, started, heard>>

\* It has its answer, and sends it.  Whether the network will deliver the beat is
\* settled here.
Send ==
    /\ beat.phase = "asking"
    /\ caller[Loop] \in Verdicts
    /\ \/ /\ beat' = [phase |-> "sending", timer |-> 0, ok |-> caller[Loop] = "ready"]
          /\ UNCHANGED heard
       \/ /\ beat' = [phase |-> "returning", timer |-> 0, ok |-> caller[Loop] = "ready"]
          /\ heard' = [heard EXCEPT !.missed = AtMost(@ + 1, MaxMissed + 1)]
    /\ caller' = [caller EXCEPT ![Loop] = "away"]
    /\ UNCHANGED <<engine, output, progress, cache, line, probe, started>>

\* (mutant of Arrive) the coordinator keeps the last good verdict
ArriveGood ==
    /\ beat.phase = "sending"
    /\ heard' = [ok |-> heard.ok \/ beat.ok, age |-> 0, missed |-> 0]
    /\ beat' = [beat EXCEPT !.phase = "returning"]
    /\ UNCHANGED <<engine, output, progress, cache, line, probe, started, caller>>

\* The beat reaches the coordinator.  Its reply may be late, or lost.
Arrive ==
    /\ beat.phase = "sending"
    /\ heard' = [ok |-> beat.ok, age |-> 0, missed |-> 0]
    /\ beat' = [beat EXCEPT !.phase = "returning"]
    /\ UNCHANGED <<engine, output, progress, cache, line, probe, started, caller>>

\* send_heartbeat returns, with a reply or without one: the loop ignores which,
\* and sleeps.
Return ==
    /\ beat.phase = "returning"
    /\ beat' = [beat EXCEPT !.phase = "sleeping", !.timer = 0]
    /\ UNCHANGED <<engine, output, progress, cache, line, probe, started, caller, heard>>

-----------------------------------------------------------------------------
\* Something that may not wait for a unit to pass.
Due ==
    \/ line # << >> /\ probe = Idle
    \/ probe = ProbeMax
    \/ beat.phase = "sleeping" /\ beat.timer = BeatInterval
    \/ beat.phase = "asking" /\ caller[Loop] \in Verdicts
    \/ beat.phase = "sending" /\ beat.timer = Transit
    \/ beat.phase = "returning" /\ beat.timer = SendMax

Tick ==
    /\ ~ Due
    /\ output' = AtMost(output + 1, Horizon + 1)
    /\ progress' = AtMost(progress + 1, Window + 1)
    /\ cache' = [cache EXCEPT !.age = AtMost(@ + 1, ProbeInterval)]
    /\ probe' = IF probe = Idle THEN Idle ELSE probe + 1
    /\ started' = AtMost(started + 1, ProbeInterval)
    /\ beat' = IF beat.phase = "asking" THEN beat ELSE [beat EXCEPT !.timer = @ + 1]
    /\ heard' = [heard EXCEPT !.age = AtMost(@ + 1, HeartbeatTimeout + 1)]
    /\ UNCHANGED <<engine, line, caller>>

\* The loop's first beat goes out at once.
Init ==
    /\ engine \in BOOLEAN
    /\ output = Horizon + 1
    /\ progress = Window + 1
    /\ cache = [ok |-> FALSE, age |-> ProbeInterval]
    /\ line = << >>
    /\ probe = Idle
    /\ started = ProbeInterval
    /\ caller = [c \in Callers |-> "away"]
    /\ beat = [phase |-> "sleeping", timer |-> BeatInterval, ok |-> FALSE]
    /\ heard = [ok |-> FALSE, age |-> HeartbeatTimeout + 1, missed |-> MaxMissed + 1]

Next ==
    \/ \E c \in Askers : Ask(c) \/ Leave(c)
    \/ Enter \/ Conclude
    \/ Serve \/ Flip
    \/ Wake \/ Send \/ Arrive \/ Return
    \/ Tick

Spec == Init /\ [][Next]_vars

-----------------------------------------------------------------------------
(* Properties.                                                             *)

\* Every variable keeps its type.
TypeOK ==
    /\ engine \in BOOLEAN
    /\ output \in 0..(Horizon + 1)
    /\ progress \in 0..(Window + 1)
    /\ cache \in [ok : BOOLEAN, age : 0..ProbeInterval]
    /\ line \in Seq(Callers)
    /\ probe \in {Idle} \cup 0..ProbeMax
    /\ started \in 0..ProbeInterval
    /\ caller \in [Callers -> {"away", "waiting"} \cup Verdicts]
    /\ beat \in [phase : {"sleeping", "asking", "sending", "returning"},
                 timer : 0..(BeatInterval + SendMax), ok : BOOLEAN]
    /\ heard \in [ok : BOOLEAN, age : 0..(HeartbeatTimeout + 1), missed : 0..(MaxMissed + 1)]

\* Whoever is told that the peer is ready is told so on evidence: the engine
\* produced output within the readiness window or the probe interval.  That a
\* socket is open is not evidence.
ReadyOnEvidence ==
    [][\A c \in Callers :
          caller[c] # "ready" /\ caller'[c] = "ready" => output' <= Evidence]_vars

\* However many callers ask, and in whatever order, probes start at least the
\* interval apart.
ProbesAreSpaced ==
    [][probe = Idle /\ probe' # Idle => started >= ProbeInterval]_vars

\* The coordinator routes to a peer only if its engine has produced output at
\* most that long ago: a broken engine leaves the pool in bounded time, even if
\* the beats that would say so are lost.
RoutedOnEvidence ==
    heard.ok /\ heard.age <= HeartbeatTimeout => output <= Horizon

\* A lost beat does not evict a peer: once it has been heard, it stays heard
\* unless more than one beat in a row is lost.
OneMissTolerated ==
    /\ 2 * (SendMax + BeatInterval + ProbeMax) + Transit <= HeartbeatTimeout
    /\ ProbeMax < ProbeInterval
    => (heard.age > HeartbeatTimeout => heard.missed > 1)
==============================================================================
