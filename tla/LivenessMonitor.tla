--------------------------- MODULE LivenessMonitor ---------------------------
(***************************************************************************)
(* livenessMonitor of src/src/asks.ts, and the registry entry it watches:  *)
(* it fails an outgoing ask when the target is gone or has been quiet for  *)
(* too long, or when the ask is too old.                                   *)
(*                                                                         *)
(* Time is counted in units (of 5 seconds in the runs).  The interval      *)
(* timer fires on time; a tick reads the registry, which takes up to       *)
(* MaxRead.  A healthy target's entry is never older than BeatMax: two     *)
(* heartbeat delays, as the writer's throttle may hold one beat back.  A   *)
(* target may stall (alive, but no more beats) and may die.                *)
(***************************************************************************)
EXTENDS Naturals

CONSTANTS
  Interval,    \* LIVENESS_INTERVAL_MS
  Inactivity,  \* LIVENESS_INACTIVITY_MS
  Ceiling,     \* LIVENESS_HARD_CEILING_MS, cut down
  Stale,       \* STALE_THRESHOLD_MS of the registry
  BeatMax,     \* age of a healthy target's entry
  MaxRead,     \* how long a read of the registry takes
  MaxNow       \* end of time

ASSUME TimesAssumption ==
  /\ {Interval, Inactivity, Ceiling, Stale, BeatMax} \subseteq Nat \ {0}
  /\ {MaxRead, MaxNow} \subseteq Nat

\* A healthy target is listed, and a beat of it is seen within the inactivity
\* limit, however slow the read.
ASSUME HeartbeatAssumption == BeatMax <= Stale /\ BeatMax + MaxRead < Inactivity

VARIABLES
  now,
  active,        \* the monitor watches
  nextTick,      \* when the interval timer fires next
  due,           \* it has fired, its callback has not run
  reading,       \* NoTime, or when the tick in progress began
  lastActivity,  \* lastActivityAt
  lastObserved,  \* lastObservedHeartbeat
  verdict,       \* the reason onFailure was called with
  beat,          \* lastHeartbeat in the target's entry
  health,        \* of the target: "well", "stalled" or "dead"
  quietSince     \* history: when it ceased to be well

monitor == <<active, lastActivity, lastObserved, verdict>>
target  == <<beat, health, quietSince>>
vars    == <<now, nextTick, due, reading, monitor, target>>

NoTime == MaxNow + 1

\* readRegistry lists an entry whose beat is fresh and whose process lives
Listed == health # "dead" /\ now - beat <= Stale

----------------------------------------------------------------------------
\* fail(reason), and the end of the tick
FailWith(reason) ==
  /\ verdict' = reason /\ active' = FALSE
  /\ UNCHANGED <<lastActivity, lastObserved>>

\* Slip: the ask's age is not looked at
TickForever ==
  /\ due
  /\ due' = FALSE
  /\ reading' = IF ~active \/ reading # NoTime THEN reading ELSE now
  /\ UNCHANGED <<now, nextTick, monitor, target>>

\* A tick that finds the ask too old fails it; another one reads the registry.
\* A tick that finds the one before still reading is skipped.
Tick ==
  /\ due
  /\ due' = FALSE
  /\ IF ~active \/ reading # NoTime
     THEN UNCHANGED <<reading, monitor>>
     ELSE IF now >= Ceiling
          THEN FailWith("deadline_exceeded") /\ UNCHANGED reading
          ELSE reading' = now /\ UNCHANGED monitor
  /\ UNCHANGED <<now, nextTick, target>>

\* Slip: a target that is missing is not a reason to fail
JudgePatiently(t) ==
  LET activity == IF beat # lastObserved THEN t ELSE lastActivity
  IN  IF Listed /\ t >= activity + Inactivity THEN FailWith("liveness_timeout")
      ELSE /\ lastActivity' = activity /\ lastObserved' = beat
           /\ UNCHANGED <<active, verdict>>

\* Slip: only events count as activity
JudgeDeaf(t) ==
  IF ~Listed THEN FailWith("target_gone")
  ELSE IF t >= lastActivity + Inactivity THEN FailWith("liveness_timeout")
  ELSE lastObserved' = beat /\ UNCHANGED <<active, lastActivity, verdict>>

\* What the tick that began at t makes of the target's entry: a beat it has not
\* seen before is activity.
Judge(t) ==
  LET activity == IF beat # lastObserved THEN t ELSE lastActivity
  IN  IF ~Listed THEN FailWith("target_gone")
      ELSE IF t >= activity + Inactivity
           THEN /\ verdict' = "liveness_timeout" /\ active' = FALSE
                /\ lastActivity' = activity /\ lastObserved' = beat
           ELSE /\ lastActivity' = activity /\ lastObserved' = beat
                /\ UNCHANGED <<active, verdict>>

\* The registry has been read.  The monitor may have been stopped meanwhile.
ReadDone ==
  /\ reading # NoTime
  /\ reading' = NoTime
  /\ IF active THEN Judge(reading) ELSE UNCHANGED monitor
  /\ UNCHANGED <<now, nextTick, due, target>>

\* recordEvent, when an ACK or a PROGRESS arrives
Event ==
  /\ active
  /\ lastActivity' = now
  /\ UNCHANGED <<now, nextTick, due, reading, active, lastObserved, verdict, target>>

\* stop, when the ask has come to its end
Stop ==
  /\ active
  /\ active' = FALSE
  /\ UNCHANGED <<now, nextTick, due, reading, lastActivity, lastObserved, verdict, target>>

----------------------------------------------------------------------------
(* The target, and time *)

Beat ==
  /\ health = "well" /\ beat # now
  /\ beat' = now
  /\ UNCHANGED <<now, nextTick, due, reading, monitor, health, quietSince>>

Ails(how) ==
  /\ health # how /\ health # "dead"
  /\ health' = how
  /\ quietSince' = IF health = "well" THEN now ELSE quietSince
  /\ UNCHANGED <<now, nextTick, due, reading, monitor, beat>>

\* Time passes, but not past the interval timer, the end of a read, or a beat
\* of a healthy target.
Elapse ==
  /\ now < MaxNow /\ ~due
  /\ reading # NoTime => now < reading + MaxRead
  /\ health = "well" => now < beat + BeatMax
  /\ now' = now + 1
  /\ due' = (active /\ now' = nextTick)
  /\ nextTick' = IF now' = nextTick THEN nextTick + Interval ELSE nextTick
  /\ UNCHANGED <<reading, monitor, target>>

\* start(): the registry has named the target a moment ago.
Init ==
  /\ now = 0 /\ nextTick = Interval /\ due = FALSE /\ reading = NoTime
  /\ active = TRUE /\ lastActivity = 0 /\ lastObserved = NoTime /\ verdict = "none"
  /\ beat = 0 /\ health = "well" /\ quietSince = NoTime

Next ==
  \/ Tick \/ ReadDone \/ Event \/ Stop
  \/ Beat \/ Elapse \/ \E how \in {"stalled", "dead"} : Ails(how)

Spec == Init /\ [][Next]_vars

----------------------------------------------------------------------------
(* Properties *)

\* Every variable keeps to its domain.
TypeOK ==
  /\ now \in 0..MaxNow /\ due \in BOOLEAN /\ active \in BOOLEAN
  /\ nextTick \in (now + 1)..(now + Interval)
  /\ reading \in 0..now \cup {NoTime}
  /\ lastActivity \in 0..now /\ lastObserved \in 0..now \cup {NoTime}
  /\ verdict \in {"none", "deadline_exceeded", "target_gone", "liveness_timeout"}
  /\ beat \in 0..now /\ health \in {"well", "stalled", "dead"}
  /\ quietSince \in 0..now \cup {NoTime}

\* An ask is not failed under a target that has been well all the time, however
\* slow the reads of the registry and however quiet the ask, except for its age.
WellTargetIsKept ==
  verdict \in {"target_gone", "liveness_timeout"} => health # "well"

\* A target that has fallen silent is found out in time: once its entry is
\* stale, the next tick whose read begins after that fails the ask.
SilenceIsNoticed ==
  active /\ health # "well" =>
    now <= quietSince + Stale + Interval + MaxRead

\* An ask does not outlive its ceiling by more than a tick that was skipped.
CeilingHolds == active => now <= Ceiling + Interval + MaxRead
=============================================================================
