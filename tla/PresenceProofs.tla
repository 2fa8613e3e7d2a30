--------------------------- MODULE PresenceProofs ---------------------------
(***************************************************************************)
(* A session's presence, as the registry has it: the monitor that watches  *)
(* an entry (LivenessMonitor), and the writer that keeps one up to date    *)
(* (StatusWriter).  The two share no state; each theorem is about one of   *)
(* them.                                                                   *)
(*                                                                         *)
(* The monitor's verdicts come in time and never without cause, for all    *)
(* values of the intervals and limits.  Why it holds: the last tick before *)
(* now was either executed or skipped, and it was skipped only because an  *)
(* earlier one was still reading, for MaxRead at most.  So whatever a tick *)
(* would find out, the age of the ask or the absence of the target, is     *)
(* found out at most an interval and a read after it has come about.  And  *)
(* a healthy target cannot be accused: it is listed, as its entry is       *)
(* fresh, and the time of the last activity is at most a read behind the   *)
(* beat that was seen last.                                                *)
(*                                                                         *)
(* No patch is lost on its way to the disk, for any tools, names and       *)
(* numbers of writes and failures.  Why it holds: while no two writes      *)
(* overlap and none fails, the file and the entry in memory say what the   *)
(* host says, but for the patches that wait; or one write is in progress,  *)
(* which carries it, and both will say so once it is over (Carried).       *)
(***************************************************************************)
EXTENDS LivenessMonitor, StatusWriter, TLAPS

\* A read takes no longer than MaxRead, and a tick that is due is due now.
ReadsAreShort ==
  /\ reading # NoTime => now <= reading + MaxRead
  /\ due => now + Interval = nextTick

\* The next tick, if none is due; otherwise the one that is.
UpcomingTick == IF due THEN nextTick - Interval ELSE nextTick

\* While the monitor watches, no tick has yet found the ask too old: reads began
\* before the ceiling, and the tick before the upcoming one was one of them or
\* fell into one.
AgeIsWatched ==
  /\ reading # NoTime => reading < Ceiling
  /\ active => UpcomingTick < Ceiling + MaxRead + Interval

\* Nor has one found the target missing: its entry is no younger than its health,
\* and every read that is over was over while the entry was still fresh.
TargetIsWatched ==
  health # "well" =>
    /\ quietSince # NoTime /\ beat <= quietSince
    /\ active => IF reading = NoTime
                 THEN UpcomingTick <= quietSince + Stale + Interval
                 ELSE reading <= quietSince + Stale + Interval

\* A healthy target has beaten lately, and a beat that was seen is not much
\* younger than the activity it counts as.
BeatsAreSeen ==
  /\ health = "well" => now <= beat + BeatMax
  /\ lastObserved # NoTime => lastObserved <= lastActivity + MaxRead

IInv ==
  /\ TypeOK /\ ReadsAreShort /\ AgeIsWatched /\ TargetIsWatched /\ BeatsAreSeen
  /\ WellTargetIsKept

\* The constants are numbers, and the heartbeat is fast enough.
LEMMA Constants ==
  /\ Interval \in Nat /\ Interval > 0 /\ Inactivity \in Nat /\ Inactivity > 0
  /\ Ceiling \in Nat /\ Ceiling > 0 /\ Stale \in Nat /\ Stale > 0
  /\ BeatMax \in Nat /\ BeatMax > 0 /\ MaxRead \in Nat /\ MaxNow \in Nat
  /\ BeatMax <= Stale /\ BeatMax + MaxRead < Inactivity
BY TimesAssumption, HeartbeatAssumption

\* All is new and well at first.
LEMMA InitInv == Init => IInv
<1> SUFFICES ASSUME Init PROVE IInv
  OBVIOUS
<1> USE Constants DEF Init, NoTime
<1>1. TypeOK
  <2>1. nextTick \in (now + 1)..(now + Interval) /\ now \in 0..MaxNow
    OBVIOUS
  <2>2. lastActivity \in 0..now /\ beat \in 0..now
    OBVIOUS
  <2> QED BY <2>1, <2>2 DEF TypeOK
<1>2. ReadsAreShort /\ BeatsAreSeen /\ WellTargetIsKept
  BY DEF ReadsAreShort, BeatsAreSeen, WellTargetIsKept
<1>3. AgeIsWatched /\ TargetIsWatched
  BY DEF AgeIsWatched, TargetIsWatched, UpcomingTick
<1> QED BY <1>1, <1>2, <1>3 DEF IInv

\* The verdict of a read: what Judge may do, and when.
LEMMA JudgeCases ==
  ASSUME IInv, reading # NoTime, active, Judge(reading)
  PROVE  \/ /\ ~Listed /\ verdict' = "target_gone" /\ active' = FALSE
            /\ UNCHANGED <<lastActivity, lastObserved>>
         \/ /\ Listed /\ lastObserved' = beat
            /\ lastActivity' = (IF beat # lastObserved THEN reading ELSE lastActivity)
            /\ \/ /\ reading >= lastActivity' + Inactivity
                  /\ verdict' = "liveness_timeout" /\ active' = FALSE
               \/ UNCHANGED <<active, verdict>>
BY DEF Judge, FailWith

\* Every step keeps the invariant.
LEMMA StepInv ==
  ASSUME IInv, [Next]_vars
  PROVE  IInv'
<1> USE Constants DEF NoTime
<1>1. CASE Tick
  <2>1. due /\ due' = FALSE /\ UNCHANGED <<now, nextTick, target>>
    BY <1>1 DEF Tick
  <2>2. CASE ~active \/ reading # NoTime
    <3>1. UNCHANGED <<reading, monitor>>
      BY <1>1, <2>2 DEF Tick
    <3>2. TypeOK'
      BY <2>1, <2>2, <3>1 DEF IInv, TypeOK, monitor, target
    <3>3. ReadsAreShort'
      BY <2>1, <2>2, <3>1 DEF IInv, TypeOK, ReadsAreShort, monitor, target
    <3>4. AgeIsWatched'
      BY <2>1, <2>2, <3>1 DEF IInv, TypeOK, ReadsAreShort, UpcomingTick, AgeIsWatched, monitor, target
    <3>5. TargetIsWatched'
      BY <2>1, <2>2, <3>1 DEF IInv, TypeOK, ReadsAreShort, UpcomingTick, TargetIsWatched, monitor, target
    <3>6. BeatsAreSeen'
      BY <2>1, <2>2, <3>1 DEF IInv, TypeOK, BeatsAreSeen, monitor, target
    <3>7. WellTargetIsKept'
      BY <2>1, <2>2, <3>1 DEF IInv, WellTargetIsKept, monitor, target
    <3> QED BY <3>2, <3>3, <3>4, <3>5, <3>6, <3>7 DEF IInv
  <2>3. CASE active /\ reading = NoTime /\ now >= Ceiling
    <3>1. verdict' = "deadline_exceeded" /\ active' = FALSE
          /\ UNCHANGED <<lastActivity, lastObserved, reading>>
      BY <1>1, <2>3 DEF Tick, FailWith
    <3>2. TypeOK'
      BY <2>1, <2>3, <3>1 DEF IInv, TypeOK, target
    <3>3. ReadsAreShort'
      BY <2>1, <2>3, <3>1 DEF IInv, TypeOK, ReadsAreShort, target
    <3>4. AgeIsWatched'
      BY <2>1, <2>3, <3>1 DEF IInv, TypeOK, ReadsAreShort, UpcomingTick, AgeIsWatched, target
    <3>5. TargetIsWatched'
      BY <2>1, <2>3, <3>1 DEF IInv, TypeOK, ReadsAreShort, UpcomingTick, TargetIsWatched, target
    <3>6. BeatsAreSeen'
      BY <2>1, <2>3, <3>1 DEF IInv, TypeOK, BeatsAreSeen, target
    <3>7. WellTargetIsKept'
      BY <2>1, <2>3, <3>1 DEF IInv, WellTargetIsKept, target
    <3> QED BY <3>2, <3>3, <3>4, <3>5, <3>6, <3>7 DEF IInv
  <2>4. CASE active /\ reading = NoTime /\ ~(now >= Ceiling)
    <3>1. reading' = now /\ UNCHANGED monitor
      BY <1>1, <2>4 DEF Tick
    <3>2. TypeOK'
      <4>1. now \in 0..now
        BY DEF IInv, TypeOK
      <4>2. reading' \in 0..now' /\ now' = now
        BY <2>1, <3>1, <4>1
      <4> QED BY <2>1, <2>4, <3>1, <4>2 DEF IInv, TypeOK, monitor, target
    <3>3. ReadsAreShort'
      BY <2>1, <2>4, <3>1 DEF IInv, TypeOK, ReadsAreShort, monitor, target
    <3>4. AgeIsWatched'
      BY <2>1, <2>4, <3>1 DEF IInv, TypeOK, ReadsAreShort, UpcomingTick, AgeIsWatched, monitor, target
    <3>5. TargetIsWatched'
      BY <2>1, <2>4, <3>1 DEF IInv, TypeOK, ReadsAreShort, UpcomingTick, TargetIsWatched, monitor, target
    <3>6. BeatsAreSeen'
      BY <2>1, <2>4, <3>1 DEF IInv, TypeOK, BeatsAreSeen, monitor, target
    <3>7. WellTargetIsKept'
      BY <2>1, <2>4, <3>1 DEF IInv, WellTargetIsKept, monitor, target
    <3> QED BY <3>2, <3>3, <3>4, <3>5, <3>6, <3>7 DEF IInv
  <2> QED BY <2>2, <2>3, <2>4
<1>2. CASE ReadDone
  <2>1. reading # NoTime /\ reading' = NoTime /\ UNCHANGED <<now, nextTick, due, target>>
    BY <1>2 DEF ReadDone
  <2>2. CASE ~active
    <3>1. UNCHANGED monitor
      BY <1>2, <2>2 DEF ReadDone
    <3>2. TypeOK'
      BY <2>1, <2>2, <3>1 DEF IInv, TypeOK, monitor, target
    <3>3. ReadsAreShort'
      BY <2>1, <2>2, <3>1 DEF IInv, TypeOK, ReadsAreShort, monitor, target
    <3>4. AgeIsWatched'
      BY <2>1, <2>2, <3>1 DEF IInv, TypeOK, ReadsAreShort, UpcomingTick, AgeIsWatched, monitor, target
    <3>5. TargetIsWatched'
      BY <2>1, <2>2, <3>1 DEF IInv, TypeOK, ReadsAreShort, UpcomingTick, TargetIsWatched, monitor, target
    <3>6. BeatsAreSeen'
      BY <2>1, <2>2, <3>1 DEF IInv, TypeOK, BeatsAreSeen, monitor, target
    <3>7. WellTargetIsKept'
      BY <2>1, <2>2, <3>1 DEF IInv, WellTargetIsKept, monitor, target
    <3> QED BY <3>2, <3>3, <3>4, <3>5, <3>6, <3>7 DEF IInv
  <2>3. CASE active /\ ~Listed
    <3>1. verdict' = "target_gone" /\ active' = FALSE /\ UNCHANGED <<lastActivity, lastObserved>>
      BY <1>2, <2>1, <2>3, JudgeCases DEF ReadDone
    <3>2. health # "well"
      BY <2>3 DEF Listed, IInv, TypeOK, BeatsAreSeen
    <3>3. TypeOK'
      BY <2>1, <2>3, <3>1, <3>2 DEF IInv, TypeOK, target
    <3>4. ReadsAreShort'
      BY <2>1, <2>3, <3>1, <3>2 DEF IInv, TypeOK, ReadsAreShort, target
    <3>5. AgeIsWatched'
      BY <2>1, <2>3, <3>1, <3>2 DEF IInv, TypeOK, ReadsAreShort, UpcomingTick, AgeIsWatched, target
    <3>6. TargetIsWatched'
      BY <2>1, <2>3, <3>1, <3>2 DEF IInv, TypeOK, ReadsAreShort, UpcomingTick, TargetIsWatched, target
    <3>7. BeatsAreSeen'
      BY <2>1, <2>3, <3>1, <3>2 DEF IInv, TypeOK, BeatsAreSeen, target
    <3>8. WellTargetIsKept'
      BY <2>1, <2>3, <3>1, <3>2 DEF IInv, WellTargetIsKept, target
    <3> QED BY <3>3, <3>4, <3>5, <3>6, <3>7, <3>8 DEF IInv
  <2>4. CASE active /\ Listed
    <3>1. /\ lastObserved' = beat
          /\ lastActivity' = (IF beat # lastObserved THEN reading ELSE lastActivity)
          /\ \/ /\ reading >= lastActivity' + Inactivity
                /\ verdict' = "liveness_timeout" /\ active' = FALSE
             \/ UNCHANGED <<active, verdict>>
      BY <1>2, <2>1, <2>4, JudgeCases DEF ReadDone
    <3>2. lastActivity' \in 0..now /\ beat <= lastActivity' + MaxRead
      BY <2>1, <3>1 DEF IInv, TypeOK, ReadsAreShort, BeatsAreSeen
    <3>3. reading >= lastActivity' + Inactivity => health # "well"
      <4>1. reading \in Nat /\ reading <= now /\ now \in Nat /\ beat \in Nat
        BY <2>1 DEF IInv, TypeOK
      <4>2. health = "well" => now <= beat + BeatMax
        BY DEF IInv, BeatsAreSeen
      <4>3. lastActivity' \in Nat
        BY <3>2, <4>1
      <4>4. SUFFICES ASSUME health = "well" PROVE ~(reading >= lastActivity' + Inactivity)
        OBVIOUS
      <4>5. now <= beat + BeatMax
        BY <4>2, <4>4
      <4>6. PICK a \in Nat : a = lastActivity'
        BY <4>3
      <4>7. beat <= a + MaxRead
        BY <3>2, <4>6
      <4>8. ~(reading >= a + Inactivity)
        BY <4>1, <4>5, <4>7
      <4> QED BY <4>6, <4>8
    <3>4. health # "well" => now <= quietSince + Stale
      BY <2>4 DEF Listed, IInv, TypeOK, TargetIsWatched
    <3>5. TypeOK' /\ BeatsAreSeen' /\ WellTargetIsKept'
      BY <2>1, <3>1, <3>2, <3>3 DEF IInv, TypeOK, BeatsAreSeen, WellTargetIsKept, target
    <3>6. ReadsAreShort' /\ AgeIsWatched'
      BY <2>1, <2>4, <3>1 DEF IInv, ReadsAreShort, UpcomingTick, AgeIsWatched
    <3>7. TargetIsWatched'
      BY <2>1, <2>4, <3>1, <3>4 DEF IInv, TypeOK, ReadsAreShort, UpcomingTick, TargetIsWatched, target
    <3> QED BY <3>5, <3>6, <3>7 DEF IInv
  <2> QED BY <2>2, <2>3, <2>4
<1>3. CASE Event \/ Stop
  <2>1. /\ UNCHANGED <<now, nextTick, due, reading, lastObserved, verdict, target>>
        /\ lastActivity' \in {now, lastActivity} /\ active' \in BOOLEAN /\ (active' => active)
    BY <1>3 DEF Event, Stop, IInv, TypeOK
  <2>2. TypeOK'
    BY <2>1 DEF IInv, TypeOK, target
  <2>3. ReadsAreShort'
    BY <2>1 DEF IInv, TypeOK, ReadsAreShort, target
  <2>4. AgeIsWatched'
    BY <2>1 DEF IInv, TypeOK, ReadsAreShort, UpcomingTick, AgeIsWatched, target
  <2>5. TargetIsWatched'
    BY <2>1 DEF IInv, TypeOK, ReadsAreShort, UpcomingTick, TargetIsWatched, target
  <2>6. BeatsAreSeen'
    <3>1. lastObserved # NoTime => lastObserved \in Nat /\ lastObserved <= now
      BY DEF IInv, TypeOK
    <3>2. now \in Nat /\ lastActivity \in Nat
      BY DEF IInv, TypeOK
    <3>3. CASE lastActivity' = now
      BY <2>1, <3>1, <3>2, <3>3 DEF IInv, BeatsAreSeen, target
    <3>4. CASE lastActivity' = lastActivity
      BY <2>1, <3>4 DEF IInv, BeatsAreSeen, target
    <3> QED BY <2>1, <3>3, <3>4
  <2>7. WellTargetIsKept'
    BY <2>1 DEF IInv, WellTargetIsKept, target
  <2> QED BY <2>2, <2>3, <2>4, <2>5, <2>6, <2>7 DEF IInv
<1>4. CASE Beat
  <2>1. /\ health = "well" /\ beat' = now
        /\ UNCHANGED <<now, nextTick, due, reading, monitor, health, quietSince>>
    BY <1>4 DEF Beat
  <2>2. TypeOK'
    BY <2>1 DEF IInv, TypeOK, monitor
  <2>3. ReadsAreShort'
    BY <2>1 DEF IInv, TypeOK, ReadsAreShort, monitor
  <2>4. AgeIsWatched'
    BY <2>1 DEF IInv, TypeOK, ReadsAreShort, UpcomingTick, AgeIsWatched, monitor
  <2>5. TargetIsWatched'
    BY <2>1 DEF IInv, TypeOK, ReadsAreShort, UpcomingTick, TargetIsWatched, monitor
  <2>6. BeatsAreSeen'
    BY <2>1 DEF IInv, TypeOK, BeatsAreSeen, monitor
  <2>7. WellTargetIsKept'
    BY <2>1 DEF IInv, WellTargetIsKept, monitor
  <2> QED BY <2>2, <2>3, <2>4, <2>5, <2>6, <2>7 DEF IInv
<1>5. CASE \E how \in {"stalled", "dead"} : Ails(how)
  <2>1. /\ health # "dead" /\ health' \in {"stalled", "dead"}
        /\ quietSince' = (IF health = "well" THEN now ELSE quietSince)
        /\ UNCHANGED <<now, nextTick, due, reading, monitor, beat>>
    BY <1>5 DEF Ails
  <2>2. TypeOK' /\ ReadsAreShort' /\ AgeIsWatched' /\ BeatsAreSeen' /\ WellTargetIsKept'
    BY <2>1 DEF IInv, TypeOK, ReadsAreShort, UpcomingTick, AgeIsWatched, BeatsAreSeen,
                WellTargetIsKept, monitor
  <2>3. UpcomingTick' = UpcomingTick
    BY <2>1 DEF UpcomingTick
  <2>4. TargetIsWatched'
    <3>1. CASE health = "well"
      <4>1. quietSince' = now /\ now \in Nat /\ now < NoTime /\ beat <= now
        BY <2>1, <3>1 DEF IInv, TypeOK
      <4>2. UpcomingTick <= now + Interval
        BY DEF IInv, TypeOK, ReadsAreShort, UpcomingTick
      <4>3. reading # NoTime => reading \in Nat /\ reading <= now
        BY DEF IInv, TypeOK
      <4>4. UpcomingTick \in Nat
        BY DEF IInv, TypeOK, ReadsAreShort, UpcomingTick
      <4>5. UpcomingTick' <= quietSince' + Stale + Interval
        BY <2>3, <4>1, <4>2, <4>4
      <4>6. reading' # NoTime => reading' <= quietSince' + Stale + Interval
        BY <2>1, <4>1, <4>3
      <4>7. quietSince' # NoTime /\ beat' <= quietSince'
        <5>1. beat' = beat
          BY <2>1
        <5>2. now # NoTime
          BY <4>1
        <5> QED BY <4>1, <5>1, <5>2
      <4> QED BY <4>5, <4>6, <4>7, Zenon DEF TargetIsWatched
    <3>2. CASE health # "well"
      BY <2>1, <2>3, <3>2 DEF IInv, TargetIsWatched, monitor
    <3> QED BY <3>1, <3>2
  <2> QED BY <2>2, <2>4 DEF IInv
<1>6. CASE Elapse
  <2>1. /\ now < MaxNow /\ ~due /\ (reading # NoTime => now < reading + MaxRead)
        /\ (health = "well" => now < beat + BeatMax)
        /\ now' = now + 1 /\ due' = (active /\ now' = nextTick)
        /\ nextTick' = (IF now' = nextTick THEN nextTick + Interval ELSE nextTick)
        /\ UNCHANGED <<reading, monitor, target>>
    BY <1>6 DEF Elapse
  <2>2. TypeOK' /\ ReadsAreShort' /\ BeatsAreSeen' /\ WellTargetIsKept'
    BY <2>1 DEF IInv, TypeOK, ReadsAreShort, BeatsAreSeen, WellTargetIsKept, monitor, target
  <2>3. active => UpcomingTick' = UpcomingTick
    <3>1. nextTick \in Nat /\ now \in Nat
      BY DEF IInv, TypeOK
    <3>2. CASE active /\ now' = nextTick
      <4>1. due' /\ ~due
        BY <2>1, <3>2, Zenon
      <4>2. nextTick' = nextTick + Interval
        BY <2>1, <3>2
      <4> QED BY <3>1, <4>1, <4>2 DEF UpcomingTick
    <3>3. CASE now' # nextTick
      <4>1. ~due' /\ ~due
        BY <2>1, <3>3, Zenon
      <4>2. nextTick' = nextTick
        BY <2>1, <3>3
      <4> QED BY <4>1, <4>2 DEF UpcomingTick
    <3> QED BY <3>2, <3>3
  <2>4. AgeIsWatched' /\ TargetIsWatched'
    BY <2>1, <2>3 DEF IInv, AgeIsWatched, TargetIsWatched, monitor, target
  <2> QED BY <2>2, <2>4 DEF IInv
<1>7. CASE UNCHANGED vars
  BY <1>7 DEF vars, monitor, target, IInv, TypeOK, ReadsAreShort, UpcomingTick, AgeIsWatched,
              TargetIsWatched, BeatsAreSeen, WellTargetIsKept
<1> QED
  BY <1>1, <1>2, <1>3, <1>4, <1>5, <1>6, <1>7 DEF Next

\* What the invariant says at any time.
LEMMA InvInTime == IInv => SilenceIsNoticed /\ CeilingHolds
<1> SUFFICES ASSUME IInv PROVE SilenceIsNoticed /\ CeilingHolds
  OBVIOUS
<1> USE Constants DEF NoTime
<1>1. now <= UpcomingTick
  BY DEF IInv, TypeOK, ReadsAreShort, UpcomingTick
<1>2. UpcomingTick \in Nat
  BY DEF IInv, TypeOK, ReadsAreShort, UpcomingTick
<1>3. CeilingHolds
  BY <1>1, <1>2 DEF CeilingHolds, IInv, TypeOK, AgeIsWatched
<1>4. SilenceIsNoticed
  BY <1>1, <1>2 DEF SilenceIsNoticed, IInv, TypeOK, ReadsAreShort, TargetIsWatched
<1> QED BY <1>3, <1>4

\* The invariant holds in every state.
LEMMA InvHolds == Spec => []IInv
BY InitInv, StepInv, PTL DEF Spec

\* A target that has been well all the time is never accused, neither of being
\* gone nor of being inactive.
THEOREM WellTargetsAreKept == Spec => []WellTargetIsKept
<1>1. IInv => WellTargetIsKept
  BY DEF IInv
<1> QED BY <1>1, InvHolds, PTL

\* A target that has fallen silent is found out within its staleness, an interval
\* and a read.
THEOREM SilenceIsFound == Spec => []SilenceIsNoticed
<1>1. IInv => SilenceIsNoticed
  BY InvInTime
<1> QED BY <1>1, InvHolds, PTL

\* The ceiling fires, regardless of activity, an interval and a read late at most.
THEOREM CeilingFires == Spec => []CeilingHolds
<1>1. IInv => CeilingHolds
  BY InvInTime
<1> QED BY <1>1, InvHolds, PTL

----------------------------------------------------------------------------
(* The status writer *)

\* While nothing overlapped and nothing failed, either the file and the entry in
\* memory both say what the host says, but for the patches that wait ...
UpToDate ==
  /\ Patched(disk, pending) = host /\ Patched(entry, pending) = host
  /\ entry.state = host.state
\* ... or a write is in progress, of the whole entry, that carries what it says.
InTransit(c) ==
  /\ Patched(c.merged, pending) = host /\ "state" \notin DOMAIN pending
  /\ Patched(c.merged, c.after) = c.merged
  /\ c.landed => disk = c.merged
\* One of the two is so.
Carried ==
  clean /\ failures = 0 /\ phase # "closed" =>
    \/ calls = <<>> /\ UpToDate
    \/ \E c \in Call : calls = <<c>> /\ InTransit(c)

\* Before its end a session has a process and a file.
Present == phase # "closed" => alive /\ disk # Absent

WInv == WriterTypeOK /\ Carried /\ Present

----------------------------------------------------------------------------
\* A patched entry is one; a patch without a state leaves the state alone.
LEMMA EntryPatched ==
  ASSUME NEW e \in Entry, NEW p \in Patch
  PROVE  /\ Patched(e, p) \in Entry
         /\ "state" \notin DOMAIN p => Patched(e, p).state = e.state
  BY DEF Entry, Patch, Patched, Field

\* A patched patch is one, with the fields of both.
LEMMA PatchPatched ==
  ASSUME NEW q \in Patch, NEW p \in Patch
  PROVE  Patched(q, p) \in Patch /\ DOMAIN Patched(q, p) = DOMAIN q \cup DOMAIN p
  BY DEF Patch, Patched, Field

\* Patches that wait are applied one by one.
LEMMA PatchedTwice ==
  ASSUME NEW e \in Entry, NEW q \in Patch, NEW p \in Patch
  PROVE  Patched(e, Patched(q, p)) = Patched(Patched(e, q), p)
  BY DEF Entry, Patch, Patched, Field

\* An event patches the entry in memory and the waiting patches alike.
LEMMA PatchedBoth ==
  ASSUME NEW e \in Entry, NEW q \in Patch, NEW p \in Patch
  PROVE  Patched(Patched(e, p), Patched(q, p)) = Patched(Patched(e, q), p)
  BY DEF Entry, Patch, Patched, Field

\* A patch that is applied again changes nothing, nor does none.
LEMMA PatchedAgain ==
  ASSUME NEW e \in Entry, NEW p \in Patch
  PROVE  /\ Patched(Patched(e, p), p) = Patched(e, p)
         /\ Patched(e, NoPatch) = e
  BY DEF Entry, Patch, Patched, Field, NoPatch

\* Entries of one state have one state after the same patch.
LEMMA SameState ==
  ASSUME NEW e \in Entry, NEW h \in Entry, NEW p \in Patch, e.state = h.state
  PROVE  Patched(e, p).state = Patched(h, p).state
  BY DEF Entry, Patch, Patched, Field

\* The heartbeat's patch changes nothing.
LEMMA StatePatch ==
  ASSUME NEW h \in Entry
  PROVE  Patched(h, [state |-> h.state]) = h
  BY DEF Entry, Patched

\* The methods' patches are patches.
LEMMA PatchesTyped ==
  /\ NoPatch \in Patch
  /\ \A v \in {"idle", "running"} : [state |-> v] \in Patch
  /\ [state |-> "idle", tool |-> None] \in Patch
  /\ \A t \in Tools \cup {None} : [tool |-> t] \in Patch
  /\ \A n \in Names : [name |-> n] \in Patch
<1> DEFINE Value == {"idle", "running", None} \cup Tools \cup Names
<1>0. ASSUME NEW F \in SUBSET Field, NEW p \in [F -> Value],
             "state" \in F => p.state \in {"idle", "running"},
             "tool" \in F => p.tool \in Tools \cup {None},
             "name" \in F => p.name \in Names
      PROVE  p \in Patch
  BY <1>0 DEF Patch
<1>1. NoPatch \in Patch
  <2>1. NoPatch \in [{} -> Value]
    BY DEF NoPatch
  <2> QED BY <2>1, <1>0
<1>2. ASSUME NEW v \in {"idle", "running"} PROVE [state |-> v] \in Patch
  <2>1. [state |-> v] \in [{"state"} -> Value]
    OBVIOUS
  <2> QED BY <2>1, <1>0 DEF Field
<1>3. [state |-> "idle", tool |-> None] \in Patch
  <2>1. [state |-> "idle", tool |-> None] \in [{"state", "tool"} -> Value]
    OBVIOUS
  <2> QED BY <2>1, <1>0 DEF Field
<1>4. ASSUME NEW t \in Tools \cup {None} PROVE [tool |-> t] \in Patch
  <2>1. [tool |-> t] \in [{"tool"} -> Value]
    OBVIOUS
  <2> QED BY <2>1, <1>0 DEF Field
<1>5. ASSUME NEW n \in Names PROVE [name |-> n] \in Patch
  <2>1. [name |-> n] \in [{"name"} -> Value]
    OBVIOUS
  <2> QED BY <2>1, <1>0 DEF Field
<1> QED BY <1>1, <1>2, <1>3, <1>4, <1>5

----------------------------------------------------------------------------
\* A dispatch, throttled or not, keeps the domains.
LEMMA DispatchTyped ==
  ASSUME WriterTypeOK, NEW patch \in Patch, NEW after \in Patch,
         NEW isTransition \in BOOLEAN, Dispatch(patch, after, isTransition)
  PROVE  /\ entry' \in Entry /\ pending' \in Patch
         /\ throttled' \in BOOLEAN /\ clean' \in BOOLEAN
         /\ calls' \in Seq(Call) /\ Len(calls') <= MaxCalls
<1>1. CASE Throttle(patch, after)
  <2>1. Patched(entry, after) \in Entry
    BY EntryPatched DEF WriterTypeOK
  <2>2. Patched(pending, patch) \in Patch
    BY PatchPatched DEF WriterTypeOK
  <2> QED BY <1>1, <2>1, <2>2 DEF Throttle, WriterTypeOK
<1>2. CASE Write(patch, after)
  <2> DEFINE c == [merged |-> Patched(Patched(entry, pending), patch),
                   after |-> after, landed |-> FALSE]
  <2>1. Patched(entry, pending) \in Entry
    BY EntryPatched DEF WriterTypeOK
  <2>2. c \in Call
    BY <2>1, EntryPatched DEF Call
  <2>3. calls' = Append(calls, c)
    BY <1>2 DEF Write
  <2>4. calls' \in Seq(Call) /\ Len(calls') = Len(calls) + 1
    <3> HIDE DEF c
    <3> QED BY <2>2, <2>3 DEF WriterTypeOK
  <2>5. Len(calls') <= MaxCalls
    BY StatusBounds, <1>2, <2>4 DEF Write, WriterTypeOK
  <2> QED BY <1>2, <2>4, <2>5, PatchesTyped DEF Write, WriterTypeOK
<1> QED BY <1>1, <1>2 DEF Dispatch

\* So does an event of the host.
LEMMA EventTyped ==
  ASSUME WriterTypeOK, NEW patch \in Patch, NEW isTransition \in BOOLEAN,
         HostEvent(patch, isTransition)
  PROVE  WriterTypeOK'
<1>1. host' \in Entry
  BY EntryPatched DEF HostEvent, WriterTypeOK
<1>2. Dispatch(patch, patch, isTransition)
  BY DEF HostEvent
<1> QED BY <1>1, <1>2, DispatchTyped DEF HostEvent, WriterTypeOK

\* An event: the throttled patch waits, and a write carries it.
LEMMA EventCarried ==
  ASSUME WInv, NEW patch \in Patch, NEW isTransition \in BOOLEAN,
         HostEvent(patch, isTransition)
  PROVE  Carried'
<1> SUFFICES ASSUME clean', failures' = 0, phase' # "closed"
             PROVE  \/ calls' = <<>> /\ UpToDate'
                    \/ \E c \in Call : calls' = <<c>> /\ InTransit(c)'
  BY DEF Carried
<1>1. /\ host \in Entry /\ entry \in Entry /\ disk \in Entry /\ pending \in Patch
      /\ host' = Patched(host, patch) /\ disk' = disk
      /\ failures = 0 /\ phase # "closed"
  BY DEF WInv, WriterTypeOK, Present, HostEvent
<1>2. CASE Throttle(patch, patch)
  <2>1. /\ pending' = Patched(pending, patch) /\ entry' = Patched(entry, patch)
        /\ calls' = calls /\ clean /\ ("state" \in DOMAIN patch => calls = <<>>)
    BY <1>2 DEF Throttle
  <2>2. CASE calls = <<>> /\ UpToDate
    <3>1. Patched(disk', pending') = host'
      BY <1>1, <2>1, <2>2, PatchedTwice DEF UpToDate
    <3>2. Patched(entry', pending') = host'
      BY <1>1, <2>1, <2>2, PatchedBoth DEF UpToDate
    <3>3. entry'.state = host'.state
      BY <1>1, <2>1, <2>2, SameState DEF UpToDate
    <3> QED BY <2>1, <2>2, <3>1, <3>2, <3>3 DEF UpToDate
  <2>3. ASSUME NEW c \in Call, calls = <<c>>, InTransit(c)
        PROVE  calls' = <<c>> /\ InTransit(c)'
    <3>1. "state" \notin DOMAIN pending'
      BY <1>1, <2>1, <2>3, PatchPatched DEF InTransit
    <3>2. Patched(c.merged, pending') = host'
      <4>1. c.merged \in Entry
        BY DEF Call
      <4> QED BY <1>1, <2>1, <2>3, <4>1, PatchedTwice DEF InTransit
    <3> QED BY <1>1, <2>1, <2>3, <3>1, <3>2 DEF InTransit
  <2> QED BY <1>1, <2>1, <2>2, <2>3 DEF WInv, Carried
<1>3. CASE Write(patch, patch)
  <2> DEFINE c == [merged |-> Patched(Patched(entry, pending), patch),
                   after |-> patch, landed |-> FALSE]
  <2>1. calls = <<>> /\ clean /\ pending' = NoPatch
    BY <1>3 DEF Write
  <2>2. UpToDate
    BY <1>1, <2>1 DEF WInv, Carried
  <2>3. c.merged = host' /\ c.after = patch /\ c.landed = FALSE
    BY <1>1, <2>2 DEF UpToDate
  <2>4. c \in Call
    BY <1>1, <2>3, EntryPatched DEF Call
  <2>5. calls' = <<c>>
    BY <1>3, <2>1 DEF Write
  <2> HIDE DEF c
  <2>6. Patched(c.merged, pending') = host' /\ "state" \notin DOMAIN pending'
    BY <1>1, <2>1, <2>3, EntryPatched, PatchedAgain DEF NoPatch
  <2>7. Patched(c.merged, c.after) = c.merged
    BY <1>1, <2>3, PatchedAgain
  <2> QED BY <2>3, <2>4, <2>5, <2>6, <2>7 DEF InTransit
<1> QED BY <1>2, <1>3 DEF HostEvent, Dispatch

\* A heartbeat says nothing new.
LEMMA HeartbeatCarried ==
  ASSUME WInv, heartbeat
  PROVE  Carried'
<1> DEFINE patch == [state |-> entry.state]
<1> SUFFICES ASSUME clean', failures' = 0, phase' # "closed"
             PROVE  \/ calls' = <<>> /\ UpToDate'
                    \/ \E c \in Call : calls' = <<c>> /\ InTransit(c)'
  BY DEF Carried
<1>1. /\ host \in Entry /\ entry \in Entry /\ disk \in Entry /\ pending \in Patch
      /\ host' = host /\ disk' = disk /\ failures = 0 /\ phase # "closed"
  BY DEF WInv, WriterTypeOK, Present, heartbeat
<1>2. patch \in Patch /\ "state" \in DOMAIN patch
  BY <1>1, PatchesTyped DEF Entry
<1>3. Throttle(patch, NoPatch) \/ Write(patch, NoPatch)
  BY DEF heartbeat, Dispatch
<1>4. calls = <<>> /\ clean
  BY <1>2, <1>3 DEF Throttle, Write
<1>5. UpToDate
  BY <1>1, <1>4 DEF WInv, Carried
<1>6. Patched(host, patch) = host
  BY <1>1, <1>5, StatePatch DEF UpToDate
<1> HIDE DEF patch
<1>7. CASE Throttle(patch, NoPatch)
  <2>1. pending' = Patched(pending, patch) /\ entry' = entry /\ calls' = calls
    BY <1>1, <1>7, PatchedAgain DEF Throttle
  <2>2. Patched(disk', pending') = host'
    BY <1>1, <1>2, <1>5, <1>6, <2>1, PatchedTwice DEF UpToDate
  <2>3. Patched(entry', pending') = host'
    BY <1>1, <1>2, <1>5, <1>6, <2>1, PatchedTwice DEF UpToDate
  <2> QED BY <1>1, <1>4, <1>5, <2>1, <2>2, <2>3 DEF UpToDate
<1>8. CASE Write(patch, NoPatch)
  <2> DEFINE c == [merged |-> Patched(Patched(entry, pending), patch),
                   after |-> NoPatch, landed |-> FALSE]
  <2>1. c.merged = host' /\ c.after = NoPatch /\ c.landed = FALSE
    BY <1>1, <1>5, <1>6 DEF UpToDate
  <2>2. c \in Call
    BY <1>1, <2>1, PatchesTyped DEF Call
  <2>3. calls' = <<c>> /\ pending' = NoPatch
    BY <1>4, <1>8 DEF Write
  <2> HIDE DEF c
  <2>4. Patched(c.merged, NoPatch) = c.merged /\ "state" \notin DOMAIN NoPatch
    BY <1>1, <2>1, PatchesTyped, PatchedAgain DEF NoPatch
  <2> QED BY <2>1, <2>2, <2>3, <2>4 DEF InTransit
<1> QED BY <1>3, <1>7, <1>8

\* The one write in progress lands: it says what the host says.
LEMMA LandsKeeps ==
  ASSUME WInv, NEW i \in 1..Len(calls), Lands(i)
  PROVE  WInv'
<1>1. calls[i] \in Call /\ calls \in Seq(Call)
  BY DEF WInv, WriterTypeOK
<1>2. [calls[i] EXCEPT !.landed = TRUE] \in Call /\ calls[i].merged \in Entry
  BY <1>1 DEF Call
<1>3. calls' \in Seq(Call) /\ Len(calls') = Len(calls)
  BY <1>1, <1>2 DEF Lands
<1>4. disk' \in Entry \cup {Absent} /\ fresh' \in BOOLEAN
  BY <1>2 DEF Lands, WInv, WriterTypeOK
<1>8. failures \in Nat /\ failures' \in 0..MaxFailures
  BY StatusBounds DEF Lands, WInv, WriterTypeOK
<1>5. WriterTypeOK'
  BY <1>3, <1>4, <1>8 DEF Lands, WInv, WriterTypeOK
<1>6. Present'
  BY <1>2 DEF Lands, Present, WInv, Entry, Absent
<1>7. Carried'
  <2> SUFFICES ASSUME clean', failures' = 0, phase' # "closed"
               PROVE  \E c \in Call : calls' = <<c>> /\ InTransit(c)'
    BY DEF Carried
  <2>1. failures = 0 /\ failures' # failures + 1
    BY <1>8 DEF Lands
  <2>2. disk' = calls[i].merged
    BY <2>1 DEF Lands
  <2>3. calls # <<>>
    BY <1>1
  <2>4. PICK c \in Call : calls = <<c>> /\ InTransit(c)
    BY <2>1, <2>3 DEF Lands, WInv, Carried
  <2>0. i = 1
    BY <2>4
  <2>5. calls' = <<[c EXCEPT !.landed = TRUE]>>
    <3>1. calls' = [calls EXCEPT ![1] = [calls[1] EXCEPT !.landed = TRUE]]
      BY <2>0 DEF Lands
    <3>2. calls[1] = c /\ Len(calls') = 1
      BY <1>1, <1>3, <2>4
    <3>3. calls'[1] = [c EXCEPT !.landed = TRUE]
      BY <1>1, <2>4, <3>1, <3>2
    <3> QED BY <1>3, <3>2, <3>3
  <2> DEFINE d == [c EXCEPT !.landed = TRUE]
  <2>6. d \in Call /\ d.merged = c.merged /\ d.after = c.after
    BY DEF Call
  <2>7. InTransit(d)'
    BY <2>2, <2>4, <2>6 DEF InTransit, Lands
  <2> QED BY <2>5, <2>6, <2>7
<1> QED BY <1>5, <1>6, <1>7 DEF WInv

\* The rest of a sequence.
LEMMA Removed ==
  ASSUME NEW T, NEW q \in Seq(T), NEW i \in 1..Len(q)
  PROVE  RemoveAt(q, i) \in Seq(T) /\ Len(RemoveAt(q, i)) = Len(q) - 1
<1>1. Len(q) \in Nat /\ i \in Nat /\ 1 <= i /\ i <= Len(q)
  OBVIOUS
<1> DEFINE before == SubSeq(q, 1, i - 1)
           behind == SubSeq(q, i + 1, Len(q))
<1>2. before \in Seq(T) /\ Len(before) = i - 1
  BY <1>1
<1>3. behind \in Seq(T) /\ Len(behind) = Len(q) - i
  BY <1>1
<1> HIDE DEF before, behind
<1>4. before \o behind \in Seq(T) /\ Len(before \o behind) = Len(before) + Len(behind)
  BY <1>2, <1>3
<1>5. Len(before \o behind) = Len(q) - 1
  BY <1>1, <1>2, <1>3, <1>4
<1> QED BY <1>4, <1>5 DEF RemoveAt, before, behind

\* It is continued: the entry in memory takes over what it wrote.
LEMMA ContinuesKeeps ==
  ASSUME WInv, NEW i \in 1..Len(calls), Continues(i)
  PROVE  WInv'
<1>1. calls[i] \in Call /\ calls \in Seq(Call)
  BY DEF WInv, WriterTypeOK
<1>2. calls[i].merged \in Entry /\ calls[i].after \in Patch
  BY <1>1 DEF Call
<1>3. entry' \in Entry
  BY <1>2, EntryPatched DEF Continues
<1>4. calls' \in Seq(Call) /\ Len(calls') = Len(calls) - 1
  BY <1>1, Removed DEF Continues
<1>5. Len(calls') <= MaxCalls
  BY StatusBounds, <1>1, <1>4 DEF WInv, WriterTypeOK
<1>6. WriterTypeOK'
  BY <1>3, <1>4, <1>5 DEF Continues, WInv, WriterTypeOK
<1>7. Present'
  BY DEF Continues, WInv, Present
<1>8. Carried'
  <2> SUFFICES ASSUME clean', failures' = 0, phase' # "closed"
               PROVE  calls' = <<>> /\ UpToDate'
    BY DEF Carried
  <2>1. calls # <<>>
    BY <1>1
  <2>2. PICK c \in Call : calls = <<c>> /\ InTransit(c)
    BY <2>1 DEF Continues, WInv, Carried
  <2>3. i = 1 /\ calls' = <<>>
    BY <1>4, <2>2 
  <2>4. entry' = c.merged /\ disk' = c.merged /\ c.merged \in Entry
    BY <1>2, <2>2, <2>3 DEF Continues, InTransit
  <2>5. entry'.state = host'.state
    <3>1. Patched(c.merged, pending).state = c.merged.state
      BY <2>2, <2>4, EntryPatched DEF InTransit, WInv, WriterTypeOK
    <3> QED BY <2>2, <2>4, <3>1 DEF InTransit, Continues
  <2> QED BY <2>2, <2>3, <2>4, <2>5 DEF UpToDate, InTransit, Continues
<1> QED BY <1>6, <1>7, <1>8 DEF WInv

----------------------------------------------------------------------------
\* The file, the entry and the host agree at first.
LEMMA InitWInv == WriterInit => WInv
<1> SUFFICES ASSUME WriterInit PROVE WInv
  OBVIOUS
<1>1. host \in Entry /\ host # Absent
  BY DEF WriterInit, Entry, Absent
<1>2. calls \in Seq(Call) /\ Len(calls) <= MaxCalls /\ failures \in 0..MaxFailures
  BY StatusBounds DEF WriterInit
<1>3. WriterTypeOK
  BY <1>1, <1>2, PatchesTyped DEF WriterInit, WriterTypeOK
<1>4. UpToDate
  BY <1>1, PatchesTyped, PatchedAgain DEF WriterInit, UpToDate
<1> QED BY <1>1, <1>3, <1>4 DEF WriterInit, WInv, Carried, Present

\* An event of the host keeps the invariant.
LEMMA EventKeeps ==
  ASSUME WInv, NEW patch \in Patch, NEW isTransition \in BOOLEAN,
         HostEvent(patch, isTransition)
  PROVE  WInv'
<1>1. WriterTypeOK'
  BY EventTyped DEF WInv
<1>2. Carried'
  BY EventCarried
<1>3. Present'
  BY DEF HostEvent, WInv, Present
<1> QED BY <1>1, <1>2, <1>3 DEF WInv

\* Every step keeps it.
LEMMA NextWInv == WInv /\ [WriterNext]_writerVars => WInv'
<1> SUFFICES ASSUME WInv, [WriterNext]_writerVars PROVE WInv'
  OBVIOUS
<1>1. CASE agentStart
  BY <1>1, EventKeeps, PatchesTyped DEF agentStart
<1>2. CASE agentSettled
  BY <1>2, EventKeeps, PatchesTyped DEF agentSettled
<1>3. CASE toolEnd
  BY <1>3, EventKeeps, PatchesTyped DEF toolEnd
<1>4. ASSUME NEW tool \in Tools, toolStart(tool) PROVE WInv'
  BY <1>4, EventKeeps, PatchesTyped DEF toolStart
<1>5. ASSUME NEW n \in Names, sessionInfoChanged(n) PROVE WInv'
  BY <1>5, EventKeeps, PatchesTyped DEF sessionInfoChanged
<1>6. CASE heartbeat
  <2>1. [state |-> entry.state] \in Patch /\ NoPatch \in Patch
    BY PatchesTyped DEF WInv, WriterTypeOK, Entry
  <2>2. Dispatch([state |-> entry.state], NoPatch, FALSE)
    BY <1>6 DEF heartbeat
  <2>3. WriterTypeOK'
    BY <1>6, <2>1, <2>2, DispatchTyped DEF heartbeat, WInv, WriterTypeOK
  <2>4. Carried'
    BY <1>6, HeartbeatCarried
  <2>5. Present'
    BY <1>6 DEF heartbeat, WInv, Present
  <2> QED BY <2>3, <2>4, <2>5 DEF WInv
<1>7. CASE WriteMoves
  BY <1>7, LandsKeeps, ContinuesKeeps DEF WriteMoves
<1>8. CASE ThrottlePasses
  BY <1>8 DEF ThrottlePasses, WInv, WriterTypeOK, Carried, UpToDate, InTransit, Present
<1>9. CASE ShutdownBegins
  BY <1>9 DEF ShutdownBegins, WInv, WriterTypeOK, Carried, UpToDate, InTransit, Present
<1>10. CASE EntryRemoved
  BY <1>10 DEF EntryRemoved, WInv, WriterTypeOK, Carried, Present
<1>11. CASE GoesStale
  BY <1>11 DEF GoesStale, WInv, WriterTypeOK, Carried, Present
<1>12. CASE ProcessEnds
  <2>1. <<>> \in Seq(Call) /\ Len(<<>>) <= MaxCalls
    BY StatusBounds DEF WInv
  <2> QED BY <1>12, <2>1 DEF ProcessEnds, WInv, WriterTypeOK, Carried, Present
<1>13. CASE PeerSweeps
  BY <1>13 DEF PeerSweeps, WInv, WriterTypeOK, Carried, Present
<1>14. CASE UNCHANGED writerVars
  BY <1>14 DEF writerVars, WInv, WriterTypeOK, Carried, UpToDate, InTransit, Present
<1> QED
  BY <1>1, <1>2, <1>3, <1>4, <1>5, <1>6, <1>7, <1>8, <1>9, <1>10, <1>11, <1>12,
     <1>13, <1>14 DEF WriterNext

\* So it holds in every state.
LEMMA WriterInvariance == WriterSpec => []WInv
<1>1. WriterInit => WInv
  BY InitWInv
<1>2. WInv /\ [WriterNext]_writerVars => WInv'
  BY NextWInv
<1> QED BY <1>1, <1>2, PTL DEF WriterSpec

\* Every variable keeps to its domain: whatever is patched, written or mirrored
\* back, the entry stays a whole one.
THEOREM EntriesTyped == WriterSpec => []WriterTypeOK
<1>1. WInv => WriterTypeOK
  BY DEF WInv
<1> QED BY <1>1, WriterInvariance, PTL

\* Nothing a method patched is lost between the host and the registry file: as
\* long as no two writes overlap and none fails, the file says what the host
\* says, but for the patches that wait.
THEOREM PatchesReachDisk == WriterSpec => []NothingIsLost
<1>1. WInv => NothingIsLost
  BY DEF WInv, Carried, UpToDate, NothingIsLost
<1> QED BY <1>1, WriterInvariance, PTL
=============================================================================
