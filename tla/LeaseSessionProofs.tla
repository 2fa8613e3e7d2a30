------------------------- MODULE LeaseSessionProofs -------------------------
(***************************************************************************)
(* First withLeaseLock, for any number of calls: the promise chain gives   *)
(* mutual exclusion in order of arrival and cleans up after itself.  That  *)
(* part cites nothing of the session, so it holds for whatever Calls are.  *)
(*                                                                         *)
(* Then the session: its operations on a lease use the lock as LeaseLock   *)
(* has it, so all that is proved of the lock holds for them, and a lease   *)
(* taken by metro_claim stays a durable one.                               *)
(*                                                                         *)
(* Why that holds.  Only metro_claim makes a lease durable, and only in    *)
(* its turn at the lock.  What could take it away, an operation that       *)
(* releases, loses or claims the lease or the rollback of the metro_claim  *)
(* before, is either not under way then (mutual exclusion), or has begun   *)
(* when the lease was not durable (AwayOK), or belongs to a metro_claim    *)
(* that has not come to its end (TailOK).                                  *)
(***************************************************************************)
EXTENDS LeaseSession, TLAPS

----------------------------------------------------------------------------
(* The lock *)

IInv == TypeOK /\ ChainInv

\* A call that is running is the first in line.
LEMMA RunningIsFirst ==
  ASSUME IInv, NEW c \in Calls, phase[c] = "running"
  PROVE  line # <<>> /\ Head(line) = c /\ line[1] = c
<1>1. PICK i \in DOMAIN line : line[i] = c
  BY DEF IInv, ChainInv
<1>2. i = 1
  BY <1>1 DEF IInv, TypeOK, ChainInv
<1> QED
  BY <1>1, <1>2 DEF IInv, TypeOK

\* A call whose turn has come is the first in line, as its predecessor is gone.
LEMMA ServedIsFirst ==
  ASSUME IInv, NEW c \in Calls, phase[c] = "waiting", Resolved(previous[c])
  PROVE  line # <<>> /\ Head(line) = c /\ line[1] = c
<1>1. PICK i \in DOMAIN line : line[i] = c
  BY DEF IInv, ChainInv
<1>2. ASSUME i > 1 PROVE FALSE
  <2>1. i - 1 \in DOMAIN line /\ line[i - 1] \in Calls
    BY <1>1, <1>2 DEF IInv, TypeOK
  <2>2. previous[c] = line[i - 1] /\ phase[line[i - 1]] # "done"
    BY <1>1, <1>2, <2>1 DEF IInv, ChainInv
  <2> QED
    BY <2>1, <2>2, NoCallAssumption DEF Resolved
<1> QED
  BY <1>1, <1>2 DEF IInv, TypeOK

LEMMA InitIInv == Init => IInv
  BY DEF Init, IInv, TypeOK, ChainInv, Phase

LEMMA EnterIInv ==
  ASSUME IInv, NEW c \in Calls, Enter(c)
  PROVE  IInv'
<1> USE DEF IInv, Enter, Free
<1>1. TypeOK'
  BY DEF TypeOK, Phase
<1>2. /\ Len(line') = Len(line) + 1 /\ line'[Len(line')] = c
      /\ \A i \in DOMAIN line : line'[i] = line[i]
      /\ DOMAIN line' = DOMAIN line \cup {Len(line')}
  BY DEF TypeOK
<1>3. \A i \in DOMAIN line : line[i] # c
  BY DEF ChainInv
<1>4. ChainInv'
  <2>1. \A i, j \in DOMAIN line' : line'[i] = line'[j] => i = j
    BY <1>2, <1>3 DEF ChainInv, TypeOK
  <2>2. \A d \in Calls : phase'[d] \in {"waiting", "running"}
                           <=> \E i \in DOMAIN line' : line'[i] = d
    BY <1>2, <1>3 DEF ChainInv, TypeOK
  <2>3. \A i \in DOMAIN line' : i > 1 => /\ previous'[line'[i]] = line'[i - 1]
                                         /\ phase'[line'[i]] = "waiting"
    <3> TAKE i \in DOMAIN line'
    <3> HAVE i > 1
    <3>1. CASE i \in DOMAIN line
      BY <1>2, <1>3, <3>1 DEF ChainInv, TypeOK
    <3>2. CASE i = Len(line')
      BY <1>2, <1>3, <3>2 DEF ChainInv, TypeOK
    <3> QED
      BY <1>2, <3>1, <3>2
  <2>4. Resolved(previous[Head(line)])'
    <3>1. CASE line = <<>>
      BY <1>2, <3>1 DEF ChainInv, TypeOK, Resolved
    <3>2. CASE line # <<>>
      <4>1. Head(line') = Head(line) /\ Head(line) \in Calls /\ Head(line) # c
        BY <1>2, <1>3, <3>2 DEF TypeOK
      <4> QED
        BY <3>2, <4>1 DEF ChainInv, TypeOK, Resolved
    <3> QED
      BY <3>1, <3>2
  <2>5. leaseLock' = IF line' = <<>> THEN NoCall ELSE line'[Len(line')]
    BY <1>2 DEF TypeOK
  <2> QED
    BY <2>1, <2>2, <2>3, <2>4, <2>5 DEF ChainInv
<1> QED
  BY <1>1, <1>4

LEMMA RunIInv ==
  ASSUME IInv, NEW c \in Calls, Run(c)
  PROVE  IInv'
<1>1. TypeOK'
  BY DEF IInv, TypeOK, Run, Phase
<1>2. line # <<>> /\ Head(line) = c /\ line[1] = c
  BY ServedIsFirst DEF Run
<1>3. ChainInv'
  <2>1. \A i \in DOMAIN line : i > 1 => line[i] # c
    BY <1>2 DEF IInv, ChainInv, TypeOK
  <2>2. \A i \in DOMAIN line' : i > 1 => /\ previous'[line'[i]] = line'[i - 1]
                                         /\ phase'[line'[i]] = "waiting"
    BY <2>1 DEF IInv, ChainInv, TypeOK, Run
  <2>3. Resolved(previous[Head(line)])'
    BY <1>2 DEF IInv, ChainInv, TypeOK, Run, Resolved
  <2>4. \A d \in Calls : phase'[d] \in {"waiting", "running"}
                           <=> phase[d] \in {"waiting", "running"}
    BY DEF IInv, TypeOK, Run
  <2> QED
    BY <2>2, <2>3, <2>4 DEF IInv, ChainInv, TypeOK, Run
<1> QED
  BY <1>1, <1>3 DEF IInv

LEMMA LeaveIInv ==
  ASSUME IInv, NEW c \in Calls, Leave(c)
  PROVE  IInv'
<1>1. line # <<>> /\ Head(line) = c /\ line[1] = c
  BY RunningIsFirst DEF Leave
<1>2. /\ line' \in Seq(Calls) /\ Len(line') = Len(line) - 1
      /\ \A i \in DOMAIN line' : i + 1 \in DOMAIN line /\ line'[i] = line[i + 1]
      /\ \A i \in DOMAIN line : i > 1 => i - 1 \in DOMAIN line'
  BY <1>1 DEF IInv, TypeOK, Leave
<1>3. TypeOK'
  BY <1>2 DEF IInv, TypeOK, Leave, Phase
<1>4. ChainInv'
  <2>1. \A i, j \in DOMAIN line' : line'[i] = line'[j] => i = j
    BY <1>2 DEF IInv, ChainInv, TypeOK
  <2>2. \A i \in DOMAIN line' : line'[i] # c
    <3> SUFFICES ASSUME NEW i \in DOMAIN line', line[i + 1] = line[1] PROVE FALSE
      BY <1>1, <1>2
    <3>1. i \in Nat /\ i # 0 /\ i + 1 \in DOMAIN line /\ 1 \in DOMAIN line
      BY <1>1, <1>2 DEF IInv, TypeOK
    <3> QED
      BY <3>1 DEF IInv, ChainInv
  <2>3. \A d \in Calls : phase'[d] \in {"waiting", "running"}
                           <=> \E i \in DOMAIN line' : line'[i] = d
    <3> TAKE d \in Calls
    <3>1. CASE d = c
      BY <2>2, <3>1 DEF IInv, TypeOK, Leave
    <3>2. CASE d # c
      <4>1. phase'[d] = phase[d]
        BY <3>2 DEF IInv, TypeOK, Leave
      <4>2. (\E i \in DOMAIN line : line[i] = d)
              => \E i \in DOMAIN line' : line'[i] = d
        <5> HAVE \E i \in DOMAIN line : line[i] = d
        <5>1. PICK i \in DOMAIN line : line[i] = d
          OBVIOUS
        <5>2. i > 1
          BY <1>1, <3>2, <5>1 DEF IInv, TypeOK
        <5>3. i - 1 \in DOMAIN line' /\ line'[i - 1] = line[i]
          BY <1>2, <5>1, <5>2 DEF IInv, TypeOK
        <5> QED
          BY <5>1, <5>3
      <4>3. (\E i \in DOMAIN line' : line'[i] = d)
              => \E i \in DOMAIN line : line[i] = d
        BY <1>2
      <4> QED
        BY <4>1, <4>2, <4>3 DEF IInv, ChainInv
    <3> QED
      BY <3>1, <3>2
  <2>4. \A i \in DOMAIN line' : i > 1 => /\ previous'[line'[i]] = line'[i - 1]
                                         /\ phase'[line'[i]] = "waiting"
    BY <1>2, <2>2 DEF IInv, ChainInv, TypeOK, Leave
  <2>5. line' # <<>> => Resolved(previous[Head(line)])'
    <3> HAVE line' # <<>>
    <3>1. 1 \in DOMAIN line' /\ Head(line') = line[2] /\ 2 \in DOMAIN line
      BY <1>2
    <3>2. previous[line[2]] = c
      BY <1>1, <3>1 DEF IInv, ChainInv, TypeOK
    <3> QED
      BY <3>1, <3>2 DEF IInv, TypeOK, Leave, Resolved
  <2>6. leaseLock' = IF line' = <<>> THEN NoCall ELSE line'[Len(line')]
    <3>1. CASE line' = <<>>
      BY <1>1, <1>2, <3>1 DEF IInv, ChainInv, TypeOK, Leave
    <3>2. CASE line' # <<>>
      <4>1. Len(line') \in DOMAIN line' /\ line'[Len(line')] = line[Len(line)]
        BY <1>2, <3>2 DEF IInv, TypeOK
      <4>2. leaseLock = line[Len(line)] /\ leaseLock # c
        BY <1>1, <2>2, <4>1 DEF IInv, ChainInv
      <4> QED
        BY <3>2, <4>1, <4>2 DEF Leave
    <3> QED
      BY <3>1, <3>2
  <2> QED
    BY <2>1, <2>3, <2>4, <2>5, <2>6 DEF ChainInv
<1> QED
  BY <1>3, <1>4 DEF IInv

\* The inductive invariant: types and the shape of the promise chain.
THEOREM ChainCorrect == Spec => []IInv
<1>1. IInv /\ [Next]_vars => IInv'
  <2> SUFFICES ASSUME IInv, [Next]_vars PROVE IInv'
    OBVIOUS
  <2>1. ASSUME NEW c \in Calls, Enter(c) \/ Run(c) \/ Leave(c) PROVE IInv'
    BY <2>1, EnterIInv, RunIInv, LeaveIInv
  <2>2. CASE UNCHANGED vars
    BY <2>2 DEF IInv, TypeOK, ChainInv, Resolved, vars
  <2> QED
    BY <2>1, <2>2 DEF Next
<1> QED
  BY InitIInv, <1>1, PTL DEF Spec

\* Type correctness of every reachable state.
THEOREM TypeCorrect == Spec => []TypeOK
<1>1. IInv => TypeOK
  BY DEF IInv
<1> QED
  BY <1>1, ChainCorrect, PTL

\* Mutual exclusion: at most one operation on a lease runs at a time, however
\* many heartbeats, gates, claims and releases are under way.
THEOREM MutualExclusion == Spec => []OneOperationAtATime
<1>1. IInv => OneOperationAtATime
  BY RunningIsFirst DEF OneOperationAtATime
<1> QED
  BY <1>1, ChainCorrect, PTL

\* leaseLocks holds an entry exactly while an operation is pending or running.
THEOREM NoEntryLeaks == Spec => []EntryIsDropped
<1>1. IInv => EntryIsDropped
  <2> SUFFICES ASSUME IInv PROVE EntryIsDropped
    OBVIOUS
  <2>1. CASE line = <<>>
    BY <2>1 DEF IInv, TypeOK, ChainInv, EntryIsDropped, Phase
  <2>2. CASE line # <<>>
    <3>1. Len(line) \in DOMAIN line /\ line[Len(line)] \in Calls
      BY <2>2 DEF IInv, TypeOK
    <3>2. leaseLock # NoCall /\ phase[line[Len(line)]] \in {"waiting", "running"}
      BY <2>2, <3>1, NoCallAssumption DEF IInv, ChainInv
    <3> QED
      BY <3>1, <3>2 DEF EntryIsDropped
  <2> QED
    BY <2>1, <2>2
<1> QED
  BY <1>1, ChainCorrect, PTL

Holding == line # <<>> /\ phase[Head(line)] = "running"

\* One step of the promise chain is one step of the queue, or none.
LEMMA StepRefines ==
  ASSUME IInv, IInv', [Next]_vars
  PROVE  [Fifo!Next]_<<line, Holding>>
<1>1. ASSUME NEW c \in Calls, Enter(c) PROVE Fifo!Come(c)
  <2>1. \A i \in DOMAIN line : line[i] # c
    BY <1>1 DEF Enter, Free, IInv, ChainInv
  <2>2. CASE line = <<>>
    <3>1. Head(line') = c
      BY <1>1, <2>2 DEF Enter, IInv, TypeOK
    <3> QED
      BY <1>1, <2>1, <2>2, <3>1 DEF Enter, IInv, TypeOK, Fifo!Come
  <2>3. CASE line # <<>>
    <3>1. line' # <<>> /\ Head(line') = Head(line) /\ Head(line) # c /\ Head(line) \in Calls
      BY <1>1, <2>1, <2>3 DEF Enter, IInv, TypeOK
    <3> QED
      BY <1>1, <2>1, <2>3, <3>1 DEF Enter, IInv, TypeOK, Fifo!Come
  <2> QED
    BY <2>2, <2>3
<1>2. ASSUME NEW c \in Calls, Run(c) PROVE Fifo!Hold
  <2>1. line # <<>> /\ Head(line) = c
    BY <1>2, ServedIsFirst DEF Run
  <2> QED
    BY <1>2, <2>1 DEF Run, IInv, TypeOK, Fifo!Hold
<1>3. ASSUME NEW c \in Calls, Leave(c) PROVE Fifo!Leave
  <2>1. line # <<>> /\ Head(line) = c /\ line[1] = c
    BY <1>3, RunningIsFirst DEF Leave
  <2>2. ~Holding'
    <3> SUFFICES ASSUME line' # <<>>, phase'[line'[1]] = "running" PROVE FALSE
      BY DEF Holding
    <3>1. /\ 1 \in DOMAIN line' /\ line'[1] = line[2] /\ line'[1] \in Calls
          /\ 2 \in DOMAIN line /\ 1 \in DOMAIN line
      BY <1>3, <2>1 DEF Leave, IInv, TypeOK
    <3>2. line[2] # c
      BY <2>1, <3>1 DEF IInv, ChainInv
    <3>3. phase[line[2]] = "waiting"
      BY <3>1 DEF IInv, ChainInv
    <3> QED
      BY <1>3, <3>1, <3>2, <3>3 DEF Leave, IInv, TypeOK
  <2>3. Holding /\ line' = Tail(line)
    BY <1>3, <2>1 DEF Leave, Holding
  <2> QED
    BY <2>2, <2>3 DEF Fifo!Leave, Holding
<1>4. CASE UNCHANGED vars
  BY <1>4 DEF vars, Holding
<1> QED
  BY <1>1, <1>2, <1>3, <1>4 DEF Next, Fifo!Next, Holding

\* withLeaseLock implements the first-come-first-served lock.
THEOREM ChainIsFifo == Spec => ImplementsFifoLock
<1>1. Init => Fifo!Init
  BY DEF Init, Fifo!Init
<1>2. IInv /\ IInv' /\ [Next]_vars => [Fifo!Next]_<<line, Holding>>
  BY StepRefines
<1> QED
  BY <1>1, <1>2, ChainCorrect, PTL DEF Spec, Fifo!Spec, ImplementsFifoLock, Holding

----------------------------------------------------------------------------
(* The invariant of the session *)

\* The domains of the session's own variables.
ModesOK ==
  /\ mode \in {None, "turn", "manual"} /\ disk \in {"me", "peer", "nobody"}
  /\ at \in FileOp \cup Outcome \cup {None} /\ kept \in BOOLEAN
  /\ tail \in {None, "fresh", "upgraded", "owned", "giveBack", "giving", "restore"}
  /\ at # None <=> \E c \in Calls : phase[c] = "running"

\* How far metro_claim is, and where a rollback belongs.
TailOK ==
  /\ phase["claim"] = "waiting" => tail = None
  /\ phase["claim"] = "running" => tail \in {None, "upgraded", "owned"}
  /\ phase["rollback"] \in {"waiting", "running"} => tail = "giving"
  /\ tail \in {"giveBack", "giving", "restore"} => ~kept

\* An operation that may end with the lease gone or another's.
AwayOK ==
  at \in {"claiming", "asking", "retrying", "got", "releasing", "released", "lost"} => ~kept

SInv == IInv /\ ModesOK /\ TailOK /\ AwayOK /\ DurableClaimHolds

----------------------------------------------------------------------------
(* The session uses the lock *)

\* Nothing but Enter, Run and Leave changes the variables of the lock.
LEMMA StepUsesLock == [SessionNext]_allVars => [Next]_vars
BY DEF SessionNext, allVars, Next, Call, Begin, Land, End, OthersClaimed, OthersRefused,
   Restore, PeersAct, LeaseIsLost

\* The composition implements withLeaseLock: gates, claims, rollbacks, releases
\* and renewals are only callers of it.
THEOREM SessionUsesLock == SessionSpec => Spec
<1>1. SessionInit => Init
  BY DEF SessionInit
<1> QED BY <1>1, StepUsesLock, PTL DEF SessionSpec, Spec

\* No two of a session's operations on a lease overlap, whoever began them.
THEOREM OperationsExclude == SessionSpec => []OneOperationAtATime
BY SessionUsesLock, MutualExclusion, PTL

\* leaseLocks forgets a lease when the session has no operation on it any more.
THEOREM SessionDropsEntry == SessionSpec => []EntryIsDropped
BY SessionUsesLock, NoEntryLeaks, PTL

\* A session's operations on a lease are served first come, first served.
THEOREM SessionIsFifo == SessionSpec => ImplementsFifoLock
BY SessionUsesLock, ChainIsFifo, PTL

----------------------------------------------------------------------------
(* The lease *)

USE DEF None, FileOp, Outcome, Phase

LEMMA SessionInitInv == SessionInit => SInv
<1>1. SessionInit => IInv
  BY InitIInv DEF SessionInit
<1> QED
  BY <1>1, CallersAssumption
     DEF SessionInit, Init, SInv, ModesOK, TailOK, AwayOK, DurableClaimHolds, Callers

\* The lock's invariant, across the session's steps.
LEMMA LockStep == SInv /\ [SessionNext]_allVars => IInv'
<1> SUFFICES ASSUME SInv, [SessionNext]_allVars PROVE IInv'
  OBVIOUS
<1>1. [Next]_vars
  BY StepUsesLock
<1> QED
  BY <1>1, EnterIInv, RunIInv, LeaveIInv DEF SInv, IInv, TypeOK, ChainInv, Resolved, Next, vars

\* What follows from the lock: the call that runs is the only one.
LEMMA OnlyOne ==
  ASSUME IInv, NEW c \in Calls, phase[c] = "running"
  PROVE  \A d \in Calls : phase[d] = "running" => d = c
BY RunningIsFirst

\* A call that waits its turn changes nothing but the lock.
LEMMA CallStep ==
  ASSUME SInv, NEW c \in Calls, Call(c)
  PROVE  (ModesOK /\ TailOK /\ AwayOK /\ DurableClaimHolds)'
BY CallersAssumption DEF SInv, IInv, TypeOK, Callers, Call, Calling, Enter, Free,
   ModesOK, TailOK, AwayOK, DurableClaimHolds

\* An operation begins: one that is to take the lease away only when the lease
\* is not kept.
LEMMA BeginStep ==
  ASSUME SInv, NEW c \in Calls, Begin(c)
  PROVE  (ModesOK /\ TailOK /\ AwayOK /\ DurableClaimHolds)'
<1> USE CallersAssumption DEF SInv, IInv, TypeOK, Callers
<1>1. phase' = [phase EXCEPT ![c] = "running"] /\ phase[c] = "waiting" /\ disk' = disk
  BY DEF Begin, Run
<1>2. at' \in {"nothing", "claiming", "renewing", "releasing"} /\ at' = FirstStep(c)
  BY DEF Begin, FirstStep
<1>3. CASE c = "claim" /\ mode # None
  BY <1>1, <1>2, <1>3 DEF Begin, FirstStep, ModesOK, TailOK, AwayOK, DurableClaimHolds
<1>4. CASE ~(c = "claim" /\ mode # None)
  <2>1. mode' = mode /\ tail' = tail /\ kept' = (kept /\ c # "release")
    BY <1>4 DEF Begin
  <2>2. at' \in {"claiming", "releasing"} => ~kept'
    BY <1>1, <1>2, <2>1 DEF FirstStep, TailOK, DurableClaimHolds
  <2> QED
    BY <1>1, <1>2, <2>1, <2>2 DEF ModesOK, TailOK, AwayOK, DurableClaimHolds
<1> QED
  BY <1>3, <1>4

\* A file operation ends: it finds the owner, or writes it when nothing is kept.
LEMMA LandStep ==
  ASSUME SInv, NEW c \in Calls, Land(c)
  PROVE  (ModesOK /\ TailOK /\ AwayOK /\ DurableClaimHolds)'
BY DEF SInv, IInv, TypeOK, Land, Claims, Asks, Renews, Releases, Throws, vars,
   ModesOK, TailOK, AwayOK, DurableClaimHolds

\* An operation ends and unlocks.
LEMMA EndStep ==
  ASSUME SInv, NEW c \in Calls, End(c)
  PROVE  (ModesOK /\ TailOK /\ AwayOK /\ DurableClaimHolds)'
<1> USE CallersAssumption DEF SInv, IInv, TypeOK, Callers
<1>1. phase' = [phase EXCEPT ![c] = "done"] /\ phase[c] = "running" /\ at' = None /\ disk' = disk
  BY DEF End, Leave
<1>2. \A d \in Calls : phase'[d] # "running"
  BY <1>1, OnlyOne
<1>3. ModesOK' /\ AwayOK'
  BY <1>1, <1>2 DEF End, ModeAfter, ModesOK, AwayOK
<1>4. TailOK' /\ DurableClaimHolds'
  <2>1. CASE c = "claim"
    BY <1>1, <2>1 DEF End, ModeAfter, ModesOK, TailOK, AwayOK, DurableClaimHolds
  <2>2. CASE c # "claim"
    BY <1>1, <2>2 DEF End, ModeAfter, ModesOK, TailOK, AwayOK, DurableClaimHolds
  <2> QED
    BY <2>1, <2>2
<1> QED
  BY <1>3, <1>4

\* metro_claim's other paths, and the other sessions.
LEMMA OtherStep ==
  ASSUME SInv, OthersClaimed \/ OthersRefused \/ Restore \/ PeersAct \/ LeaseIsLost
  PROVE  (ModesOK /\ TailOK /\ AwayOK /\ DurableClaimHolds)'
<1> USE DEF SInv, vars, ModesOK, TailOK, AwayOK, DurableClaimHolds
<1>1. CASE OthersClaimed \/ Restore
  BY <1>1 DEF OthersClaimed, Restore
<1>2. CASE OthersRefused
  <2>1. kept' \in BOOLEAN /\ (kept' => kept)
    BY <1>2 DEF OthersRefused
  <2>2. tail \in {"fresh", "upgraded", "owned"} /\ (kept' => tail = "owned")
    BY <1>2 DEF OthersRefused
  <2>3. tail' \in {None, "giveBack", "restore"} /\ (tail = "owned" => tail' = None)
    BY <1>2 DEF OthersRefused
  <2> QED
    BY <1>2, <2>1, <2>2, <2>3 DEF OthersRefused
<1>3. CASE PeersAct \/ LeaseIsLost
  <2>1. ~kept'
    BY <1>3 DEF PeersAct, LeaseIsLost
  <2> QED
    BY <1>3, <2>1 DEF PeersAct, LeaseIsLost
<1> QED
  BY <1>1, <1>2, <1>3

LEMMA SessionInvariance == SessionSpec => []SInv
<1>1. SInv /\ [SessionNext]_allVars => SInv'
  <2> SUFFICES ASSUME SInv, [SessionNext]_allVars PROVE SInv'
    OBVIOUS
  <2>1. IInv'
    BY LockStep
  <2>2. CASE UNCHANGED allVars
    BY <2>1, <2>2 DEF SInv, ModesOK, TailOK, AwayOK, DurableClaimHolds, allVars, sessionVars, vars
  <2>3. CASE SessionNext
    BY <2>1, <2>3, CallStep, BeginStep, LandStep, EndStep, OtherStep DEF SessionNext, SInv
  <2> QED
    BY <2>2, <2>3
<1> QED
  BY <1>1, SessionInitInv, PTL DEF SessionSpec

\* Every variable keeps to its domain, and an operation is under way exactly
\* while a call has the lock.
THEOREM SessionTypes == SessionSpec => []SessionTypeOK
<1>1. SInv => SessionTypeOK
  BY DEF SInv, IInv, ModesOK, SessionTypeOK
<1> QED
  BY <1>1, SessionInvariance, PTL

\* A lease metro_claim has taken stays a durable one of the session until it is
\* released, given back or lost.
THEOREM DurableClaims == SessionSpec => []DurableClaimHolds
<1>1. SInv => DurableClaimHolds
  BY DEF SInv
<1> QED
  BY <1>1, SessionInvariance, PTL
=============================================================================
