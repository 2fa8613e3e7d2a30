---------------------------- MODULE LeasesProofs ----------------------------
(***************************************************************************)
(* While operations on a lease do not overlap and a live lease does not    *)
(* expire, the session that has it in ownedLeases is the one owner.json    *)
(* names, for any number of sessions, sweeping or not, crashing or not.    *)
(*                                                                         *)
(* Why it holds.  An operation removes a directory, or writes its own name *)
(* into it, by what it has read before.  What it has read was: no owner,   *)
(* an expired lease, or an owner that is gone.  Then nobody had the lease  *)
(* in memory, and as nothing else was under way, nobody has it when the    *)
(* operation acts on it.                                                   *)
(***************************************************************************)
EXTENDS Leases, TLAPS, FiniteSetTheorems

\* A set with at most one member.
LEMMA AtMostOne ==
  ASSUME NEW S, IsFiniteSet(S), Cardinality(S) <= 1, NEW x \in S, NEW y \in S
  PROVE  x = y
<1> SUFFICES ASSUME x # y PROVE FALSE
  OBVIOUS
<1>1. IsFiniteSet({x}) /\ Cardinality({x}) = 1
  BY FS_Singleton
<1>2. Cardinality({x} \cup {y}) = 2
  <2>1. y \notin {x}
    OBVIOUS
  <2>2. Cardinality({x} \cup {y}) = IF y \in {x} THEN Cardinality({x}) ELSE Cardinality({x}) + 1
    BY <1>1, FS_AddElement
  <2> QED BY <1>1, <2>1, <2>2
<1>3. {x} \cup {y} \subseteq S
  OBVIOUS
<1>4. Cardinality({x} \cup {y}) <= Cardinality(S)
  BY <1>3, FS_Subset
<1>5. Cardinality(S) \in Nat
  BY FS_CardinalityType
<1> QED
  BY <1>2, <1>4, <1>5

\* No operation and no sweep is in progress beside the one of s.
Alone(s) ==
  /\ \A t \in Sessions : pc[t] # "idle" => t = s
  /\ \A t \in Sessions : sweep[t] # "idle" => t = s
  /\ pc[s] = "idle" \/ sweep[s] = "idle"

\* What operations have read still holds.
ReadsHold ==
  /\ \A s \in own : owner = s
  /\ owner \in up => fresh
  /\ \A s \in Sessions : pc[s] \in {"takeover", "tmp", "rename", "undo"} => own = {}
  /\ \A s \in Sessions :
       pc[s] \in {"reenterTmp", "reenterRename", "renewTmp", "renewRename", "release"} => owner = s
  /\ \A s \in Sessions : sweep[s] = "rm" => own = {}
  /\ \A s \in Sessions : pc[s] # "idle" \/ sweep[s] # "idle" => Alone(s)

IInv == TypeOK /\ IsFiniteSet(InProgress) /\ (clean => ReadsHold)

USE DEF Nobody, Step

LEMMA InitInv == Init => IInv
<1> SUFFICES ASSUME Init PROVE IInv
  OBVIOUS
<1>1. InProgress = {}
  BY DEF Init, InProgress
<1>2. IsFiniteSet(InProgress)
  BY <1>1, FS_EmptySet
<1> QED
  BY <1>2, NobodyAssumption DEF Init, IInv, TypeOK, ReadsHold, Alone

\* A step of one session changes its own operation and its own sweep only.
Local(s) ==
  /\ \A t \in Sessions : t # s => pc'[t] = pc[t] /\ sweep'[t] = sweep[t]
  /\ Track

LEMMA StepIsLocal ==
  ASSUME TypeOK, NEW s \in Sessions,
         \/ ClaimStart(s) \/ Claim(s) \/ RenewRead(s) \/ Renew(s) \/ ReleaseRead(s)
         \/ ReleaseRm(s) \/ SweepList(s) \/ SweepRead(s) \/ SweepRm(s) \/ Crash(s)
  PROVE  Local(s) /\ TypeOK'
<1> USE DEF Local, TypeOK, Goto, RmDir, disk
<1>1. CASE ClaimStart(s) \/ RenewRead(s) \/ ReleaseRead(s)
  BY <1>1 DEF ClaimStart, RenewRead, ReleaseRead, Track
<1>2. CASE ClaimMkdir(s) \/ ClaimRead(s) \/ ClaimTakeover(s) \/ ClaimUndo(s)
  BY <1>2 DEF ClaimMkdir, ClaimRead, ClaimTakeover, ClaimUndo, Track
<1>3. CASE ClaimTmp(s) \/ ReenterTmp(s) \/ RenewTmp(s)
  BY <1>3 DEF ClaimTmp, ReenterTmp, RenewTmp, WriteTmp, Track
<1>4. CASE ClaimRename(s) \/ ReenterRename(s) \/ RenewRename(s)
  BY <1>4 DEF ClaimRename, ReenterRename, RenewRename, Rename, Track
<1>5. CASE ReleaseRm(s)
  <2>1. /\ dir' = FALSE /\ owner' = Nobody /\ tmps' = {} /\ fresh' = fresh
        /\ up' = up /\ sweep' = sweep
        /\ pc' = [pc EXCEPT ![s] = "idle"] /\ own' = own \ {s} /\ Track
    BY <1>5 DEF ReleaseRm
  <2>2. own' \subseteq up'
    BY <2>1
  <2>3. clean' \in BOOLEAN
    BY <2>1 DEF Track
  <2>4. pc' \in [Sessions -> Step] /\ pc'[s] = "idle" /\ \A t \in Sessions : t # s => pc'[t] = pc[t]
    BY <2>1
  <2>5. TypeOK'
    BY <2>1, <2>2, <2>3, <2>4
  <2>6. Local(s)
    BY <2>1, <2>4
  <2> QED BY <2>5, <2>6
<1>6. CASE SweepList(s) \/ SweepRead(s) \/ SweepRm(s)
  BY <1>6 DEF SweepList, SweepRead, SweepRm, Track
<1>7. CASE Crash(s)
  BY <1>7 DEF Crash, Track
<1> QED
  BY <1>1, <1>2, <1>3, <1>4, <1>5, <1>6, <1>7 DEF Claim, Renew

\* What is in progress stays finite, and so Track's history tells of one at most.
LEMMA StepTracks ==
  ASSUME IInv, NEW s \in Sessions, Local(s)
  PROVE  /\ IsFiniteSet(InProgress)'
         /\ clean' => /\ clean /\ (fresh /\ ~fresh' => owner \notin up)
                      /\ \A t \in Sessions : pc'[t] # "idle" \/ sweep'[t] # "idle" => Alone(t)'
<1>1. InProgress' \subseteq InProgress \cup {<<s, "op">>, <<s, "sweep">>}
  BY DEF InProgress, Local
<1>2. IsFiniteSet(InProgress \cup {<<s, "op">>, <<s, "sweep">>})
  <2>1. IsFiniteSet({<<s, "op">>, <<s, "sweep">>})
    <3>1. IsFiniteSet({<<s, "op">>})
      BY FS_Singleton
    <3>2. IsFiniteSet({<<s, "op">>} \cup {<<s, "sweep">>})
      BY <3>1, FS_AddElement
    <3>3. {<<s, "op">>} \cup {<<s, "sweep">>} = {<<s, "op">>, <<s, "sweep">>}
      OBVIOUS
    <3> QED BY <3>2, <3>3
  <2> QED BY <2>1, FS_Union DEF IInv
<1>3. IsFiniteSet(InProgress')
  BY <1>1, <1>2, FS_Subset
<1>4. ASSUME clean' PROVE clean /\ Cardinality(InProgress') <= 1 /\ (fresh /\ ~fresh' => owner \notin up)
  BY <1>4 DEF Local, Track
<1>5. ASSUME clean', NEW t \in Sessions, pc'[t] # "idle" \/ sweep'[t] # "idle"
      PROVE  Alone(t)'
  <2>1. \A x, y \in InProgress' : x = y
    BY <1>3, <1>4, <1>5, AtMostOne
  <2>2. \A u \in Sessions : /\ pc'[u] # "idle" => <<u, "op">> \in InProgress'
                            /\ sweep'[u] # "idle" => <<u, "sweep">> \in InProgress'
    BY DEF InProgress
  <2> QED BY <1>5, <2>1, <2>2 DEF Alone
<1> QED
  BY <1>3, <1>4, <1>5


\* A step of a session by which operations have not overlapped leaves true what
\* operations have read.
LEMMA StepHolds ==
  ASSUME IInv, NEW s \in Sessions, clean',
         \/ ClaimStart(s) \/ Claim(s) \/ RenewRead(s) \/ Renew(s) \/ ReleaseRead(s)
         \/ ReleaseRm(s) \/ SweepList(s) \/ SweepRead(s) \/ SweepRm(s) \/ Crash(s)
  PROVE  ReadsHold'
<1>1. TypeOK /\ TypeOK' /\ Local(s)
  BY StepIsLocal DEF IInv
<1>2. /\ clean /\ (fresh /\ ~fresh' => owner \notin up)
      /\ \A t \in Sessions : pc'[t] # "idle" \/ sweep'[t] # "idle" => Alone(t)'
  BY <1>1, StepTracks
<1>3. ReadsHold
  BY <1>2 DEF IInv
<1> DEFINE Holds == /\ \A t \in own : owner = t
                    /\ owner \in up => fresh
                    /\ \A t \in Sessions : pc[t] \in {"takeover", "tmp", "rename", "undo"} => own = {}
                    /\ \A t \in Sessions :
                         pc[t] \in {"reenterTmp", "reenterRename", "renewTmp", "renewRename", "release"} => owner = t
                    /\ \A t \in Sessions : sweep[t] = "rm" => own = {}
<1> SUFFICES Holds'
  BY <1>2 DEF ReadsHold
<1>4. Holds /\ \A t \in Sessions : pc[t] # "idle" \/ sweep[t] # "idle" => Alone(t)
  BY <1>3 DEF ReadsHold
<1>5. ASSUME pc[s] # "idle" \/ sweep[s] # "idle"
      PROVE  \A t \in Sessions : t # s => pc'[t] = "idle" /\ sweep'[t] = "idle"
  BY <1>1, <1>4, <1>5 DEF Alone, Local
<1>a. ASSUME pc[s] # "idle" PROVE sweep[s] = "idle"
  BY <1>4, <1>a DEF Alone
<1>6. CASE ClaimStart(s) \/ RenewRead(s) \/ ReleaseRead(s) \/ SweepList(s)
  BY <1>6, <1>1, <1>4 DEF ClaimStart, RenewRead, ReleaseRead, SweepList, Goto, disk, TypeOK
<1>7. CASE ClaimMkdir(s)
  BY <1>7, <1>1, <1>4, <1>5, <1>a, NobodyAssumption DEF ClaimMkdir, Goto, TypeOK
<1>8. CASE ClaimRead(s)
  BY <1>8, <1>1, <1>4, <1>5, <1>a, NobodyAssumption DEF ClaimRead, Goto, disk, TypeOK
<1>9. CASE ClaimTakeover(s) \/ ClaimUndo(s)
  BY <1>9, <1>1, <1>4, <1>5, <1>a, NobodyAssumption DEF ClaimTakeover, ClaimUndo, RmDir, Goto, TypeOK
<1>10. CASE ClaimTmp(s)
  BY <1>10, <1>1, <1>4, <1>5, <1>a DEF ClaimTmp, WriteTmp, Goto, TypeOK
<1>11. CASE ReenterTmp(s) \/ RenewTmp(s)
  BY <1>11, <1>1, <1>4, <1>5, <1>a DEF ReenterTmp, RenewTmp, WriteTmp, Goto, TypeOK
<1>12. CASE ClaimRename(s)
  BY <1>12, <1>1, <1>4, <1>5, <1>a DEF ClaimRename, Rename, Goto, TypeOK
<1>13. CASE ReenterRename(s) \/ RenewRename(s)
  BY <1>13, <1>1, <1>4, <1>5, <1>a DEF ReenterRename, RenewRename, Rename, Goto, TypeOK
<1>14. CASE ReleaseRm(s)
  BY <1>14, <1>1, <1>4, <1>5, <1>a, NobodyAssumption DEF ReleaseRm, RmDir, Goto, TypeOK
<1>15. CASE SweepRead(s)
  BY <1>15, <1>1, <1>4, <1>5, NobodyAssumption DEF SweepRead, disk, TypeOK
<1>16. CASE SweepRm(s)
  BY <1>16, <1>1, <1>4, <1>5, <1>a, NobodyAssumption DEF SweepRm, RmDir, TypeOK
<1>17. CASE Crash(s)
  BY <1>17, <1>1, <1>4 DEF Crash, Goto, disk, TypeOK
<1> QED
  BY <1>6, <1>7, <1>8, <1>9, <1>10, <1>11, <1>12, <1>13, <1>14, <1>15, <1>16, <1>17
     DEF Claim, Renew

LEMMA ExpireStep ==
  ASSUME IInv, Expire
  PROVE  IInv'
<1> USE DEF Expire
<1>1. InProgress' = InProgress
  BY DEF InProgress
<1>2. TypeOK'
  BY DEF IInv, TypeOK, Track
<1>3. ASSUME clean' PROVE ReadsHold'
  <2>1. clean /\ owner \notin up
    BY <1>3 DEF Track
  <2> QED BY <2>1 DEF IInv, ReadsHold, Alone
<1> QED
  BY <1>1, <1>2, <1>3 DEF IInv

\* Every step keeps the invariant.
LEMMA Invariance == IInv /\ [Next]_vars => IInv'
<1> SUFFICES ASSUME IInv, [Next]_vars PROVE IInv'
  OBVIOUS
<1>1. ASSUME NEW s \in Sessions,
             \/ ClaimStart(s) \/ Claim(s) \/ RenewRead(s) \/ Renew(s) \/ ReleaseRead(s)
             \/ ReleaseRm(s) \/ SweepList(s) \/ SweepRead(s) \/ SweepRm(s) \/ Crash(s)
      PROVE  IInv'
  <2>1. TypeOK' /\ Local(s)
    BY <1>1, StepIsLocal DEF IInv
  <2>2. IsFiniteSet(InProgress)'
    BY <2>1, StepTracks
  <2>3. clean' => ReadsHold'
    BY <1>1, StepHolds
  <2> QED BY <2>1, <2>2, <2>3 DEF IInv
<1>2. CASE UNCHANGED vars
  BY <1>2 DEF vars, disk, IInv, TypeOK, InProgress, ReadsHold, Alone
<1> QED
  BY <1>1, <1>2, ExpireStep DEF Next

LEMMA Inductive == Spec => []IInv
BY InitInv, Invariance, PTL DEF Spec

\* The types of Leases hold in every state, and a directory that does not exist
\* has nothing in it.
THEOREM TypeCorrect == Spec => []TypeOK
<1>1. IInv => TypeOK
  BY DEF IInv
<1> QED BY <1>1, Inductive, PTL

\* As long as operations do not overlap and no live lease expires, owner.json
\* names the session that has the lease in ownedLeases.
THEOREM SerialLease == Spec => []SerialLeaseIsTrue
<1>1. IInv => SerialLeaseIsTrue
  BY DEF IInv, ReadsHold, SerialLeaseIsTrue
<1> QED BY <1>1, Inductive, PTL
=============================================================================
