---------------------------- MODULE LeaseSession ----------------------------
(***************************************************************************)
(* What one session does with one lease, by the lock of LeaseLock: the     *)
(* write gate, metro_claim with its rollback, metro_release, the release   *)
(* of turn leases, and the renewal by the heartbeat (src/src/index.ts).    *)
(* Each is a caller of withLeaseLock, and calls again and again.           *)
(*                                                                         *)
(* An operation is the code up to its first await (Begin), its file        *)
(* operations (Land) and the code after them (End).  A claim, a renewal or *)
(* a release is one file operation here; Leases looks into them.           *)
(* metro_claim goes on to other paths after the one of this lease.  When   *)
(* one of them is refused, it gives back what it has taken: through the    *)
(* lock if the lease is new, and without it if a turn lease was upgraded.  *)
(* Bound: one metro_claim at a time, one call at a time of each kind.      *)
(***************************************************************************)
EXTENDS LeaseLock

CONSTANT MayFail \* may a file operation throw?

Callers == {"write", "claim", "rollback", "release", "settle", "heartbeat"}

ASSUME CallersAssumption == Calls = Callers /\ MayFail \in BOOLEAN

VARIABLES
  mode, \* ownedLeases.get(name), None when the session does not have the lease
  disk, \* whose name owner.json has
  at,   \* the running operation: the file operation it awaits, or how it went
  tail, \* how metro_claim got the lease it may still have to give back
  kept  \* history: metro_claim took the lease for good, and it was neither
        \* released, nor given back, nor lost

sessionVars == <<mode, disk, at, tail, kept>>
allVars     == <<vars, sessionVars>>

None == "none"

FileOp  == {"claiming", "asking", "retrying", "renewing", "releasing"}
Outcome == {"nothing", "got", "refused", "released", "renewed", "lost", "threw"}

----------------------------------------------------------------------------
(* The calls *)

\* What makes each caller call.  The turn leases are looked up when the agent
\* has settled, the owned ones when the heartbeat beats.
Calling(c) ==
  /\ c = "claim"     => tail = None
  /\ c = "rollback"  => tail = "giveBack"
  /\ c = "settle"    => mode = "turn"
  /\ c = "heartbeat" => mode # None

Call(c) ==
  /\ Calling(c) /\ Enter(c)
  /\ tail' = IF c = "rollback" THEN "giving" ELSE tail
  /\ UNCHANGED <<mode, disk, at, kept>>

\* Slip: releaseTurnLeases trusts the list it has made before it waited
FirstStepUnchecked(c) ==
  IF c \in {"release", "rollback", "settle"} THEN "releasing"
  ELSE IF c = "heartbeat" THEN (IF mode # None THEN "renewing" ELSE "nothing")
  ELSE IF mode = None THEN "claiming" ELSE "nothing"

\* The first await of each operation.  "nothing": it returns at once.
FirstStep(c) ==
  CASE c \in {"write", "claim"}      -> IF mode = None THEN "claiming" ELSE "nothing"
    [] c = "settle"                  -> IF mode = "turn" THEN "releasing" ELSE "nothing"
    [] c = "heartbeat"               -> IF mode # None THEN "renewing" ELSE "nothing"
    [] c \in {"release", "rollback"} -> "releasing"

\* The lock is taken.  metro_claim makes a lease that the session has already a
\* durable one, then and there.
Begin(c) ==
  /\ Run(c)
  /\ at' = FirstStep(c)
  /\ IF c = "claim" /\ mode # None
     THEN /\ mode' = "manual"
          /\ tail' = IF mode = "turn" THEN "upgraded" ELSE "owned"
          /\ kept' = (disk = "me")
     ELSE /\ UNCHANGED <<mode, tail>>
          /\ kept' = (kept /\ c # "release")
  /\ UNCHANGED disk

----------------------------------------------------------------------------
(* The file operations of the call that has the lock *)

\* claimLease: the write gate tries a second time when its look at the owner
\* (notifyLeaseConflict) finds that the other one has left.
Claims(c) ==
  /\ at \in {"claiming", "retrying"}
  /\ IF disk # "peer"
     THEN disk' = "me" /\ at' = "got"
     ELSE /\ at' = IF c = "write" /\ at = "claiming" THEN "asking" ELSE "refused"
          /\ UNCHANGED disk

Asks ==
  /\ at = "asking"
  /\ at' = IF disk = "peer" THEN "refused" ELSE "retrying"
  /\ UNCHANGED disk

\* renewLease and releaseLease act on the session's own lease only.
Renews ==
  /\ at = "renewing"
  /\ at' = IF disk = "me" THEN "renewed" ELSE "lost"
  /\ UNCHANGED disk

Releases ==
  /\ at = "releasing"
  /\ disk' = IF disk = "me" THEN "nobody" ELSE disk
  /\ at' = "released"

\* What writes or removes may throw; reading an owner does not.
Throws ==
  /\ MayFail
  /\ IF at \in {"claiming", "retrying"} THEN disk # "peer"
     ELSE at \in {"renewing", "releasing"} /\ disk = "me"
  /\ at' = "threw"
  /\ UNCHANGED disk

Land(c) ==
  /\ phase[c] = "running"
  /\ Claims(c) \/ Asks \/ Renews \/ Releases \/ Throws
  /\ UNCHANGED <<vars, mode, tail, kept>>

----------------------------------------------------------------------------
(* The rest of the operation, and unlock *)

\* Slip: the heartbeat leaves it to the next write to find out
ModeAfterFaithful(c) ==
  CASE at = "got"                      -> IF c = "claim" THEN "manual" ELSE "turn"
    [] at = "released" \/ c = "rollback" -> None
    [] OTHER                           -> mode

\* ownedLeases when the operation is over.  The rollback ignores that its
\* release has thrown.
ModeAfter(c) ==
  CASE at = "got"                                     -> IF c = "claim" THEN "manual" ELSE "turn"
    [] at \in {"released", "lost"} \/ c = "rollback" -> None
    [] OTHER                                          -> mode

End(c) ==
  /\ at \in Outcome /\ Leave(c)
  /\ mode' = ModeAfter(c) /\ at' = None
  /\ tail' = IF c = "claim" /\ at = "got" THEN "fresh"
             ELSE IF c = "rollback" THEN None ELSE tail
  /\ kept' = IF c = "claim" /\ at = "got" THEN disk = "me" ELSE kept
  /\ UNCHANGED disk

----------------------------------------------------------------------------
(* metro_claim's other paths *)

\* They are claimed, or claiming one of them throws: nothing is given back.
OthersClaimed ==
  /\ phase["claim"] = "done" /\ tail \in {"fresh", "upgraded", "owned"}
  /\ tail' = None
  /\ UNCHANGED <<vars, mode, disk, at, kept>>

\* One of them is held by another session.
OthersRefused ==
  /\ phase["claim"] = "done" /\ tail \in {"fresh", "upgraded", "owned"}
  /\ tail' = CASE tail = "fresh"    -> "giveBack"
               [] tail = "upgraded" -> "restore"
               [] tail = "owned"    -> None
  /\ kept' = (kept /\ tail = "owned")
  /\ UNCHANGED <<vars, mode, disk, at>>

\* After the rollbacks of the others, without the lock, and whatever has become
\* of the lease meanwhile
Restore ==
  /\ tail = "restore"
  /\ mode' = "turn" /\ tail' = None
  /\ UNCHANGED <<vars, disk, at, kept>>

----------------------------------------------------------------------------
(* Other sessions: they claim and release, and they take over or sweep a     *)
(* lease that has expired while its session was stalled.                     *)

PeersAct ==
  /\ \/ disk = "nobody" /\ disk' = "peer"
     \/ disk = "peer"   /\ disk' = "nobody"
  /\ UNCHANGED <<vars, mode, at, tail, kept>>

LeaseIsLost ==
  /\ disk = "me" /\ disk' \in {"nobody", "peer"}
  /\ kept' = FALSE
  /\ UNCHANGED <<vars, mode, at, tail>>

----------------------------------------------------------------------------
SessionInit ==
  /\ Init
  /\ mode = None /\ disk \in {"nobody", "peer"} /\ at = None /\ tail = None
  /\ kept = FALSE

SessionNext ==
  \/ \E c \in Calls : Call(c) \/ Begin(c) \/ Land(c) \/ End(c)
  \/ OthersClaimed \/ OthersRefused \/ Restore
  \/ PeersAct \/ LeaseIsLost

SessionSpec == SessionInit /\ [][SessionNext]_allVars

\* Operations go on and end, metro_claim gets through its paths, the heartbeat
\* beats.  Nobody else has to do anything.
SessionFairSpec ==
  /\ SessionSpec
  /\ \A c \in Calls : WF_allVars(Begin(c)) /\ WF_allVars(Land(c)) /\ WF_allVars(End(c))
  /\ WF_allVars(OthersClaimed \/ OthersRefused) /\ WF_allVars(Restore)
  /\ WF_allVars(Call("rollback")) /\ WF_allVars(Call("heartbeat"))

----------------------------------------------------------------------------
(* Properties *)

\* Every variable keeps to its domain, and an operation is under way exactly
\* while a call has the lock.
SessionTypeOK ==
  /\ TypeOK
  /\ mode \in {None, "turn", "manual"} /\ disk \in {"me", "peer", "nobody"}
  /\ at \in FileOp \cup Outcome \cup {None} /\ kept \in BOOLEAN
  /\ tail \in {None, "fresh", "upgraded", "owned", "giveBack", "giving", "restore"}
  /\ at # None <=> \E c \in Calls : phase[c] = "running"

\* metro_claim is there for edits of several steps: a lease that it has taken
\* or upgraded stays a durable one, and the session's, until it is released,
\* given back or lost.  Neither the end of a turn, which collects the turn
\* leases before it waits for the lock, nor the failure of a later metro_claim
\* takes it away.
DurableClaimHolds == kept => mode = "manual" /\ disk = "me"

\* A session does not go on for ever believing that it has a lease which is not
\* its own, be it that it expired, or that the rollback of metro_claim put back
\* a name that was released meanwhile: the heartbeat finds out.
PhantomHeals == mode # None /\ disk # "me" ~> mode = None \/ disk = "me"
=============================================================================
