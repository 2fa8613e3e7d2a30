------------------------------- MODULE Leases -------------------------------
(***************************************************************************)
(* The file lease of src/src/leases.ts, one lease, at the grain of its     *)
(* file operations: a directory made with mkdir, an owner.json renamed     *)
(* into it, reads and recursive removals, by several sessions.  A session  *)
(* performs one operation on the lease at a time (LeaseLock), but sweeps   *)
(* all leases beside that.                                                 *)
(*                                                                         *)
(* Time.  A lease is fresh until its expiresAt has passed.  The heartbeat  *)
(* renews it several times per TTL, so that the lease of a session that    *)
(* is up only expires when its process stalls (MayStall).  The grace of    *)
(* 15 seconds keeps the sweep off a live owner that is missing from its    *)
(* snapshot: an owner counts as live as long as it is up.                  *)
(***************************************************************************)
EXTENDS Naturals, FiniteSets

CONSTANTS Sessions,
          Sweepers,  \* the sessions whose sweep is looked at
          MayStall,  \* may the lease of a session that is up expire?
          MayCrash   \* may a session crash?

ASSUME SessionsAssumption == Sweepers \subseteq Sessions
ASSUME FaultsAssumption == MayStall \in BOOLEAN /\ MayCrash \in BOOLEAN

VARIABLES
  dir,      \* the lease directory exists
  owner,    \* owner.json in it: whose it is, "none" when there is none
  fresh,    \* the lease has not expired
  tmps,     \* sessions with a .tmp file in it
  up,       \* sessions whose process lives
  pc,       \* the next step of each session's operation
  sweep,    \* the next step of each session's sweep
  own,      \* sessions that have the lease in ownedLeases
  clean     \* history: no two operations ever overlapped, no lease of a
            \* session that is up expired

disk == <<dir, owner, fresh, tmps>>
vars == <<disk, up, pc, sweep, own, clean>>

Nobody == "none"

ASSUME NobodyAssumption == Nobody \notin Sessions

Step == {"idle", "mkdir", "read", "takeover", "tmp", "rename", "undo",
         "reenterTmp", "reenterRename", "renewTmp", "renewRename", "release"}

\* rm(dir, { recursive: true, force: true })
RmDir == dir' = FALSE /\ owner' = Nobody /\ tmps' = {} /\ UNCHANGED fresh

Goto(s, step) == pc' = [pc EXCEPT ![s] = step]

InProgress == {<<s, "op">> : s \in {r \in Sessions : pc[r] # "idle"}}
         \cup {<<s, "sweep">> : s \in {r \in Sessions : sweep[r] # "idle"}}

\* Keeps the history: every action ends with it.
Track == clean' = (/\ clean /\ Cardinality(InProgress') <= 1
                   /\ fresh /\ ~fresh' => owner \notin up)

----------------------------------------------------------------------------
(* claimLease, as the write gate and metro_claim call it *)

\* The operation starts when the session does not have the lease yet.  The
\* write gate's second attempt, after a claim that found a conflict, is another
\* claim.
ClaimStart(s) ==
  /\ s \in up /\ pc[s] = "idle" /\ s \notin own
  /\ Goto(s, "mkdir")
  /\ UNCHANGED <<disk, up, sweep, own>> /\ Track

\* mkdir(dir), atomic: EEXIST leads to a look at the owner
ClaimMkdir(s) ==
  /\ pc[s] = "mkdir"
  /\ Goto(s, IF dir THEN "read" ELSE "tmp")
  /\ dir' = TRUE
  /\ UNCHANGED <<owner, fresh, tmps, up, sweep, own>> /\ Track

\* Slip: the expiry is not looked at
ClaimReadRuthless(s) ==
  /\ pc[s] = "read"
  /\ Goto(s, IF owner = s THEN "reenterTmp" ELSE "takeover")
  /\ UNCHANGED <<disk, up, sweep, own>> /\ Track

\* readOwner(dir): reenter one's own lease, take over one that has no owner or
\* has expired, give up otherwise (claimLease returns false)
ClaimRead(s) ==
  /\ pc[s] = "read"
  /\ Goto(s, IF owner = s THEN "reenterTmp"
             ELSE IF owner = Nobody \/ ~fresh THEN "takeover" ELSE "idle")
  /\ UNCHANGED <<disk, up, sweep, own>> /\ Track

\* rm of the lease found ownerless or expired, then claimLease again
ClaimTakeover(s) ==
  /\ pc[s] = "takeover"
  /\ RmDir /\ Goto(s, "mkdir")
  /\ UNCHANGED <<up, sweep, own>> /\ Track

\* writeOwner's writeFile of the temporary file: it needs the directory
WriteTmp(s, from, next, miss) ==
  /\ pc[s] = from
  /\ IF dir THEN tmps' = tmps \cup {s} /\ Goto(s, next)
            ELSE UNCHANGED tmps /\ Goto(s, miss)
  /\ UNCHANGED <<dir, owner, fresh, up, sweep, own>> /\ Track

\* writeOwner's rename: it needs the temporary file.  It refreshes the expiry.
Rename(s, from, miss, owns) ==
  /\ pc[s] = from
  /\ IF s \in tmps
     THEN /\ owner' = s /\ fresh' = TRUE /\ tmps' = tmps \ {s}
          /\ own' = own \cup owns /\ Goto(s, "idle")
     ELSE UNCHANGED <<owner, fresh, tmps, own>> /\ Goto(s, miss)
  /\ UNCHANGED <<dir, up, sweep>> /\ Track

ClaimTmp(s)      == WriteTmp(s, "tmp", "rename", "undo")
ClaimRename(s)   == Rename(s, "rename", "undo", {s})
ReenterTmp(s)    == WriteTmp(s, "reenterTmp", "reenterRename", "idle")
ReenterRename(s) == Rename(s, "reenterRename", "idle", {s})

\* The claim could not write its owner: it removes the directory and throws
ClaimUndo(s) ==
  /\ pc[s] = "undo"
  /\ RmDir /\ Goto(s, "idle")
  /\ UNCHANGED <<up, sweep, own>> /\ Track

----------------------------------------------------------------------------
(* The heartbeat's renewLease and releaseLease *)

\* Slip: a lost lease is not forgotten
RenewReadOnly(s) ==
  /\ s \in up /\ pc[s] = "idle" /\ s \in own /\ owner = s
  /\ Goto(s, "renewTmp")
  /\ UNCHANGED <<disk, up, sweep, own>> /\ Track

\* renewLease reads the owner; the session forgets a lease it has lost
RenewRead(s) ==
  /\ s \in up /\ pc[s] = "idle" /\ s \in own
  /\ IF owner = s THEN Goto(s, "renewTmp") /\ UNCHANGED own
                  ELSE own' = own \ {s} /\ UNCHANGED pc
  /\ UNCHANGED <<disk, up, sweep>> /\ Track

\* A renewal that cannot write throws; the heartbeat ignores it
RenewTmp(s)    == WriteTmp(s, "renewTmp", "renewRename", "idle")
RenewRename(s) == Rename(s, "renewRename", "idle", {})

\* releaseLease reads the owner; a lease that is not one's own is just forgotten
ReleaseRead(s) ==
  /\ s \in up /\ pc[s] = "idle" /\ s \in own
  /\ IF owner = s THEN Goto(s, "release") /\ UNCHANGED own
                  ELSE own' = own \ {s} /\ UNCHANGED pc
  /\ UNCHANGED <<disk, up, sweep>> /\ Track

ReleaseRm(s) ==
  /\ pc[s] = "release"
  /\ RmDir /\ own' = own \ {s} /\ Goto(s, "idle")
  /\ UNCHANGED <<up, sweep>> /\ Track

----------------------------------------------------------------------------
(* sweepExpiredLeases, and what happens without anybody's doing *)

\* The sweep lists the lease directories
SweepList(s) ==
  /\ s \in up \cap Sweepers /\ sweep[s] = "idle" /\ dir
  /\ sweep' = [sweep EXCEPT ![s] = "read"]
  /\ UNCHANGED <<disk, up, pc, own>> /\ Track

\* Slip: only leases without an owner are removed
SweepOwnerless(s) ==
  /\ sweep[s] = "read"
  /\ sweep' = [sweep EXCEPT ![s] = IF owner = Nobody THEN "rm" ELSE "idle"]
  /\ UNCHANGED <<disk, up, pc, own>> /\ Track

\* The sweep reads the owner and decides to remove the directory: no owner, an
\* expired lease, or an owner that is not live
SweepRead(s) ==
  /\ sweep[s] = "read"
  /\ sweep' = [sweep EXCEPT ![s] =
                  IF owner = Nobody \/ ~fresh \/ owner \notin up THEN "rm" ELSE "idle"]
  /\ UNCHANGED <<disk, up, pc, own>> /\ Track

SweepRm(s) ==
  /\ sweep[s] = "rm"
  /\ RmDir
  /\ sweep' = [sweep EXCEPT ![s] = "idle"]
  /\ UNCHANGED <<up, pc, own>> /\ Track

\* expiresAt passes
Expire ==
  /\ owner # Nobody /\ fresh
  /\ MayStall \/ owner \notin up \cap own
  /\ fresh' = FALSE
  /\ UNCHANGED <<dir, owner, tmps, up, pc, sweep, own>> /\ Track

Crash(s) ==
  /\ MayCrash /\ s \in up
  /\ up' = up \ {s} /\ own' = own \ {s}
  /\ Goto(s, "idle") /\ sweep' = [sweep EXCEPT ![s] = "idle"]
  /\ UNCHANGED disk /\ Track

----------------------------------------------------------------------------
Init ==
  /\ dir = FALSE /\ owner = Nobody /\ fresh = TRUE /\ tmps = {}
  /\ up = Sessions /\ own = {}
  /\ pc = [s \in Sessions |-> "idle"] /\ sweep = [s \in Sessions |-> "idle"]
  /\ clean = TRUE

Claim(s) == \/ ClaimMkdir(s) \/ ClaimRead(s) \/ ClaimTakeover(s) \/ ClaimTmp(s)
            \/ ClaimRename(s) \/ ClaimUndo(s) \/ ReenterTmp(s) \/ ReenterRename(s)
Renew(s) == RenewTmp(s) \/ RenewRename(s)

Next ==
  \/ \E s \in Sessions : \/ ClaimStart(s) \/ Claim(s) \/ RenewRead(s) \/ Renew(s)
                         \/ ReleaseRead(s) \/ ReleaseRm(s)
                         \/ SweepList(s) \/ SweepRead(s) \/ SweepRm(s)
                         \/ Crash(s)
  \/ Expire

Spec == Init /\ [][Next]_vars

\* Operations that have begun go on, the heartbeat renews, the sweep sweeps.
\* Claims, releases, expiries and crashes need not happen.
Fairness ==
  \A s \in Sessions :
    /\ WF_vars(Claim(s)) /\ WF_vars(RenewRead(s) \/ Renew(s))
    /\ WF_vars(ReleaseRm(s)) /\ WF_vars(SweepList(s) \/ SweepRead(s) \/ SweepRm(s))

FairSpec == Spec /\ Fairness

----------------------------------------------------------------------------
(* Properties *)

\* Every variable keeps to its domain, only a session that is up has leases or
\* an operation under way, and a directory that does not exist has nothing in
\* it: a writeOwner that lost its directory to a concurrent rm fails instead of
\* leaving a file.
TypeOK ==
  /\ dir \in BOOLEAN /\ owner \in Sessions \cup {Nobody} /\ fresh \in BOOLEAN
  /\ tmps \subseteq Sessions /\ up \subseteq Sessions /\ own \subseteq up
  /\ pc \in [Sessions -> Step] /\ sweep \in [Sessions -> {"idle", "read", "rm"}]
  /\ clean \in BOOLEAN
  /\ \A s \in Sessions : pc[s] # "idle" => s \in up
  /\ ~dir => owner = Nobody /\ tmps = {}

\* As long as operations never overlapped and no live lease expired, a session
\* that has the lease in ownedLeases is the one owner.json names: no two
\* sessions have it, and no sweep or takeover removed it.
SerialLeaseIsTrue ==
  \A s \in own : clean /\ pc[s] = "idle" => owner = s

\* Two sessions that both think they have the lease do not go on doing so: the
\* heartbeat of one of them finds the other's name.  This needs moments at which
\* no operation is in progress (heartbeats are seconds apart, operations take
\* milliseconds): two renewals that overlapped every time would each overwrite
\* the other's owner for ever.
Quiet == \A s \in Sessions : pc[s] = "idle"

SplitHeals ==
  []<>Quiet => \A s, t \in Sessions :
    s # t => (s \in own /\ t \in own ~> ~(s \in own /\ t \in own))

\* The lease a crashed session leaves behind does not block the path for ever,
\* as long as a session that sweeps lives.
DeadLeaseGoes ==
  \A s \in Sessions, t \in Sweepers :
    s # t => (owner = s /\ s \notin up /\ t \in up ~> owner # s \/ t \notin up)

\* README.md: claims are there so that two sessions do not overwrite the same
\* path.  Of two concurrent first claims both may succeed, as each takes the
\* other's new directory, which has no owner yet, for an abandoned one.
OneHolder == Cardinality(own) <= 1
=============================================================================
