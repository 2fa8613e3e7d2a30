----------------------------- MODULE LeaseLock -----------------------------
(***************************************************************************)
(* withLeaseLock of src/src/index.ts: the operations a session performs on *)
(* one lease are chained by promises, so that heartbeat renewals, write    *)
(* gates, claims and releases never run concurrently.                      *)
(*                                                                         *)
(* leaseLocks holds, per lease name, the promise of the latest call.  A    *)
(* call waits for the promise it found there, runs its operation and opens *)
(* its gate.  A call c stands for its own promise "queued"; as c only runs *)
(* once the previous promise has resolved, queued resolves when c is done. *)
(* A caller may call again, when nobody refers to its last promise.        *)
(***************************************************************************)
EXTENDS Naturals, Sequences

CONSTANTS Calls,  \* the callers of withLeaseLock for one lease name
          NoCall  \* no entry in leaseLocks: Promise.resolve()

ASSUME NoCallAssumption == NoCall \notin Calls

VARIABLES phase,     \* of each call
          previous,  \* the promise each call waits for
          leaseLock, \* leaseLocks.get(name)
          line       \* history: calls that came and have not left, in order

vars == <<phase, previous, leaseLock, line>>

Phase == {"idle", "waiting", "running", "done"}

Resolved(p) == p # NoCall => phase[p] = "done"

\* Is c free to call?
Free(c) == phase[c] \in {"idle", "done"} /\ \A d \in Calls : previous[d] # c

\* Slip: a call that finds an operation running does not wait for the waiting
\* ones; the mutual exclusion is lost when two of them wait
EnterBesideTheLast(c) ==
  /\ Free(c)
  /\ phase' = [phase EXCEPT ![c] = "waiting"]
  /\ previous' = [previous EXCEPT ![c] = leaseLock]
  /\ leaseLock' = IF leaseLock = NoCall THEN c ELSE leaseLock
  /\ line' = Append(line, c)

\* The synchronous part: take the current promise, put one's own in its place
Enter(c) ==
  /\ Free(c)
  /\ phase' = [phase EXCEPT ![c] = "waiting"]
  /\ previous' = [previous EXCEPT ![c] = leaseLock]
  /\ leaseLock' = c
  /\ line' = Append(line, c)

\* await previous is over, the operation begins
Run(c) ==
  /\ phase[c] = "waiting" /\ Resolved(previous[c])
  /\ phase' = [phase EXCEPT ![c] = "running"]
  /\ UNCHANGED <<previous, leaseLock, line>>

\* Slip: the entry is deleted whoever put it there
LeaveAndDelete(c) ==
  /\ phase[c] = "running"
  /\ phase' = [phase EXCEPT ![c] = "done"]
  /\ leaseLock' = NoCall
  /\ line' = SelectSeq(line, LAMBDA d : d # c)
  /\ previous' = [previous EXCEPT ![c] = NoCall]

\* Slip: the gate stays closed when the operation throws
LeaveOnThrow(c) ==
  /\ phase[c] = "running"
  /\ phase' = [phase EXCEPT ![c] = "thrown"]
  /\ leaseLock' = IF leaseLock = c THEN NoCall ELSE leaseLock
  /\ line' = Tail(line)
  /\ previous' = [previous EXCEPT ![c] = NoCall]

\* Slip: the entry is never deleted
LeaveAndKeep(c) ==
  /\ phase[c] = "running"
  /\ phase' = [phase EXCEPT ![c] = "done"]
  /\ line' = Tail(line)
  /\ previous' = [previous EXCEPT ![c] = NoCall]
  /\ UNCHANGED leaseLock

\* The finally block, whether the operation returned or threw
Leave(c) ==
  /\ phase[c] = "running"
  /\ phase' = [phase EXCEPT ![c] = "done"]
  /\ leaseLock' = IF leaseLock = c THEN NoCall ELSE leaseLock
  /\ line' = Tail(line)
  /\ previous' = [previous EXCEPT ![c] = NoCall]

Init ==
  /\ phase = [c \in Calls |-> "idle"]
  /\ previous = [c \in Calls |-> NoCall]
  /\ leaseLock = NoCall
  /\ line = <<>>

Next == \E c \in Calls : Enter(c) \/ Run(c) \/ Leave(c)

Spec == Init /\ [][Next]_vars

\* Every operation ends (its file operations return or throw), and a resolved
\* promise runs its continuation.
FairSpec == Spec /\ \A c \in Calls : WF_vars(Run(c)) /\ WF_vars(Leave(c))

----------------------------------------------------------------------------
(* Properties *)

\* Every variable keeps to its domain.
TypeOK ==
  /\ phase \in [Calls -> Phase]
  /\ previous \in [Calls -> Calls \cup {NoCall}]
  /\ leaseLock \in Calls \cup {NoCall}
  /\ line \in Seq(Calls)

\* No two operations on one lease run at the same time: what an operation read
\* of ownedLeases and of the owner file still holds when it acts on it.
OneOperationAtATime ==
  \A c, d \in Calls : phase[c] = "running" /\ phase[d] = "running" => c = d

\* leaseLocks forgets a name exactly when no operation on it is left: the map
\* does not grow with the files a session ever wrote.
EntryIsDropped ==
  leaseLock = NoCall <=> \A c \in Calls : phase[c] \in {"idle", "done"}

\* The chain of promises is a first-come-first-served lock.
Fifo == INSTANCE FifoLock WITH
          holding <- line # <<>> /\ phase[Head(line)] = "running"
ImplementsFifoLock == Fifo!Spec

\* Every operation gets its turn.
EveryCallIsServed == \A c \in Calls : phase[c] = "waiting" ~> phase[c] = "done"

\* The chain: calls in line wait for the one before them, only the first runs,
\* and the entry of the map is the last of them.
ChainInv ==
  /\ \A i, j \in DOMAIN line : line[i] = line[j] => i = j
  /\ \A c \in Calls : phase[c] \in {"waiting", "running"}
                        <=> \E i \in DOMAIN line : line[i] = c
  /\ \A i \in DOMAIN line : i > 1 => /\ previous[line[i]] = line[i - 1]
                                     /\ phase[line[i]] = "waiting"
  /\ line # <<>> => Resolved(previous[Head(line)])
  /\ leaseLock = IF line = <<>> THEN NoCall ELSE line[Len(line)]
=============================================================================
