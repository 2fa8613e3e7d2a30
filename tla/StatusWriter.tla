----------------------------- MODULE StatusWriter -----------------------------
(***************************************************************************)
(* The StatusWriter of src/src/status.ts: how the events of a session      *)
(* (runs, tools, a new name, the heartbeat) reach its registry entry on    *)
(* disk.  A method makes a patch and dispatches it.  A dispatch within the *)
(* throttle only adds the patch to "pending"; another one writes the whole *)
(* entry, patched, and mirrors what it wrote back into the entry once the  *)
(* write is over.  Only then the method patches the entry itself.          *)
(*                                                                         *)
(* A throttled call is one step: its continuation runs before the next     *)
(* event of the host.  A write is a call of its own: it lands, or fails,   *)
(* and is continued later, and writes may overtake one another.            *)
(* Of the entry's fields the model keeps the state, the active tool and    *)
(* the session name; time stamps and context usage travel the same way.    *)
(***************************************************************************)
EXTENDS Naturals, Sequences, SequencesExt

CONSTANTS Tools, Names,
          MaxCalls,    \* writes in progress at a time
          MaxFailures  \* writes that fail

ASSUME StatusBounds == MaxCalls \in Nat \ {0} /\ MaxFailures \in Nat

VARIABLES
  host,       \* the session as it is: what an up-to-date entry says
  entry,      \* the entry in memory
  disk,       \* the registry file, Absent once it is removed
  pending,    \* patches that have not been written: field -> value
  throttled,  \* lastWriteAt is less than STATUS_WRITE_THROTTLE_MS ago
  calls,      \* writes in progress
  phase,      \* "up", "closing" (shutdown has begun) or "closed"
  failures,   \* writes that have failed
  fresh,      \* the entry on disk is no older than STALE_THRESHOLD_MS
  alive,      \* the process of the session runs
  clean       \* history: no two writes ever overlapped, and no heartbeat came
              \* during a write

writerVars == <<host, entry, disk, pending, throttled, calls, phase, failures, fresh, alive, clean>>

None   == "none"
Absent == [state |-> "absent"]

Field == {"state", "tool", "name"}
Entry == [state: {"idle", "running"}, tool: Tools \cup {None}, name: Names]

\* A patch sets some of the fields.
Patch == {p \in UNION {[fields -> {"idle", "running", None} \cup Tools \cup Names] :
                         fields \in SUBSET Field} :
            /\ "state" \in DOMAIN p => p.state \in {"idle", "running"}
            /\ "tool" \in DOMAIN p => p.tool \in Tools \cup {None}
            /\ "name" \in DOMAIN p => p.name \in Names}

\* A write in progress: what it writes, what its method will patch into the
\* entry afterwards, and whether the disk is done.
Call == [merged: Entry, after: Patch, landed: BOOLEAN]

NoPatch == <<>>

\* { ...base, ...patch }
Patched(base, patch) ==
  [f \in DOMAIN base \cup DOMAIN patch |-> IF f \in DOMAIN patch THEN patch[f] ELSE base[f]]

----------------------------------------------------------------------------
(* dispatch *)

\* Slip: the throttle does not keep the patch
ThrottleForgetful(patch, after) ==
  /\ entry' = Patched(entry, after)
  /\ UNCHANGED <<pending, throttled, calls, clean>>

\* Within the throttle the patch waits in "pending" and the method goes on.
Throttle(patch, after) ==
  /\ pending' = Patched(pending, patch)
  /\ entry' = Patched(entry, after)
  /\ clean' = (clean /\ ("state" \in DOMAIN patch => calls = <<>>))
  /\ UNCHANGED <<throttled, calls>>

\* Otherwise the whole entry is written, with everything pending in it.
Write(patch, after) ==
  /\ Len(calls) < MaxCalls
  /\ calls' = Append(calls, [merged |-> Patched(Patched(entry, pending), patch),
                             after |-> after, landed |-> FALSE])
  /\ pending' = NoPatch
  /\ throttled' = TRUE
  /\ clean' = (clean /\ calls = <<>>)
  /\ UNCHANGED entry

Dispatch(patch, after, isTransition) ==
  IF throttled /\ ~isTransition THEN Throttle(patch, after) ELSE Write(patch, after)

----------------------------------------------------------------------------
(* The methods, each called by an event of the host *)

HostEvent(patch, isTransition) ==
  /\ phase = "up"
  /\ host' = Patched(host, patch)
  /\ Dispatch(patch, patch, isTransition)
  /\ UNCHANGED <<disk, phase, failures, fresh, alive>>

agentStart ==
  /\ host.state = "idle"
  /\ HostEvent([state |-> "running"], TRUE)

\* The run is over: agent_settled follows the end of its last tool.
agentSettled ==
  /\ host.state = "running" /\ host.tool = None
  /\ HostEvent([state |-> "idle", tool |-> None], TRUE)

toolStart(tool) ==
  /\ host.state = "running" /\ host.tool = None
  /\ HostEvent([tool |-> tool], FALSE)

toolEnd ==
  /\ host.tool # None
  /\ HostEvent([tool |-> None], FALSE)

sessionInfoChanged(name) ==
  /\ name # host.name
  /\ HostEvent([name |-> name], FALSE)

\* Slip: the heartbeat only patches the entry in memory
HeartbeatInMemory ==
  /\ phase = "up"
  /\ Throttle([state |-> entry.state], NoPatch)
  /\ UNCHANGED <<host, disk, phase, failures, fresh, alive>>

\* Slip: the shutdown leaves the heartbeat's timer running
HeartbeatForever ==
  /\ alive
  /\ Dispatch([state |-> entry.state], NoPatch, FALSE)
  /\ UNCHANGED <<host, disk, phase, failures, fresh, alive>>

\* The heartbeat's patch repeats the state the entry has now; afterwards it
\* only touches the time stamp and the usage.
heartbeat ==
  /\ phase = "up"
  /\ Dispatch([state |-> entry.state], NoPatch, FALSE)
  /\ UNCHANGED <<host, disk, phase, failures, fresh, alive>>

----------------------------------------------------------------------------
(* Writes, time and the end *)

\* The rename of a write.  writeRegistryEntry's failures are ignored.
Lands(i) ==
  /\ ~calls[i].landed
  /\ calls' = [calls EXCEPT ![i].landed = TRUE]
  /\ \/ disk' = calls[i].merged /\ fresh' = TRUE /\ UNCHANGED failures
     \/ failures < MaxFailures /\ failures' = failures + 1 /\ UNCHANGED <<disk, fresh>>
  /\ UNCHANGED <<host, entry, pending, throttled, phase, alive, clean>>

\* The dispatch resumes, mirrors what it wrote into the entry, and its method
\* patches the entry.
Continues(i) ==
  /\ calls[i].landed
  /\ entry' = Patched(calls[i].merged, calls[i].after)
  /\ calls' = RemoveAt(calls, i)
  /\ UNCHANGED <<host, disk, pending, throttled, phase, failures, fresh, alive, clean>>

ThrottlePasses ==
  /\ throttled
  /\ throttled' = FALSE
  /\ UNCHANGED <<host, entry, disk, pending, calls, phase, failures, fresh, alive, clean>>

\* session_shutdown stops the heartbeat, and later removes the entry.  It does
\* not wait for writes in progress.
ShutdownBegins ==
  /\ phase = "up"
  /\ phase' = "closing"
  /\ UNCHANGED <<host, entry, disk, pending, throttled, calls, failures, fresh, alive, clean>>

EntryRemoved ==
  /\ phase = "closing"
  /\ phase' = "closed" /\ disk' = Absent
  /\ UNCHANGED <<host, entry, pending, throttled, calls, failures, fresh, alive, clean>>

\* Time passes over the entry of a session that has ended.  Bound: the entry of
\* one that is up does not get so old (LivenessMonitor has those that stall).
GoesStale ==
  /\ phase = "closed" /\ fresh
  /\ fresh' = FALSE
  /\ UNCHANGED <<host, entry, disk, pending, throttled, calls, phase, failures, alive, clean>>

\* The process ends, perhaps long after the session (a reload), and its writes
\* with it.
ProcessEnds ==
  /\ phase = "closed" /\ alive
  /\ alive' = FALSE /\ calls' = <<>>
  /\ UNCHANGED <<host, entry, disk, pending, throttled, phase, failures, fresh, clean>>

\* sweepStaleRegistryFiles of a peer: the entry is stale and its process dead.
PeerSweeps ==
  /\ disk # Absent /\ ~fresh /\ ~alive
  /\ disk' = Absent
  /\ UNCHANGED <<host, entry, pending, throttled, calls, phase, failures, fresh, alive, clean>>

\* readRegistry lists the session.
ListedByPeers == disk # Absent /\ fresh /\ alive

----------------------------------------------------------------------------
WriterInit ==
  /\ host \in [state: {"idle"}, tool: {None}, name: Names]
  /\ entry = host /\ disk = host
  /\ pending = NoPatch /\ throttled = FALSE /\ calls = <<>>
  /\ phase = "up" /\ failures = 0
  /\ fresh = TRUE /\ alive = TRUE /\ clean = TRUE

WriteMoves == \E i \in 1..Len(calls) : Lands(i) \/ Continues(i)

WriterNext ==
  \/ agentStart \/ agentSettled \/ toolEnd \/ heartbeat
  \/ \E tool \in Tools : toolStart(tool)
  \/ \E name \in Names : sessionInfoChanged(name)
  \/ WriteMoves
  \/ ThrottlePasses \/ ShutdownBegins \/ EntryRemoved
  \/ GoesStale \/ ProcessEnds \/ PeerSweeps

WriterSpec == WriterInit /\ [][WriterNext]_writerVars

\* Writes come to an end, time passes and the heartbeat beats.  What the host
\* does is its own affair.
WriterFairSpec ==
  /\ WriterSpec
  /\ WF_writerVars(WriteMoves) /\ WF_writerVars(ThrottlePasses) /\ WF_writerVars(heartbeat)
  /\ WF_writerVars(GoesStale)

----------------------------------------------------------------------------
(* Properties *)

\* Every variable keeps to its domain: an entry is always a whole one.
WriterTypeOK ==
  /\ host \in Entry /\ entry \in Entry /\ disk \in Entry \cup {Absent}
  /\ pending \in Patch
  /\ throttled \in BOOLEAN /\ calls \in Seq(Call) /\ Len(calls) <= MaxCalls
  /\ phase \in {"up", "closing", "closed"} /\ failures \in 0..MaxFailures
  /\ fresh \in BOOLEAN /\ alive \in BOOLEAN /\ clean \in BOOLEAN

\* status.ts:40 "eliminating the read-modify-write race": likewise it is the
\* registry file and the patches that wait, unless a write has failed.  Nothing
\* a method patched is lost on the way to the disk.
NothingIsLost ==
  clean /\ calls = <<>> /\ failures = 0 /\ phase # "closed" => Patched(disk, pending) = host

\* A name that the session keeps reaches the registry, and stays there, even if
\* a write failed: the heartbeat writes the whole entry again.
NameIsPublished ==
  \A name \in Names :
    <>[](host.name = name /\ phase = "up" /\ clean) =>
      <>[](disk # Absent /\ disk.name = name)

\* A session that has shut down disappears from its peers' lists for good.  A
\* write in progress may rename the entry back after its removal, also fresh;
\* but nobody beats for it any more.
ClosedSessionIsGone == phase = "closed" ~> []~ListedByPeers
=============================================================================
