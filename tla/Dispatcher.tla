------------------------------ MODULE Dispatcher ------------------------------
(***************************************************************************)
(* The InboxDispatcher of src/src/dispatcher.ts: the sole reader of one    *)
(* inbox.  The interval timer and the watcher's wake-ups start polls, one  *)
(* at a time; a poll takes the directory's fingerprint (mtime, number of   *)
(* files, total size), is skipped when that shows no change, and otherwise *)
(* reads, routes and removes the files it has listed, in order.  Senders   *)
(* rename temporary files into the inbox meanwhile, and a peer whose sweep *)
(* began when this session was not listed (cleanupStaleInstanceDirs in     *)
(* src/src/registry.ts) may remove the directory under the poll's feet.    *)
(*                                                                         *)
(* Files are numbered in the order of their names.  A message has an id    *)
(* and a size; a sender may repeat the message it sent last.               *)
(* The directory's mtime advances with every change; where it is Coarse,   *)
(* two changes may leave the same mtime.                                   *)
(***************************************************************************)
EXTENDS Naturals, SequencesExt, FiniteSetsExt

CONSTANTS
  MaxFiles,  \* files that are sent
  Sizes,     \* the sizes a message may have
  SeenCap,   \* DISPATCHER_SEEN_CAP
  Coarse,    \* may the mtime stay the same through a change?
  MayFail,   \* may a handler throw, or the read of a file fail?
  MaxSweeps  \* times that a peer removes the directory

ASSUME DispatcherAssumption ==
  /\ MaxFiles \in Nat \ {0} /\ SeenCap \in Nat \ {0} /\ Sizes \subseteq Nat
  /\ Coarse \in BOOLEAN /\ MayFail \in BOOLEAN /\ MaxSweeps \in Nat

VARIABLES
  sent,      \* the messages sent so far, by the number of their file
  tmp,       \* files that are still temporary
  inbox,     \* files in the inbox
  mtime,     \* of the inbox directory
  exists,    \* is there an inbox directory?
  sweeps,    \* times that it was removed
  pc,        \* the next step of the poll in progress
  statted,   \* the mtime the poll has found
  listed,    \* the files it has listed and not yet dealt with
  lastSeen,  \* lastSeenFingerprint
  seen,      \* ids, oldest first
  routed,    \* history: ids handed to a handler
  current,   \* this.current is the promise of the poll in progress
  stop       \* "no", "waiting" (stop() was called) or "done" (it has returned)

dirVars  == <<sent, tmp, inbox, mtime, exists, sweeps>>
pollVars == <<pc, statted, listed, lastSeen, seen, routed>>
vars     == <<dirVars, pollVars, current, stop>>

Files   == 1..MaxFiles
Message == [id: Files, size: Sizes]

\* The number of files includes temporary ones, their size does not count.
FingerprintOf(m, files, tmps) ==
  [mtime |-> m, count |-> Cardinality(files) + Cardinality(tmps),
   size  |-> MapThenSumSet(LAMBDA f : sent[f].size, files)]

\* null: unlike any fingerprint
NoFingerprint == [mtime |-> 0, count |-> MaxFiles + 1, size |-> 0]

shouldSkipPoll(fingerprint, last) ==
  /\ fingerprint.mtime <= last.mtime
  /\ fingerprint.count = last.count /\ fingerprint.size = last.size

\* A change of the directory
Changes == mtime' \in IF Coarse THEN {mtime, mtime + 1} ELSE {mtime + 1}

----------------------------------------------------------------------------
(* writeMessage, of the senders *)

\* mkdir and the temporary file
WriteTmp ==
  /\ Len(sent) < MaxFiles
  /\ \E message \in [id: {Len(sent) + 1}, size: Sizes]
                      \cup (IF sent = <<>> THEN {} ELSE {Last(sent)}) :
       sent' = Append(sent, message)
  /\ tmp' = tmp \cup {Len(sent) + 1} /\ exists' = TRUE
  /\ Changes
  /\ UNCHANGED <<inbox, sweeps, pollVars, current, stop>>

Rename(f) ==
  /\ tmp' = tmp \ {f} /\ inbox' = inbox \cup {f}
  /\ Changes
  /\ UNCHANGED <<sent, exists, sweeps, pollVars, current, stop>>

\* A peer's sweep removes the directory with what is in it.  A directory made
\* anew has a later mtime.
PeerSweeps ==
  /\ exists /\ sweeps < MaxSweeps
  /\ exists' = FALSE /\ sweeps' = sweeps + 1
  /\ tmp' = {} /\ inbox' = {}
  /\ Changes
  /\ UNCHANGED <<sent, pollVars, current, stop>>

----------------------------------------------------------------------------
(* poll *)

Goto(step) == pc' = step /\ UNCHANGED <<statted, listed, lastSeen, seen, routed>>

\* Slip: the timer leaves it to the watcher to look again
IntervalIdle ==
  /\ stop = "no" /\ lastSeen = NoFingerprint /\ pc = "none"
  /\ Goto("stat") /\ current' = TRUE
  /\ UNCHANGED <<dirVars, stop>>

\* Slip: the watcher is not closed, and its polls go on
WakeUpStopped ==
  /\ pc = "none"
  /\ Goto("stat") /\ current' = FALSE
  /\ UNCHANGED <<dirVars, stop>>

\* The interval timer stores the promise of its poll, also of one that returns
\* at once because another poll is in progress.
IntervalTick ==
  /\ stop = "no"
  /\ IF pc = "none" THEN Goto("stat") /\ current' = TRUE
                    ELSE UNCHANGED pollVars /\ current' = FALSE
  /\ UNCHANGED <<dirVars, stop>>

\* The watcher's onWakeUp: nobody stores the promise.
WakeUp ==
  /\ stop = "no" /\ pc = "none"
  /\ Goto("stat") /\ current' = FALSE
  /\ UNCHANGED <<dirVars, stop>>

\* There may be no inbox yet, or none any more.
StatDir ==
  /\ pc = "stat"
  /\ pc' = (IF exists THEN "list" ELSE "none") /\ statted' = mtime
  /\ UNCHANGED <<dirVars, listed, lastSeen, seen, routed, current, stop>>

\* The listing, the sizes of the files in it, and the decision
ListDir ==
  /\ pc = "list"
  /\ LET fingerprint == FingerprintOf(statted, inbox, tmp)
     IN  IF ~exists \/ shouldSkipPoll(fingerprint, lastSeen)
         THEN /\ pc' = "none"
              /\ UNCHANGED <<listed, lastSeen>>
         ELSE /\ pc' = "next"
              /\ lastSeen' = fingerprint /\ listed' = inbox
  /\ UNCHANGED <<dirVars, statted, seen, routed, current, stop>>

\* The dedup history, oldest id dropped
Remember(id) ==
  seen' = IF Len(seen) < SeenCap THEN Append(seen, id) ELSE Append(Tail(seen), id)

First == Min(listed)

\* rm of the first file listed, if it is still there
RemoveFile ==
  /\ inbox' = inbox \ {First} /\ listed' = listed \ {First}
  /\ IF First \in inbox THEN Changes ELSE UNCHANGED mtime
  /\ UNCHANGED <<sent, tmp, exists, sweeps>>

\* A duplicate is removed, and so is a file that could not be read.
Discard ==
  /\ pc = "next" /\ listed # {}
  /\ MayFail \/ First \notin inbox \/ Contains(seen, sent[First].id)
  /\ RemoveFile
  /\ UNCHANGED <<pc, statted, lastSeen, seen, routed, current, stop>>

\* Slip: ids are remembered but not looked up
RouteAll ==
  /\ pc = "next" /\ listed # {} /\ First \in inbox
  /\ Remember(sent[First].id)
  /\ routed' = Append(routed, sent[First].id)
  /\ pc' = "routing"
  /\ UNCHANGED <<dirVars, statted, listed, lastSeen, current, stop>>

\* A new message goes to its handler, which the poll waits for.
Route ==
  /\ pc = "next" /\ listed # {}
  /\ First \in inbox /\ ~Contains(seen, sent[First].id)
  /\ Remember(sent[First].id)
  /\ routed' = Append(routed, sent[First].id)
  /\ pc' = "routing"
  /\ UNCHANGED <<dirVars, statted, listed, lastSeen, current, stop>>

\* The handler is done and the file is removed.  When it threw, the poll ends
\* there and then.
Routed ==
  /\ pc = "routing"
  /\ RemoveFile
  /\ \/ pc' = "next"
     \/ MayFail /\ pc' = "none"
  /\ UNCHANGED <<statted, lastSeen, seen, routed, current, stop>>

\* Slip: the fingerprint is taken again, to spare the next poll the work
PollEndsAfresh ==
  /\ pc = "next" /\ listed = {}
  /\ pc' = "none" /\ lastSeen' = FingerprintOf(mtime, inbox, tmp)
  /\ UNCHANGED <<dirVars, statted, listed, seen, routed, current, stop>>

\* The list is done.
PollEnds ==
  /\ pc = "next" /\ listed = {}
  /\ Goto("none")
  /\ UNCHANGED <<dirVars, current, stop>>

----------------------------------------------------------------------------
(* stop *)

StopCalled ==
  /\ stop = "no"
  /\ stop' = "waiting"
  /\ UNCHANGED <<dirVars, pollVars, current>>

\* await this.current
StopReturns ==
  /\ stop = "waiting" /\ ~(current /\ pc # "none")
  /\ stop' = "done"
  /\ UNCHANGED <<dirVars, pollVars, current>>

----------------------------------------------------------------------------
Init ==
  /\ sent = <<>> /\ tmp = {} /\ inbox = {} /\ mtime = 0
  /\ exists = FALSE /\ sweeps = 0
  /\ pc = "none" /\ statted = 0 /\ listed = {} /\ lastSeen = NoFingerprint
  /\ seen = <<>> /\ routed = <<>>
  /\ current = FALSE /\ stop = "no"

PollStep == StatDir \/ ListDir \/ Discard \/ Route \/ Routed \/ PollEnds

Next ==
  \/ WriteTmp \/ (\E f \in tmp : Rename(f)) \/ PeerSweeps
  \/ IntervalTick \/ WakeUp \/ PollStep
  \/ StopCalled \/ StopReturns

Spec == Init /\ [][Next]_vars

\* The interval timer fires, a poll goes on and handlers return.  The watcher is
\* a hint, which nothing depends on.
FairSpec ==
  /\ Spec
  /\ WF_vars(IntervalTick /\ pc = "none") /\ WF_vars(PollStep) /\ WF_vars(StopReturns)

----------------------------------------------------------------------------
(* Properties *)

\* Every variable keeps to its domain; the dedup history keeps its cap.
TypeOK ==
  /\ sent \in Seq(Message) /\ Len(sent) <= MaxFiles
  /\ tmp \subseteq 1..Len(sent) /\ inbox \subseteq 1..Len(sent) /\ tmp \cap inbox = {}
  /\ mtime \in Nat /\ statted \in 0..mtime /\ listed \subseteq 1..Len(sent)
  /\ exists \in BOOLEAN /\ sweeps \in 0..MaxSweeps /\ (~exists => inbox = {})
  /\ pc \in {"none", "stat", "list", "next", "routing"}
  /\ lastSeen \in [mtime: Nat, count: Nat, size: Nat]
  /\ seen \in Seq(Files) /\ Len(seen) <= SeenCap /\ routed \in Seq(Files)
  /\ current \in BOOLEAN /\ stop \in {"no", "waiting", "done"}

\* A message that was sent twice in a row is handled once, whichever polls see
\* its files and whether its handler throws.
RoutedOnce == \A i, j \in 1..Len(routed) : routed[i] = routed[j] => i = j

\* Mail is never hidden: when no poll is in progress and the next one would be
\* skipped there is no mail.  Mail that comes in during a poll, or is left by a
\* poll that a handler ended, changes the fingerprint.
SkipHidesNoMail ==
  pc = "none" /\ shouldSkipPoll(FingerprintOf(mtime, inbox, tmp), lastSeen) => inbox = {}

\* Mail is handled and removed, unless the dispatcher is stopped, even when the
\* watcher never wakes it, and also when the directory is a new one.
MailIsHandled == \A f \in Files : f \in inbox ~> f \notin inbox \/ stop # "no"

\* stop returns, and polling comes to rest: the shutdown that awaits it goes on,
\* and a poll that stop did not wait for (a tick has stored the promise of one
\* that was skipped, or the watcher has started it) is the last one.
StopComesToRest == stop # "no" ~> [](stop = "done" /\ pc = "none")
=============================================================================
