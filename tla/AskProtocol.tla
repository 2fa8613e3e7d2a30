---------------------------- MODULE AskProtocol ----------------------------
(***************************************************************************)
(* The ask protocol of the metro bus between one sending session and one   *)
(* receiving session (src/src/asks.ts, the ask handlers of                 *)
(* src/src/index.ts and the routing of src/src/dispatcher.ts).             *)
(*                                                                         *)
(* The sender's metro_ask registers a waiter, writes the ask into the      *)
(* receiver's inbox, waits for the first correlated message, records what  *)
(* it learns in session entries and arms a liveness monitor.  The          *)
(* receiver queues at most MaxQueue asks, runs one at a time and sends     *)
(* ack, progress, reply and fail messages back.  metro_cancel may be       *)
(* called on any recorded ask.  The receiver may crash.                    *)
(*                                                                         *)
(* Grain.  One step is the synchronous code between two awaits, in one of  *)
(* the two processes.  A message being written is in flight (inFlight,     *)
(* desk, stage); its landing (the rename in writeMessage) is one step with *)
(* the code that awaited it.  An inbox is handled in the order its files   *)
(* landed: of files that a poll finds together the one created first comes *)
(* first, which is an order in which they might have landed.               *)
(***************************************************************************)
EXTENDS Naturals, Sequences, FiniteSets, SequencesExt

CONSTANTS Asks,       \* request IDs the sender uses
          Delegated,  \* those sent by metro_delegate, the others by metro_ask
          ById,       \* those addressed by instanceId, the others by metroName
          Recallable, \* those metro_cancel may be called on, once each
          MayCrash,   \* may the receiver crash?
          MaxQueue,   \* MAX_ASK_QUEUE_DEPTH
          NoAsk       \* no ask at all (null, undefined)

ASSUME AsksAssumption == NoAsk \notin Asks
ASSUME KindsAssumption == Delegated \subseteq Asks /\ ById \subseteq Asks
ASSUME BoundsAssumption == Recallable \subseteq Asks /\ MayCrash \in BOOLEAN
ASSUME MaxQueueAssumption == MaxQueue \in Nat \ {0}

VARIABLES
  call,      \* sender: where the enqueueAsk of each request is
  waiter,    \* sender: dispatcher.pending, requests with a waiter
  rec,       \* sender: status of the latest metrol:request entry
  why,       \* sender: reason in that entry
  label,     \* sender: is that entry's target the metroName?
  mon,       \* sender: outgoingAskMonitors, requests with an active monitor
  recall,    \* sender: requests metro_cancel was called on -> delivered?
  inFlight,  \* asks and cancels the sender is writing, pings of the receiver
  inboxR,    \* receiver's inbox: asks and cancels
  inboxS,    \* sender's inbox: acks, pings, replies and fails
  alive,     \* receiver: the session has not crashed
  waiting,   \* receiver: AskQueue.waiting
  active,    \* receiver: runningIncomingAsk (NoAsk when AskQueue.busy is false)
  stage,     \* receiver: where runIncomingAsk is
  cancelled, \* receiver: cancelledAsks
  desk,      \* receiver: the message the dispatcher's handler is writing
  rrec,      \* receiver: status of its latest metrol:request entry
  verdict,   \* history: how the receiver disposed of each ask
  heard,     \* history: requests whose verdict the sender's dispatcher routed
  honoured   \* history: cancels that found their ask waiting or running

senderVars   == <<call, waiter, rec, why, label, mon, recall>>
netVars      == <<inFlight, inboxR, inboxS>>
queueVars    == <<waiting, active, stage>>
receiverVars == <<alive, queueVars, cancelled, desk, rrec>>
historyVars  == <<verdict, heard, honoured>>
vars == <<senderVars, netVars, receiverVars, historyVars>>

----------------------------------------------------------------------------
(* Data *)

Terminal == {"answered", "failed"}
AskState == {"none", "queued", "accepted", "running"} \cup Terminal
Reason   == {"none", "busy", "cancelled", "liveness"}
Outcome  == {"answered", "failed"}
Verdict  == {"none", "busy", "dropped", "discarded", "unsent"} \cup Outcome

\* enqueueAsk: not called, writing, waiting for the ack, and how it returned:
\* ack null, ack an error string, thrown
Call  == {"idle", "writing", "acking", "acked", "unacked", "thrown"}

\* runIncomingAsk: none, agent run awaited, writing the reply with an outcome,
\* writing the fail of an ask that was cancelled before it started
Stage == {"none", "agent", "answered", "failed", "dropping"}

ToReceiver == [type : {"ask", "cancel"}, ask : Asks]
Ack(a)      == [type |-> "ack", ask |-> a, of |-> "none"]
Ping(a)     == [type |-> "progress", ask |-> a, of |-> "none"]
Reply(a, o) == [type |-> "reply", ask |-> a, of |-> o]
Fail(a, r)  == [type |-> "fail", ask |-> a, of |-> r]
ToSender == {Ack(a) : a \in Asks} \cup {Ping(a) : a \in Asks}
       \cup {Reply(a, o) : a \in Asks, o \in Outcome}
       \cup {Fail(a, r) : a \in Asks, r \in {"busy", "cancelled"}}
InFlight == ToReceiver \cup {Ping(a) : a \in Asks}
NoMsg == [type |-> "none", ask |-> NoAsk, of |-> "none"]

STATE_RANK == [queued |-> 0, accepted |-> 1, running |-> 2,
               answered |-> 3, failed |-> 3]

applyRankedTransition(current, incoming) ==
  IF current \in Terminal THEN current
  ELSE IF incoming \in Terminal THEN incoming
  ELSE IF STATE_RANK[incoming] >= STATE_RANK[current] THEN incoming ELSE current

----------------------------------------------------------------------------
(* Sender: entries, waiters and monitors *)

\* pi.appendEntry("metrol:request", ...): the latest entry of a request wins.
\* byName: the entry's target is the receiver's metroName.
AppendEntry(a, status, reason, byName) ==
  /\ rec' = [rec EXCEPT ![a] = status]
  /\ why' = [why EXCEPT ![a] = reason]
  /\ label' = [label EXCEPT ![a] = byName]

\* Slip: the rank is not looked at
UnrankedAskUpdate(a, incoming, reason) == AppendEntry(a, incoming, reason, TRUE)

persistRankedAskUpdate(a, incoming, reason) ==
  IF applyRankedTransition(rec[a], incoming) = incoming
  THEN AppendEntry(a, incoming, reason, TRUE)
  ELSE UNCHANGED <<rec, why, label>>

\* Slip: only an acknowledged ask is watched
WatchOnlyAcked(a, answered) ==
  /\ call' = [call EXCEPT ![a] = IF answered THEN "acked" ELSE "unacked"]
  /\ IF a \in Delegated \/ ~answered
     THEN UNCHANGED <<rec, why, label, mon>>
     ELSE mon' = mon \cup {a} /\ AppendEntry(a, "accepted", "none", a \notin ById)

\* enqueueAsk resolves with ack null (answered = TRUE) or the timeout text, and
\* metro_ask goes on with afterAskEnqueued: no check of the current status.
\* metro_delegate neither records the ack nor arms a monitor.
EnqueueAskReturns(a, answered) ==
  /\ call' = [call EXCEPT ![a] = IF answered THEN "acked" ELSE "unacked"]
  /\ IF a \in Delegated
     THEN UNCHANGED <<rec, why, label, mon>>
     ELSE /\ mon' = mon \cup {a}
          /\ IF answered THEN AppendEntry(a, "accepted", "none", a \notin ById)
             ELSE UNCHANGED <<rec, why, label>>

\* metro_ask or metro_delegate resolves its target and registers the waiter
AskStart(a) ==
  /\ call[a] = "idle"
  /\ call' = [call EXCEPT ![a] = "writing"]
  /\ waiter' = waiter \cup {a}
  /\ inFlight' = inFlight \cup {[type |-> "ask", ask |-> a]}
  /\ UNCHANGED <<rec, why, label, mon, recall, inboxR, inboxS,
                 receiverVars, historyVars>>

\* resolveTarget finds no such live peer, or more than one
AskUnresolved(a) ==
  /\ call[a] = "idle"
  /\ call' = [call EXCEPT ![a] = "thrown"]
  /\ AppendEntry(a, "failed", "none", a \notin ById)
  /\ UNCHANGED <<waiter, mon, recall, netVars, receiverVars, historyVars>>

\* writeMessage refuses the message (payload over the limit): the waiter stays
AskUnwritten(a) ==
  /\ call[a] = "writing"
  /\ call' = [call EXCEPT ![a] = "thrown"]
  /\ inFlight' = inFlight \ {[type |-> "ask", ask |-> a]}
  /\ AppendEntry(a, "failed", "none", a \notin ById)
  /\ UNCHANGED <<waiter, mon, recall, inboxR, inboxS, receiverVars, historyVars>>

\* Slip: no monitor when the ack timer fired before the ask was written
LandsUnwatched(a) ==
  /\ call[a] = "writing"
  /\ inFlight' = inFlight \ {[type |-> "ask", ask |-> a]}
  /\ inboxR' = Append(inboxR, [type |-> "ask", ask |-> a])
  /\ AppendEntry(a, "queued", "none", TRUE)
  /\ call' = [call EXCEPT ![a] = IF a \in waiter THEN "acking" ELSE "unacked"]
  /\ UNCHANGED <<waiter, mon, recall, inboxS, receiverVars, historyVars>>

\* The ask file is in the inbox and the queued entry is appended.  When the
\* ack timer fired during the write, enqueueAsk returns at once.
AskLands(a) ==
  /\ call[a] = "writing"
  /\ inFlight' = inFlight \ {[type |-> "ask", ask |-> a]}
  /\ inboxR' = Append(inboxR, [type |-> "ask", ask |-> a])
  /\ AppendEntry(a, "queued", "none", TRUE)
  /\ IF a \in waiter
     THEN call' = [call EXCEPT ![a] = "acking"] /\ UNCHANGED mon
     ELSE /\ call' = [call EXCEPT ![a] = "unacked"]
          /\ mon' = IF a \in Delegated THEN mon ELSE mon \cup {a}
  /\ UNCHANGED <<waiter, recall, inboxS, receiverVars, historyVars>>

\* awaitReply's timer
AckTimeout(a) ==
  /\ a \in waiter
  /\ waiter' = waiter \ {a}
  /\ IF call[a] = "acking" THEN EnqueueAskReturns(a, FALSE)
     ELSE UNCHANGED <<call, rec, why, label, mon>>
  /\ UNCHANGED <<recall, netVars, receiverVars, historyVars>>

\* livenessMonitor fails the request: the target's entry is gone or stale, or
\* the hard ceiling passed (which may happen whatever the receiver does)
MonitorFails(a) ==
  /\ a \in mon
  /\ mon' = mon \ {a}
  /\ AppendEntry(a, "failed", "liveness", a \notin ById)
  /\ UNCHANGED <<call, waiter, recall, netVars, receiverVars, historyVars>>

\* metro_cancel: the entry is appended whatever the status was; the cancel is
\* written when a live session has the entry's target as its metroName
metro_cancel(a) ==
  /\ rec[a] # "none" /\ a \in Recallable /\ recall[a] = "no"
  /\ AppendEntry(a, "failed", "cancelled", label[a])
  /\ mon' = mon \ {a}
  /\ IF alive /\ label[a]
     THEN /\ recall' = [recall EXCEPT ![a] = "sent"]
          /\ inFlight' = inFlight \cup {[type |-> "cancel", ask |-> a]}
     ELSE /\ recall' = [recall EXCEPT ![a] = "local"]
          /\ UNCHANGED inFlight
  /\ UNCHANGED <<call, waiter, inboxR, inboxS, receiverVars, historyVars>>

CancelLands(a) ==
  /\ [type |-> "cancel", ask |-> a] \in inFlight
  /\ inFlight' = inFlight \ {[type |-> "cancel", ask |-> a]}
  /\ inboxR' = Append(inboxR, [type |-> "cancel", ask |-> a])
  /\ UNCHANGED <<senderVars, inboxS, receiverVars, historyVars>>

----------------------------------------------------------------------------
(* Sender: the dispatcher routes one message of its inbox *)

IsVerdict(m) == m.type \in {"reply", "fail"}

\* ack, reply and fail resolve the waiter of their request, whichever comes
TakenByWaiter(m) == m.type # "progress" /\ m.ask \in waiter

RouteToWaiter(m) ==
  /\ waiter' = waiter \ {m.ask}
  /\ IF call[m.ask] = "acking" THEN EnqueueAskReturns(m.ask, TRUE)
     ELSE UNCHANGED <<call, rec, why, label, mon>>

RouteToCallback(m) ==
  /\ CASE m.type = "ack"      -> UNCHANGED <<rec, why, label, mon>>
       [] m.type = "progress" -> /\ persistRankedAskUpdate(m.ask, "running", "none")
                                 /\ UNCHANGED mon
       [] m.type = "reply"    -> /\ mon' = mon \ {m.ask}
                                 /\ persistRankedAskUpdate(m.ask, m.of, "none")
       [] m.type = "fail"     -> /\ mon' = mon \ {m.ask}
                                 /\ persistRankedAskUpdate(m.ask, "failed", m.of)
  /\ UNCHANGED <<call, waiter>>

SenderRoutes ==
  /\ inboxS # <<>>
  /\ LET m == Head(inboxS) IN
     /\ inboxS' = Tail(inboxS)
     /\ IF TakenByWaiter(m) THEN RouteToWaiter(m) ELSE RouteToCallback(m)
     /\ heard' = IF IsVerdict(m) THEN heard \cup {m.ask} ELSE heard
  /\ UNCHANGED <<recall, inFlight, inboxR, receiverVars, verdict, honoured>>

----------------------------------------------------------------------------
(* Receiver: the queue and the run *)

\* Synchronous start of runIncomingAsk(b), c being cancelledAsks: the check for
\* a cancel, the running entry, the ping, the prompt (sendUserMessage may throw)
StartRun(b, c, throws) ==
  /\ active' = b
  /\ cancelled' = c \ {b}
  /\ IF b \in c
     THEN stage' = "dropping" /\ UNCHANGED <<rrec, inFlight>>
     ELSE /\ stage' = IF throws THEN "failed" ELSE "agent"
          /\ rrec' = [rrec EXCEPT ![b] = IF throws THEN "failed" ELSE "running"]
          /\ inFlight' = inFlight \cup {Ping(b)}

\* A run has ended: AskQueue's finally block pumps the next ask
RunEnds(c, throws) ==
  IF waiting = <<>>
  THEN /\ active' = NoAsk /\ stage' = "none" /\ cancelled' = c
       /\ UNCHANGED <<waiting, rrec, inFlight>>
  ELSE waiting' = Tail(waiting) /\ StartRun(Head(waiting), c, throws)

Depth == Len(waiting) + (IF active = NoAsk THEN 0 ELSE 1)

NextFor(type) == /\ alive /\ desk = NoMsg
                 /\ inboxR # <<>> /\ Head(inboxR).type = type

\* Slip: one ask too many
AskOverTheCap(throws) ==
  /\ NextFor("ask") /\ Depth <= MaxQueue
  /\ LET a == Head(inboxR).ask IN
     /\ desk' = Ack(a)
     /\ IF active = NoAsk
        THEN StartRun(a, cancelled, throws) /\ UNCHANGED waiting
        ELSE /\ waiting' = Append(waiting, a)
             /\ UNCHANGED <<active, stage, cancelled, rrec, inFlight>>
  /\ inboxR' = Tail(inboxR)
  /\ UNCHANGED <<senderVars, inboxS, alive, historyVars>>

\* onAsk: decline when the queue is full, else enqueue (the pump starts the
\* ask at once when nothing runs) and write the ack
HandleAsk(throws) ==
  /\ NextFor("ask")
  /\ LET a == Head(inboxR).ask IN
     IF Depth >= MaxQueue
     THEN /\ desk' = Fail(a, "busy")
          /\ verdict' = [verdict EXCEPT ![a] = "busy"]
          /\ UNCHANGED <<queueVars, cancelled, rrec, inFlight>>
     ELSE /\ desk' = Ack(a)
          /\ IF active = NoAsk
             THEN StartRun(a, cancelled, throws) /\ UNCHANGED waiting
             ELSE /\ waiting' = Append(waiting, a)
                  /\ UNCHANGED <<active, stage, cancelled, rrec, inFlight>>
          /\ UNCHANGED verdict
  /\ inboxR' = Tail(inboxR)
  /\ UNCHANGED <<senderVars, inboxS, alive, heard, honoured>>

\* Slip: the dropped ask stays in the queue
DroppedStaysQueued ==
  /\ NextFor("cancel")
  /\ LET a == Head(inboxR).ask IN
     /\ \E i \in DOMAIN waiting : waiting[i] = a
     /\ desk' = Fail(a, "cancelled")
     /\ verdict' = [verdict EXCEPT ![a] = "dropped"]
     /\ honoured' = honoured \cup {a}
  /\ inboxR' = Tail(inboxR)
  /\ UNCHANGED <<senderVars, inFlight, inboxS, alive, queueVars, cancelled,
                 rrec, heard>>

\* onCancel of a waiting ask: drop it and write a fail
CancelWaiting ==
  /\ NextFor("cancel")
  /\ \E i \in DOMAIN waiting :
       LET a == Head(inboxR).ask IN
       /\ waiting[i] = a
       /\ waiting' = RemoveAt(waiting, i)
       /\ desk' = Fail(a, "cancelled")
       /\ verdict' = [verdict EXCEPT ![a] = "dropped"]
       /\ honoured' = honoured \cup {a}
  /\ inboxR' = Tail(inboxR)
  /\ UNCHANGED <<senderVars, inFlight, inboxS, alive, active, stage, cancelled,
                 rrec, heard>>

\* onCancel of any other ask: mark it cancelled, and write a fail when it is
\* the running one
CancelMarked ==
  /\ NextFor("cancel")
  /\ LET a == Head(inboxR).ask IN
     /\ \A i \in DOMAIN waiting : waiting[i] # a
     /\ cancelled' = cancelled \cup {a}
     /\ desk' = IF active = a THEN Fail(a, "cancelled") ELSE NoMsg
     /\ honoured' = IF active = a /\ stage = "agent" THEN honoured \cup {a}
                    ELSE honoured
  /\ inboxR' = Tail(inboxR)
  /\ UNCHANGED <<senderVars, inFlight, inboxS, alive, queueVars, rrec, verdict,
                 heard>>

\* The handler's message is written; the entry that follows an ack or a busy
\* fail is appended without a look at the current one.
DeskLands ==
  /\ alive /\ desk # NoMsg
  /\ desk' = NoMsg
  /\ inboxS' = Append(inboxS, desk)
  /\ rrec' = CASE desk.type = "ack" -> [rrec EXCEPT ![desk.ask] = "accepted"]
               [] desk.of = "busy"  -> [rrec EXCEPT ![desk.ask] = "failed"]
               [] OTHER             -> rrec
  /\ UNCHANGED <<senderVars, inFlight, inboxR, alive, queueVars, cancelled,
                 historyVars>>

\* Slip: the late reply of a cancelled run is not discarded
SettlesRegardless(o, throws) ==
  /\ alive /\ stage = "agent"
  /\ stage' = o
  /\ rrec' = [rrec EXCEPT ![active] = o]
  /\ UNCHANGED <<senderVars, netVars, alive, waiting, active, cancelled, desk,
                 historyVars>>

\* The agent run settles with an outcome, or the deadline passes (failed).
\* An ask cancelled meanwhile is left without an entry and without a reply.
RunSettles(o, throws) ==
  /\ alive /\ stage = "agent"
  /\ IF active \in cancelled
     THEN /\ verdict' = [verdict EXCEPT ![active] = "discarded"]
          /\ RunEnds(cancelled \ {active}, throws)
     ELSE /\ stage' = o
          /\ rrec' = [rrec EXCEPT ![active] = o]
          /\ UNCHANGED <<waiting, active, cancelled, inFlight, verdict>>
  /\ UNCHANGED <<senderVars, inboxR, inboxS, alive, desk, heard, honoured>>

\* Slips: every reply says answered; the reply is not written; the queue is not
\* pumped after a run; a run that has replied stays the busy one
RepliesAnswered(throws) ==
  /\ alive /\ stage \in Outcome
  /\ inboxS' = Append(inboxS, Reply(active, "answered"))
  /\ verdict' = [verdict EXCEPT ![active] = stage]
  /\ RunEnds(cancelled, throws)
  /\ UNCHANGED <<senderVars, inboxR, alive, desk, heard, honoured>>

RepliesToNobody(throws) ==
  /\ alive /\ stage \in Outcome \cup {"dropping"}
  /\ verdict' = [verdict EXCEPT ![active] =
                   IF stage = "dropping" THEN "dropped" ELSE stage]
  /\ RunEnds(cancelled, throws)
  /\ UNCHANGED <<senderVars, inboxR, inboxS, alive, desk, heard, honoured>>

RepliesWithoutPump(throws) ==
  /\ alive /\ stage \in Outcome
  /\ inboxS' = Append(inboxS, Reply(active, stage))
  /\ verdict' = [verdict EXCEPT ![active] = stage]
  /\ active' = NoAsk /\ stage' = "none"
  /\ UNCHANGED <<senderVars, inFlight, inboxR, alive, waiting, cancelled, desk,
                 rrec, heard, honoured>>

\* The reply (or the fail of an ask cancelled before its start) is written
RunReplies(throws) ==
  /\ alive /\ stage \in Outcome \cup {"dropping"}
  /\ LET m == IF stage = "dropping" THEN Fail(active, "cancelled")
              ELSE Reply(active, stage) IN
     inboxS' = Append(inboxS, m)
  /\ verdict' = [verdict EXCEPT ![active] =
                   IF stage = "dropping" THEN "dropped" ELSE stage]
  /\ RunEnds(cancelled, throws)
  /\ UNCHANGED <<senderVars, inboxR, alive, desk, heard, honoured>>

\* writeMessage refuses the reply: 60 KiB of text may exceed the 64 KiB payload
\* limit once it is JSON.  replyAsk ignores the result.
ReplyRefused(throws) ==
  /\ alive /\ stage = "answered"
  /\ verdict' = [verdict EXCEPT ![active] = "unsent"]
  /\ RunEnds(cancelled, throws)
  /\ UNCHANGED <<senderVars, inboxR, inboxS, alive, desk, heard, honoured>>

\* sendProgress is not awaited: its ping lands when it lands
PingLands(a) ==
  /\ Ping(a) \in inFlight
  /\ inFlight' = inFlight \ {Ping(a)}
  /\ inboxS' = Append(inboxS, Ping(a))
  /\ UNCHANGED <<senderVars, inboxR, receiverVars, historyVars>>

\* The receiver's process ends: its queue, its run and its unfinished writes
\* are lost; its inbox is never read again.
Crash ==
  /\ alive /\ MayCrash
  /\ alive' = FALSE
  /\ waiting' = <<>> /\ active' = NoAsk /\ stage' = "none"
  /\ cancelled' = {} /\ desk' = NoMsg
  /\ inFlight' = inFlight \cap ToReceiver
  /\ UNCHANGED <<senderVars, inboxR, inboxS, rrec, historyVars>>

----------------------------------------------------------------------------
Init ==
  /\ call = [a \in Asks |-> "idle"]
  /\ waiter = {} /\ mon = {}
  /\ rec = [a \in Asks |-> "none"] /\ why = [a \in Asks |-> "none"]
  /\ label = [a \in Asks |-> TRUE]
  /\ recall = [a \in Asks |-> "no"]
  /\ inFlight = {} /\ inboxR = <<>> /\ inboxS = <<>>
  /\ alive = TRUE
  /\ waiting = <<>> /\ active = NoAsk /\ stage = "none"
  /\ cancelled = {} /\ desk = NoMsg
  /\ rrec = [a \in Asks |-> "none"]
  /\ verdict = [a \in Asks |-> "none"]
  /\ heard = {} /\ honoured = {}

SenderStep ==
  \/ \E a \in Asks : \/ AskStart(a) \/ AskUnresolved(a) \/ AskUnwritten(a)
                     \/ AskLands(a) \/ AckTimeout(a) \/ MonitorFails(a)
                     \/ metro_cancel(a) \/ CancelLands(a)
  \/ SenderRoutes

ReceiverStep ==
  \/ \E throws \in BOOLEAN :
       \/ HandleAsk(throws) \/ RunReplies(throws) \/ ReplyRefused(throws)
       \/ \E o \in Outcome : RunSettles(o, throws)
  \/ CancelWaiting \/ CancelMarked \/ DeskLands \/ Crash
  \/ \E a \in Asks : PingLands(a)

Next == SenderStep \/ ReceiverStep

Spec == Init /\ [][Next]_vars

\* A landing, a timer and a poll come eventually; so does the end of an agent
\* run, which the 5 minute deadline forces.  Calls, cancels, refusals and
\* crashes need not happen.
Fairness ==
  /\ \A a \in Asks : /\ WF_vars(AskLands(a)) /\ WF_vars(AckTimeout(a))
                     /\ WF_vars(MonitorFails(a)) /\ WF_vars(CancelLands(a))
                     /\ WF_vars(PingLands(a))
  /\ WF_vars(SenderRoutes)
  /\ WF_vars(\E throws \in BOOLEAN : HandleAsk(throws))
  /\ WF_vars(CancelWaiting \/ CancelMarked) /\ WF_vars(DeskLands)
  /\ WF_vars(\E throws \in BOOLEAN, o \in Outcome : RunSettles(o, throws))
  /\ WF_vars(\E throws \in BOOLEAN : RunReplies(throws))

FairSpec == Spec /\ Fairness

----------------------------------------------------------------------------
(* Properties *)

\* Every variable keeps to its domain: statuses and reasons are those the code
\* declares, messages name known requests, the queue holds at most MaxQueue asks.
TypeOK ==
  /\ call \in [Asks -> Call] /\ waiter \in SUBSET Asks
  /\ rec \in [Asks -> AskState] /\ why \in [Asks -> Reason]
  /\ label \in [Asks -> BOOLEAN] /\ mon \in SUBSET Asks
  /\ recall \in [Asks -> {"no", "local", "sent"}]
  /\ inFlight \in SUBSET InFlight
  /\ inboxR \in Seq(ToReceiver) /\ inboxS \in Seq(ToSender)
  /\ alive \in BOOLEAN
  /\ waiting \in Seq(Asks) /\ active \in Asks \cup {NoAsk} /\ stage \in Stage
  /\ cancelled \in SUBSET Asks
  /\ desk \in ToSender \cup {NoMsg}
  /\ rrec \in [Asks -> AskState] /\ verdict \in [Asks -> Verdict]
  /\ heard \in SUBSET Asks /\ honoured \in SUBSET Asks

\* Every request metro_ask has returned for and that is not terminal is watched
\* by a liveness monitor, whatever acks, timers, cancels and late messages did.
EveryOpenAskIsWatched ==
  \A a \in Asks \ Delegated :
    call[a] \in {"acked", "unacked"} /\ rec[a] \notin Terminal => a \in mon

\* A run has a stage, and there is no stage without a run.
StageMatches == stage = "none" <=> active = NoAsk

\* The sender records an answer only for an ask the receiver's agent answered
\* and whose reply was sent.
AnsweredIsGenuine ==
  \A a \in Asks : rec[a] = "answered" => verdict[a] = "answered"

\* A cancel that found its ask waiting or running at the receiver holds: no
\* answer of that ask is sent, and the sender never comes to record one.
HonouredCancelHolds ==
  \A a \in honoured : verdict[a] # "answered" /\ rec[a] # "answered"

\* The receiver never idles over a queue: while an ask waits, one runs.
QueueNeverStalls == waiting # <<>> => active # NoAsk

\* No verdict of a live receiver gets lost: its message is being written, is in
\* the sender's inbox, or was routed by the sender's dispatcher.
OnItsWay(a) == \E i \in DOMAIN inboxS : inboxS[i].ask = a /\ IsVerdict(inboxS[i])
NoVerdictIsLost ==
  \A a \in Asks :
    alive /\ verdict[a] \in {"busy", "dropped"} \cup Outcome
      => OnItsWay(a) \/ a \in heard \/ (desk.ask = a /\ IsVerdict(desk))

\* Only metro_cancel ever changes the status of a request that has one of the
\* terminal statuses, or leads to such a change.
TerminalIsSticky ==
  [][\A a \in Asks : rec[a] \in Terminal /\ rec'[a] # rec[a]
                       => recall'[a] # "no"]_vars

\* The receiver's queue and run implement the desk of AskDesk: bounded, in
\* order of arrival, one ask at a time, one verdict each.
Desk == INSTANCE AskDesk WITH
          line <- (IF active = NoAsk THEN <<>> ELSE <<active>>) \o waiting,
          open <- alive,
          recalled <- honoured
ImplementsAskDesk == Desk!Spec

\* Every metro_ask ends: the request becomes terminal.
AskSettles ==
  \A a \in Asks \ Delegated : call[a] = "writing" ~> rec[a] \in Terminal
=============================================================================
