---------------------------- MODULE TriggerBuffer ----------------------------
(***************************************************************************)
(* The TriggerBuffer of src/src/triggers.ts: messages of peers that are to *)
(* start a turn wait in a queue with a cap, are taken in batches after a   *)
(* debounce, wait for the session to become idle, and are delivered as a   *)
(* turn, or as a follow-up once RetryCap looks have found it busy.         *)
(*                                                                         *)
(* Each action is one callback of the event loop: an enqueue, the debounce *)
(* timer, the end of a sleep, and the "finally" of a drain.  Messages are  *)
(* numbered as they arrive and have a size.                                *)
(***************************************************************************)
EXTENDS Naturals, Sequences, FiniteSets, SequencesExt

CONSTANTS
  QueueCap,    \* TRIGGER_QUEUE_CAP
  BatchItems,  \* TRIGGER_BATCH_MAX_ITEMS
  BatchBytes,  \* TRIGGER_BATCH_MAX_BYTES
  RetryCap,    \* TRIGGER_RETRY_CAP
  Sizes,       \* the sizes a message may have
  MaxItems,    \* messages that arrive
  MayThrow     \* may a delivery throw?

ASSUME CapsAssumption ==
  /\ {QueueCap, BatchItems} \subseteq Nat \ {0}
  /\ {BatchBytes, RetryCap, MaxItems} \subseteq Nat
  /\ Sizes \subseteq Nat /\ MayThrow \in BOOLEAN

VARIABLES
  arrived,    \* messages that have arrived
  queue,
  timer,      \* the debounce timer is armed
  drain,      \* the drain in flight
  idle,       \* ctx.isIdle()
  deliveries, \* history: what was delivered, and how
  gone,       \* history: messages dropped or discarded, or whose delivery threw
  down        \* shutdown() was called

vars == <<arrived, queue, timer, drain, idle, deliveries, gone, down>>

Item  == [id: 1..MaxItems, size: Sizes]
Batch == Seq(Item)

\* A drain sleeps between two looks, or is over but for its "finally".
NoDrain == [step |-> "none", batch |-> <<>>, checks |-> 0]
Drain   == [step: {"none", "sleeping", "settling"}, batch: Batch, checks: 0..RetryCap]

Ids(items) == {items[i].id : i \in DOMAIN items}
Bytes(items) == FoldLeft(LAMBDA sum, item : sum + item.size, 0, items)

----------------------------------------------------------------------------

\* takeBatch of a queue that is not empty: its first message, and those after
\* it until one exceeds the number or the bytes of a batch.
TakeBatch(items) ==
  LET Fits(n) == n = 1 \/ (n <= BatchItems /\ Bytes(SubSeq(items, 1, n)) <= BatchBytes)
      n == CHOOSE n \in 1..Len(items) :
             Fits(n) /\ \A m \in n + 1..Len(items) : ~Fits(m)
  IN  SubSeq(items, 1, n)

\* scheduleDebounce, when the drain in flight is "current"
Armed(current) == timer \/ current.step = "none"

\* Slip: a full queue refuses the new message and says that it was accepted
EnqueueNothing ==
  /\ arrived < MaxItems
  /\ arrived' = arrived + 1
  /\ \E size \in Sizes :
       queue' = IF Len(queue) >= QueueCap THEN queue
                ELSE Append(queue, [id |-> arrived + 1, size |-> size])
  /\ timer' = Armed(drain)
  /\ UNCHANGED <<drain, idle, deliveries, gone, down>>

\* The message is pushed after the oldest one is dropped from a full queue.
Enqueue ==
  /\ arrived < MaxItems
  /\ arrived' = arrived + 1
  /\ \E size \in Sizes :
       queue' = Append(IF Len(queue) >= QueueCap THEN Tail(queue) ELSE queue,
                       [id |-> arrived + 1, size |-> size])
  /\ gone' = gone \cup (IF Len(queue) >= QueueCap THEN {Head(queue).id} ELSE {})
  /\ timer' = Armed(drain)
  /\ UNCHANGED <<drain, idle, deliveries, down>>

----------------------------------------------------------------------------
(* drain *)

\* Hand the batch over.  A turn makes the session busy.  When the call throws,
\* the batch is lost; either way the drain is over.
Deliver(batch, how) ==
  /\ drain' = [step |-> "settling", batch |-> <<>>, checks |-> 0]
  /\ \/ /\ deliveries' = Append(deliveries, [batch |-> batch, how |-> how])
        /\ idle' = FALSE
        /\ UNCHANGED gone
     \/ /\ MayThrow
        /\ gone' = gone \cup Ids(batch)
        /\ UNCHANGED <<deliveries, idle>>

\* Slip: a session that stays busy does not get the batch at all
LookForever(batch, checks) ==
  IF ~idle
  THEN /\ drain' = [step |-> "sleeping", batch |-> batch,
                    checks |-> IF checks < RetryCap THEN checks ELSE 0]
       /\ UNCHANGED <<idle, deliveries, gone>>
  ELSE Deliver(batch, "turn")

\* One turn of the loop: deliver to an idle session, sleep, or fall back.
LookAround(batch, checks) ==
  IF ~idle /\ checks < RetryCap
  THEN /\ drain' = [step |-> "sleeping", batch |-> batch, checks |-> checks]
       /\ UNCHANGED <<idle, deliveries, gone>>
  ELSE Deliver(batch, IF idle THEN "turn" ELSE "followUp")

\* The debounce is over: take a batch and look.  (drain's return on an empty
\* queue is never taken: see NeverStranded.)
StartDrain ==
  /\ timer
  /\ timer' = FALSE
  /\ queue' = SubSeq(queue, Len(TakeBatch(queue)) + 1, Len(queue))
  /\ LookAround(TakeBatch(queue), 0)
  /\ UNCHANGED <<arrived, down>>

\* A sleep of the loop is over.
Wake ==
  /\ drain.step = "sleeping"
  /\ LookAround(drain.batch, drain.checks + 1)
  /\ UNCHANGED <<arrived, queue, timer, down>>

\* Slip: the next debounce is left to the next message
SettleOnly ==
  /\ drain.step = "settling"
  /\ drain' = NoDrain
  /\ UNCHANGED <<arrived, queue, timer, idle, deliveries, gone, down>>

\* The "finally" of startDrain: messages came in meanwhile, arm the timer again.
Settle ==
  /\ drain.step = "settling"
  /\ drain' = NoDrain
  /\ timer' = (timer \/ queue # <<>>)
  /\ UNCHANGED <<arrived, queue, idle, deliveries, gone, down>>

----------------------------------------------------------------------------
\* shutdown(): the timer and the queue, but not the drain in flight.
Shutdown ==
  /\ ~down
  /\ down' = TRUE
  /\ timer' = FALSE /\ queue' = <<>> /\ gone' = gone \cup Ids(queue)
  /\ UNCHANGED <<arrived, drain, idle, deliveries>>

\* The session's runs come and go.
HostTurns ==
  /\ idle' = ~idle
  /\ UNCHANGED <<arrived, queue, timer, drain, deliveries, gone, down>>

Init ==
  /\ arrived = 0 /\ queue = <<>> /\ timer = FALSE /\ drain = NoDrain
  /\ idle \in BOOLEAN /\ deliveries = <<>> /\ gone = {} /\ down = FALSE

Next == Enqueue \/ StartDrain \/ Wake \/ Settle \/ Shutdown \/ HostTurns

Spec == Init /\ [][Next]_vars

\* Timers fire.  Whether the session ever becomes idle is not assumed.
FairSpec == Spec /\ WF_vars(StartDrain) /\ WF_vars(Wake) /\ WF_vars(Settle)

----------------------------------------------------------------------------
(* Properties *)

\* Every variable keeps to its domain; the queue keeps its cap.
TypeOK ==
  /\ arrived \in 0..MaxItems /\ queue \in Seq(Item) /\ Len(queue) <= QueueCap
  /\ timer \in BOOLEAN /\ drain \in Drain /\ idle \in BOOLEAN
  /\ deliveries \in Seq([batch: Batch, how: {"turn", "followUp"}])
  /\ gone \subseteq 1..arrived /\ down \in BOOLEAN

\* The numbers of a sequence increase, and are below those of another one.
Increasing(s) == \A i, j \in DOMAIN s : i < j => s[i].id < s[j].id
Before(s, t)  == \A i \in DOMAIN s, j \in DOMAIN t : s[i].id < t[j].id

Delivered == UNION {Ids(deliveries[k].batch) : k \in DOMAIN deliveries}
Here      == Delivered \cup Ids(drain.batch) \cup Ids(queue)

\* Messages are delivered in the order of their arrival and once, and none
\* disappears: each one is delivered, in the drain, queued, or accounted for.
InOrderAndComplete ==
  /\ \A k \in DOMAIN deliveries :
       LET batch == deliveries[k].batch
       IN  /\ Increasing(batch) /\ Before(batch, drain.batch) /\ Before(batch, queue)
           /\ \A l \in DOMAIN deliveries : k < l => Before(batch, deliveries[l].batch)
  /\ Increasing(drain.batch) /\ Increasing(queue) /\ Before(drain.batch, queue)
  /\ Here \cap gone = {} /\ Here \cup gone = 1..arrived

\* Queued messages never wait without a timer or a drain that will take them;
\* the timer is never armed beside a drain, and never for nothing.
NeverStranded ==
  /\ queue # <<>> => timer \/ drain.step # "none"
  /\ timer => queue # <<>> /\ drain.step = "none"

\* A message does not wait for ever, even if the session never becomes idle:
\* it is delivered, as a follow-up if need be, or accounted for.
EveryMessageLeaves ==
  \A id \in 1..MaxItems :
    id \in Ids(queue \o drain.batch) ~> id \notin Ids(queue \o drain.batch)
=============================================================================
