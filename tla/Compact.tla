------------------------------ MODULE Compact ------------------------------
(***************************************************************************)
(* metro_compact: one session asks another to compact its context and      *)
(* waits for the outcome (src/src/compact.ts and its use in index.ts).     *)
(*                                                                         *)
(* Unlike a question, a request never waits at the receiver: it is         *)
(* declined, or the compaction begins, in the step that handles it.  The   *)
(* caller has a map of waiters and a timer for each; the two are separate, *)
(* and an answer, the timer, a failing write and the caller's shutdown     *)
(* each take away a different part.  The mail in between is a set: what    *)
(* the dispatchers do with it is in Dispatcher.                            *)
(***************************************************************************)
EXTENDS FiniteSets

CONSTANTS Requests, \* the calls of requestCompact by one session
          MayCrash  \* may the receiver's process end?

ASSUME MayCrashAssumption == MayCrash \in BOOLEAN

VARIABLES
  call,       \* where requestCompact is
  waiter,     \* the keys of CompactPendingMap.pending
  timer,      \* the requests whose timer is armed
  wait,       \* what the promise of register was resolved with
  record,     \* latest metrol:request entry of each request
  outcome,    \* how requestCompact ended
  closed,     \* the caller's session_shutdown has begun
  requests,   \* compactReq messages in the receiver's inbox
  responses,  \* compactRes messages in the caller's inbox
  up, idle, capable, \* the receiver: alive, ctx.isIdle(), has ctx.compact
  compacting, \* the requests ctx.compact works on
  replying,   \* responses that respondCompact is writing
  verdict     \* history: what became of the request at the receiver

callerVars   == <<call, waiter, timer, wait, record, outcome, closed>>
receiverVars == <<up, idle, capable, compacting, replying, verdict>>
compactVars  == <<callerVars, receiverVars, requests, responses>>

Nothing  == "none"
Verdicts == {"ok", "busy", "unsupported"}
Response == [id : Requests, verdict : Verdicts]
Calling  == {"resolving", "writing", "landed", "waiting"}

----------------------------------------------------------------------------
(* The caller *)

\* The self-target check comes first.
RequestCompact(r) ==
  /\ call[r] = "idle" /\ ~closed
  /\ call' = [call EXCEPT ![r] = "resolving"]
  /\ UNCHANGED <<waiter, timer, wait, record, outcome, closed, receiverVars, requests, responses>>

\* The closure fail: own name, unknown or ambiguous target, a write that threw.
\* The last one leaves the waiter and its timer behind.
Fail(r) ==
  /\ \/ call[r] = "idle" /\ ~closed
     \/ call[r] \in {"resolving", "writing"}
  /\ call' = [call EXCEPT ![r] = "returned"]
  /\ record' = [record EXCEPT ![r] = "failed"]
  /\ outcome' = [outcome EXCEPT ![r] = "threw"]
  /\ UNCHANGED <<waiter, timer, wait, closed, receiverVars, requests, responses>>

\* Slip: nothing is registered before the write
RegisterLate(r) ==
  /\ call[r] = "resolving"
  /\ call' = [call EXCEPT ![r] = "writing"]
  /\ UNCHANGED <<waiter, timer, wait, record, outcome, closed, receiverVars, requests, responses>>

\* CompactPendingMap.register, then the write begins
Register(r) ==
  /\ call[r] = "resolving"
  /\ call' = [call EXCEPT ![r] = "writing"]
  /\ waiter' = waiter \cup {r} /\ timer' = timer \cup {r}
  /\ UNCHANGED <<wait, record, outcome, closed, receiverVars, requests, responses>>

\* The rename of writeCompactMessage
RequestLands(r) ==
  /\ call[r] = "writing"
  /\ call' = [call EXCEPT ![r] = "landed"]
  /\ requests' = requests \cup {r}
  /\ UNCHANGED <<waiter, timer, wait, record, outcome, closed, receiverVars, responses>>

RequestWritten(r) ==
  /\ call[r] = "landed"
  /\ call' = [call EXCEPT ![r] = "waiting"]
  /\ record' = [record EXCEPT ![r] = "queued"]
  /\ UNCHANGED <<waiter, timer, wait, outcome, closed, receiverVars, requests, responses>>

\* Slip: the timeout returns without a record
ReturnsUnrecorded(r) ==
  /\ call[r] = "waiting" /\ wait[r] # Nothing
  /\ call' = [call EXCEPT ![r] = "returned"]
  /\ outcome' = [outcome EXCEPT ![r] = IF wait[r] = "timeout" THEN "failed" ELSE wait[r]]
  /\ record' = [record EXCEPT ![r] = IF wait[r] = "timeout" THEN @ ELSE wait[r]]
  /\ UNCHANGED <<waiter, timer, wait, closed, receiverVars, requests, responses>>

\* await wait is over
Returns(r) ==
  /\ call[r] = "waiting" /\ wait[r] # Nothing
  /\ call' = [call EXCEPT ![r] = "returned"]
  /\ LET ending == IF wait[r] = "timeout" THEN "failed" ELSE wait[r] IN
       /\ outcome' = [outcome EXCEPT ![r] = ending]
       /\ record' = [record EXCEPT ![r] = ending]
  /\ UNCHANGED <<waiter, timer, wait, closed, receiverVars, requests, responses>>

\* The timer of register.  Clearing the map has not cleared the timer.
Timeout(r) ==
  /\ r \in timer
  /\ timer' = timer \ {r} /\ waiter' = waiter \ {r}
  /\ wait' = [wait EXCEPT ![r] = "timeout"]
  /\ UNCHANGED <<call, record, outcome, closed, receiverVars, requests, responses>>

\* Slip: whoever waits gets it
ResolveFirst(m) ==
  /\ m \in responses
  /\ responses' = responses \ {m}
  /\ IF waiter # {}
     THEN \E r \in waiter : /\ waiter' = waiter \ {r} /\ timer' = timer \ {r}
                            /\ wait' = [wait EXCEPT ![r] = m.verdict]
     ELSE UNCHANGED <<waiter, timer, wait>>
  /\ UNCHANGED <<call, record, outcome, closed, receiverVars, requests>>

\* onCompactResponse: CompactPendingMap.resolve, also while the session shuts
\* down, until its dispatcher has stopped
Resolve(m) ==
  /\ m \in responses
  /\ responses' = responses \ {m}
  /\ IF m.id \in waiter
     THEN /\ waiter' = waiter \ {m.id} /\ timer' = timer \ {m.id}
          /\ wait' = [wait EXCEPT ![m.id] = m.verdict]
     ELSE UNCHANGED <<waiter, timer, wait>>
  /\ UNCHANGED <<call, record, outcome, closed, receiverVars, requests>>

\* Slip: clear() clears the timers, too
ShutdownThoroughly ==
  /\ ~closed /\ closed' = TRUE /\ waiter' = {} /\ timer' = {}
  /\ UNCHANGED <<call, wait, record, outcome, receiverVars, requests, responses>>

\* session_shutdown: CompactPendingMap.clear
Shutdown ==
  /\ ~closed /\ closed' = TRUE /\ waiter' = {}
  /\ UNCHANGED <<call, timer, wait, record, outcome, receiverVars, requests, responses>>

----------------------------------------------------------------------------
(* The receiver *)

\* respondCompact begins to write
Respond(r, v) ==
  /\ replying' = replying \cup {[id |-> r, verdict |-> v]}
  /\ verdict' = [verdict EXCEPT ![r] = v]

\* decideCompactResponse and the call of ctx.compact, which may throw
OnCompactRequest(r) ==
  /\ up /\ r \in requests
  /\ requests' = requests \ {r}
  /\ \/ ~idle /\ Respond(r, "busy") /\ UNCHANGED compacting
     \/ idle /\ Respond(r, "unsupported") /\ UNCHANGED compacting
     \/ idle /\ capable /\ compacting' = compacting \cup {r} /\ UNCHANGED <<replying, verdict>>
  /\ UNCHANGED <<callerVars, up, idle, capable, responses>>

\* onComplete or onError
CompactEnds(r) ==
  /\ r \in compacting
  /\ compacting' = compacting \ {r}
  /\ Respond(r, "ok") \/ Respond(r, "unsupported")
  /\ UNCHANGED <<callerVars, up, idle, capable, requests, responses>>

\* The write of a response lands or fails; nobody learns of the latter.
ResponseLands(m) ==
  /\ m \in replying
  /\ replying' = replying \ {m}
  /\ responses' \in {responses, responses \cup {m}}
  /\ UNCHANGED <<callerVars, up, idle, capable, compacting, verdict, requests>>

AgentTurns ==
  /\ up /\ idle' = ~idle
  /\ UNCHANGED <<callerVars, up, capable, compacting, replying, verdict, requests, responses>>

Crash ==
  /\ MayCrash /\ up
  /\ up' = FALSE /\ compacting' = {} /\ replying' = {}
  /\ UNCHANGED <<callerVars, idle, capable, verdict, requests, responses>>

----------------------------------------------------------------------------
CompactInit ==
  /\ call = [r \in Requests |-> "idle"]
  /\ waiter = {} /\ timer = {} /\ wait = [r \in Requests |-> Nothing]
  /\ record = [r \in Requests |-> Nothing] /\ outcome = [r \in Requests |-> Nothing]
  /\ closed = FALSE /\ requests = {} /\ responses = {}
  /\ up = TRUE /\ idle \in BOOLEAN /\ capable \in BOOLEAN
  /\ compacting = {} /\ replying = {} /\ verdict = [r \in Requests |-> Nothing]

RequestSteps(r) ==
  \/ RequestCompact(r) \/ Fail(r) \/ Register(r) \/ RequestLands(r)
  \/ RequestWritten(r) \/ Returns(r) \/ Timeout(r)

CompactNext ==
  \/ \E r \in Requests : RequestSteps(r) \/ OnCompactRequest(r) \/ CompactEnds(r)
  \/ \E m \in responses : Resolve(m)
  \/ \E m \in replying : ResponseLands(m)
  \/ Shutdown \/ AgentTurns \/ Crash

CompactSpec == CompactInit /\ [][CompactNext]_compactVars

\* The registry is read, the write of the request returns or throws, and timers
\* fire.  The receiver owes nothing.
CompactFairSpec ==
  CompactSpec /\ \A r \in Requests :
    /\ WF_compactVars(call[r] = "resolving" /\ (Register(r) \/ Fail(r)))
    /\ WF_compactVars(call[r] = "writing" /\ (RequestLands(r) \/ Fail(r)))
    /\ WF_compactVars(RequestWritten(r)) /\ WF_compactVars(Returns(r)) /\ WF_compactVars(Timeout(r))

----------------------------------------------------------------------------
(* Properties *)

\* Every variable keeps to its domain.
CompactTypeOK ==
  /\ call \in [Requests -> Calling \cup {"idle", "returned"}]
  /\ waiter \subseteq Requests /\ timer \subseteq Requests
  /\ wait \in [Requests -> Verdicts \cup {Nothing, "timeout"}]
  /\ record \in [Requests -> Verdicts \cup {Nothing, "queued", "failed"}]
  /\ outcome \in [Requests -> Verdicts \cup {Nothing, "failed", "threw"}]
  /\ closed \in BOOLEAN /\ requests \subseteq Requests /\ responses \subseteq Response
  /\ up \in BOOLEAN /\ idle \in BOOLEAN /\ capable \in BOOLEAN
  /\ compacting \subseteq Requests /\ replying \subseteq Response
  /\ verdict \in [Requests -> Verdicts \cup {Nothing}]

\* metro_compact tells what happened: "ok" only when the target has completed a
\* compaction for this very request, a refusal only when the target refused it,
\* and the record of the request says the same; one that has returned is never
\* left as queued.
OutcomeIsTrue ==
  \A r \in Requests :
    /\ outcome[r] \in Verdicts => verdict[r] = outcome[r]
    /\ record[r] = (IF call[r] = "waiting" THEN "queued"
                    ELSE IF outcome[r] = "threw" THEN "failed" ELSE outcome[r])

\* An answer that is routed while its request is under way, before the timeout
\* and the caller's shutdown, is the outcome: it is not missed for having come
\* before the write of the request returned.
AnswerInTimeCounts ==
  [][\A m \in Response :
       m \in responses /\ m \notin responses' /\ call[m.id] \in Calling
         /\ wait[m.id] = Nothing /\ ~closed
       => wait'[m.id] = m.verdict]_compactVars

\* Every metro_compact returns, be the target busy, slow or dead, and also when
\* its session shuts down and has forgotten the waiter.
EveryRequestReturns ==
  \A r \in Requests : call[r] \in Calling ~> call[r] = "returned"

\* No waiter stays in the map for ever: each has a timer that removes it.
WaitersHaveTimers == waiter \subseteq timer
=============================================================================
