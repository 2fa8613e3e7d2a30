------------------------- MODULE AskProtocolProofs -------------------------
(***************************************************************************)
(* Proofs about the ask protocol, for any set of requests and any depth of *)
(* the receiver's queue, with and without crashes.  The first part is      *)
(* about types, the queue and the monitors.  The second is about verdicts: *)
(* where an ask is before it has one, that the sender learns of it and     *)
(* records nothing else, and what becomes of a cancel.                     *)
(***************************************************************************)
EXTENDS AskProtocol, TLAPS

----------------------------------------------------------------------------
(* Sequences *)

\* A sequence with one more at its end, without its first, without one of its
\* elements: what is where.
LEMMA Appended ==
  ASSUME NEW S, NEW s \in Seq(S), NEW x \in S
  PROVE  /\ Append(s, x) \in Seq(S)
         /\ Len(s) \in Nat /\ DOMAIN s = 1..Len(s)
         /\ DOMAIN Append(s, x) = 1..Len(s) + 1
         /\ \A i \in 1..Len(s) : Append(s, x)[i] = s[i]
         /\ Append(s, x)[Len(s) + 1] = x
OBVIOUS

LEMMA Taken ==
  ASSUME NEW S, NEW s \in Seq(S), s # <<>>
  PROVE  /\ Tail(s) \in Seq(S) /\ Head(s) = s[1] /\ Head(s) \in S
         /\ Len(s) \in Nat \ {0} /\ DOMAIN s = 1..Len(s)
         /\ DOMAIN Tail(s) = 1..Len(s) - 1
         /\ \A i \in 1..Len(s) - 1 : Tail(s)[i] = s[i + 1]
OBVIOUS

LEMMA Removed ==
  ASSUME NEW S, NEW s \in Seq(S), NEW k \in DOMAIN s
  PROVE  /\ RemoveAt(s, k) \in Seq(S)
         /\ Len(s) \in Nat \ {0} /\ DOMAIN s = 1..Len(s)
         /\ DOMAIN RemoveAt(s, k) = 1..Len(s) - 1
         /\ \A i \in 1..Len(s) - 1 : RemoveAt(s, k)[i] = IF i < k THEN s[i] ELSE s[i + 1]
<1> DEFINE front == SubSeq(s, 1, k - 1)
           back  == SubSeq(s, k + 1, Len(s))
<1>1. RemoveAt(s, k) = front \o back
  BY DEF RemoveAt
<1>2. k \in 1..Len(s) /\ Len(s) \in Nat /\ DOMAIN s = 1..Len(s)
  OBVIOUS
<1>3. /\ front \in Seq(S) /\ Len(front) = k - 1
      /\ \A i \in 1..k - 1 : front[i] = s[i]
  BY <1>2
<1>4. /\ back \in Seq(S) /\ Len(back) = Len(s) - k
      /\ \A i \in 1..Len(s) - k : back[i] = s[i + k]
  BY <1>2
<1>5. /\ front \o back \in Seq(S) /\ Len(front \o back) = Len(s) - 1
      /\ DOMAIN (front \o back) = 1..Len(s) - 1
  BY <1>2, <1>3, <1>4
<1>6. \A i \in 1..Len(s) - 1 :
        (front \o back)[i] = IF i <= Len(front) THEN front[i] ELSE back[i - Len(front)]
  BY <1>2, <1>3, <1>4
<1>7. ASSUME NEW i \in 1..Len(s) - 1
      PROVE  (front \o back)[i] = IF i < k THEN s[i] ELSE s[i + 1]
  <2>1. CASE i < k
    BY <2>1, <1>2, <1>3, <1>6
  <2>2. CASE ~(i < k)
    <3>1. i - Len(front) \in 1..Len(s) - k /\ ~(i <= Len(front))
      BY <2>2, <1>2, <1>3
    <3>2. back[i - Len(front)] = s[i + 1]
      <4>1. i - Len(front) + k = i + 1
        BY <1>2, <1>3
      <4>2. back[i - Len(front)] = s[(i - Len(front)) + k]
        BY <3>1, <1>4
      <4> QED
        BY <4>1, <4>2
    <3>3. (front \o back)[i] = back[i - Len(front)]
      BY <3>1, <1>6
    <3> QED
      BY <2>2, <3>2, <3>3
  <2> QED
    BY <2>1, <2>2
<1>8. Len(s) \in Nat \ {0}
  BY <1>2
<1> HIDE DEF front, back
<1> QED
  BY <1>1, <1>2, <1>5, <1>7, <1>8, Zenon

----------------------------------------------------------------------------
(* The first part *)

USE AsksAssumption, KindsAssumption, BoundsAssumption, MaxQueueAssumption

\* The inductive invariant.
IInv == TypeOK /\ StageMatches /\ QueueNeverStalls /\ EveryOpenAskIsWatched

----------------------------------------------------------------------------
(* Lemmas about the operators the actions are built from *)

LEMMA MessageFields ==
  ASSUME NEW m \in ToSender
  PROVE  /\ m.ask \in Asks
         /\ m.type \in {"ack", "progress", "reply", "fail"}
         /\ m.type = "reply" => m.of \in Outcome
         /\ m.type = "fail" => m.of \in {"busy", "cancelled"}
  BY DEF ToSender, Ack, Ping, Reply, Fail

LEMMA AppendEntryTyped ==
  ASSUME TypeOK, NEW a \in Asks, NEW s \in AskState, NEW r \in Reason,
         NEW b \in BOOLEAN, AppendEntry(a, s, r, b)
  PROVE  /\ rec' \in [Asks -> AskState] /\ why' \in [Asks -> Reason]
         /\ label' \in [Asks -> BOOLEAN]
         /\ rec'[a] = s /\ \A d \in Asks \ {a} : rec'[d] = rec[d]
  BY DEF TypeOK, AppendEntry

LEMMA RankedTyped ==
  ASSUME TypeOK, NEW a \in Asks, NEW s \in AskState, NEW r \in Reason,
         persistRankedAskUpdate(a, s, r)
  PROVE  /\ rec' \in [Asks -> AskState] /\ why' \in [Asks -> Reason]
         /\ label' \in [Asks -> BOOLEAN]
         /\ \A d \in Asks \ {a} : rec'[d] = rec[d]
         /\ rec[a] \in Terminal => rec'[a] = rec[a]
         /\ s \in Terminal => rec'[a] \in Terminal
<1>1. CASE applyRankedTransition(rec[a], s) = s
  BY <1>1, AppendEntryTyped
     DEF persistRankedAskUpdate, applyRankedTransition, Terminal
<1>2. CASE applyRankedTransition(rec[a], s) # s
  BY <1>2 DEF persistRankedAskUpdate, applyRankedTransition, TypeOK
<1> QED
  BY <1>1, <1>2

LEMMA EnqueueAskReturnsTyped ==
  ASSUME TypeOK, NEW a \in Asks, NEW b \in BOOLEAN, EnqueueAskReturns(a, b)
  PROVE  /\ call' \in [Asks -> Call] /\ mon' \in SUBSET Asks
         /\ rec' \in [Asks -> AskState] /\ why' \in [Asks -> Reason]
         /\ label' \in [Asks -> BOOLEAN]
         /\ a \notin Delegated => a \in mon'
         /\ \A d \in Asks \ {a} : /\ call'[d] = call[d] /\ rec'[d] = rec[d]
                                  /\ d \in mon' <=> d \in mon
<1>1. /\ call' \in [Asks -> Call]
      /\ \A d \in Asks \ {a} : call'[d] = call[d]
  BY DEF EnqueueAskReturns, TypeOK, Call
<1>2. /\ mon' \in SUBSET Asks
      /\ a \notin Delegated => a \in mon'
      /\ \A d \in Asks \ {a} : d \in mon' <=> d \in mon
  BY DEF EnqueueAskReturns, TypeOK
<1>3. /\ rec' \in [Asks -> AskState] /\ why' \in [Asks -> Reason]
      /\ label' \in [Asks -> BOOLEAN]
      /\ \A d \in Asks \ {a} : rec'[d] = rec[d]
  <2>1. CASE a \in Delegated \/ ~b
    BY <2>1 DEF EnqueueAskReturns, TypeOK
  <2>2. CASE ~(a \in Delegated \/ ~b)
    <3>1. AppendEntry(a, "accepted", "none", a \notin ById)
      BY <2>2 DEF EnqueueAskReturns
    <3>2. "accepted" \in AskState /\ "none" \in Reason /\ (a \notin ById) \in BOOLEAN
      BY DEF AskState, Reason
    <3> QED
      BY <3>1, <3>2, AppendEntryTyped
  <2> QED
    BY <2>1, <2>2
<1> QED
  BY <1>1, <1>2, <1>3

LEMMA StartRunTyped ==
  ASSUME TypeOK, NEW b \in Asks, NEW c \in SUBSET Asks, NEW t \in BOOLEAN,
         StartRun(b, c, t)
  PROVE  /\ active' \in Asks /\ stage' \in Stage \ {"none"}
         /\ cancelled' \in SUBSET Asks
         /\ rrec' \in [Asks -> AskState] /\ inFlight' \in SUBSET InFlight
<1>1. Ping(b) \in InFlight
  BY DEF InFlight
<1> QED
  BY <1>1 DEF StartRun, TypeOK, Stage, AskState, Terminal

LEMMA RunEndsTyped ==
  ASSUME TypeOK, NEW c \in SUBSET Asks, NEW t \in BOOLEAN, RunEnds(c, t)
  PROVE  /\ waiting' \in Seq(Asks) /\ active' \in Asks \cup {NoAsk}
         /\ stage' \in Stage /\ cancelled' \in SUBSET Asks
         /\ rrec' \in [Asks -> AskState] /\ inFlight' \in SUBSET InFlight
         /\ StageMatches' /\ QueueNeverStalls'
<1>1. CASE waiting = <<>>
  BY <1>1 DEF RunEnds, TypeOK, Stage, StageMatches, QueueNeverStalls
<1>2. CASE waiting # <<>>
  <2>1. Head(waiting) \in Asks /\ Tail(waiting) \in Seq(Asks)
    BY <1>2 DEF TypeOK
  <2>2. waiting' = Tail(waiting) /\ StartRun(Head(waiting), c, t)
    BY <1>2 DEF RunEnds
  <2>3. /\ active' \in Asks /\ stage' \in Stage \ {"none"}
        /\ cancelled' \in SUBSET Asks
        /\ rrec' \in [Asks -> AskState] /\ inFlight' \in SUBSET InFlight
    BY <2>1, <2>2, StartRunTyped
  <2>4. StageMatches' /\ QueueNeverStalls'
    BY <2>3 DEF StageMatches, QueueNeverStalls
  <2> QED
    BY <2>1, <2>2, <2>3, <2>4
<1> QED
  BY <1>1, <1>2

LEMMA HeadTyped ==
  ASSUME TypeOK, inboxR # <<>>
  PROVE  Head(inboxR).ask \in Asks /\ Tail(inboxR) \in Seq(ToReceiver)
<1>1. Head(inboxR) \in ToReceiver /\ Tail(inboxR) \in Seq(ToReceiver)
  BY DEF TypeOK
<1> QED
  BY <1>1 DEF ToReceiver

----------------------------------------------------------------------------
(* The sender's steps *)

LEMMA AskStartIInv ==
  ASSUME IInv, NEW a \in Asks, AskStart(a)
  PROVE  IInv'
  BY DEF IInv, TypeOK, StageMatches, QueueNeverStalls, EveryOpenAskIsWatched,
         AskStart, Call, InFlight, ToReceiver, receiverVars, queueVars,
         historyVars

\* The receiver's conjuncts of the invariant survive the sender's calls.
LEMMA SenderKeepsReceiver ==
  ASSUME IInv, UNCHANGED <<receiverVars, historyVars>>
  PROVE  /\ alive' \in BOOLEAN /\ waiting' \in Seq(Asks)
         /\ active' \in Asks \cup {NoAsk} /\ stage' \in Stage
         /\ cancelled' \in SUBSET Asks /\ desk' \in ToSender \cup {NoMsg}
         /\ rrec' \in [Asks -> AskState] /\ verdict' \in [Asks -> Verdict]
         /\ heard' \in SUBSET Asks /\ honoured' \in SUBSET Asks
         /\ StageMatches' /\ QueueNeverStalls'
  BY DEF IInv, TypeOK, StageMatches, QueueNeverStalls, receiverVars, queueVars,
         historyVars

LEMMA ThrownIInv ==
  ASSUME IInv, NEW a \in Asks, AskUnresolved(a) \/ AskUnwritten(a)
  PROVE  IInv'
<1>1. /\ call' = [call EXCEPT ![a] = "thrown"]
      /\ AppendEntry(a, "failed", "none", a \notin ById)
      /\ UNCHANGED <<waiter, mon, recall, inboxR, inboxS, receiverVars, historyVars>>
      /\ inFlight' \subseteq inFlight
  BY DEF AskUnresolved, AskUnwritten, netVars
<1>2. "failed" \in AskState /\ "none" \in Reason /\ (a \notin ById) \in BOOLEAN
  BY DEF AskState, Terminal, Reason
<1>3. /\ rec' \in [Asks -> AskState] /\ why' \in [Asks -> Reason]
      /\ label' \in [Asks -> BOOLEAN]
      /\ \A d \in Asks \ {a} : rec'[d] = rec[d]
  BY <1>1, <1>2, AppendEntryTyped DEF IInv
<1>4. TypeOK'
  BY <1>1, <1>3, SenderKeepsReceiver DEF IInv, TypeOK, Call
<1>5. EveryOpenAskIsWatched'
  BY <1>1, <1>3 DEF IInv, TypeOK, EveryOpenAskIsWatched
<1> QED
  BY <1>1, <1>4, <1>5, SenderKeepsReceiver DEF IInv

LEMMA AskLandsIInv ==
  ASSUME IInv, NEW a \in Asks, AskLands(a)
  PROVE  IInv'
<1>1. "queued" \in AskState /\ "none" \in Reason /\ TRUE \in BOOLEAN
  BY DEF AskState, Reason
<1>2. AppendEntry(a, "queued", "none", TRUE) /\ UNCHANGED <<receiverVars, historyVars>>
  BY DEF AskLands
<1>3. /\ rec' \in [Asks -> AskState] /\ why' \in [Asks -> Reason]
      /\ label' \in [Asks -> BOOLEAN]
      /\ \A d \in Asks \ {a} : rec'[d] = rec[d]
  BY <1>1, <1>2, AppendEntryTyped DEF IInv
<1>4. inboxR' \in Seq(ToReceiver) /\ inFlight' \in SUBSET InFlight
  BY DEF IInv, TypeOK, AskLands, ToReceiver
<1>5. /\ call' \in [Asks -> Call] /\ mon' \in SUBSET Asks
      /\ \A d \in Asks \ {a} : call'[d] = call[d] /\ (d \in mon' <=> d \in mon)
      /\ call'[a] = "unacked" /\ a \notin Delegated => a \in mon'
      /\ call'[a] # "acked"
  BY DEF IInv, TypeOK, AskLands, Call
<1>6. TypeOK'
  BY <1>2, <1>3, <1>4, <1>5, SenderKeepsReceiver DEF IInv, TypeOK, AskLands
<1>7. EveryOpenAskIsWatched'
  BY <1>3, <1>5 DEF IInv, EveryOpenAskIsWatched
<1> QED
  BY <1>2, <1>6, <1>7, SenderKeepsReceiver DEF IInv

LEMMA AckTimeoutIInv ==
  ASSUME IInv, NEW a \in Asks, AckTimeout(a)
  PROVE  IInv'
<1>1. CASE call[a] = "acking"
  <2>1. EnqueueAskReturns(a, FALSE) /\ FALSE \in BOOLEAN
    BY <1>1 DEF AckTimeout
  <2>2. /\ call' \in [Asks -> Call] /\ mon' \in SUBSET Asks
        /\ rec' \in [Asks -> AskState] /\ why' \in [Asks -> Reason]
        /\ label' \in [Asks -> BOOLEAN]
        /\ a \notin Delegated => a \in mon'
        /\ \A d \in Asks \ {a} : /\ call'[d] = call[d] /\ rec'[d] = rec[d]
                                 /\ d \in mon' <=> d \in mon
    BY <2>1, EnqueueAskReturnsTyped DEF IInv
  <2>3. TypeOK'
    BY <2>2, SenderKeepsReceiver DEF IInv, TypeOK, AckTimeout, netVars
  <2>4. EveryOpenAskIsWatched'
    BY <2>2 DEF IInv, EveryOpenAskIsWatched
  <2> QED
    BY <2>3, <2>4, SenderKeepsReceiver DEF IInv, AckTimeout
<1>2. CASE call[a] # "acking"
  <2>1. TypeOK'
    BY <1>2, SenderKeepsReceiver DEF IInv, TypeOK, AckTimeout, netVars
  <2>2. EveryOpenAskIsWatched'
    BY <1>2 DEF IInv, EveryOpenAskIsWatched, AckTimeout
  <2> QED
    BY <2>1, <2>2, SenderKeepsReceiver DEF IInv, AckTimeout
<1> QED
  BY <1>1, <1>2

LEMMA MonitorFailsIInv ==
  ASSUME IInv, NEW a \in Asks, MonitorFails(a)
  PROVE  IInv'
<1>1. "failed" \in AskState /\ "liveness" \in Reason /\ (a \notin ById) \in BOOLEAN
  BY DEF AskState, Terminal, Reason
<1>2. /\ rec' \in [Asks -> AskState] /\ why' \in [Asks -> Reason]
      /\ label' \in [Asks -> BOOLEAN]
      /\ rec'[a] = "failed" /\ \A d \in Asks \ {a} : rec'[d] = rec[d]
  BY <1>1, AppendEntryTyped DEF IInv, MonitorFails
<1>3. TypeOK'
  BY <1>2, SenderKeepsReceiver DEF IInv, TypeOK, MonitorFails, netVars
<1>4. EveryOpenAskIsWatched'
  BY <1>2 DEF IInv, EveryOpenAskIsWatched, MonitorFails, Terminal
<1> QED
  BY <1>3, <1>4, SenderKeepsReceiver DEF IInv, MonitorFails

LEMMA CancelIInv ==
  ASSUME IInv, NEW a \in Asks, metro_cancel(a)
  PROVE  IInv'
<1>1. "failed" \in AskState /\ "cancelled" \in Reason /\ label[a] \in BOOLEAN
  BY DEF AskState, Terminal, Reason, IInv, TypeOK
<1>2. /\ rec' \in [Asks -> AskState] /\ why' \in [Asks -> Reason]
      /\ label' \in [Asks -> BOOLEAN]
      /\ rec'[a] = "failed" /\ \A d \in Asks \ {a} : rec'[d] = rec[d]
  BY <1>1, AppendEntryTyped DEF IInv, metro_cancel
<1>3. inFlight' \in SUBSET InFlight
  <2>1. [type |-> "cancel", ask |-> a] \in InFlight
    BY DEF InFlight, ToReceiver
  <2>2. inFlight' \subseteq inFlight \cup {[type |-> "cancel", ask |-> a]}
    BY DEF metro_cancel
  <2> QED
    BY <2>1, <2>2 DEF IInv, TypeOK
<1>6. recall' \in [Asks -> {"no", "local", "sent"}]
  BY DEF IInv, TypeOK, metro_cancel
<1>4. TypeOK'
  BY <1>2, <1>3, <1>6, SenderKeepsReceiver DEF IInv, TypeOK, metro_cancel
<1>5. EveryOpenAskIsWatched'
  BY <1>2 DEF IInv, EveryOpenAskIsWatched, metro_cancel, Terminal
<1> QED
  BY <1>4, <1>5, SenderKeepsReceiver DEF IInv, metro_cancel

LEMMA CancelLandsIInv ==
  ASSUME IInv, NEW a \in Asks, CancelLands(a)
  PROVE  IInv'
<1>1. inboxR' \in Seq(ToReceiver) /\ inFlight' \in SUBSET InFlight
  BY DEF IInv, TypeOK, CancelLands, ToReceiver
<1>2. TypeOK'
  BY <1>1, SenderKeepsReceiver DEF IInv, TypeOK, CancelLands, senderVars
<1>3. EveryOpenAskIsWatched'
  BY DEF IInv, EveryOpenAskIsWatched, CancelLands, senderVars
<1> QED
  BY <1>2, <1>3, SenderKeepsReceiver DEF IInv, CancelLands

LEMMA SenderRoutesIInv ==
  ASSUME IInv, SenderRoutes
  PROVE  IInv'
<1> DEFINE m == Head(inboxS)
           a == m.ask
<1>1. /\ m \in ToSender /\ Tail(inboxS) \in Seq(ToSender)
      /\ inboxS' = Tail(inboxS)
  BY DEF IInv, TypeOK, SenderRoutes
<1>2. a \in Asks
  BY <1>1, MessageFields
<1>3. heard' \in SUBSET Asks
  BY <1>2 DEF IInv, TypeOK, SenderRoutes
<1>4. UNCHANGED <<recall, inFlight, inboxR, receiverVars, verdict, honoured>>
  BY DEF SenderRoutes
<1>5. SUFFICES /\ call' \in [Asks -> Call] /\ mon' \in SUBSET Asks
               /\ waiter' \in SUBSET Asks
               /\ rec' \in [Asks -> AskState] /\ why' \in [Asks -> Reason]
               /\ label' \in [Asks -> BOOLEAN]
               /\ EveryOpenAskIsWatched'
  BY <1>1, <1>3, <1>4
     DEF IInv, TypeOK, StageMatches, QueueNeverStalls, receiverVars, queueVars
<1>6. CASE TakenByWaiter(m)
  <2>1. RouteToWaiter(m)
    BY <1>6 DEF SenderRoutes
  <2>2. CASE call[a] = "acking"
    <3>1. EnqueueAskReturns(a, TRUE) /\ TRUE \in BOOLEAN
      BY <2>1, <2>2 DEF RouteToWaiter
    <3>2. /\ call' \in [Asks -> Call] /\ mon' \in SUBSET Asks
          /\ rec' \in [Asks -> AskState] /\ why' \in [Asks -> Reason]
          /\ label' \in [Asks -> BOOLEAN]
          /\ a \notin Delegated => a \in mon'
          /\ \A d \in Asks \ {a} : /\ call'[d] = call[d] /\ rec'[d] = rec[d]
                                   /\ d \in mon' <=> d \in mon
      BY <1>2, <3>1, EnqueueAskReturnsTyped DEF IInv
    <3>3. EveryOpenAskIsWatched'
      BY <3>2 DEF IInv, EveryOpenAskIsWatched
    <3> QED
      BY <2>1, <3>2, <3>3 DEF RouteToWaiter, IInv, TypeOK
  <2>3. CASE call[a] # "acking"
    BY <2>1, <2>3 DEF RouteToWaiter, IInv, TypeOK, EveryOpenAskIsWatched
  <2> QED
    BY <2>2, <2>3
<1>7. CASE ~TakenByWaiter(m)
  <2>1. RouteToCallback(m)
    BY <1>7 DEF SenderRoutes
  <2>2. UNCHANGED <<call, waiter>>
    BY <2>1 DEF RouteToCallback
  <2>3. CASE m.type = "ack"
    BY <2>1, <2>2, <2>3 DEF RouteToCallback, IInv, TypeOK, EveryOpenAskIsWatched
  <2>4. CASE m.type = "progress"
    <3>1. persistRankedAskUpdate(a, "running", "none") /\ UNCHANGED mon
      BY <2>1, <2>4 DEF RouteToCallback
    <3>2. "running" \in AskState /\ "none" \in Reason
      BY DEF AskState, Reason
    <3>3. /\ rec' \in [Asks -> AskState] /\ why' \in [Asks -> Reason]
          /\ label' \in [Asks -> BOOLEAN]
          /\ \A d \in Asks \ {a} : rec'[d] = rec[d]
          /\ rec[a] \in Terminal => rec'[a] = rec[a]
      BY <1>2, <3>1, <3>2, RankedTyped DEF IInv
    <3> QED
      BY <2>2, <3>1, <3>3 DEF IInv, TypeOK, EveryOpenAskIsWatched
  <2>5. CASE m.type \in {"reply", "fail"}
    <3>1. PICK s \in Terminal, r \in Reason :
            persistRankedAskUpdate(a, s, r) /\ mon' = mon \ {a}
      <4>1. CASE m.type = "reply"
        <5>1. m.of \in Terminal /\ "none" \in Reason
          BY <1>1, <4>1, MessageFields DEF Outcome, Terminal, Reason
        <5> QED
          BY <2>1, <4>1, <5>1 DEF RouteToCallback
      <4>2. CASE m.type = "fail"
        <5>1. "failed" \in Terminal /\ m.of \in Reason
          BY <1>1, <4>2, MessageFields DEF Terminal, Reason
        <5> QED
          BY <2>1, <4>2, <5>1 DEF RouteToCallback
      <4> QED
        BY <2>5, <4>1, <4>2
    <3>2. s \in AskState
      BY DEF AskState
    <3>3. /\ rec' \in [Asks -> AskState] /\ why' \in [Asks -> Reason]
          /\ label' \in [Asks -> BOOLEAN]
          /\ \A d \in Asks \ {a} : rec'[d] = rec[d]
          /\ rec'[a] \in Terminal
      BY <1>2, <3>1, <3>2, RankedTyped DEF IInv
    <3> QED
      BY <2>2, <3>1, <3>3 DEF IInv, TypeOK, EveryOpenAskIsWatched
  <2> QED
    BY <1>1, <2>3, <2>4, <2>5, MessageFields
<1> QED
  BY <1>6, <1>7

----------------------------------------------------------------------------
(* The receiver's steps *)

\* The sender's conjuncts of the invariant survive the receiver's steps.
LEMMA ReceiverKeepsSender ==
  ASSUME IInv, UNCHANGED senderVars
  PROVE  /\ call' \in [Asks -> Call] /\ waiter' \in SUBSET Asks
         /\ rec' \in [Asks -> AskState] /\ why' \in [Asks -> Reason]
         /\ label' \in [Asks -> BOOLEAN] /\ mon' \in SUBSET Asks
         /\ recall' \in [Asks -> {"no", "local", "sent"}]
         /\ EveryOpenAskIsWatched'
  BY DEF IInv, TypeOK, EveryOpenAskIsWatched, senderVars

LEMMA HandleAskIInv ==
  ASSUME IInv, NEW t \in BOOLEAN, HandleAsk(t)
  PROVE  IInv'
<1> DEFINE a == Head(inboxR).ask
<1>1. a \in Asks /\ Tail(inboxR) \in Seq(ToReceiver)
  BY HeadTyped DEF IInv, HandleAsk, NextFor
<1>2. /\ UNCHANGED <<senderVars, inboxS, alive, heard, honoured>>
      /\ inboxR' = Tail(inboxR)
  BY DEF HandleAsk
<1>3. SUFFICES /\ waiting' \in Seq(Asks) /\ active' \in Asks \cup {NoAsk}
               /\ stage' \in Stage /\ cancelled' \in SUBSET Asks
               /\ rrec' \in [Asks -> AskState] /\ inFlight' \in SUBSET InFlight
               /\ StageMatches' /\ QueueNeverStalls'
               /\ desk' \in ToSender /\ verdict' \in [Asks -> Verdict]
  BY <1>1, <1>2, ReceiverKeepsSender DEF IInv, TypeOK
<1>4. CASE Depth >= MaxQueue
  <2>1. /\ desk' = Fail(a, "busy")
        /\ verdict' = [verdict EXCEPT ![a] = "busy"]
        /\ UNCHANGED <<queueVars, cancelled, rrec, inFlight>>
    BY <1>4 DEF HandleAsk
  <2>2. desk' \in ToSender
    BY <1>1, <2>1 DEF ToSender
  <2> QED
    BY <2>1, <2>2
       DEF IInv, TypeOK, queueVars, StageMatches, QueueNeverStalls, Verdict
<1>5. CASE ~(Depth >= MaxQueue)
  <2>1. desk' = Ack(a) /\ UNCHANGED verdict
    BY <1>5 DEF HandleAsk
  <2>2. desk' \in ToSender /\ verdict' \in [Asks -> Verdict]
    BY <1>1, <2>1 DEF ToSender, IInv, TypeOK
  <2>3. CASE active = NoAsk
    <3>1. StartRun(a, cancelled, t) /\ UNCHANGED waiting
      BY <1>5, <2>3 DEF HandleAsk
    <3>2. cancelled \in SUBSET Asks
      BY DEF IInv, TypeOK
    <3>3. /\ active' \in Asks /\ stage' \in Stage \ {"none"}
          /\ cancelled' \in SUBSET Asks
          /\ rrec' \in [Asks -> AskState] /\ inFlight' \in SUBSET InFlight
      BY <1>1, <3>1, <3>2, StartRunTyped DEF IInv
    <3> QED
      BY <2>2, <3>1, <3>3 DEF IInv, TypeOK, StageMatches, QueueNeverStalls
  <2>4. CASE active # NoAsk
    <3>1. /\ waiting' = Append(waiting, a)
          /\ UNCHANGED <<active, stage, cancelled, rrec, inFlight>>
      BY <1>5, <2>4 DEF HandleAsk
    <3> QED
      BY <1>1, <2>2, <2>4, <3>1
         DEF IInv, TypeOK, StageMatches, QueueNeverStalls
  <2> QED
    BY <2>3, <2>4
<1> QED
  BY <1>4, <1>5

LEMMA CancelWaitingIInv ==
  ASSUME IInv, CancelWaiting
  PROVE  IInv'
<1> DEFINE a == Head(inboxR).ask
<1>1. a \in Asks /\ Tail(inboxR) \in Seq(ToReceiver)
  BY HeadTyped DEF IInv, CancelWaiting, NextFor
<1>2. PICK i \in DOMAIN waiting :
        /\ waiting' = RemoveAt(waiting, i)
        /\ desk' = Fail(a, "cancelled")
        /\ verdict' = [verdict EXCEPT ![a] = "dropped"]
        /\ honoured' = honoured \cup {a}
  BY DEF CancelWaiting
<1>3. waiting' \in Seq(Asks)
  BY <1>2 DEF IInv, TypeOK, RemoveAt
<1>4. desk' \in ToSender
  BY <1>1, <1>2 DEF ToSender
<1>5. active # NoAsk
  BY <1>2 DEF IInv, TypeOK, QueueNeverStalls
<1> QED
  BY <1>1, <1>2, <1>3, <1>4, <1>5, ReceiverKeepsSender
     DEF IInv, TypeOK, StageMatches, QueueNeverStalls, CancelWaiting, Verdict

LEMMA CancelMarkedIInv ==
  ASSUME IInv, CancelMarked
  PROVE  IInv'
<1> DEFINE a == Head(inboxR).ask
<1>1. a \in Asks /\ Tail(inboxR) \in Seq(ToReceiver)
  BY HeadTyped DEF IInv, CancelMarked, NextFor
<1>2. desk' \in ToSender \cup {NoMsg}
  BY <1>1 DEF CancelMarked, ToSender
<1>3. honoured' \in SUBSET Asks /\ cancelled' \in SUBSET Asks
  BY <1>1 DEF CancelMarked, IInv, TypeOK
<1> QED
  BY <1>1, <1>2, <1>3, ReceiverKeepsSender
     DEF IInv, TypeOK, StageMatches, QueueNeverStalls, CancelMarked, queueVars

LEMMA DeskLandsIInv ==
  ASSUME IInv, DeskLands
  PROVE  IInv'
<1>1. desk \in ToSender /\ desk.ask \in Asks
  BY MessageFields DEF IInv, TypeOK, DeskLands
<1>2. inboxS' \in Seq(ToSender) /\ rrec' \in [Asks -> AskState]
  BY <1>1 DEF IInv, TypeOK, DeskLands, AskState, Terminal
<1> QED
  BY <1>2, ReceiverKeepsSender
     DEF IInv, TypeOK, StageMatches, QueueNeverStalls, DeskLands, queueVars,
         historyVars

\* The ask of a run that has a stage.
LEMMA RunIsOnAsk ==
  ASSUME IInv, stage # "none"
  PROVE  active \in Asks
  BY DEF IInv, TypeOK, StageMatches

LEMMA RunSettlesIInv ==
  ASSUME IInv, NEW o \in Outcome, NEW t \in BOOLEAN, RunSettles(o, t)
  PROVE  IInv'
<1>1. active \in Asks
  BY RunIsOnAsk DEF RunSettles
<1>2. UNCHANGED <<senderVars, inboxR, inboxS, alive, desk, heard, honoured>>
  BY DEF RunSettles
<1>3. CASE active \in cancelled
  <2>1. /\ verdict' = [verdict EXCEPT ![active] = "discarded"]
        /\ RunEnds(cancelled \ {active}, t)
    BY <1>3 DEF RunSettles
  <2>2. (cancelled \ {active}) \in SUBSET Asks
    BY DEF IInv, TypeOK
  <2>3. /\ waiting' \in Seq(Asks) /\ active' \in Asks \cup {NoAsk}
        /\ stage' \in Stage /\ cancelled' \in SUBSET Asks
        /\ rrec' \in [Asks -> AskState] /\ inFlight' \in SUBSET InFlight
        /\ StageMatches' /\ QueueNeverStalls'
    BY <2>1, <2>2, RunEndsTyped DEF IInv
  <2>4. verdict' \in [Asks -> Verdict]
    BY <2>1 DEF IInv, TypeOK, Verdict
  <2> QED
    BY <1>2, <2>3, <2>4, ReceiverKeepsSender DEF IInv, TypeOK
<1>4. CASE active \notin cancelled
  <2>1. /\ stage' = o /\ rrec' = [rrec EXCEPT ![active] = o]
        /\ UNCHANGED <<waiting, active, cancelled, inFlight, verdict>>
    BY <1>4 DEF RunSettles
  <2>2. rrec' \in [Asks -> AskState] /\ stage' \in Stage \ {"none"}
    BY <2>1 DEF IInv, TypeOK, Outcome, AskState, Terminal, Stage
  <2> QED
    BY <1>1, <1>2, <2>1, <2>2, ReceiverKeepsSender
       DEF IInv, TypeOK, StageMatches, QueueNeverStalls
<1> QED
  BY <1>3, <1>4

LEMMA RunRepliesIInv ==
  ASSUME IInv, NEW t \in BOOLEAN, RunReplies(t) \/ ReplyRefused(t)
  PROVE  IInv'
<1>1. active \in Asks
  BY RunIsOnAsk DEF RunReplies, ReplyRefused, Outcome
<1>2. RunEnds(cancelled, t) /\ cancelled \in SUBSET Asks
  BY DEF RunReplies, ReplyRefused, IInv, TypeOK
<1>3. /\ waiting' \in Seq(Asks) /\ active' \in Asks \cup {NoAsk}
      /\ stage' \in Stage /\ cancelled' \in SUBSET Asks
      /\ rrec' \in [Asks -> AskState] /\ inFlight' \in SUBSET InFlight
      /\ StageMatches' /\ QueueNeverStalls'
  BY <1>2, RunEndsTyped DEF IInv
<1>4. verdict' \in [Asks -> Verdict]
  BY DEF IInv, TypeOK, RunReplies, ReplyRefused, Verdict, Outcome
<1>5. inboxS' \in Seq(ToSender)
  <2>1. CASE RunReplies(t)
    <3>1. Fail(active, "cancelled") \in ToSender
      BY <1>1 DEF ToSender
    <3>2. stage \in Outcome => Reply(active, stage) \in ToSender
      BY <1>1 DEF ToSender
    <3> QED
      BY <2>1, <3>1, <3>2 DEF IInv, TypeOK, RunReplies
  <2>2. CASE ReplyRefused(t)
    BY <2>2 DEF IInv, TypeOK, ReplyRefused
  <2> QED
    BY <2>1, <2>2
<1>6. UNCHANGED <<senderVars, inboxR, alive, desk, heard, honoured>>
  BY DEF RunReplies, ReplyRefused
<1> QED
  BY <1>3, <1>4, <1>5, <1>6, ReceiverKeepsSender DEF IInv, TypeOK

LEMMA PingLandsIInv ==
  ASSUME IInv, NEW a \in Asks, PingLands(a)
  PROVE  IInv'
<1>1. inboxS' \in Seq(ToSender) /\ inFlight' \in SUBSET InFlight
  BY DEF IInv, TypeOK, PingLands, ToSender
<1> QED
  BY <1>1, ReceiverKeepsSender, SenderKeepsReceiver
     DEF IInv, TypeOK, PingLands

LEMMA CrashIInv ==
  ASSUME IInv, Crash
  PROVE  IInv'
<1>1. /\ waiting' \in Seq(Asks) /\ active' \in Asks \cup {NoAsk}
      /\ stage' \in Stage /\ StageMatches' /\ QueueNeverStalls'
  BY DEF Crash, Stage, StageMatches, QueueNeverStalls
<1> QED
  BY <1>1, ReceiverKeepsSender DEF IInv, TypeOK, Crash, historyVars

----------------------------------------------------------------------------
(* Theorems *)

LEMMA InitIInv == Init => IInv
  BY DEF Init, IInv, TypeOK, StageMatches, QueueNeverStalls,
         EveryOpenAskIsWatched, Call, AskState, Reason, Stage, Verdict

LEMMA StepIInv == IInv /\ [Next]_vars => IInv'
<1> SUFFICES ASSUME IInv, [Next]_vars PROVE IInv'
  OBVIOUS
<1>1. CASE SenderStep
  BY <1>1, AskStartIInv, ThrownIInv, AskLandsIInv, AckTimeoutIInv,
     MonitorFailsIInv, CancelIInv, CancelLandsIInv, SenderRoutesIInv
     DEF SenderStep
<1>2. CASE ReceiverStep
  BY <1>2, HandleAskIInv, CancelWaitingIInv, CancelMarkedIInv, DeskLandsIInv,
     RunSettlesIInv, RunRepliesIInv, PingLandsIInv, CrashIInv DEF ReceiverStep
<1>3. CASE UNCHANGED vars
  <2>1. UNCHANGED <<senderVars, netVars, receiverVars, historyVars>>
    BY <1>3 DEF vars
  <2> QED
    BY <2>1, SenderKeepsReceiver, ReceiverKeepsSender DEF IInv, TypeOK, netVars
<1> QED
  BY <1>1, <1>2, <1>3 DEF Next

LEMMA Invariance == Spec => []IInv
  BY InitIInv, StepIInv, PTL DEF Spec

\* Type correctness of every reachable state.
THEOREM TypeCorrect == Spec => []TypeOK
<1>1. IInv => TypeOK
  BY DEF IInv
<1> QED
  BY <1>1, Invariance, PTL

\* No metro_ask that has returned and is not terminal is without a liveness
\* monitor, in whatever order acks, timers, cancels and late messages come.
THEOREM OpenAsksAreWatched == Spec => []EveryOpenAskIsWatched
<1>1. IInv => EveryOpenAskIsWatched
  BY DEF IInv
<1> QED
  BY <1>1, Invariance, PTL

\* While an ask waits at the receiver, another one runs.
THEOREM QueueIsServed == Spec => []QueueNeverStalls
<1>1. IInv => QueueNeverStalls
  BY DEF IInv
<1> QED
  BY <1>1, Invariance, PTL

----------------------------------------------------------------------------
(* The second part: verdicts and cancels.                                    *)

AskMsg(a)    == [type |-> "ask", ask |-> a]
CancelMsg(a) == [type |-> "cancel", ask |-> a]

\* Where an ask is: not yet sent, in the receiver's inbox, in its queue
Unsent(a)  == call[a] \in {"idle", "writing"}
InInbox(a) == \E i \in DOMAIN inboxR : inboxR[i] = AskMsg(a)
InLine(a)  == \E i \in DOMAIN waiting : waiting[i] = a

\* Nobody knows of an ask before it is sent: no entry, no message, no mark.
Untouched(a) ==
  /\ rec[a] = "none" /\ recall[a] = "no" /\ a \notin mon
  /\ CancelMsg(a) \notin inFlight /\ Ping(a) \notin inFlight
  /\ \A i \in DOMAIN inboxR : inboxR[i].ask # a
  /\ \A i \in DOMAIN inboxS : inboxS[i].ask # a
  /\ desk.ask # a /\ ~InLine(a) /\ active # a /\ a \notin cancelled
  /\ verdict[a] = "none"
SentFirst == \A a \in Asks : Unsent(a) => Untouched(a)

\* An ask is in one place at a time, and once.
OnePlace ==
  /\ \A i, j \in DOMAIN inboxR : inboxR[i].type = "ask" /\ inboxR[i] = inboxR[j] => i = j
  /\ \A i, j \in DOMAIN waiting : waiting[i] = waiting[j] => i = j
  /\ \A a \in Asks : InInbox(a) => ~InLine(a) /\ active # a
  /\ \A a \in Asks : InLine(a) => active # a

\* An ask that is on its way, waits or runs has no verdict.
Undecided == \A a \in Asks : InInbox(a) \/ InLine(a) \/ active = a => verdict[a] = "none"

\* A cancel comes behind its ask, so that no ask is marked before its run.
CancelIsBehind ==
  /\ \A a \in Asks : \A i, j \in DOMAIN inboxR :
       inboxR[i] = CancelMsg(a) /\ inboxR[j] = AskMsg(a) => j < i
  /\ \A a \in cancelled : ~InInbox(a) /\ ~InLine(a)
  /\ stage # "dropping"

Places == SentFirst /\ OnePlace /\ Undecided /\ CancelIsBehind

----------------------------------------------------------------------------
(* The end of a run *)

\* The first of the queue, if any, becomes the running one.
LEMMA RunEndsMoves ==
  ASSUME IInv, OnePlace, NEW c \in SUBSET Asks, NEW t \in BOOLEAN, RunEnds(c, t),
         \A a \in c : ~InLine(a)
  PROVE  /\ \A a \in Asks : InLine(a)' => InLine(a) /\ active' # a
         /\ active' # NoAsk => active' \in Asks /\ InLine(active')
         /\ \A i, j \in DOMAIN waiting' : waiting'[i] = waiting'[j] => i = j
         /\ cancelled' = c
         /\ stage' # "dropping"
         /\ \A m \in inFlight' : m \in inFlight \/ m = Ping(active')
         /\ inFlight \subseteq inFlight'
         /\ rrec' \in [Asks -> AskState]
<1>1. CASE waiting = <<>>
  BY <1>1 DEF RunEnds, InLine, IInv, TypeOK
<1>2. CASE waiting # <<>>
  <2>1. /\ waiting' = Tail(waiting) /\ StartRun(Head(waiting), c, t)
        /\ waiting \in Seq(Asks)
    BY <1>2 DEF RunEnds, IInv, TypeOK
  <2>2. /\ Tail(waiting) \in Seq(Asks) /\ Head(waiting) = waiting[1]
        /\ Head(waiting) \in Asks
        /\ Len(waiting) \in Nat \ {0} /\ DOMAIN waiting = 1..Len(waiting)
        /\ DOMAIN Tail(waiting) = 1..Len(waiting) - 1
        /\ \A i \in 1..Len(waiting) - 1 : Tail(waiting)[i] = waiting[i + 1]
    BY <1>2, <2>1, Taken
  <2>3. InLine(Head(waiting)) /\ Head(waiting) \notin c
    BY <2>2 DEF InLine
  <2>4. /\ active' = Head(waiting) /\ cancelled' = c /\ stage' \in {"agent", "failed"}
        /\ inFlight' = inFlight \cup {Ping(active')}
    BY <2>1, <2>3 DEF StartRun
  <2>5. \A a \in Asks : InLine(a)' => InLine(a) /\ active' # a
    BY <2>1, <2>2, <2>4 DEF InLine, OnePlace
  <2>6. \A i, j \in DOMAIN waiting' : waiting'[i] = waiting'[j] => i = j
    BY <2>1, <2>2 DEF OnePlace
  <2>7. rrec' \in [Asks -> AskState]
    BY <2>1, <2>2, StartRunTyped DEF IInv
  <2> QED
    BY <2>2, <2>3, <2>4, <2>5, <2>6, <2>7
<1> QED
  BY <1>1, <1>2

----------------------------------------------------------------------------
(* Places: the sender's steps *)

\* Steps that leave the receiver's inbox, queue and desk alone.
Elsewhere == <<inboxR, waiting, active, stage, cancelled, desk, verdict>>

LEMMA QuietPlaces ==
  ASSUME Places, UNCHANGED Elsewhere
  PROVE  OnePlace' /\ Undecided' /\ CancelIsBehind'
  BY DEF Places, Elsewhere, OnePlace, Undecided, CancelIsBehind, InInbox, InLine, AskMsg,
         CancelMsg

LEMMA AskStartPlaces ==
  ASSUME IInv, Places, NEW a \in Asks, AskStart(a)
  PROVE  Places'
<1>1. UNCHANGED Elsewhere
  BY DEF AskStart, Elsewhere, receiverVars, queueVars, historyVars
<1>2. SentFirst'
  BY DEF IInv, TypeOK, Places, AskStart, SentFirst, Unsent, Untouched, InLine, Ping, CancelMsg,
         receiverVars, queueVars, historyVars
<1> QED
  BY <1>1, <1>2, QuietPlaces DEF Places

LEMMA ThrownPlaces ==
  ASSUME IInv, Places, NEW a \in Asks, AskUnresolved(a) \/ AskUnwritten(a)
  PROVE  Places'
<1>1. UNCHANGED Elsewhere
  BY DEF AskUnresolved, AskUnwritten, Elsewhere, netVars, receiverVars, queueVars, historyVars
<1>2. SentFirst'
  BY DEF IInv, TypeOK, Places, AskUnresolved, AskUnwritten, AppendEntry, SentFirst, Unsent,
         Untouched, InLine, Ping, CancelMsg, netVars, receiverVars, queueVars, historyVars
<1> QED
  BY <1>1, <1>2, QuietPlaces DEF Places

LEMMA AskLandsPlaces ==
  ASSUME IInv, Places, NEW a \in Asks, AskLands(a)
  PROVE  Places'
<1>1. /\ inboxR' = Append(inboxR, AskMsg(a)) /\ AskMsg(a) \in ToReceiver
      /\ inboxR \in Seq(ToReceiver)
  BY DEF AskLands, AskMsg, ToReceiver, IInv, TypeOK
<1>2. /\ Len(inboxR) \in Nat /\ DOMAIN inboxR = 1..Len(inboxR)
      /\ DOMAIN inboxR' = 1..Len(inboxR) + 1
      /\ \A i \in 1..Len(inboxR) : inboxR'[i] = inboxR[i]
      /\ inboxR'[Len(inboxR) + 1] = AskMsg(a)
  BY <1>1, Appended
<1>3. Untouched(a) /\ Unsent(a)
  BY DEF AskLands, Unsent, Places, SentFirst
<1>4. /\ \A d \in Asks \ {a} : call'[d] = call[d] /\ rec'[d] = rec[d] /\ (d \in mon' <=> d \in mon)
      /\ ~Unsent(a)' /\ inFlight' \subseteq inFlight
      /\ UNCHANGED <<recall, inboxS, waiting, active, stage, cancelled, desk, verdict>>
  BY DEF AskLands, AppendEntry, Unsent, IInv, TypeOK, receiverVars, queueVars, historyVars
<1>5. SentFirst'
  <2> SUFFICES ASSUME NEW d \in Asks, Unsent(d)' PROVE Untouched(d)'
    BY DEF SentFirst
  <2>1. d # a /\ Untouched(d)
    BY <1>4 DEF Unsent, Places, SentFirst
  <2> QED
    BY <1>2, <1>4, <2>1 DEF Untouched, InLine, AskMsg
<1>6. \A d \in Asks \ {a} : InInbox(d)' <=> InInbox(d)
  BY <1>2 DEF InInbox, AskMsg
<1>7. OnePlace'
  BY <1>2, <1>3, <1>4, <1>6 DEF Places, OnePlace, InLine, Untouched, AskMsg
<1>8. Undecided'
  BY <1>3, <1>4, <1>6 DEF Places, Undecided, InLine, Untouched
<1>9. CancelIsBehind'
  <2>1. \A d \in Asks : \A i, j \in DOMAIN inboxR' :
          inboxR'[i] = CancelMsg(d) /\ inboxR'[j] = AskMsg(d) => j < i
    BY <1>2, <1>3 DEF Places, CancelIsBehind, Untouched, AskMsg, CancelMsg
  <2>2. \A d \in cancelled' : ~InInbox(d)' /\ ~InLine(d)'
    BY <1>3, <1>4, <1>6 DEF Places, CancelIsBehind, Untouched, InLine, IInv, TypeOK
  <2> QED
    BY <1>4, <2>1, <2>2 DEF Places, CancelIsBehind
<1> QED
  BY <1>5, <1>7, <1>8, <1>9 DEF Places

LEMMA AckTimeoutPlaces ==
  ASSUME IInv, Places, NEW a \in Asks, AckTimeout(a)
  PROVE  Places'
<1>1. UNCHANGED Elsewhere
  BY DEF AckTimeout, Elsewhere, netVars, receiverVars, queueVars, historyVars
<1>2. SentFirst'
  BY DEF IInv, TypeOK, Places, AckTimeout, EnqueueAskReturns, AppendEntry, SentFirst, Unsent,
         Untouched, InLine, netVars, receiverVars, queueVars, historyVars
<1> QED
  BY <1>1, <1>2, QuietPlaces DEF Places

LEMMA MonitorFailsPlaces ==
  ASSUME IInv, Places, NEW a \in Asks, MonitorFails(a)
  PROVE  Places'
<1>1. UNCHANGED Elsewhere
  BY DEF MonitorFails, Elsewhere, netVars, receiverVars, queueVars, historyVars
<1>2. SentFirst'
  BY DEF IInv, TypeOK, Places, MonitorFails, AppendEntry, SentFirst, Unsent,
         Untouched, InLine, netVars, receiverVars, queueVars, historyVars
<1> QED
  BY <1>1, <1>2, QuietPlaces DEF Places

LEMMA CancelPlaces ==
  ASSUME IInv, Places, NEW a \in Asks, metro_cancel(a)
  PROVE  Places'
<1>1. UNCHANGED Elsewhere
  BY DEF metro_cancel, Elsewhere, receiverVars, queueVars, historyVars
<1>2. SentFirst'
  <2> SUFFICES ASSUME NEW d \in Asks, Unsent(d)' PROVE Untouched(d)'
    BY DEF SentFirst
  <2>1. Untouched(d)
    BY DEF Unsent, Places, SentFirst, metro_cancel
  <2>2. d # a
    BY <2>1 DEF Untouched, metro_cancel
  <2>3. CancelMsg(d) # CancelMsg(a) /\ Ping(d) # CancelMsg(a)
    BY <2>2 DEF CancelMsg, Ping
  <2>4. /\ inFlight' \subseteq inFlight \cup {CancelMsg(a)}
        /\ rec'[d] = rec[d] /\ recall'[d] = recall[d] /\ (d \in mon' <=> d \in mon)
    BY <2>2 DEF metro_cancel, AppendEntry, CancelMsg, IInv, TypeOK
  <2> QED
    BY <2>1, <2>3, <2>4 DEF Untouched, InLine, metro_cancel, receiverVars, queueVars, historyVars
<1> QED
  BY <1>1, <1>2, QuietPlaces DEF Places

LEMMA CancelLandsPlaces ==
  ASSUME IInv, Places, NEW a \in Asks, CancelLands(a)
  PROVE  Places'
<1>1. /\ inboxR' = Append(inboxR, CancelMsg(a)) /\ CancelMsg(a) \in ToReceiver
      /\ inboxR \in Seq(ToReceiver) /\ CancelMsg(a) \in inFlight
  BY DEF CancelLands, CancelMsg, ToReceiver, IInv, TypeOK
<1>2. /\ Len(inboxR) \in Nat /\ DOMAIN inboxR = 1..Len(inboxR)
      /\ DOMAIN inboxR' = 1..Len(inboxR) + 1
      /\ \A i \in 1..Len(inboxR) : inboxR'[i] = inboxR[i]
      /\ inboxR'[Len(inboxR) + 1] = CancelMsg(a)
  BY <1>1, Appended
<1>3. /\ inFlight' \subseteq inFlight
      /\ UNCHANGED <<call, rec, mon, recall, inboxS, waiting, active, stage, cancelled, desk, verdict>>
  BY DEF CancelLands, senderVars, receiverVars, queueVars, historyVars
<1>4. SentFirst'
  <2> SUFFICES ASSUME NEW d \in Asks, Unsent(d)' PROVE Untouched(d)'
    BY DEF SentFirst
  <2>1. Untouched(d)
    BY <1>3 DEF Unsent, Places, SentFirst
  <2>2. d # a
    BY <1>1, <2>1 DEF Untouched
  <2> QED
    BY <1>2, <1>3, <2>1, <2>2 DEF Untouched, InLine, CancelMsg
<1>5. \A d \in Asks : InInbox(d)' <=> InInbox(d)
  BY <1>2 DEF InInbox, AskMsg, CancelMsg
<1>6. OnePlace'
  BY <1>2, <1>3, <1>5 DEF Places, OnePlace, InLine, CancelMsg
<1>7. Undecided'
  BY <1>3, <1>5 DEF Places, Undecided, InLine
<1>8. CancelIsBehind'
  <2>1. \A d \in Asks : \A i, j \in DOMAIN inboxR' :
          inboxR'[i] = CancelMsg(d) /\ inboxR'[j] = AskMsg(d) => j < i
    BY <1>2 DEF Places, CancelIsBehind, AskMsg, CancelMsg
  <2> QED
    BY <1>3, <1>5, <2>1 DEF Places, CancelIsBehind, InLine, IInv, TypeOK
<1> QED
  BY <1>4, <1>6, <1>7, <1>8 DEF Places

LEMMA SenderRoutesPlaces ==
  ASSUME IInv, Places, SenderRoutes
  PROVE  Places'
<1> DEFINE m == Head(inboxS)
<1>1. /\ inboxS' = Tail(inboxS) /\ inboxS \in Seq(ToSender) /\ inboxS # <<>>
      /\ UNCHANGED <<recall, inFlight, Elsewhere>>
  BY DEF SenderRoutes, IInv, TypeOK, Elsewhere, receiverVars, queueVars, historyVars
<1>2. /\ m = inboxS[1] /\ m \in ToSender
      /\ Len(inboxS) \in Nat \ {0} /\ DOMAIN inboxS = 1..Len(inboxS)
      /\ DOMAIN inboxS' = 1..Len(inboxS) - 1
      /\ \A i \in 1..Len(inboxS) - 1 : inboxS'[i] = inboxS[i + 1]
  BY <1>1, Taken
<1>3. PICK b \in Asks : b = m.ask
  BY <1>2, MessageFields
<1>4. /\ \A d \in Asks \ {b} : call'[d] = call[d] /\ rec'[d] = rec[d] /\ (d \in mon' <=> d \in mon)
      /\ call'[b] \in {call[b], "acked"}
  <2>1. CASE TakenByWaiter(m)
    BY <1>3, <2>1 DEF SenderRoutes, RouteToWaiter, EnqueueAskReturns, AppendEntry, IInv, TypeOK
  <2>2. CASE ~TakenByWaiter(m)
    <3>1. RouteToCallback(m)
      BY <2>2 DEF SenderRoutes
    <3>2. UNCHANGED call /\ mon' \in {mon, mon \ {b}}
      BY <1>2, <1>3, <3>1, MessageFields DEF RouteToCallback
    <3>3. \E s, r : UNCHANGED rec \/ persistRankedAskUpdate(b, s, r)
      BY <1>2, <1>3, <3>1, MessageFields DEF RouteToCallback
    <3>4. \A d \in Asks \ {b} : rec'[d] = rec[d]
      BY <3>3 DEF persistRankedAskUpdate, AppendEntry, IInv, TypeOK
    <3> QED
      BY <3>2, <3>4
  <2> QED
    BY <2>1, <2>2
<1>5. ~Unsent(b)
  BY <1>2, <1>3 DEF Places, SentFirst, Untouched
<1>6. ~Unsent(b)'
  BY <1>4, <1>5 DEF Unsent
<1>7. SentFirst'
  <2> SUFFICES ASSUME NEW d \in Asks, Unsent(d)' PROVE Untouched(d)'
    BY DEF SentFirst
  <2>1. d # b /\ Untouched(d)
    BY <1>4, <1>6 DEF Unsent, Places, SentFirst
  <2> QED
    BY <1>1, <1>2, <1>4, <2>1 DEF Untouched, InLine, Elsewhere
<1> QED
  BY <1>1, <1>7, QuietPlaces DEF Places

----------------------------------------------------------------------------
(* Places: the receiver's steps *)

\* The handler takes the first message of the inbox.
LEMMA InboxPopped ==
  ASSUME IInv, Places, inboxR # <<>>, inboxR' = Tail(inboxR)
  PROVE  \E b \in Asks :
           /\ b = Head(inboxR).ask /\ ~Unsent(b)
           /\ inboxR[1] \in {AskMsg(b), CancelMsg(b)} /\ inboxR[1] = Head(inboxR)
           /\ \A d \in Asks : InInbox(d)' => InInbox(d)
           /\ inboxR[1] = AskMsg(b) => InInbox(b) /\ ~InInbox(b)'
           /\ inboxR[1] = CancelMsg(b) => ~InInbox(b)'
           /\ \A d \in Asks : (\A i \in DOMAIN inboxR : inboxR[i].ask # d) =>
                \A i \in DOMAIN inboxR' : inboxR'[i].ask # d
           /\ \A i, j \in DOMAIN inboxR' :
                inboxR'[i].type = "ask" /\ inboxR'[i] = inboxR'[j] => i = j
           /\ \A d \in Asks : \A i, j \in DOMAIN inboxR' :
                inboxR'[i] = CancelMsg(d) /\ inboxR'[j] = AskMsg(d) => j < i
<1>1. inboxR \in Seq(ToReceiver)
  BY DEF IInv, TypeOK
<1>2. /\ inboxR[1] = Head(inboxR) /\ inboxR[1] \in ToReceiver
      /\ Len(inboxR) \in Nat \ {0} /\ DOMAIN inboxR = 1..Len(inboxR)
      /\ DOMAIN inboxR' = 1..Len(inboxR) - 1
      /\ \A i \in 1..Len(inboxR) - 1 : inboxR'[i] = inboxR[i + 1]
  BY <1>1, Taken
<1>3. PICK b \in Asks : b = Head(inboxR).ask /\ inboxR[1] \in {AskMsg(b), CancelMsg(b)}
  BY <1>2 DEF ToReceiver, AskMsg, CancelMsg
<1>4. ~Unsent(b)
  BY <1>2, <1>3 DEF Places, SentFirst, Untouched
<1>5. \A d \in Asks : InInbox(d)' => InInbox(d)
  BY <1>2 DEF InInbox
<1>6. inboxR[1] = AskMsg(b) => InInbox(b) /\ ~InInbox(b)'
  BY <1>2 DEF InInbox, Places, OnePlace, AskMsg
<1>7. inboxR[1] = CancelMsg(b) => ~InInbox(b)'
  <2> SUFFICES ASSUME inboxR[1] = CancelMsg(b), NEW i \in DOMAIN inboxR', inboxR'[i] = AskMsg(b)
               PROVE  FALSE
    BY DEF InInbox
  <2>1. 1 \in DOMAIN inboxR /\ i + 1 \in DOMAIN inboxR /\ inboxR[i + 1] = AskMsg(b)
    BY <1>2
  <2>2. i + 1 < 1
    BY <2>1 DEF Places, CancelIsBehind
  <2> QED
    BY <1>2, <2>2
<1>8. \A d \in Asks : (\A i \in DOMAIN inboxR : inboxR[i].ask # d) =>
        \A i \in DOMAIN inboxR' : inboxR'[i].ask # d
  BY <1>2
<1>9. \A i, j \in DOMAIN inboxR' :
        inboxR'[i].type = "ask" /\ inboxR'[i] = inboxR'[j] => i = j
  BY <1>2 DEF Places, OnePlace
<1>10. ASSUME NEW d \in Asks, NEW i \in DOMAIN inboxR', NEW j \in DOMAIN inboxR',
              inboxR'[i] = CancelMsg(d), inboxR'[j] = AskMsg(d)
       PROVE  j < i
  <2>1. /\ i + 1 \in DOMAIN inboxR /\ inboxR[i + 1] = CancelMsg(d)
        /\ j + 1 \in DOMAIN inboxR /\ inboxR[j + 1] = AskMsg(d)
    BY <1>2, <1>10
  <2>2. j + 1 < i + 1
    BY <2>1 DEF Places, CancelIsBehind
  <2> QED
    BY <1>2, <2>2
<1> QED
  BY <1>2, <1>3, <1>4, <1>5, <1>6, <1>7, <1>8, <1>9, <1>10

LEMMA HandleAskPlaces ==
  ASSUME IInv, Places, NEW t \in BOOLEAN, HandleAsk(t)
  PROVE  Places'
<1>1. /\ inboxR # <<>> /\ inboxR' = Tail(inboxR) /\ Head(inboxR).type = "ask"
      /\ UNCHANGED <<call, rec, mon, recall, inboxS>>
  BY DEF HandleAsk, NextFor, senderVars
<1>2. PICK b \in Asks :
        /\ b = Head(inboxR).ask /\ ~Unsent(b)
        /\ inboxR[1] \in {AskMsg(b), CancelMsg(b)} /\ inboxR[1] = Head(inboxR)
        /\ \A d \in Asks : InInbox(d)' => InInbox(d)
        /\ inboxR[1] = AskMsg(b) => InInbox(b) /\ ~InInbox(b)'
        /\ \A d \in Asks : (\A i \in DOMAIN inboxR : inboxR[i].ask # d) =>
             \A i \in DOMAIN inboxR' : inboxR'[i].ask # d
        /\ \A i, j \in DOMAIN inboxR' :
             inboxR'[i].type = "ask" /\ inboxR'[i] = inboxR'[j] => i = j
        /\ \A d \in Asks : \A i, j \in DOMAIN inboxR' :
             inboxR'[i] = CancelMsg(d) /\ inboxR'[j] = AskMsg(d) => j < i
  BY <1>1, InboxPopped
<1>3. InInbox(b) /\ ~InInbox(b)' /\ ~InLine(b) /\ active # b /\ verdict[b] = "none"
      /\ b \notin cancelled
  BY <1>1, <1>2 DEF CancelMsg, Places, OnePlace, Undecided, CancelIsBehind
<1>4. /\ desk'.ask = b
      /\ \A d \in Asks : InLine(d)' => InLine(d) \/ d = b
      /\ \A d \in Asks : InLine(d)' => active' # d
      /\ active' \in {active, b}
      /\ \A i, j \in DOMAIN waiting' : waiting'[i] = waiting'[j] => i = j
      /\ cancelled' = cancelled
      /\ stage' # "dropping"
      /\ inFlight' \subseteq inFlight \cup {Ping(b)}
      /\ \A d \in Asks : d # b \/ InLine(b)' \/ active' = b => verdict'[d] = verdict[d]
  <2>1. CASE Depth >= MaxQueue
    BY <1>2, <1>3, <2>1
       DEF HandleAsk, queueVars, InLine, Fail, Places, OnePlace, CancelIsBehind, IInv, TypeOK
  <2>2. CASE ~(Depth >= MaxQueue) /\ active = NoAsk
    <3>1. /\ StartRun(b, cancelled, t) /\ UNCHANGED <<waiting, verdict>>
          /\ desk' = Ack(b)
      BY <1>2, <2>2 DEF HandleAsk
    <3> QED
      BY <1>3, <3>1
         DEF StartRun, InLine, Ack, Places, OnePlace, CancelIsBehind, IInv, TypeOK
  <2>3. CASE ~(Depth >= MaxQueue) /\ active # NoAsk
    <3>1. /\ waiting' = Append(waiting, b) /\ waiting \in Seq(Asks)
          /\ UNCHANGED <<active, stage, cancelled, inFlight, verdict>>
          /\ desk' = Ack(b)
      BY <1>2, <2>3 DEF HandleAsk, IInv, TypeOK
    <3>2. /\ Len(waiting) \in Nat /\ DOMAIN waiting = 1..Len(waiting)
          /\ DOMAIN waiting' = 1..Len(waiting) + 1
          /\ \A i \in 1..Len(waiting) : waiting'[i] = waiting[i]
          /\ waiting'[Len(waiting) + 1] = b
      BY <3>1, Appended
    <3> QED
      BY <1>3, <3>1, <3>2 DEF InLine, Ack, Places, OnePlace, CancelIsBehind
  <2> QED
    BY <2>1, <2>2, <2>3
<1>5. SentFirst'
  <2> SUFFICES ASSUME NEW d \in Asks, Unsent(d)' PROVE Untouched(d)'
    BY DEF SentFirst
  <2>1. Untouched(d) /\ d # b
    BY <1>1, <1>2 DEF Unsent, Places, SentFirst
  <2>2. Ping(d) # Ping(b) /\ CancelMsg(d) # Ping(b)
    BY <2>1 DEF Ping, CancelMsg
  <2>3. ~InLine(d)' /\ active' # d /\ verdict'[d] = "none"
    BY <1>4, <2>1 DEF Untouched
  <2> QED
    BY <1>1, <1>2, <1>4, <2>1, <2>2, <2>3 DEF Untouched
<1>6. OnePlace'
  BY <1>2, <1>3, <1>4 DEF Places, OnePlace
<1>7. Undecided'
  BY <1>2, <1>3, <1>4 DEF Places, Undecided
<1>8. CancelIsBehind'
  BY <1>2, <1>3, <1>4 DEF Places, CancelIsBehind, IInv, TypeOK
<1> QED
  BY <1>5, <1>6, <1>7, <1>8 DEF Places

LEMMA CancelWaitingPlaces ==
  ASSUME IInv, Places, CancelWaiting
  PROVE  Places'
<1>1. /\ inboxR # <<>> /\ inboxR' = Tail(inboxR)
      /\ UNCHANGED <<call, rec, mon, recall, inboxS, inFlight, active, stage, cancelled>>
  BY DEF CancelWaiting, NextFor, senderVars
<1>2. PICK b \in Asks :
        /\ b = Head(inboxR).ask /\ ~Unsent(b)
        /\ \A d \in Asks : InInbox(d)' => InInbox(d)
        /\ \A d \in Asks : (\A i \in DOMAIN inboxR : inboxR[i].ask # d) =>
             \A i \in DOMAIN inboxR' : inboxR'[i].ask # d
        /\ \A i, j \in DOMAIN inboxR' :
             inboxR'[i].type = "ask" /\ inboxR'[i] = inboxR'[j] => i = j
        /\ \A d \in Asks : \A i, j \in DOMAIN inboxR' :
             inboxR'[i] = CancelMsg(d) /\ inboxR'[j] = AskMsg(d) => j < i
  BY <1>1, InboxPopped
<1>3. PICK k \in DOMAIN waiting :
        /\ waiting[k] = b /\ waiting' = RemoveAt(waiting, k)
        /\ desk' = Fail(b, "cancelled")
        /\ verdict' = [verdict EXCEPT ![b] = "dropped"]
  BY <1>2 DEF CancelWaiting
<1>4. /\ Len(waiting) \in Nat \ {0} /\ DOMAIN waiting = 1..Len(waiting)
      /\ DOMAIN waiting' = 1..Len(waiting) - 1
      /\ \A i \in 1..Len(waiting) - 1 :
           waiting'[i] = IF i < k THEN waiting[i] ELSE waiting[i + 1]
  BY <1>3, Removed DEF IInv, TypeOK
<1>5. InLine(b)
  BY <1>3 DEF InLine
<1>6. \A d \in Asks : InLine(d)' => InLine(d) /\ d # b
  <2> SUFFICES ASSUME NEW i \in DOMAIN waiting' PROVE InLine(waiting'[i]) /\ waiting'[i] # b
    BY DEF InLine
  <2>1. PICK j \in DOMAIN waiting : waiting'[i] = waiting[j] /\ j # k
    BY <1>4
  <2> QED
    BY <1>3, <2>1 DEF InLine, Places, OnePlace
<1>7. \A i, j \in DOMAIN waiting' : waiting'[i] = waiting'[j] => i = j
  <2> DEFINE from(i) == IF i < k THEN i ELSE i + 1
  <2>1. \A i \in DOMAIN waiting' : from(i) \in DOMAIN waiting /\ waiting'[i] = waiting[from(i)]
    BY <1>4
  <2>2. \A i, j \in DOMAIN waiting' : from(i) = from(j) => i = j
    BY <1>4
  <2>3. \A i, j \in DOMAIN waiting : waiting[i] = waiting[j] => i = j
    BY DEF Places, OnePlace
  <2> HIDE DEF from
  <2> QED
    BY <2>1, <2>2, <2>3
<1>8. \A d \in Asks : verdict'[d] = IF d = b THEN "dropped" ELSE verdict[d]
  BY <1>3 DEF IInv, TypeOK
<1>9. SentFirst'
  <2> SUFFICES ASSUME NEW d \in Asks, Unsent(d)' PROVE Untouched(d)'
    BY DEF SentFirst
  <2>1. Untouched(d) /\ d # b
    BY <1>1, <1>2 DEF Unsent, Places, SentFirst
  <2> QED
    BY <1>1, <1>2, <1>3, <1>6, <1>8, <2>1 DEF Untouched, Fail
<1>10. OnePlace'
  BY <1>1, <1>2, <1>6, <1>7 DEF Places, OnePlace
<1>11. ~InInbox(b) /\ active # b
  BY <1>5 DEF Places, OnePlace
<1>12. Undecided'
  BY <1>1, <1>2, <1>6, <1>8, <1>11 DEF Places, Undecided
<1>13. CancelIsBehind'
  BY <1>1, <1>2, <1>6 DEF Places, CancelIsBehind, IInv, TypeOK
<1> QED
  BY <1>9, <1>10, <1>12, <1>13 DEF Places

LEMMA CancelMarkedPlaces ==
  ASSUME IInv, Places, CancelMarked
  PROVE  Places'
<1>1. /\ inboxR # <<>> /\ inboxR' = Tail(inboxR) /\ Head(inboxR).type = "cancel"
      /\ UNCHANGED <<call, rec, mon, recall, inboxS, inFlight, active, stage, waiting, verdict>>
  BY DEF CancelMarked, NextFor, senderVars, queueVars
<1>2. PICK b \in Asks :
        /\ b = Head(inboxR).ask /\ ~Unsent(b)
        /\ inboxR[1] \in {AskMsg(b), CancelMsg(b)} /\ inboxR[1] = Head(inboxR)
        /\ \A d \in Asks : InInbox(d)' => InInbox(d)
        /\ inboxR[1] = CancelMsg(b) => ~InInbox(b)'
        /\ \A d \in Asks : (\A i \in DOMAIN inboxR : inboxR[i].ask # d) =>
             \A i \in DOMAIN inboxR' : inboxR'[i].ask # d
        /\ \A i, j \in DOMAIN inboxR' :
             inboxR'[i].type = "ask" /\ inboxR'[i] = inboxR'[j] => i = j
        /\ \A d \in Asks : \A i, j \in DOMAIN inboxR' :
             inboxR'[i] = CancelMsg(d) /\ inboxR'[j] = AskMsg(d) => j < i
  BY <1>1, InboxPopped
<1>3. /\ ~InLine(b) /\ cancelled' = cancelled \cup {b} /\ desk'.ask \in {b, NoAsk}
      /\ ~InInbox(b)'
  BY <1>1, <1>2 DEF CancelMarked, InLine, Fail, NoMsg, AskMsg
<1>4. SentFirst'
  <2> SUFFICES ASSUME NEW d \in Asks, Unsent(d)' PROVE Untouched(d)'
    BY DEF SentFirst
  <2>1. Untouched(d) /\ d # b
    BY <1>1, <1>2 DEF Unsent, Places, SentFirst
  <2> QED
    BY <1>1, <1>2, <1>3, <2>1 DEF Untouched, InLine
<1>5. OnePlace' /\ Undecided'
  BY <1>1, <1>2 DEF Places, OnePlace, Undecided, InLine
<1>6. CancelIsBehind'
  BY <1>1, <1>2, <1>3 DEF Places, CancelIsBehind, InLine, IInv, TypeOK
<1> QED
  BY <1>4, <1>5, <1>6 DEF Places

\* A message of the desk, or a ping, lands in the sender's inbox.
LEMMA LandsPlaces ==
  ASSUME IInv, Places, DeskLands \/ \E a \in Asks : PingLands(a)
  PROVE  Places'
<1> DEFINE Moves(m) ==
        /\ inboxS' = Append(inboxS, m) /\ ~Unsent(m.ask)
        /\ desk' \in {desk, NoMsg} /\ inFlight' \subseteq inFlight
        /\ UNCHANGED <<call, rec, mon, recall, inboxR, waiting, active, stage, cancelled, verdict>>
<1>1. PICK m \in ToSender : Moves(m)
  <2>1. CASE DeskLands
    <3>1. desk \in ToSender /\ desk.ask \in Asks
      BY <2>1, MessageFields DEF DeskLands, IInv, TypeOK
    <3>2. ~Unsent(desk.ask)
      BY <3>1 DEF Places, SentFirst, Untouched
    <3> QED
      BY <2>1, <3>1, <3>2 DEF DeskLands, senderVars, queueVars, historyVars
  <2>2. ASSUME NEW a \in Asks, PingLands(a)
        PROVE  Ping(a) \in ToSender /\ Moves(Ping(a))
    <3>1. ~Unsent(a)
      BY <2>2 DEF PingLands, Places, SentFirst, Untouched
    <3>2. Ping(a) \in ToSender /\ Ping(a).ask = a
      BY DEF ToSender, Ping
    <3> QED
      BY <2>2, <3>1, <3>2 DEF PingLands, senderVars, receiverVars, queueVars, historyVars
  <2> QED
    BY <2>1, <2>2
<1>2. /\ Len(inboxS) \in Nat /\ DOMAIN inboxS = 1..Len(inboxS)
      /\ DOMAIN inboxS' = 1..Len(inboxS) + 1
      /\ \A i \in 1..Len(inboxS) : inboxS'[i] = inboxS[i]
      /\ inboxS'[Len(inboxS) + 1] = m
  BY <1>1, Appended DEF IInv, TypeOK
<1>3. SentFirst'
  <2> SUFFICES ASSUME NEW d \in Asks, Unsent(d)' PROVE Untouched(d)'
    BY DEF SentFirst
  <2>1. Untouched(d) /\ Unsent(d)
    BY <1>1 DEF Unsent, Places, SentFirst
  <2>2. d # m.ask /\ NoMsg.ask # d
    BY <1>1, <2>1 DEF NoMsg
  <2> QED
    BY <1>1, <1>2, <2>1, <2>2 DEF Untouched, InLine
<1>4. OnePlace' /\ Undecided' /\ CancelIsBehind'
  BY <1>1 DEF Places, OnePlace, Undecided, CancelIsBehind, InInbox, InLine
<1> QED
  BY <1>3, <1>4 DEF Places

\* The running ask goes, with a verdict or without one that is the desk's.
LEMMA RunEndsPlaces ==
  ASSUME IInv, Places, active \in Asks, NEW c \in SUBSET cancelled, NEW t \in BOOLEAN, RunEnds(c, t),
         NEW v, verdict' = [verdict EXCEPT ![active] = v],
         UNCHANGED <<call, rec, mon, recall, inboxR, desk>>,
         \A i \in DOMAIN inboxS' : inboxS'[i].ask = active \/ \E j \in DOMAIN inboxS : inboxS'[i] = inboxS[j]
  PROVE  Places'
<1>1. c \in SUBSET Asks /\ \A a \in c : ~InLine(a)
  BY DEF Places, CancelIsBehind, IInv, TypeOK
<1>2. /\ \A a \in Asks : InLine(a)' => InLine(a) /\ active' # a
      /\ active' # NoAsk => active' \in Asks /\ InLine(active')
      /\ \A i, j \in DOMAIN waiting' : waiting'[i] = waiting'[j] => i = j
      /\ cancelled' = c /\ stage' # "dropping"
      /\ \A m \in inFlight' : m \in inFlight \/ m = Ping(active')
  BY <1>1, RunEndsMoves DEF Places
<1>3. active' # active
  BY <1>2 DEF Places, OnePlace, IInv, TypeOK
<1>4. \A d \in Asks : verdict'[d] = IF d = active THEN v ELSE verdict[d]
  BY DEF IInv, TypeOK
<1>5. ~Unsent(active)
  BY DEF Places, SentFirst, Untouched
<1>6. SentFirst'
  <2> SUFFICES ASSUME NEW d \in Asks, Unsent(d)' PROVE Untouched(d)'
    BY DEF SentFirst
  <2>1. Untouched(d) /\ d # active
    BY <1>5 DEF Unsent, Places, SentFirst
  <2>2. active' # d
    BY <1>2, <2>1 DEF Untouched
  <2>3. Ping(d) # Ping(active') /\ CancelMsg(d) # Ping(active')
    BY <2>2 DEF Ping, CancelMsg
  <2>4. ~InLine(d)'
    BY <1>2, <2>1 DEF Untouched
  <2> QED
    BY <1>2, <1>4, <2>1, <2>2, <2>3, <2>4 DEF Untouched
<1>7. \A d \in Asks : InInbox(d)' <=> InInbox(d)
  BY DEF InInbox
<1>8. OnePlace'
  BY <1>2, <1>7 DEF Places, OnePlace
<1>9. Undecided'
  BY <1>2, <1>3, <1>4, <1>7 DEF Places, OnePlace, Undecided
<1>10. CancelIsBehind'
  BY <1>2, <1>7 DEF Places, CancelIsBehind, IInv, TypeOK
<1> QED
  BY <1>6, <1>8, <1>9, <1>10 DEF Places

LEMMA RunSettlesPlaces ==
  ASSUME IInv, Places, NEW o \in Outcome, NEW t \in BOOLEAN, RunSettles(o, t)
  PROVE  Places'
<1>1. active \in Asks
  BY RunIsOnAsk DEF RunSettles
<1>2. UNCHANGED <<call, rec, mon, recall, inboxR, inboxS, desk>>
  BY DEF RunSettles, senderVars
<1>3. CASE active \in cancelled
  <2>1. /\ verdict' = [verdict EXCEPT ![active] = "discarded"]
        /\ RunEnds(cancelled \ {active}, t)
        /\ (cancelled \ {active}) \in SUBSET cancelled
    BY <1>3 DEF RunSettles
  <2> QED
    BY <1>1, <1>2, <2>1, RunEndsPlaces
<1>4. CASE active \notin cancelled
  <2>1. stage' # "dropping" /\ UNCHANGED <<waiting, active, cancelled, inFlight, verdict>>
    BY <1>4 DEF RunSettles, Outcome
  <2> QED
    BY <1>2, <2>1
       DEF Places, SentFirst, Unsent, Untouched, OnePlace, Undecided, CancelIsBehind, InInbox, InLine
<1> QED
  BY <1>3, <1>4

LEMMA RunRepliesPlaces ==
  ASSUME IInv, Places, NEW t \in BOOLEAN, RunReplies(t) \/ ReplyRefused(t)
  PROVE  Places'
<1>1. active \in Asks
  BY RunIsOnAsk DEF RunReplies, ReplyRefused, Outcome
<1>2. /\ RunEnds(cancelled, t) /\ cancelled \in SUBSET cancelled
      /\ UNCHANGED <<call, rec, mon, recall, inboxR, desk>>
  BY DEF RunReplies, ReplyRefused, senderVars
<1>3. PICK v : verdict' = [verdict EXCEPT ![active] = v]
  BY DEF RunReplies, ReplyRefused
<1>4. \A i \in DOMAIN inboxS' : inboxS'[i].ask = active \/ \E j \in DOMAIN inboxS : inboxS'[i] = inboxS[j]
  <2>1. CASE RunReplies(t)
    <3>1. PICK m \in ToSender : inboxS' = Append(inboxS, m) /\ m.ask = active
      BY <1>1, <2>1 DEF RunReplies, ToSender, Fail, Reply, Outcome
    <3>2. /\ DOMAIN inboxS = 1..Len(inboxS) /\ Len(inboxS) \in Nat
          /\ DOMAIN inboxS' = 1..Len(inboxS) + 1
          /\ \A i \in 1..Len(inboxS) : inboxS'[i] = inboxS[i]
          /\ inboxS'[Len(inboxS) + 1] = m
      BY <3>1, Appended DEF IInv, TypeOK
    <3> QED
      BY <3>1, <3>2
  <2>2. CASE ReplyRefused(t)
    BY <2>2 DEF ReplyRefused
  <2> QED
    BY <2>1, <2>2
<1> QED
  BY <1>1, <1>2, <1>3, <1>4, RunEndsPlaces

LEMMA CrashPlaces ==
  ASSUME IInv, Places, Crash
  PROVE  Places'
<1>1. /\ waiting' = <<>> /\ active' = NoAsk /\ stage' = "none" /\ cancelled' = {}
      /\ desk' = NoMsg /\ inFlight' \subseteq inFlight
      /\ UNCHANGED <<call, rec, mon, recall, inboxR, inboxS, verdict>>
  BY DEF Crash, senderVars, historyVars
<1>2. \A d \in Asks : ~InLine(d)' /\ active' # d /\ desk'.ask # d
  BY <1>1 DEF InLine, NoMsg
<1> QED
  BY <1>1, <1>2
     DEF Places, SentFirst, Unsent, Untouched, OnePlace, Undecided, CancelIsBehind, InInbox

LEMMA PlacesInvariant == Spec => []Places
<1>1. Init => Places
  BY DEF Init, Places, SentFirst, Unsent, Untouched, OnePlace, Undecided, CancelIsBehind, InInbox,
         InLine, NoMsg
<1>2. IInv /\ Places /\ [Next]_vars => Places'
  <2> SUFFICES ASSUME IInv, Places, [Next]_vars PROVE Places'
    OBVIOUS
  <2>1. CASE SenderStep
    BY <2>1, AskStartPlaces, ThrownPlaces, AskLandsPlaces, AckTimeoutPlaces, MonitorFailsPlaces,
       CancelPlaces, CancelLandsPlaces, SenderRoutesPlaces DEF SenderStep
  <2>2. CASE ReceiverStep
    BY <2>2, HandleAskPlaces, CancelWaitingPlaces, CancelMarkedPlaces, LandsPlaces,
       RunSettlesPlaces, RunRepliesPlaces, CrashPlaces DEF ReceiverStep
  <2>3. CASE UNCHANGED vars
    BY <2>3
       DEF vars, senderVars, netVars, receiverVars, queueVars, historyVars, Places, SentFirst,
           Unsent, Untouched, OnePlace, Undecided, CancelIsBehind, InInbox, InLine
  <2> QED
    BY <2>1, <2>2, <2>3 DEF Next
<1> QED
  BY <1>1, <1>2, Invariance, PTL DEF Spec

----------------------------------------------------------------------------
(* Verdicts and cancels *)

\* A reply that is under way tells the verdict; handlers write no replies.
ReplyIsTrue ==
  /\ \A i \in DOMAIN inboxS : inboxS[i].type = "reply" => verdict[inboxS[i].ask] = inboxS[i].of
  /\ desk.type # "reply"

\* An honoured cancel is still to be acted on by the run, or has been.
HonouredIsDiscarded ==
  \A a \in honoured : \/ verdict[a] \in {"dropped", "discarded"}
                      \/ alive /\ active = a /\ stage = "agent" /\ a \in cancelled
                      \/ ~alive /\ verdict[a] = "none"

MarkIsHonoured == stage = "agent" /\ active \in cancelled => active \in honoured

Verdicts ==
  ReplyIsTrue /\ AnsweredIsGenuine /\ NoVerdictIsLost /\ HonouredIsDiscarded /\ MarkIsHonoured

\* The sender's own steps record no answer.
LEMMA SenderVerdicts ==
  ASSUME IInv, Verdicts, NEW a \in Asks,
         \/ AskStart(a) \/ AskUnresolved(a) \/ AskUnwritten(a) \/ AskLands(a)
         \/ AckTimeout(a) \/ MonitorFails(a) \/ metro_cancel(a) \/ CancelLands(a)
  PROVE  Verdicts'
<1>1. UNCHANGED <<inboxS, alive, active, stage, cancelled, desk, verdict, heard, honoured>>
  BY DEF AskStart, AskUnresolved, AskUnwritten, AskLands, AckTimeout, MonitorFails, metro_cancel,
         CancelLands, netVars, receiverVars, queueVars, historyVars
<1>2. \A d \in Asks : rec'[d] = "answered" => rec[d] = "answered"
  BY DEF AskStart, AskUnresolved, AskUnwritten, AskLands, AckTimeout, MonitorFails, metro_cancel,
         CancelLands, EnqueueAskReturns, AppendEntry, senderVars, IInv, TypeOK
<1> QED
  BY <1>1, <1>2
     DEF Verdicts, ReplyIsTrue, AnsweredIsGenuine, NoVerdictIsLost, OnItsWay, IsVerdict,
         HonouredIsDiscarded, MarkIsHonoured

LEMMA SenderRoutesVerdicts ==
  ASSUME IInv, Verdicts, SenderRoutes
  PROVE  Verdicts'
<1> DEFINE m == Head(inboxS)
<1>1. /\ inboxS' = Tail(inboxS) /\ inboxS \in Seq(ToSender) /\ inboxS # <<>>
      /\ heard' = (IF IsVerdict(m) THEN heard \cup {m.ask} ELSE heard)
      /\ UNCHANGED <<alive, active, stage, cancelled, desk, verdict, honoured>>
  BY DEF SenderRoutes, IInv, TypeOK, receiverVars, queueVars
<1>2. /\ m = inboxS[1] /\ m \in ToSender
      /\ Len(inboxS) \in Nat \ {0} /\ DOMAIN inboxS = 1..Len(inboxS)
      /\ DOMAIN inboxS' = 1..Len(inboxS) - 1
      /\ \A i \in 1..Len(inboxS) - 1 : inboxS'[i] = inboxS[i + 1]
  BY <1>1, Taken
<1>3. ReplyIsTrue'
  BY <1>1, <1>2 DEF Verdicts, ReplyIsTrue
<1>4. AnsweredIsGenuine'
  <2>1. \A d \in Asks : rec'[d] = "answered" =>
          rec[d] = "answered" \/ (m.type = "reply" /\ m.ask = d /\ m.of = "answered")
    <3>1. CASE TakenByWaiter(m)
      BY <3>1 DEF SenderRoutes, RouteToWaiter, EnqueueAskReturns, AppendEntry, IInv, TypeOK
    <3>2. CASE ~TakenByWaiter(m)
      <4>1. RouteToCallback(m)
        BY <3>2 DEF SenderRoutes
      <4>2. CASE m.type = "ack"
        BY <4>1, <4>2 DEF RouteToCallback
      <4>3. CASE m.type = "progress"
        BY <4>1, <4>3 DEF RouteToCallback, persistRankedAskUpdate, AppendEntry, IInv, TypeOK
      <4>4. CASE m.type = "reply"
        BY <4>1, <4>4 DEF RouteToCallback, persistRankedAskUpdate, AppendEntry, IInv, TypeOK
      <4>5. CASE m.type = "fail"
        BY <4>1, <4>5 DEF RouteToCallback, persistRankedAskUpdate, AppendEntry, IInv, TypeOK
      <4> QED
        BY <1>2, <4>2, <4>3, <4>4, <4>5, MessageFields
    <3> QED
      BY <3>1, <3>2
  <2> QED
    BY <1>1, <1>2, <2>1 DEF Verdicts, AnsweredIsGenuine, ReplyIsTrue
<1>5. NoVerdictIsLost'
  <2> SUFFICES ASSUME NEW d \in Asks, OnItsWay(d) PROVE OnItsWay(d)' \/ d \in heard'
    BY <1>1 DEF Verdicts, NoVerdictIsLost, IsVerdict
  <2>1. PICK i \in DOMAIN inboxS : inboxS[i].ask = d /\ IsVerdict(inboxS[i])
    BY DEF OnItsWay
  <2>2. CASE i = 1
    BY <1>1, <1>2, <2>1, <2>2
  <2>3. CASE i # 1
    <3>1. i - 1 \in DOMAIN inboxS' /\ inboxS'[i - 1] = inboxS[i]
      BY <1>2, <2>1, <2>3
    <3> QED
      BY <2>1, <3>1 DEF OnItsWay, IsVerdict
  <2> QED
    BY <2>2, <2>3
<1>6. HonouredIsDiscarded' /\ MarkIsHonoured'
  BY <1>1 DEF Verdicts, HonouredIsDiscarded, MarkIsHonoured
<1> QED
  BY <1>3, <1>4, <1>5, <1>6 DEF Verdicts

\* An ask without a verdict has no reply under way, and is not recorded as
\* answered.
LEMMA NoReplyBefore ==
  ASSUME IInv, Verdicts, NEW a \in Asks, verdict[a] = "none"
  PROVE  /\ rec[a] # "answered"
         /\ \A i \in DOMAIN inboxS : inboxS[i].ask = a => inboxS[i].type # "reply"
<1>1. ASSUME NEW i \in DOMAIN inboxS, inboxS[i].type = "reply"
      PROVE  verdict[inboxS[i].ask] \in Outcome
  <2>1. inboxS[i] \in ToSender
    BY DEF IInv, TypeOK
  <2> QED
    BY <1>1, <2>1, MessageFields DEF Verdicts, ReplyIsTrue
<1> QED
  BY <1>1 DEF Verdicts, AnsweredIsGenuine, Outcome

LEMMA HandleAskVerdicts ==
  ASSUME IInv, Places, Verdicts, NEW t \in BOOLEAN, HandleAsk(t)
  PROVE  Verdicts'
<1>1. /\ inboxR # <<>> /\ inboxR' = Tail(inboxR) /\ Head(inboxR).type = "ask"
      /\ alive /\ desk = NoMsg
      /\ UNCHANGED <<rec, inboxS, alive, heard, honoured>>
  BY DEF HandleAsk, NextFor, senderVars
<1>2. PICK b \in Asks :
        /\ b = Head(inboxR).ask
        /\ inboxR[1] \in {AskMsg(b), CancelMsg(b)} /\ inboxR[1] = Head(inboxR)
        /\ inboxR[1] = AskMsg(b) => InInbox(b) /\ ~InInbox(b)'
  BY <1>1, InboxPopped
<1>3. ~InLine(b) /\ active # b /\ verdict[b] = "none"
  BY <1>1, <1>2 DEF CancelMsg, Places, OnePlace, Undecided
<1>4. b \notin honoured
  BY <1>1, <1>3 DEF Verdicts, HonouredIsDiscarded
<1>5. /\ \A d \in Asks \ {b} : verdict'[d] = verdict[d]
      /\ \/ verdict'[b] = "none" /\ desk' = Ack(b)
         \/ verdict'[b] = "busy" /\ desk' = Fail(b, "busy")
  BY <1>2, <1>3 DEF HandleAsk, IInv, TypeOK
<1>6. \/ UNCHANGED <<active, stage, cancelled>>
      \/ active = NoAsk /\ active' = b /\ b \notin cancelled'
  BY <1>2 DEF HandleAsk, StartRun, queueVars
<1>7. \A i \in DOMAIN inboxS : inboxS[i].ask = b => inboxS[i].type # "reply"
  BY <1>3, NoReplyBefore
<1>8. \A i \in DOMAIN inboxS : inboxS[i].ask \in Asks
  <2> SUFFICES ASSUME NEW i \in DOMAIN inboxS PROVE inboxS[i] \in ToSender
    BY MessageFields
  <2> QED
    BY DEF IInv, TypeOK
<1>9. ReplyIsTrue'
  BY <1>1, <1>5, <1>7, <1>8 DEF Verdicts, ReplyIsTrue, Ack, Fail
<1>10. AnsweredIsGenuine'
  BY <1>1, <1>3, <1>5 DEF Verdicts, AnsweredIsGenuine
<1>11. NoVerdictIsLost'
  BY <1>1, <1>3, <1>5
     DEF Verdicts, NoVerdictIsLost, OnItsWay, IsVerdict, Ack, Fail, NoMsg, Outcome
<1>12. HonouredIsDiscarded'
  BY <1>1, <1>4, <1>5, <1>6 DEF Verdicts, HonouredIsDiscarded, IInv, TypeOK
<1>13. MarkIsHonoured'
  BY <1>1, <1>6 DEF Verdicts, MarkIsHonoured
<1> QED
  BY <1>9, <1>10, <1>11, <1>12, <1>13 DEF Verdicts

LEMMA CancelWaitingVerdicts ==
  ASSUME IInv, Places, Verdicts, CancelWaiting
  PROVE  Verdicts'
<1>1. /\ alive /\ desk = NoMsg
      /\ UNCHANGED <<rec, inboxS, alive, heard, active, stage, cancelled>>
  BY DEF CancelWaiting, NextFor, senderVars
<1>2. PICK b \in Asks : /\ InLine(b) /\ desk' = Fail(b, "cancelled")
                        /\ verdict' = [verdict EXCEPT ![b] = "dropped"]
                        /\ honoured' = honoured \cup {b}
  <2>1. Head(inboxR).ask \in Asks
    BY HeadTyped DEF IInv, CancelWaiting, NextFor
  <2> QED
    BY <2>1 DEF CancelWaiting, InLine
<1>3. /\ verdict[b] = "none" /\ active # b
      /\ \A d \in Asks : verdict'[d] = IF d = b THEN "dropped" ELSE verdict[d]
  BY <1>2 DEF Places, OnePlace, Undecided, IInv, TypeOK
<1>4. /\ rec[b] # "answered"
      /\ \A i \in DOMAIN inboxS : inboxS[i].ask = b => inboxS[i].type # "reply"
  BY <1>3, NoReplyBefore
<1>5. \A i \in DOMAIN inboxS : inboxS[i].ask \in Asks
  <2> SUFFICES ASSUME NEW i \in DOMAIN inboxS PROVE inboxS[i] \in ToSender
    BY MessageFields
  <2> QED
    BY DEF IInv, TypeOK
<1>6. ReplyIsTrue'
  BY <1>1, <1>2, <1>3, <1>4, <1>5 DEF Verdicts, ReplyIsTrue, Fail
<1>7. AnsweredIsGenuine'
  BY <1>1, <1>3, <1>4 DEF Verdicts, AnsweredIsGenuine
<1>8. NoVerdictIsLost'
  BY <1>1, <1>2, <1>3 DEF Verdicts, NoVerdictIsLost, OnItsWay, IsVerdict, Fail, NoMsg
<1>9. HonouredIsDiscarded' /\ MarkIsHonoured'
  BY <1>1, <1>2, <1>3 DEF Verdicts, HonouredIsDiscarded, MarkIsHonoured, IInv, TypeOK
<1> QED
  BY <1>6, <1>7, <1>8, <1>9 DEF Verdicts

LEMMA CancelMarkedVerdicts ==
  ASSUME IInv, Places, Verdicts, CancelMarked
  PROVE  Verdicts'
<1>1. /\ alive /\ desk = NoMsg /\ inboxR # <<>>
      /\ UNCHANGED <<rec, inboxS, alive, heard, active, stage, verdict>>
  BY DEF CancelMarked, NextFor, senderVars, queueVars
<1>2. PICK b \in Asks :
        /\ b = Head(inboxR).ask
        /\ cancelled' = cancelled \cup {b}
        /\ desk' = (IF active = b THEN Fail(b, "cancelled") ELSE NoMsg)
        /\ honoured' = (IF active = b /\ stage = "agent" THEN honoured \cup {b} ELSE honoured)
  BY <1>1, HeadTyped DEF CancelMarked, IInv
<1>3. ReplyIsTrue' /\ AnsweredIsGenuine'
  BY <1>1, <1>2 DEF Verdicts, ReplyIsTrue, AnsweredIsGenuine, Fail, NoMsg
<1>4. NoVerdictIsLost'
  BY <1>1, <1>2 DEF Verdicts, NoVerdictIsLost, OnItsWay, IsVerdict, NoMsg
<1>5. HonouredIsDiscarded' /\ MarkIsHonoured'
  BY <1>1, <1>2 DEF Verdicts, HonouredIsDiscarded, MarkIsHonoured
<1> QED
  BY <1>3, <1>4, <1>5 DEF Verdicts

LEMMA LandsVerdicts ==
  ASSUME IInv, Verdicts, DeskLands \/ \E a \in Asks : PingLands(a)
  PROVE  Verdicts'
<1> DEFINE Moves(m) ==
        /\ inboxS' = Append(inboxS, m) /\ m.type # "reply"
        /\ desk' = desk \/ (desk = m /\ desk' = NoMsg)
        /\ UNCHANGED <<rec, alive, active, stage, cancelled, verdict, heard, honoured>>
<1>1. PICK m \in ToSender : Moves(m)
  <2>1. CASE DeskLands
    BY <2>1 DEF DeskLands, senderVars, queueVars, historyVars, IInv, TypeOK, Verdicts, ReplyIsTrue
  <2>2. ASSUME NEW a \in Asks, PingLands(a)
        PROVE  Ping(a) \in ToSender /\ Moves(Ping(a))
    <3>1. Ping(a) \in ToSender /\ Ping(a).type = "progress"
      BY DEF ToSender, Ping
    <3> QED
      BY <2>2, <3>1 DEF PingLands, senderVars, receiverVars, queueVars, historyVars
  <2> QED
    BY <2>1, <2>2
<1>2. /\ Len(inboxS) \in Nat /\ DOMAIN inboxS = 1..Len(inboxS)
      /\ DOMAIN inboxS' = 1..Len(inboxS) + 1
      /\ \A i \in 1..Len(inboxS) : inboxS'[i] = inboxS[i]
      /\ inboxS'[Len(inboxS) + 1] = m
  BY <1>1, Appended DEF IInv, TypeOK
<1>3. ReplyIsTrue' /\ AnsweredIsGenuine'
  BY <1>1, <1>2 DEF Verdicts, ReplyIsTrue, AnsweredIsGenuine, NoMsg
<1>4. NoVerdictIsLost'
  <2> SUFFICES ASSUME NEW d \in Asks, OnItsWay(d) \/ (desk.ask = d /\ IsVerdict(desk))
               PROVE  OnItsWay(d)' \/ (desk'.ask = d /\ IsVerdict(desk'))
    BY <1>1 DEF Verdicts, NoVerdictIsLost, IsVerdict
  <2>1. CASE OnItsWay(d)
    BY <1>2, <2>1 DEF OnItsWay, IsVerdict
  <2>2. CASE desk.ask = d /\ IsVerdict(desk)
    BY <1>1, <1>2, <2>2 DEF OnItsWay, IsVerdict
  <2> QED
    BY <2>1, <2>2
<1>5. HonouredIsDiscarded' /\ MarkIsHonoured'
  BY <1>1 DEF Verdicts, HonouredIsDiscarded, MarkIsHonoured
<1> QED
  BY <1>3, <1>4, <1>5 DEF Verdicts

\* The running ask gets its verdict, with its message unless there is none.
LEMMA RunEndsVerdicts ==
  ASSUME IInv, Places, Verdicts, alive, active \in Asks,
         NEW c \in SUBSET cancelled, NEW t \in BOOLEAN, RunEnds(c, t),
         NEW v \in {"answered", "failed", "unsent", "discarded"},
         verdict' = [verdict EXCEPT ![active] = v],
         v = "discarded" <=> active \in honoured,
         IF v \in Outcome THEN inboxS' = Append(inboxS, Reply(active, v)) ELSE UNCHANGED inboxS,
         UNCHANGED <<rec, alive, desk, heard, honoured>>
  PROVE  Verdicts'
<1>1. \A a \in c : ~InLine(a)
  BY DEF Places, CancelIsBehind
<1>2. /\ active' # NoAsk => active' \in Asks /\ InLine(active')
      /\ cancelled' = c
  BY <1>1, RunEndsMoves DEF Places, IInv, TypeOK
<1>3. /\ verdict[active] = "none" /\ active' # active
      /\ active' \notin cancelled'
      /\ \A d \in Asks : verdict'[d] = IF d = active THEN v ELSE verdict[d]
  BY <1>1, <1>2 DEF Places, OnePlace, Undecided, IInv, TypeOK
<1>4. /\ rec[active] # "answered"
      /\ \A i \in DOMAIN inboxS : inboxS[i].ask = active => inboxS[i].type # "reply"
  BY <1>3, NoReplyBefore
<1>5. /\ Len(inboxS) \in Nat /\ DOMAIN inboxS = 1..Len(inboxS)
      /\ \A i \in DOMAIN inboxS : i \in DOMAIN inboxS' /\ inboxS'[i] = inboxS[i]
      /\ \A i \in DOMAIN inboxS' \ DOMAIN inboxS : v \in Outcome /\ inboxS'[i] = Reply(active, v)
      /\ v \in Outcome => \E i \in DOMAIN inboxS' : inboxS'[i] = Reply(active, v)
  <2>1. CASE v \in Outcome
    <3>1. inboxS' = Append(inboxS, Reply(active, v)) /\ Reply(active, v) \in ToSender
      BY <2>1 DEF ToSender
    <3>2. /\ Len(inboxS) \in Nat /\ DOMAIN inboxS = 1..Len(inboxS)
          /\ DOMAIN inboxS' = 1..Len(inboxS) + 1
          /\ \A i \in 1..Len(inboxS) : inboxS'[i] = inboxS[i]
          /\ inboxS'[Len(inboxS) + 1] = Reply(active, v)
      BY <3>1, Appended DEF IInv, TypeOK
    <3> QED
      BY <2>1, <3>2
  <2>2. CASE v \notin Outcome
    BY <2>2 DEF IInv, TypeOK
  <2> QED
    BY <2>1, <2>2
<1>6. \A i \in DOMAIN inboxS : inboxS[i].ask \in Asks
  <2> SUFFICES ASSUME NEW i \in DOMAIN inboxS PROVE inboxS[i] \in ToSender
    BY MessageFields
  <2> QED
    BY DEF IInv, TypeOK
<1>7. ReplyIsTrue'
  <2> SUFFICES ASSUME NEW i \in DOMAIN inboxS', inboxS'[i].type = "reply"
               PROVE  verdict'[inboxS'[i].ask] = inboxS'[i].of
    BY DEF Verdicts, ReplyIsTrue
  <2>1. CASE i \in DOMAIN inboxS
    BY <1>3, <1>4, <1>5, <1>6, <2>1 DEF Verdicts, ReplyIsTrue
  <2>2. CASE i \notin DOMAIN inboxS
    BY <1>3, <1>5, <2>2 DEF Reply
  <2> QED
    BY <2>1, <2>2
<1>8. AnsweredIsGenuine'
  BY <1>3, <1>4 DEF Verdicts, AnsweredIsGenuine
<1>9. NoVerdictIsLost'
  <2> SUFFICES ASSUME NEW d \in Asks, alive', verdict'[d] \in {"busy", "dropped"} \cup Outcome
               PROVE  OnItsWay(d)' \/ d \in heard' \/ (desk'.ask = d /\ IsVerdict(desk'))
    BY DEF NoVerdictIsLost, IsVerdict
  <2>1. CASE d = active
    BY <1>3, <1>5, <2>1 DEF OnItsWay, IsVerdict, Reply, Outcome
  <2>2. CASE d # active
    BY <1>3, <1>5, <2>2 DEF Verdicts, NoVerdictIsLost, OnItsWay, IsVerdict
  <2> QED
    BY <2>1, <2>2
<1>10. HonouredIsDiscarded' /\ MarkIsHonoured'
  BY <1>2, <1>3 DEF Verdicts, HonouredIsDiscarded, MarkIsHonoured, IInv, TypeOK
<1> QED
  BY <1>7, <1>8, <1>9, <1>10 DEF Verdicts

LEMMA RunSettlesVerdicts ==
  ASSUME IInv, Places, Verdicts, NEW o \in Outcome, NEW t \in BOOLEAN, RunSettles(o, t)
  PROVE  Verdicts'
<1>1. active \in Asks /\ alive /\ stage = "agent" /\ verdict[active] = "none"
  BY RunIsOnAsk DEF RunSettles, Places, Undecided
<1>2. UNCHANGED <<rec, inboxS, alive, desk, heard, honoured>>
  BY DEF RunSettles, senderVars
<1>3. CASE active \in cancelled
  <2>1. /\ verdict' = [verdict EXCEPT ![active] = "discarded"]
        /\ RunEnds(cancelled \ {active}, t)
        /\ (cancelled \ {active}) \in SUBSET cancelled
        /\ active \in honoured /\ "discarded" \notin Outcome
    BY <1>1, <1>3 DEF RunSettles, Verdicts, MarkIsHonoured, Outcome
  <2> QED
    BY <1>1, <1>2, <2>1, RunEndsVerdicts
<1>4. CASE active \notin cancelled
  <2>1. stage' # "agent" /\ UNCHANGED <<active, cancelled, verdict>>
    BY <1>4 DEF RunSettles, Outcome
  <2> QED
    BY <1>2, <1>4, <2>1
       DEF Verdicts, ReplyIsTrue, AnsweredIsGenuine, NoVerdictIsLost, OnItsWay, IsVerdict,
           HonouredIsDiscarded, MarkIsHonoured
<1> QED
  BY <1>3, <1>4

LEMMA RunRepliesVerdicts ==
  ASSUME IInv, Places, Verdicts, NEW t \in BOOLEAN, RunReplies(t) \/ ReplyRefused(t)
  PROVE  Verdicts'
<1>1. active \in Asks /\ alive /\ stage \in Outcome /\ verdict[active] = "none"
  BY RunIsOnAsk DEF RunReplies, ReplyRefused, Outcome, Places, Undecided, CancelIsBehind
<1>2. /\ RunEnds(cancelled, t) /\ cancelled \in SUBSET cancelled
      /\ UNCHANGED <<rec, alive, desk, heard, honoured>>
  BY DEF RunReplies, ReplyRefused, senderVars
<1>3. active \notin honoured
  BY <1>1 DEF Verdicts, HonouredIsDiscarded, Outcome
<1>4. PICK v \in {"answered", "failed", "unsent"} :
        /\ verdict' = [verdict EXCEPT ![active] = v]
        /\ IF v \in Outcome THEN inboxS' = Append(inboxS, Reply(active, v)) ELSE UNCHANGED inboxS
  <2>1. CASE RunReplies(t)
    <3>1. stage \in {"answered", "failed", "unsent"} /\ stage # "dropping"
      BY <1>1 DEF Outcome
    <3> QED
      BY <1>1, <2>1, <3>1 DEF RunReplies
  <2>2. CASE ReplyRefused(t)
    BY <2>2 DEF ReplyRefused, Outcome
  <2> QED
    BY <2>1, <2>2
<1> QED
  BY <1>1, <1>2, <1>3, <1>4, RunEndsVerdicts

LEMMA CrashVerdicts ==
  ASSUME IInv, Places, Verdicts, Crash
  PROVE  Verdicts'
<1>1. /\ active' = NoAsk /\ stage' = "none" /\ cancelled' = {} /\ desk' = NoMsg
      /\ alive /\ alive' = FALSE /\ UNCHANGED <<rec, inboxS, verdict, heard, honoured>>
  BY DEF Crash, senderVars, historyVars
<1> QED
  BY <1>1
     DEF Verdicts, ReplyIsTrue, AnsweredIsGenuine, NoVerdictIsLost, HonouredIsDiscarded,
         MarkIsHonoured, NoMsg, Places, Undecided, IInv, TypeOK

LEMMA VerdictsInvariant == Spec => []Verdicts
<1>1. Init => Verdicts
  BY DEF Init, Verdicts, ReplyIsTrue, AnsweredIsGenuine, NoVerdictIsLost, HonouredIsDiscarded,
         MarkIsHonoured, NoMsg, Outcome
<1>2. IInv /\ Places /\ Verdicts /\ [Next]_vars => Verdicts'
  <2> SUFFICES ASSUME IInv, Places, Verdicts, [Next]_vars PROVE Verdicts'
    OBVIOUS
  <2>1. CASE SenderStep
    BY <2>1, SenderVerdicts, SenderRoutesVerdicts DEF SenderStep
  <2>2. CASE ReceiverStep
    BY <2>2, HandleAskVerdicts, CancelWaitingVerdicts, CancelMarkedVerdicts, LandsVerdicts,
       RunSettlesVerdicts, RunRepliesVerdicts, CrashVerdicts DEF ReceiverStep
  <2>3. CASE UNCHANGED vars
    BY <2>3
       DEF vars, senderVars, netVars, receiverVars, queueVars, historyVars, Verdicts, ReplyIsTrue,
           AnsweredIsGenuine, NoVerdictIsLost, OnItsWay, IsVerdict, HonouredIsDiscarded,
           MarkIsHonoured
  <2> QED
    BY <2>1, <2>2, <2>3 DEF Next
<1> QED
  BY <1>1, <1>2, Invariance, PlacesInvariant, PTL DEF Spec

----------------------------------------------------------------------------
(* Terminal records *)

\* A call that waits has a waiter, a monitor belongs to a call that has
\* returned, and a terminal record without a cancel to one that is over.
Settled ==
  \A a \in Asks :
    /\ call[a] = "acking" => a \in waiter
    /\ a \in mon => call[a] \in {"acked", "unacked"}
    /\ rec[a] \in Terminal /\ recall[a] = "no" =>
         a \notin mon /\ call[a] \in {"acked", "unacked", "thrown"}

\* What each step of the sender does to a terminal record.
StaysTerminal == \A a \in Asks : rec[a] \in Terminal /\ rec'[a] # rec[a] => recall'[a] # "no"

LEMMA CallsSettled ==
  ASSUME IInv, Places, Settled, NEW a \in Asks,
         AskStart(a) \/ AskUnresolved(a) \/ AskUnwritten(a) \/ AskLands(a) \/ CancelLands(a)
  PROVE  Settled' /\ StaysTerminal
<1>1. UNCHANGED recall
  BY DEF AskStart, AskUnresolved, AskUnwritten, AskLands, CancelLands, senderVars
<1>2. CASE CancelLands(a)
  BY <1>2 DEF CancelLands, senderVars, Settled, StaysTerminal
<1>3. CASE ~CancelLands(a)
  <2>1. rec[a] = "none" /\ a \notin mon
    BY <1>3 DEF AskStart, AskUnresolved, AskUnwritten, AskLands, Unsent, Untouched, Places, SentFirst
  <2>2. \A d \in Asks \ {a} : /\ rec'[d] = rec[d] /\ call'[d] = call[d]
                              /\ d \in mon' <=> d \in mon
                              /\ d \in waiter' <=> d \in waiter
    BY <1>3
       DEF AskStart, AskUnresolved, AskUnwritten, AskLands, AppendEntry, IInv, TypeOK
  <2>3. /\ call'[a] = "acking" => a \in waiter'
        /\ a \in mon' => call'[a] = "unacked"
        /\ rec'[a] \in Terminal => call'[a] = "thrown" /\ a \notin mon'
    BY <1>3, <2>1
       DEF AskStart, AskUnresolved, AskUnwritten, AskLands, AppendEntry, IInv, TypeOK, Terminal
  <2> QED
    BY <1>1, <2>1, <2>2, <2>3 DEF Settled, StaysTerminal, Terminal
<1> QED
  BY <1>2, <1>3

\* enqueueAsk returns to a call that waits for its ack.
LEMMA ReturnSettled ==
  ASSUME IInv, Settled, NEW a \in Asks, NEW b \in BOOLEAN, call[a] = "acking",
         EnqueueAskReturns(a, b), UNCHANGED recall, waiter' = waiter \ {a}
  PROVE  Settled' /\ StaysTerminal
<1>1. \A d \in Asks \ {a} : /\ rec'[d] = rec[d] /\ call'[d] = call[d]
                            /\ d \in mon' <=> d \in mon
                            /\ d \in waiter' <=> d \in waiter
  BY DEF EnqueueAskReturns, AppendEntry, IInv, TypeOK
<1>2. call'[a] \in {"acked", "unacked"} /\ rec'[a] \in {rec[a], "accepted"}
  BY DEF EnqueueAskReturns, AppendEntry, IInv, TypeOK
<1>3. rec[a] \in Terminal => recall[a] # "no"
  BY DEF Settled
<1> QED
  BY <1>1, <1>2, <1>3 DEF Settled, StaysTerminal, Terminal

LEMMA TimersSettled ==
  ASSUME IInv, Settled, NEW a \in Asks, AckTimeout(a) \/ MonitorFails(a) \/ metro_cancel(a)
  PROVE  Settled' /\ StaysTerminal
<1>1. CASE AckTimeout(a) /\ call[a] = "acking"
  BY <1>1, ReturnSettled DEF AckTimeout
<1>2. CASE AckTimeout(a) /\ call[a] # "acking"
  BY <1>2 DEF AckTimeout, Settled, StaysTerminal
<1>3. CASE MonitorFails(a)
  <2>1. /\ \A d \in Asks \ {a} : rec'[d] = rec[d]
        /\ mon' = mon \ {a} /\ UNCHANGED <<call, waiter, recall>>
    BY <1>3 DEF MonitorFails, AppendEntry, IInv, TypeOK
  <2>2. call[a] \in {"acked", "unacked"} /\ (rec[a] \in Terminal => recall[a] # "no")
    BY <1>3 DEF MonitorFails, Settled
  <2> QED
    BY <2>1, <2>2 DEF Settled, StaysTerminal
<1>4. CASE metro_cancel(a)
  <2>1. /\ \A d \in Asks \ {a} : rec'[d] = rec[d] /\ recall'[d] = recall[d]
        /\ recall'[a] # "no"
        /\ mon' = mon \ {a} /\ UNCHANGED <<call, waiter>>
    BY <1>4 DEF metro_cancel, AppendEntry, IInv, TypeOK
  <2> QED
    BY <2>1 DEF Settled, StaysTerminal
<1> QED
  BY <1>1, <1>2, <1>3, <1>4

LEMMA SenderRoutesSettled ==
  ASSUME IInv, Places, Settled, SenderRoutes
  PROVE  Settled' /\ StaysTerminal
<1> DEFINE m == Head(inboxS)
<1>1. /\ inboxS \in Seq(ToSender) /\ inboxS # <<>> /\ UNCHANGED recall
  BY DEF SenderRoutes, IInv, TypeOK
<1>2. m = inboxS[1] /\ m \in ToSender /\ 1 \in DOMAIN inboxS
  BY <1>1, Taken
<1>3. PICK b \in Asks : b = m.ask
  BY <1>2, MessageFields
<1>4. ~Unsent(b) /\ call[b] \in Call
  BY <1>2, <1>3 DEF Places, SentFirst, Untouched, IInv, TypeOK
<1>5. CASE TakenByWaiter(m)
  <2>1. waiter' = waiter \ {b} /\ RouteToWaiter(m)
    BY <1>3, <1>5 DEF SenderRoutes, RouteToWaiter
  <2>2. CASE call[b] = "acking"
    <3>1. EnqueueAskReturns(b, TRUE) /\ TRUE \in BOOLEAN
      BY <1>3, <2>1, <2>2 DEF RouteToWaiter
    <3> QED
      BY <1>1, <2>1, <2>2, <3>1, ReturnSettled
  <2>3. CASE call[b] # "acking"
    BY <1>1, <1>3, <2>1, <2>3 DEF RouteToWaiter, Settled, StaysTerminal
  <2> QED
    BY <2>2, <2>3
<1>6. CASE ~TakenByWaiter(m)
  <2>1. RouteToCallback(m) /\ UNCHANGED <<call, waiter>>
    BY <1>6 DEF SenderRoutes, RouteToCallback
  <2>2. CASE m.type = "ack"
    BY <1>1, <2>1, <2>2 DEF RouteToCallback, Settled, StaysTerminal
  <2>3. CASE m.type = "progress"
    <3>1. persistRankedAskUpdate(b, "running", "none") /\ UNCHANGED mon
      BY <1>3, <2>1, <2>3 DEF RouteToCallback
    <3>2. \A d \in Asks : rec'[d] = rec[d] \/ (rec[d] \notin Terminal /\ rec'[d] = "running")
      BY <3>1 DEF persistRankedAskUpdate, applyRankedTransition, AppendEntry, Terminal, IInv, TypeOK
    <3> QED
      BY <1>1, <2>1, <3>1, <3>2 DEF Settled, StaysTerminal, Terminal
  <2>4. CASE m.type \in {"reply", "fail"}
    <3>1. PICK s, r : persistRankedAskUpdate(b, s, r) /\ mon' = mon \ {b}
      BY <1>3, <2>1, <2>4 DEF RouteToCallback
    <3>2. /\ \A d \in Asks \ {b} : rec'[d] = rec[d]
          /\ rec[b] \in Terminal => rec'[b] = rec[b]
      BY <3>1 DEF persistRankedAskUpdate, applyRankedTransition, AppendEntry, Terminal, IInv, TypeOK
    <3>3. call[b] \in {"acked", "unacked", "thrown"}
      BY <1>3, <1>4, <1>6, <2>4 DEF TakenByWaiter, Settled, Unsent, Call
    <3> QED
      BY <1>1, <2>1, <3>1, <3>2, <3>3 DEF Settled, StaysTerminal
  <2> QED
    BY <1>2, <2>2, <2>3, <2>4, MessageFields
<1> QED
  BY <1>5, <1>6

LEMMA StepSettled ==
  ASSUME IInv, Places, Settled, [Next]_vars
  PROVE  Settled' /\ StaysTerminal
<1>1. CASE SenderStep
  BY <1>1, CallsSettled, TimersSettled, SenderRoutesSettled DEF SenderStep
<1>2. CASE ReceiverStep \/ UNCHANGED vars
  <2>1. UNCHANGED senderVars
    BY <1>2
       DEF ReceiverStep, HandleAsk, CancelWaiting, CancelMarked, DeskLands, RunSettles, RunReplies,
           ReplyRefused, PingLands, Crash, vars
  <2> QED
    BY <2>1 DEF senderVars, Settled, StaysTerminal
<1> QED
  BY <1>1, <1>2 DEF Next

LEMMA SettledInvariant == Spec => []Settled
<1>1. Init => Settled
  BY DEF Init, Settled, Terminal
<1> QED
  BY <1>1, StepSettled, Invariance, PlacesInvariant, PTL DEF Spec

----------------------------------------------------------------------------
(* The refinement: the line of the desk is the running ask and the queue *)

Line == (IF active = NoAsk THEN <<>> ELSE <<active>>) \o waiting

Bounded == Len(Line) <= MaxQueue

LEMMA SameSequence ==
  ASSUME NEW S, NEW s \in Seq(S), NEW r \in Seq(S), Len(s) = Len(r),
         \A i \in 1..Len(s) : s[i] = r[i]
  PROVE  s = r
OBVIOUS

LEMMA Joined ==
  ASSUME NEW x \in Asks, NEW w \in Seq(Asks)
  PROVE  /\ <<x>> \o w \in Seq(Asks) /\ Len(<<x>> \o w) = Len(w) + 1
         /\ (<<x>> \o w)[1] = x /\ \A i \in 1..Len(w) : (<<x>> \o w)[i + 1] = w[i]
         /\ Head(<<x>> \o w) = x /\ <<x>> \o w # <<>>
OBVIOUS

LEMMA LineIs ==
  ASSUME IInv
  PROVE  /\ Line \in Seq(Asks)
         /\ active = NoAsk => Line = <<>> /\ waiting = <<>>
         /\ active # NoAsk =>
              /\ Line = <<active>> \o waiting
              /\ Line # <<>> /\ Head(Line) = active /\ Tail(Line) = waiting
              /\ Len(Line) = Len(waiting) + 1
              /\ Line[1] = active /\ \A i \in 1..Len(waiting) : Line[i + 1] = waiting[i]
         /\ Depth = Len(Line)
<1>1. waiting \in Seq(Asks) /\ active \in Asks \cup {NoAsk}
  BY DEF IInv, TypeOK
<1>2. CASE active = NoAsk
  <2>1. waiting = <<>>
    BY <1>2 DEF IInv, QueueNeverStalls
  <2>2. Line = <<>>
    BY <1>2, <2>1 DEF Line
  <2> QED
    BY <1>2, <2>1, <2>2 DEF Depth
<1>3. CASE active # NoAsk
  <2>1. Line = <<active>> \o waiting
    BY <1>3 DEF Line
  <2>2. /\ Line \in Seq(Asks) /\ Len(Line) = Len(waiting) + 1 /\ Line # <<>>
        /\ Line[1] = active /\ \A i \in 1..Len(waiting) : Line[i + 1] = waiting[i]
        /\ Head(Line) = active
    BY <1>1, <1>3, <2>1, Joined
  <2>3. Tail(Line) = waiting
    <3>1. /\ Tail(Line) \in Seq(Asks) /\ Len(Tail(Line)) = Len(waiting)
          /\ \A i \in 1..Len(waiting) : Tail(Line)[i] = waiting[i]
      BY <1>1, <2>2
    <3> QED
      BY <1>1, <3>1, SameSequence
  <2> QED
    BY <1>3, <2>1, <2>2, <2>3 DEF Depth
<1> QED
  BY <1>2, <1>3

\* After a run the line is what was behind it.
LEMMA RunEndsLine ==
  ASSUME IInv, active # NoAsk, NEW c, NEW t, RunEnds(c, t)
  PROVE  Line' = Tail(Line)
<1>1. Tail(Line) = waiting /\ waiting \in Seq(Asks)
  BY LineIs DEF IInv, TypeOK
<1>2. CASE waiting = <<>>
  BY <1>1, <1>2 DEF RunEnds, Line
<1>3. CASE waiting # <<>>
  <2>1. /\ active' = Head(waiting) /\ waiting' = Tail(waiting)
        /\ Head(waiting) \in Asks /\ Tail(waiting) \in Seq(Asks)
    BY <1>1, <1>3 DEF RunEnds, StartRun
  <2>2. Line' = <<Head(waiting)>> \o Tail(waiting)
    BY <2>1 DEF Line
  <2>3. <<Head(waiting)>> \o Tail(waiting) = waiting
    BY <1>1, <1>3
  <2> QED
    BY <1>1, <2>2, <2>3
<1> QED
  BY <1>2, <1>3

\* An accepted ask comes last.
LEMMA HandleAskLine ==
  ASSUME IInv, Places, NEW t \in BOOLEAN, HandleAsk(t)
  PROVE  \E b \in Asks :
           /\ InInbox(b)
           /\ \/ Len(Line) >= MaxQueue /\ UNCHANGED <<active, waiting>>
                 /\ verdict' = [verdict EXCEPT ![b] = "busy"]
              \/ Len(Line) < MaxQueue /\ Line' = Append(Line, b) /\ UNCHANGED verdict
<1>1. /\ inboxR # <<>> /\ inboxR' = Tail(inboxR) /\ Head(inboxR).type = "ask"
  BY DEF HandleAsk, NextFor
<1>2. PICK b \in Asks : /\ b = Head(inboxR).ask
                        /\ inboxR[1] \in {AskMsg(b), CancelMsg(b)} /\ inboxR[1] = Head(inboxR)
                        /\ inboxR[1] = AskMsg(b) => InInbox(b) /\ ~InInbox(b)'
  BY <1>1, InboxPopped
<1>3. InInbox(b)
  BY <1>1, <1>2 DEF CancelMsg
<1>4. Depth = Len(Line) /\ Line \in Seq(Asks) /\ Len(Line) \in Nat /\ waiting \in Seq(Asks)
  BY LineIs DEF IInv, TypeOK
<1>5. CASE Depth >= MaxQueue
  BY <1>2, <1>3, <1>4, <1>5 DEF HandleAsk, queueVars
<1>6. CASE ~(Depth >= MaxQueue)
  <2>1. Len(Line) < MaxQueue /\ UNCHANGED verdict
    BY <1>4, <1>6 DEF HandleAsk
  <2>2. CASE active = NoAsk
    <3>1. active' = b /\ waiting' = <<>> /\ Line = <<>>
      BY <1>2, <1>6, <2>2, LineIs DEF HandleAsk, StartRun
    <3>2. Line' = <<b>>
      BY <3>1 DEF Line
    <3> QED
      BY <1>3, <2>1, <3>1, <3>2
  <2>3. CASE active # NoAsk
    <3>1. active' = active /\ waiting' = Append(waiting, b)
      BY <1>2, <1>6, <2>3 DEF HandleAsk
    <3>2. Line' = <<active>> \o Append(waiting, b) /\ Line = <<active>> \o waiting /\ active \in Asks
      BY <2>3, <3>1, LineIs DEF Line, IInv, TypeOK
    <3>3. <<active>> \o Append(waiting, b) = Append(<<active>> \o waiting, b)
      <4> DEFINE u == <<active>> \o Append(waiting, b)
                 v == Append(<<active>> \o waiting, b)
      <4>1. /\ Append(waiting, b) \in Seq(Asks) /\ Len(Append(waiting, b)) = Len(waiting) + 1
            /\ \A i \in 1..Len(waiting) : Append(waiting, b)[i] = waiting[i]
            /\ Append(waiting, b)[Len(waiting) + 1] = b
        BY <1>4, Appended
      <4>2. /\ u \in Seq(Asks) /\ Len(u) = Len(waiting) + 2 /\ u[1] = active
            /\ \A i \in 1..Len(waiting) + 1 : u[i + 1] = Append(waiting, b)[i]
        BY <3>2, <4>1, Joined
      <4>3. /\ v \in Seq(Asks) /\ Len(v) = Len(waiting) + 2 /\ v[1] = active
            /\ \A i \in 1..Len(waiting) : v[i + 1] = waiting[i]
            /\ v[Len(waiting) + 2] = b
        BY <1>4, <3>2, Joined
      <4>4. \A i \in 1..Len(waiting) + 1 : u[i + 1] = v[i + 1]
        BY <1>4, <4>1, <4>2, <4>3
      <4>5. \A j \in 1..Len(u) : u[j] = v[j]
        <5> SUFFICES ASSUME NEW j \in 1..Len(u), j # 1 PROVE u[j] = v[j]
          BY <4>2, <4>3
        <5>1. j - 1 \in 1..Len(waiting) + 1 /\ (j - 1) + 1 = j
          BY <1>4, <4>2
        <5> QED
          BY <4>4, <5>1
      <4> HIDE DEF u, v
      <4>6. u = v
        BY <4>2, <4>3, <4>5, SameSequence
      <4> QED
        BY <4>6 DEF u, v
    <3> QED
      BY <1>3, <2>1, <3>2, <3>3
  <2> QED
    BY <2>2, <2>3
<1> QED
  BY <1>5, <1>6

\* A withdrawn ask leaves the line.
LEMMA CancelWaitingLine ==
  ASSUME IInv, CancelWaiting
  PROVE  \E k \in 2..Len(Line) :
           /\ Line' = SubSeq(Line, 1, k - 1) \o SubSeq(Line, k + 1, Len(Line))
           /\ verdict' = [verdict EXCEPT ![Line[k]] = "dropped"]
           /\ honoured' = honoured \cup {Line[k]}
           /\ Len(Line') = Len(Line) - 1
<1>1. PICK k \in DOMAIN waiting :
        /\ waiting' = RemoveAt(waiting, k) /\ active' = active
        /\ verdict' = [verdict EXCEPT ![waiting[k]] = "dropped"]
        /\ honoured' = honoured \cup {waiting[k]}
  BY DEF CancelWaiting
<1>2. waiting \in Seq(Asks) /\ k \in 1..Len(waiting) /\ Len(waiting) \in Nat
  BY <1>1 DEF IInv, TypeOK
<1>3. active # NoAsk /\ active \in Asks
  BY <1>1, <1>2 DEF IInv, TypeOK, QueueNeverStalls
<1>4. /\ Line \in Seq(Asks) /\ Len(Line) = Len(waiting) + 1
      /\ Line[1] = active /\ \A i \in 1..Len(waiting) : Line[i + 1] = waiting[i]
  BY <1>3, LineIs
<1>5. /\ waiting' \in Seq(Asks) /\ Len(waiting') = Len(waiting) - 1
      /\ \A i \in 1..Len(waiting) - 1 :
           waiting'[i] = IF i < k THEN waiting[i] ELSE waiting[i + 1]
  BY <1>1, <1>2, Removed
<1>6. Line' = <<active>> \o waiting'
  BY <1>1, <1>3 DEF Line
<1>7. /\ Line' \in Seq(Asks) /\ Len(Line') = Len(waiting)
      /\ Line'[1] = active /\ \A i \in 1..Len(waiting) - 1 : Line'[i + 1] = waiting'[i]
  BY <1>2, <1>3, <1>5, <1>6, Joined
<1> DEFINE r == RemoveAt(Line, k + 1)
<1>8. k + 1 \in DOMAIN Line
  BY <1>2, <1>4
<1>9. /\ r \in Seq(Asks) /\ DOMAIN r = 1..Len(Line) - 1
      /\ \A i \in 1..Len(Line) - 1 : r[i] = IF i < k + 1 THEN Line[i] ELSE Line[i + 1]
  BY <1>4, <1>8, Removed
<1>10. Len(r) = Len(waiting)
  BY <1>2, <1>4, <1>9
<1> HIDE DEF r
<1>11. ASSUME NEW j \in 1..Len(waiting)
       PROVE  Line'[j] = r[j]
  <2>1. CASE j = 1
    BY <1>2, <1>4, <1>7, <1>9, <2>1
  <2>2. CASE j # 1
    <3>1. PICK i \in 1..Len(waiting) - 1 : j = i + 1
      <4>1. j - 1 \in 1..Len(waiting) - 1 /\ j = (j - 1) + 1
        BY <1>2, <2>2
      <4> QED
        BY <4>1
    <3>2. Line'[j] = IF i < k THEN waiting[i] ELSE waiting[i + 1]
      BY <1>5, <1>7, <3>1
    <3>3. r[j] = IF i < k THEN Line[i + 1] ELSE Line[(i + 1) + 1]
      BY <1>2, <1>4, <1>9, <3>1
    <3>4. Line[i + 1] = waiting[i] /\ Line[(i + 1) + 1] = waiting[i + 1]
      BY <1>2, <1>4, <3>1
    <3> QED
      BY <3>2, <3>3, <3>4
  <2> QED
    BY <2>1, <2>2
<1>12. Line' = r
  BY <1>7, <1>9, <1>10, <1>11, SameSequence
<1>13. r = SubSeq(Line, 1, (k + 1) - 1) \o SubSeq(Line, (k + 1) + 1, Len(Line))
  BY DEF r, RemoveAt
<1>14. k + 1 \in 2..Len(Line) /\ Line[k + 1] = waiting[k] /\ Len(Line') = Len(Line) - 1
  BY <1>2, <1>4, <1>7
<1> QED
  BY <1>1, <1>12, <1>13, <1>14

\* The steps that leave the line alone
LEMMA SenderIsQuiet ==
  ASSUME SenderStep
  PROVE  UNCHANGED Desk!deskVars /\ Line' = Line
<1>1. UNCHANGED <<waiting, active, alive, verdict, honoured>>
  BY DEF SenderStep, AskStart, AskUnresolved, AskUnwritten, AskLands, AckTimeout, MonitorFails,
         metro_cancel, CancelLands, SenderRoutes, receiverVars, queueVars, historyVars
<1> QED
  BY <1>1 DEF Desk!deskVars, Line

LEMMA LandsDesk ==
  ASSUME DeskLands \/ \E a \in Asks : PingLands(a)
  PROVE  UNCHANGED Desk!deskVars /\ Line' = Line
<1>1. UNCHANGED <<waiting, active, alive, verdict, honoured>>
  BY DEF DeskLands, PingLands, receiverVars, queueVars, historyVars
<1> QED
  BY <1>1 DEF Desk!deskVars, Line

LEMMA BoundedStep ==
  ASSUME IInv, Places, Bounded, [Next]_vars
  PROVE  Bounded'
<1>1. /\ Line \in Seq(Asks) /\ Len(Line) \in Nat /\ MaxQueue \in Nat
  BY LineIs
<1>2. CASE SenderStep \/ DeskLands \/ \E a \in Asks : PingLands(a)
  BY <1>2, SenderIsQuiet, LandsDesk DEF Bounded
<1>3. ASSUME NEW t \in BOOLEAN, HandleAsk(t)
      PROVE  Bounded'
  <2>1. CASE UNCHANGED <<active, waiting>>
    BY <2>1 DEF Bounded, Line
  <2>2. CASE \E b \in Asks : Len(Line) < MaxQueue /\ Line' = Append(Line, b)
    BY <1>1, <2>2 DEF Bounded
  <2> QED
    BY <1>3, <2>1, <2>2, HandleAskLine
<1>4. CASE CancelWaiting
  BY <1>1, <1>4, CancelWaitingLine DEF Bounded
<1>5. ASSUME active # NoAsk, NEW c, NEW t, RunEnds(c, t)
      PROVE  Bounded'
  <2>1. Line' = Tail(Line) /\ Line # <<>>
    BY <1>5, RunEndsLine, LineIs
  <2>2. Len(Tail(Line)) = Len(Line) - 1
    BY <1>1, <2>1
  <2> QED
    BY <1>1, <2>1, <2>2 DEF Bounded
<1>6. ASSUME NEW t \in BOOLEAN, NEW o \in Outcome,
             RunSettles(o, t) \/ RunReplies(t) \/ ReplyRefused(t)
      PROVE  Bounded'
  <2>1. active # NoAsk
    BY <1>6, RunIsOnAsk DEF RunSettles, RunReplies, ReplyRefused, Outcome
  <2>2. CASE \E c : RunEnds(c, t)
    BY <1>5, <2>1, <2>2
  <2>3. CASE UNCHANGED <<active, waiting>>
    BY <2>3 DEF Bounded, Line
  <2> QED
    BY <1>6, <2>2, <2>3 DEF RunSettles, RunReplies, ReplyRefused
<1>7. CASE CancelMarked \/ UNCHANGED vars
  <2>1. UNCHANGED <<active, waiting>>
    BY <1>7 DEF CancelMarked, vars, receiverVars, queueVars
  <2> QED
    BY <2>1 DEF Bounded, Line
<1>8. CASE Crash
  <2>1. Line' = <<>>
    BY <1>8 DEF Crash, Line
  <2> QED
    BY <1>1, <2>1 DEF Bounded
<1>9. "failed" \in Outcome
  BY DEF Outcome
<1> QED
  BY <1>2, <1>3, <1>4, <1>6, <1>7, <1>8, <1>9 DEF Next, ReceiverStep

LEMMA BoundedInvariant == Spec => []Bounded
<1>1. Init => Bounded
  BY DEF Init, Bounded, Line
<1> QED
  BY <1>1, BoundedStep, Invariance, PlacesInvariant, PTL DEF Spec

\* Each step of the receiver is one of the desk.
LEMMA HandleAskDesk ==
  ASSUME IInv, Places, Bounded, NEW t \in BOOLEAN, HandleAsk(t)
  PROVE  Desk!Next
<1>1. PICK b \in Asks :
        /\ InInbox(b)
        /\ \/ Len(Line) >= MaxQueue /\ UNCHANGED <<active, waiting>>
              /\ verdict' = [verdict EXCEPT ![b] = "busy"]
           \/ Len(Line) < MaxQueue /\ Line' = Append(Line, b) /\ UNCHANGED verdict
  BY HandleAskLine
<1>2. alive /\ UNCHANGED <<alive, honoured>>
  BY DEF HandleAsk, NextFor
<1>3. verdict[b] = "none" /\ ~InLine(b) /\ active # b
  BY <1>1 DEF Places, OnePlace, Undecided
<1>4. \A i \in DOMAIN Line : Line[i] # b
  <2> SUFFICES ASSUME NEW i \in DOMAIN Line PROVE Line[i] # b
    OBVIOUS
  <2>1. active # NoAsk /\ i \in 1..Len(waiting) + 1 /\ Len(waiting) \in Nat /\ DOMAIN waiting = 1..Len(waiting)
    BY LineIs DEF IInv, TypeOK
  <2>2. CASE i = 1
    BY <1>3, <2>1, <2>2, LineIs
  <2>3. CASE i # 1
    <3>1. i - 1 \in DOMAIN waiting /\ i = (i - 1) + 1
      BY <2>1, <2>3
    <3>2. Line[i] = waiting[i - 1]
      BY <2>1, <3>1, LineIs
    <3> QED
      BY <1>3, <3>1, <3>2 DEF InLine
  <2> QED
    BY <2>2, <2>3
<1>5. Desk!New(b)
  BY <1>3, <1>4 DEF Desk!New, Line
<1>6. CASE Len(Line) >= MaxQueue /\ UNCHANGED <<active, waiting>>
           /\ verdict' = [verdict EXCEPT ![b] = "busy"]
  <2>1. Len(Line) = MaxQueue /\ Line' = Line
    <3>1. Len(Line) \in Nat /\ MaxQueue \in Nat
      BY LineIs
    <3> QED
      BY <1>6, <3>1 DEF Bounded, Line
  <2>2. Desk!Decline(b)
    BY <1>2, <1>5, <1>6, <2>1 DEF Desk!Decline, Line
  <2> QED
    BY <2>2 DEF Desk!Next
<1>7. CASE Len(Line) < MaxQueue /\ Line' = Append(Line, b) /\ UNCHANGED verdict
  <2>1. Desk!Accept(b)
    BY <1>2, <1>5, <1>7 DEF Desk!Accept, Line
  <2> QED
    BY <2>1 DEF Desk!Next
<1> QED
  BY <1>1, <1>6, <1>7

LEMMA CancelWaitingDesk ==
  ASSUME IInv, Bounded, CancelWaiting
  PROVE  Desk!Next
<1>1. PICK k \in 2..Len(Line) :
        /\ Line' = SubSeq(Line, 1, k - 1) \o SubSeq(Line, k + 1, Len(Line))
        /\ verdict' = [verdict EXCEPT ![Line[k]] = "dropped"]
        /\ honoured' = honoured \cup {Line[k]}
  BY CancelWaitingLine
<1>2. alive /\ UNCHANGED alive
  BY DEF CancelWaiting, NextFor
<1>3. k \in 2..MaxQueue
  <2>1. Len(Line) \in Nat /\ MaxQueue \in Nat
    BY LineIs
  <2> QED
    BY <1>1, <2>1 DEF Bounded
<1>4. Desk!Withdraw(k)
  BY <1>1, <1>2 DEF Desk!Withdraw, Line
<1> QED
  BY <1>3, <1>4 DEF Desk!Next

LEMMA CancelMarkedDesk ==
  ASSUME IInv, CancelMarked
  PROVE  Desk!Next \/ UNCHANGED Desk!deskVars
<1>1. alive /\ UNCHANGED <<alive, active, waiting, verdict>>
  BY DEF CancelMarked, NextFor, queueVars
<1>2. Line' = Line
  BY <1>1 DEF Line
<1>3. CASE honoured' = honoured
  BY <1>1, <1>3 DEF Desk!deskVars
<1>4. CASE active # NoAsk /\ honoured' = honoured \cup {active}
  <2>1. Line # <<>> /\ Head(Line) = active
    BY <1>4, LineIs
  <2>2. Desk!Recall
    BY <1>1, <1>2, <1>4, <2>1 DEF Desk!Recall, Line
  <2> QED
    BY <2>2 DEF Desk!Next
<1>5. honoured' = honoured \/ (active # NoAsk /\ honoured' = honoured \cup {active})
  <2>1. Head(inboxR).ask \in Asks
    BY HeadTyped DEF IInv, CancelMarked, NextFor
  <2> QED
    BY <2>1 DEF CancelMarked
<1> QED
  BY <1>3, <1>4, <1>5

\* A run ends with a verdict.
LEMMA CloseDesk ==
  ASSUME IInv, active \in Asks, alive, NEW c, NEW t, RunEnds(c, t),
         NEW v \in {"answered", "failed", "unsent", "discarded"},
         v = "discarded" <=> active \in honoured,
         verdict' = [verdict EXCEPT ![active] = v],
         UNCHANGED <<alive, honoured>>
  PROVE  Desk!Next
<1>1. Line # <<>> /\ Head(Line) = active /\ Line' = Tail(Line)
  BY LineIs, RunEndsLine
<1>2. Desk!Close(v)
  BY <1>1 DEF Desk!Close, Line
<1> QED
  BY <1>2 DEF Desk!Next

LEMMA RunSettlesDesk ==
  ASSUME IInv, Verdicts, NEW o \in Outcome, NEW t \in BOOLEAN, RunSettles(o, t)
  PROVE  Desk!Next \/ UNCHANGED Desk!deskVars
<1>1. active \in Asks /\ alive /\ stage = "agent" /\ UNCHANGED <<alive, honoured>>
  BY RunIsOnAsk DEF RunSettles
<1>2. CASE active \in cancelled
  <2>1. /\ verdict' = [verdict EXCEPT ![active] = "discarded"]
        /\ RunEnds(cancelled \ {active}, t) /\ active \in honoured
    BY <1>1, <1>2 DEF RunSettles, Verdicts, MarkIsHonoured
  <2> QED
    BY <1>1, <2>1, CloseDesk
<1>3. CASE active \notin cancelled
  <2>1. UNCHANGED <<waiting, active, alive, verdict, honoured>>
    BY <1>1, <1>3 DEF RunSettles
  <2> QED
    BY <2>1 DEF Desk!deskVars
<1> QED
  BY <1>2, <1>3

LEMMA RunRepliesDesk ==
  ASSUME IInv, Places, Verdicts, NEW t \in BOOLEAN, RunReplies(t) \/ ReplyRefused(t)
  PROVE  Desk!Next
<1>1. active \in Asks /\ alive /\ stage \in Outcome /\ verdict[active] = "none"
  BY RunIsOnAsk DEF RunReplies, ReplyRefused, Outcome, Places, Undecided, CancelIsBehind
<1>2. RunEnds(cancelled, t) /\ UNCHANGED <<alive, honoured>>
  BY DEF RunReplies, ReplyRefused
<1>3. active \notin honoured
  BY <1>1 DEF Verdicts, HonouredIsDiscarded, Outcome
<1>4. PICK v \in {"answered", "failed", "unsent"} : verdict' = [verdict EXCEPT ![active] = v]
  BY <1>1 DEF RunReplies, ReplyRefused, Outcome
<1> QED
  BY <1>1, <1>2, <1>3, <1>4, CloseDesk

LEMMA CrashDesk ==
  ASSUME Crash
  PROVE  Desk!Next
<1>1. /\ alive /\ alive' = FALSE /\ Line' = <<>> /\ UNCHANGED <<verdict, honoured>>
  BY DEF Crash, Line, historyVars
<1>2. Desk!Abandon
  BY <1>1 DEF Desk!Abandon, Line
<1> QED
  BY <1>2 DEF Desk!Next

----------------------------------------------------------------------------
(* Theorems *)

\* The sender records an answer only when the receiver's agent gave one and
\* its reply was sent, whatever else came late, twice or after a cancel.
THEOREM AnswersAreGenuine == Spec => []AnsweredIsGenuine
<1>1. Verdicts => AnsweredIsGenuine
  BY DEF Verdicts
<1> QED
  BY <1>1, VerdictsInvariant, PTL

\* The message of a verdict of a live receiver is being written, in the
\* sender's inbox, or routed.
THEOREM VerdictsArrive == Spec => []NoVerdictIsLost
<1>1. Verdicts => NoVerdictIsLost
  BY DEF Verdicts
<1> QED
  BY <1>1, VerdictsInvariant, PTL

\* A cancel that found its ask waiting or running prevails: no answer is sent
\* and none is recorded.
THEOREM CancelsPrevail == Spec => []HonouredCancelHolds
<1>1. IInv /\ Places /\ Verdicts => HonouredCancelHolds
  <2> SUFFICES ASSUME IInv, Places, Verdicts, NEW a \in honoured
               PROVE  verdict[a] # "answered" /\ rec[a] # "answered"
    BY DEF HonouredCancelHolds
  <2>1. a \in Asks
    BY DEF IInv, TypeOK
  <2>2. verdict[a] # "answered"
    BY <2>1 DEF Verdicts, HonouredIsDiscarded, Places, Undecided
  <2> QED
    BY <2>1, <2>2 DEF Verdicts, AnsweredIsGenuine
<1> QED
  BY <1>1, Invariance, PlacesInvariant, VerdictsInvariant, PTL

\* A terminal record changes only through metro_cancel or after it.
THEOREM TerminalStays == Spec => TerminalIsSticky
<1>1. IInv /\ Places /\ Settled /\ [Next]_vars => [StaysTerminal]_vars
  BY StepSettled
<1> QED
  BY <1>1, Invariance, PlacesInvariant, SettledInvariant, PTL DEF Spec, TerminalIsSticky, StaysTerminal

\* The receiver's queue and run are a bounded line served in order, with one
\* verdict per ask and no answer after an honoured cancel.
THEOREM QueueIsDesk == Spec => ImplementsAskDesk
<1>1. Init => Desk!Init
  BY DEF Init, Desk!Init
<1>2. IInv /\ Places /\ Verdicts /\ Bounded /\ [Next]_vars => [Desk!Next]_(Desk!deskVars)
  <2> SUFFICES ASSUME IInv, Places, Verdicts, Bounded, [Next]_vars
               PROVE  Desk!Next \/ UNCHANGED Desk!deskVars
    OBVIOUS
  <2>1. CASE SenderStep
    BY <2>1, SenderIsQuiet
  <2>2. CASE ReceiverStep
    BY <2>2, HandleAskDesk, CancelWaitingDesk, CancelMarkedDesk, LandsDesk, RunSettlesDesk,
       RunRepliesDesk, CrashDesk DEF ReceiverStep
  <2>3. CASE UNCHANGED vars
    BY <2>3 DEF vars, receiverVars, queueVars, historyVars, Desk!deskVars
  <2> QED
    BY <2>1, <2>2, <2>3 DEF Next
<1> QED
  BY <1>1, <1>2, Invariance, PlacesInvariant, VerdictsInvariant, BoundedInvariant, PTL
     DEF Spec, ImplementsAskDesk, Desk!Spec
=============================================================================
