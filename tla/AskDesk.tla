------------------------------ MODULE AskDesk ------------------------------
(***************************************************************************)
(* What a receiving session promises about the asks it is sent: a bounded  *)
(* line served in order of arrival, one ask at a time, exactly one verdict *)
(* per ask, and no answer for an ask whose recall was honoured.            *)
(* AskProtocol implements it.                                              *)
(***************************************************************************)
EXTENDS Naturals, Sequences

CONSTANTS Asks, MaxQueue

VARIABLES line,      \* the ask being served, then the waiting ones
          open,      \* the session is up
          verdict,   \* how each ask was disposed of
          recalled   \* asks whose recall was honoured

deskVars == <<line, open, verdict, recalled>>

New(a) == verdict[a] = "none" /\ \A i \in DOMAIN line : line[i] # a

Accept(a) ==
  /\ open /\ New(a) /\ Len(line) < MaxQueue
  /\ line' = Append(line, a)
  /\ UNCHANGED <<open, verdict, recalled>>

Decline(a) ==
  /\ open /\ New(a) /\ Len(line) = MaxQueue
  /\ verdict' = [verdict EXCEPT ![a] = "busy"]
  /\ UNCHANGED <<line, open, recalled>>

\* A waiting ask is recalled: it leaves the line
Withdraw(i) ==
  /\ open /\ i \in 2 .. Len(line)
  /\ line' = SubSeq(line, 1, i - 1) \o SubSeq(line, i + 1, Len(line))
  /\ verdict' = [verdict EXCEPT ![line[i]] = "dropped"]
  /\ recalled' = recalled \cup {line[i]}
  /\ UNCHANGED open

\* The ask being served is recalled: its answer will be discarded
Recall ==
  /\ open /\ line # <<>>
  /\ recalled' = recalled \cup {Head(line)}
  /\ UNCHANGED <<line, open, verdict>>

Close(v) ==
  /\ open /\ line # <<>>
  /\ v = "discarded" <=> Head(line) \in recalled
  /\ line' = Tail(line)
  /\ verdict' = [verdict EXCEPT ![Head(line)] = v]
  /\ UNCHANGED <<open, recalled>>

\* The session ends and takes its line with it
Abandon ==
  /\ open /\ open' = FALSE /\ line' = <<>>
  /\ UNCHANGED <<verdict, recalled>>

Init ==
  /\ line = <<>> /\ open = TRUE
  /\ verdict = [a \in Asks |-> "none"] /\ recalled = {}

Next ==
  \/ \E a \in Asks : Accept(a) \/ Decline(a)
  \/ \E i \in 2 .. MaxQueue : Withdraw(i)
  \/ \E v \in {"answered", "failed", "unsent", "discarded"} : Close(v)
  \/ Recall \/ Abandon

Spec == Init /\ [][Next]_deskVars
=============================================================================
