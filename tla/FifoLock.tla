------------------------------ MODULE FifoLock ------------------------------
(***************************************************************************)
(* What a session expects of the lock it takes around every operation on   *)
(* one lease: whoever comes gets in line, the first in line holds the      *)
(* lock, and nobody overtakes.  LeaseLock implements it.                   *)
(***************************************************************************)
EXTENDS Naturals, Sequences

CONSTANT Calls

VARIABLES line,    \* calls that came and have not left, in order
          holding  \* the first in line is at work

Come(c) ==
  /\ \A i \in DOMAIN line : line[i] # c
  /\ line' = Append(line, c)
  /\ UNCHANGED holding

Hold ==
  /\ line # <<>> /\ ~holding
  /\ holding' = TRUE
  /\ UNCHANGED line

Leave ==
  /\ holding
  /\ holding' = FALSE
  /\ line' = Tail(line)

Init == line = <<>> /\ holding = FALSE
Next == (\E c \in Calls : Come(c)) \/ Hold \/ Leave
Spec == Init /\ [][Next]_<<line, holding>>
=============================================================================
