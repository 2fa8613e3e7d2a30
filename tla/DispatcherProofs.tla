--------------------------- MODULE DispatcherProofs ---------------------------
(***************************************************************************)
(* The dispatcher keeps its domains; no mail is hidden by the fingerprint, *)
(* provided that every change advances the mtime; and no message is        *)
(* handled twice before the history has dropped an id: for any number of   *)
(* files, sizes and cap of the history.                                    *)
(*                                                                         *)
(* The domains take one step of mathematics: that the sum of the sizes of  *)
(* the files is a number.  The sum is a recursive function over the sets   *)
(* of files, which first has to be shown to exist (SumIsNat).              *)
(*                                                                         *)
(* Why no mail is hidden.  The mtime of the last fingerprint was taken     *)
(* before its listing.  So as long as the directory still has that mtime   *)
(* nothing has changed since: while a poll works on its list, that list is *)
(* all there is in the inbox; and once the poll has ended, the list was    *)
(* empty, as otherwise the removal of its first file would have advanced   *)
(* the mtime.                                                              *)
(***************************************************************************)
EXTENDS Dispatcher, TLAPS, WellFoundedInduction, FiniteSetTheorems

(* Induction *)

\* A set of numbers that has a member has a least one.
LEMMA LeastNumber ==
  ASSUME NEW S, S \subseteq Nat, S # {}
  PROVE  \E n \in S : \A k \in S : n <= k
<1> DEFINE Less == OpToRel(<, Nat)
<1>1. IsWellFoundedOn(Less, Nat)
  BY NatLessThanWellFounded
<1>2. \A a, b \in Nat : a < b => <<a, b>> \in Less
  BY Zenon DEF OpToRel
<1> HIDE DEF Less
<1>3. PICK n \in S : \A k \in S : ~(<<k, n>> \in Less)
  BY <1>1, WFMin
<1>4. ASSUME NEW k \in S PROVE n <= k
  <2>1. k \in Nat /\ n \in Nat
    BY Zenon
  <2>2. ~(k < n)
    BY <1>2, <1>3, <2>1, Zenon
  <2> QED BY <2>1, <2>2
<1> QED BY <1>4, Zenon

\* Induction over the naturals, for membership of a set.
LEMMA SetInduction ==
  ASSUME NEW S, 0 \in S, \A n \in Nat : n \in S => n + 1 \in S
  PROVE  Nat \subseteq S
<1> SUFFICES ASSUME Nat \ S # {} PROVE FALSE
  OBVIOUS
<1>1. PICK n \in Nat \ S : \A k \in Nat \ S : n <= k
  BY LeastNumber
<1>2. n - 1 \in Nat /\ ~(n <= n - 1) /\ (n - 1) + 1 = n
  BY <1>1
<1>3. n - 1 \in S
  BY <1>1, <1>2
<1> QED BY <1>1, <1>2, <1>3

\* The sizes of files that were sent add up to a number.  The function the sum
\* is defined by exists on the sets up to each number of files, and is a number
\* on each of them, by induction.
LEMMA SumIsNat ==
  ASSUME sent \in Seq(Message), NEW files, files \subseteq 1..Len(sent)
  PROVE  MapThenSumSet(LAMBDA f : sent[f].size, files) \in Nat
<1> DEFINE Pick(s) == CHOOSE x \in s : TRUE
           Sum(g, s) == IF s = {} THEN 0 ELSE sent[Pick(s)].size + g[s \ {Pick(s)}]
           Upto(n) == {s \in SUBSET files : Cardinality(s) <= n}
           Equation(g, D) == g = [s \in D |-> Sum(g, s)]
<1>1. ASSUME NEW s \in SUBSET files
      PROVE  /\ Cardinality(s) \in Nat
             /\ s # {} => /\ Pick(s) \in files /\ sent[Pick(s)].size \in Nat
                          /\ s \ {Pick(s)} \in SUBSET files
                          /\ Cardinality(s \ {Pick(s)}) = Cardinality(s) - 1
  <2>1. IsFiniteSet(1..Len(sent))
    <3>1. Len(sent) \in Nat
      OBVIOUS
    <3> QED BY <3>1, FS_Interval
  <2>2. IsFiniteSet(s)
    <3>1. s \in SUBSET (1..Len(sent))
      OBVIOUS
    <3> QED BY <2>1, <3>1, FS_Subset
  <2>3. Cardinality(s) \in Nat
    BY <2>2, FS_CardinalityType
  <2>4. ASSUME s # {}
        PROVE  /\ Pick(s) \in files /\ sent[Pick(s)].size \in Nat
               /\ s \ {Pick(s)} \in SUBSET files
               /\ Cardinality(s \ {Pick(s)}) = Cardinality(s) - 1
    <3>1. PICK x : x = Pick(s)
      OBVIOUS
    <3>2. x \in s
      BY <2>4, <3>1
    <3>3. Cardinality(s \ {x}) = Cardinality(s) - 1
      BY <2>2, <3>2, FS_RemoveElement
    <3>4. sent[x] \in Message
      BY <3>2
    <3>5. sent[x].size \in Nat
      BY <3>4, DispatcherAssumption DEF Message
    <3> QED BY <3>1, <3>2, <3>3, <3>5
  <2> QED BY <2>3, <2>4
<1> HIDE DEF Pick
<1>2. \E g : Equation(g, SUBSET files)
  <2> DEFINE S == {n \in Nat : \E g : Equation(g, Upto(n))}
  <2>1. 0 \in S
    <3> DEFINE e == [s \in Upto(0) |-> 0]
    <3>1. \A s \in Upto(0) : s = {}
      <4> SUFFICES ASSUME NEW s \in SUBSET files, Cardinality(s) <= 0, s # {}
                   PROVE  FALSE
        OBVIOUS
      <4>1. Cardinality(s \ {Pick(s)}) \in Nat
        BY <1>1
      <4> QED BY <1>1, <4>1
    <3>2. \A s \in Upto(0) : Sum(e, s) = 0
      BY <3>1
    <3>3. e = [s \in Upto(0) |-> Sum(e, s)]
      BY <3>2
    <3> QED BY <3>3
  <2>2. ASSUME NEW n \in Nat, n \in S PROVE n + 1 \in S
    <3>1. PICK g : Equation(g, Upto(n))
      BY <2>2
    <3> DEFINE h == [s \in Upto(n + 1) |-> IF s \in Upto(n) THEN g[s] ELSE Sum(g, s)]
    <3>2. \A s \in Upto(n) : g[s] = Sum(g, s)
      BY <3>1
    <3>3. \A s \in Upto(n + 1) : h[s] = Sum(g, s)
      BY <3>2
    <3>4. \A s \in Upto(n + 1) :
            s # {} => s \ {Pick(s)} \in Upto(n) \cap Upto(n + 1)
      BY <1>1
    <3>5. \A s \in Upto(n + 1) : s \in Upto(n) => h[s] = g[s]
      OBVIOUS
    <3>6. h = [s \in Upto(n + 1) |-> h[s]]
      OBVIOUS
    <3> HIDE DEF h, Upto
    <3>7. \A s \in Upto(n + 1) : h[s] = Sum(h, s)
      BY <3>3, <3>4, <3>5
    <3>8. Equation(h, Upto(n + 1))
      BY <3>6, <3>7
    <3> HIDE DEF Equation
    <3> QED BY <3>8
  <2>3. Nat \subseteq S
    <3> HIDE DEF S
    <3> QED BY <2>1, <2>2, SetInduction
  <2>4. Cardinality(files) \in Nat /\ Upto(Cardinality(files)) = SUBSET files
    <3>1. IsFiniteSet(files)
      <4>1. Len(sent) \in Nat /\ files \in SUBSET (1..Len(sent))
        OBVIOUS
      <4>2. IsFiniteSet(1..Len(sent))
        BY <4>1, FS_Interval
      <4> QED BY <4>1, <4>2, FS_Subset
    <3>2. \A s \in SUBSET files : Cardinality(s) <= Cardinality(files)
      BY <3>1, FS_Subset
    <3> QED BY <3>1, <3>2, FS_CardinalityType
  <2> QED BY <2>3, <2>4
<1> DEFINE sum == CHOOSE g : Equation(g, SUBSET files)
<1>3. Equation(sum, SUBSET files)
  BY <1>2
<1>4. MapThenSumSet(LAMBDA f : sent[f].size, files) = sum[files]
  BY DEF MapThenSumSet, MapThenFoldSet, Pick
<1> HIDE DEF sum
<1>5. /\ sum[{}] = 0
      /\ \A s \in SUBSET files : s # {} => sum[s] = sent[Pick(s)].size + sum[s \ {Pick(s)}]
  BY <1>3
<1> DEFINE R == {n \in Nat : \A s \in SUBSET files : Cardinality(s) <= n => sum[s] \in Nat}
<1>6. ASSUME NEW n \in Nat, NEW s \in SUBSET files, Cardinality(s) <= n,
             n # 0 => n - 1 \in R
      PROVE  sum[s] \in Nat
  <2>1. CASE s = {}
    BY <1>5, <2>1
  <2>2. CASE s # {}
    <3> DEFINE r == s \ {Pick(s)}
    <3>1. /\ r \in SUBSET files /\ sent[Pick(s)].size \in Nat
          /\ Cardinality(r) \in Nat /\ Cardinality(r) = Cardinality(s) - 1
      BY <1>1, <2>2
    <3>2. sum[s] = sent[Pick(s)].size + sum[r]
      BY <1>5, <2>2
    <3> HIDE DEF r
    <3>3. n # 0 /\ Cardinality(r) <= n - 1
      <4>1. PICK k \in Nat : k = Cardinality(s) /\ k <= n
        BY <1>1, <1>6
      <4>2. PICK l \in Nat : l = Cardinality(r) /\ l = k - 1
        BY <3>1, <4>1
      <4>3. n # 0 /\ l <= n - 1
        BY <4>1, <4>2
      <4> QED BY <4>2, <4>3
    <3>4. sum[r] \in Nat
      BY <1>6, <3>1, <3>3
    <3> QED BY <3>1, <3>2, <3>4
  <2> QED BY <2>1, <2>2
<1>7. 0 \in R
  BY <1>6
<1>8. ASSUME NEW n \in Nat, n \in R PROVE n + 1 \in R
  <2>1. n + 1 \in Nat /\ (n + 1) - 1 = n
    OBVIOUS
  <2>2. ASSUME NEW s \in SUBSET files, Cardinality(s) <= n + 1 PROVE sum[s] \in Nat
    <3> HIDE DEF R
    <3> QED BY <1>6, <1>8, <2>1, <2>2
  <2> QED BY <2>1, <2>2
<1>9. Nat \subseteq R
  <2> HIDE DEF R
  <2> QED BY <1>7, <1>8, SetInduction
<1>10. files \in SUBSET files /\ Cardinality(files) \in Nat
  BY <1>1
<1>11. sum[files] \in Nat
  BY <1>9, <1>10
<1> QED BY <1>4, <1>11
\* The sum of the sizes is a number, and so are the parts of a fingerprint.
LEMMA FingerprintTyped ==
  ASSUME TypeOK, NEW m \in Nat
  PROVE  FingerprintOf(m, inbox, tmp) \in [mtime: Nat, count: Nat, size: Nat]
<1>1. Len(sent) \in Nat /\ inbox \in SUBSET (1..Len(sent)) /\ tmp \in SUBSET (1..Len(sent))
  BY DEF TypeOK
<1>2. IsFiniteSet(1..Len(sent))
  BY <1>1, FS_Interval
<1>3. IsFiniteSet(inbox) /\ IsFiniteSet(tmp)
  BY <1>1, <1>2, FS_Subset
<1>4. Cardinality(inbox) \in Nat /\ Cardinality(tmp) \in Nat
  BY <1>3, FS_CardinalityType
<1>5. MapThenSumSet(LAMBDA f : sent[f].size, inbox) \in Nat
  BY SumIsNat DEF TypeOK
<1> QED BY <1>4, <1>5 DEF FingerprintOf

\* A directory that is gone holds no temporary file either.
TypeInv == TypeOK /\ (~exists => tmp = {})

\* The domains hold at first: null is a fingerprint of its own.
LEMMA TypeInit == Init => TypeInv
<1> SUFFICES ASSUME Init PROVE TypeInv
  OBVIOUS
<1>1. MaxFiles \in Nat /\ SeenCap \in Nat /\ MaxSweeps \in Nat
  BY DispatcherAssumption
<1>2. lastSeen \in [mtime: Nat, count: Nat, size: Nat]
  BY <1>1 DEF Init, NoFingerprint
<1>3. /\ sent \in Seq(Message) /\ Len(sent) = 0
      /\ seen \in Seq(Files) /\ Len(seen) = 0 /\ routed \in Seq(Files)
  BY DEF Init
<1>4. /\ tmp = {} /\ inbox = {} /\ listed = {} /\ mtime = 0 /\ statted = 0 /\ sweeps = 0
      /\ exists \in BOOLEAN /\ current \in BOOLEAN /\ pc = "none" /\ stop = "no"
  BY DEF Init
<1> QED BY <1>1, <1>2, <1>3, <1>4 DEF TypeInv, TypeOK

\* Every step keeps them.
LEMMA TypeStep ==
  ASSUME TypeInv, [Next]_vars
  PROVE  TypeInv'
<1>0. MaxFiles \in Nat \ {0} /\ SeenCap \in Nat \ {0} /\ MaxSweeps \in Nat
  BY DispatcherAssumption
<1>1. CASE WriteTmp
  <2>1. PICK m : sent' = Append(sent, m) /\ m \in Message
    <3>1. PICK m \in [id: {Len(sent) + 1}, size: Sizes]
                       \cup (IF sent = <<>> THEN {} ELSE {Last(sent)}) :
            sent' = Append(sent, m)
      BY <1>1 DEF WriteTmp
    <3>2. Len(sent) + 1 \in Files
      BY <1>1, <1>0 DEF WriteTmp, TypeInv, TypeOK, Files
    <3>3. sent # <<>> => Last(sent) \in Message
      BY DEF TypeInv, TypeOK, Last
    <3> QED BY <3>1, <3>2, <3>3 DEF Message
  <2>2. PICK n \in Nat : n = Len(sent) /\ n < MaxFiles
    BY <1>1 DEF WriteTmp, TypeInv, TypeOK
  <2>3. sent' \in Seq(Message) /\ Len(sent') = n + 1
    BY <2>1, <2>2 DEF TypeInv, TypeOK
  <2>4. /\ tmp' = tmp \cup {n + 1} /\ exists' = TRUE
        /\ mtime' \in {mtime, mtime + 1}
        /\ UNCHANGED <<inbox, sweeps, pollVars, current, stop>>
    BY <1>1, <2>2 DEF WriteTmp, Changes
  <2>5. 1..n \subseteq 1..(n + 1) /\ n + 1 \in 1..(n + 1) /\ n + 1 \notin 1..n
    OBVIOUS
  <2>6. /\ tmp' \subseteq 1..Len(sent') /\ inbox' \subseteq 1..Len(sent')
        /\ tmp' \cap inbox' = {} /\ listed' \subseteq 1..Len(sent')
    <3>1. tmp \subseteq 1..n /\ inbox \subseteq 1..n /\ listed \subseteq 1..n /\ tmp \cap inbox = {}
      BY <2>2 DEF TypeInv, TypeOK
    <3> QED BY <2>3, <2>4, <2>5, <3>1, Zenon DEF pollVars
  <2>7. mtime' \in Nat /\ statted' \in 0..mtime'
    BY <2>4 DEF pollVars, TypeInv, TypeOK
  <2>8. Len(sent') <= MaxFiles
    BY <1>0, <2>2, <2>3
  <2> QED BY <2>3, <2>4, <2>6, <2>7, <2>8 DEF pollVars, TypeInv, TypeOK
<1>2. CASE \E f \in tmp : Rename(f)
  <2>1. PICK f \in tmp : /\ tmp' = tmp \ {f} /\ inbox' = inbox \cup {f}
                         /\ mtime' \in {mtime, mtime + 1}
                         /\ UNCHANGED <<sent, exists, sweeps, pollVars, current, stop>>
    BY <1>2 DEF Rename, Changes
  <2>2. mtime' \in Nat /\ statted' \in 0..mtime'
    BY <2>1 DEF pollVars, TypeInv, TypeOK
  <2>3. /\ tmp' \subseteq 1..Len(sent') /\ inbox' \subseteq 1..Len(sent')
        /\ tmp' \cap inbox' = {} /\ exists'
    BY <2>1 DEF TypeInv, TypeOK
  <2> QED BY <2>1, <2>2, <2>3 DEF pollVars, TypeInv, TypeOK
<1>3. CASE PeerSweeps
  <2>1. /\ tmp' = {} /\ inbox' = {} /\ exists' = FALSE
        /\ mtime' \in {mtime, mtime + 1} /\ sweeps' = sweeps + 1 /\ sweeps < MaxSweeps
        /\ UNCHANGED <<sent, pollVars, current, stop>>
    BY <1>3 DEF PeerSweeps, Changes
  <2>2. mtime' \in Nat /\ statted' \in 0..mtime' /\ sweeps' \in 0..MaxSweeps
    BY <1>0, <2>1 DEF pollVars, TypeInv, TypeOK
  <2> QED BY <2>1, <2>2 DEF pollVars, TypeInv, TypeOK
<1>4. CASE IntervalTick \/ WakeUp \/ StatDir
  <2>1. /\ pc' \in {pc, "none", "stat", "list"} /\ current' \in BOOLEAN
        /\ statted' \in {statted, mtime}
        /\ UNCHANGED <<dirVars, listed, lastSeen, seen, routed, stop>>
    BY <1>4 DEF IntervalTick, WakeUp, StatDir, Goto, pollVars, TypeInv, TypeOK
  <2>2. mtime' \in Nat /\ statted' \in 0..mtime'
    BY <2>1 DEF dirVars, TypeInv, TypeOK
  <2> QED BY <2>1, <2>2 DEF dirVars, TypeInv, TypeOK
<1>5. CASE ListDir
  <2> DEFINE fp == FingerprintOf(statted, inbox, tmp)
  <2>1. fp \in [mtime: Nat, count: Nat, size: Nat]
    <3>1. statted \in Nat
      BY DEF TypeInv, TypeOK
    <3> QED BY <3>1, FingerprintTyped DEF TypeInv
  <2>2. /\ pc' \in {"none", "next"}
        /\ lastSeen' \in {lastSeen, fp} /\ listed' \in {listed, inbox}
        /\ UNCHANGED <<dirVars, statted, seen, routed, current, stop>>
    BY <1>5 DEF ListDir
  <2> HIDE DEF fp
  <2> QED BY <2>1, <2>2 DEF dirVars, TypeInv, TypeOK
<1>6. CASE Discard \/ Routed
  <2>1. /\ pc' \in {pc, "next", "none"}
        /\ inbox' \subseteq inbox /\ listed' \subseteq listed
        /\ mtime' \in {mtime, mtime + 1}
        /\ UNCHANGED <<sent, tmp, exists, sweeps, statted, lastSeen, seen, routed, current, stop>>
    BY <1>6 DEF Discard, Routed, RemoveFile, Changes
  <2>2. mtime' \in Nat /\ statted' \in 0..mtime'
    BY <2>1 DEF TypeInv, TypeOK
  <2> QED BY <2>1, <2>2 DEF TypeInv, TypeOK
<1>7. CASE Route
  <2> DEFINE id == sent[First].id
  <2>1. First \in 1..Len(sent)
    BY <1>7 DEF Route, TypeInv, TypeOK
  <2>2. id \in Files
    <3>1. sent[First] \in Message
      BY <2>1 DEF TypeInv, TypeOK
    <3> QED BY <3>1 DEF Message
  <2>3. /\ seen' = (IF Len(seen) < SeenCap THEN Append(seen, id) ELSE Append(Tail(seen), id))
        /\ routed' = Append(routed, id) /\ pc' = "routing"
        /\ UNCHANGED <<dirVars, statted, listed, lastSeen, current, stop>>
    BY <1>7 DEF Route, Remember
  <2> HIDE DEF id
  <2>4. seen' \in Seq(Files) /\ Len(seen') <= SeenCap /\ routed' \in Seq(Files)
    <3>1. seen \in Seq(Files) /\ routed \in Seq(Files) /\ Len(seen) <= SeenCap /\ Len(seen) \in Nat
      BY DEF TypeInv, TypeOK
    <3>2. CASE Len(seen) < SeenCap
      BY <1>0, <2>2, <2>3, <3>1, <3>2
    <3>3. CASE ~(Len(seen) < SeenCap)
      <4>1. Tail(seen) \in Seq(Files) /\ Len(Tail(seen)) = SeenCap - 1
        BY <1>0, <3>1, <3>3
      <4> QED BY <1>0, <2>2, <2>3, <3>1, <3>3, <4>1
    <3> QED BY <3>2, <3>3
  <2> QED BY <2>3, <2>4 DEF dirVars, TypeInv, TypeOK
<1>8. CASE PollEnds \/ StopCalled \/ StopReturns \/ UNCHANGED vars
  BY <1>8 DEF PollEnds, StopCalled, StopReturns, Goto, vars, dirVars, pollVars, TypeInv, TypeOK
<1> QED
  BY <1>1, <1>2, <1>3, <1>4, <1>5, <1>6, <1>7, <1>8 DEF Next, PollStep

\* Every variable of the dispatcher keeps to its domain, and the dedup history
\* to its cap (DISPATCHER_SEEN_CAP), with any number of files of any sizes, and
\* with an mtime of any resolution.
THEOREM DispatcherTypeCorrect == Spec => []TypeOK
<1>1. TypeInv => TypeOK
  BY DEF TypeInv
<1> QED
  BY <1>1, TypeInit, TypeStep, PTL DEF Spec

----------------------------------------------------------------------------
(* No mail is hidden. *)

\* The times, as far as the argument compares them.
TimesOK ==
  /\ mtime \in Nat /\ statted \in Nat /\ lastSeen.mtime \in Nat
  /\ lastSeen.mtime <= mtime
  /\ statted <= mtime

\* No change since the last fingerprint: between polls there is no mail, during
\* one there is only what it has listed, and the file that is routed is there.
UnchangedSince ==
  lastSeen.mtime = mtime =>
    /\ IF pc \in {"next", "routing"} THEN inbox = listed ELSE inbox = {}
    /\ pc = "routing" => First \in inbox

IInv == TimesOK /\ UnchangedSince

\* The invariant holds at first: the inbox is empty.
LEMMA InitInv == Init => IInv
BY DEF Init, IInv, TimesOK, UnchangedSince, NoFingerprint

\* Every step keeps it, where a change always advances the mtime.
LEMMA StepInv ==
  ASSUME Coarse = FALSE, IInv, [Next]_vars
  PROVE  IInv'
<1> USE DEF IInv, TimesOK, UnchangedSince, First
<1>1. CASE WriteTmp
  BY <1>1 DEF WriteTmp, Changes, pollVars
<1>2. CASE \E f \in tmp : Rename(f)
  BY <1>2 DEF Rename, Changes, pollVars
<1>3. CASE IntervalTick
  BY <1>3 DEF IntervalTick, Goto, dirVars, pollVars
<1>4. CASE WakeUp
  BY <1>4 DEF WakeUp, Goto, dirVars
<1>5. CASE StatDir
  BY <1>5 DEF StatDir, dirVars
<1>6. CASE ListDir
  <2> DEFINE fp == FingerprintOf(statted, inbox, tmp)
  <2>1. CASE ~exists \/ shouldSkipPoll(fp, lastSeen)
    BY <1>6, <2>1 DEF ListDir, dirVars
  <2>2. CASE ~(~exists \/ shouldSkipPoll(fp, lastSeen))
    <3>1. lastSeen' = fp /\ listed' = inbox /\ pc' = "next" /\ UNCHANGED <<dirVars, statted>>
      BY <1>6, <2>2 DEF ListDir
    <3>2. lastSeen'.mtime = statted
      BY <3>1 DEF FingerprintOf
    <3> QED BY <3>1, <3>2 DEF dirVars
  <2> QED BY <2>1, <2>2
<1>7. CASE Discard \/ Routed
  <2>1. CASE First \in inbox
    <3>1. mtime' = mtime + 1 /\ UNCHANGED <<statted, lastSeen>>
      BY <1>7, <2>1 DEF Discard, Routed, RemoveFile, Changes
    <3> QED BY <3>1
  <2>2. CASE First \notin inbox
    <3>1. UNCHANGED <<mtime, statted, lastSeen, inbox>> /\ listed' = listed \ {First}
      BY <1>7, <2>2 DEF Discard, Routed, RemoveFile
    <3>2. CASE Discard
      BY <3>1, <3>2, <2>2 DEF Discard
    <3>3. CASE Routed
      BY <3>1, <3>3, <2>2 DEF Routed
    <3> QED BY <1>7, <3>2, <3>3
  <2> QED BY <2>1, <2>2
<1>8. CASE Route
  BY <1>8 DEF Route, dirVars, First
<1>9. CASE PollEnds
  BY <1>9 DEF PollEnds, Goto, dirVars
<1>10. CASE StopCalled \/ StopReturns \/ UNCHANGED vars
  BY <1>10 DEF StopCalled, StopReturns, vars, dirVars, pollVars
<1>11. CASE PeerSweeps
  BY <1>11 DEF PeerSweeps, Changes, pollVars
<1> QED
  BY <1>1, <1>2, <1>3, <1>4, <1>5, <1>6, <1>7, <1>8, <1>9, <1>10, <1>11 DEF Next, PollStep

\* What the invariant says about a poll that would be skipped.
LEMMA InvHidesNoMail == IInv => SkipHidesNoMail
BY DEF IInv, TimesOK, UnchangedSince, SkipHidesNoMail, shouldSkipPoll, FingerprintOf

\* Between polls, a fingerprint that shows no change means that there is no mail:
\* no message that came in during a poll, and none that a failed handler left
\* behind, waits for a change that may never come.
THEOREM SkippingIsSafe ==
  ASSUME Coarse = FALSE
  PROVE  Spec => []SkipHidesNoMail
<1>1. Init => IInv
  BY InitInv
<1>2. IInv /\ [Next]_vars => IInv'
  BY StepInv
<1>3. IInv => SkipHidesNoMail
  BY InvHidesNoMail
<1> QED
  BY <1>1, <1>2, <1>3, PTL DEF Spec

----------------------------------------------------------------------------
(* What the dedup history is worth.  It holds the ids routed last, as many   *)
(* as its cap allows, and an id that is in it is not routed.  So two routings*)
(* of one id are further apart than the cap.                                 *)

\* The history is the end of what was routed.
SeenIsRecent ==
  /\ Len(seen) = IF Len(routed) < SeenCap THEN Len(routed) ELSE SeenCap
  /\ \A k \in 1..Len(seen) : seen[k] = routed[Len(routed) - Len(seen) + k]

\* A message that comes again is handled again only when at least SeenCap others
\* were handled in between (DISPATCHER_SEEN_CAP).
RepeatsAreFar ==
  \A i, j \in 1..Len(routed) : i < j /\ routed[i] = routed[j] => j - i > SeenCap

HInv == TypeInv /\ SeenIsRecent /\ RepeatsAreFar

\* An id is remembered as the latest one, at the cost of the oldest.
LEMMA RememberKeepsRecent ==
  ASSUME NEW id \in Files, seen \in Seq(Files), routed \in Seq(Files), SeenIsRecent,
         Remember(id), routed' = Append(routed, id)
  PROVE  SeenIsRecent'
<1>1. SeenCap \in Nat \ {0}
  BY DispatcherAssumption
<1>2. Len(routed') = Len(routed) + 1 /\ Len(routed) \in Nat /\ routed'[Len(routed) + 1] = id
  OBVIOUS
<1>3. \A k \in 1..Len(routed) : routed'[k] = routed[k]
  OBVIOUS
<1>4. CASE Len(seen) < SeenCap
  <2>1. seen' = Append(seen, id) /\ Len(seen) = Len(routed)
    BY <1>1, <1>2, <1>4 DEF Remember, SeenIsRecent
  <2>2. seen' \in Seq(Files) /\ Len(seen') = Len(seen) + 1 /\ seen'[Len(seen) + 1] = id
    BY <2>1
  <2>3. \A k \in 1..Len(seen) : seen'[k] = seen[k] /\ seen[k] = routed[k]
    BY <2>1 DEF SeenIsRecent
  <2>4. \A k \in 1..Len(seen') : seen'[k] = routed'[k]
    BY <1>2, <1>3, <2>1, <2>2, <2>3
  <2> QED BY <1>1, <1>2, <1>4, <2>1, <2>2, <2>4 DEF SeenIsRecent
<1>5. CASE ~(Len(seen) < SeenCap)
  <2>1. seen' = Append(Tail(seen), id) /\ Len(seen) = SeenCap /\ Len(routed) >= SeenCap
    BY <1>1, <1>2, <1>5 DEF Remember, SeenIsRecent
  <2>2. /\ Tail(seen) \in Seq(Files) /\ Len(Tail(seen)) = SeenCap - 1
        /\ \A k \in 1..(SeenCap - 1) : Tail(seen)[k] = seen[k + 1]
    BY <1>1, <2>1
  <2>3. seen' \in Seq(Files) /\ Len(seen') = SeenCap /\ seen'[SeenCap] = id
    BY <1>1, <2>1, <2>2
  <2>4. \A k \in 1..(SeenCap - 1) : seen'[k] = seen[k + 1]
    BY <1>1, <2>1, <2>2
  <2>5. ASSUME NEW k \in 1..SeenCap PROVE seen'[k] = routed'[Len(routed') - SeenCap + k]
    <3>1. CASE k = SeenCap
      BY <1>1, <1>2, <2>3, <3>1
    <3>2. CASE k < SeenCap
      <4> DEFINE n == k + 1
      <4>a. n \in 1..SeenCap
        BY <1>1, <3>2
      <4> HIDE DEF n
      <4>b. seen[n] = routed[Len(routed) - SeenCap + n]
        BY <2>1, <4>a DEF SeenIsRecent
      <4>1. seen[k + 1] = routed[Len(routed) - SeenCap + (k + 1)]
        BY <4>b DEF n
      <4>2. Len(routed) - SeenCap + (k + 1) \in 1..Len(routed)
        BY <1>1, <1>2, <2>1, <3>2
      <4>3. Len(routed) - SeenCap + (k + 1) = Len(routed') - SeenCap + k
        BY <1>1, <1>2
      <4> QED BY <1>1, <1>3, <2>4, <3>2, <4>1, <4>2, <4>3
    <3>3. k = SeenCap \/ k < SeenCap
      BY <1>1
    <3> QED BY <3>1, <3>2, <3>3
  <2>6. Len(routed') >= SeenCap
    BY <1>1, <1>2, <2>1
  <2>7. Len(seen') = IF Len(routed') < SeenCap THEN Len(routed') ELSE SeenCap
    BY <1>1, <1>2, <2>3, <2>6
  <2>8. \A k \in 1..Len(seen') : seen'[k] = routed'[Len(routed') - Len(seen') + k]
    BY <2>3, <2>5
  <2> QED BY <2>3, <2>7, <2>8 DEF SeenIsRecent
<1> QED BY <1>4, <1>5

\* An id that is not in the history was not routed lately.
LEMMA NewIdIsFar ==
  ASSUME NEW id \in Files, seen \in Seq(Files), routed \in Seq(Files),
         SeenIsRecent, RepeatsAreFar, ~Contains(seen, id), routed' = Append(routed, id)
  PROVE  RepeatsAreFar'
<1>1. SeenCap \in Nat \ {0} /\ Len(seen) \in Nat
  BY DispatcherAssumption
<1>2. Len(routed') = Len(routed) + 1 /\ Len(routed) \in Nat /\ routed'[Len(routed) + 1] = id
  OBVIOUS
<1>3. \A k \in 1..Len(routed) : routed'[k] = routed[k]
  OBVIOUS
<1>4. SUFFICES ASSUME NEW i \in 1..Len(routed'), NEW j \in 1..Len(routed'),
                      i < j, routed'[i] = routed'[j]
               PROVE  j - i > SeenCap
  BY DEF RepeatsAreFar
<1>5. CASE j <= Len(routed)
  BY <1>2, <1>3, <1>4, <1>5 DEF RepeatsAreFar
<1>6. CASE j = Len(routed) + 1
  <2>1. i \in 1..Len(routed) /\ routed[i] = id
    BY <1>2, <1>3, <1>4, <1>6
  <2>2. SUFFICES ASSUME j - i <= SeenCap PROVE FALSE
    BY <1>1, <1>2, <1>6
  <2> DEFINE k == i - (Len(routed) - Len(seen))
  <2>3. k \in 1..Len(seen)
    BY <1>1, <1>2, <1>6, <2>1, <2>2 DEF SeenIsRecent
  <2>4. Len(routed) - Len(seen) + k = i
    BY <1>1, <1>2, <2>1
  <2>5. seen[k] = id
    BY <2>1, <2>3, <2>4 DEF SeenIsRecent
  <2> QED BY <2>3, <2>5 DEF Contains
<1>7. j <= Len(routed) \/ j = Len(routed) + 1
  BY <1>2
<1> QED BY <1>5, <1>6, <1>7

\* Only Route touches the history and what was routed.
LEMMA HistoryStep ==
  ASSUME HInv, [Next]_vars
  PROVE  HInv'
<1>1. TypeInv'
  BY TypeStep DEF HInv
<1>2. CASE Route
  <2> DEFINE id == sent[First].id
  <2>1. ~Contains(seen, id) /\ Remember(id) /\ routed' = Append(routed, id)
    BY <1>2 DEF Route
  <2>2. id \in Files
    <3>1. First \in 1..Len(sent)
      BY <1>2 DEF Route, HInv, TypeInv, TypeOK
    <3>2. sent[First] \in Message
      BY <3>1 DEF HInv, TypeInv, TypeOK
    <3> QED BY <3>2 DEF Message
  <2> HIDE DEF id
  <2>3. seen \in Seq(Files) /\ routed \in Seq(Files)
    BY DEF HInv, TypeInv, TypeOK
  <2>4. SeenIsRecent'
    BY <2>1, <2>2, <2>3, RememberKeepsRecent DEF HInv
  <2>5. RepeatsAreFar'
    BY <2>1, <2>2, <2>3, NewIdIsFar DEF HInv
  <2> QED BY <1>1, <2>4, <2>5 DEF HInv
<1>3. CASE ~Route
  <2>1. UNCHANGED <<seen, routed>>
    BY <1>3 DEF Next, PollStep, WriteTmp, Rename, PeerSweeps, IntervalTick, WakeUp, StatDir,
       ListDir, Discard, Routed, PollEnds, StopCalled, StopReturns, Goto, vars, pollVars
  <2> QED BY <1>1, <2>1 DEF HInv, SeenIsRecent, RepeatsAreFar
<1> QED BY <1>2, <1>3

\* Whatever is sent twice, fails or is left behind by a poll that a handler
\* ended: two handlings of one message are more than SeenCap apart, so that
\* none is handled twice as long as the history has not dropped an id.
THEOREM HistorySuffices ==
  Spec => [](RepeatsAreFar /\ (Len(routed) <= SeenCap => RoutedOnce))
<1>1. Init => HInv
  BY TypeInit, DispatcherAssumption DEF Init, HInv, SeenIsRecent, RepeatsAreFar
<1>2. HInv /\ [Next]_vars => HInv'
  BY HistoryStep
<1>3. HInv => RepeatsAreFar /\ (Len(routed) <= SeenCap => RoutedOnce)
  <2> SUFFICES ASSUME HInv, Len(routed) <= SeenCap,
                      NEW i \in 1..Len(routed), NEW j \in 1..Len(routed),
                      routed[i] = routed[j], i # j
               PROVE  FALSE
    BY DEF HInv, RoutedOnce
  <2>1. SeenCap \in Nat /\ Len(routed) \in Nat
    BY DispatcherAssumption DEF HInv, TypeInv, TypeOK
  <2>2. \A p, q \in 1..Len(routed) : p < q /\ routed[p] = routed[q] => q - p > SeenCap
    BY DEF HInv, RepeatsAreFar
  <2>3. CASE i < j
    BY <2>1, <2>2, <2>3
  <2>4. CASE j < i
    BY <2>1, <2>2, <2>4
  <2> QED BY <2>3, <2>4
<1> QED
  BY <1>1, <1>2, <1>3, PTL DEF Spec
=============================================================================
