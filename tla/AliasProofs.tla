------------------------------ MODULE AliasProofs ------------------------------
(***************************************************************************)
(* Names: types, SerialNamesAreUnique, LiveNameIsKept and                  *)
(* AgedClaimIsReclaimed, for any sessions, sweepers, lines and runs.       *)
(*                                                                         *)
(* Why they hold.  A session tries only names that nobody it saw alive     *)
(* has, and whoever it saw keeps its name (LifeOK, ViewOK); that is        *)
(* LiveNameIsKept.                                                         *)
(*                                                                         *)
(* Uniqueness cannot rest on that, as sessions start together: it rests on *)
(* the claim.  An owner written there is the session that has the name     *)
(* (ClaimOK).  A sweep takes a claim for old only when its owner has left  *)
(* or died (AgedOK: the grace), or has not been written yet, and that is   *)
(* the overlap which "clean" excludes.  So from its mkdir on nobody else   *)
(* has the directory (Held, Sole), and a sweep never removes one that      *)
(* somebody holds (Doomed).                                                *)
(*                                                                         *)
(* What a restarted session is owed is safe from the moment it starts:     *)
(* nobody else starts, its sweep finds the old claim and removes it, and   *)
(* the name is the first that it tries (AllOwed).                          *)
(***************************************************************************)
EXTENDS Alias, TLAPS, WellFoundedInduction

\* Where a session has a candidate, and where it has or had a name.
Trying == {"read", "owner", "undo"}
Named  == {"register", "up", "leaving", "releasing", "gone", "dead"}

\* A session has its name from its claim on, and tries one that nobody it saw has.
LifeOK ==
  \A s \in Sessions :
    /\ name[s] # NoName => pc[s] \in Named
    /\ pc[s] \in Named \ {"dead"} => name[s] # NoName
    /\ pc[s] \in Trying => todo[s] # <<>> /\ ~Skipped(s, Head(todo[s]))
    /\ heir[s] # NoSession => name[heir[s]] # NoName

\* The sessions one has seen are through with their start.
ViewOK ==
  \A t \in Sessions : \A s \in view[t] :
    /\ name[s] # NoName /\ pc[s] # "register"
    /\ pc[t] \in {"register", "up"} => name[s] # name[t]

\* A claim with an owner has the owner's name.
ClaimOK == \A n \in Name, s \in Sessions : claim[n] = s => pc[s] \in Named /\ name[s] = n

\* The claim of a session that registers is young, and a sweep takes none for old
\* whose owner may still come up.
AgedOK ==
  /\ \A s \in aged : pc[s] \in Named \ {"register"}
  /\ \A u \in Sessions : \A s \in sweep[u].old \ sweep[u].live :
        pc[s] \in {"leaving", "releasing", "gone", "dead"}

\* No sweep is under way while a claim is written or released.
Apart ==
  \A u, s \in Sessions :
    sweep[u] # NoSweep => pc[s] \notin {"owner", "undo", "leaving", "releasing"}

\* The claim of a session that is up, or registers, names it; the directory of one
\* that has just made it has no owner.
Held ==
  \A s \in Sessions :
    /\ pc[s] \in {"register", "up", "releasing"} => claim[name[s]] = s
    /\ pc[s] = "owner" => claim[Head(todo[s])] = Bare
    /\ pc[s] # "undo"

\* Only one session has made the directory of a name.
Sole ==
  \A s, t \in Sessions :
    pc[s] = "owner" /\ pc[t] = "owner" /\ Head(todo[s]) = Head(todo[t]) => s = t

\* What a sweep is about to remove has no owner, or one that is past the grace.
Doomed ==
  \A u \in Sessions :
    LET n == sweep[u].doomed
    IN  n # NoName => \/ claim[n] \in {Absent, Bare}
                      \/ claim[n] \in sweep[u].old \ sweep[u].live

\* What holds as long as no sweep has met a claim that is written or released.
CleanOK == Apart /\ Held /\ Sole /\ Doomed

\* While the predecessor p is owed its name n: its claim is there until the sweep
\* removes it, nobody else starts, and n is the first that is tried.
OwedOK(s, p, n) ==
  /\ p # NoSession /\ pc[p] = "dead" /\ n # NoName
  /\ \A t \in view[s] : name[t] # n
  /\ pc[s] \in Starting => \A t \in Sessions : t # s => pc[t] \notin Starting
  /\ pc[s] = "sweep" => \/ claim[n] = Absent
                         \/ /\ claim[n] = p /\ p \in sweep[s].old \ sweep[s].live
                            /\ n \in sweep[s].left \cup {sweep[s].doomed}
  /\ pc[s] = "mkdir" => claim[n] = Absent /\ todo[s] # <<>> /\ Head(todo[s]) = n
  /\ pc[s] \notin {"off", "read"}
  /\ pc[s] \in {"owner", "undo"} => Head(todo[s]) = n
  /\ pc[s] \in {"register", "up"} => name[s] = n

\* That holds of each session that is owed a name.
AllOwed ==
  \A t \in Sweepers \cap owed :
    /\ heir[t] # NoSession
    /\ \A p \in Sessions, n \in Name \cup {NoName} :
         p = heir[t] /\ n = name[p] => OwedOK(t, p, n)

\* All of it is inductive.
IInv == /\ TypeOK /\ LifeOK /\ ViewOK /\ ClaimOK /\ AgedOK
        /\ clean => CleanOK
        /\ AllOwed

----------------------------------------------------------------------------
(* Lists *)

\* A set of numbers that has a member has a least one.
LEMMA LeastNumber ==
  ASSUME NEW S, S \subseteq Nat, S # {}
  PROVE  \E n \in S : \A k \in S : n <= k
<1> DEFINE Less == OpToRel(<, Nat)
<1>1. IsWellFoundedOn(Less, Nat)
  BY NatLessThanWellFounded
<1>2. \A a, b \in Nat : a < b => <<a, b>> \in Less
  BY Zenon DEF OpToRel
<1> HIDE DEF Less
<1>3. PICK n \in S : \A k \in S : ~(<<k, n>> \in Less)
  BY <1>1, WFMin
<1>4. ASSUME NEW k \in S PROVE n <= k
  <2>1. k \in Nat /\ n \in Nat
    BY Zenon
  <2>2. ~(k < n)
    BY <1>2, <1>3, <2>1, Zenon
  <2> QED BY <2>1, <2>2
<1> QED BY <1>4, Zenon

\* Induction over the naturals, for membership of a set.
LEMMA SetInduction ==
  ASSUME NEW S, 0 \in S, \A n \in Nat : n \in S => n + 1 \in S
  PROVE  Nat \subseteq S
<1> SUFFICES ASSUME Nat \ S # {} PROVE FALSE
  OBVIOUS
<1>1. PICK n \in Nat \ S : \A k \in Nat \ S : n <= k
  BY LeastNumber
<1>2. n - 1 \in Nat /\ ~(n <= n - 1) /\ (n - 1) + 1 = n
  BY <1>1
<1>3. n - 1 \in S
  BY <1>1, <1>2
<1> QED BY <1>1, <1>2, <1>3

\* FlattenSeq makes one sequence of many.
LEMMA FlattenSeqType ==
  ASSUME NEW T, NEW q \in Seq(Seq(T))
  PROVE  FlattenSeq(q) \in Seq(T)
<1> DEFINE Equation(g, n) ==
             g = [i \in 1..n |-> IF i = 1 THEN q[i] ELSE g[i - 1] \o q[i]]
           S == {n \in Nat : n <= Len(q) => \E g : Equation(g, n)}
<1>1. 0 \in S
  <2> DEFINE e == [i \in 1..0 |-> q[i]]
  <2>1. Equation(e, 0)
    OBVIOUS
  <2> HIDE DEF Equation
  <2> QED BY <2>1
<1> HIDE DEF Equation
<1>2. ASSUME NEW n \in Nat, n \in S PROVE n + 1 \in S
  <2> SUFFICES ASSUME n + 1 <= Len(q) PROVE \E h : Equation(h, n + 1)
    OBVIOUS
  <2>1. PICK g : Equation(g, n)
    BY <1>2
  <2> DEFINE Next1(k, i) == IF i = 1 THEN q[i] ELSE k[i - 1] \o q[i]
             h == [i \in 1 .. n + 1 |-> IF i <= n THEN g[i] ELSE Next1(g, i)]
  <2>2. \A i \in 1..n : g[i] = Next1(g, i)
    BY <2>1 DEF Equation
  <2>3. \A i \in 1 .. n + 1 : i > 1 => i - 1 \in 1 .. n
    OBVIOUS
  <2>4. \A i \in 1 .. n : h[i] = g[i]
    OBVIOUS
  <2>5. \A i \in 1 .. n + 1 : h[i] = Next1(g, i)
    BY <2>2
  <2> HIDE DEF h
  <2>6. \A i \in 1 .. n + 1 : h[i] = Next1(h, i)
    BY <2>3, <2>4, <2>5
  <2>7. h = [i \in 1 .. n + 1 |-> h[i]]
    BY DEF h
  <2>8. Equation(h, n + 1)
    BY <2>6, <2>7 DEF Equation
  <2> QED BY <2>8
<1>3. Nat \subseteq S
  <2> HIDE DEF S
  <2> QED BY <1>1, <1>2, SetInduction
<1>4. \E g : Equation(g, Len(q))
  BY <1>3
<1> DEFINE flatten == CHOOSE g : Equation(g, Len(q))
<1>5. Equation(flatten, Len(q))
  <2> QED BY <1>4
<1>6. FlattenSeq(q) = IF Len(q) = 0 THEN q ELSE flatten[Len(q)]
  BY DEF FlattenSeq, Equation
<1> HIDE DEF flatten
<1>a. \A i \in 1..Len(q) : flatten[i] = IF i = 1 THEN q[i] ELSE flatten[i - 1] \o q[i]
  BY <1>5 DEF Equation
<1> DEFINE R == {n \in Nat : n \in 1..Len(q) => flatten[n] \in Seq(T)}
<1>7. 0 \in R
  OBVIOUS
<1>8. ASSUME NEW n \in Nat, n \in R PROVE n + 1 \in R
  <2> SUFFICES ASSUME n + 1 \in 1..Len(q) PROVE flatten[n + 1] \in Seq(T)
    OBVIOUS
  <2>1. flatten[n + 1] = IF n + 1 = 1 THEN q[n + 1] ELSE flatten[n] \o q[n + 1]
    BY <1>a
  <2>2. q[n + 1] \in Seq(T)
    OBVIOUS
  <2>3. CASE n = 0
    BY <2>1, <2>2, <2>3
  <2>4. CASE n # 0
    BY <1>8, <2>1, <2>2, <2>4
  <2> QED BY <2>3, <2>4
<1>9. Nat \subseteq R
  <2> HIDE DEF R
  <2> QED BY <1>7, <1>8, SetInduction
<1>10. CASE Len(q) = 0
  BY <1>6, <1>10
<1>11. CASE Len(q) # 0
  BY <1>6, <1>9, <1>11
<1> QED BY <1>10, <1>11

\* The runs of a line are names.
LEMMA RunsType ==
  ASSUME NEW line \in 1..MaxLine, NEW from \in 1..2
  PROVE  Runs(line, from) \in Seq(Name)
  BY AliasAssumption DEF Runs, Name

\* So are the last candidates, but for lines that somebody has claimed.
LEMMA OtherChoicesType == OtherChoices \in Seq(Name \cup {NoName})
<1> DEFINE used  == {n.line : n \in {m \in Name : claim[m] # Absent}}
           first == [line \in 1..MaxLine |-> [line |-> line, run |-> 1]]
           left == [line \in 1..MaxLine |-> IF line \in used THEN NoName ELSE first[line]]
           later == [line \in 1..MaxLine |-> Runs(line, 2)]
<1>1. first \in Seq(Name) /\ left \in Seq(Name \cup {NoName})
  BY AliasAssumption DEF Name
<1>2. later \in Seq(Seq(Name))
  BY AliasAssumption, RunsType
<1> HIDE DEF later
<1>3. FlattenSeq(later) \in Seq(Name)
  BY <1>2, FlattenSeqType
<1>4. OtherChoices = left \o first \o FlattenSeq(later)
  BY DEF OtherChoices, later
<1> HIDE DEF first, left
<1>5. \A p \in Seq(Name) : p \in Seq(Name \cup {NoName})
  OBVIOUS
<1>6. left \o first \in Seq(Name \cup {NoName})
  BY <1>1, <1>5
<1> QED BY <1>3, <1>4, <1>5, <1>6
----------------------------------------------------------------------------
(* What the actions do, without the candidates *)

\* The actions of one session, as Next has them.
Step(s) == \/ Start(s) \/ StartStep(s) \/ SweepBegins(s) \/ SweepStep(s)
           \/ Shutdown(s) \/ ReleaseRead(s) \/ ReleaseRm(s) \/ Age(s) \/ Crash(s)

\* The domains of TypeOK.
Domains ==
  /\ claim \in [Name -> {Absent, Bare} \cup Sessions] /\ aged \subseteq Sessions
  /\ pc \in [Sessions -> PC] /\ view \in [Sessions -> SUBSET Sessions]
  /\ heir \in [Sessions -> Sessions \cup {NoSession}]
  /\ todo \in [Sessions -> Candidates] /\ last \subseteq Sessions
  /\ name \in [Sessions -> Name \cup {NoName}] /\ sweep \in [Sessions -> Sweep]
  /\ owed \subseteq Sessions

\* Steps that end "clean" began so, and leave no overlap.
LEMMA NoOverlap ==
  ASSUME NEW s \in Sessions, Step(s), clean'
  PROVE  clean /\ Apart'
<1>1. Track
  BY DEF Step, StartStep, SweepStep, Start, BeginClaim, WidenChoice, NoneAvailable, Mkdir,
     ReadOwner, WriteOwner, Undo, Register, SweepBegins, SweepReads, SweepRemoves, SweepEnds,
     Shutdown, ReleaseRead, ReleaseRm, Age, Crash
<1> QED BY <1>1 DEF Track, Apart

\* NoName is no name.
LEMMA NoNameIsNone == NoName \notin Name
  BY DEF NoName, Name

\* A session that tries a name tries one, and nobody it saw has it.
LEMMA HeadIsFree ==
  ASSUME IInv, NEW s \in Sessions, pc[s] \in Trying
  PROVE  /\ todo[s] \in Candidates /\ todo[s] # <<>> /\ Head(todo[s]) \in Name
         /\ \A t \in view[s] : name[t] # Head(todo[s])
<1>1. todo[s] \in Candidates /\ todo[s] # <<>> /\ ~Skipped(s, Head(todo[s]))
  BY DEF IInv, TypeOK, LifeOK, Candidates
<1>2. Head(todo[s]) \in Name \cup {NoName}
  BY <1>1 DEF Candidates
<1> QED
  BY <1>1, <1>2 DEF Skipped, HeldByOther

\* Mkdir: n is the next candidate.
Tries(s, q, n) ==
  /\ pc[s] = "mkdir" /\ q # <<>> /\ Head(q) = n /\ \A t \in view[s] : name[t] # n
  /\ todo[s] # <<>> /\ ~Skipped(s, Head(todo[s])) => n = Head(todo[s])
  /\ todo' = [todo EXCEPT ![s] = q]
  /\ \/ /\ claim[n] = Absent /\ claim' = [claim EXCEPT ![n] = Bare]
        /\ pc' = [pc EXCEPT ![s] = "owner"]
     \/ /\ claim[n] # Absent /\ UNCHANGED claim
        /\ pc' = [pc EXCEPT ![s] = "read"]
  /\ UNCHANGED <<aged, view, heir, last, name, sweep, owed>>

\* Mkdir passes over what is skipped, up to a name.
LEMMA MkdirTries ==
  ASSUME IInv, NEW s \in Sessions, Mkdir(s)
  PROVE  \E q \in Candidates, n \in Name : Tries(s, q, n)
<1> DEFINE q0 == todo[s]
<1>1. PICK i \in DOMAIN q0 :
        /\ ~Skipped(s, q0[i]) /\ \A j \in 1 .. i - 1 : Skipped(s, q0[j])
        /\ todo' = [todo EXCEPT ![s] = SubSeq(q0, i, Len(q0))]
        /\ UNCHANGED <<aged, view, heir, last, name, sweep, owed>> /\ pc[s] = "mkdir"
        /\ IF claim[q0[i]] = Absent
           THEN /\ claim' = [claim EXCEPT ![q0[i]] = Bare]
                /\ pc' = [pc EXCEPT ![s] = "owner"]
           ELSE UNCHANGED claim /\ pc' = [pc EXCEPT ![s] = "read"]
  BY DEF IInv, TypeOK, Mkdir, Goto
<1>2. q0 \in Candidates
  BY DEF IInv, TypeOK, Candidates
<1> HIDE DEF q0
<1>3. i \in 1..Len(q0) /\ q0[i] \in Name
  BY <1>1, <1>2 DEF Skipped, Candidates
<1>4. /\ SubSeq(q0, i, Len(q0)) \in Candidates /\ SubSeq(q0, i, Len(q0)) # <<>>
      /\ Head(SubSeq(q0, i, Len(q0))) = q0[i]
  BY <1>2, <1>3 DEF Candidates
<1>5. ASSUME q0 # <<>>, ~Skipped(s, Head(q0)) PROVE q0[i] = Head(q0)
  <2>1. Head(q0) = q0[1]
    BY <1>2, <1>5 DEF Candidates
  <2>2. ~(1 \in 1 .. i - 1)
    BY <1>1, <1>5, <2>1
  <2> QED BY <1>3, <2>1, <2>2
<1>6. \A t \in view[s] : name[t] # q0[i]
  BY <1>1 DEF Skipped, HeldByOther
<1> QED
  BY <1>1, <1>3, <1>4, <1>5, <1>6 DEF q0, Tries

\* ReadOwner: n is the candidate, q the candidates left.
Looks(s, q, n) ==
  /\ pc[s] = "read" /\ n = Head(todo[s]) /\ \A t \in view[s] : name[t] # n
  /\ todo' = [todo EXCEPT ![s] = q]
  /\ \/ /\ claim[n] = s /\ name' = [name EXCEPT ![s] = n]
        /\ pc' = [pc EXCEPT ![s] = "register"] /\ last' = last \ {s}
     \/ /\ claim[n] # s /\ UNCHANGED <<name, last>>
        /\ pc' = [pc EXCEPT ![s] = "mkdir"]
  /\ UNCHANGED <<claim, aged, view, heir, sweep, owed>>

\* ReadOwner takes the name it looked at, or goes on behind it.
LEMMA ReadOwnerLooks ==
  ASSUME IInv, NEW s \in Sessions, ReadOwner(s)
  PROVE  \E q \in Candidates, n \in Name : Looks(s, q, n)
<1>1. pc[s] \in Trying
  BY DEF ReadOwner, Trying
<1>2. <<>> \in Candidates /\ Tail(todo[s]) \in Candidates
  BY <1>1, HeadIsFree DEF Candidates
<1> HIDE DEF Candidates
<1> QED
  BY <1>1, <1>2, HeadIsFree
  DEF ReadOwner, Takes, Forget, Goto, IInv, TypeOK, Looks

\* WriteOwner, for the candidate n: it succeeds where there is a directory.
Writes(s, n) ==
  /\ pc[s] = "owner" /\ n = Head(todo[s]) /\ \A t \in view[s] : name[t] # n
  /\ \/ /\ claim[n] # Absent /\ claim' = [claim EXCEPT ![n] = s]
        /\ name' = [name EXCEPT ![s] = n] /\ pc' = [pc EXCEPT ![s] = "register"]
        /\ todo' = [todo EXCEPT ![s] = <<>>] /\ last' = last \ {s}
     \/ /\ claim[n] = Absent /\ UNCHANGED <<claim, todo, last, name>>
        /\ pc' = [pc EXCEPT ![s] = "undo"]
  /\ UNCHANGED <<aged, view, heir, sweep, owed>>

\* WriteOwner takes the name whose directory was made.
LEMMA WriteOwnerWrites ==
  ASSUME IInv, NEW s \in Sessions, WriteOwner(s)
  PROVE  \E n \in Name : Writes(s, n)
<1>1. pc[s] \in Trying
  BY DEF WriteOwner, Trying
<1> QED
  BY <1>1, HeadIsFree DEF WriteOwner, Takes, Forget, Goto, Writes

\* There may be no candidates left.
LEMMA NoChoices == <<>> \in Candidates
  BY DEF Candidates

\* The line of a sibling, if there is one.
LEMMA SiblingRuns ==
  ASSUME IInv, NEW s \in Sessions, NEW sibling \in view[s] \cup {NoSession}
  PROVE  (IF sibling = NoSession THEN <<>> ELSE Runs(name[sibling].line, 1)) \in Candidates
<1>1. CASE sibling = NoSession
  BY <1>1, NoChoices
<1>2. CASE sibling # NoSession
  <2>1. name[sibling] \in Name
    BY <1>2 DEF IInv, TypeOK, ViewOK
  <2>2. name[sibling].line \in 1..MaxLine
    BY <2>1 DEF Name
  <2>3. Runs(name[sibling].line, 1) \in Seq(Name)
    BY <2>2, RunsType
  <2> QED BY <1>2, <2>3 DEF Candidates
<1> QED BY <1>1, <1>2

\* previousAlias and the line of a sibling are names.
LEMMA FirstChoicesType ==
  ASSUME IInv, NEW s \in Sessions, NEW sibling \in view[s] \cup {NoSession}
  PROVE  FirstChoices(s, sibling) \in Candidates
<1> DEFINE mine == IF heir[s] = NoSession THEN <<>> ELSE <<name[heir[s]]>>
           line == IF sibling = NoSession THEN <<>> ELSE Runs(name[sibling].line, 1)
<1>1. mine \in Candidates
  <2>1. CASE heir[s] = NoSession
    BY <2>1, NoChoices
  <2>2. CASE heir[s] # NoSession
    <3>1. name[heir[s]] \in Name \cup {NoName}
      BY <2>2 DEF IInv, TypeOK
    <3> QED BY <2>2, <3>1 DEF Candidates
  <2> QED BY <2>1, <2>2
<1>2. line \in Candidates
  BY SiblingRuns
<1> HIDE DEF mine, line
<1>3. mine \o line \in Candidates
  BY <1>1, <1>2 DEF Candidates
<1> QED BY <1>3 DEF FirstChoices, mine, line

\* A session that continues another one tries that one's name first.
LEMMA PreviousComesFirst ==
  ASSUME IInv, NEW s \in Sessions, NEW sibling \in view[s] \cup {NoSession},
         NEW n \in Name \cup {NoName}, heir[s] # NoSession, name[heir[s]] = n
  PROVE  FirstChoices(s, sibling) # <<>> /\ Head(FirstChoices(s, sibling)) = n
<1> DEFINE line == IF sibling = NoSession THEN <<>> ELSE Runs(name[sibling].line, 1)
<1>1. line \in Candidates
  BY SiblingRuns
<1>2. FirstChoices(s, sibling) = <<n>> \o line
  BY DEF FirstChoices
<1> HIDE DEF line
<1>3. <<n>> \o line # <<>> /\ Head(<<n>> \o line) = n
  BY <1>1 DEF Candidates
<1> QED BY <1>2, <1>3

----------------------------------------------------------------------------
(* Each part of the invariant, one action at a time *)

\* Every step keeps the domains.
LEMMA DomainsStep ==
  ASSUME IInv, NEW s \in Sessions, Step(s)
  PROVE  Domains'
<1> USE AliasAssumption
<1>1. CASE Start(s)
  <2>1. PICK p \in {NoSession} \cup {t \in Sessions : name[t] # NoName} :
          /\ heir' = [heir EXCEPT ![s] = p]
          /\ owed' = {t \in owed : pc[t] \notin Starting} \cup (IF Owed(p) THEN {s} ELSE {})
    BY <1>1 DEF Start
  <2>2. heir' \in [Sessions -> Sessions \cup {NoSession}] /\ owed' \subseteq Sessions
    BY <2>1 DEF IInv, TypeOK
  <2>3. sweep' \in [Sessions -> Sweep]
    <3> DEFINE r == [live |-> Live, old |-> aged, left |-> {n \in Name : claim[n] # Absent},
                     doomed |-> NoName]
    <3>1. r \in Sweep
      BY DEF IInv, TypeOK, Sweep, Live
    <3>a. s \in Sweepers => sweep' = [sweep EXCEPT ![s] = r]
      BY <1>1 DEF Start, BeginSweep
    <3> HIDE DEF r
    <3>2. CASE s \in Sweepers
      BY <3>1, <3>a, <3>2 DEF IInv, TypeOK
    <3>3. CASE s \notin Sweepers
      BY <1>1, <3>3 DEF Start, IInv, TypeOK
    <3> QED BY <3>2, <3>3
  <2>4. view' \in [Sessions -> SUBSET Sessions] /\ pc' \in [Sessions -> PC]
    BY <1>1 DEF Start, Goto, Live, IInv, TypeOK, PC, Starting
  <2> QED
    BY <1>1, <2>2, <2>3, <2>4 DEF Start, Domains, IInv, TypeOK
<1>2. CASE BeginClaim(s)
  <2>1. PICK sibling \in view[s] \cup {NoSession} :
          todo' = [todo EXCEPT ![s] = FirstChoices(s, sibling)]
    BY <1>2 DEF BeginClaim
  <2>2. FirstChoices(s, sibling) \in Candidates
    BY FirstChoicesType
  <2>3. todo' \in [Sessions -> Candidates]
    BY <2>1, <2>2 DEF IInv, TypeOK
  <2>4. pc' \in [Sessions -> PC]
    BY <1>2 DEF BeginClaim, Goto, IInv, TypeOK, PC, Starting
  <2> QED
    BY <1>2, <2>3, <2>4 DEF BeginClaim, Domains, IInv, TypeOK
<1>3. CASE WidenChoice(s)
  <2>1. OtherChoices \in Candidates
    BY OtherChoicesType DEF Candidates
  <2> QED
    BY <1>3, <2>1 DEF WidenChoice, Domains, IInv, TypeOK
<1>4. CASE NoneAvailable(s)
  <2>1. pc' \in [Sessions -> PC]
    BY <1>4 DEF NoneAvailable, Goto, IInv, TypeOK, PC
  <2>2. todo' \in [Sessions -> Candidates] /\ last' \subseteq Sessions
    BY <1>4, NoChoices DEF NoneAvailable, Forget, IInv, TypeOK
  <2> QED
    BY <1>4, <2>1, <2>2 DEF NoneAvailable, Domains, IInv, TypeOK
<1>5. CASE Mkdir(s)
  <2>1. PICK q \in Candidates, n \in Name : Tries(s, q, n)
    BY <1>5, MkdirTries
  <2> QED
    BY <2>1, NoNameIsNone DEF IInv, TypeOK, Domains, LifeOK, ViewOK, Skipped, Sweep,
       NoSweep, PC, Starting, Named, Live, Tries
<1>6. CASE ReadOwner(s)
  <2>1. PICK q \in Candidates, n \in Name : Looks(s, q, n)
    BY <1>6, ReadOwnerLooks
  <2>2. pc' \in [Sessions -> PC]
    BY <2>1 DEF Looks, IInv, TypeOK, PC, Starting
  <2>3. name' \in [Sessions -> Name \cup {NoName}] /\ last' \subseteq Sessions
    BY <2>1 DEF Looks, IInv, TypeOK
  <2> QED
    BY <2>1, <2>2, <2>3 DEF Looks, Domains, IInv, TypeOK
<1>7. CASE WriteOwner(s)
  <2>1. PICK n \in Name : Writes(s, n)
    BY <1>7, WriteOwnerWrites
  <2>2. pc' \in [Sessions -> PC]
    BY <2>1 DEF Writes, IInv, TypeOK, PC, Starting
  <2>3. name' \in [Sessions -> Name \cup {NoName}] /\ last' \subseteq Sessions
    BY <2>1 DEF Writes, IInv, TypeOK
  <2>4. claim' \in [Name -> {Absent, Bare} \cup Sessions] /\ todo' \in [Sessions -> Candidates]
    BY <2>1, NoChoices DEF Writes, IInv, TypeOK
  <2> QED
    BY <2>1, <2>2, <2>3, <2>4 DEF Writes, Domains, IInv, TypeOK
<1>8. CASE Undo(s)
  <2>1. pc' \in [Sessions -> PC]
    BY <1>8 DEF Undo, Goto, IInv, TypeOK, PC
  <2>2. todo' \in [Sessions -> Candidates] /\ last' \subseteq Sessions
    BY <1>8, NoChoices DEF Undo, Forget, IInv, TypeOK
  <2> QED
    BY <1>8, <2>1, <2>2 DEF Undo, Domains, IInv, TypeOK
<1>9. CASE Register(s)
  BY <1>9 DEF IInv, TypeOK, Domains, PC, Register, Goto
<1>10. CASE SweepBegins(s)
  BY <1>10 DEF IInv, TypeOK, Domains, Sweep, Live, SweepBegins, BeginSweep
<1>11. CASE SweepReads(s)
  <2>1. PICK n \in sweep[s].left :
          sweep' = [sweep EXCEPT
            ![s].left = @ \ {n},
            ![s].doomed = IF \/ claim[n] \in {Absent, Bare}
                             \/ claim[n] \in sweep[s].old \ sweep[s].live
                          THEN n ELSE NoName]
    BY <1>11 DEF SweepReads
  <2>a. sweep[s] \in Sweep /\ n \in Name
    BY DEF IInv, TypeOK, Sweep
  <2>b. sweep'[s] \in Sweep
    BY <2>1, <2>a DEF IInv, TypeOK, Sweep
  <2>2. sweep' \in [Sessions -> Sweep]
    BY <2>1, <2>b DEF IInv, TypeOK
  <2> QED
    BY <1>11, <2>2 DEF SweepReads, Domains, IInv, TypeOK
<1>12. CASE SweepRemoves(s)
  <2>3. sweep[s] \in Sweep /\ sweep' = [sweep EXCEPT ![s].doomed = NoName]
    BY <1>12 DEF SweepRemoves, IInv, TypeOK
  <2>a. sweep'[s] \in Sweep
    BY <2>3 DEF IInv, TypeOK, Sweep
  <2>1. sweep' \in [Sessions -> Sweep]
    BY <1>12, <2>a DEF SweepRemoves, IInv, TypeOK
  <2>2. claim' \in [Name -> {Absent, Bare} \cup Sessions]
    BY <1>12 DEF SweepRemoves, IInv, TypeOK
  <2> QED
    BY <1>12, <2>1, <2>2 DEF SweepRemoves, Domains, IInv, TypeOK
<1>13. CASE SweepEnds(s)
  BY <1>13 DEF IInv, TypeOK, Domains, Sweep, NoSweep, SweepEnds
<1>14. CASE Shutdown(s)
  BY <1>14 DEF IInv, TypeOK, Domains, PC, Shutdown, Goto
<1>15. CASE ReleaseRead(s)
  BY <1>15 DEF IInv, TypeOK, Domains, PC, ReleaseRead, Goto
<1>16. CASE ReleaseRm(s)
  BY <1>16 DEF IInv, TypeOK, Domains, PC, ReleaseRm, Goto
<1>17. CASE Age(s)
  BY <1>17 DEF IInv, TypeOK, Domains, Age
<1>18. CASE Crash(s)
  <2>1. pc' \in [Sessions -> PC]
    BY <1>18 DEF Crash, Goto, IInv, TypeOK, PC
  <2>2. sweep' \in [Sessions -> Sweep] /\ view' \in [Sessions -> SUBSET Sessions]
    BY <1>18 DEF Crash, IInv, TypeOK, Sweep, NoSweep
  <2>3. todo' \in [Sessions -> Candidates] /\ last' \subseteq Sessions
    BY <1>18, NoChoices DEF Crash, Forget, IInv, TypeOK
  <2> QED
    BY <1>18, <2>1, <2>2, <2>3 DEF Crash, Domains, IInv, TypeOK
<1> QED
  BY <1>1, <1>2, <1>3, <1>4, <1>5, <1>6, <1>7, <1>8, <1>9, <1>10, <1>11, <1>12, <1>13,
     <1>14, <1>15, <1>16, <1>17, <1>18 DEF Step, StartStep, SweepStep

\* A name is taken together with the claim, and kept; nobody that a session saw
\* takes another one.
LEMMA LifeOKStep ==
  ASSUME IInv, NEW s \in Sessions, Step(s)
  PROVE  LifeOK'
<1> USE AliasAssumption
<1>1. CASE Start(s)
  BY <1>1 DEF IInv, LifeOK, Named, Trying, Skipped, HeldByOther, Start, Goto
<1>2. CASE BeginClaim(s)
  BY <1>2 DEF IInv, LifeOK, Named, Trying, Skipped, HeldByOther, BeginClaim, Goto
<1>3. CASE WidenChoice(s)
  BY <1>3 DEF IInv, LifeOK, Trying, Skipped, HeldByOther, WidenChoice
<1>4. CASE NoneAvailable(s)
  BY <1>4 DEF IInv, LifeOK, Named, Trying, Skipped, HeldByOther, NoneAvailable, Goto,
     Forget
<1>5. CASE Mkdir(s)
  <2>1. PICK q \in Candidates, n \in Name : Tries(s, q, n)
    BY <1>5, MkdirTries
  <2> QED
    BY <2>1, NoNameIsNone DEF IInv, TypeOK, LifeOK, Named, Skipped, HeldByOther, Tries
<1>6. CASE ReadOwner(s)
  <2>1. PICK q \in Candidates, n \in Name : Looks(s, q, n)
    BY <1>6, ReadOwnerLooks
  <2> QED
    BY <2>1, NoNameIsNone DEF IInv, TypeOK, LifeOK, ViewOK, Named, Trying, Skipped,
       HeldByOther, Looks
<1>7. CASE WriteOwner(s)
  <2>1. PICK n \in Name : Writes(s, n)
    BY <1>7, WriteOwnerWrites
  <2> QED
    BY <2>1, NoNameIsNone DEF IInv, TypeOK, LifeOK, ViewOK, Named, Trying, Skipped,
       HeldByOther, Writes
<1>8. CASE Undo(s)
  BY <1>8 DEF IInv, TypeOK, LifeOK, Named, Trying, Skipped, HeldByOther, Undo, Goto,
     Forget
<1>9. CASE Register(s)
  BY <1>9 DEF IInv, LifeOK, Named, Trying, Skipped, HeldByOther, Register, Goto
<1>10. CASE SweepBegins(s)
  BY <1>10 DEF IInv, LifeOK, Skipped, HeldByOther, SweepBegins
<1>11. CASE SweepReads(s)
  BY <1>11 DEF IInv, LifeOK, Skipped, HeldByOther, SweepReads
<1>12. CASE SweepRemoves(s)
  BY <1>12 DEF IInv, LifeOK, Skipped, HeldByOther, SweepRemoves
<1>13. CASE SweepEnds(s)
  BY <1>13 DEF IInv, LifeOK, Skipped, HeldByOther, SweepEnds
<1>14. CASE Shutdown(s)
  BY <1>14 DEF IInv, LifeOK, Named, Trying, Skipped, HeldByOther, Shutdown, Goto
<1>15. CASE ReleaseRead(s)
  BY <1>15 DEF IInv, LifeOK, Named, Trying, Skipped, HeldByOther, ReleaseRead, Goto
<1>16. CASE ReleaseRm(s)
  BY <1>16 DEF IInv, LifeOK, Named, Trying, Skipped, HeldByOther, ReleaseRm, Goto
<1>17. CASE Age(s)
  BY <1>17 DEF IInv, LifeOK, Skipped, HeldByOther, Age
<1>18. CASE Crash(s)
  BY <1>18 DEF IInv, TypeOK, LifeOK, Named, Trying, Skipped, HeldByOther, Crash, Goto,
     Forget
<1> QED
  BY <1>1, <1>2, <1>3, <1>4, <1>5, <1>6, <1>7, <1>8, <1>9, <1>10, <1>11, <1>12, <1>13,
     <1>14, <1>15, <1>16, <1>17, <1>18 DEF Step, StartStep, SweepStep

\* Who is seen when a session starts is live, and stays past its start.
LEMMA ViewOKStep ==
  ASSUME IInv, NEW s \in Sessions, Step(s)
  PROVE  ViewOK'
<1> USE AliasAssumption
<1>1. CASE Start(s)
  BY <1>1 DEF IInv, LifeOK, ViewOK, Named, Live, Start, Goto
<1>2. CASE BeginClaim(s)
  BY <1>2 DEF IInv, ViewOK, BeginClaim, Goto
<1>3. CASE WidenChoice(s)
  BY <1>3 DEF IInv, ViewOK, WidenChoice
<1>4. CASE NoneAvailable(s)
  BY <1>4 DEF IInv, ViewOK, NoneAvailable, Goto, Forget
<1>5. CASE Mkdir(s)
  <2>1. PICK q \in Candidates, n \in Name : Tries(s, q, n)
    BY <1>5, MkdirTries
  <2> QED
    BY <2>1, NoNameIsNone DEF IInv, TypeOK, ViewOK, Tries
<1>6. CASE ReadOwner(s)
  <2>1. PICK q \in Candidates, n \in Name : Looks(s, q, n)
    BY <1>6, ReadOwnerLooks
  <2> QED
    BY <2>1, NoNameIsNone DEF IInv, TypeOK, LifeOK, ViewOK, Named, Looks
<1>7. CASE WriteOwner(s)
  <2>1. PICK n \in Name : Writes(s, n)
    BY <1>7, WriteOwnerWrites
  <2> QED
    BY <2>1, NoNameIsNone DEF IInv, TypeOK, LifeOK, ViewOK, Named, Live, Writes
<1>8. CASE Undo(s)
  BY <1>8 DEF IInv, ViewOK, Undo, Goto
<1>9. CASE Register(s)
  BY <1>9 DEF IInv, ViewOK, Register, Goto
<1>10. CASE SweepBegins(s)
  BY <1>10 DEF IInv, ViewOK, SweepBegins
<1>11. CASE SweepReads(s)
  BY <1>11 DEF IInv, ViewOK, SweepReads
<1>12. CASE SweepRemoves(s)
  BY <1>12 DEF IInv, ViewOK, SweepRemoves
<1>13. CASE SweepEnds(s)
  BY <1>13 DEF IInv, ViewOK, SweepEnds
<1>14. CASE Shutdown(s)
  BY <1>14 DEF IInv, ViewOK, Shutdown, Goto
<1>15. CASE ReleaseRead(s)
  BY <1>15 DEF IInv, ViewOK, ReleaseRead, Goto
<1>16. CASE ReleaseRm(s)
  BY <1>16 DEF IInv, ViewOK, ReleaseRm, Goto
<1>17. CASE Age(s)
  BY <1>17 DEF IInv, ViewOK, Age
<1>18. CASE Crash(s)
  BY <1>18 DEF IInv, ViewOK, Crash, Goto
<1> QED
  BY <1>1, <1>2, <1>3, <1>4, <1>5, <1>6, <1>7, <1>8, <1>9, <1>10, <1>11, <1>12, <1>13,
     <1>14, <1>15, <1>16, <1>17, <1>18 DEF Step, StartStep, SweepStep

\* The owner is written by the session that takes the name.
LEMMA ClaimOKStep ==
  ASSUME IInv, NEW s \in Sessions, Step(s)
  PROVE  ClaimOK'
<1> USE AliasAssumption
<1>1. CASE Start(s)
  BY <1>1 DEF IInv, ClaimOK, Named, Start, Goto
<1>2. CASE BeginClaim(s)
  BY <1>2 DEF IInv, ClaimOK, Named, BeginClaim, Goto
<1>3. CASE WidenChoice(s)
  BY <1>3 DEF IInv, ClaimOK, WidenChoice
<1>4. CASE NoneAvailable(s)
  BY <1>4 DEF IInv, ClaimOK, Named, NoneAvailable, Goto, Forget
<1>5. CASE Mkdir(s)
  <2>1. PICK q \in Candidates, n \in Name : Tries(s, q, n)
    BY <1>5, MkdirTries
  <2> QED
    BY <2>1, NoNameIsNone DEF IInv, TypeOK, ClaimOK, Named, Tries
<1>6. CASE ReadOwner(s)
  <2>1. PICK q \in Candidates, n \in Name : Looks(s, q, n)
    BY <1>6, ReadOwnerLooks
  <2> QED
    BY <2>1, NoNameIsNone DEF IInv, TypeOK, ClaimOK, Named, Looks
<1>7. CASE WriteOwner(s)
  <2>1. PICK n \in Name : Writes(s, n)
    BY <1>7, WriteOwnerWrites
  <2> QED
    BY <2>1, NoNameIsNone DEF IInv, TypeOK, ClaimOK, Named, Writes
<1>8. CASE Undo(s)
  BY <1>8 DEF IInv, ClaimOK, Named, Undo, Goto
<1>9. CASE Register(s)
  BY <1>9 DEF IInv, ClaimOK, Named, Register, Goto
<1>10. CASE SweepBegins(s)
  BY <1>10 DEF IInv, ClaimOK, SweepBegins
<1>11. CASE SweepReads(s)
  BY <1>11 DEF IInv, ClaimOK, SweepReads
<1>12. CASE SweepRemoves(s)
  BY <1>12 DEF IInv, ClaimOK, SweepRemoves
<1>13. CASE SweepEnds(s)
  BY <1>13 DEF IInv, ClaimOK, SweepEnds
<1>14. CASE Shutdown(s)
  BY <1>14 DEF IInv, ClaimOK, Named, Shutdown, Goto
<1>15. CASE ReleaseRead(s)
  BY <1>15 DEF IInv, ClaimOK, Named, ReleaseRead, Goto
<1>16. CASE ReleaseRm(s)
  BY <1>16 DEF IInv, ClaimOK, Named, ReleaseRm, Goto
<1>17. CASE Age(s)
  BY <1>17 DEF IInv, ClaimOK, Age
<1>18. CASE Crash(s)
  BY <1>18 DEF IInv, ClaimOK, Named, Crash, Goto
<1> QED
  BY <1>1, <1>2, <1>3, <1>4, <1>5, <1>6, <1>7, <1>8, <1>9, <1>10, <1>11, <1>12, <1>13,
     <1>14, <1>15, <1>16, <1>17, <1>18 DEF Step, StartStep, SweepStep

\* A claim ages only after its owner has registered, and who is aged but not live
\* when a sweep begins does not come up again.
LEMMA AgedOKStep ==
  ASSUME IInv, NEW s \in Sessions, Step(s)
  PROVE  AgedOK'
<1> USE AliasAssumption
<1>1. CASE Start(s)
  BY <1>1 DEF IInv, TypeOK, LifeOK, ClaimOK, AgedOK, Named, Sweep, NoSweep, Starting,
     Live, Start, BeginSweep, Goto, Live
<1>2. CASE BeginClaim(s)
  BY <1>2 DEF IInv, AgedOK, Named, BeginClaim, Goto
<1>3. CASE WidenChoice(s)
  BY <1>3 DEF IInv, AgedOK, WidenChoice
<1>4. CASE NoneAvailable(s)
  BY <1>4 DEF IInv, AgedOK, Named, NoneAvailable, Goto, Forget
<1>5. CASE Mkdir(s)
  <2>1. PICK q \in Candidates, n \in Name : Tries(s, q, n)
    BY <1>5, MkdirTries
  <2> QED
    BY <2>1, NoNameIsNone DEF IInv, TypeOK, AgedOK, Named, Sweep, Tries
<1>6. CASE ReadOwner(s)
  <2>1. PICK q \in Candidates, n \in Name : Looks(s, q, n)
    BY <1>6, ReadOwnerLooks
  <2> QED
    BY <2>1, NoNameIsNone DEF IInv, TypeOK, AgedOK, Named, Sweep, Looks
<1>7. CASE WriteOwner(s)
  <2>1. PICK n \in Name : Writes(s, n)
    BY <1>7, WriteOwnerWrites
  <2> QED
    BY <2>1, NoNameIsNone DEF IInv, TypeOK, AgedOK, Named, Sweep, Writes
<1>8. CASE Undo(s)
  BY <1>8 DEF IInv, AgedOK, Named, Undo, Goto
<1>9. CASE Register(s)
  BY <1>9 DEF IInv, AgedOK, Register, Goto
<1>10. CASE SweepBegins(s)
  BY <1>10 DEF IInv, TypeOK, AgedOK, Named, Live, SweepBegins, BeginSweep
<1>11. CASE SweepReads(s)
  BY <1>11 DEF IInv, TypeOK, AgedOK, SweepReads
<1>12. CASE SweepRemoves(s)
  BY <1>12 DEF IInv, AgedOK, SweepRemoves
<1>13. CASE SweepEnds(s)
  BY <1>13 DEF IInv, AgedOK, NoSweep, SweepEnds
<1>14. CASE Shutdown(s)
  BY <1>14 DEF IInv, AgedOK, Named, Shutdown, Goto
<1>15. CASE ReleaseRead(s)
  BY <1>15 DEF IInv, AgedOK, Named, ReleaseRead, Goto
<1>16. CASE ReleaseRm(s)
  BY <1>16 DEF IInv, AgedOK, Named, ReleaseRm, Goto
<1>17. CASE Age(s)
  BY <1>17 DEF IInv, ClaimOK, AgedOK, Age
<1>18. CASE Crash(s)
  BY <1>18 DEF IInv, AgedOK, Named, NoSweep, Crash, Goto
<1> QED
  BY <1>1, <1>2, <1>3, <1>4, <1>5, <1>6, <1>7, <1>8, <1>9, <1>10, <1>11, <1>12, <1>13,
     <1>14, <1>15, <1>16, <1>17, <1>18 DEF Step, StartStep, SweepStep

\* A held claim is removed by its owner's release only: not by a sweep, as what that
\* is about to remove is nobody's.
LEMMA HeldStep ==
  ASSUME IInv, NEW s \in Sessions, Step(s), clean'
  PROVE  Held'
<1> USE AliasAssumption
<1>0. clean /\ Apart'
  BY NoOverlap
<1>1. CASE Start(s)
  BY <1>0, <1>1 DEF IInv, CleanOK, Held, Start, Goto
<1>2. CASE BeginClaim(s)
  BY <1>0, <1>2 DEF IInv, CleanOK, Held, BeginClaim, Goto
<1>3. CASE WidenChoice(s)
  BY <1>0, <1>3 DEF IInv, CleanOK, Held, WidenChoice
<1>4. CASE NoneAvailable(s)
  BY <1>0, <1>4 DEF IInv, CleanOK, Held, NoneAvailable, Goto, Forget
<1>5. CASE Mkdir(s)
  <2>1. PICK q \in Candidates, n \in Name : Tries(s, q, n)
    BY <1>5, MkdirTries
  <2>2. \A t \in Sessions : pc[t] \in {"register", "up", "releasing"} => name[t] \in Name
    BY DEF IInv, TypeOK, LifeOK, Named
  <2>3. \A t \in Sessions : pc[t] = "owner" => Head(todo[t]) \in Name
    BY HeadIsFree DEF Trying
  <2>4. CASE claim[n] = Absent
    BY <1>0, <2>1, <2>2, <2>3, <2>4 DEF Tries, Held, IInv, TypeOK, CleanOK
  <2>5. CASE claim[n] # Absent
    BY <1>0, <2>1, <2>5 DEF Tries, Held, IInv, TypeOK, CleanOK
  <2> QED
    BY <2>4, <2>5
<1>6. CASE ReadOwner(s)
  <2>1. PICK q \in Candidates, n \in Name : Looks(s, q, n)
    BY <1>6, ReadOwnerLooks
  <2> QED
    BY <1>0, <2>1, NoNameIsNone DEF IInv, TypeOK, CleanOK, Held, Looks
<1>7. CASE WriteOwner(s)
  <2>1. PICK n \in Name : Writes(s, n)
    BY <1>7, WriteOwnerWrites
  <2>2. \A t \in Sessions : pc[t] \in {"register", "up", "releasing"} => name[t] \in Name
    BY DEF IInv, TypeOK, LifeOK, Named
  <2>3. \A t \in Sessions : pc[t] = "owner" => Head(todo[t]) \in Name
    BY HeadIsFree DEF Trying
  <2>4. claim[n] = Bare
    BY <1>0, <2>1 DEF Writes, Held, IInv, CleanOK
  <2>5. /\ claim' = [claim EXCEPT ![n] = s] /\ name' = [name EXCEPT ![s] = n]
        /\ pc' = [pc EXCEPT ![s] = "register"] /\ todo' = [todo EXCEPT ![s] = <<>>]
        /\ pc[s] = "owner" /\ n = Head(todo[s])
    BY <2>1, <2>4 DEF Writes, Absent, Bare
  <2>6. \A t \in Sessions : t # s /\ pc[t] = "owner" => Head(todo[t]) # n
    BY <1>0, <2>5 DEF Sole, IInv, CleanOK
  <2> QED
    BY <1>0, <2>2, <2>3, <2>4, <2>5, <2>6 DEF Held, IInv, TypeOK, CleanOK
<1>8. CASE Undo(s)
  BY <1>0, <1>8 DEF IInv, CleanOK, Held, Undo
<1>9. CASE Register(s)
  BY <1>0, <1>9 DEF IInv, CleanOK, Held, Register, Goto
<1>10. CASE SweepBegins(s)
  BY <1>0, <1>10 DEF IInv, CleanOK, Held, SweepBegins
<1>11. CASE SweepReads(s)
  BY <1>0, <1>11 DEF SweepReads, Held, IInv, CleanOK
<1>12. CASE SweepRemoves(s)
  <2>1. sweep[s] # NoSweep /\ sweep[s].doomed \in Name
    BY <1>12 DEF SweepRemoves, IInv, TypeOK, Sweep, NoSweep
  <2>2. \A t \in Sessions : pc[t] \notin {"owner", "undo", "leaving", "releasing"}
    BY <1>0, <2>1 DEF IInv, CleanOK, Apart
  <2>3. \A t \in Sessions : pc[t] \in {"register", "up"} => claim[sweep[s].doomed] # t
    BY <1>0, <1>12 DEF SweepRemoves, IInv, CleanOK, Doomed, AgedOK
  <2>4. \A t \in Sessions : pc[t] \in {"register", "up"} => name[t] \in Name
    BY DEF IInv, TypeOK, LifeOK, Named
  <2>5. /\ claim' = [claim EXCEPT ![sweep[s].doomed] = Absent]
        /\ pc' = pc /\ name' = name /\ todo' = todo
    BY <1>12 DEF SweepRemoves
  <2> QED
    BY <1>0, <2>1, <2>2, <2>3, <2>4, <2>5 DEF Held, IInv, CleanOK
<1>13. CASE SweepEnds(s)
  BY <1>0, <1>13 DEF IInv, CleanOK, Held, SweepEnds
<1>14. CASE Shutdown(s)
  BY <1>0, <1>14 DEF IInv, CleanOK, Held, Shutdown, Goto
<1>15. CASE ReleaseRead(s)
  BY <1>0, <1>15 DEF IInv, CleanOK, Held, ReleaseRead, Goto
<1>16. CASE ReleaseRm(s)
  BY <1>0, <1>16 DEF IInv, TypeOK, CleanOK, Held, ReleaseRm, Goto
<1>17. CASE Age(s)
  BY <1>0, <1>17 DEF IInv, CleanOK, Held, Age
<1>18. CASE Crash(s)
  BY <1>0, <1>18 DEF IInv, TypeOK, CleanOK, Held, Crash, Goto, Forget
<1> QED
  BY <1>1, <1>2, <1>3, <1>4, <1>5, <1>6, <1>7, <1>8, <1>9, <1>10, <1>11, <1>12, <1>13,
     <1>14, <1>15, <1>16, <1>17, <1>18 DEF Step, StartStep, SweepStep

\* mkdir succeeds for one session.
LEMMA SoleStep ==
  ASSUME IInv, NEW s \in Sessions, Step(s), clean'
  PROVE  Sole'
<1> USE AliasAssumption
<1>0. clean /\ Apart'
  BY NoOverlap
<1>1. CASE Start(s)
  BY <1>0, <1>1 DEF IInv, CleanOK, Sole, Start, Goto
<1>2. CASE BeginClaim(s)
  BY <1>0, <1>2 DEF IInv, CleanOK, Sole, BeginClaim, Goto
<1>3. CASE WidenChoice(s)
  BY <1>0, <1>3 DEF IInv, CleanOK, Sole, WidenChoice
<1>4. CASE NoneAvailable(s)
  BY <1>0, <1>4 DEF IInv, CleanOK, Sole, NoneAvailable, Goto, Forget
<1>5. CASE Mkdir(s)
  <2>1. PICK q \in Candidates, n \in Name : Tries(s, q, n)
    BY <1>5, MkdirTries
  <2> QED
    BY <1>0, <2>1, NoNameIsNone DEF IInv, TypeOK, CleanOK, Held, Sole, Absent, Bare, Tries
<1>6. CASE ReadOwner(s)
  <2>1. PICK q \in Candidates, n \in Name : Looks(s, q, n)
    BY <1>6, ReadOwnerLooks
  <2> QED
    BY <1>0, <2>1, NoNameIsNone DEF IInv, TypeOK, CleanOK, Sole, Looks
<1>7. CASE WriteOwner(s)
  <2>1. PICK n \in Name : Writes(s, n)
    BY <1>7, WriteOwnerWrites
  <2> QED
    BY <1>0, <2>1, NoNameIsNone DEF IInv, TypeOK, CleanOK, Sole, Writes
<1>8. CASE Undo(s)
  BY <1>0, <1>8 DEF IInv, CleanOK, Sole, Undo, Goto, Forget
<1>9. CASE Register(s)
  BY <1>0, <1>9 DEF IInv, CleanOK, Sole, Register, Goto
<1>10. CASE SweepBegins(s)
  BY <1>0, <1>10 DEF IInv, CleanOK, Sole, SweepBegins
<1>11. CASE SweepReads(s)
  BY <1>0, <1>11 DEF IInv, CleanOK, Sole, SweepReads
<1>12. CASE SweepRemoves(s)
  BY <1>0, <1>12 DEF IInv, CleanOK, Sole, SweepRemoves
<1>13. CASE SweepEnds(s)
  BY <1>0, <1>13 DEF IInv, CleanOK, Sole, SweepEnds
<1>14. CASE Shutdown(s)
  BY <1>0, <1>14 DEF IInv, CleanOK, Sole, Shutdown, Goto
<1>15. CASE ReleaseRead(s)
  BY <1>0, <1>15 DEF IInv, CleanOK, Sole, ReleaseRead, Goto
<1>16. CASE ReleaseRm(s)
  BY <1>0, <1>16 DEF IInv, CleanOK, Sole, ReleaseRm, Goto
<1>17. CASE Age(s)
  BY <1>0, <1>17 DEF IInv, CleanOK, Sole, Age
<1>18. CASE Crash(s)
  BY <1>0, <1>18 DEF IInv, TypeOK, CleanOK, Sole, Crash, Goto, Forget
<1> QED
  BY <1>1, <1>2, <1>3, <1>4, <1>5, <1>6, <1>7, <1>8, <1>9, <1>10, <1>11, <1>12, <1>13,
     <1>14, <1>15, <1>16, <1>17, <1>18 DEF Step, StartStep, SweepStep

\* A sweep chooses a claim without an owner or with one past the grace; nobody
\* writes an owner meanwhile.
LEMMA DoomedStep ==
  ASSUME IInv, NEW s \in Sessions, Step(s), clean'
  PROVE  Doomed'
<1> USE AliasAssumption
<1>0. clean /\ Apart'
  BY NoOverlap
<1>1. CASE Start(s)
  <2>1. sweep'[s].doomed = NoName \/ sweep' = sweep
    BY <1>1 DEF Start, BeginSweep, IInv, TypeOK
  <2>2. \A u \in Sessions : u # s => sweep'[u] = sweep[u]
    BY <1>1 DEF Start, BeginSweep, IInv, TypeOK
  <2>3. claim' = claim
    BY <1>1 DEF Start
  <2> QED
    BY <1>0, <2>1, <2>2, <2>3 DEF IInv, CleanOK, Doomed
<1>2. CASE BeginClaim(s)
  BY <1>0, <1>2 DEF IInv, CleanOK, Doomed, BeginClaim
<1>3. CASE WidenChoice(s)
  BY <1>0, <1>3 DEF IInv, CleanOK, Doomed, WidenChoice
<1>4. CASE NoneAvailable(s)
  BY <1>0, <1>4 DEF IInv, CleanOK, Doomed, NoneAvailable
<1>5. CASE Mkdir(s)
  <2>1. PICK q \in Candidates, n \in Name : Tries(s, q, n)
    BY <1>5, MkdirTries
  <2> QED
    BY <1>0, <2>1, NoNameIsNone DEF IInv, TypeOK, CleanOK, Doomed, Sweep, Tries
<1>6. CASE ReadOwner(s)
  <2>1. PICK q \in Candidates, n \in Name : Looks(s, q, n)
    BY <1>6, ReadOwnerLooks
  <2> QED
    BY <1>0, <2>1, NoNameIsNone DEF IInv, CleanOK, Doomed, Looks
<1>7. CASE WriteOwner(s)
  <2>1. PICK n \in Name : Writes(s, n)
    BY <1>7, WriteOwnerWrites
  <2> QED
    BY <1>0, <2>1, NoNameIsNone DEF IInv, CleanOK, Apart, Doomed, NoSweep, Writes
<1>8. CASE Undo(s)
  BY <1>0, <1>8 DEF IInv, CleanOK, Doomed, Undo
<1>9. CASE Register(s)
  BY <1>0, <1>9 DEF IInv, CleanOK, Doomed, Register
<1>10. CASE SweepBegins(s)
  BY <1>0, <1>10 DEF IInv, CleanOK, Doomed, SweepBegins, BeginSweep
<1>11. CASE SweepReads(s)
  BY <1>0, <1>11 DEF IInv, TypeOK, CleanOK, Doomed, SweepReads
<1>12. CASE SweepRemoves(s)
  BY <1>0, <1>12 DEF IInv, CleanOK, Doomed, SweepRemoves
<1>13. CASE SweepEnds(s)
  BY <1>0, <1>13 DEF IInv, CleanOK, Doomed, NoSweep, SweepEnds
<1>14. CASE Shutdown(s)
  BY <1>0, <1>14 DEF IInv, CleanOK, Doomed, Shutdown
<1>15. CASE ReleaseRead(s)
  BY <1>0, <1>15 DEF IInv, CleanOK, Doomed, ReleaseRead
<1>16. CASE ReleaseRm(s)
  BY <1>0, <1>16 DEF IInv, CleanOK, Doomed, ReleaseRm
<1>17. CASE Age(s)
  BY <1>0, <1>17 DEF IInv, CleanOK, Doomed, Age
<1>18. CASE Crash(s)
  BY <1>0, <1>18 DEF IInv, CleanOK, Doomed, NoSweep, Crash
<1> QED
  BY <1>1, <1>2, <1>3, <1>4, <1>5, <1>6, <1>7, <1>8, <1>9, <1>10, <1>11, <1>12, <1>13,
     <1>14, <1>15, <1>16, <1>17, <1>18 DEF Step, StartStep, SweepStep

\* What a session is owed stays owed to it, except when another one starts.
LEMMA OwedKeeps ==
  ASSUME IInv, NEW s \in Sessions, Step(s), ~Start(s), NEW t \in Sweepers \cap owed,
         NEW p \in Sessions, NEW n \in Name \cup {NoName}, p = heir[t], n = name[p]
  PROVE  OwedOK(t, p, n)'
<1> USE AliasAssumption
<1>0. OwedOK(t, p, n)
  BY DEF IInv, AllOwed
<1>2. CASE BeginClaim(s)
  <2>1. CASE s # t
    BY <1>0, <1>2, <2>1 DEF BeginClaim, Goto, IInv, OwedOK, Starting
  <2>2. CASE s = t
    <3>1. PICK sibling \in view[s] \cup {NoSession} :
            todo' = [todo EXCEPT ![s] = FirstChoices(s, sibling)]
      BY <1>2 DEF BeginClaim
    <3>2. FirstChoices(s, sibling) # <<>> /\ Head(FirstChoices(s, sibling)) = n
      BY <2>2, PreviousComesFirst
    <3>3. todo'[t] # <<>> /\ Head(todo'[t]) = n
      BY <2>2, <3>1, <3>2 DEF IInv, TypeOK
    <3>4. claim[n] = Absent
      BY <1>0, <1>2, <2>2 DEF BeginClaim, OwedOK, NoSweep
    <3>5. /\ pc' = [pc EXCEPT ![t] = "mkdir"] /\ pc[t] = "sweep"
          /\ UNCHANGED <<claim, view, name, sweep>>
      BY <1>2, <2>2 DEF BeginClaim, Goto
    <3> QED
      BY <1>0, <3>3, <3>4, <3>5 DEF IInv, OwedOK, Starting
  <2> QED
    BY <2>1, <2>2
<1>3. CASE WidenChoice(s)
  <2>1. CASE s # t
    BY <1>0, <1>3, <2>1 DEF WidenChoice, IInv, OwedOK
  <2>2. CASE s = t
    <3>1. todo[t] \in Candidates /\ todo[t] # <<>> /\ Head(todo[t]) = n
      BY <1>0, <1>3, <2>2 DEF WidenChoice, IInv, TypeOK, OwedOK
    <3>2. 1 \in DOMAIN todo[t] /\ todo[t][1] = n
      BY <3>1 DEF Candidates
    <3>3. ~Skipped(t, n)
      BY <1>0 DEF OwedOK, Skipped, HeldByOther
    <3> QED
      BY <1>3, <2>2, <3>2, <3>3 DEF WidenChoice, NothingLeft
  <2> QED
    BY <2>1, <2>2
<1>4. CASE NoneAvailable(s)
  BY <1>0, <1>4 DEF IInv, TypeOK, OwedOK, Starting, NoneAvailable, Goto, Forget
<1>5. CASE Mkdir(s)
  <2>1. PICK q \in Candidates, m \in Name : Tries(s, q, m)
    BY <1>5, MkdirTries
  <2>2. CASE s # t
    <3>1. pc[t] \notin Starting
      BY <1>0, <2>1, <2>2 DEF OwedOK, Tries, Starting
    <3> QED
      BY <1>0, <2>1, <2>2, <3>1 DEF Tries, IInv, TypeOK, OwedOK, Starting
  <2>3. CASE s = t
    <3>1. ~Skipped(t, n)
      BY <1>0 DEF OwedOK, Skipped, HeldByOther
    <3>2. m = n /\ claim[n] = Absent
      BY <1>0, <2>1, <2>3, <3>1 DEF OwedOK, Tries
    <3>3. /\ pc' = [pc EXCEPT ![t] = "owner"] /\ Head(todo'[t]) = n /\ p # t
          /\ UNCHANGED <<view, name, sweep>> /\ pc[t] = "mkdir"
      BY <1>0, <2>1, <2>3, <3>2 DEF Tries, OwedOK, IInv
    <3> QED
      BY <1>0, <3>3 DEF IInv, TypeOK, OwedOK, Starting
  <2> QED
    BY <2>2, <2>3
<1>6. CASE ReadOwner(s)
  <2>1. PICK q \in Candidates, m \in Name : Looks(s, q, m)
    BY <1>6, ReadOwnerLooks
  <2> QED
    BY <1>0, <2>1 DEF IInv, TypeOK, LifeOK, ViewOK, OwedOK, Named, Starting, Looks
<1>7. CASE WriteOwner(s)
  <2>1. PICK m \in Name : Writes(s, m)
    BY <1>7, WriteOwnerWrites
  <2> QED
    BY <1>0, <2>1 DEF IInv, TypeOK, LifeOK, ViewOK, OwedOK, Named, Starting, Writes
<1>8. CASE Undo(s)
  BY <1>0, <1>8 DEF IInv, TypeOK, OwedOK, Starting, Undo, Goto
<1>9. CASE Register(s)
  BY <1>0, <1>9 DEF IInv, OwedOK, Starting, Register, Goto
<1>10. CASE SweepBegins(s)
  BY <1>0, <1>10 DEF IInv, OwedOK, SweepBegins, BeginSweep
<1>11. CASE SweepReads(s)
  BY <1>0, <1>11 DEF IInv, TypeOK, OwedOK, SweepReads
<1>12. CASE SweepRemoves(s)
  BY <1>0, <1>12 DEF IInv, TypeOK, OwedOK, SweepRemoves
<1>13. CASE SweepEnds(s)
  BY <1>0, <1>13 DEF IInv, OwedOK, SweepEnds
<1>14. CASE Shutdown(s)
  BY <1>0, <1>14 DEF IInv, OwedOK, Starting, Shutdown, Goto
<1>15. CASE ReleaseRead(s)
  BY <1>0, <1>15 DEF IInv, OwedOK, Starting, ReleaseRead, Goto
<1>16. CASE ReleaseRm(s)
  BY <1>0, <1>16 DEF IInv, OwedOK, Starting, ReleaseRm, Goto
<1>17. CASE Age(s)
  BY <1>0, <1>17 DEF IInv, OwedOK, Age
<1>18. CASE Crash(s)
  BY <1>0, <1>18 DEF IInv, TypeOK, OwedOK, Starting, Crash, Goto, Forget
<1> QED
  BY <1>2, <1>3, <1>4, <1>5, <1>6, <1>7, <1>8, <1>9, <1>10, <1>11, <1>12, <1>13, <1>14,
     <1>15, <1>16, <1>17, <1>18 DEF Step, StartStep, SweepStep

\* What a session is owed stays owed to it, until another one starts.
LEMMA AllOwedStep ==
  ASSUME IInv, NEW s \in Sessions, Step(s)
  PROVE  AllOwed'
<1>1. CASE ~Start(s)
  <2>1. heir' = heir /\ owed' = owed
    BY <1>1 DEF Step, StartStep, SweepStep, BeginClaim, WidenChoice, NoneAvailable, Mkdir,
       ReadOwner, WriteOwner, Undo, Register, SweepBegins, SweepReads, SweepRemoves, SweepEnds,
       Shutdown, ReleaseRead, ReleaseRm, Age, Crash
  <2> SUFFICES ASSUME NEW t \in Sweepers \cap owed
               PROVE  /\ heir[t] # NoSession
                      /\ \A p \in Sessions, n \in Name \cup {NoName} :
                           p = heir[t] /\ n = name'[p] => OwedOK(t, p, n)'
    BY <2>1 DEF AllOwed
  <2>2. heir[t] \in Sessions
    BY AliasAssumption DEF IInv, AllOwed, TypeOK
  <2>3. PICK p \in Sessions, n \in Name \cup {NoName} : p = heir[t] /\ n = name[p]
    BY <2>2 DEF IInv, TypeOK
  <2>4. OwedOK(t, p, n)
    BY <2>3 DEF IInv, AllOwed
  <2>5. OwedOK(t, p, n)'
    BY <1>1, <2>3, OwedKeeps
  <2>6. name'[p] = n
    <3>1. pc[p] = "dead"
      BY <2>4 DEF OwedOK
    <3>2. CASE ReadOwner(s)
      BY <2>3, <3>1, <3>2 DEF ReadOwner, Takes, IInv, TypeOK
    <3>3. CASE WriteOwner(s)
      BY <2>3, <3>1, <3>3 DEF WriteOwner, Takes, IInv, TypeOK
    <3>4. CASE ~ReadOwner(s) /\ ~WriteOwner(s)
      BY <1>1, <2>3, <3>4 DEF Step, StartStep, SweepStep, BeginClaim, WidenChoice,
         NoneAvailable, Mkdir, Undo, Register, SweepBegins, SweepReads, SweepRemoves,
         SweepEnds, Shutdown, ReleaseRead, ReleaseRm, Age, Crash
    <3> QED BY <3>2, <3>3, <3>4
  <2>7. ASSUME NEW o \in Sessions, NEW m \in Name \cup {NoName}, o = heir[t], m = name'[o]
        PROVE  OwedOK(t, o, m)'
    <3>1. o = p /\ m = n
      BY <2>3, <2>6, <2>7
    <3> QED BY <2>5, <3>1 DEF OwedOK
  <2> QED
    BY <2>2, <2>7, AliasAssumption
<1>2. CASE Start(s)
  <2>1. PICK p \in {NoSession} \cup {t \in Sessions : name[t] # NoName} :
          /\ heir' = [heir EXCEPT ![s] = p]
          /\ owed' = {t \in owed : pc[t] \notin Starting} \cup (IF Owed(p) THEN {s} ELSE {})
    BY <1>2 DEF Start
  <2>2. pc[s] = "off" /\ pc' = [pc EXCEPT ![s] = "sweep"] /\ view' = [view EXCEPT ![s] = Live]
        /\ UNCHANGED <<claim, aged, todo, last, name>>
    BY <1>2 DEF Start, Goto
  <2> SUFFICES ASSUME NEW t \in Sweepers, t \in owed',
                      NEW o \in Sessions, NEW n \in Name \cup {NoName}
               PROVE  /\ heir'[t] # NoSession
                      /\ o = heir'[t] /\ n = name[o] => OwedOK(t, o, n)'
    BY <2>2 DEF AllOwed
  <2>3. CASE t # s
    <3>1. t \in owed /\ pc[t] \notin Starting /\ heir'[t] = heir[t] /\ t \in Sessions
      BY <2>1, <2>3, AliasAssumption DEF IInv, TypeOK
    <3>2. heir[t] # NoSession /\ (o = heir[t] /\ n = name[o] => OwedOK(t, o, n))
      BY <3>1 DEF IInv, AllOwed
    <3>3. ASSUME OwedOK(t, o, n) PROVE OwedOK(t, o, n)'
      BY <2>2, <2>3, <3>1, <3>3 DEF OwedOK, IInv, TypeOK, Starting
    <3> QED
      BY <3>1, <3>2, <3>3
  <2>4. CASE t = s
    <3>1. t \notin owed
      <4> SUFFICES ASSUME t \in owed PROVE FALSE
        OBVIOUS
      <4>1. heir[t] \in Sessions
        BY AliasAssumption DEF IInv, AllOwed, TypeOK
      <4>2. OwedOK(t, heir[t], name[heir[t]])
        BY <4>1 DEF IInv, AllOwed, TypeOK
      <4> QED BY <2>2, <2>4, <4>2 DEF OwedOK
    <3>2. Owed(p)
      BY <2>1, <2>4, <3>1
    <3>3. heir'[t] = p /\ p # NoSession /\ p # s /\ p \in Sessions
      BY <2>1, <2>2, <2>4, <3>2 DEF Owed, IInv, TypeOK
    <3> SUFFICES ASSUME o = p, n = name[p] PROVE OwedOK(t, o, n)'
      BY <3>3
    <3> DEFINE r == [live |-> Live, old |-> aged, left |-> {m \in Name : claim[m] # Absent},
                     doomed |-> NoName]
    <3>4. n \in Name /\ n # NoName
      BY <2>1, <3>2, <3>3
    <3>5. sweep'[t] = r
      BY <1>2, <2>4 DEF Start, BeginSweep, IInv, TypeOK
    <3>6. /\ claim[n] = p /\ p \in r.old \ r.live /\ n \in r.left
      BY <3>2, <3>3, <3>4, AliasAssumption DEF Owed, Live
    <3> HIDE DEF r
    <3>7. /\ pc[p] = "dead" /\ \A u \in Sessions : pc[u] \notin Starting
          /\ \A u \in Live : name[u] # n
      BY <3>2 DEF Owed
    <3>8. pc'[t] = "sweep" /\ pc'[p] = "dead" /\ view'[t] = Live
      BY <2>2, <2>4, <3>3, <3>7 DEF IInv, TypeOK
    <3> QED
      BY <2>2, <2>4, <3>3, <3>4, <3>5, <3>6, <3>7, <3>8 DEF OwedOK, IInv, TypeOK, Starting
  <2> QED BY <2>3, <2>4
<1> QED BY <1>1, <1>2


----------------------------------------------------------------------------
(* The theorems *)

\* The invariant holds at first: nobody has a name, a claim or a view.
LEMMA InitIInv == Init => IInv
<1> SUFFICES ASSUME Init PROVE IInv
  OBVIOUS
<1>1. TypeOK
  <2>1. NoSweep \in Sweep
    BY DEF NoSweep, Sweep
  <2> QED
    BY <2>1, NoChoices DEF Init, TypeOK, PC, Live
<1>2. LifeOK
  BY DEF Init, LifeOK, Named, Trying
<1>3. ViewOK /\ ClaimOK
  BY AliasAssumption DEF Init, ViewOK, ClaimOK
<1>4. AgedOK
  BY DEF Init, AgedOK, NoSweep
<1>5. CleanOK
  BY DEF Init, CleanOK, Apart, Held, Sole, Doomed, NoSweep
<1>6. AllOwed
  BY DEF Init, AllOwed
<1> QED
  BY <1>1, <1>2, <1>3, <1>4, <1>5, <1>6 DEF IInv

\* Every step keeps all of it.
LEMMA NextIInv == IInv /\ [Next]_vars => IInv'
<1>1. ASSUME IInv, NEW s \in Sessions, Step(s) PROVE IInv'
  <2>1. LifeOK' /\ ViewOK' /\ ClaimOK' /\ AgedOK' /\ Domains'
    BY <1>1, LifeOKStep, ViewOKStep, ClaimOKStep, AgedOKStep, DomainsStep
  <2>2. clean' \in BOOLEAN
    BY <1>1 DEF Step, StartStep, SweepStep, Start, BeginClaim, WidenChoice, NoneAvailable,
       Mkdir, ReadOwner, WriteOwner, Undo, Register, SweepBegins, SweepReads, SweepRemoves,
       SweepEnds, Shutdown, ReleaseRead, ReleaseRm, Age, Crash, Track
  <2>3. TypeOK'
    BY <2>1, <2>2 DEF TypeOK, Domains, LifeOK, Live, Named
  <2>4. ASSUME clean' PROVE CleanOK'
    BY <1>1, <2>4, NoOverlap, HeldStep, SoleStep, DoomedStep DEF CleanOK
  <2>5. AllOwed'
    BY <1>1, AllOwedStep
  <2> QED
    BY <2>1, <2>3, <2>4, <2>5 DEF IInv
<1>2. ASSUME IInv, UNCHANGED vars PROVE IInv'
  BY <1>2 DEF vars, IInv, TypeOK, LifeOK, ViewOK, ClaimOK, AgedOK, CleanOK, Apart, Held,
     Sole,
     Doomed, AllOwed, OwedOK, Live, Skipped, HeldByOther
<1> QED
  BY <1>1, <1>2 DEF Next, Step

\* So it holds in every state.
LEMMA Inductive == Spec => []IInv
  BY InitIInv, NextIInv, PTL DEF Spec

\* Every variable keeps to its domain, and a session that is up has a name.
THEOREM AliasTypeCorrect == Spec => []TypeOK
<1>1. IInv => TypeOK
  BY DEF IInv
<1> QED BY <1>1, Inductive, PTL

\* Two live sessions have different names, as long as no sweep overlaps the writing
\* or the release of a claim: however many there are, start, sweep, leave and crash.
THEOREM SerialUniqueness == Spec => []SerialNamesAreUnique
<1>1. IInv => SerialNamesAreUnique
  BY DEF IInv, CleanOK, Held, SerialNamesAreUnique, UniqueNames, Live
<1> QED BY <1>1, Inductive, PTL

\* A session that starts never takes the name of a live session it saw, whatever
\* has become of the claims.
THEOREM LiveNamesKept == Spec => []LiveNameIsKept
<1>1. IInv => LiveNameIsKept
  BY DEF IInv, ViewOK, LiveNameIsKept, Live
<1> QED BY <1>1, Inductive, PTL

\* A session that sweeps gets the name of its crashed predecessor back, once that
\* one's claim is past the grace, unless another one starts at the same time.
THEOREM ClaimsReclaimed == Spec => []AgedClaimIsReclaimed
<1>1. IInv => AgedClaimIsReclaimed
  <2> SUFFICES ASSUME IInv, NEW s \in Sweepers \cap owed, pc[s] \in {"register", "up"}
               PROVE  name[s] = name[heir[s]]
    BY DEF AgedClaimIsReclaimed
  <2>1. heir[s] \in Sessions
    BY AliasAssumption DEF IInv, AllOwed, TypeOK
  <2>2. OwedOK(s, heir[s], name[heir[s]])
    BY <2>1 DEF IInv, AllOwed, TypeOK
  <2> QED BY <2>2 DEF OwedOK
<1> QED BY <1>1, Inductive, PTL
=============================================================================
