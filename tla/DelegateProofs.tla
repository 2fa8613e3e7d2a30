--------------------------- MODULE DelegateProofs ---------------------------
(***************************************************************************)
(* The two tools that wait for a peer: metro_delegate (Delegate), and      *)
(* metro_compact (Compact).  They share no state; each theorem is about    *)
(* one of them.                                                            *)
(*                                                                         *)
(* metro_delegate asks the best peer, for any sessions, names and usage,   *)
(* in whatever order the registry's files are read, and prefers an answer  *)
(* to its timeout.  Why it holds: filter keeps the order of a list, so     *)
(* that with hint or without the pool is sorted by nearness; the first of  *)
(* the pool's best by state and usage is then the nearest of them.  And    *)
(* the second look at the registry finds the picked session, as long as it *)
(* is there, because it is in scope, or finds too many.                    *)
(*                                                                         *)
(* Lists and numbers need induction.  SetInduction has it for membership   *)
(* of a set, as a set of numbers that has a member has a least one.        *)
(*                                                                         *)
(* What metro_compact reports is true, and an answer in time is never      *)
(* missed, for any number of requests, with or without a crash.  Why it    *)
(* holds: the waiter is there before the message is, and the message       *)
(* before the verdict.  So at any time a request that waits, was not timed *)
(* out and not shut down is in the map (WaitersOK); a message from the     *)
(* target carries the verdict the target has reached for its request       *)
(* (MailOK); and a verdict, once reached, is never replaced, as the        *)
(* request is then neither in the inbox nor being compacted (OnceOK).      *)
(***************************************************************************)
EXTENDS Delegate, Compact, TLAPS, WellFoundedInduction, FiniteSetTheorems

\* A session that is picked is one in scope.
PickedInScope == pc = "picked" => picked \in Sessions /\ Visible(picked)

\* An ask has a record once it is written, runDelegate ends with a result, and the
\* record is closed in time only when it is closed at all.
RecordOK ==
  /\ pc \in {"asked", "polling"} => rec # None
  /\ handoff => pc \in {"polling", "done"}
  /\ result # None => pc = "done"
  /\ inTime => rec \in Closed /\ pc \in {"asked", "polling", "done"}

\* The peers and the hint never change.
PeersOK ==
  /\ name \in [Sessions -> Names] /\ place \in [Sessions -> Place]
  /\ hint \in Sessions \cup Names \cup {None}

\* All that holds between the steps of runDelegate.
IInv == TypeOK /\ PeersOK /\ PickedInScope /\ RecordOK /\ AnswerBeatsTimeout

----------------------------------------------------------------------------
\* A set of numbers that has a member has a least one.
LEMMA LeastNumber ==
  ASSUME NEW S, S \subseteq Nat, S # {}
  PROVE  \E n \in S : \A k \in S : n <= k
<1> DEFINE Less == OpToRel(<, Nat)
<1>1. IsWellFoundedOn(Less, Nat)
  BY NatLessThanWellFounded
<1>2. \A a, b \in Nat : a < b => <<a, b>> \in Less
  BY Zenon DEF OpToRel
<1> HIDE DEF Less
<1>3. PICK n \in S : \A k \in S : ~(<<k, n>> \in Less)
  BY <1>1, WFMin
<1>4. ASSUME NEW k \in S PROVE n <= k
  <2>1. k \in Nat /\ n \in Nat
    BY Zenon
  <2>2. ~(k < n)
    BY <1>2, <1>3, <2>1, Zenon
  <2> QED BY <2>1, <2>2
<1> QED BY <1>4, Zenon

\* Induction over the naturals, for membership of a set.
LEMMA SetInduction ==
  ASSUME NEW S, 0 \in S, \A n \in Nat : n \in S => n + 1 \in S
  PROVE  Nat \subseteq S
<1> SUFFICES ASSUME Nat \ S # {} PROVE FALSE
  OBVIOUS
<1>1. PICK n \in Nat \ S : \A k \in Nat \ S : n <= k
  BY LeastNumber
<1>2. n - 1 \in Nat /\ ~(n <= n - 1) /\ (n - 1) + 1 = n
  BY <1>1
<1>3. n - 1 \in S
  BY <1>1, <1>2
<1> QED BY <1>1, <1>2, <1>3

\* q has those of the first n of a list that are in a set, all of them and in
\* their order.
Keeps(q, n, list, set, T) ==
  /\ q \in Seq(T)
  /\ \A i \in 1..n : list[i] \in set => \E k \in 1..Len(q) : q[k] = list[i]
  /\ \A k \in 1..Len(q) : q[k] \in set
  /\ \A k \in 1..Len(q) : \E i \in 1..n : q[k] = list[i]
  /\ \A k, l \in 1..Len(q) : k < l =>
       \E i, j \in 1..n : i < j /\ q[k] = list[i] /\ q[l] = list[j]

\* That is what filter returns.  The function it is defined by exists up to each
\* length of the list, and keeps what it should, by induction.
LEMMA FilterKeeps ==
  ASSUME NEW T, NEW list \in Seq(T), NEW set
  PROVE  Keeps(Filter(list, set), Len(list), list, set, T)
<1> DEFINE L == Len(list)
           Next1(g, i) == IF i = 0 THEN <<>>
                          ELSE IF list[i] \in set THEN Append(g[i - 1], list[i]) ELSE g[i - 1]
           Equation(g, n) == g = [i \in 0..n |-> Next1(g, i)]
           S == {n \in Nat : n <= L => \E g : Equation(g, n)}
<1>0. L \in Nat
  OBVIOUS
<1> HIDE DEF L
<1>1. 0 \in S
  <2> DEFINE e == [i \in 0..0 |-> <<>>]
  <2>1. Equation(e, 0)
    <3>1. \A i \in 0..0 : Next1(e, i) = <<>>
      OBVIOUS
    <3> QED BY <3>1
  <2> HIDE DEF Equation
  <2> QED BY <2>1
<1> HIDE DEF Equation
<1>2. ASSUME NEW n \in Nat, n \in S PROVE n + 1 \in S
  <2> SUFFICES ASSUME n + 1 <= L PROVE \E h : Equation(h, n + 1)
    OBVIOUS
  <2>1. PICK g : Equation(g, n)
    BY <1>0, <1>2
  <2> DEFINE h == [i \in 0 .. n + 1 |-> IF i <= n THEN g[i] ELSE Next1(g, i)]
  <2>2. \A i \in 0..n : g[i] = Next1(g, i)
    BY <2>1 DEF Equation
  <2>3. \A i \in 0 .. n + 1 : i # 0 => i - 1 \in 0..n
    OBVIOUS
  <2>4. \A i \in 0..n : h[i] = g[i]
    OBVIOUS
  <2>5. \A i \in 0 .. n + 1 : h[i] = Next1(g, i)
    BY <2>2
  <2>6. h = [i \in 0 .. n + 1 |-> h[i]]
    OBVIOUS
  <2> HIDE DEF h
  <2>7. \A i \in 0 .. n + 1 : h[i] = Next1(h, i)
    BY <2>3, <2>4, <2>5
  <2>8. Equation(h, n + 1)
    BY <2>6, <2>7 DEF Equation
  <2> QED BY <2>8
<1>3. Nat \subseteq S
  <2> HIDE DEF S
  <2> QED BY <1>1, <1>2, SetInduction
<1>4. \E g : Equation(g, L)
  BY <1>0, <1>3
<1> DEFINE kept == CHOOSE g : Equation(g, L)
<1>5. Equation(kept, L)
  BY <1>4
<1>6. Filter(list, set) = kept[L]
  BY DEF Filter, L, Equation
<1> HIDE DEF kept
<1>7. \A i \in 0..L : kept[i] = Next1(kept, i)
  BY <1>5 DEF Equation
<1> HIDE DEF S
<1> DEFINE Kept(q, n) == Keeps(q, n, list, set, T)
           R == {n \in Nat : n <= L => Kept(kept[n], n)}
<1>8. 0 \in R
  <2>1. 0 \in 0..L
    BY <1>0
  <2>2. kept[0] = <<>>
    BY <1>7, <2>1
  <2>3. Kept(<<>>, 0)
    BY DEF Keeps
  <2> HIDE DEF Kept
  <2> QED BY <2>2, <2>3
<1>9. ASSUME NEW n \in Nat, n \in R PROVE n + 1 \in R
  <2> SUFFICES ASSUME n + 1 <= L PROVE Kept(kept[n + 1], n + 1)
    OBVIOUS
  <2> DEFINE q == kept[n]
             x == list[n + 1]
  <2>0. n + 1 \in 1..L
    BY <1>0
  <2>1. Kept(q, n) /\ x \in T
    <3>1. x \in T
      BY <2>0 DEF L
    <3>2. Kept(q, n)
      <4> HIDE DEF Kept, q
      <4> QED BY <1>0, <1>9 DEF q
    <3> QED BY <3>1, <3>2
  <2>2. kept[n + 1] = IF x \in set THEN Append(q, x) ELSE q
    BY <1>0, <1>7
  <2> HIDE DEF q
  <2>3. CASE x \notin set
    <3>1. kept[n + 1] = q
      BY <2>2, <2>3
    <3>2. \A i \in 1..n : i \in 1 .. n + 1
      OBVIOUS
    <3>3. \A i \in 1 .. n + 1 : list[i] \in set => i \in 1..n
      BY <2>3
    <3> QED BY <2>1, <3>1, <3>2, <3>3 DEF Keeps
  <2>4. CASE x \in set
    <3> DEFINE r == Append(q, x)
    <3>1. /\ r \in Seq(T) /\ Len(r) = Len(q) + 1 /\ r[Len(q) + 1] = x
          /\ Len(q) \in Nat /\ \A k \in 1..Len(q) : r[k] = q[k]
      BY <2>1 DEF Keeps
    <3> HIDE DEF r
    <3>2. kept[n + 1] = r
      BY <2>2, <2>4 DEF r
    <3>3. n + 1 \in 1 .. n + 1 /\ \A i \in 1..n : i \in 1 .. n + 1 /\ i < n + 1
      OBVIOUS
    <3>4. \A k \in 1..Len(r) : k \in 1..Len(q) \/ k = Len(q) + 1
      BY <3>1
    <3>5. \A k \in 1..Len(q) : k \in 1..Len(r)
      BY <3>1
    <3>6. \A i \in 1 .. n + 1 : list[i] \in set => \E k \in 1..Len(r) : r[k] = list[i]
      <4> SUFFICES ASSUME NEW i \in 1 .. n + 1, list[i] \in set
                   PROVE  \E k \in 1..Len(r) : r[k] = list[i]
        OBVIOUS
      <4>1. CASE i = n + 1
        <5>1. Len(q) + 1 \in 1..Len(r)
          BY <3>1
        <5> QED BY <3>1, <4>1, <5>1
      <4>2. CASE i # n + 1
        <5>1. i \in 1..n
          BY <4>2
        <5>2. PICK k \in 1..Len(q) : q[k] = list[i]
          BY <2>1, <5>1 DEF Keeps
        <5> QED BY <3>1, <3>5, <5>2
      <4> QED BY <4>1, <4>2
    <3>7. \A k \in 1..Len(r) : r[k] \in set
      BY <2>1, <2>4, <3>1, <3>4 DEF Keeps
    <3>8. \A k \in 1..Len(r) : \E i \in 1 .. n + 1 : r[k] = list[i]
      <4> SUFFICES ASSUME NEW k \in 1..Len(r)
                   PROVE  \E i \in 1 .. n + 1 : r[k] = list[i]
        OBVIOUS
      <4>1. CASE k \in 1..Len(q)
        <5>1. PICK i \in 1..n : q[k] = list[i]
          BY <2>1, <4>1 DEF Keeps
        <5> QED BY <3>1, <3>3, <4>1, <5>1
      <4>2. CASE k = Len(q) + 1
        BY <3>1, <3>3, <4>2
      <4> QED BY <3>4, <4>1, <4>2
    <3>9. ASSUME NEW k \in 1..Len(r), NEW l \in 1..Len(r), k < l
          PROVE  \E i, j \in 1 .. n + 1 : i < j /\ r[k] = list[i] /\ r[l] = list[j]
      <4>1. k \in 1..Len(q)
        BY <3>1, <3>9
      <4>2. CASE l = Len(q) + 1
        <5>1. PICK i \in 1..n : q[k] = list[i]
          BY <2>1, <4>1 DEF Keeps
        <5> QED BY <3>1, <3>3, <4>1, <4>2, <5>1
      <4>3. CASE l \in 1..Len(q)
        <5>1. PICK i \in 1..n, j \in 1..n : i < j /\ q[k] = list[i] /\ q[l] = list[j]
          BY <2>1, <3>9, <4>1, <4>3 DEF Keeps
        <5> QED BY <3>1, <3>3, <4>1, <4>3, <5>1
      <4> QED BY <3>4, <4>2, <4>3
    <3>10. Kept(r, n + 1)
      BY <3>1, <3>6, <3>7, <3>8, <3>9 DEF Keeps
    <3> HIDE DEF Kept
    <3> QED BY <3>2, <3>10
  <2> QED BY <2>3, <2>4
<1>10. Nat \subseteq R
  <2> HIDE DEF R
  <2> QED BY <1>8, <1>9, SetInduction
<1>11. Kept(Filter(list, set), L)
  <2> HIDE DEF Kept
  <2> QED BY <1>0, <1>6, <1>10
<1> QED BY <1>11 DEF L

\* How near a session is, and a list that has the near ones first.
Near(s) == [cwd |-> 0, project |-> 1, elsewhere |-> 2][place[s]]
Sorted(list) == \A k, l \in 1..Len(list) : k < l => Near(list[k]) <= Near(list[l])

\* What a list of sessions is to be: those of a set, each somewhere, near ones first.
Lists(list, set) ==
  /\ list \in Seq(Sessions) /\ Sorted(list)
  /\ \A k \in 1..Len(list) : list[k] \in set
  /\ \A s \in set : \E k \in 1..Len(list) : list[k] = s

\* Nearness is a number.
LEMMA NearIsNat == ASSUME PeersOK, NEW s \in Sessions PROVE Near(s) \in 0..2
  BY DEF PeersOK, Near, Place

\* A list is filtered to one of those it had that are in the other set.
LEMMA FilterLists ==
  ASSUME PeersOK, NEW list, NEW set, NEW other, Lists(list, set)
  PROVE  Lists(Filter(list, other), set \cap other)
<1>1. list \in Seq(Sessions)
  BY DEF Lists
<1> DEFINE q == Filter(list, other)
<1>2. Keeps(q, Len(list), list, other, Sessions)
  BY <1>1, FilterKeeps
<1> HIDE DEF q
<1>3. Sorted(q)
  <2> SUFFICES ASSUME NEW k \in 1..Len(q), NEW l \in 1..Len(q), k < l
               PROVE  Near(q[k]) <= Near(q[l])
    BY DEF Sorted
  <2>1. PICK i, j \in 1..Len(list) : i < j /\ q[k] = list[i] /\ q[l] = list[j]
    BY <1>2 DEF Keeps
  <2> QED BY <2>1 DEF Lists, Sorted
<1>4. \A k \in 1..Len(q) : q[k] \in set \cap other
  BY <1>2 DEF Lists, Keeps
<1>5. ASSUME NEW s \in set \cap other PROVE \E k \in 1..Len(q) : q[k] = s
  <2>1. PICK i \in 1..Len(list) : list[i] = s
    BY DEF Lists
  <2> QED BY <1>2, <2>1 DEF Keeps
<1> QED BY <1>2, <1>3, <1>4, <1>5 DEF Lists, Keeps, q

\* Whatever the order of the files, listSessions lists those in scope.
LEMMA ListedInScope ==
  ASSUME PeersOK, Live \subseteq Sessions, NEW files \in SetToSeqs(Live)
  PROVE  Lists(ListSessions(files), {s \in Live : Visible(s)})
<1>1. IsFiniteSet(Live)
  BY DelegateAssumption, FS_Subset
<1> DEFINE n == Cardinality(Live)
<1>2. n \in Nat /\ IsFiniteSet(1..n) /\ Cardinality(1..n) = n
  BY <1>1, FS_CardinalityType, FS_Interval
<1>3. files \in Injection(1..n, Live)
  BY DEF SetToSeqs, Injection, IsInjective
<1>4. files \in Surjection(1..n, Live)
  BY <1>1, <1>2, <1>3, FS_Injection
<1>5. /\ files \in Seq(Sessions) /\ Len(files) = n
      /\ \A i \in 1..n : files[i] \in Live
      /\ \A s \in Live : \E i \in 1..n : files[i] = s
  <2>1. files \in [1..n -> Live]
    BY <1>3 DEF Injection
  <2> QED BY <1>2, <1>4, <2>1 DEF Surjection
<1> DEFINE of(p) == {s \in Live : Visible(s) /\ place[s] = p}
           r(p) == Filter(files, of(p))
<1>6. ASSUME NEW p
      PROVE  /\ r(p) \in Seq(Sessions)
             /\ \A k \in 1..Len(r(p)) : r(p)[k] \in of(p)
             /\ \A s \in of(p) : \E k \in 1..Len(r(p)) : r(p)[k] = s
  <2> HIDE DEF n
  <2>1. Keeps(r(p), Len(files), files, of(p), Sessions)
    <3> HIDE DEF of
    <3> QED BY <1>5, FilterKeeps
  <2>2. ASSUME NEW s \in of(p) PROVE \E k \in 1..Len(r(p)) : r(p)[k] = s
    <3>1. PICK i \in 1..n : files[i] = s
      BY <1>5
    <3> QED BY <1>5, <2>1, <3>1 DEF Keeps
  <2> QED BY <2>1, <2>2 DEF Keeps
<1> DEFINE a == r("cwd")
           b == r("project")
           c == r("elsewhere")
           all == a \o b \o c
<1>7. /\ a \in Seq(Sessions) /\ b \in Seq(Sessions) /\ c \in Seq(Sessions)
      /\ \A k \in 1..Len(a) : a[k] \in of("cwd")
      /\ \A k \in 1..Len(b) : b[k] \in of("project")
      /\ \A k \in 1..Len(c) : c[k] \in of("elsewhere")
      /\ \A s \in of("cwd") : \E k \in 1..Len(a) : a[k] = s
      /\ \A s \in of("project") : \E k \in 1..Len(b) : b[k] = s
      /\ \A s \in of("elsewhere") : \E k \in 1..Len(c) : c[k] = s
  BY <1>6
<1> HIDE DEF r, a, b, c
<1>8. /\ all \in Seq(Sessions) /\ Len(all) = Len(a) + Len(b) + Len(c)
      /\ \A k \in 1..Len(a) : all[k] = a[k]
      /\ \A k \in 1..Len(b) : all[Len(a) + k] = b[k]
      /\ \A k \in 1..Len(c) : all[Len(a) + Len(b) + k] = c[k]
      /\ Len(a) \in Nat /\ Len(b) \in Nat /\ Len(c) \in Nat
  <2> HIDE DEF of
  <2> QED BY <1>7
<1> HIDE DEF all
<1>9. ASSUME NEW k \in 1..Len(all)
      PROVE  \/ k <= Len(a) /\ all[k] \in of("cwd")
             \/ k > Len(a) /\ k <= Len(a) + Len(b) /\ all[k] \in of("project")
             \/ k > Len(a) + Len(b) /\ all[k] \in of("elsewhere")
  <2> HIDE DEF of
  <2>1. CASE k <= Len(a)
    <3>1. k \in 1..Len(a)
      BY <1>8, <2>1
    <3> QED BY <1>7, <1>8, <2>1, <3>1
  <2>2. CASE k > Len(a) /\ k <= Len(a) + Len(b)
    <3>1. k - Len(a) \in 1..Len(b) /\ Len(a) + (k - Len(a)) = k
      BY <1>8, <2>2
    <3> QED BY <1>7, <1>8, <2>2, <3>1
  <2>3. CASE k > Len(a) + Len(b)
    <3>1. k - (Len(a) + Len(b)) \in 1..Len(c) /\ Len(a) + Len(b) + (k - (Len(a) + Len(b))) = k
      BY <1>8, <2>3
    <3> QED BY <1>7, <1>8, <2>3, <3>1
  <2> QED BY <1>8, <2>1, <2>2, <2>3
<1>10. Sorted(all)
  <2> SUFFICES ASSUME NEW k \in 1..Len(all), NEW l \in 1..Len(all), k < l
               PROVE  Near(all[k]) <= Near(all[l])
    BY DEF Sorted
  <2>1. \A s : /\ s \in of("cwd") => Near(s) = 0
               /\ s \in of("project") => Near(s) = 1
               /\ s \in of("elsewhere") => Near(s) = 2
    BY DEF Near
  <2> HIDE DEF of
  <2> QED BY <1>8, <1>9, <2>1
<1>11. \A k \in 1..Len(all) : all[k] \in Live /\ Visible(all[k])
  BY <1>9
<1>12. ASSUME NEW s \in Live, Visible(s) PROVE \E k \in 1..Len(all) : all[k] = s
  <2>1. s \in of("cwd") \/ s \in of("project") \/ s \in of("elsewhere")
    BY <1>12 DEF PeersOK, Place
  <2> HIDE DEF of
  <2>2. CASE s \in of("cwd")
    <3>1. PICK k \in 1..Len(a) : a[k] = s
      BY <1>7, <2>2
    <3>2. k \in 1..Len(all)
      BY <1>8
    <3> QED BY <1>8, <3>1, <3>2
  <2>3. CASE s \in of("project")
    <3>1. PICK k \in 1..Len(b) : b[k] = s
      BY <1>7, <2>3
    <3>2. Len(a) + k \in 1..Len(all)
      BY <1>8
    <3> QED BY <1>8, <3>1, <3>2
  <2>4. CASE s \in of("elsewhere")
    <3>1. PICK k \in 1..Len(c) : c[k] = s
      BY <1>7, <2>4
    <3>2. Len(a) + Len(b) + k \in 1..Len(all)
      BY <1>8
    <3> QED BY <1>8, <3>1, <3>2
  <2> QED BY <2>1, <2>2, <2>3, <2>4
<1>13. Lists(all, {s \in Live : Visible(s)})
  BY <1>8, <1>10, <1>11, <1>12 DEF Lists
<1>14. ListSessions(files) = all
  BY DEF ListSessions, all, a, b, c, r
<1> QED BY <1>13, <1>14

\* selectPeer picks one that is as good as any.
LEMMA BestIsSelected ==
  ASSUME PeersOK, registry \in [Live -> Entry], Live \subseteq Sessions,
         NEW pool, NEW set, set \subseteq Live, Lists(pool, set), pool # <<>>
  PROVE  SelectPeer(pool) \in set /\ \A t \in set : AsGood(SelectPeer(pool), t)
<1> DEFINE K == 1..Len(pool)
           e(i) == registry[pool[i]]
           Before(i, j) == IF e(i).idle # e(j).idle THEN e(i).idle
                           ELSE e(i).tokens < e(j).tokens
                                \/ (e(i).tokens = e(j).tokens /\ i < j)
<1>1. /\ pool \in Seq(Sessions) /\ Len(pool) \in Nat /\ 1 \in K /\ K \subseteq Nat
      /\ DOMAIN pool = K
  BY DEF Lists
<1>2. \A i \in K : pool[i] \in set /\ pool[i] \in Sessions /\ e(i) \in Entry
  BY DEF Lists
<1>3. \A i \in K : e(i).tokens \in Nat
  BY <1>2, DelegateAssumption DEF Entry
<1>4. \A i \in K : e(i).idle \in BOOLEAN
  BY <1>2 DEF Entry
<1> DEFINE rested == {i \in K : e(i).idle}
           best == IF rested # {} THEN rested ELSE K
           usage == {e(i).tokens : i \in best}
<1>5. \E i \in K : i \in best
  BY <1>1
<1>6. PICK m \in usage : \A k \in usage : m <= k
  <2>1. usage \subseteq Nat
    BY <1>3
  <2>2. usage # {}
    BY <1>5
  <2> HIDE DEF usage
  <2> QED BY <2>1, <2>2, LeastNumber
<1> DEFINE fewest == {i \in best : e(i).tokens = m}
<1>7. PICK b \in fewest : \A k \in fewest : b <= k
  <2>1. fewest \subseteq Nat
    BY <1>1
  <2>2. fewest # {}
    BY <1>6
  <2> HIDE DEF fewest
  <2> QED BY <2>1, <2>2, LeastNumber
<1>8. b \in K /\ b \in best
  BY <1>7
<1> HIDE DEF e
<1>9. \A j \in K \ {b} : Before(b, j)
  <2> SUFFICES ASSUME NEW j \in K, j # b PROVE Before(b, j)
    OBVIOUS
  <2>1. CASE e(b).idle # e(j).idle
    <3>1. e(b).idle
      BY <1>4, <1>8, <2>1
    <3> QED BY <2>1, <3>1
  <2>2. CASE e(b).idle = e(j).idle
    <3>1. j \in best
      BY <1>4, <1>8, <2>2
    <3>2. e(j).tokens \in usage
      BY <3>1
    <3>3. m <= e(j).tokens /\ e(b).tokens = m
      BY <1>6, <1>7, <3>2
    <3>4. e(j).tokens = m => b <= j
      BY <1>7, <3>1
    <3>5. e(b).tokens < e(j).tokens \/ (e(b).tokens = e(j).tokens /\ b < j)
      <4> HIDE DEF best, usage, fewest
      <4>1. m \in Nat /\ e(j).tokens \in Nat /\ b \in Nat /\ j \in Nat
        BY <1>1, <1>3, <1>8, <3>3
      <4> QED BY <3>3, <3>4, <4>1
    <3> QED BY <2>2, <3>5
  <2> QED BY <2>1, <2>2
<1> HIDE DEF best, usage, fewest
<1> DEFINE i == CHOOSE k \in K : \A j \in K \ {k} : Before(k, j)
<1>10. i \in K /\ \A j \in K \ {i} : Before(i, j)
  <2> HIDE DEF Before
  <2> QED BY <1>8, <1>9
<1>11. SelectPeer(pool) = pool[i]
  BY <1>1 DEF SelectPeer, e
<1> HIDE DEF i
<1>12. ASSUME NEW t \in set PROVE AsGood(pool[i], t)
  <2>1. PICK j \in K : pool[j] = t
    BY DEF Lists
  <2>2. Near(pool[i]) \in Nat /\ Near(pool[j]) \in Nat
    BY <1>2, <1>10, NearIsNat
  <2>3. CASE j = i
    <3>1. e(i).idle = e(j).idle /\ e(i).tokens = e(j).tokens /\ Near(pool[i]) <= Near(pool[j])
      BY <2>2, <2>3
    <3> QED BY <2>1, <3>1 DEF AsGood, Near, e
  <2>4. CASE j # i
    <3>1. Before(i, j)
      BY <1>10, <2>4
    <3>2. CASE e(i).idle # e(j).idle
      BY <1>4, <1>10, <2>1, <3>1, <3>2 DEF AsGood, e
    <3>3. CASE e(i).idle = e(j).idle /\ e(i).tokens < e(j).tokens
      BY <2>1, <3>3 DEF AsGood, e
    <3>4. CASE e(i).idle = e(j).idle /\ e(i).tokens = e(j).tokens /\ i < j
      <4>1. Near(pool[i]) <= Near(pool[j])
        BY <1>10, <3>4 DEF Lists, Sorted
      <4> QED BY <2>1, <3>4, <4>1 DEF AsGood, Near, e
    <3> QED BY <3>1, <3>2, <3>3, <3>4
  <2> QED BY <2>3, <2>4
<1> QED BY <1>2, <1>10, <1>11, <1>12

\* What Pick picks.
LEMMA PickIsBest ==
  ASSUME IInv, NEW files \in SetToSeqs(Live), ListSessions(files) # <<>>
  PROVE  LET inScope == {s \in Live : Visible(s)}
             hits    == {s \in inScope : Matches(s)}
             pool    == IF hits = {} THEN inScope ELSE hits
             best    == SelectPeer(Pool(ListSessions(files)))
         IN best \in pool /\ \A t \in pool : AsGood(best, t)
<1> DEFINE inScope == {s \in Live : Visible(s)}
           hits    == {s \in inScope : Matches(s)}
           pool    == IF hits = {} THEN inScope ELSE hits
           all     == ListSessions(files)
           matches == {s \in Live : Matches(s)}
           found   == Filter(all, matches)
<1>1. registry \in [Live -> Entry] /\ Live \subseteq Sessions /\ PeersOK
  BY DEF IInv, TypeOK, Live
<1>2. Lists(all, inScope)
  BY <1>1, ListedInScope
<1>3. Lists(found, inScope \cap matches)
  <2> HIDE DEF all, matches, inScope
  <2> QED BY <1>1, <1>2, FilterLists
<1>4. inScope \cap matches = hits
  OBVIOUS
<1>5. Pool(all) = IF hint # None /\ found # <<>> THEN found ELSE all
  BY DEF Pool
<1> HIDE DEF all, found, matches
<1>6. found # <<>> <=> hits # {}
  <2>1. found # <<>> => 1 \in 1..Len(found)
    BY <1>3 DEF Lists
  <2>2. \A k \in 1..Len(found) : found # <<>>
    BY <1>3 DEF Lists
  <2> HIDE DEF hits
  <2> QED BY <1>3, <1>4, <2>1, <2>2 DEF Lists
<1>7. hint = None => hits = {}
  BY <1>1, DelegateAssumption DEF Matches, PeersOK
<1>8. Lists(Pool(all), pool) /\ Pool(all) # <<>>
  <2> HIDE DEF hits, inScope
  <2> QED BY <1>2, <1>3, <1>4, <1>5, <1>6, <1>7 DEF all
<1>9. pool \subseteq Live
  OBVIOUS
<1> HIDE DEF pool
<1>10. SelectPeer(Pool(all)) \in pool /\ \A t \in pool : AsGood(SelectPeer(Pool(all)), t)
  BY <1>1, <1>8, <1>9, BestIsSelected
<1> QED BY <1>10 DEF all, pool

\* Whom resolveTarget finds is there, in scope, and the only one of that name.
LEMMA Resolved ==
  ASSUME NEW target, NEW r, r = ResolveTarget(target)
  PROVE  \/ r = None
         \/ /\ r \in Live /\ Visible(r) /\ target \in {r, name[r]}
            /\ \A s \in Live : Visible(s) /\ target \in {s, name[s]} => s = r
<1> DEFINE hits == {s \in Live : Visible(s) /\ target \in {s, name[s]}}
<1>1. CASE \E s \in hits : hits = {s}
  <2>1. PICK s \in hits : hits = {s}
    BY <1>1
  <2>2. r = s
    BY <1>1, <2>1 DEF ResolveTarget
  <2> QED BY <2>1, <2>2
<1>2. CASE ~\E s \in hits : hits = {s}
  BY <1>2 DEF ResolveTarget
<1> QED BY <1>1, <1>2

\* Before runDelegate begins, all is as the invariant has it.
LEMMA InitInv == Init => IInv
<1> SUFFICES ASSUME Init PROVE IInv
  OBVIOUS
<1>1. registry \in UNION {[alive -> Entry] : alive \in SUBSET Sessions}
  BY DEF Init
<1> QED BY <1>1 DEF Init, IInv, TypeOK, PeersOK, PickedInScope, RecordOK, AnswerBeatsTimeout

\* The registry in the hands of other sessions.
LEMMA RegistryTyped ==
  ASSUME TypeOK, RegistryChanges
  PROVE  registry' \in UNION {[alive -> Entry] : alive \in SUBSET Sessions}
<1>1. registry \in [Live -> Entry] /\ Live \subseteq Sessions
  BY DEF TypeOK, Live
<1>2. ASSUME NEW s \in Sessions, NEW e \in Entry,
             registry' = [t \in Live \cup {s} |-> IF t = s THEN e ELSE registry[t]]
      PROVE  registry' \in [Live \cup {s} -> Entry]
  BY <1>1, <1>2
<1>3. ASSUME NEW s \in Live, registry' = [t \in Live \ {s} |-> registry[t]]
      PROVE  registry' \in [Live \ {s} -> Entry]
  BY <1>1, <1>3
<1>4. ASSUME NEW alive, alive \subseteq Sessions, registry' \in [alive -> Entry]
      PROVE  registry' \in UNION {[a -> Entry] : a \in SUBSET Sessions}
  BY <1>4
<1>5. CASE \E s \in Sessions, e \in Entry :
             registry' = [t \in Live \cup {s} |-> IF t = s THEN e ELSE registry[t]]
  <2>1. PICK s \in Sessions, e \in Entry :
          registry' = [t \in Live \cup {s} |-> IF t = s THEN e ELSE registry[t]]
    BY <1>5
  <2> QED BY <1>1, <1>2, <1>4, <2>1
<1>6. CASE \E s \in Live : registry' = [t \in Live \ {s} |-> registry[t]]
  <2>1. PICK s \in Live : registry' = [t \in Live \ {s} |-> registry[t]]
    BY <1>6
  <2> QED BY <1>1, <1>3, <1>4, <2>1
<1> QED BY <1>5, <1>6 DEF RegistryChanges

\* Every step keeps the invariant.
LEMMA NextInv == IInv /\ [Next]_vars => IInv'
<1> SUFFICES ASSUME IInv, [Next]_vars PROVE IInv'
  OBVIOUS
<1> USE DEF IInv, TypeOK, PeersOK, PickedInScope, RecordOK, AnswerBeatsTimeout, peers, Closed, None
<1>1. CASE Pick
  <2>1. PICK files \in SetToSeqs(Live) :
          IF ListSessions(files) = <<>>
          THEN Ends("no_idle_peer") /\ UNCHANGED picked
          ELSE /\ picked' = SelectPeer(Pool(ListSessions(files)))
               /\ pc' = "picked" /\ UNCHANGED result
    BY <1>1 DEF Pick
  <2>2. ListSessions(files) # <<>> => picked' \in Live /\ Visible(picked')
    BY <2>1, PickIsBest
  <2>3. Live \subseteq Sessions
    BY DEF Live
  <2> HIDE DEF Live
  <2> QED BY <1>1, <2>1, <2>2, <2>3 DEF Pick, Ends, Visible
<1>2. CASE LookUp
  <2>1. asked' \in Sessions \cup {None}
    BY <1>2, Resolved DEF LookUp, Live
  <2> QED BY <1>2, <2>1 DEF LookUp, Ends, Visible
<1>3. CASE WriteFails
  <2>1. TypeOK' /\ PeersOK'
    BY <1>3 DEF WriteFails, Ends
  <2>2. PickedInScope'
    BY <1>3 DEF WriteFails, Ends, Visible
  <2>3. RecordOK' /\ AnswerBeatsTimeout'
    BY <1>3 DEF WriteFails, Ends
  <2> HIDE DEF TypeOK, PeersOK, PickedInScope, RecordOK, AnswerBeatsTimeout
  <2> QED BY <2>1, <2>2, <2>3
<1>4. CASE Written
  <2>1. TypeOK' /\ PeersOK'
    BY <1>4 DEF Written
  <2>2. PickedInScope'
    BY <1>4 DEF Written
  <2>3. RecordOK' /\ AnswerBeatsTimeout'
    BY <1>4 DEF Written
  <2> HIDE DEF TypeOK, PeersOK, PickedInScope, RecordOK, AnswerBeatsTimeout
  <2> QED BY <2>1, <2>2, <2>3
<1>5. CASE EnqueueReturns
  BY <1>5 DEF EnqueueReturns, Ends, Visible
<1>6. CASE Poll
  BY <1>6 DEF Poll, Ends, Visible
<1>7. CASE TimePasses
  <2>1. TypeOK' /\ PeersOK'
    BY <1>7 DEF TimePasses
  <2>2. PickedInScope'
    BY <1>7 DEF TimePasses, Visible
  <2>3. RecordOK' /\ AnswerBeatsTimeout'
    BY <1>7 DEF TimePasses
  <2> QED BY <2>1, <2>2, <2>3
<1>8. CASE AskProgresses
  <2>1. /\ pc \in {"asked", "polling"} /\ rec' \in {"running", "answered", "failed"}
        /\ inTime' => inTime \/ rec' \in Closed
        /\ rec \in {"queued", "running", "answered"} /\ inTime' \in BOOLEAN
        /\ UNCHANGED <<name, place, registry, hint, pc, picked, asked, handoff, late, result>>
    BY <1>8 DEF AskProgresses
  <2>2. rec = "answered" => rec' = "failed"
    BY <1>8 DEF AskProgresses
  <2>3. inTime' => rec' \in Closed
    BY <2>1, <2>2
  <2>4. TypeOK' /\ PeersOK'
    BY <2>1
  <2>5. PickedInScope'
    BY <2>1
  <2>6. result' # "timeout" /\ rec' # None /\ (handoff' => pc' \in {"polling", "done"})
    BY <2>1 DEF None
  <2>7. RecordOK' /\ AnswerBeatsTimeout'
    BY <2>1, <2>3, <2>6
  <2> HIDE DEF TypeOK, PeersOK, PickedInScope, RecordOK, AnswerBeatsTimeout
  <2> QED BY <2>4, <2>5, <2>7
<1>9. CASE RegistryChanges
  <2>1. registry' \in UNION {[alive -> Entry] : alive \in SUBSET Sessions}
    BY <1>9, RegistryTyped DEF IInv
  <2> QED BY <1>9, <2>1 DEF RegistryChanges, Visible
<1>10. CASE UNCHANGED vars
  BY <1>10 DEF vars, Visible
<1> QED BY <1>1, <1>2, <1>3, <1>4, <1>5, <1>6, <1>7, <1>8, <1>9, <1>10 DEF Next

\* So it holds in every state.
LEMMA Invariance == Spec => []IInv
<1> QED BY InitInv, NextInv, PTL DEF Spec

\* Every variable keeps to its domain, and the audit entry is written for an ask
\* that has a record.
THEOREM DelegateTypeCorrect == Spec => []TypeOK
<1>1. IInv => TypeOK
  BY DEF IInv
<1> QED BY <1>1, Invariance, PTL

\* The blocking call never reports a timeout for an ask that was answered, or
\* had failed, before: the poll looks at the record first.
THEOREM AnswersBeatTimeout == Spec => []AnswerBeatsTimeout
<1>1. IInv => AnswerBeatsTimeout
  BY DEF IInv
<1> QED BY <1>1, Invariance, PTL

\* metro_delegate picks the best peer in scope, whatever the order of the files,
\* and nobody else is asked in its place while it is there.
THEOREM BestIsAsked == Spec => BestPeerIsAsked
<1> DEFINE Best == /\ picked' # picked =>
                        LET inScope == {s \in Live : Visible(s)}
                            hits    == {s \in inScope : Matches(s)}
                            pool    == IF hits = {} THEN inScope ELSE hits
                        IN picked' \in pool /\ \A t \in pool : AsGood(picked', t)
                   /\ asked' # asked =>
                        \/ asked' \in {picked, None}
                        \/ picked \notin Live /\ name[asked'] = name[picked]
<1>1. IInv /\ [Next]_vars => [Best]_vars
  <2> SUFFICES ASSUME IInv, Next PROVE Best
    OBVIOUS
  <2>1. CASE Pick
    <3>1. PICK files \in SetToSeqs(Live) :
            IF ListSessions(files) = <<>>
            THEN UNCHANGED picked
            ELSE picked' = SelectPeer(Pool(ListSessions(files)))
      BY <2>1 DEF Pick
    <3>2. asked' = asked
      BY <2>1 DEF Pick
    <3> QED BY <3>1, <3>2, PickIsBest
  <2>2. CASE LookUp
    <3>1. picked' = picked /\ picked \in Sessions /\ Visible(picked)
      BY <2>2 DEF LookUp, IInv, PickedInScope
    <3>2. name[picked] \in Names
      BY <3>1 DEF IInv, PeersOK
    <3>3. \/ asked' = None
          \/ /\ asked' \in Live /\ name[picked] \in {asked', name[asked']}
             /\ \A s \in Live : Visible(s) /\ name[picked] \in {s, name[s]} => s = asked'
      BY <2>2, Resolved DEF LookUp
    <3>4. asked' \in Live => asked' \in Sessions
      BY DEF IInv, TypeOK, Live
    <3>5. asked' \in Live => name[picked] # asked'
      BY <3>2, <3>4, DelegateAssumption
    <3>6. picked \in Live /\ asked' # None => asked' = picked
      BY <3>1, <3>3
    <3> QED BY <3>1, <3>3, <3>5, <3>6
  <2>3. CASE ~Pick /\ ~LookUp
    <3>1. picked' = picked /\ asked' = asked
      BY <2>3 DEF Next, WriteFails, Written, EnqueueReturns, Poll, TimePasses,
         AskProgresses, RegistryChanges
    <3> QED BY <3>1
  <2> QED BY <2>1, <2>2, <2>3
<1> QED BY <1>1, Invariance, PTL DEF Spec, BestPeerIsAsked

----------------------------------------------------------------------------
(* metro_compact *)

\* Each waiter has a timer, and nothing has resolved its promise yet; a request
\* that nothing has resolved is in the map, unless the session shuts down.
WaitersOK ==
  /\ WaitersHaveTimers
  /\ \A r \in timer : wait[r] = Nothing
  /\ \A r \in Requests : call[r] \in {"writing", "landed", "waiting"} /\ wait[r] = Nothing /\ ~closed
                           => r \in waiter

\* A request is at one place at a time, and has no verdict before the last one.
OnceOK ==
  /\ \A r \in Requests : call[r] \in {"idle", "resolving"} => wait[r] = Nothing /\ r \notin timer
  /\ \A r \in Requests : call[r] \in {"idle", "resolving", "writing"} =>
       r \notin requests /\ r \notin compacting /\ verdict[r] = Nothing
  /\ \A r \in requests : r \notin compacting /\ verdict[r] = Nothing
  /\ \A r \in compacting : verdict[r] = Nothing

\* Responses, written or being written, and resolved promises tell the verdict.
MailOK ==
  /\ \A m \in replying \cup responses : verdict[m.id] = m.verdict
  /\ \A r \in Requests : wait[r] \in Verdicts => verdict[r] = wait[r]

\* Only a call that has returned has an outcome.
ResultsOK == \A r \in Requests : call[r] # "returned" => outcome[r] = Nothing

CInv == CompactTypeOK /\ WaitersOK /\ OnceOK /\ MailOK /\ ResultsOK /\ OutcomeIsTrue

USE DEF Verdicts, Response, Calling, Nothing

\* Nothing is under way at first.
LEMMA InitCInv == CompactInit => CInv
BY DEF CompactInit, CInv, CompactTypeOK, WaitersOK, WaitersHaveTimers, OnceOK, MailOK, ResultsOK, OutcomeIsTrue

\* Every step keeps the types.
LEMMA StepType == CInv /\ [CompactNext]_compactVars => CompactTypeOK'
<1> SUFFICES ASSUME CInv, [CompactNext]_compactVars PROVE CompactTypeOK'
  OBVIOUS
<1> USE DEF CInv, CompactTypeOK
<1>1. ASSUME NEW r \in Requests, RequestSteps(r) PROVE CompactTypeOK'
  BY <1>1 DEF RequestSteps, RequestCompact, Fail, Register, RequestLands, RequestWritten, Returns, Timeout,
     receiverVars
<1>2. ASSUME NEW r \in Requests, OnCompactRequest(r) \/ CompactEnds(r) PROVE CompactTypeOK'
  BY <1>2 DEF OnCompactRequest, CompactEnds, Respond, callerVars
<1>3. ASSUME NEW m \in responses, Resolve(m) PROVE CompactTypeOK'
  BY <1>3 DEF Resolve, receiverVars
<1>4. ASSUME NEW m \in replying, ResponseLands(m) PROVE CompactTypeOK'
  BY <1>4 DEF ResponseLands, callerVars
<1>5. CASE Shutdown \/ AgentTurns \/ Crash
  BY <1>5 DEF Shutdown, AgentTurns, Crash, callerVars, receiverVars
<1>6. CASE UNCHANGED compactVars
  BY <1>6 DEF compactVars, callerVars, receiverVars
<1> QED BY <1>1, <1>2, <1>3, <1>4, <1>5, <1>6 DEF CompactNext

\* A waiter comes and goes with its timer; only clear() takes one without the other.
LEMMA StepWaiters == CInv /\ [CompactNext]_compactVars => WaitersOK'
<1> SUFFICES ASSUME CInv, [CompactNext]_compactVars PROVE WaitersOK'
  OBVIOUS
<1> USE DEF CInv, CompactTypeOK, WaitersOK, WaitersHaveTimers, OnceOK
<1>1. ASSUME NEW r \in Requests, RequestSteps(r) PROVE WaitersOK'
  <2>1. CASE RequestCompact(r) \/ Fail(r)
    BY <2>1 DEF RequestCompact, Fail, receiverVars
  <2>2. CASE Register(r) \/ RequestLands(r) \/ RequestWritten(r)
    BY <2>2 DEF Register, RequestLands, RequestWritten, receiverVars
  <2>3. CASE Returns(r) \/ Timeout(r)
    BY <2>3 DEF Returns, Timeout, receiverVars
  <2> QED BY <1>1, <2>1, <2>2, <2>3 DEF RequestSteps
<1>2. ASSUME NEW r \in Requests, OnCompactRequest(r) \/ CompactEnds(r) PROVE WaitersOK'
  BY <1>2 DEF OnCompactRequest, CompactEnds, Respond, callerVars
<1>3. ASSUME NEW m \in responses, Resolve(m) PROVE WaitersOK'
  BY <1>3 DEF Resolve, receiverVars
<1>4. ASSUME NEW m \in replying, ResponseLands(m) PROVE WaitersOK'
  BY <1>4 DEF ResponseLands, callerVars
<1>5. CASE Shutdown \/ AgentTurns \/ Crash
  BY <1>5 DEF Shutdown, AgentTurns, Crash, callerVars, receiverVars
<1>6. CASE UNCHANGED compactVars
  BY <1>6 DEF compactVars, callerVars, receiverVars
<1> QED BY <1>1, <1>2, <1>3, <1>4, <1>5, <1>6 DEF CompactNext

\* A request moves on, and is never at two places.
LEMMA StepOnce == CInv /\ [CompactNext]_compactVars => OnceOK'
<1> SUFFICES ASSUME CInv, [CompactNext]_compactVars PROVE OnceOK'
  OBVIOUS
<1> USE DEF CInv, CompactTypeOK, OnceOK, WaitersOK, WaitersHaveTimers
<1>1. ASSUME NEW r \in Requests, RequestSteps(r) PROVE OnceOK'
  <2>1. CASE RequestCompact(r) \/ Fail(r)
    BY <2>1 DEF RequestCompact, Fail, receiverVars
  <2>2. CASE Register(r) \/ RequestLands(r) \/ RequestWritten(r)
    BY <2>2 DEF Register, RequestLands, RequestWritten, receiverVars
  <2>3. CASE Returns(r) \/ Timeout(r)
    BY <2>3 DEF Returns, Timeout, receiverVars
  <2> QED BY <1>1, <2>1, <2>2, <2>3 DEF RequestSteps
<1>2. ASSUME NEW r \in Requests, OnCompactRequest(r) \/ CompactEnds(r) PROVE OnceOK'
  BY <1>2 DEF OnCompactRequest, CompactEnds, Respond, callerVars
<1>3. ASSUME NEW m \in responses, Resolve(m) PROVE OnceOK'
  BY <1>3 DEF Resolve, receiverVars
<1>4. ASSUME NEW m \in replying, ResponseLands(m) PROVE OnceOK'
  BY <1>4 DEF ResponseLands, callerVars
<1>5. CASE Shutdown \/ AgentTurns \/ Crash
  BY <1>5 DEF Shutdown, AgentTurns, Crash, callerVars, receiverVars
<1>6. CASE UNCHANGED compactVars
  BY <1>6 DEF compactVars, callerVars, receiverVars
<1> QED BY <1>1, <1>2, <1>3, <1>4, <1>5, <1>6 DEF CompactNext

\* A verdict is new when it is reached, so no message can contradict it.
LEMMA StepMail == CInv /\ [CompactNext]_compactVars => MailOK'
<1> SUFFICES ASSUME CInv, [CompactNext]_compactVars PROVE MailOK'
  OBVIOUS
<1> USE DEF CInv, CompactTypeOK, MailOK, OnceOK
<1>1. ASSUME NEW r \in Requests, RequestSteps(r) PROVE MailOK'
  <2>1. CASE RequestCompact(r) \/ Fail(r)
    BY <2>1 DEF RequestCompact, Fail, receiverVars
  <2>2. CASE Register(r) \/ RequestLands(r) \/ RequestWritten(r)
    BY <2>2 DEF Register, RequestLands, RequestWritten, receiverVars
  <2>3. CASE Returns(r) \/ Timeout(r)
    BY <2>3 DEF Returns, Timeout, receiverVars
  <2> QED BY <1>1, <2>1, <2>2, <2>3 DEF RequestSteps
<1>2. ASSUME NEW r \in Requests, OnCompactRequest(r) \/ CompactEnds(r) PROVE MailOK'
  BY <1>2 DEF OnCompactRequest, CompactEnds, Respond, callerVars
<1>3. ASSUME NEW m \in responses, Resolve(m) PROVE MailOK'
  BY <1>3 DEF Resolve, receiverVars
<1>4. ASSUME NEW m \in replying, ResponseLands(m) PROVE MailOK'
  BY <1>4 DEF ResponseLands, callerVars
<1>5. CASE Shutdown \/ AgentTurns \/ Crash
  BY <1>5 DEF Shutdown, AgentTurns, Crash, callerVars, receiverVars
<1>6. CASE UNCHANGED compactVars
  BY <1>6 DEF compactVars, callerVars, receiverVars
<1> QED BY <1>1, <1>2, <1>3, <1>4, <1>5, <1>6 DEF CompactNext

\* What requestCompact returns is what its promise was resolved with.
LEMMA StepOutcome == CInv /\ [CompactNext]_compactVars => (ResultsOK /\ OutcomeIsTrue)'
<1> SUFFICES ASSUME CInv, [CompactNext]_compactVars PROVE (ResultsOK /\ OutcomeIsTrue)'
  OBVIOUS
<1> USE DEF CInv, CompactTypeOK, ResultsOK, OutcomeIsTrue, MailOK, OnceOK
<1>1. ASSUME NEW r \in Requests, RequestSteps(r) PROVE (ResultsOK /\ OutcomeIsTrue)'
  <2>1. CASE RequestCompact(r) \/ Fail(r)
    BY <2>1 DEF RequestCompact, Fail, receiverVars
  <2>2. CASE Register(r) \/ RequestLands(r) \/ RequestWritten(r)
    BY <2>2 DEF Register, RequestLands, RequestWritten, receiverVars
  <2>3. CASE Returns(r) \/ Timeout(r)
    BY <2>3 DEF Returns, Timeout, receiverVars
  <2> QED BY <1>1, <2>1, <2>2, <2>3 DEF RequestSteps
<1>2. ASSUME NEW r \in Requests, OnCompactRequest(r) \/ CompactEnds(r) PROVE (ResultsOK /\ OutcomeIsTrue)'
  BY <1>2 DEF OnCompactRequest, CompactEnds, Respond, callerVars
<1>3. ASSUME NEW m \in responses, Resolve(m) PROVE (ResultsOK /\ OutcomeIsTrue)'
  BY <1>3 DEF Resolve, receiverVars
<1>4. ASSUME NEW m \in replying, ResponseLands(m) PROVE (ResultsOK /\ OutcomeIsTrue)'
  BY <1>4 DEF ResponseLands, callerVars
<1>5. CASE Shutdown \/ AgentTurns \/ Crash
  BY <1>5 DEF Shutdown, AgentTurns, Crash, callerVars, receiverVars
<1>6. CASE UNCHANGED compactVars
  BY <1>6 DEF compactVars, callerVars, receiverVars
<1> QED BY <1>1, <1>2, <1>3, <1>4, <1>5, <1>6 DEF CompactNext

\* The invariant holds in every reachable state.
LEMMA CompactInvariance == CompactSpec => []CInv
<1>1. CInv /\ [CompactNext]_compactVars => CInv'
  BY StepType, StepWaiters, StepOnce, StepMail, StepOutcome DEF CInv
<1> QED BY <1>1, InitCInv, PTL DEF CompactSpec

\* Every variable keeps to its domain.
THEOREM CompactTypeCorrect == CompactSpec => []CompactTypeOK
<1>1. CInv => CompactTypeOK
  BY DEF CInv
<1> QED BY <1>1, CompactInvariance, PTL

\* No waiter is left without the timer that removes it: the map of index.ts
\* does not grow with requests nobody answers.
THEOREM WaitersGo == CompactSpec => []WaitersHaveTimers
<1>1. CInv => WaitersHaveTimers
  BY DEF CInv, WaitersOK
<1> QED BY <1>1, CompactInvariance, PTL

\* metro_compact never reports a compaction that did not happen for this very
\* request, nor a refusal that was not given.
THEOREM OutcomesAreTrue == CompactSpec => []OutcomeIsTrue
<1>1. CInv => OutcomeIsTrue
  BY DEF CInv
<1> QED BY <1>1, CompactInvariance, PTL

\* An answer that comes before the timeout and the shutdown is the outcome,
\* even if it comes before the write of the request has returned.
THEOREM AnswersCount == CompactSpec => AnswerInTimeCounts
<1> DEFINE Counts == \A m \in Response :
       m \in responses /\ m \notin responses' /\ call[m.id] \in Calling
         /\ wait[m.id] = Nothing /\ ~closed
       => wait'[m.id] = m.verdict
<1>1. CInv /\ [CompactNext]_compactVars => [Counts]_compactVars
  <2> SUFFICES ASSUME CInv, CompactNext, NEW m \in Response,
                      m \in responses, m \notin responses', call[m.id] \in Calling,
                      wait[m.id] = Nothing, ~closed
               PROVE  wait'[m.id] = m.verdict
    OBVIOUS
  <2> USE DEF CInv, CompactTypeOK
  <2>1. m.id \in waiter
    BY DEF MailOK, OnceOK, WaitersOK
  <2>2. Resolve(m)
    <3>1. ASSUME NEW r \in Requests, RequestSteps(r) \/ OnCompactRequest(r) \/ CompactEnds(r) PROVE FALSE
      BY <3>1 DEF RequestSteps, RequestCompact, Fail, Register, RequestLands, RequestWritten, Returns, Timeout,
         OnCompactRequest, CompactEnds
    <3>2. ASSUME NEW n \in responses, Resolve(n) PROVE n = m
      BY <3>2 DEF Resolve
    <3>3. ASSUME NEW n \in replying, ResponseLands(n) PROVE FALSE
      BY <3>3 DEF ResponseLands
    <3>4. ASSUME Shutdown \/ AgentTurns \/ Crash PROVE FALSE
      BY <3>4 DEF Shutdown, AgentTurns, Crash
    <3> QED BY <3>1, <3>2, <3>3, <3>4 DEF CompactNext
  <2> QED BY <2>1, <2>2 DEF Resolve
<1> QED BY <1>1, CompactInvariance, PTL DEF CompactSpec, AnswerInTimeCounts
=============================================================================
