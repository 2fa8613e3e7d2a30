------------------------ MODULE TriggerBufferProofs ------------------------
(***************************************************************************)
(* The batches of the trigger buffer keep their caps, queued messages are  *)
(* never stranded, and deliveries are in the order of arrival, for all     *)
(* caps, message sizes and numbers of messages.                            *)
(*                                                                         *)
(* Why it holds.  The identities in what was delivered, in the drain and   *)
(* in the queue increase from one to the next (OrderInv): a batch is taken *)
(* from the front of the queue, and only after the drain has come to its   *)
(* end.  The timer is never armed beside a drain, as whoever arms it looks *)
(* at the drain, and the end of the drain looks at the queue.              *)
(***************************************************************************)
EXTENDS TriggerBuffer, TLAPS, WellFoundedInduction

\* A set of numbers with an upper bound has a largest member.
LEMMA Largest ==
  ASSUME NEW N \in Nat, NEW S \in SUBSET (1..N), S # {}
  PROVE  \E n \in S : \A m \in S : m <= n
<1> DEFINE Less == OpToRel(<, Nat)
           T    == {x \in 0..N : N - x \in S}
<1>1. T \subseteq Nat
  OBVIOUS
<1>2. T # {}
  <2>1. PICK n \in 1..N : n \in S
    OBVIOUS
  <2>2. N - n \in 0..N /\ N - (N - n) = n
    OBVIOUS
  <2> QED BY <2>1, <2>2
<1>3. \E x \in T : \A y \in T : ~(<<y, x>> \in Less)
  <2>1. IsWellFoundedOn(Less, Nat)
    BY NatLessThanWellFounded
  <2> HIDE DEF Less, T
  <2> QED BY <1>1, <1>2, <2>1, WFMin
<1>4. PICK x \in T : \A y \in T : ~(<<y, x>> \in Less)
  BY <1>3
<1>5. \A y \in T : y >= x
  <2>1. \A a, b \in Nat : a < b => <<a, b>> \in Less
    BY Zenon DEF OpToRel
  <2> SUFFICES ASSUME NEW y \in T PROVE y >= x
    OBVIOUS
  <2> HIDE DEF Less, T
  <2>2. x \in Nat /\ y \in Nat
    BY <1>1
  <2>3. ~(<<y, x>> \in Less)
    BY <1>4
  <2> QED BY <2>1, <2>2, <2>3
<1>6. \A m \in S : N - m \in T
  <2> TAKE m \in S
  <2>1. m \in 1..N /\ N - m \in 0..N /\ N - (N - m) = m
    OBVIOUS
  <2> QED BY <2>1
<1>7. \A m \in S : m <= N - x
  BY <1>5, <1>6
<1> QED
  BY <1>7

\* takeBatch takes a part of the front of the queue: at least one message, never
\* more than a batch may have.
LEMMA TakeBatchIsPrefix ==
  ASSUME NEW items \in Seq(Item), items # <<>>
  PROVE  \E n \in 1..Len(items) : /\ TakeBatch(items) = SubSeq(items, 1, n)
                                  /\ n <= BatchItems
                                  /\ n = 1 \/ Bytes(SubSeq(items, 1, n)) <= BatchBytes
<1> DEFINE Fits(n) == n = 1 \/ (n <= BatchItems /\ Bytes(SubSeq(items, 1, n)) <= BatchBytes)
           S       == {n \in 1..Len(items) : Fits(n)}
           Longest(n) == Fits(n) /\ \A m \in n + 1..Len(items) : ~Fits(m)
           k       == CHOOSE n \in 1..Len(items) : Longest(n)
<1> HIDE DEF Fits
<1>1. S \in SUBSET (1..Len(items)) /\ 1 \in S
  BY DEF Fits
<1>2. PICK n \in S : \A m \in S : m <= n
  <2>1. Len(items) \in Nat /\ S # {}
    BY <1>1
  <2> HIDE DEF S
  <2> QED BY <1>1, <2>1, Largest
<1>3. Longest(n)
  BY <1>2
<1>4. k \in 1..Len(items) /\ Fits(k)
  BY <1>2, <1>3
<1>5. TakeBatch(items) = SubSeq(items, 1, k)
  BY DEF TakeBatch, Fits
<1> HIDE DEF k
<1>6. BatchItems \in Nat /\ BatchItems >= 1
  BY CapsAssumption
<1>7. k <= BatchItems /\ (k = 1 \/ Bytes(SubSeq(items, 1, k)) <= BatchBytes)
  BY <1>4, <1>6 DEF Fits
<1> QED
  BY <1>4, <1>5, <1>7

\* A part of the front of a sequence and the rest of it.
LEMMA Cut ==
  ASSUME NEW items \in Seq(Item), NEW n \in 1..Len(items)
  PROVE  /\ SubSeq(items, 1, n) \in Seq(Item) /\ Len(SubSeq(items, 1, n)) = n
         /\ \A i \in 1..n : SubSeq(items, 1, n)[i] = items[i]
         /\ SubSeq(items, n + 1, Len(items)) \in Seq(Item)
         /\ Len(SubSeq(items, n + 1, Len(items))) = Len(items) - n
         /\ \A i \in 1..Len(items) - n : SubSeq(items, n + 1, Len(items))[i] = items[i + n]
OBVIOUS

----------------------------------------------------------------------------
(* The invariant *)

UpTo(s, max) == \A i \in DOMAIN s : s[i].id <= max

\* The numbers of looks and of messages.
CountsOK ==
  /\ arrived \in 0..MaxItems /\ Len(queue) <= QueueCap
  /\ drain.step = "sleeping" => Len(drain.batch) <= BatchItems
  /\ drain.step # "sleeping" => drain.batch = <<>>
  /\ UpTo(queue, arrived) /\ UpTo(drain.batch, arrived)

\* Delivered, in the drain, queued: in the order of arrival.
OrderInv ==
  /\ Increasing(queue) /\ Increasing(drain.batch) /\ Before(drain.batch, queue)
  /\ \A k \in DOMAIN deliveries :
       LET batch == deliveries[k].batch
       IN  Increasing(batch) /\ UpTo(batch, arrived) /\ Before(batch, drain.batch) /\ Before(batch, queue)
  /\ \A k, l \in DOMAIN deliveries : k < l => Before(deliveries[k].batch, deliveries[l].batch)

\* Each message is here or gone.
AccountInv == Here \cap gone = {} /\ Here \cup gone = 1..arrived

IInv == TypeOK /\ CountsOK /\ NeverStranded /\ OrderInv /\ AccountInv

\* What the types say of the parts.
LEMMA Parts ==
  ASSUME IInv
  PROVE  /\ arrived \in Nat /\ MaxItems \in Nat /\ arrived <= MaxItems
         /\ queue \in Seq(Item) /\ drain.batch \in Seq(Item)
         /\ \A k \in DOMAIN deliveries : deliveries[k].batch \in Seq(Item)
         /\ \A x \in Item : x.id \in 1..MaxItems
         /\ QueueCap \in Nat /\ QueueCap >= 1 /\ BatchItems \in Nat /\ RetryCap \in Nat
<1>1. deliveries \in Seq([batch: Batch, how: {"turn", "followUp"}]) /\ drain \in Drain
  BY DEF IInv, TypeOK
<1>2. \A k \in DOMAIN deliveries : deliveries[k].batch \in Seq(Item)
  <2> SUFFICES ASSUME NEW k \in DOMAIN deliveries PROVE deliveries[k].batch \in Batch
    BY DEF Batch
  <2> DEFINE Delivery == [batch: Batch, how: {"turn", "followUp"}]
  <2>1. deliveries[k] \in Delivery
    <3>1. deliveries \in Seq(Delivery)
      BY <1>1
    <3> HIDE DEF Delivery
    <3> QED BY <3>1
  <2> QED BY <2>1
<1>3. drain.batch \in Seq(Item)
  BY <1>1 DEF Drain, Batch
<1>4. \A x \in Item : x.id \in 1..MaxItems
  BY DEF Item
<1> QED
  BY <1>2, <1>3, <1>4, CapsAssumption DEF IInv, TypeOK, CountsOK

\* No message is in two sequences of which one is before the other.
LEMMA Apart ==
  ASSUME NEW s \in Seq(Item), NEW t \in Seq(Item), Before(s, t), \A x \in Item : x.id \in 1..MaxItems
  PROVE  Ids(s) \cap Ids(t) = {}
<1> SUFFICES ASSUME NEW i \in DOMAIN s, NEW j \in DOMAIN t, s[i].id = t[j].id PROVE FALSE
  BY DEF Ids
<1>1. s[i].id < t[j].id /\ s[i].id \in 1..MaxItems
  BY DEF Before
<1> QED BY <1>1

\* Nor in a delivery and in a sequence that all deliveries are before.
LEMMA DeliveredApart ==
  ASSUME IInv, NEW t \in Seq(Item), \A k \in DOMAIN deliveries : Before(deliveries[k].batch, t)
  PROVE  Delivered \cap Ids(t) = {}
<1> SUFFICES ASSUME NEW k \in DOMAIN deliveries PROVE Ids(deliveries[k].batch) \cap Ids(t) = {}
  BY DEF Delivered
<1> QED BY Parts, Apart

LEMMA InitInv == Init => IInv
<1> SUFFICES ASSUME Init PROVE IInv
  OBVIOUS
<1> USE DEF Init
<1>1. /\ arrived = 0 /\ queue = <<>> /\ deliveries = <<>> /\ gone = {}
      /\ drain.step = "none" /\ drain.batch = <<>> /\ drain.checks = 0
      /\ QueueCap \in Nat /\ MaxItems \in Nat /\ RetryCap \in Nat
  BY CapsAssumption DEF NoDrain
<1>2. drain \in Drain
  BY <1>1 DEF NoDrain, Drain, Batch
<1>3. TypeOK
  <2>1. /\ arrived \in 0..MaxItems /\ Len(queue) <= QueueCap /\ gone \subseteq 1..arrived
    BY <1>1
  <2>3. timer \in BOOLEAN /\ idle \in BOOLEAN /\ down \in BOOLEAN
    OBVIOUS
  <2>2. queue \in Seq(Item) /\ deliveries \in Seq([batch: Batch, how: {"turn", "followUp"}])
    BY <1>1
  <2> QED BY <1>2, <2>1, <2>2, <2>3 DEF TypeOK
<1>4. CountsOK
  BY <1>1 DEF CountsOK, UpTo
<1>5. NeverStranded /\ OrderInv
  BY <1>1 DEF NeverStranded, OrderInv, Increasing, Before
<1>6. AccountInv
  BY <1>1 DEF AccountInv, Here, Delivered, Ids
<1> QED
  BY <1>3, <1>4, <1>5, <1>6 DEF IInv

\* A message arrives: the queue without its first, perhaps, and with a new last.
LEMMA EnqueueStep == IInv /\ Enqueue => IInv'
<1> SUFFICES ASSUME IInv, Enqueue PROVE IInv'
  OBVIOUS
<1> DEFINE kept == IF Len(queue) >= QueueCap THEN Tail(queue) ELSE queue
<1>1. PICK size \in Sizes : queue' = Append(kept, [id |-> arrived + 1, size |-> size])
  BY DEF Enqueue
<1>2. /\ kept \in Seq(Item) /\ Len(kept) < QueueCap
      /\ \A i \in DOMAIN kept : \E j \in DOMAIN queue : kept[i] = queue[j]
      /\ Increasing(kept)
  <2>1. queue \in Seq(Item) /\ QueueCap \in Nat /\ QueueCap >= 1 /\ Len(queue) <= QueueCap /\ Increasing(queue)
    BY Parts DEF IInv, CountsOK, OrderInv
  <2>2. CASE Len(queue) >= QueueCap
    <3>1. queue # <<>> /\ kept = Tail(queue)
      BY <2>1, <2>2
    <3>2. /\ Len(kept) = Len(queue) - 1 /\ kept \in Seq(Item)
          /\ \A i \in 1..Len(kept) : i + 1 \in 1..Len(queue) /\ kept[i] = queue[i + 1]
      BY <2>1, <3>1
    <3> HIDE DEF kept
    <3>3. Increasing(kept)
      <4> SUFFICES ASSUME NEW i \in 1..Len(kept), NEW j \in 1..Len(kept), i < j
                   PROVE  kept[i].id < kept[j].id
        BY <3>2 DEF Increasing
      <4>1. i + 1 \in DOMAIN queue /\ j + 1 \in DOMAIN queue /\ i + 1 < j + 1
        BY <2>1, <3>2
      <4>2. queue[i + 1].id < queue[j + 1].id
        BY <2>1, <4>1 DEF Increasing
      <4> QED BY <3>2, <4>2
    <3> QED BY <2>1, <2>2, <3>2, <3>3
  <2>3. CASE ~(Len(queue) >= QueueCap)
    BY <2>1, <2>3
  <2> QED BY <2>2, <2>3
<1> HIDE DEF kept
<1>3. arrived' = arrived + 1 /\ arrived' \in 1..MaxItems /\ arrived \in Nat
  BY Parts DEF Enqueue
<1> DEFINE new == [id |-> arrived + 1, size |-> size]
<1>4. new \in Item /\ new.id = arrived + 1
  BY <1>1, <1>3 DEF Item
<1>5. UNCHANGED <<drain, idle, deliveries, down>>
  BY DEF Enqueue
<1>6. /\ queue' \in Seq(Item) /\ Len(queue') = Len(kept) + 1 /\ Len(queue') <= QueueCap
      /\ \A i \in 1..Len(kept) : queue'[i] = kept[i]
      /\ queue'[Len(queue')] = new
      /\ queue' # <<>> /\ Len(kept) \in Nat
  <2> HIDE DEF new
  <2>1. queue' = Append(kept, new)
    BY <1>1 DEF new
  <2> QED BY <1>2, <1>4, <2>1, Parts
<1> HIDE DEF new
<1>7. \A i \in 1..Len(kept) : kept[i].id \in Nat /\ kept[i].id <= arrived
  <2> TAKE i \in 1..Len(kept)
  <2>1. PICK j \in DOMAIN queue : kept[i] = queue[j]
    BY <1>2
  <2>2. queue[j] \in Item /\ queue[j].id <= arrived
    BY Parts DEF IInv, CountsOK, UpTo
  <2> QED BY <2>1, <2>2, Parts
<1>8. gone' \subseteq 1..arrived'
  <2>0. gone \subseteq 1..arrived
    BY DEF IInv, TypeOK
  <2>1. CASE Len(queue) >= QueueCap
    <3>1. queue # <<>> /\ Head(queue) = queue[1] /\ Head(queue) \in Item /\ 1 \in DOMAIN queue
      BY <2>1, Parts
    <3>2. Head(queue).id \in 1..arrived
      BY <3>1, Parts DEF IInv, CountsOK, UpTo
    <3>3. gone' = gone \cup {Head(queue).id}
      BY <2>1 DEF Enqueue
    <3>4. 1..arrived \subseteq 1..arrived'
      BY <1>3
    <3> QED BY <2>0, <3>2, <3>3, <3>4
  <2>2. CASE ~(Len(queue) >= QueueCap)
    BY <2>0, <2>2, <1>3 DEF Enqueue
  <2> QED BY <2>1, <2>2
<1>9. timer' \in BOOLEAN /\ (timer' => drain.step = "none") /\ (timer' \/ drain.step # "none")
  BY DEF Enqueue, Armed, IInv, TypeOK, NeverStranded
<1>10. TypeOK' /\ NeverStranded'
  BY <1>3, <1>5, <1>6, <1>8, <1>9 DEF IInv, TypeOK, NeverStranded
<1>11. \A s \in Seq(Item) : UpTo(s, arrived) => UpTo(s, arrived')
  <2> TAKE s \in Seq(Item)
  <2> HAVE UpTo(s, arrived)
  <2>1. \A i \in DOMAIN s : s[i].id \in Nat /\ s[i].id <= arrived
    BY Parts DEF UpTo
  <2> QED BY <1>3, <2>1 DEF UpTo
<1>12. UpTo(queue', arrived')
  BY <1>3, <1>4, <1>6, <1>7 DEF UpTo
<1>13. CountsOK'
  BY <1>3, <1>5, <1>6, <1>11, <1>12, Parts DEF CountsOK, IInv
<1>14. Increasing(queue')
  <2> SUFFICES ASSUME NEW i \in 1..Len(queue'), NEW j \in 1..Len(queue'), i < j
               PROVE  queue'[i].id < queue'[j].id
    BY <1>6 DEF Increasing
  <2>1. i \in 1..Len(kept)
    BY <1>6
  <2>2. CASE j \in 1..Len(kept)
    BY <1>2, <1>6, <2>1, <2>2 DEF Increasing
  <2>3. CASE j = Len(queue')
    BY <1>3, <1>4, <1>6, <1>7, <2>1, <2>3
  <2> QED BY <1>6, <2>2, <2>3
<1>15. ASSUME NEW s \in Seq(Item), UpTo(s, arrived), Before(s, queue)
       PROVE  Before(s, queue')
  <2> SUFFICES ASSUME NEW i \in DOMAIN s, NEW j \in 1..Len(queue') PROVE s[i].id < queue'[j].id
    BY <1>6 DEF Before
  <2>1. s[i].id \in Nat /\ s[i].id <= arrived
    BY <1>15, Parts DEF UpTo
  <2>2. CASE j \in 1..Len(kept)
    BY <1>2, <1>6, <1>15, <2>2 DEF Before
  <2>3. CASE j = Len(queue')
    BY <1>3, <1>4, <1>6, <2>1, <2>3
  <2> QED BY <1>6, <2>2, <2>3
<1>16. OrderInv'
  BY <1>5, <1>11, <1>14, <1>15, Parts DEF OrderInv, IInv, CountsOK
<1>17. AccountInv'
  <2>1. Ids(queue') = Ids(kept) \cup {arrived + 1}
    <3>1. DOMAIN queue' = 1..Len(kept) \cup {Len(queue')} /\ DOMAIN kept = 1..Len(kept)
      BY <1>2, <1>6
    <3> QED BY <1>4, <1>6, <3>1 DEF Ids
  <2>2. /\ Ids(queue) \cup gone = Ids(kept) \cup gone' /\ gone \subseteq gone'
        /\ gone' \subseteq gone \cup Ids(queue) /\ Ids(kept) \cap (gone' \ gone) = {}
        /\ Ids(kept) \subseteq Ids(queue)
    <3>1. CASE Len(queue) >= QueueCap
      <4>1. /\ queue \in Seq(Item) /\ queue # <<>> /\ Head(queue) = queue[1] /\ kept = Tail(queue)
            /\ gone' = gone \cup {Head(queue).id} /\ Increasing(queue)
        BY <3>1, Parts DEF Enqueue, kept, IInv, OrderInv
      <4>2. /\ DOMAIN queue = 1..Len(queue) /\ DOMAIN kept = 1..(Len(queue) - 1) /\ Len(queue) \in Nat
            /\ \A i \in 1..(Len(queue) - 1) : kept[i] = queue[i + 1]
        BY <4>1
      <4>3. \A i \in 1..Len(queue) : i = 1 \/ (i - 1 \in 1..(Len(queue) - 1) /\ kept[i - 1] = queue[i])
        BY <4>2
      <4>4. Ids(queue) = Ids(kept) \cup {Head(queue).id}
        <5>1. \A i \in DOMAIN kept : i + 1 \in DOMAIN queue /\ kept[i] = queue[i + 1]
          BY <4>2
        <5>2. \A i \in DOMAIN queue : i = 1 \/ \E j \in DOMAIN kept : kept[j] = queue[i]
          BY <4>2, <4>3
        <5>3. 1 \in DOMAIN queue
          BY <4>1
        <5>4. Ids(kept) \subseteq Ids(queue)
          BY <5>1 DEF Ids
        <5>5. \A i \in DOMAIN queue : queue[i].id \in Ids(kept) \cup {queue[1].id}
          BY <5>2 DEF Ids
        <5>6. Ids(queue) \subseteq Ids(kept) \cup {queue[1].id} /\ queue[1].id \in Ids(queue)
          BY <5>3, <5>5 DEF Ids
        <5> QED BY <4>1, <5>4, <5>6
      <4>5. \A i \in DOMAIN kept : queue[1].id < kept[i].id
        <5> TAKE i \in DOMAIN kept
        <5>1. 1 \in DOMAIN queue /\ i + 1 \in DOMAIN queue /\ 1 < i + 1 /\ kept[i] = queue[i + 1]
          BY <4>2
        <5> QED BY <4>1, <5>1 DEF Increasing
      <4>6. queue[1].id \notin Ids(kept)
        <5> SUFFICES ASSUME NEW i \in DOMAIN kept, kept[i].id = queue[1].id PROVE FALSE
          BY DEF Ids
        <5>1. kept[i].id \in Nat
          BY <1>2, <1>7
        <5> QED BY <4>5, <5>1
      <4> QED BY <4>1, <4>4, <4>6
    <3>2. CASE ~(Len(queue) >= QueueCap)
      BY <3>2 DEF Enqueue, kept
    <3> QED BY <3>1, <3>2
  <2>3. Delivered' = Delivered /\ drain' = drain
    BY <1>5 DEF Delivered
  <2>4. Ids(queue) \cap Delivered = {} /\ Ids(queue) \cap Ids(drain.batch) = {}
    BY Parts, Apart, DeliveredApart DEF IInv, OrderInv
  <2>5. Here \cap gone = {} /\ Here \cup gone = 1..arrived
    BY DEF IInv, AccountInv
  <2>6. 1..arrived' = 1..arrived \cup {arrived + 1} /\ arrived + 1 \notin 1..arrived
    BY <1>3
  <2> DEFINE There == Delivered \cup Ids(drain.batch) \cup Ids(kept)
  <2>7. There \cap gone' = {} /\ There \cup gone' = 1..arrived
    <3> DEFINE D == Delivered  B == Ids(drain.batch)  K == Ids(kept)  Q == Ids(queue)
    <3>1. (D \cup B \cup Q) \cap gone = {} /\ D \cup B \cup Q \cup gone = 1..arrived
      BY <2>5 DEF Here
    <3> HIDE DEF D, B, K, Q
    <3>2. /\ Q \cup gone = K \cup gone' /\ gone \subseteq gone' /\ gone' \subseteq gone \cup Q
          /\ K \cap (gone' \ gone) = {} /\ K \subseteq Q /\ Q \cap D = {} /\ Q \cap B = {}
      BY <2>2, <2>4 DEF D, B, K, Q
    <3>3. (D \cup B \cup K) \cap gone' = {}
      BY <3>1, <3>2
    <3>4. D \cup B \cup K \cup gone' = 1..arrived
      BY <3>1, <3>2
    <3> QED BY <3>3, <3>4 DEF D, B, K
  <2>8. Here' = There \cup {arrived + 1}
    BY <2>1, <2>3 DEF Here
  <2> HIDE DEF There
  <2> QED BY <2>6, <2>7, <2>8 DEF AccountInv
<1> QED
  BY <1>10, <1>13, <1>16, <1>17 DEF IInv

\* One turn of the loop of drain, with a batch from before the queue.
LEMMA LookStep ==
  ASSUME IInv, NEW batch \in Seq(Item), NEW checks \in Nat, LookAround(batch, checks),
         Len(batch) <= BatchItems, Increasing(batch), UpTo(batch, arrived), Before(batch, queue'),
         \A k \in DOMAIN deliveries : Before(deliveries[k].batch, batch)
                                       /\ Before(deliveries[k].batch, queue'),
         queue' \in Seq(Item), Len(queue') <= QueueCap, Increasing(queue'), UpTo(queue', arrived),
         arrived' = arrived, timer' = FALSE, down' = down,
         (Delivered \cup Ids(batch) \cup Ids(queue')) \cap gone = {},
         Delivered \cup Ids(batch) \cup Ids(queue') \cup gone = 1..arrived
  PROVE  IInv'
<1> DEFINE Delivery == [batch: Batch, how: {"turn", "followUp"}]
<1>0. /\ arrived \in 0..MaxItems /\ gone \subseteq 1..arrived /\ down \in BOOLEAN
      /\ deliveries \in Seq(Delivery) /\ idle \in BOOLEAN
  BY DEF IInv, TypeOK
<1>1. CASE ~idle /\ checks < RetryCap
  <2>1. /\ drain' = [step |-> "sleeping", batch |-> batch, checks |-> checks]
        /\ UNCHANGED <<idle, deliveries, gone>>
    BY <1>1 DEF LookAround
  <2>2. drain' \in Drain
    BY <1>1, <2>1, Parts DEF Drain, Batch
  <2>3. drain'.step = "sleeping" /\ drain'.batch = batch
    BY <2>1
  <2>4. TypeOK'
    BY <1>0, <2>1, <2>2 DEF TypeOK
  <2>5. CountsOK'
    BY <1>0, <2>3 DEF CountsOK
  <2>6. OrderInv'
    BY <2>1, <2>3 DEF OrderInv, IInv
  <2>7. AccountInv'
    BY <2>1, <2>3 DEF AccountInv, Here, Delivered
  <2> QED
    BY <2>3, <2>4, <2>5, <2>6, <2>7 DEF IInv, NeverStranded
<1>2. CASE ~(~idle /\ checks < RetryCap)
  <2> DEFINE how == IF idle THEN "turn" ELSE "followUp"
  <2>1. Deliver(batch, how)
    BY <1>2 DEF LookAround
  <2>2. drain' = [step |-> "settling", batch |-> <<>>, checks |-> 0]
    BY <2>1 DEF Deliver
  <2>3. drain'.step = "settling" /\ drain'.batch = <<>> /\ drain' \in Drain
    BY <2>2, Parts DEF Drain, Batch
  <2>4. CountsOK' /\ NeverStranded'
    BY <1>0, <2>3 DEF CountsOK, NeverStranded, UpTo
  <2>5. CASE deliveries' = Append(deliveries, [batch |-> batch, how |-> how]) /\ idle' = FALSE /\ UNCHANGED gone
    <3> DEFINE d == [batch |-> batch, how |-> how]
    <3>1. d \in Delivery /\ d.batch = batch
      BY DEF Batch
    <3> HIDE DEF d
    <3>2. deliveries' = Append(deliveries, d)
      BY <2>5 DEF d
    <3> HIDE DEF Delivery
    <3>3. /\ deliveries' \in Seq(Delivery) /\ Len(deliveries') = Len(deliveries) + 1
          /\ \A k \in 1..Len(deliveries) : deliveries'[k] = deliveries[k]
          /\ deliveries'[Len(deliveries')] = d /\ Len(deliveries) \in Nat
      BY <1>0, <3>1, <3>2
    <3>4. TypeOK'
      BY <1>0, <2>3, <2>5, <3>3 DEF TypeOK, Delivery
    <3>5. ASSUME NEW j \in DOMAIN deliveries'
          PROVE  LET b == deliveries'[j].batch
                 IN  Increasing(b) /\ UpTo(b, arrived) /\ Before(b, <<>>) /\ Before(b, queue')
      <4>1. j \in 1..Len(deliveries) \/ j = Len(deliveries')
        BY <3>3
      <4>2. CASE j \in 1..Len(deliveries)
        <5>1. deliveries'[j] = deliveries[j] /\ j \in DOMAIN deliveries
          BY <1>0, <3>3, <4>2
        <5> QED BY <5>1 DEF IInv, OrderInv, Before
      <4>3. CASE j = Len(deliveries')
        BY <3>1, <3>3, <4>3 DEF Before
      <4> QED BY <4>1, <4>2, <4>3
    <3>6. ASSUME NEW j \in DOMAIN deliveries', NEW l \in DOMAIN deliveries', j < l
          PROVE  Before(deliveries'[j].batch, deliveries'[l].batch)
      <4>1. j \in 1..Len(deliveries) /\ (l \in 1..Len(deliveries) \/ l = Len(deliveries'))
        BY <3>3, <3>6
      <4>2. deliveries'[j] = deliveries[j] /\ j \in DOMAIN deliveries
        BY <1>0, <3>3, <4>1
      <4>3. CASE l \in 1..Len(deliveries)
        <5>1. deliveries'[l] = deliveries[l] /\ l \in DOMAIN deliveries
          BY <1>0, <3>3, <4>3
        <5> QED BY <3>6, <4>2, <5>1 DEF IInv, OrderInv
      <4>4. CASE l = Len(deliveries')
        BY <3>1, <3>3, <4>2, <4>4
      <4> QED BY <4>1, <4>3, <4>4
    <3>7. Increasing(<<>>) /\ Before(<<>>, queue')
      BY DEF Increasing, Before
    <3>8. OrderInv'
      BY <2>3, <3>5, <3>6, <3>7 DEF OrderInv
    <3>9. Delivered' = Delivered \cup Ids(batch)
      <4>1. DOMAIN deliveries' = DOMAIN deliveries \cup {Len(deliveries')} /\ DOMAIN deliveries = 1..Len(deliveries)
        BY <1>0, <3>3
      <4>2. /\ \A k \in DOMAIN deliveries : deliveries'[k].batch = deliveries[k].batch
            /\ deliveries'[Len(deliveries')].batch = batch
        BY <3>1, <3>3, <4>1
      <4> DEFINE ids(k)  == Ids(deliveries[k].batch)
                 idsP(k) == Ids(deliveries'[k].batch)
      <4>3. \A k \in DOMAIN deliveries : idsP(k) = ids(k)
        BY <4>2
      <4>4. idsP(Len(deliveries')) = Ids(batch)
        BY <4>2
      <4>5. Delivered = UNION {ids(k) : k \in DOMAIN deliveries}
        BY DEF Delivered
      <4>6. Delivered' = UNION {idsP(k) : k \in DOMAIN deliveries'}
        BY DEF Delivered, Ids
      <4> HIDE DEF ids, idsP
      <4>7. ASSUME NEW x PROVE x \in Delivered' <=> x \in Delivered \cup Ids(batch)
        <5>1. x \in Delivered' <=> \E k \in DOMAIN deliveries' : x \in idsP(k)
          BY <4>6
        <5>2. x \in Delivered <=> \E k \in DOMAIN deliveries : x \in ids(k)
          BY <4>5
        <5> QED BY <4>1, <4>3, <4>4, <5>1, <5>2
      <4> QED BY <4>7
    <3>10. AccountInv'
      BY <2>3, <2>5, <3>9 DEF AccountInv, Here, Ids
    <3> QED
      BY <2>4, <3>4, <3>8, <3>10 DEF IInv
  <2>6. CASE gone' = gone \cup Ids(batch) /\ UNCHANGED <<deliveries, idle>>
    <3>1. Ids(batch) \subseteq 1..arrived
      <4> SUFFICES ASSUME NEW i \in DOMAIN batch PROVE batch[i].id \in 1..arrived
        BY DEF Ids
      <4>1. batch[i] \in Item /\ batch[i].id <= arrived
        BY DEF UpTo
      <4> QED BY <4>1, Parts
    <3>2. TypeOK'
      BY <1>0, <2>3, <2>6, <3>1 DEF TypeOK
    <3>3. OrderInv'
      BY <2>3, <2>6 DEF OrderInv, IInv, Increasing, Before
    <3>4. Delivered \cap Ids(batch) = {} /\ Ids(batch) \cap Ids(queue') = {}
      BY Parts, Apart, DeliveredApart
    <3>5. Here' = Delivered \cup Ids(queue')
      BY <2>3, <2>6 DEF Here, Delivered, Ids
    <3>6. AccountInv'
      BY <2>6, <3>4, <3>5 DEF AccountInv
    <3> QED
      BY <2>4, <3>2, <3>3, <3>6 DEF IInv
  <2> QED
    BY <2>1, <2>5, <2>6 DEF Deliver
<1> QED
  BY <1>1, <1>2

\* A drain starts with the front of the queue.
LEMMA StartStep == IInv /\ StartDrain => IInv'
<1> SUFFICES ASSUME IInv, StartDrain PROVE IInv'
  OBVIOUS
<1>1. queue \in Seq(Item) /\ queue # <<>> /\ drain.step = "none"
  BY Parts DEF StartDrain, IInv, NeverStranded
<1>2. PICK n \in 1..Len(queue) : TakeBatch(queue) = SubSeq(queue, 1, n) /\ n <= BatchItems
  BY <1>1, TakeBatchIsPrefix
<1> DEFINE batch == TakeBatch(queue)
<1>3. /\ batch \in Seq(Item) /\ Len(batch) = n /\ \A i \in 1..n : batch[i] = queue[i]
      /\ batch = SubSeq(queue, 1, n)
  BY <1>1, <1>2, Cut
<1> HIDE DEF batch
<1>4. queue' = SubSeq(queue, n + 1, Len(queue)) /\ LookAround(batch, 0)
  BY <1>3 DEF StartDrain, batch
<1>5. /\ queue' \in Seq(Item) /\ Len(queue') = Len(queue) - n
      /\ \A i \in 1..Len(queue) - n : queue'[i] = queue[i + n]
  BY <1>1, <1>4, Cut
<1>6. /\ \A i \in DOMAIN batch : i \in DOMAIN queue /\ batch[i] = queue[i] /\ i <= n
      /\ \A i \in DOMAIN queue' : i + n \in DOMAIN queue /\ queue'[i] = queue[i + n] /\ i >= 1
  <2>1. DOMAIN batch = 1..n /\ DOMAIN queue = 1..Len(queue) /\ DOMAIN queue' = 1..(Len(queue) - n)
    BY <1>1, <1>3, <1>5
  <2>2. Len(queue) \in Nat /\ n \in 1..Len(queue)
    BY <1>1
  <2>3. \A i \in 1..(Len(queue) - n) : i + n \in 1..Len(queue) /\ i >= 1
    BY <2>2
  <2> QED BY <1>3, <1>5, <2>1, <2>2, <2>3
<1>7. Increasing(queue) /\ UpTo(queue, arrived) /\ Len(queue) <= QueueCap
  BY DEF IInv, OrderInv, CountsOK
<1>8. Increasing(batch) /\ UpTo(batch, arrived)
  BY <1>6, <1>7 DEF Increasing, UpTo
<1>9. Increasing(queue') /\ UpTo(queue', arrived) /\ Len(queue') <= QueueCap
  <2>1. ASSUME NEW i \in DOMAIN queue', NEW j \in DOMAIN queue', i < j PROVE queue'[i].id < queue'[j].id
    <3>1. i + n < j + n /\ i + n \in DOMAIN queue /\ j + n \in DOMAIN queue
      BY <1>5, <1>6, <2>1
    <3> QED BY <1>6, <1>7, <3>1 DEF Increasing
  <2> QED BY <1>1, <1>5, <1>6, <1>7, <2>1, Parts DEF Increasing, UpTo
<1>10. Before(batch, queue')
  <2> SUFFICES ASSUME NEW i \in DOMAIN batch, NEW j \in DOMAIN queue' PROVE batch[i].id < queue'[j].id
    BY DEF Before
  <2>1. i < j + n /\ i \in DOMAIN queue /\ j + n \in DOMAIN queue
    BY <1>3, <1>5, <1>6
  <2> QED BY <1>6, <1>7, <2>1 DEF Increasing
<1>11. ASSUME NEW k \in DOMAIN deliveries
       PROVE  Before(deliveries[k].batch, batch) /\ Before(deliveries[k].batch, queue')
  <2>1. Before(deliveries[k].batch, queue)
    BY DEF IInv, OrderInv
  <2> QED BY <1>6, <2>1 DEF Before
<1>12. arrived' = arrived /\ timer' = FALSE /\ down' = down /\ Len(batch) <= BatchItems
  BY <1>2, <1>3 DEF StartDrain
<1>13. /\ (Delivered \cup Ids(batch) \cup Ids(queue')) \cap gone = {}
       /\ Delivered \cup Ids(batch) \cup Ids(queue') \cup gone = 1..arrived
  <2>1. DOMAIN batch = 1..n /\ DOMAIN queue = 1..Len(queue) /\ DOMAIN queue' = 1..(Len(queue) - n)
    BY <1>1, <1>3, <1>5
  <2>2. \A i \in 1..Len(queue) : i \in 1..n \/ (i - n \in 1..(Len(queue) - n) /\ queue'[i - n] = queue[i])
    BY <1>1, <1>5
  <2>3. Ids(queue) = Ids(batch) \cup Ids(queue')
    <3>1. ASSUME NEW i \in DOMAIN queue PROVE queue[i].id \in Ids(batch) \cup Ids(queue')
      <4>1. CASE i \in 1..n
        <5>1. i \in DOMAIN batch /\ batch[i] = queue[i]
          BY <1>3, <2>1, <4>1
        <5> QED BY <5>1 DEF Ids
      <4>2. CASE i - n \in 1..(Len(queue) - n) /\ queue'[i - n] = queue[i]
        <5>1. i - n \in DOMAIN queue' /\ queue'[i - n] = queue[i]
          BY <2>1, <4>2
        <5> QED BY <5>1 DEF Ids
      <4> QED BY <2>1, <2>2, <4>1, <4>2
    <3>2. ASSUME NEW i \in DOMAIN batch PROVE batch[i].id \in Ids(queue)
      BY <1>6 DEF Ids
    <3>3. ASSUME NEW i \in DOMAIN queue' PROVE queue'[i].id \in Ids(queue)
      BY <1>6 DEF Ids
    <3> QED BY <3>1, <3>2, <3>3 DEF Ids
  <2>4. drain.batch = <<>>
    BY <1>1 DEF IInv, CountsOK
  <2>5. Ids(drain.batch) = {}
    BY <2>4 DEF Ids
  <2> QED BY <2>3, <2>5 DEF IInv, AccountInv, Here
<1> QED
  BY <1>3, <1>4, <1>5, <1>8, <1>9, <1>10, <1>11, <1>12, <1>13, LookStep

\* A sleep ends: the same batch, one look more.
LEMMA WakeStep == IInv /\ Wake => IInv'
<1> SUFFICES ASSUME IInv, Wake PROVE IInv'
  OBVIOUS
<1>1. /\ drain.step = "sleeping" /\ LookAround(drain.batch, drain.checks + 1)
      /\ arrived' = arrived /\ queue' = queue /\ timer' = timer /\ down' = down
  BY DEF Wake
<1>2. timer' = FALSE
  BY <1>1 DEF IInv, TypeOK, NeverStranded
<1>3. drain.checks + 1 \in Nat
  BY Parts DEF IInv, TypeOK, Drain
<1>4. Len(drain.batch) <= BatchItems /\ UpTo(drain.batch, arrived) /\ UpTo(queue, arrived) /\ Len(queue) <= QueueCap
  BY <1>1 DEF IInv, CountsOK
<1>5. /\ Increasing(drain.batch) /\ Increasing(queue) /\ Before(drain.batch, queue)
      /\ \A k \in DOMAIN deliveries : Before(deliveries[k].batch, drain.batch)
                                       /\ Before(deliveries[k].batch, queue)
  BY DEF IInv, OrderInv
<1>6. Here \cap gone = {} /\ Here \cup gone = 1..arrived
  BY DEF IInv, AccountInv
<1> QED
  BY <1>1, <1>2, <1>3, <1>4, <1>5, <1>6, Parts, LookStep DEF Here

\* The end of a drain, the shutdown, and the session's own turns.
LEMMA OtherStep == IInv /\ (Settle \/ Shutdown \/ HostTurns \/ UNCHANGED vars) => IInv'
<1> SUFFICES ASSUME IInv, Settle \/ Shutdown \/ HostTurns \/ UNCHANGED vars PROVE IInv'
  OBVIOUS
<1>1. CASE Settle
  <2>1. /\ drain' = NoDrain /\ timer' = (timer \/ queue # <<>>) /\ drain.step = "settling"
        /\ UNCHANGED <<arrived, queue, idle, deliveries, gone, down>>
    BY <1>1 DEF Settle
  <2>2. drain'.step = "none" /\ drain'.batch = <<>> /\ drain' \in Drain
    BY <2>1, Parts DEF NoDrain, Drain, Batch
  <2>3. ~timer /\ timer' = (queue # <<>>) /\ drain.batch = <<>>
    BY <2>1 DEF IInv, TypeOK, NeverStranded, CountsOK
  <2>4. TypeOK' /\ NeverStranded'
    BY <2>1, <2>2, <2>3 DEF IInv, TypeOK, NeverStranded
  <2>5. CountsOK'
    BY <2>1, <2>2, <2>3 DEF IInv, CountsOK, UpTo
  <2>6. OrderInv'
    BY <2>1, <2>2, <2>3 DEF IInv, OrderInv
  <2>7. AccountInv'
    BY <2>1, <2>2, <2>3 DEF IInv, AccountInv, Here, Delivered
  <2> QED BY <2>4, <2>5, <2>6, <2>7 DEF IInv
<1>2. CASE Shutdown
  <2>1. /\ queue' = <<>> /\ timer' = FALSE /\ down' = TRUE /\ gone' = gone \cup Ids(queue)
        /\ UNCHANGED <<arrived, drain, idle, deliveries>>
    BY <1>2 DEF Shutdown
  <2>2. Ids(queue) \subseteq 1..arrived
    <3> SUFFICES ASSUME NEW i \in DOMAIN queue PROVE queue[i].id \in 1..arrived
      BY DEF Ids
    <3>1. queue[i] \in Item /\ queue[i].id <= arrived
      BY Parts DEF IInv, CountsOK, UpTo
    <3> QED BY <3>1, Parts
  <2>3. queue' \in Seq(Item) /\ Len(queue') <= QueueCap
    BY <2>1, Parts
  <2>4. TypeOK' /\ NeverStranded'
    BY <2>1, <2>2, <2>3 DEF IInv, TypeOK, NeverStranded
  <2>5. CountsOK'
    BY <2>1, <2>3 DEF IInv, CountsOK, UpTo
  <2>6. OrderInv'
    BY <2>1 DEF IInv, OrderInv, Increasing, Before
  <2>7. Ids(queue) \cap Delivered = {} /\ Ids(queue) \cap Ids(drain.batch) = {}
    BY Parts, Apart, DeliveredApart DEF IInv, OrderInv
  <2>8. Here' = Delivered \cup Ids(drain.batch)
    BY <2>1 DEF Here, Delivered, Ids
  <2>9. AccountInv'
    BY <2>1, <2>7, <2>8 DEF IInv, AccountInv, Here
  <2> QED BY <2>4, <2>5, <2>6, <2>9 DEF IInv
<1>3. CASE HostTurns
  BY <1>3 DEF HostTurns, IInv, TypeOK, CountsOK, NeverStranded, OrderInv, AccountInv, Here, Delivered
<1>4. CASE UNCHANGED vars
  BY <1>4 DEF vars, IInv, TypeOK, CountsOK, NeverStranded, OrderInv, AccountInv, Here, Delivered
<1> QED
  BY <1>1, <1>2, <1>3, <1>4

LEMMA Invariance == Spec => []IInv
<1>1. IInv /\ [Next]_vars => IInv'
  BY EnqueueStep, StartStep, WakeStep, OtherStep DEF Next
<1> QED
  BY <1>1, InitInv, PTL DEF Spec

----------------------------------------------------------------------------
(* The theorems *)

\* Every variable keeps to its domain; the queue and the number of looks keep
\* their caps.
THEOREM TypeCorrect == Spec => []TypeOK
<1>1. IInv => TypeOK
  BY DEF IInv
<1> QED
  BY <1>1, Invariance, PTL

\* Queued messages are always waited for by a timer or by a drain, which are
\* never both there; a drain never starts with an empty queue.
THEOREM NothingStranded == Spec => []NeverStranded
<1>1. IInv => NeverStranded
  BY DEF IInv
<1> QED
  BY <1>1, Invariance, PTL

\* Messages are delivered in the order of arrival and at most once, and each
\* one that ever arrived is delivered, under way or accounted for, whatever is
\* dropped, discarded or lost in a delivery that throws.
THEOREM Complete == Spec => []InOrderAndComplete
<1>1. IInv => InOrderAndComplete
  BY DEF IInv, OrderInv, AccountInv, InOrderAndComplete
<1> QED
  BY <1>1, Invariance, PTL
=============================================================================
