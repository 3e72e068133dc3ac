-------------------------- MODULE SubscriberProofs --------------------------
(***************************************************************************)
(* Proofs about Subscriber: the queue never overflows, join() counts what  *)
(* is in memory, a clean drain leaves nothing there, no notification is    *)
(* lost, and dispatched and closing events pair up; for every number of    *)
(* rows, workers, faults and restarts, and every size of queue and buffer. *)
(***************************************************************************)
EXTENDS Subscriber, SequenceTheorems, FiniteSetTheorems, TLAPS

-----------------------------------------------------------------------------
(* The inductive invariant. *)

FetchType == [pc: FetchStates, free: 0..InflightMax, got: Seq(Item)]
WorkerType == [pc: WorkerStates, item: Item \cup {NoItem}, kind: {"none", "retry", "delete"},
               buffer: Seq(Item), gen: 0..MaxFaults]

InHandPCs == {"handler", "write"}

\* A worker's record: a row in hand leaves room in the buffer for it, and
\* only a worker in hand or before a flush has rows buffered.
Shaped(rec) ==
    /\ rec \in WorkerType
    /\ rec.item \in Item <=> rec.pc \in InHandPCs
    /\ rec.pc \in {"done", "open", "get"} => rec.buffer = <<>>
    /\ Len(rec.buffer) =< FlushBatch
    /\ rec.pc \in InHandPCs => Len(rec.buffer) < FlushBatch
    /\ rec.kind = "retry" => rec.item.claim < MaxClaims

Typed ==
    /\ {notice, running, stopping, notify} \subseteq BOOLEAN
    /\ stop \in [pc: {"idle", "lock", "join", "gather"}, clean: BOOLEAN]
    /\ faults \in 0..MaxFaults /\ starts \in 0..MaxStarts /\ generation \in 0..faults
    /\ unfinished \in Int
    /\ inflight \in Seq(Item)
    /\ fetch \in FetchType
    /\ worker \in [Worker -> WorkerType]
    /\ \A w \in Worker : Shaped(worker[w])
    /\ unseen \subseteq Row
    /\ dispatched \subseteq Item /\ closings \in [Item -> Nat]

\* A lease belongs to the last claim, and a row that can be claimed has claims
\* left.
TableSound ==
    /\ place \in [Row -> {"unborn", "stored", "gone"}]
    /\ claims \in [Row -> 0..MaxClaims] /\ lease \in [Row -> 0..MaxClaims]
    /\ expired \subseteq Row
    /\ \A r \in Row : lease[r] \in {0, claims[r]}
    /\ \A r \in Row : lease[r] = 0 \/ r \in expired => claims[r] < MaxClaims

\* How far stop() got, and what a subscriber that does not run has in memory.
Control ==
    /\ stop.pc \in {"lock", "join"} => running /\ stopping
    /\ stop.pc = "gather" => ~running
    /\ running => stop.clean
    /\ stop.pc = "join" => ~ClaimLocked
    /\ stop.pc = "idle" /\ ~running =>
         /\ fetch.pc = "done" /\ \A w \in Worker : worker[w].pc = "done"
         /\ inflight = <<>> /\ unfinished = 0

\* The free slots the fetch loop counts on stay free.
Fits ==
    /\ Len(inflight) =< InflightMax
    /\ fetch.pc \in {"lock", "query"} => Len(inflight) + fetch.free =< InflightMax
    /\ Len(inflight) + Len(fetch.got) =< InflightMax
    /\ fetch.pc # "reply" => fetch.got = <<>>

\* No publish goes unseen from the claim on, and a wait for room is one.
Woken ==
    /\ fetch.pc \in {"reply", "idleWait"} /\ ~notify /\ ~notice => unseen = {}
    /\ RoomWakesFetch

\* Each claim is at one place in memory: on its way, queued, or dispatched to
\* one worker, which has it in hand or in its buffer once.
Placed ==
    /\ IsInjective(inflight) /\ IsInjective(fetch.got)
    /\ ToSet(inflight) \cap ToSet(fetch.got) = {}
    /\ (ToSet(inflight) \cup ToSet(fetch.got)) \cap dispatched = {}
    /\ \A w \in Worker : IsInjective(worker[w].buffer) /\ HeldBy(w) \subseteq dispatched
    /\ \A w \in Worker : InHand(w) => worker[w].item \notin Buffered(w)
    /\ \A v, w \in Worker : v # w => HeldBy(v) \cap HeldBy(w) = {}

\* A claim that was not made yet is nowhere, and one not dispatched not closed.
Traced ==
    /\ \A i \in dispatched \cup ToSet(inflight) \cup ToSet(fetch.got) : i.claim =< claims[i.row]
    /\ \A i \in Item \ dispatched : closings[i] = 0
    /\ EventsPaired

SubInv ==
    /\ Typed /\ TableSound /\ Control /\ Fits /\ TasksBalanced
    /\ DrainLeavesNothing /\ Woken /\ Placed /\ Traced

-----------------------------------------------------------------------------
(* Sequences as the queue and the buffers use them. *)

\* Taking the first element off a queue without repeats.
LEMMA TailOfQueue ==
    ASSUME NEW S, NEW q \in Seq(S), q # <<>>
    PROVE  /\ Head(q) \in S /\ Tail(q) \in Seq(S) /\ Len(Tail(q)) = Len(q) - 1
           /\ ToSet(q) = ToSet(Tail(q)) \cup {Head(q)}
           /\ IsInjective(q) => IsInjective(Tail(q)) /\ Head(q) \notin ToSet(Tail(q))
<1>1. /\ Head(q) \in S /\ Tail(q) \in Seq(S) /\ Len(Tail(q)) = Len(q) - 1
      /\ \A i \in 1..Len(Tail(q)) : Tail(q)[i] = q[i + 1]
  BY HeadTailProperties
<1>2. Len(q) \in Nat \ {0} /\ DOMAIN q = 1..Len(q) /\ DOMAIN Tail(q) = 1..(Len(q) - 1)
  BY <1>1, EmptySeq, LenProperties
<1>3. Head(q) = q[1]
  OBVIOUS
<1>4. ToSet(q) \subseteq ToSet(Tail(q)) \cup {Head(q)}
  <2> SUFFICES ASSUME NEW i \in 1..Len(q), i # 1
               PROVE  q[i] \in ToSet(Tail(q))
    BY <1>2, <1>3 DEF ToSet
  <2>1. i - 1 \in 1..(Len(q) - 1) /\ q[i] = Tail(q)[i - 1]
    BY <1>1, <1>2
  <2> QED
    BY <1>2, <2>1 DEF ToSet
<1>5. ToSet(Tail(q)) \subseteq ToSet(q)
  <2> SUFFICES ASSUME NEW i \in 1..(Len(q) - 1)
               PROVE  Tail(q)[i] \in ToSet(q)
    BY <1>2 DEF ToSet
  <2>1. i + 1 \in 1..Len(q) /\ Tail(q)[i] = q[i + 1]
    BY <1>1, <1>2
  <2> QED
    BY <1>2, <2>1 DEF ToSet
<1>6. Head(q) \in ToSet(q)
  BY <1>2, <1>3 DEF ToSet
<1>7. ASSUME IsInjective(q)
      PROVE  IsInjective(Tail(q))
  <2> SUFFICES ASSUME NEW i \in 1..(Len(q) - 1), NEW j \in 1..(Len(q) - 1), Tail(q)[i] = Tail(q)[j]
               PROVE  i = j
    BY <1>2 DEF IsInjective
  <2>1. i + 1 \in 1..Len(q) /\ j + 1 \in 1..Len(q) /\ q[i + 1] = q[j + 1]
    BY <1>1, <1>2
  <2>2. i + 1 = j + 1
    BY <1>2, <1>7, <2>1 DEF IsInjective
  <2> QED
    BY <1>2, <2>2
<1>8. ASSUME IsInjective(q), Head(q) \in ToSet(Tail(q))
      PROVE  FALSE
  <2>1. PICK i \in 1..(Len(q) - 1) : q[1] = Tail(q)[i]
    BY <1>2, <1>3, <1>8 DEF ToSet
  <2>2. i + 1 \in 1..Len(q) /\ 1 \in 1..Len(q) /\ q[1] = q[i + 1]
    BY <1>1, <1>2, <2>1
  <2>3. 1 = i + 1
    BY <1>2, <1>8, <2>2 DEF IsInjective
  <2> QED
    BY <1>2, <2>3
<1> QED
  BY <1>1, <1>4, <1>5, <1>6, <1>7, <1>8

\* Appending one sequence to another that shares nothing with it.
LEMMA JoinQueues ==
    ASSUME NEW S, NEW p \in Seq(S), NEW q \in Seq(S)
    PROVE  /\ p \o q \in Seq(S) /\ Len(p \o q) = Len(p) + Len(q)
           /\ ToSet(p \o q) = ToSet(p) \cup ToSet(q)
           /\ IsInjective(p) /\ IsInjective(q) /\ ToSet(p) \cap ToSet(q) = {}
                => IsInjective(p \o q)
<1>1. /\ p \o q \in Seq(S) /\ Len(p \o q) = Len(p) + Len(q)
      /\ \A i \in 1..(Len(p) + Len(q)) :
            (p \o q)[i] = IF i <= Len(p) THEN p[i] ELSE q[i - Len(p)]
  BY ConcatProperties
<1>2. /\ Len(p) \in Nat /\ Len(q) \in Nat
      /\ DOMAIN p = 1..Len(p) /\ DOMAIN q = 1..Len(q)
      /\ DOMAIN (p \o q) = 1..(Len(p) + Len(q))
  BY <1>1, LenProperties
<1>3. ToSet(p \o q) \subseteq ToSet(p) \cup ToSet(q)
  <2> SUFFICES ASSUME NEW i \in 1..(Len(p) + Len(q))
               PROVE  (p \o q)[i] \in ToSet(p) \cup ToSet(q)
    BY <1>2 DEF ToSet
  <2>1. CASE i <= Len(p)
    BY <1>1, <1>2, <2>1 DEF ToSet
  <2>2. CASE i > Len(p)
    <3>1. i - Len(p) \in 1..Len(q) /\ (p \o q)[i] = q[i - Len(p)]
      BY <1>1, <1>2, <2>2
    <3> QED
      BY <1>2, <3>1 DEF ToSet
  <2> QED
    BY <1>2, <2>1, <2>2
<1>4. ToSet(p) \subseteq ToSet(p \o q)
  <2> SUFFICES ASSUME NEW i \in 1..Len(p)
               PROVE  p[i] \in ToSet(p \o q)
    BY <1>2 DEF ToSet
  <2>1. i \in 1..(Len(p) + Len(q)) /\ (p \o q)[i] = p[i]
    BY <1>1, <1>2
  <2> QED
    BY <1>2, <2>1 DEF ToSet
<1>5. ToSet(q) \subseteq ToSet(p \o q)
  <2> SUFFICES ASSUME NEW i \in 1..Len(q)
               PROVE  q[i] \in ToSet(p \o q)
    BY <1>2 DEF ToSet
  <2>1. i + Len(p) \in 1..(Len(p) + Len(q)) /\ ~(i + Len(p) <= Len(p)) /\ (i + Len(p)) - Len(p) = i
    BY <1>2
  <2>2. (p \o q)[i + Len(p)] = q[i]
    BY <1>1, <2>1
  <2> QED
    BY <1>2, <2>1, <2>2 DEF ToSet
<1>6. ASSUME IsInjective(p), IsInjective(q), ToSet(p) \cap ToSet(q) = {}
      PROVE  IsInjective(p \o q)
  <2> SUFFICES ASSUME NEW i \in 1..(Len(p) + Len(q)), NEW j \in 1..(Len(p) + Len(q)),
                      (p \o q)[i] = (p \o q)[j]
               PROVE  i = j
    BY <1>2 DEF IsInjective
  <2>1. CASE i <= Len(p) /\ j <= Len(p)
    BY <1>1, <1>2, <1>6, <2>1 DEF IsInjective
  <2>2. CASE i > Len(p) /\ j > Len(p)
    <3>1. i - Len(p) \in 1..Len(q) /\ j - Len(p) \in 1..Len(q)
      BY <1>2, <2>2
    <3>2. q[i - Len(p)] = q[j - Len(p)]
      BY <1>1, <1>2, <2>2
    <3>3. i - Len(p) = j - Len(p)
      BY <1>2, <1>6, <3>1, <3>2 DEF IsInjective
    <3> QED
      BY <1>2, <3>3
  <2>3. CASE i <= Len(p) /\ j > Len(p)
    <3>1. j - Len(p) \in 1..Len(q) /\ p[i] = q[j - Len(p)] /\ i \in 1..Len(p)
      BY <1>1, <1>2, <2>3
    <3>2. p[i] \in ToSet(p) /\ p[i] \in ToSet(q)
      BY <1>2, <3>1 DEF ToSet
    <3> QED
      BY <1>6, <3>2
  <2>4. CASE i > Len(p) /\ j <= Len(p)
    <3>1. i - Len(p) \in 1..Len(q) /\ p[j] = q[i - Len(p)] /\ j \in 1..Len(p)
      BY <1>1, <1>2, <2>4
    <3>2. p[j] \in ToSet(p) /\ p[j] \in ToSet(q)
      BY <1>2, <3>1 DEF ToSet
    <3> QED
      BY <1>6, <3>2
  <2> QED
    BY <1>2, <2>1, <2>2, <2>3, <2>4
<1> QED
  BY <1>1, <1>3, <1>4, <1>5, <1>6

\* Appending one new element.
LEMMA AppendOne ==
    ASSUME NEW S, NEW q \in Seq(S), NEW x \in S
    PROVE  /\ Append(q, x) \in Seq(S) /\ Len(Append(q, x)) = Len(q) + 1 /\ Append(q, x) # <<>>
           /\ ToSet(Append(q, x)) = ToSet(q) \cup {x}
           /\ IsInjective(q) /\ x \notin ToSet(q) => IsInjective(Append(q, x))
<1>1. <<x>> \in Seq(S) /\ Len(<<x>>) = 1 /\ DOMAIN <<x>> = {1} /\ <<x>>[1] = x
  OBVIOUS
<1>2. ToSet(<<x>>) = {x} /\ IsInjective(<<x>>)
  BY <1>1 DEF ToSet, IsInjective
<1>3. Append(q, x) = q \o <<x>>
  OBVIOUS
<1>4. /\ Append(q, x) \in Seq(S) /\ Len(Append(q, x)) = Len(q) + 1
      /\ ToSet(Append(q, x)) = ToSet(q) \cup {x}
      /\ IsInjective(q) /\ x \notin ToSet(q) => IsInjective(Append(q, x))
  <2>1. /\ q \o <<x>> \in Seq(S) /\ Len(q \o <<x>>) = Len(q) + Len(<<x>>)
        /\ ToSet(q \o <<x>>) = ToSet(q) \cup ToSet(<<x>>)
        /\ IsInjective(q) /\ IsInjective(<<x>>) /\ ToSet(q) \cap ToSet(<<x>>) = {}
             => IsInjective(q \o <<x>>)
    BY <1>1, JoinQueues
  <2> QED
    BY <1>1, <1>2, <1>3, <2>1
<1>5. Len(q) \in Nat /\ Len(<<>>) = 0
  BY LenProperties, EmptySeq
<1> QED
  BY <1>4, <1>5

\* An empty sequence holds nothing.
LEMMA EmptyHolds ==
    /\ ToSet(<<>>) = {} /\ IsInjective(<<>>) /\ Len(<<>>) = 0 /\ \A S : <<>> \in Seq(S)
<1>1. DOMAIN <<>> = {}
  OBVIOUS
<1>2. ToSet(<<>>) = {} /\ IsInjective(<<>>)
  BY <1>1 DEF ToSet, IsInjective
<1> QED
  BY <1>2

-----------------------------------------------------------------------------
(* What the workers hold, counted. *)

HandsOf(f) == {w \in Worker : f[w].pc \in InHandPCs}
SlotsOf(f) == {s \in Worker \X (1..FlushBatch) : s[2] <= Len(f[s[1]].buffer)}
HeldCount == Cardinality(HandsOf(worker)) + Cardinality(SlotsOf(worker))
Weight(rec) == (IF rec.pc \in InHandPCs THEN 1 ELSE 0) + Len(rec.buffer)

\* The buffered slots are those of the other workers and one for each row in
\* the buffer of this one.
LEMMA SlotsSplit ==
    ASSUME NEW f \in [Worker -> WorkerType], NEW w \in Worker, Len(f[w].buffer) <= FlushBatch
    PROVE  LET others == {s \in SlotsOf(f) : s[1] # w}
           IN  /\ IsFiniteSet(others) /\ IsFiniteSet(SlotsOf(f))
               /\ Cardinality(others) \in Nat
               /\ Cardinality(SlotsOf(f)) = Cardinality(others) + Len(f[w].buffer)
<1> DEFINE others == {s \in SlotsOf(f) : s[1] # w}
           n == Len(f[w].buffer)
           own == {w} \X (1..n)
<1>1. n \in Nat /\ FlushBatch \in Nat
  <2>1. f[w].buffer \in Seq(Item)
    BY DEF WorkerType
  <2> QED
    BY <2>1, LenProperties, SubscriberAssumption
<1>2. IsFiniteSet(Worker \X (1..FlushBatch))
  <2>1. IsFiniteSet(1..FlushBatch)
    BY <1>1, FS_Interval
  <2> QED
    BY <2>1, SubscriberAssumption, FS_Product
<1>3. /\ IsFiniteSet(SlotsOf(f)) /\ IsFiniteSet(others)
      /\ Cardinality(others) \in Nat
  <2>1. SlotsOf(f) \in SUBSET (Worker \X (1..FlushBatch)) /\ others \in SUBSET SlotsOf(f)
    BY DEF SlotsOf
  <2>2. IsFiniteSet(SlotsOf(f))
    BY <1>2, <2>1, FS_Subset
  <2>3. IsFiniteSet(others)
    BY <2>1, <2>2, FS_Subset
  <2> QED
    BY <2>2, <2>3, FS_CardinalityType
<1>4. SlotsOf(f) = others \cup own
  BY <1>1 DEF SlotsOf
<1>5. others \cap own = {}
  OBVIOUS
<1>6. IsFiniteSet(own) /\ Cardinality(own) = n
  <2>1. IsFiniteSet({w}) /\ Cardinality({w}) = 1
    BY FS_Singleton
  <2>2. IsFiniteSet(1..n) /\ Cardinality(1..n) = n
    <3> HIDE DEF n
    <3>1. IsFiniteSet(1..n) /\ Cardinality(1..n) = IF 1 > n THEN 0 ELSE n - 1 + 1
      BY <1>1, FS_Interval
    <3> QED
      BY <1>1, <3>1
  <2>3. IsFiniteSet(own) /\ Cardinality(own) = 1 * n
    BY <2>1, <2>2, FS_Product
  <2> QED
    BY <1>1, <2>3
<1>7. Cardinality(others \cup own) = Cardinality(others) + Cardinality(own) - Cardinality({})
  BY <1>3, <1>5, <1>6, FS_Union
<1>8. Cardinality(SlotsOf(f)) = Cardinality(others) + n
  <2>1. Cardinality({}) = 0
    BY FS_EmptySet
  <2> HIDE DEF others, own, n
  <2> QED
    BY <1>1, <1>3, <1>4, <1>6, <1>7, <2>1
<1> QED
  BY <1>3, <1>8

\* A step of one worker changes the count by what that worker takes or settles.
LEMMA Recount ==
    ASSUME worker \in [Worker -> WorkerType], NEW w \in Worker, NEW rec \in WorkerType,
           Len(worker[w].buffer) <= FlushBatch, Len(rec.buffer) <= FlushBatch,
           worker' = [worker EXCEPT ![w] = rec]
    PROVE  /\ HeldCount \in Nat /\ Weight(worker[w]) \in Nat /\ Weight(rec) \in Nat
           /\ HeldCount' = HeldCount - Weight(worker[w]) + Weight(rec)
<1> DEFINE hands == HandsOf(worker) \ {w}
           slots == {s \in SlotsOf(worker) : s[1] # w}
           n == Len(worker[w].buffer)
           m == Len(rec.buffer)
<1>1. worker' \in [Worker -> WorkerType] /\ worker'[w] = rec
  OBVIOUS
<1>2. n \in Nat /\ m \in Nat
  <2>1. worker[w].buffer \in Seq(Item) /\ rec.buffer \in Seq(Item)
    BY DEF WorkerType
  <2> QED
    BY <2>1, LenProperties
<1>3. /\ Cardinality(slots) \in Nat
      /\ Cardinality(SlotsOf(worker)) = Cardinality(slots) + n
  BY SlotsSplit
<1>4. Cardinality(SlotsOf(worker')) = Cardinality(slots) + m
  <2>1. slots = {s \in SlotsOf(worker') : s[1] # w}
    BY DEF SlotsOf
  <2>2. Len(worker'[w].buffer) <= FlushBatch
    BY <1>1
  <2>3. Cardinality(SlotsOf(worker')) =
          Cardinality({s \in SlotsOf(worker') : s[1] # w}) + Len(worker'[w].buffer)
    BY <1>1, <2>2, SlotsSplit
  <2> QED
    BY <1>1, <2>1, <2>3
<1>5. ASSUME NEW f, IsFiniteSet(HandsOf(f)), hands = HandsOf(f) \ {w}
      PROVE  Cardinality(HandsOf(f)) = Cardinality(hands)
                                       + (IF f[w].pc \in InHandPCs THEN 1 ELSE 0)
  <2>1. /\ Cardinality(HandsOf(f)) \in Nat
        /\ Cardinality(hands) = IF w \in HandsOf(f) THEN Cardinality(HandsOf(f)) - 1
                                ELSE Cardinality(HandsOf(f))
    BY <1>5, FS_RemoveElement, FS_CardinalityType
  <2>2. w \in HandsOf(f) <=> f[w].pc \in InHandPCs
    BY DEF HandsOf
  <2> QED
    BY <2>1, <2>2
<1>6. IsFiniteSet(HandsOf(worker)) /\ IsFiniteSet(HandsOf(worker'))
  <2>1. HandsOf(worker) \in SUBSET Worker /\ HandsOf(worker') \in SUBSET Worker
    BY DEF HandsOf
  <2> QED
    BY <2>1, SubscriberAssumption, FS_Subset
<1>7. hands = HandsOf(worker') \ {w}
  BY DEF HandsOf
<1>8. Cardinality(HandsOf(worker)) = Cardinality(hands)
                                     + (IF worker[w].pc \in InHandPCs THEN 1 ELSE 0)
  BY <1>5, <1>6
<1>9. Cardinality(HandsOf(worker')) = Cardinality(hands) + (IF rec.pc \in InHandPCs THEN 1 ELSE 0)
  BY <1>1, <1>5, <1>6, <1>7
<1>10. Cardinality(hands) \in Nat
  BY <1>6, FS_RemoveElement, FS_CardinalityType
<1> HIDE DEF hands, slots, n, m
<1>11. HeldCount' = Cardinality(HandsOf(worker')) + Cardinality(SlotsOf(worker'))
  BY DEF HeldCount, HandsOf, SlotsOf
<1>12. Weight(worker[w]) = (IF worker[w].pc \in InHandPCs THEN 1 ELSE 0) + n
       /\ Weight(rec) = (IF rec.pc \in InHandPCs THEN 1 ELSE 0) + m
  BY DEF Weight, n, m
<1>13. HeldCount = Cardinality(HandsOf(worker)) + Cardinality(SlotsOf(worker))
  BY DEF HeldCount
<1> HIDE DEF HeldCount, HandsOf, SlotsOf, Weight
<1>14. HeldCount \in Nat /\ Weight(worker[w]) \in Nat /\ Weight(rec) \in Nat
  BY <1>2, <1>3, <1>8, <1>10, <1>12, <1>13
<1>15. HeldCount' = HeldCount - Weight(worker[w]) + Weight(rec)
  <2> DEFINE h == Cardinality(hands)
             c == Cardinality(slots)
             k == IF worker[w].pc \in InHandPCs THEN 1 ELSE 0
             l == IF rec.pc \in InHandPCs THEN 1 ELSE 0
  <2>1. k \in Nat /\ l \in Nat
    OBVIOUS
  <2>2. HeldCount' = (h + l) + (c + m)
    BY <1>4, <1>9, <1>11
  <2>3. HeldCount = (h + k) + (c + n)
    BY <1>3, <1>8, <1>13
  <2>4. Weight(worker[w]) = k + n /\ Weight(rec) = l + m
    BY <1>12
  <2>5. h \in Nat /\ c \in Nat
    BY <1>3, <1>10
  <2> HIDE DEF h, c, k, l
  <2> QED
    BY <1>2, <2>1, <2>2, <2>3, <2>4, <2>5
<1> QED
  BY <1>14, <1>15

\* TasksBalanced in terms of the count.
LEMMA Balanced ==
    worker \in [Worker -> WorkerType] /\ inflight \in Seq(Item) =>
        /\ HeldCount \in Nat
        /\ TasksBalanced <=> unfinished = Len(inflight) + HeldCount
<1> SUFFICES ASSUME worker \in [Worker -> WorkerType], inflight \in Seq(Item)
             PROVE  /\ HeldCount \in Nat
                    /\ TasksBalanced <=> unfinished = Len(inflight) + HeldCount
  OBVIOUS
<1>0. Len(inflight) \in Nat
  BY LenProperties
<1>1. {w \in Worker : InHand(w)} = HandsOf(worker)
  BY DEF InHand, HandsOf, InHandPCs
<1>2. {s \in Worker \X (1..FlushBatch) : s[2] <= Len(worker[s[1]].buffer)} = SlotsOf(worker)
  BY DEF SlotsOf
<1>3. Cardinality(HandsOf(worker)) \in Nat
  <2>1. HandsOf(worker) \in SUBSET Worker
    BY DEF HandsOf
  <2> QED
    BY <2>1, SubscriberAssumption, FS_Subset, FS_CardinalityType
<1>4. Cardinality(SlotsOf(worker)) \in Nat
  <2>1. IsFiniteSet(1..FlushBatch)
    BY SubscriberAssumption, FS_Interval
  <2>2. IsFiniteSet(Worker \X (1..FlushBatch))
    BY <2>1, SubscriberAssumption, FS_Product
  <2>3. SlotsOf(worker) \in SUBSET (Worker \X (1..FlushBatch))
    BY DEF SlotsOf
  <2>4. IsFiniteSet(SlotsOf(worker))
    BY <2>2, <2>3, FS_Subset
  <2> QED
    BY <2>4, FS_CardinalityType
<1>5. TasksBalanced <=> unfinished = Len(inflight) + Cardinality(HandsOf(worker))
                                     + Cardinality(SlotsOf(worker))
  BY <1>1, <1>2 DEF TasksBalanced
<1> HIDE DEF HandsOf, SlotsOf
<1> QED
  BY <1>0, <1>3, <1>4, <1>5 DEF HeldCount

-----------------------------------------------------------------------------
(* The step of one worker, taken apart: what it settles of the rows it holds, *)
(* and what it does with the queue next.                                      *)

HeldOf(rec) == ToSet(rec.buffer) \cup (IF rec.pc \in InHandPCs THEN {rec.item} ELSE {})

\* Of the rows w holds, done are settled, n of them, and b is the buffer then.
Settles(w, b, done, n) ==
    /\ n \in Nat /\ done \subseteq HeldBy(w)
    /\ b \in Seq(Item) /\ IsInjective(b) /\ ToSet(b) = HeldBy(w) \ done
    /\ Len(b) = Weight(worker[w]) - n

\* The worker takes nothing; a row met with a stale connection goes to the end.
Rests(rec) ==
    /\ rec.pc \notin InHandPCs
    /\ UNCHANGED <<notify, dispatched>>
    /\ \/ inflight' = inflight
       \/ inflight # <<>> /\ inflight' = Append(Tail(inflight), Head(inflight))

Takes(rec) ==
    /\ rec.pc \in InHandPCs
    /\ inflight # <<>> /\ rec.item = Head(inflight)
    /\ inflight' = Tail(inflight)
    /\ notify' = (notify \/ Free(Tail(inflight)) >= RefillAt)
    /\ dispatched' = dispatched \cup {Head(inflight)}

Moves(w, b) ==
    \E rec : /\ Shaped(rec) /\ rec.buffer = b
             /\ worker' = [worker EXCEPT ![w] = rec]
             /\ Rests(rec) \/ Takes(rec)

\* Each settled row gets its closing event, or a drain has timed out.
Closes(done) ==
    \/ closings' = [i \in Item |-> IF i \in done THEN closings[i] + 1 ELSE closings[i]]
    \/ ~stop.clean /\ closings' = closings

\* What every step of a worker leaves alone.
Aside ==
    /\ TableSound' /\ claims' = claims
    /\ faults' \in 0..MaxFaults /\ faults' >= faults
    /\ UNCHANGED <<notice, running, stopping, generation, fetch, stop, unseen, starts>>

\* What a step does to the queue, as a set.
LEMMA QueueMoves ==
    ASSUME Typed, Placed, NEW rec, Rests(rec) \/ Takes(rec)
    PROVE  /\ inflight' \in Seq(Item) /\ IsInjective(inflight')
           /\ Len(inflight) \in Nat /\ Len(inflight') \in Nat
           /\ Rests(rec) => Len(inflight') = Len(inflight) /\ ToSet(inflight') = ToSet(inflight)
           /\ Takes(rec) => /\ Len(inflight') = Len(inflight) - 1
                            /\ Head(inflight) \in Item /\ Head(inflight) \in ToSet(inflight)
                            /\ ToSet(inflight') = ToSet(inflight) \ {Head(inflight)}
<1>1. inflight \in Seq(Item) /\ IsInjective(inflight) /\ Len(inflight) \in Nat
  BY LenProperties DEF Typed, Placed
<1>2. CASE inflight' = inflight /\ Rests(rec)
  BY <1>1, <1>2 DEF Rests, Takes
<1>3. CASE inflight # <<>>
  <2>1. /\ Head(inflight) \in Item /\ Tail(inflight) \in Seq(Item)
        /\ Len(Tail(inflight)) = Len(inflight) - 1
        /\ ToSet(inflight) = ToSet(Tail(inflight)) \cup {Head(inflight)}
        /\ IsInjective(Tail(inflight)) /\ Head(inflight) \notin ToSet(Tail(inflight))
    BY <1>1, <1>3, TailOfQueue
  <2>2. Len(Tail(inflight)) \in Nat
    BY <2>1, LenProperties
  <2>3. CASE Takes(rec)
    BY <1>1, <2>1, <2>2, <2>3 DEF Rests, Takes
  <2>4. CASE Rests(rec) /\ inflight' = Append(Tail(inflight), Head(inflight))
    <3> DEFINE q == Tail(inflight)
               x == Head(inflight)
    <3>1. q \in Seq(Item) /\ x \in Item /\ IsInjective(q) /\ x \notin ToSet(q)
      BY <2>1
    <3>2. inflight' = Append(q, x)
      BY <2>4
    <3> HIDE DEF q, x
    <3>3. /\ inflight' \in Seq(Item) /\ Len(inflight') = Len(q) + 1
          /\ ToSet(inflight') = ToSet(q) \cup {x}
          /\ IsInjective(inflight')
      BY <3>1, <3>2, AppendOne
    <3>4. /\ Len(q) = Len(inflight) - 1 /\ ToSet(inflight) = ToSet(q) \cup {x}
      BY <2>1 DEF q, x
    <3>5. Len(inflight') = Len(inflight) /\ ToSet(inflight') = ToSet(inflight)
      BY <1>1, <3>3, <3>4
    <3>6. ~Takes(rec)
      BY <2>4 DEF Rests, Takes
    <3> QED
      BY <1>1, <3>3, <3>5, <3>6
  <2> QED
    BY <1>2, <2>3, <2>4 DEF Rests
<1> QED
  BY <1>2, <1>3 DEF Rests, Takes

\* Who holds what after the step.
LEMMA HeldMoves ==
    ASSUME Typed, NEW w \in Worker, NEW rec, Shaped(rec), worker' = [worker EXCEPT ![w] = rec]
    PROVE  /\ worker' \in [Worker -> WorkerType] /\ worker'[w] = rec
           /\ \A v \in Worker \ {w} : worker'[v] = worker[v]
           /\ HeldBy(w)' = HeldOf(rec) /\ HeldBy(w) = HeldOf(worker[w])
           /\ \A v \in Worker \ {w} : HeldBy(v)' = HeldBy(v)
           /\ Buffered(w)' = ToSet(rec.buffer)
           /\ \A v \in Worker \ {w} : Buffered(v)' = Buffered(v) /\ InHand(v)' = InHand(v)
           /\ InHand(w)' = (rec.pc \in InHandPCs)
           /\ HeldRows' = HeldOf(rec) \cup UNION {HeldBy(v) : v \in Worker \ {w}}
           /\ HeldRows = HeldBy(w) \cup UNION {HeldBy(v) : v \in Worker \ {w}}
<1>1. /\ worker' \in [Worker -> WorkerType] /\ worker'[w] = rec
      /\ \A v \in Worker \ {w} : worker'[v] = worker[v]
  BY DEF Typed, Shaped
<1>2. HeldBy(w)' = HeldOf(rec) /\ Buffered(w)' = ToSet(rec.buffer)
  BY <1>1 DEF HeldBy, HeldOf, Buffered, InHand, InHandPCs
<1>3. HeldBy(w) = HeldOf(worker[w])
  BY DEF HeldBy, HeldOf, Buffered, InHand, InHandPCs
<1>4. \A v \in Worker \ {w} : HeldBy(v)' = HeldBy(v) /\ Buffered(v)' = Buffered(v)
  BY <1>1 DEF HeldBy, Buffered, InHand
<1>5. \A v \in Worker \ {w} : InHand(v)' = InHand(v)
  BY <1>1 DEF InHand
<1>6. InHand(w)' = (rec.pc \in InHandPCs)
  BY <1>1 DEF InHand, InHandPCs
<1>7. HeldRows' = UNION {HeldBy(v)' : v \in Worker}
  BY DEF HeldRows
<1>8. HeldRows' = HeldOf(rec) \cup UNION {HeldBy(v) : v \in Worker \ {w}}
  BY <1>2, <1>4, <1>7
<1>9. HeldRows = HeldBy(w) \cup UNION {HeldBy(v) : v \in Worker \ {w}}
  BY DEF HeldRows
<1> QED
  BY <1>1, <1>2, <1>3, <1>4, <1>5, <1>6, <1>8, <1>9

\* All of it together, of a worker that has not ended.
Step(w, rec, b, done, n) ==
    /\ worker[w].pc # "done"
    /\ Settles(w, b, done, n) /\ unfinished' = unfinished - n /\ Closes(done)
    /\ Shaped(rec) /\ rec.buffer = b /\ worker' = [worker EXCEPT ![w] = rec]
    /\ Rests(rec) \/ Takes(rec)
    /\ Aside

\* Types.
LEMMA StepTyped ==
    ASSUME SubInv, NEW w \in Worker, NEW rec, NEW b, NEW done, NEW n, Step(w, rec, b, done, n)
    PROVE  Typed'
<1>1. Typed /\ Placed /\ Shaped(rec) /\ worker' = [worker EXCEPT ![w] = rec]
      /\ (Rests(rec) \/ Takes(rec))
  BY DEF SubInv, Step
<1>2. worker' \in [Worker -> WorkerType] /\ worker'[w] = rec
      /\ \A v \in Worker \ {w} : worker'[v] = worker[v]
  BY <1>1, HeldMoves
<1>3. inflight' \in Seq(Item) /\ (Takes(rec) => Head(inflight) \in Item)
  BY <1>1, QueueMoves
<1>4. \A v \in Worker : Shaped(worker'[v])
  BY <1>1, <1>2 DEF Typed
<1>5. n \in Nat /\ unfinished' = unfinished - n /\ Closes(done)
  BY DEF Step, Settles
<1>6. closings' \in [Item -> Nat]
  BY <1>1, <1>5 DEF Closes, Typed
<1>7. dispatched' \subseteq Item /\ notify' \in BOOLEAN
  BY <1>1, <1>3 DEF Typed, Rests, Takes
<1>8. /\ UNCHANGED <<notice, running, stopping, generation, fetch, stop, unseen, starts>>
      /\ faults' \in 0..MaxFaults /\ faults' >= faults
  BY DEF Step, Aside
<1>9. MaxFaults \in Nat
  BY SubscriberAssumption
<1>10. generation' \in 0..faults'
  BY <1>1, <1>8, <1>9 DEF Typed
<1>11. unfinished' \in Int
  BY <1>1, <1>5 DEF Typed
<1>12. (\A v \in Worker : Shaped(worker[v]))'
  BY <1>4 DEF Shaped
<1> QED
  BY <1>1, <1>2, <1>3, <1>6, <1>7, <1>8, <1>10, <1>11, <1>12 DEF Typed

\* The counts.
LEMMA StepCounts ==
    ASSUME SubInv, NEW w \in Worker, NEW rec, NEW b, NEW done, NEW n, Step(w, rec, b, done, n)
    PROVE  TasksBalanced'
<1>1. /\ Typed /\ Placed /\ TasksBalanced /\ Shaped(rec) /\ worker' = [worker EXCEPT ![w] = rec]
      /\ Rests(rec) \/ Takes(rec)
      /\ n \in Nat /\ unfinished' = unfinished - n /\ Len(rec.buffer) = Weight(worker[w]) - n
  BY DEF SubInv, Step, Settles
<1>2. /\ worker \in [Worker -> WorkerType] /\ rec \in WorkerType
      /\ Len(worker[w].buffer) <= FlushBatch /\ Len(rec.buffer) <= FlushBatch
  BY <1>1 DEF Typed, Shaped
<1>3. /\ HeldCount \in Nat /\ Weight(worker[w]) \in Nat /\ Weight(rec) \in Nat
      /\ HeldCount' = HeldCount - Weight(worker[w]) + Weight(rec)
  BY <1>1, <1>2, Recount
<1>4. /\ Len(inflight) \in Nat /\ Len(inflight') \in Nat
      /\ Rests(rec) => Len(inflight') = Len(inflight)
      /\ Takes(rec) => Len(inflight') = Len(inflight) - 1
  BY <1>1, QueueMoves
<1>5. unfinished = Len(inflight) + HeldCount
  BY <1>1, Balanced DEF Typed
<1>6. Len(rec.buffer) \in Nat
  BY <1>2, LenProperties DEF WorkerType
<1>7. /\ Rests(rec) => Weight(rec) = Len(rec.buffer)
      /\ Takes(rec) => Weight(rec) = 1 + Len(rec.buffer)
  <2>1. /\ Rests(rec) => ~(rec.pc \in InHandPCs)
        /\ Takes(rec) => rec.pc \in InHandPCs
    BY DEF Rests, Takes
  <2>2. /\ rec.pc \in InHandPCs => Weight(rec) = 1 + Len(rec.buffer)
        /\ rec.pc \notin InHandPCs => Weight(rec) = 0 + Len(rec.buffer)
    BY DEF Weight
  <2>3. 0 + Len(rec.buffer) = Len(rec.buffer)
    BY <1>6
  <2> QED
    BY <2>1, <2>2, <2>3
<1>8. unfinished' = Len(inflight') + HeldCount'
  <2> DEFINE u == Weight(worker[w])
             v == Weight(rec)
             k == Len(rec.buffer)
  <2>1. /\ k = u - n /\ HeldCount' = HeldCount - u + v /\ u \in Nat /\ v \in Nat /\ k \in Nat
    BY <1>1, <1>3, <1>6
  <2>2. /\ Rests(rec) => v = k
        /\ Takes(rec) => v = 1 + k
    BY <1>7
  <2>3. n \in Nat /\ unfinished' = unfinished - n
    BY <1>1
  <2> HIDE DEF u, v, k
  <2>4. CASE Rests(rec)
    BY <1>3, <1>4, <1>5, <2>1, <2>2, <2>3, <2>4
  <2>5. CASE Takes(rec)
    <3>1. v = 1 + k /\ Len(inflight') = Len(inflight) - 1
      BY <1>4, <2>2, <2>5
    <3>2. unfinished' = (Len(inflight) + HeldCount) - n
      BY <1>5, <2>3
    <3>3. HeldCount' = HeldCount - (n + k) + (1 + k)
      BY <2>1, <2>3, <3>1
    <3>4. HeldCount' = HeldCount - n + 1
      BY <1>3, <2>1, <2>3, <3>3
    <3> DEFINE l == Len(inflight)
               h == HeldCount
    <3>5. l \in Nat /\ h \in Nat /\ n \in Nat
      BY <1>3, <1>4, <2>3
    <3>6. unfinished' = (l + h) - n /\ Len(inflight') = l - 1 /\ HeldCount' = h - n + 1
      BY <3>1, <3>2, <3>4
    <3> HIDE DEF l, h
    <3>7. (l + h) - n = (l - 1) + (h - n + 1)
      BY <3>5
    <3> QED
      BY <3>6, <3>7
  <2> QED
    BY <1>1, <2>4, <2>5
<1>9. worker' \in [Worker -> WorkerType] /\ inflight' \in Seq(Item)
  BY <1>1, HeldMoves, QueueMoves
<1>10. (worker \in [Worker -> WorkerType] /\ inflight \in Seq(Item) =>
          /\ HeldCount \in Nat
          /\ TasksBalanced <=> unfinished = Len(inflight) + HeldCount)'
  BY Balanced, PTL
<1> QED
  BY <1>8, <1>9, <1>10

\* The sets of rows that the step deals with.
LEMMA StepSets ==
    ASSUME SubInv, NEW w \in Worker, NEW rec, NEW b, NEW done, NEW n, Step(w, rec, b, done, n)
    PROVE  /\ Typed /\ Placed /\ Shaped(rec) /\ (Rests(rec) \/ Takes(rec)) /\ rec.buffer = b
           /\ worker' = [worker EXCEPT ![w] = rec]
           /\ done \subseteq HeldBy(w) /\ IsInjective(b) /\ ToSet(b) = HeldBy(w) \ done
           /\ Rests(rec) => HeldOf(rec) = HeldBy(w) \ done
           /\ Takes(rec) => HeldOf(rec) = (HeldBy(w) \ done) \cup {Head(inflight)}
<1>1. /\ Typed /\ Placed /\ Shaped(rec) /\ (Rests(rec) \/ Takes(rec)) /\ rec.buffer = b
      /\ worker' = [worker EXCEPT ![w] = rec]
      /\ done \subseteq HeldBy(w) /\ IsInjective(b) /\ ToSet(b) = HeldBy(w) \ done
  BY DEF SubInv, Step, Settles
<1>2. Rests(rec) => HeldOf(rec) = HeldBy(w) \ done
  BY <1>1 DEF Rests, HeldOf
<1>3. Takes(rec) => HeldOf(rec) = (HeldBy(w) \ done) \cup {Head(inflight)}
  BY <1>1 DEF Takes, HeldOf
<1> QED
  BY <1>1, <1>2, <1>3

\* Control, room, drain and wake-ups.
LEMMA StepControl ==
    ASSUME SubInv, NEW w \in Worker, NEW rec, NEW b, NEW done, NEW n, Step(w, rec, b, done, n)
    PROVE  Control' /\ Fits' /\ DrainLeavesNothing' /\ Woken'
<1>1. /\ Typed /\ Placed /\ Shaped(rec) /\ (Rests(rec) \/ Takes(rec))
      /\ worker' = [worker EXCEPT ![w] = rec]
      /\ Rests(rec) => HeldOf(rec) \subseteq HeldBy(w)
      /\ Takes(rec) => inflight # <<>>
  BY StepSets DEF Takes
<1>2. UNCHANGED <<notice, running, stopping, generation, fetch, stop, unseen, starts>>
  BY DEF Step, Aside
<1>3. /\ Len(inflight) \in Nat /\ Len(inflight') \in Nat /\ inflight' \in Seq(Item)
      /\ Rests(rec) => Len(inflight') = Len(inflight)
      /\ Takes(rec) => Len(inflight') = Len(inflight) - 1
  BY <1>1, QueueMoves
<1>4. Control /\ Fits /\ DrainLeavesNothing /\ Woken /\ worker[w].pc # "done"
  BY DEF SubInv, Step
<1>5. ~(stop.pc = "idle" /\ ~running)
  BY <1>4 DEF Control
<1>6. Control'
  BY <1>2, <1>4, <1>5 DEF Control, ClaimLocked
<1>7. Len(inflight') <= Len(inflight)
  BY <1>1, <1>3
<1>8. fetch.free \in Nat /\ Len(fetch.got) \in Nat /\ InflightMax \in Nat
  <2>1. fetch.free \in 0..InflightMax /\ fetch.got \in Seq(Item)
    BY <1>1 DEF Typed, FetchType
  <2> QED
    BY <2>1, LenProperties, SubscriberAssumption
<1>9. Fits'
  BY <1>2, <1>3, <1>4, <1>7, <1>8 DEF Fits
<1>10. DrainLeavesNothing'
  <2> SUFFICES ASSUME stop.pc = "gather", stop.clean
               PROVE  inflight' = <<>> /\ HeldRows' = {} /\ ~ClaimLocked /\ fetch.got = <<>>
    BY <1>2 DEF DrainLeavesNothing, ClaimLocked
  <2>1. inflight = <<>> /\ HeldRows = {} /\ ~ClaimLocked /\ fetch.got = <<>>
    BY <1>4 DEF DrainLeavesNothing
  <2>2. Rests(rec) /\ Len(inflight') = 0
    BY <1>1, <1>3, <2>1, EmptyHolds
  <2>3. inflight' = <<>>
    BY <1>3, <2>2, EmptySeq
  <2>4. HeldRows' = {}
    <3>1. HeldRows' = HeldOf(rec) \cup UNION {HeldBy(v) : v \in Worker \ {w}}
          /\ HeldRows = HeldBy(w) \cup UNION {HeldBy(v) : v \in Worker \ {w}}
      BY <1>1, HeldMoves
    <3> QED
      BY <1>1, <2>1, <2>2, <3>1
  <2> QED
    BY <2>1, <2>3, <2>4
<1>11. Woken'
  <2>1. notify \in BOOLEAN
    BY <1>1 DEF Typed
  <2>2. notify => notify'
    BY <1>1, <2>1 DEF Rests, Takes
  <2>3. fetch.pc \in {"reply", "idleWait"} /\ ~notify' /\ ~notice => unseen = {}
    BY <1>4, <2>2 DEF Woken
  <2>4. ASSUME fetch.pc = "fullWait", ~notify'
        PROVE  Free(inflight') < RefillAt
    <3>1. CASE Rests(rec)
      BY <1>3, <1>4, <2>4, <2>2, <3>1 DEF Woken, RoomWakesFetch, Free
    <3>2. CASE Takes(rec)
      <4>1. ~(Free(inflight') >= RefillAt)
        BY <2>4, <3>2 DEF Takes
      <4>2. Free(inflight') \in Int /\ RefillAt \in Int
        BY <1>3, <1>8 DEF Free, RefillAt
      <4> QED
        BY <4>1, <4>2
    <3> QED
      BY <1>1, <3>1, <3>2
  <2> QED
    BY <1>2, <2>3, <2>4 DEF Woken, RoomWakesFetch, Free
<1> QED
  BY <1>6, <1>9, <1>10, <1>11

\* Places: a row taken leaves the queue for one worker only.
LEMMA StepPlaced ==
    ASSUME SubInv, NEW w \in Worker, NEW rec, NEW b, NEW done, NEW n, Step(w, rec, b, done, n)
    PROVE  Placed'
<1>1. /\ Typed /\ Placed /\ Shaped(rec) /\ (Rests(rec) \/ Takes(rec)) /\ rec.buffer = b
      /\ worker' = [worker EXCEPT ![w] = rec]
      /\ done \subseteq HeldBy(w) /\ IsInjective(b) /\ ToSet(b) = HeldBy(w) \ done
      /\ Rests(rec) => HeldOf(rec) = HeldBy(w) \ done
      /\ Takes(rec) => HeldOf(rec) = (HeldBy(w) \ done) \cup {Head(inflight)}
  BY StepSets
<1>2. UNCHANGED fetch
  BY DEF Step, Aside
<1>3. /\ IsInjective(inflight') /\ ToSet(inflight') \subseteq ToSet(inflight)
      /\ Takes(rec) => /\ Head(inflight) \in ToSet(inflight)
                       /\ ToSet(inflight') = ToSet(inflight) \ {Head(inflight)}
  BY <1>1, QueueMoves
<1>4. /\ worker'[w] = rec /\ \A v \in Worker \ {w} : worker'[v] = worker[v]
      /\ HeldBy(w)' = HeldOf(rec) /\ Buffered(w)' = ToSet(rec.buffer)
      /\ \A v \in Worker \ {w} : HeldBy(v)' = HeldBy(v)
      /\ \A v \in Worker \ {w} : Buffered(v)' = Buffered(v) /\ InHand(v)' = InHand(v)
      /\ InHand(w)' = (rec.pc \in InHandPCs)
  BY <1>1, HeldMoves
<1>5. /\ (Rests(rec) => dispatched' = dispatched)
      /\ (Takes(rec) => dispatched' = dispatched \cup {Head(inflight)} /\ rec.item = Head(inflight))
      /\ (Rests(rec) => ~(rec.pc \in InHandPCs))
  BY DEF Rests, Takes
<1>6. IsInjective(inflight') /\ IsInjective(fetch'.got)
      /\ ToSet(inflight') \cap ToSet(fetch'.got) = {}
  BY <1>1, <1>2, <1>3 DEF Placed
<1>7. (ToSet(inflight') \cup ToSet(fetch'.got)) \cap dispatched' = {}
  <2>1. ToSet(inflight) \cap ToSet(fetch.got) = {}
        /\ (ToSet(inflight) \cup ToSet(fetch.got)) \cap dispatched = {}
    BY <1>1 DEF Placed
  <2>2. CASE Rests(rec)
    BY <1>2, <1>3, <1>5, <2>1, <2>2
  <2>3. CASE Takes(rec)
    BY <1>2, <1>3, <1>5, <2>1, <2>3
  <2> QED
    BY <1>1, <2>2, <2>3
<1>9. \A v \in Worker : IsInjective(worker'[v].buffer) /\ HeldBy(v)' \subseteq dispatched'
  <2>1. \A v \in Worker : IsInjective(worker[v].buffer) /\ HeldBy(v) \subseteq dispatched
    BY <1>1 DEF Placed
  <2>2. dispatched \subseteq dispatched' /\ (Takes(rec) => Head(inflight) \in dispatched')
    BY <1>1, <1>5
  <2>3. HeldOf(rec) \subseteq dispatched'
    BY <1>1, <2>1, <2>2
  <2> QED
    BY <1>1, <1>4, <2>1, <2>2, <2>3
<1>10. Takes(rec) => \A v \in Worker : Head(inflight) \notin HeldBy(v)
  BY <1>1, <1>3 DEF Placed
<1>11. \A v \in Worker : InHand(v)' => worker'[v].item \notin Buffered(v)'
  <2>1. InHand(w)' => rec.item \notin ToSet(b)
    BY <1>1, <1>4, <1>5, <1>10
  <2>2. \A v \in Worker \ {w} : InHand(v) => worker[v].item \notin Buffered(v)
    BY <1>1 DEF Placed
  <2> QED
    BY <1>1, <1>4, <2>1, <2>2
<1>12. \A v \in Worker \ {w} : HeldOf(rec) \cap HeldBy(v) = {}
  <2>1. \A v \in Worker \ {w} : HeldBy(w) \cap HeldBy(v) = {}
    BY <1>1 DEF Placed
  <2> QED
    BY <1>1, <1>10, <2>1
<1>13. \A u, v \in Worker : u # v => HeldBy(u)' \cap HeldBy(v)' = {}
  <2>1. \A u, v \in Worker : u # v => HeldBy(u) \cap HeldBy(v) = {}
    BY <1>1 DEF Placed
  <2> QED
    BY <1>4, <1>12, <2>1
<1> QED
  BY <1>6, <1>7, <1>9, <1>11, <1>13 DEF Placed

\* Events: what is settled is closed, what is taken is dispatched and open.
LEMMA StepTraced ==
    ASSUME SubInv, NEW w \in Worker, NEW rec, NEW b, NEW done, NEW n, Step(w, rec, b, done, n)
    PROVE  Traced'
<1>1. /\ Typed /\ Placed /\ Shaped(rec) /\ (Rests(rec) \/ Takes(rec))
      /\ worker' = [worker EXCEPT ![w] = rec] /\ done \subseteq HeldBy(w)
      /\ Rests(rec) => HeldOf(rec) = HeldBy(w) \ done
      /\ Takes(rec) => HeldOf(rec) = (HeldBy(w) \ done) \cup {Head(inflight)}
  BY StepSets
<1>2. UNCHANGED <<fetch, stop, claims>> /\ Traced /\ Closes(done)
  BY DEF Step, Aside, SubInv
<1>3. /\ ToSet(inflight') \subseteq ToSet(inflight)
      /\ Takes(rec) => Head(inflight) \in Item /\ Head(inflight) \in ToSet(inflight)
  BY <1>1, QueueMoves
<1>4. /\ HeldRows' = HeldOf(rec) \cup UNION {HeldBy(v) : v \in Worker \ {w}}
      /\ HeldRows = HeldBy(w) \cup UNION {HeldBy(v) : v \in Worker \ {w}}
  BY <1>1, HeldMoves
<1>5. /\ (Rests(rec) => dispatched' = dispatched)
      /\ (Takes(rec) => dispatched' = dispatched \cup {Head(inflight)})
  BY DEF Rests, Takes
<1>6. \A i \in dispatched' \cup ToSet(inflight') \cup ToSet(fetch'.got) : i.claim <= claims'[i.row]
  BY <1>1, <1>2, <1>3, <1>5 DEF Traced
<1>7. /\ HeldBy(w) \subseteq dispatched /\ dispatched \subseteq Item
      /\ \A v \in Worker \ {w} : HeldBy(v) \cap HeldBy(w) = {}
      /\ (Takes(rec) => Head(inflight) \notin dispatched)
  BY <1>1, <1>3 DEF Placed, Typed
<1>8. \A i \in Item \ dispatched' : closings'[i] = 0
  <2> SUFFICES ASSUME NEW i \in Item \ dispatched'
               PROVE  closings'[i] = 0
    OBVIOUS
  <2>1. i \notin dispatched
    BY <1>1, <1>5
  <2>2. i \notin done /\ closings[i] = 0
    BY <1>1, <1>2, <1>7, <2>1 DEF Traced
  <2> QED
    BY <1>2, <2>2 DEF Closes
<1>9. EventsPaired'
  <2> SUFFICES ASSUME stop.clean, NEW i \in dispatched'
               PROVE  closings'[i] = IF i \in HeldRows' THEN 0 ELSE 1
    BY <1>2 DEF EventsPaired
  <2>1. closings' = [j \in Item |-> IF j \in done THEN closings[j] + 1 ELSE closings[j]]
    BY <1>2 DEF Closes
  <2>2. CASE i \in dispatched
    <3>1. closings[i] = IF i \in HeldRows THEN 0 ELSE 1
      BY <1>2, <2>2 DEF Traced, EventsPaired
    <3>2. i \in HeldRows' <=> i \in HeldRows /\ i \notin done
      <4> DEFINE U == UNION {HeldBy(v) : v \in Worker \ {w}}
      <4>1. U \cap HeldBy(w) = {}
        BY <1>7
      <4>2. HeldRows' = HeldOf(rec) \cup U /\ HeldRows = HeldBy(w) \cup U
        BY <1>4
      <4> HIDE DEF U
      <4>3. i \in HeldOf(rec) <=> i \in HeldBy(w) /\ i \notin done
        <5>1. CASE Rests(rec)
          BY <1>1, <5>1
        <5>2. CASE Takes(rec)
          <6>1. i # Head(inflight)
            BY <1>7, <2>2, <5>2
          <6>2. HeldOf(rec) = (HeldBy(w) \ done) \cup {Head(inflight)}
            BY <1>1, <5>2
          <6> QED
            BY <6>1, <6>2
        <5> QED
          BY <1>1, <5>1, <5>2
      <4> QED
        BY <1>1, <4>1, <4>2, <4>3
    <3>3. i \in done => i \in HeldRows
      BY <1>1, <1>4
    <3>4. closings'[i] = IF i \in done THEN closings[i] + 1 ELSE closings[i]
      BY <1>7, <2>1, <2>2
    <3> QED
      BY <3>1, <3>2, <3>3, <3>4
  <2>3. CASE i \notin dispatched
    <3>1. Takes(rec) /\ i = Head(inflight) /\ i \in Item
      BY <1>1, <1>3, <1>5, <2>3
    <3>2. closings[i] = 0 /\ i \notin done
      BY <1>1, <1>2, <1>7, <2>3, <3>1 DEF Traced
    <3>3. i \in HeldRows'
      BY <1>1, <1>4, <3>1
    <3> QED
      BY <2>1, <3>1, <3>2, <3>3
  <2> QED
    BY <2>2, <2>3
<1> QED
  BY <1>6, <1>8, <1>9 DEF Traced

\* A worker's step keeps the invariant.
LEMMA StepKeeps ==
    ASSUME SubInv, NEW w \in Worker, NEW rec, NEW b, NEW done, NEW n, Step(w, rec, b, done, n)
    PROVE  SubInv'
<1>1. TableSound'
  BY DEF Step, Aside
<1> QED
  BY <1>1, StepTyped, StepCounts, StepControl, StepPlaced, StepTraced DEF SubInv

-----------------------------------------------------------------------------
(* What each part of a worker's action settles and does next. *)

\* What is known of the record of a worker.
LEMMA Records ==
    ASSUME SubInv, NEW w \in Worker
    PROVE  /\ worker[w] \in WorkerType /\ Shaped(worker[w]) /\ worker[w].pc \in WorkerStates
           /\ worker[w].buffer \in Seq(Item) /\ Len(worker[w].buffer) \in Nat
           /\ Len(worker[w].buffer) <= FlushBatch /\ IsInjective(worker[w].buffer)
           /\ worker[w].gen \in 0..MaxFaults /\ worker[w].kind \in {"none", "retry", "delete"}
           /\ HeldBy(w) = HeldOf(worker[w])
           /\ worker[w].pc \notin InHandPCs => worker[w].item \notin Item
           /\ worker[w].pc \in InHandPCs =>
                /\ worker[w].item \in Item /\ Len(worker[w].buffer) < FlushBatch
                /\ worker[w].item \notin ToSet(worker[w].buffer)
                /\ worker[w].item.claim <= claims[worker[w].item.row]
           /\ worker[w].pc \in {"done", "open", "get"} => worker[w].buffer = <<>>
<1>1. Typed /\ Placed /\ Traced
  BY DEF SubInv
<1>2. worker[w] \in WorkerType /\ Shaped(worker[w])
  BY <1>1 DEF Typed
<1>3. worker[w].pc \in InHandPCs =>
        worker[w].item \notin ToSet(worker[w].buffer) /\ worker[w].item \in dispatched
  BY <1>1 DEF Placed, HeldBy, Buffered, InHand, InHandPCs
<1>4. worker[w].pc \in InHandPCs => worker[w].item.claim <= claims[worker[w].item.row]
  BY <1>1, <1>3 DEF Traced
<1>5. IsInjective(worker[w].buffer)
  BY <1>1 DEF Placed
<1>6. HeldBy(w) = HeldOf(worker[w])
  BY DEF HeldBy, HeldOf, Buffered, InHand, InHandPCs
<1>7. /\ worker[w].pc \in WorkerStates /\ worker[w].buffer \in Seq(Item)
      /\ worker[w].gen \in 0..MaxFaults /\ worker[w].kind \in {"none", "retry", "delete"}
  BY <1>2 DEF WorkerType
<1>8. Len(worker[w].buffer) \in Nat
  BY <1>7, LenProperties
<1> QED
  BY <1>2, <1>3, <1>4, <1>5, <1>6, <1>7, <1>8 DEF Shaped

\* A worker without a row in hand keeps its buffer.
LEMMA SettlesNothing ==
    ASSUME SubInv, NEW w \in Worker, worker[w].pc \notin InHandPCs
    PROVE  Settles(w, worker[w].buffer, {}, 0)
<1>1. /\ worker[w].buffer \in Seq(Item) /\ Len(worker[w].buffer) \in Nat
      /\ IsInjective(worker[w].buffer) /\ HeldBy(w) = HeldOf(worker[w])
  BY Records
<1>2. HeldBy(w) = ToSet(worker[w].buffer) /\ Weight(worker[w]) = 0 + Len(worker[w].buffer)
  BY <1>1 DEF HeldOf, Weight
<1> QED
  BY <1>1, <1>2 DEF Settles

\* The row in hand joins the buffer.
LEMMA SettlesLater ==
    ASSUME SubInv, NEW w \in Worker, worker[w].pc \in InHandPCs
    PROVE  /\ Settles(w, Append(worker[w].buffer, worker[w].item), {}, 0)
           /\ Append(worker[w].buffer, worker[w].item) \in Seq(Item)
           /\ Len(Append(worker[w].buffer, worker[w].item)) <= FlushBatch
<1> DEFINE q == worker[w].buffer
           x == worker[w].item
<1>1. /\ q \in Seq(Item) /\ Len(q) \in Nat /\ IsInjective(q) /\ HeldBy(w) = HeldOf(worker[w])
      /\ x \in Item /\ x \notin ToSet(q) /\ Len(q) < FlushBatch
  BY Records
<1>2. HeldBy(w) = ToSet(q) \cup {x} /\ Weight(worker[w]) = 1 + Len(q)
  BY <1>1 DEF HeldOf, Weight
<1> HIDE DEF q, x
<1>3. /\ Append(q, x) \in Seq(Item) /\ Len(Append(q, x)) = Len(q) + 1
      /\ ToSet(Append(q, x)) = ToSet(q) \cup {x} /\ IsInjective(Append(q, x))
  BY <1>1, AppendOne
<1>4. Len(Append(q, x)) <= FlushBatch
  BY <1>1, <1>3, SubscriberAssumption
<1>5. Settles(w, Append(q, x), {}, 0)
  BY <1>1, <1>2, <1>3 DEF Settles
<1> QED
  BY <1>3, <1>4, <1>5 DEF q, x

\* The row in hand is written, or given up.
LEMMA SettlesItem ==
    ASSUME SubInv, NEW w \in Worker, worker[w].pc \in InHandPCs
    PROVE  Settles(w, worker[w].buffer, {worker[w].item}, 1)
<1> DEFINE q == worker[w].buffer
           x == worker[w].item
<1>1. /\ q \in Seq(Item) /\ Len(q) \in Nat /\ IsInjective(q) /\ HeldBy(w) = HeldOf(worker[w])
      /\ x \notin ToSet(q)
  BY Records
<1>2. HeldBy(w) = ToSet(q) \cup {x} /\ Weight(worker[w]) = 1 + Len(q)
  BY <1>1 DEF HeldOf, Weight
<1> HIDE DEF q, x
<1> QED
  BY <1>1, <1>2 DEF Settles, q, x

\* The buffer is flushed.
LEMMA SettlesBuffer ==
    ASSUME SubInv, NEW w \in Worker, worker[w].pc \notin InHandPCs
    PROVE  Settles(w, <<>>, ToSet(worker[w].buffer), Len(worker[w].buffer))
<1> DEFINE q == worker[w].buffer
<1>1. Len(q) \in Nat /\ HeldBy(w) = HeldOf(worker[w])
  BY Records
<1>2. HeldBy(w) = ToSet(q) /\ Weight(worker[w]) = 0 + Len(q)
  BY <1>1 DEF HeldOf, Weight
<1> HIDE DEF q
<1>3. Len(<<>>) = Weight(worker[w]) - Len(q)
  BY <1>1, <1>2, EmptyHolds
<1> QED
  BY <1>1, <1>2, <1>3, EmptyHolds DEF Settles, q

\* A record without a row in hand.
LEMMA IdleShaped ==
    ASSUME NEW p \in WorkerStates \ InHandPCs, NEW buf \in Seq(Item), NEW g \in 0..MaxFaults,
           Len(buf) <= FlushBatch, p \in {"done", "open", "get"} => buf = <<>>
    PROVE  Shaped([pc |-> p, item |-> NoItem, kind |-> "none", buffer |-> buf, gen |-> g])
<1>1. NoItem \notin Item
  BY SubscriberAssumption DEF NoItem, Item
<1> HIDE DEF NoItem
<1> QED
  BY <1>1 DEF Shaped, WorkerType

\* The records as the actions write them.
LEMMA IdleRecords ==
    /\ \A p : IdleWorker(p) = [pc |-> p, item |-> NoItem, kind |-> "none", buffer |-> <<>>,
                               gen |-> 0]
    /\ \A p, g : [IdleWorker(p) EXCEPT !.gen = g] =
          [pc |-> p, item |-> NoItem, kind |-> "none", buffer |-> <<>>, gen |-> g]
<1>1. ASSUME NEW p, NEW x, NEW g
      PROVE  [[pc |-> p, item |-> x, kind |-> "none", buffer |-> <<>>, gen |-> 0]
                EXCEPT !.gen = g] =
             [pc |-> p, item |-> x, kind |-> "none", buffer |-> <<>>, gen |-> g]
  OBVIOUS
<1>2. \A p : IdleWorker(p) = [pc |-> p, item |-> NoItem, kind |-> "none", buffer |-> <<>>,
                             gen |-> 0]
  BY DEF IdleWorker
<1> HIDE DEF NoItem
<1> QED
  BY <1>1, <1>2

\* The record of a worker that keeps its buffer, as the actions write it.
LEMMA BufferedRecord ==
    \A p, buf, g : [IdleWorker(p) EXCEPT !.buffer = buf, !.gen = g] =
        [pc |-> p, item |-> NoItem, kind |-> "none", buffer |-> buf, gen |-> g]
<1> SUFFICES ASSUME NEW p, NEW buf, NEW g
             PROVE  [IdleWorker(p) EXCEPT !.buffer = buf, !.gen = g] =
                    [pc |-> p, item |-> NoItem, kind |-> "none", buffer |-> buf, gen |-> g]
  OBVIOUS
<1>1. ASSUME NEW x
      PROVE  [[pc |-> p, item |-> x, kind |-> "none", buffer |-> buf, gen |-> 0]
                EXCEPT !.gen = g] =
             [pc |-> p, item |-> x, kind |-> "none", buffer |-> buf, gen |-> g]
  OBVIOUS
<1>2. ASSUME NEW x
      PROVE  [[pc |-> p, item |-> x, kind |-> "none", buffer |-> <<>>, gen |-> 0]
                EXCEPT !.buffer = buf] =
             [pc |-> p, item |-> x, kind |-> "none", buffer |-> buf, gen |-> 0]
  OBVIOUS
<1>3. ASSUME NEW r
      PROVE  [r EXCEPT !.buffer = buf, !.gen = g] = [[r EXCEPT !.buffer = buf] EXCEPT !.gen = g]
  OBVIOUS
<1>4. IdleWorker(p) = [pc |-> p, item |-> NoItem, kind |-> "none", buffer |-> <<>>, gen |-> 0]
  BY DEF IdleWorker
<1> HIDE DEF NoItem
<1>5. [IdleWorker(p) EXCEPT !.buffer = buf] =
        [pc |-> p, item |-> NoItem, kind |-> "none", buffer |-> buf, gen |-> 0]
  BY <1>2, <1>4
<1> QED
  BY <1>1, <1>3, <1>5

\* A worker that goes to wait, to flush or to reconnect.
LEMMA IdleMoves ==
    ASSUME NEW w \in Worker, NEW p \in WorkerStates \ InHandPCs, NEW buf \in Seq(Item),
           NEW g \in 0..MaxFaults, Len(buf) <= FlushBatch,
           p \in {"done", "open", "get"} => buf = <<>>,
           worker' = [worker EXCEPT ![w] =
                        [pc |-> p, item |-> NoItem, kind |-> "none", buffer |-> buf, gen |-> g]],
           UNCHANGED <<notify, dispatched>>,
           \/ inflight' = inflight
           \/ inflight # <<>> /\ inflight' = Append(Tail(inflight), Head(inflight))
    PROVE  Moves(w, buf)
<1> DEFINE rec == [pc |-> p, item |-> NoItem, kind |-> "none", buffer |-> buf, gen |-> g]
<1>1. Shaped(rec)
  BY IdleShaped
<1>2. rec.buffer = buf /\ rec.pc \notin InHandPCs
  OBVIOUS
<1>3. worker' = [worker EXCEPT ![w] = rec]
  OBVIOUS
<1> HIDE DEF rec
<1>4. Rests(rec)
  BY <1>2 DEF Rests
<1> QED
  BY <1>1, <1>2, <1>3, <1>4 DEF Moves

\* A worker that meets a row: it takes it, or puts it back when its connection
\* is stale.
LEMMA TakeRowMoves ==
    ASSUME SubInv, NEW w \in Worker, NEW buf \in Seq(Item), NEW g \in 0..MaxFaults,
           Len(buf) < FlushBatch, inflight # <<>>, TakeRow(w, buf, g)
    PROVE  Moves(w, buf)
<1>1. inflight \in Seq(Item)
  BY DEF SubInv, Typed
<1>2. Head(inflight) \in Item
  BY <1>1, TailOfQueue
<1>3. Len(buf) <= FlushBatch /\ FlushBatch \in Nat /\ MaxFaults \in Nat /\ Len(buf) \in Nat
  BY SubscriberAssumption, LenProperties
<1>4. CASE g # generation /\ buf = <<>>
  <2>1. /\ inflight' = Append(Tail(inflight), Head(inflight)) /\ UNCHANGED <<notify, dispatched>>
        /\ worker' = [worker EXCEPT ![w] = IdleWorker("open")]
    BY <1>4 DEF TakeRow
  <2>2. worker' = [worker EXCEPT ![w] = [pc |-> "open", item |-> NoItem, kind |-> "none",
                                         buffer |-> <<>>, gen |-> 0]]
    BY <2>1, IdleRecords
  <2>3. "open" \in WorkerStates \ InHandPCs
    BY DEF WorkerStates, InHandPCs
  <2>4. 0 \in 0..MaxFaults
    BY <1>3
  <2> QED
    BY <1>3, <1>4, <2>1, <2>2, <2>3, <2>4, IdleMoves
<1>5. CASE g # generation /\ buf # <<>>
  <2>1. /\ inflight' = Append(Tail(inflight), Head(inflight)) /\ UNCHANGED <<notify, dispatched>>
        /\ worker' = [worker EXCEPT ![w] =
                        [IdleWorker("staleFlush") EXCEPT !.buffer = buf, !.gen = g]]
    BY <1>5 DEF TakeRow
  <2>2. worker' = [worker EXCEPT ![w] = [pc |-> "staleFlush", item |-> NoItem, kind |-> "none",
                                         buffer |-> buf, gen |-> g]]
    <3>1. [IdleWorker("staleFlush") EXCEPT !.buffer = buf, !.gen = g] =
            [pc |-> "staleFlush", item |-> NoItem, kind |-> "none", buffer |-> buf, gen |-> g]
      BY BufferedRecord
    <3> QED
      BY <2>1, <3>1
  <2>3. "staleFlush" \in WorkerStates \ InHandPCs
    BY DEF WorkerStates, InHandPCs, FlushPCs
  <2> QED
    BY <1>3, <1>5, <2>1, <2>2, <2>3, IdleMoves
<1>6. CASE g = generation
  <2> DEFINE rec == [pc |-> "handler", item |-> Head(inflight), kind |-> "none",
                     buffer |-> buf, gen |-> g]
  <2>1. /\ inflight' = Tail(inflight) /\ notify' = (notify \/ Free(Tail(inflight)) >= RefillAt)
        /\ dispatched' = dispatched \cup {Head(inflight)}
        /\ worker' = [worker EXCEPT ![w] = rec]
    BY <1>6 DEF TakeRow
  <2>2. /\ rec.pc = "handler" /\ rec.item = Head(inflight) /\ rec.kind = "none"
        /\ rec.buffer = buf
    OBVIOUS
  <2>3. rec \in WorkerType
    BY <1>2 DEF WorkerType, WorkerStates
  <2> HIDE DEF rec
  <2>4. Shaped(rec)
    BY <1>2, <1>3, <2>2, <2>3 DEF Shaped, InHandPCs
  <2>5. Takes(rec)
    BY <2>1, <2>2 DEF Takes, InHandPCs
  <2> QED
    BY <2>1, <2>2, <2>4, <2>5 DEF Moves
<1> QED
  BY <1>4, <1>5, <1>6

\* The top of the loop: a worker takes a row, or waits, or flushes.
LEMMA WorkerTopMoves ==
    ASSUME SubInv, NEW w \in Worker, NEW buf \in Seq(Item), NEW g \in 0..MaxFaults,
           Len(buf) < FlushBatch, WorkerTop(w, buf, g)
    PROVE  Moves(w, buf)
<1>1. CASE inflight # <<>>
  BY <1>1, TakeRowMoves DEF WorkerTop
<1>2. CASE inflight = <<>>
  <2> DEFINE p == IF buf = <<>> THEN "get" ELSE "idleFlush"
  <2>1. /\ worker' = [worker EXCEPT ![w] = [IdleWorker(p) EXCEPT !.buffer = buf, !.gen = g]]
        /\ UNCHANGED <<inflight, notify, dispatched>>
    BY <1>2 DEF WorkerTop
  <2>2. p \in WorkerStates \ InHandPCs /\ (p \in {"done", "open", "get"} => buf = <<>>)
    BY DEF WorkerStates, InHandPCs, FlushPCs
  <2>3. Len(buf) <= FlushBatch
    BY SubscriberAssumption, LenProperties
  <2> HIDE DEF p
  <2>4. worker' = [worker EXCEPT ![w] = [pc |-> p, item |-> NoItem, kind |-> "none",
                                         buffer |-> buf, gen |-> g]]
    <3>1. [IdleWorker(p) EXCEPT !.buffer = buf, !.gen = g] =
            [pc |-> p, item |-> NoItem, kind |-> "none", buffer |-> buf, gen |-> g]
      BY BufferedRecord
    <3> QED
      BY <2>1, <3>1
  <2> QED
    BY <2>1, <2>2, <2>3, <2>4, IdleMoves
<1> QED
  BY <1>1, <1>2

\* After a row the worker flushes its buffer or goes back to the top.
LEMMA AfterDispatchMoves ==
    ASSUME SubInv, NEW w \in Worker, NEW buf \in Seq(Item), Len(buf) <= FlushBatch,
           AfterDispatch(w, buf)
    PROVE  Moves(w, buf)
<1>1. worker[w].gen \in 0..MaxFaults
  BY Records
<1>2. CASE Len(buf) < FlushBatch /\ WorkerTop(w, buf, worker[w].gen)
  BY <1>1, <1>2, WorkerTopMoves
<1>3. CASE buf # <<>> /\ worker' = [worker EXCEPT ![w] =
              [IdleWorker("flush") EXCEPT !.buffer = buf, !.gen = worker[w].gen]]
           /\ UNCHANGED <<inflight, notify, dispatched>>
  <2>1. worker' = [worker EXCEPT ![w] = [pc |-> "flush", item |-> NoItem, kind |-> "none",
                                         buffer |-> buf, gen |-> worker[w].gen]]
    <3>1. [IdleWorker("flush") EXCEPT !.buffer = buf, !.gen = worker[w].gen] =
            [pc |-> "flush", item |-> NoItem, kind |-> "none", buffer |-> buf, gen |-> worker[w].gen]
      BY BufferedRecord
    <3> QED
      BY <1>3, <3>1
  <2>2. "flush" \in WorkerStates \ InHandPCs
    BY DEF WorkerStates, InHandPCs, FlushPCs
  <2> QED
    BY <1>1, <1>3, <2>1, <2>2, IdleMoves
<1> QED
  BY <1>2, <1>3 DEF AfterDispatch

\* A worker that leaves _worker_inner keeps its buffer for a last flush.
LEMMA LeaveMoves ==
    ASSUME SubInv, NEW w \in Worker, NEW p \in FlushPCs, NEW d \in {"open", "done"},
           Leave(w, p, d), UNCHANGED <<notify, inflight, dispatched>>
    PROVE  Moves(w, worker[w].buffer)
<1>1. /\ worker[w].buffer \in Seq(Item) /\ Len(worker[w].buffer) <= FlushBatch
      /\ worker[w].gen \in 0..MaxFaults
  BY Records
<1>2. CASE worker[w].buffer = <<>>
  <2>1. worker' = [worker EXCEPT ![w] = IdleWorker(d)]
    BY <1>2 DEF Leave
  <2>2. worker' = [worker EXCEPT ![w] = [pc |-> d, item |-> NoItem, kind |-> "none",
                                         buffer |-> <<>>, gen |-> 0]]
    BY <2>1, IdleRecords
  <2>3. d \in WorkerStates \ InHandPCs /\ 0 \in 0..MaxFaults
    BY SubscriberAssumption DEF WorkerStates, InHandPCs
  <2>4. Moves(w, <<>>)
    BY <1>1, <1>2, <2>2, <2>3, IdleMoves
  <2> QED
    BY <1>2, <2>4
<1>3. CASE worker[w].buffer # <<>>
  <2>1. worker' = [worker EXCEPT ![w] = [IdleWorker(p) EXCEPT !.buffer = worker[w].buffer,
                                                              !.gen = worker[w].gen]]
    BY <1>3 DEF Leave
  <2>2. worker' = [worker EXCEPT ![w] = [pc |-> p, item |-> NoItem, kind |-> "none",
                                         buffer |-> worker[w].buffer, gen |-> worker[w].gen]]
    <3>1. [IdleWorker(p) EXCEPT !.buffer = worker[w].buffer, !.gen = worker[w].gen] =
            [pc |-> p, item |-> NoItem, kind |-> "none", buffer |-> worker[w].buffer, gen |-> worker[w].gen]
      BY BufferedRecord
    <3> QED
      BY <2>1, <3>1
  <2>3. p \in WorkerStates \ InHandPCs /\ p \notin {"done", "open", "get"}
    BY DEF WorkerStates, InHandPCs, FlushPCs
  <2> QED
    BY <1>1, <2>2, <2>3, IdleMoves
<1> QED
  BY <1>2, <1>3

\* A worker that waits or reconnects with an empty buffer.
LEMMA EmptyMoves ==
    ASSUME NEW w \in Worker, NEW p \in {"get", "open", "done"}, NEW g \in 0..MaxFaults,
           worker' = [worker EXCEPT ![w] = IdleWorker(p)]
           \/ worker' = [worker EXCEPT ![w] = [IdleWorker(p) EXCEPT !.gen = g]],
           UNCHANGED <<notify, inflight, dispatched>>
    PROVE  Moves(w, <<>>)
<1>1. \E h \in 0..MaxFaults :
        worker' = [worker EXCEPT ![w] = [pc |-> p, item |-> NoItem, kind |-> "none",
                                         buffer |-> <<>>, gen |-> h]]
  <2>1. 0 \in 0..MaxFaults
    BY SubscriberAssumption
  <2> QED
    BY <2>1, IdleRecords
<1>2. p \in WorkerStates \ InHandPCs
  BY DEF WorkerStates, InHandPCs
<1>3. <<>> \in Seq(Item) /\ Len(<<>>) <= FlushBatch
  BY SubscriberAssumption, EmptyHolds
<1> QED
  BY <1>1, <1>2, <1>3, IdleMoves

-----------------------------------------------------------------------------
(* The table. *)

\* A delete takes rows away and changes nothing of the others.
LEMMA DeleteSound ==
    ASSUME TableSound, NEW items, DeleteRows(items)
    PROVE  TableSound' /\ claims' = claims
<1>1. claims' = claims /\ lease' = lease /\ expired' = expired
  BY DEF DeleteRows
<1>2. place' \in [Row -> {"unborn", "stored", "gone"}]
  BY DEF DeleteRows, TableSound
<1> QED
  BY <1>1, <1>2 DEF TableSound

\* A release takes the lease of a row that can be claimed again.
LEMMA ReleaseSound ==
    ASSUME TableSound, NEW i \in Item, i.claim < MaxClaims, ReleaseRow(i)
    PROVE  TableSound' /\ claims' = claims
<1>1. CASE HoldsLease(i)
  <2>1. /\ lease' = [lease EXCEPT ![i.row] = 0] /\ expired' = expired \ {i.row}
        /\ place' = place /\ claims' = claims
    BY <1>1 DEF ReleaseRow
  <2>2. i.row \in Row /\ i.claim \in 1..MaxClaims /\ MaxClaims \in Nat \ {0}
    BY SubscriberAssumption DEF Item
  <2>3. claims[i.row] = i.claim
    BY <1>1, <2>2 DEF HoldsLease, TableSound
  <2>4. lease' \in [Row -> 0..MaxClaims]
    BY <2>1, <2>2 DEF TableSound
  <2>5. \A r \in Row : lease'[r] \in {0, claims'[r]}
    BY <2>1 DEF TableSound
  <2>6. \A r \in Row : lease'[r] = 0 \/ r \in expired' => claims'[r] < MaxClaims
    BY <2>1, <2>3 DEF TableSound
  <2> QED
    BY <2>1, <2>4, <2>5, <2>6 DEF TableSound
<1>2. CASE ~HoldsLease(i)
  BY <1>2 DEF ReleaseRow, TableSound
<1> QED
  BY <1>1, <1>2

\* The write of a row in hand.
LEMMA WriteSound ==
    ASSUME SubInv, NEW w \in Worker, worker[w].pc \in InHandPCs,
           WriteEffect(w) \/ UNCHANGED table
    PROVE  TableSound' /\ claims' = claims
<1>1. TableSound /\ Shaped(worker[w]) /\ worker[w].item \in Item
  BY Records DEF SubInv
<1>2. CASE UNCHANGED table
  BY <1>1, <1>2 DEF table, TableSound
<1>3. CASE WriteEffect(w) /\ worker[w].kind = "retry"
  BY <1>1, <1>3, ReleaseSound DEF WriteEffect, Shaped
<1>4. CASE WriteEffect(w) /\ worker[w].kind # "retry"
  BY <1>1, <1>4, DeleteSound DEF WriteEffect
<1> QED
  BY <1>2, <1>3, <1>4

\* Claims are of claimable rows, and each gets the next number.
LEMMA ClaimSound ==
    ASSUME TableSound, NEW n, NEW S \in SUBSET Row, ClaimUpTo(n, S)
    PROVE  /\ TableSound'
           /\ \A r \in Row : claims[r] \in Nat /\ claims'[r] \in Nat /\ claims'[r] >= claims[r]
           /\ \A r \in S : claims'[r] = claims[r] + 1 /\ claims[r] + 1 \in 1..MaxClaims
<1>1. /\ claims' = [r \in Row |-> IF r \in S THEN claims[r] + 1 ELSE claims[r]]
      /\ lease' = [r \in Row |-> IF r \in S THEN claims[r] + 1 ELSE lease[r]]
      /\ expired' = expired \ S /\ place' = place
  BY DEF ClaimUpTo
<1>2. \A r \in Row : claims[r] \in 0..MaxClaims /\ lease[r] \in 0..MaxClaims
                     /\ lease[r] \in {0, claims[r]}
  BY DEF TableSound
<1>3. MaxClaims \in Nat \ {0}
  BY SubscriberAssumption
<1>4. \A r \in S : claims[r] < MaxClaims
  BY DEF ClaimUpTo, Claimable, TableSound
<1>5. \A r \in S : claims[r] + 1 \in 1..MaxClaims
  BY <1>2, <1>3, <1>4
<1>6. claims' \in [Row -> 0..MaxClaims] /\ lease' \in [Row -> 0..MaxClaims]
  BY <1>1, <1>2, <1>3, <1>5
<1>7. \A r \in Row : lease'[r] \in {0, claims'[r]}
  BY <1>1, <1>2
<1>8. \A r \in Row : lease'[r] = 0 \/ r \in expired' => claims'[r] < MaxClaims
  <2> SUFFICES ASSUME NEW r \in Row, lease'[r] = 0 \/ r \in expired'
               PROVE  claims'[r] < MaxClaims
    OBVIOUS
  <2>1. r \notin S
    BY <1>1, <1>2, <1>3, <1>5
  <2>2. lease[r] = 0 \/ r \in expired
    BY <1>1, <2>1
  <2> QED
    BY <1>1, <2>1, <2>2 DEF TableSound
<1>9. TableSound'
  BY <1>1, <1>6, <1>7, <1>8 DEF TableSound
<1>10. \A r \in Row : claims[r] \in Nat /\ claims'[r] \in Nat /\ claims'[r] >= claims[r]
  BY <1>1, <1>2, <1>3
<1>11. \A r \in S : claims'[r] = claims[r] + 1
  BY <1>1
<1> QED
  BY <1>5, <1>9, <1>10, <1>11

-----------------------------------------------------------------------------
(* The actions of a worker. *)

\* Table and faults as an action leaves them.
LEMMA AsideNow ==
    ASSUME SubInv, TableSound', claims' = claims, faults' = faults \/ Fault, WorkerUnchanged
    PROVE  Aside
<1>1. faults \in 0..MaxFaults /\ MaxFaults \in Nat
  BY SubscriberAssumption DEF SubInv, Typed
<1>2. faults' \in 0..MaxFaults /\ faults' >= faults
  BY <1>1 DEF Fault
<1> QED
  BY <1>2 DEF Aside, WorkerUnchanged

\* A table nobody touches stays sound.
LEMMA SameTable ==
    ASSUME SubInv, UNCHANGED table
    PROVE  TableSound' /\ claims' = claims
BY DEF SubInv, table, TableSound

\* The parts of a step put together.
LEMMA Together ==
    ASSUME SubInv, NEW w \in Worker, NEW b, NEW done, NEW n, worker[w].pc # "done",
           Settles(w, b, done, n), Moves(w, b), unfinished' = unfinished - n,
           Closes(done) \/ (done = {} /\ closings' = closings), Aside
    PROVE  SubInv'
<1>1. PICK rec : /\ Shaped(rec) /\ rec.buffer = b
                 /\ worker' = [worker EXCEPT ![w] = rec]
                 /\ Rests(rec) \/ Takes(rec)
  BY DEF Moves
<1>2. Closes(done)
  <2> SUFFICES ASSUME done = {}, closings' = closings
               PROVE  Closes(done)
    OBVIOUS
  <2>1. closings \in [Item -> Nat]
    BY DEF SubInv, Typed
  <2>2. closings' = [i \in Item |-> IF i \in done THEN closings[i] + 1 ELSE closings[i]]
    BY <2>1
  <2> QED
    BY <2>2 DEF Closes
<1>3. Step(w, rec, b, done, n)
  BY <1>1, <1>2 DEF Step
<1> QED
  BY <1>3, StepKeeps

\* A worker without a row in hand moves on with its buffer.
LEMMA MovesOn ==
    ASSUME SubInv, NEW w \in Worker, worker[w].pc \notin InHandPCs, worker[w].pc # "done",
           Moves(w, worker[w].buffer), UNCHANGED <<table, unfinished, closings, faults>>,
           WorkerUnchanged
    PROVE  SubInv'
<1>1. Settles(w, worker[w].buffer, {}, 0)
  BY SettlesNothing
<1>2. unfinished' = unfinished - 0
  BY DEF SubInv, Typed
<1>3. Aside
  BY SameTable, AsideNow
<1> QED
  BY <1>1, <1>2, <1>3, Together

\* The writer connection opens.
LEMMA OpenKeeps ==
    ASSUME SubInv, NEW w \in Worker, WorkerOpen(w)
    PROVE  SubInv'
<1>1. worker[w].pc = "open" /\ WorkerTop(w, <<>>, generation)
      /\ UNCHANGED <<table, unfinished, closings, faults>> /\ WorkerUnchanged
  BY DEF WorkerOpen
<1>2. worker[w].buffer = <<>> /\ worker[w].pc \notin InHandPCs
  BY <1>1, Records DEF InHandPCs
<1>3. generation \in 0..MaxFaults
  BY SubscriberAssumption DEF SubInv, Typed
<1>4. <<>> \in Seq(Item) /\ Len(<<>>) < FlushBatch
  BY SubscriberAssumption, EmptyHolds
<1>5. Moves(w, <<>>)
  BY <1>1, <1>3, <1>4, WorkerTopMoves
<1> QED
  BY <1>1, <1>2, <1>5, MovesOn

\* get() returns a row to a worker that had none buffered.
LEMMA GetKeeps ==
    ASSUME SubInv, NEW w \in Worker, WorkerGet(w)
    PROVE  SubInv'
<1>1. /\ worker[w].pc = "get" /\ inflight # <<>> /\ TakeRow(w, <<>>, worker[w].gen)
      /\ UNCHANGED <<table, unfinished, closings, faults>> /\ WorkerUnchanged
  BY DEF WorkerGet
<1>2. worker[w].buffer = <<>> /\ worker[w].pc \notin InHandPCs /\ worker[w].gen \in 0..MaxFaults
  BY <1>1, Records DEF InHandPCs
<1>3. <<>> \in Seq(Item) /\ Len(<<>>) < FlushBatch
  BY SubscriberAssumption, EmptyHolds
<1>4. Moves(w, <<>>)
  BY <1>1, <1>2, <1>3, TakeRowMoves
<1> QED
  BY <1>1, <1>2, <1>4, MovesOn

\* A row whose outcome is a plain delete joins the buffer.
LEMMA BuffersKeeps ==
    ASSUME SubInv, NEW w \in Worker, HandlerBuffers(w)
    PROVE  SubInv'
<1> DEFINE b == Append(worker[w].buffer, worker[w].item)
<1>1. /\ worker[w].pc = "handler" /\ AfterDispatch(w, b)
      /\ UNCHANGED <<table, unfinished, closings, faults>> /\ WorkerUnchanged
  BY DEF HandlerBuffers
<1>2. worker[w].pc \in InHandPCs
  BY <1>1 DEF InHandPCs
<1>3. Settles(w, b, {}, 0) /\ b \in Seq(Item) /\ Len(b) <= FlushBatch
  BY <1>2, SettlesLater
<1> HIDE DEF b
<1>4. Moves(w, b)
  BY <1>1, <1>3, AfterDispatchMoves
<1>5. unfinished' = unfinished - 0
  BY <1>1 DEF SubInv, Typed
<1>6. Aside
  BY <1>1, SameTable, AsideNow
<1> QED
  BY <1>1, <1>3, <1>4, <1>5, <1>6, Together

\* A closing event for one row.
LEMMA ClosesOne ==
    ASSUME SubInv, NEW i \in Item, closings' = [closings EXCEPT ![i] = @ + 1]
    PROVE  Closes({i})
<1>1. closings \in [Item -> Nat]
  BY DEF SubInv, Typed
<1>2. closings' = [j \in Item |-> IF j \in {i} THEN closings[j] + 1 ELSE closings[j]]
  BY <1>1
<1> QED
  BY <1>2 DEF Closes

\* The row in hand ends, written or not, and the worker goes on.
LEMMA EndsKeeps ==
    ASSUME SubInv, NEW w \in Worker, HandlerEscapes(w) \/ WriteOk(w)
    PROVE  SubInv'
<1>1. /\ worker[w].pc \in InHandPCs /\ worker[w].pc # "done"
      /\ unfinished' = unfinished - 1
      /\ closings' = [closings EXCEPT ![worker[w].item] = @ + 1]
      /\ AfterDispatch(w, worker[w].buffer)
      /\ faults' = faults /\ WorkerUnchanged
      /\ WriteEffect(w) \/ UNCHANGED table
  BY DEF HandlerEscapes, WriteOk, InHandPCs
<1>2. /\ worker[w].item \in Item /\ worker[w].buffer \in Seq(Item)
      /\ Len(worker[w].buffer) <= FlushBatch
  BY <1>1, Records
<1>3. Settles(w, worker[w].buffer, {worker[w].item}, 1)
  BY <1>1, SettlesItem
<1>4. Closes({worker[w].item})
  BY <1>1, <1>2, ClosesOne
<1>5. Moves(w, worker[w].buffer)
  BY <1>1, <1>2, AfterDispatchMoves
<1>6. TableSound' /\ claims' = claims
  BY <1>1, WriteSound
<1>7. Aside
  BY <1>1, <1>6, AsideNow
<1> QED
  BY <1>1, <1>3, <1>4, <1>5, <1>7, Together

\* A write that raises ends its row, and the worker leaves.
LEMMA WriteFailsKeeps ==
    ASSUME SubInv, NEW w \in Worker, WriteFails(w)
    PROVE  SubInv'
<1>1. /\ Fault /\ worker[w].pc \in InHandPCs /\ worker[w].pc # "done"
      /\ WriteEffect(w) \/ UNCHANGED table
      /\ unfinished' = unfinished - 1
      /\ Close({worker[w].item}) /\ Leave(w, "exitFlush", "open")
      /\ UNCHANGED <<notify, inflight>> /\ WorkerUnchanged
  BY DEF WriteFails, InHandPCs
<1>2. Closes({worker[w].item}) /\ dispatched' = dispatched
  BY <1>1 DEF Close, Closes
<1>3. Settles(w, worker[w].buffer, {worker[w].item}, 1)
  BY <1>1, SettlesItem
<1>4. "exitFlush" \in FlushPCs
  BY DEF FlushPCs
<1>5. Moves(w, worker[w].buffer)
  BY <1>1, <1>2, <1>4, LeaveMoves
<1>6. TableSound' /\ claims' = claims
  BY <1>1, WriteSound
<1>7. Aside
  BY <1>1, <1>6, AsideNow
<1> QED
  BY <1>1, <1>2, <1>3, <1>5, <1>7, Together

\* A flush returned, or raised, or was cancelled.
LEMMA FlushKeeps ==
    ASSUME SubInv, NEW w \in Worker, worker[w].pc \in FlushPCs, Flushed(w),
           DeleteRows(ToSet(worker[w].buffer)) \/ UNCHANGED table,
           Moves(w, <<>>), faults' = faults \/ Fault, WorkerUnchanged
    PROVE  SubInv'
<1>1. worker[w].pc \notin InHandPCs /\ worker[w].pc # "done"
  BY DEF FlushPCs, InHandPCs
<1>2. Settles(w, <<>>, ToSet(worker[w].buffer), Len(worker[w].buffer))
  BY <1>1, SettlesBuffer
<1>3. /\ Closes(ToSet(worker[w].buffer)) /\ unfinished' = unfinished - Len(worker[w].buffer)
  BY DEF Flushed, Close, Closes
<1>4. TableSound' /\ claims' = claims
  BY SameTable, DeleteSound DEF SubInv
<1>5. Aside
  BY <1>4, AsideNow
<1> QED
  BY <1>1, <1>2, <1>3, <1>5, Together

\* The flush statement returned.
LEMMA FlushOkKeeps ==
    ASSUME SubInv, NEW w \in Worker, FlushOk(w)
    PROVE  SubInv'
<1>1. /\ worker[w].pc \in FlushPCs /\ Flushed(w) /\ DeleteRows(ToSet(worker[w].buffer))
      /\ worker' = [worker EXCEPT ![w] = AfterFlush(w)]
      /\ UNCHANGED <<notify, inflight>> /\ faults' = faults /\ WorkerUnchanged
  BY DEF FlushOk
<1>2. dispatched' = dispatched
  BY <1>1 DEF Flushed, Close
<1>3. worker[w].gen \in 0..MaxFaults
  BY Records
<1>4. Moves(w, <<>>)
  <2>1. CASE worker[w].pc \in {"idleFlush", "flush"}
    <3>1. worker' = [worker EXCEPT ![w] = [IdleWorker("get") EXCEPT !.gen = worker[w].gen]]
      BY <1>1, <2>1 DEF AfterFlush
    <3> QED
      BY <1>1, <1>2, <1>3, <3>1, EmptyMoves
  <2>2. CASE worker[w].pc \notin {"idleFlush", "flush"}
    <3>1. \E p \in {"get", "open", "done"} : worker' = [worker EXCEPT ![w] = IdleWorker(p)]
      BY <1>1, <2>2 DEF AfterFlush
    <3> QED
      BY <1>1, <1>2, <1>3, <3>1, EmptyMoves
  <2> QED
    BY <2>1, <2>2
<1> QED
  BY <1>1, <1>4, FlushKeeps

\* The flush statement raised.
LEMMA FlushFailsKeeps ==
    ASSUME SubInv, NEW w \in Worker, FlushFails(w)
    PROVE  SubInv'
<1>1. /\ worker[w].pc \in FlushPCs /\ Flushed(w) /\ Fault
      /\ DeleteRows(ToSet(worker[w].buffer)) \/ UNCHANGED table
      /\ worker' = [worker EXCEPT ![w] = IdleWorker(IF Cancelled THEN "done" ELSE "open")]
      /\ UNCHANGED <<notify, inflight>> /\ WorkerUnchanged
  BY DEF FlushFails
<1>2. dispatched' = dispatched
  BY <1>1 DEF Flushed, Close
<1>3. worker[w].gen \in 0..MaxFaults
  BY Records
<1>4. \E p \in {"get", "open", "done"} : worker' = [worker EXCEPT ![w] = IdleWorker(p)]
  BY <1>1
<1>5. Moves(w, <<>>)
  BY <1>1, <1>2, <1>3, <1>4, EmptyMoves
<1> QED
  BY <1>1, <1>5, FlushKeeps

\* A row in hand stays in hand while it is written.
LEMMA WritesKeeps ==
    ASSUME SubInv, NEW w \in Worker, NEW kind \in {"retry", "delete"}, HandlerWrites(w, kind)
    PROVE  SubInv'
<1> DEFINE rec == [worker[w] EXCEPT !.pc = "write", !.kind = kind]
<1>1. /\ worker[w].pc = "handler" /\ (kind = "retry" => claims[worker[w].item.row] < MaxClaims)
      /\ worker' = [worker EXCEPT ![w].pc = "write", ![w].kind = kind]
      /\ UNCHANGED <<table, notify, inflight, unfinished, events, faults>> /\ WorkerUnchanged
  BY DEF HandlerWrites
<1>2. UNCHANGED <<place, claims, lease, expired, notify, inflight, unfinished, dispatched,
                  closings, faults, notice, running, stopping, generation, fetch, stop,
                  unseen, starts>>
  BY <1>1 DEF table, events, WorkerUnchanged
<1>3. /\ worker[w] \in WorkerType /\ Shaped(worker[w]) /\ worker[w].pc \in InHandPCs
      /\ worker[w].item \in Item /\ worker[w].item.claim <= claims[worker[w].item.row]
      /\ HeldBy(w) = HeldOf(worker[w])
  BY <1>1, Records DEF InHandPCs
<1>4. /\ rec.pc = "write" /\ rec.kind = kind /\ rec.item = worker[w].item
      /\ rec.buffer = worker[w].buffer /\ rec.gen = worker[w].gen
      /\ rec \in WorkerType
  BY <1>3 DEF WorkerType, WorkerStates
<1>5. Typed /\ Control /\ Fits /\ DrainLeavesNothing /\ Woken /\ Placed /\ Traced
      /\ TableSound /\ TasksBalanced
  BY DEF SubInv
<1>6. worker' = [worker EXCEPT ![w] = rec]
  BY <1>1, <1>5 DEF Typed
<1> HIDE DEF rec
<1>7. Shaped(rec)
  <2>1. claims[worker[w].item.row] \in 0..MaxClaims /\ worker[w].item.claim \in 1..MaxClaims
    BY <1>3, <1>5 DEF TableSound, Item
  <2>2. kind = "retry" => worker[w].item.claim < MaxClaims
    BY <1>1, <1>3, <2>1, SubscriberAssumption
  <2> QED
    BY <1>3, <1>4, <2>2 DEF Shaped, InHandPCs
<1>8. HeldOf(rec) = HeldBy(w) /\ rec.pc \in InHandPCs
  BY <1>3, <1>4 DEF HeldOf, InHandPCs
<1>9. /\ worker' \in [Worker -> WorkerType] /\ worker'[w] = rec
      /\ \A v \in Worker \ {w} : worker'[v] = worker[v]
      /\ HeldBy(w)' = HeldOf(rec) /\ Buffered(w)' = ToSet(rec.buffer)
      /\ \A v \in Worker \ {w} : HeldBy(v)' = HeldBy(v)
      /\ \A v \in Worker \ {w} : Buffered(v)' = Buffered(v) /\ InHand(v)' = InHand(v)
      /\ HeldRows' = HeldOf(rec) \cup UNION {HeldBy(v) : v \in Worker \ {w}}
      /\ HeldRows = HeldBy(w) \cup UNION {HeldBy(v) : v \in Worker \ {w}}
  BY <1>5, <1>6, <1>7, HeldMoves
<1>10. \A v \in Worker : HeldBy(v)' = HeldBy(v) /\ Shaped(worker'[v])
  BY <1>5, <1>7, <1>8, <1>9 DEF Typed
<1>11. HeldRows' = HeldRows
  BY <1>8, <1>9
<1>12. Typed'
  <2>1. (\A v \in Worker : Shaped(worker[v]))'
    BY <1>10 DEF Shaped
  <2> QED
    BY <1>2, <1>5, <1>9, <2>1 DEF Typed
<1>13. TableSound'
  BY <1>2, <1>5 DEF TableSound
<1>14. Control' /\ Fits' /\ Woken'
  <2>1. ~(stop.pc = "idle" /\ ~running)
    BY <1>1, <1>5 DEF Control
  <2> QED
    BY <1>2, <1>5, <2>1 DEF Control, Fits, Woken, RoomWakesFetch, Free, ClaimLocked
<1>15. DrainLeavesNothing'
  BY <1>2, <1>5, <1>11 DEF DrainLeavesNothing, ClaimLocked
<1>16. TasksBalanced'
  <2>1. {v \in Worker : InHand(v)}' = {v \in Worker : InHand(v)}
    <3>1. InHand(w)' /\ InHand(w)
      BY <1>1, <1>4, <1>9 DEF InHand
    <3> QED
      BY <1>9, <3>1
  <2>2. \A v \in Worker : Len(worker'[v].buffer) = Len(worker[v].buffer)
    BY <1>4, <1>9
  <2>3. {s \in Worker \X (1..FlushBatch) : s[2] <= Len(worker'[s[1]].buffer)}
        = {s \in Worker \X (1..FlushBatch) : s[2] <= Len(worker[s[1]].buffer)}
    BY <2>2
  <2> QED
    BY <1>2, <1>5, <2>1, <2>3 DEF TasksBalanced
<1>17. Placed'
  <2>1. \A v \in Worker : IsInjective(worker'[v].buffer)
    BY <1>4, <1>5, <1>9 DEF Placed
  <2>2. \A v \in Worker : InHand(v)' => worker'[v].item \notin Buffered(v)'
    <3>1. worker[w].item \notin ToSet(worker[w].buffer)
      BY <1>3, Records
    <3> QED
      BY <1>4, <1>5, <1>9, <3>1 DEF Placed
  <2> QED
    BY <1>2, <1>5, <1>10, <2>1, <2>2 DEF Placed
<1>18. Traced'
  BY <1>2, <1>5, <1>11 DEF Traced, EventsPaired
<1> QED
  BY <1>12, <1>13, <1>14, <1>15, <1>16, <1>17, <1>18 DEF SubInv

\* A cancelled worker unwinds: after a clean drain it has nothing in hand.
LEMMA UnwindsKeeps ==
    ASSUME SubInv, NEW w \in Worker, WorkerUnwinds(w)
    PROVE  SubInv'
<1>1. /\ stop.pc = "gather" /\ UNCHANGED <<notify, inflight>> /\ faults' = faults
      /\ WorkerUnchanged
      /\ UnwindHandler(w) \/ UnwindWrite(w) \/ UnwindFlush(w) \/ UnwindIdle(w)
  BY DEF WorkerUnwinds, Cancelled
<1>2. "lastFlush" \in FlushPCs
  BY DEF FlushPCs
<1>3. worker[w].gen \in 0..MaxFaults
  BY Records
<1>4. CASE UnwindHandler(w)
  <2>1. /\ worker[w].pc \in InHandPCs /\ worker[w].pc # "done"
        /\ unfinished' = unfinished - 1 /\ Leave(w, "lastFlush", "done")
        /\ UNCHANGED table /\ closings' = closings /\ dispatched' = dispatched
    BY <1>4 DEF UnwindHandler, InHandPCs, events
  <2>2. ~stop.clean
    <3>1. worker[w].item \in HeldBy(w)
      BY <2>1, Records DEF HeldOf
    <3>2. HeldRows # {}
      BY <3>1 DEF HeldRows
    <3> QED
      BY <1>1, <3>2 DEF SubInv, DrainLeavesNothing
  <2>3. Closes({worker[w].item})
    BY <2>1, <2>2 DEF Closes
  <2>4. Settles(w, worker[w].buffer, {worker[w].item}, 1)
    BY <2>1, SettlesItem
  <2>5. Moves(w, worker[w].buffer)
    BY <1>1, <1>2, <2>1, LeaveMoves
  <2>6. Aside
    BY <1>1, <2>1, SameTable, AsideNow
  <2> QED
    BY <2>1, <2>3, <2>4, <2>5, <2>6, Together
<1>5. CASE UnwindWrite(w)
  <2>1. /\ worker[w].pc \in InHandPCs /\ worker[w].pc # "done"
        /\ WriteEffect(w) \/ UNCHANGED table
        /\ unfinished' = unfinished - 1 /\ Close({worker[w].item})
        /\ Leave(w, "lastFlush", "done")
    BY <1>5 DEF UnwindWrite, InHandPCs
  <2>2. Closes({worker[w].item}) /\ dispatched' = dispatched
    BY <2>1 DEF Close, Closes
  <2>3. Settles(w, worker[w].buffer, {worker[w].item}, 1)
    BY <2>1, SettlesItem
  <2>4. Moves(w, worker[w].buffer)
    BY <1>1, <1>2, <2>1, <2>2, LeaveMoves
  <2>5. TableSound' /\ claims' = claims
    BY <2>1, WriteSound
  <2>6. Aside
    BY <1>1, <2>5, AsideNow
  <2> QED
    BY <2>1, <2>2, <2>3, <2>4, <2>6, Together
<1>6. CASE UnwindFlush(w)
  <2>1. /\ worker[w].pc \in FlushPCs /\ Flushed(w)
        /\ DeleteRows(ToSet(worker[w].buffer)) \/ UNCHANGED table
        /\ worker' = [worker EXCEPT ![w] = IdleWorker("done")]
    BY <1>6 DEF UnwindFlush
  <2>2. dispatched' = dispatched
    BY <2>1 DEF Flushed, Close
  <2>3. Moves(w, <<>>)
    BY <1>1, <1>3, <2>1, <2>2, EmptyMoves
  <2> QED
    BY <1>1, <2>1, <2>3, FlushKeeps
<1>7. CASE UnwindIdle(w)
  <2>1. /\ worker[w].pc \in {"open", "get"}
        /\ worker' = [worker EXCEPT ![w] = IdleWorker("done")]
        /\ UNCHANGED <<table, unfinished>> /\ closings' = closings /\ dispatched' = dispatched
    BY <1>7 DEF UnwindIdle, events
  <2>2. worker[w].buffer = <<>> /\ worker[w].pc \notin InHandPCs /\ worker[w].pc # "done"
    BY <2>1, Records DEF InHandPCs
  <2>3. Moves(w, <<>>)
    BY <1>1, <1>3, <2>1, EmptyMoves
  <2> QED
    BY <1>1, <2>1, <2>2, <2>3, MovesOn
<1> QED
  BY <1>1, <1>4, <1>5, <1>6, <1>7

\* Every action of a worker.
LEMMA WorkingKeeps ==
    ASSUME SubInv, NEW w \in Worker, Working(w)
    PROVE  SubInv'
<1>1. CASE HandlerEnds(w)
  BY <1>1, BuffersKeeps, WritesKeeps, EndsKeeps DEF HandlerEnds
<1> QED
  BY <1>1, OpenKeeps, GetKeeps, EndsKeeps, WriteFailsKeeps, FlushOkKeeps, FlushFailsKeeps,
     UnwindsKeeps DEF Working

-----------------------------------------------------------------------------
(* The actions of the fetch loop and of the table. *)

\* The fetch loop's record after a step: what it may look like.
FetchFits ==
    /\ fetch' \in FetchType
    /\ fetch'.pc \in {"lock", "query"} => Len(inflight') + fetch'.free <= InflightMax
    /\ Len(inflight') + Len(fetch'.got) <= InflightMax
    /\ fetch'.pc # "reply" => fetch'.got = <<>>
    /\ fetch'.pc \in {"query", "reply"} => ClaimLocked \/ stop.pc \notin {"join", "gather"}
    /\ stop.pc = "idle" /\ ~running => fetch'.pc = "done"

\* Rows on their way are new: neither queued nor dispatched.
GotFresh ==
    /\ IsInjective(fetch'.got)
    /\ ToSet(fetch'.got) \cap (ToSet(inflight') \cup dispatched) = {}
    /\ \A i \in ToSet(fetch'.got) : i.claim <= claims'[i.row]

\* The table's side of a step, and the counters.
TableMoves ==
    /\ TableSound'
    /\ \A r \in Row : claims[r] \in Nat /\ claims'[r] \in Nat /\ claims'[r] >= claims[r]
    /\ notice' \in BOOLEAN /\ notify' \in BOOLEAN /\ unseen' \subseteq Row
    /\ faults' \in 0..MaxFaults /\ generation' \in 0..faults'

\* A step that leaves the workers and the queue alone.
LEMMA OutsideKeeps ==
    ASSUME SubInv, FetchFits, GotFresh, TableMoves, Woken',
           UNCHANGED <<worker, inflight, unfinished, dispatched, closings, running, stopping,
                       stop, starts>>
    PROVE  SubInv'
<1>1. /\ Typed /\ Control /\ Fits /\ DrainLeavesNothing /\ Placed /\ Traced
      /\ TasksBalanced
  BY DEF SubInv
<1>2. TableSound'
  BY DEF TableMoves
<1>3. Typed'
  <2>1. (\A v \in Worker : Shaped(worker[v]))'
    BY <1>1 DEF Typed, Shaped
  <2> QED
    BY <1>1, <2>1 DEF Typed, FetchFits, TableMoves
<1>4. Control'
  BY <1>1 DEF Control, FetchFits, ClaimLocked
<1>5. Fits'
  BY <1>1 DEF Fits, FetchFits
<1>6. TasksBalanced'
  BY <1>1 DEF TasksBalanced, InHand
<1>7. /\ HeldRows' = HeldRows
      /\ \A v \in Worker : HeldBy(v)' = HeldBy(v) /\ Buffered(v)' = Buffered(v)
                           /\ InHand(v)' = InHand(v)
  BY DEF HeldRows, HeldBy, Buffered, InHand
<1>8. DrainLeavesNothing'
  BY <1>1, <1>7 DEF DrainLeavesNothing, FetchFits, ClaimLocked
<1>9. Placed'
  BY <1>1, <1>7 DEF Placed, GotFresh
<1>10. Traced'
  <2>1. EventsPaired'
    BY <1>1, <1>7 DEF Traced, EventsPaired
  <2>2. \A i \in dispatched' \cup ToSet(inflight') \cup ToSet(fetch'.got) :
          i.claim <= claims'[i.row]
    <3> SUFFICES ASSUME NEW i \in dispatched \cup ToSet(inflight)
                 PROVE  i.claim <= claims'[i.row]
      BY DEF GotFresh
    <3>1. i \in Item
      <4>1. inflight \in Seq(Item) /\ dispatched \subseteq Item
        BY <1>1 DEF Typed
      <4>2. ToSet(inflight) \subseteq Item
        BY <4>1, LenProperties DEF ToSet
      <4> QED
        BY <4>1, <4>2
    <3>2. i.row \in Row /\ i.claim \in Nat /\ i.claim <= claims[i.row]
      BY <1>1, <3>1, SubscriberAssumption DEF Traced, Item
    <3> QED
      BY <3>2 DEF TableMoves
  <2> QED
    BY <1>1, <2>1, <2>2 DEF Traced
<1> QED
  BY <1>2, <1>3, <1>4, <1>5, <1>6, <1>8, <1>9, <1>10 DEF SubInv

\* The table and the counters stay, or a fault is counted.
LEMMA TableStays ==
    ASSUME SubInv, UNCHANGED <<table, unseen>>, notice' \in BOOLEAN, notify' \in BOOLEAN,
           \/ faults' = faults /\ generation' = generation
           \/ Fault /\ generation' \in {generation, generation + 1}
    PROVE  TableMoves
<1>1. TableSound' /\ claims' = claims
  BY SameTable
<1>2. \A r \in Row : claims[r] \in Nat
  BY SubscriberAssumption DEF SubInv, TableSound
<1>3. /\ faults \in 0..MaxFaults /\ generation \in 0..faults /\ unseen \subseteq Row
      /\ MaxFaults \in Nat
  BY SubscriberAssumption DEF SubInv, Typed
<1>4. faults' \in 0..MaxFaults /\ generation' \in 0..faults'
  BY <1>3 DEF Fault
<1> QED
  BY <1>1, <1>2, <1>3, <1>4 DEF TableMoves

\* What is known of the fetch loop's record and of the queue.
LEMMA FetchRecord ==
    ASSUME SubInv
    PROVE  /\ fetch \in FetchType /\ fetch.pc \in FetchStates /\ fetch.free \in 0..InflightMax
           /\ fetch.got \in Seq(Item) /\ Len(fetch.got) \in Nat
           /\ inflight \in Seq(Item) /\ Len(inflight) \in Nat /\ Len(inflight) <= InflightMax
           /\ notify \in BOOLEAN /\ notice \in BOOLEAN
           /\ InflightMax \in Nat \ {0} /\ RefillAt \in Nat \ {0} /\ RefillAt <= InflightMax
<1>1. fetch \in FetchType /\ inflight \in Seq(Item) /\ notify \in BOOLEAN /\ notice \in BOOLEAN
  BY DEF SubInv, Typed
<1>2. fetch.got \in Seq(Item) /\ fetch.pc \in FetchStates /\ fetch.free \in 0..InflightMax
  BY <1>1 DEF FetchType
<1>3. Len(fetch.got) \in Nat /\ Len(inflight) \in Nat
  BY <1>1, <1>2, LenProperties
<1>4. Len(inflight) <= InflightMax
  BY DEF SubInv, Fits
<1>5. InflightMax \in Nat \ {0} /\ RefillAt \in Nat \ {0} /\ RefillAt <= InflightMax
  BY SubscriberAssumption DEF RefillAt
<1> QED
  BY <1>1, <1>2, <1>3, <1>4, <1>5

\* The top of the loop leaves a record without rows, and waits for room only
\* when there is none.
LEMMA TopFits ==
    ASSUME NEW q \in Seq(Item), Len(q) <= InflightMax, NEW ev \in BOOLEAN, FetchTop(q, ev)
    PROVE  /\ fetch' \in FetchType /\ fetch'.got = <<>>
           /\ fetch'.pc \in {"done", "fullWait", "lock"}
           /\ fetch'.pc = "lock" => Len(q) + fetch'.free <= InflightMax
           /\ fetch'.pc = "fullWait" => Free(q) < RefillAt
           /\ notify' \in BOOLEAN
<1>1. Len(q) \in Nat /\ InflightMax \in Nat
  BY LenProperties, SubscriberAssumption
<1>2. Free(q) \in 0..InflightMax /\ Len(q) + Free(q) <= InflightMax
  BY <1>1 DEF Free
<1>3. 0 \in 0..InflightMax /\ <<>> \in Seq(Item)
  BY <1>1
<1>4. CASE fetch' = IdleFetch("done") /\ notify' = ev
  BY <1>3, <1>4 DEF IdleFetch, FetchType, FetchStates
<1>5. CASE fetch' = IdleFetch("fullWait") /\ notify' = ev /\ Free(q) < RefillAt
  BY <1>3, <1>5 DEF IdleFetch, FetchType, FetchStates
<1>6. CASE fetch' = [pc |-> "lock", free |-> Free(q), got |-> <<>>] /\ notify' = FALSE
  BY <1>2, <1>3, <1>6 DEF FetchType, FetchStates
<1> QED
  BY <1>4, <1>5, <1>6 DEF FetchTop

\* A fetch loop that ends or changes its state has nothing on its way.
LEMMA GotNothing ==
    ASSUME fetch'.got = <<>>
    PROVE  GotFresh
BY EmptyHolds DEF GotFresh

\* A running fetch loop belongs to a running subscriber or to its stop.
LEMMA FetchRuns ==
    ASSUME SubInv, fetch.pc # "done"
    PROVE  ~(stop.pc = "idle" /\ ~running)
BY DEF SubInv, Control

\* Opening, and the end of a wait.
LEMMA FetchTopKeeps ==
    ASSUME SubInv, FetchOpen \/ FetchWake
    PROVE  SubInv'
<1>1. \E ev \in BOOLEAN : FetchTop(inflight, ev)
  BY FetchRecord DEF FetchOpen, FetchWake
<1>2. /\ UNCHANGED <<table, notice, generation, inflight, unfinished, unseen, faults>>
      /\ UNCHANGED <<running, stopping, worker, stop, dispatched, closings, starts>>
      /\ fetch.pc # "done"
  BY DEF FetchOpen, FetchWake, FetchUnchanged, events
<1>3. /\ fetch' \in FetchType /\ fetch'.got = <<>>
      /\ fetch'.pc \in {"done", "fullWait", "lock"}
      /\ fetch'.pc = "lock" => Len(inflight) + fetch'.free <= InflightMax
      /\ fetch'.pc = "fullWait" => Free(inflight) < RefillAt
      /\ notify' \in BOOLEAN
  BY <1>1, FetchRecord, TopFits
<1>4. FetchFits
  <2>1. Len(inflight') + Len(fetch'.got) <= InflightMax
    BY <1>2, <1>3, FetchRecord, EmptyHolds
  <2> QED
    BY <1>2, <1>3, <2>1, FetchRuns DEF FetchFits
<1>5. GotFresh
  BY <1>3, GotNothing
<1>6. TableMoves
  BY <1>2, <1>3, FetchRecord, TableStays
<1>7. Woken'
  BY <1>2, <1>3 DEF Woken, RoomWakesFetch, Free
<1> QED
  BY <1>2, <1>4, <1>5, <1>6, <1>7, OutsideKeeps

\* The claim lock: after stop() took its turn there is no new claim.
LEMMA FetchLockKeeps ==
    ASSUME SubInv, FetchLock
    PROVE  SubInv'
<1>1. /\ UNCHANGED <<table, notify, notice, generation, inflight, unfinished, unseen, faults>>
      /\ UNCHANGED <<running, stopping, worker, stop, dispatched, closings, starts>>
      /\ fetch.pc = "lock" /\ stop.pc # "gather"
      /\ fetch' = IF stopping THEN IdleFetch("done") ELSE [fetch EXCEPT !.pc = "query"]
  BY DEF FetchLock, FetchUnchanged, events, Cancelled
<1>2. /\ fetch.got = <<>> /\ fetch.free \in 0..InflightMax
      /\ Len(inflight) + fetch.free <= InflightMax
  BY <1>1, FetchRecord DEF SubInv, Fits
<1>3. /\ fetch' \in FetchType /\ fetch'.got = <<>> /\ fetch'.pc \in {"done", "query"}
      /\ fetch'.pc = "query" => fetch'.free = fetch.free /\ ~stopping
  <2>1. CASE stopping
    <3>1. 0 \in 0..InflightMax /\ <<>> \in Seq(Item)
      BY SubscriberAssumption
    <3> QED
      BY <1>1, <2>1, <3>1 DEF IdleFetch, FetchType, FetchStates
  <2>2. CASE ~stopping
    BY <1>1, <1>2, <2>2, FetchRecord DEF FetchType, FetchStates
  <2> QED
    BY <2>1, <2>2
<1>4. fetch'.pc = "query" => stop.pc \notin {"join", "gather"}
  BY <1>1, <1>3 DEF SubInv, Control
<1>5. FetchFits
  <2>1. Len(inflight') + Len(fetch'.got) <= InflightMax
    BY <1>1, <1>3, FetchRecord, EmptyHolds
  <2> QED
    BY <1>1, <1>2, <1>3, <1>4, <2>1, FetchRuns DEF FetchFits
<1>6. GotFresh
  BY <1>3, GotNothing
<1>7. TableMoves
  BY <1>1, FetchRecord, TableStays
<1>8. Woken'
  BY <1>3 DEF Woken, RoomWakesFetch
<1> QED
  BY <1>1, <1>5, <1>6, <1>7, <1>8, OutsideKeeps

\* A loop that reconnects or unwinds drops what was on its way.
LEMMA FetchFailsKeeps ==
    ASSUME SubInv, FetchFails
    PROVE  SubInv'
<1>1. /\ Fault /\ generation' = generation + 1 /\ notice' = FALSE
      /\ UNCHANGED <<table, notify, inflight, unfinished, unseen>>
      /\ UNCHANGED <<running, stopping, worker, stop, dispatched, closings, starts>>
      /\ fetch.pc # "done" /\ fetch' = IdleFetch("open")
  BY DEF FetchFails, FetchUnchanged, events
<1>2. fetch' \in FetchType /\ fetch'.got = <<>> /\ fetch'.pc = "open"
  <2>1. 0 \in 0..InflightMax /\ <<>> \in Seq(Item)
    BY SubscriberAssumption
  <2> QED
    BY <1>1, <2>1 DEF IdleFetch, FetchType, FetchStates
<1>3. FetchFits
  <2>1. Len(inflight') + Len(fetch'.got) <= InflightMax
    BY <1>1, <1>2, FetchRecord, EmptyHolds
  <2> QED
    BY <1>1, <1>2, <2>1, FetchRuns DEF FetchFits
<1>4. GotFresh
  BY <1>2, GotNothing
<1>5. TableMoves
  BY <1>1, FetchRecord, TableStays
<1>6. Woken'
  BY <1>2 DEF Woken, RoomWakesFetch
<1> QED
  BY <1>1, <1>3, <1>4, <1>5, <1>6, OutsideKeeps

\* A cancelled fetch loop unwinds; its claim may have landed.
LEMMA FetchUnwindsKeeps ==
    ASSUME SubInv, FetchUnwinds
    PROVE  SubInv'
<1>1. /\ notice' = FALSE /\ faults' = faults /\ generation' = generation
      /\ UNCHANGED <<notify, inflight, unfinished, unseen>>
      /\ UNCHANGED <<running, stopping, worker, stop, dispatched, closings, starts>>
      /\ stop.pc = "gather" /\ fetch' = IdleFetch("done")
      /\ (\E S \in SUBSET Row : ClaimUpTo(fetch.free, S)) \/ UNCHANGED table
  BY DEF FetchUnwinds, FetchUnchanged, events, Cancelled
<1>2. fetch' \in FetchType /\ fetch'.got = <<>> /\ fetch'.pc = "done"
  <2>1. 0 \in 0..InflightMax /\ <<>> \in Seq(Item)
    BY SubscriberAssumption
  <2> QED
    BY <1>1, <2>1 DEF IdleFetch, FetchType, FetchStates
<1>3. FetchFits
  <2>1. Len(inflight') + Len(fetch'.got) <= InflightMax
    BY <1>1, <1>2, FetchRecord, EmptyHolds
  <2> QED
    BY <1>1, <1>2, <2>1 DEF FetchFits
<1>4. GotFresh
  BY <1>2, GotNothing
<1>5. TableMoves
  <2>1. CASE UNCHANGED table
    BY <1>1, <2>1, FetchRecord, TableStays
  <2>2. CASE \E S \in SUBSET Row : ClaimUpTo(fetch.free, S)
    <3>1. TableSound
      BY DEF SubInv
    <3>2. /\ TableSound'
          /\ \A r \in Row : claims[r] \in Nat /\ claims'[r] \in Nat /\ claims'[r] >= claims[r]
      BY <2>2, <3>1, ClaimSound
    <3>3. faults \in 0..MaxFaults /\ generation \in 0..faults /\ unseen \subseteq Row
      BY DEF SubInv, Typed
    <3> QED
      BY <1>1, <3>2, <3>3, FetchRecord DEF TableMoves
  <2> QED
    BY <1>1, <2>1, <2>2
<1>6. Woken'
  BY <1>2 DEF Woken, RoomWakesFetch
<1> QED
  BY <1>1, <1>3, <1>4, <1>5, <1>6, OutsideKeeps

\* The reply to a claim: a row each, in some order, no more than was asked for.
LEMMA ReplyOfClaim ==
    ASSUME TableSound, NEW n \in Nat, NEW S \in SUBSET Row, ClaimUpTo(n, S),
           NEW rows \in SetToSeqs({[row |-> r, claim |-> claims[r] + 1] : r \in S})
    PROVE  /\ rows \in Seq(Item) /\ Len(rows) <= n /\ IsInjective(rows)
           /\ \A i \in ToSet(rows) : i.row \in Row /\ i.claim = claims[i.row] + 1
                                     /\ i.claim = claims'[i.row]
<1> DEFINE T == {[row |-> r, claim |-> claims[r] + 1] : r \in S}
           f == [r \in S |-> [row |-> r, claim |-> claims[r] + 1]]
<1>1. IsFiniteSet(S) /\ Cardinality(S) \in Nat
  BY SubscriberAssumption, FS_Subset, FS_CardinalityType
<1>2. f \in Surjection(S, T)
  BY DEF Surjection
<1>3. IsFiniteSet(T) /\ Cardinality(T) <= Cardinality(S) /\ Cardinality(T) \in Nat
  <2> HIDE DEF T, f
  <2>1. IsFiniteSet(T) /\ Cardinality(T) <= Cardinality(S)
    BY <1>1, <1>2, FS_Surjection
  <2> QED
    BY <2>1, FS_CardinalityType
<1>4. \A r \in S : claims[r] + 1 \in 1..MaxClaims /\ claims'[r] = claims[r] + 1
  BY ClaimSound
<1>5. \A i \in T : i \in Item /\ i.row \in Row /\ i.claim = claims[i.row] + 1
                   /\ i.claim = claims'[i.row]
  BY <1>4 DEF Item
<1>6. Cardinality(S) <= n
  BY DEF ClaimUpTo
<1>7. rows \in SetToSeqs(T)
  OBVIOUS
<1> HIDE DEF T, f
<1>8. /\ rows \in [1..Cardinality(T) -> T]
      /\ \A i, j \in 1..Cardinality(T) : i # j => rows[i] # rows[j]
  BY <1>7 DEF SetToSeqs
<1>9. DOMAIN rows = 1..Cardinality(T)
  BY <1>8
<1>10. rows \in Seq(T) /\ Len(rows) = Cardinality(T)
  <2>1. rows \in Seq(T)
    BY <1>3, <1>8, SeqDef
  <2>2. Len(rows) \in Nat /\ DOMAIN rows = 1..Len(rows)
    BY <2>1, LenProperties
  <2> QED
    BY <1>3, <1>9, <2>1, <2>2
<1>11. IsInjective(rows) /\ ToSet(rows) \subseteq T
  BY <1>8, <1>9 DEF IsInjective, ToSet
<1>12. rows \in Seq(Item)
  <2>1. T \subseteq Item
    BY <1>5
  <2> QED
    BY <1>10, <2>1, SeqMonotonic
<1>13. Len(rows) <= n
  BY <1>1, <1>3, <1>6, <1>10
<1> QED
  BY <1>5, <1>11, <1>12, <1>13

\* The server claims rows: they are new to memory.
LEMMA FetchExecuteKeeps ==
    ASSUME SubInv, NEW S \in SUBSET Row, FetchExecute(S)
    PROVE  SubInv'
<1>1. /\ UNCHANGED <<notify, notice, generation, inflight, unfinished, faults>>
      /\ UNCHANGED <<running, stopping, worker, stop, dispatched, closings, starts>>
      /\ fetch.pc = "query" /\ unseen' = {}
      /\ ClaimUpTo(fetch.free, S)
  BY DEF FetchExecute, FetchUnchanged, events
<1>2. PICK rows \in SetToSeqs({[row |-> r, claim |-> claims[r] + 1] : r \in S}) :
          fetch' = [fetch EXCEPT !.pc = "reply", !.got = rows]
  BY DEF FetchExecute
<1>3. /\ Typed /\ Fits /\ Placed /\ Traced /\ TableSound
      /\ fetch \in FetchType /\ fetch.free \in Nat /\ Len(inflight) \in Nat
      /\ Len(inflight) + fetch.free <= InflightMax
  BY <1>1, FetchRecord, SubscriberAssumption DEF SubInv, Fits
<1>4. /\ rows \in Seq(Item) /\ Len(rows) <= fetch.free /\ IsInjective(rows)
      /\ \A i \in ToSet(rows) : i.row \in Row /\ i.claim = claims[i.row] + 1
                                /\ i.claim = claims'[i.row]
  BY <1>1, <1>3, ReplyOfClaim
<1>5. /\ fetch' \in FetchType /\ fetch'.pc = "reply" /\ fetch'.got = rows
  BY <1>2, <1>3, <1>4 DEF FetchType, FetchStates
<1>6. /\ TableSound'
      /\ \A r \in Row : claims[r] \in Nat /\ claims'[r] \in Nat /\ claims'[r] >= claims[r]
  BY <1>1, <1>3, ClaimSound
<1>7. FetchFits
  <2>1. Len(inflight') + Len(fetch'.got) <= InflightMax
    BY <1>1, <1>3, <1>4, <1>5, FetchRecord, LenProperties
  <2>2. ClaimLocked
    BY <1>1 DEF ClaimLocked
  <2> QED
    BY <1>1, <1>5, <2>1, <2>2, FetchRuns DEF FetchFits
<1>8. GotFresh
  <2>1. ASSUME NEW i \in ToSet(rows), i \in ToSet(inflight) \cup dispatched
        PROVE  FALSE
    <3>1. i.claim <= claims[i.row]
      BY <1>3, <2>1 DEF Traced
    <3>2. i.claim = claims[i.row] + 1 /\ claims[i.row] \in Nat
      BY <1>4, <1>6, <2>1
    <3> QED
      BY <3>1, <3>2
  <2>2. \A i \in ToSet(rows) : i.claim <= claims'[i.row]
    BY <1>4, <1>6
  <2> QED
    BY <1>1, <1>4, <1>5, <2>1, <2>2 DEF GotFresh
<1>9. TableMoves
  <2>1. faults \in 0..MaxFaults /\ generation \in 0..faults
    BY <1>3 DEF Typed
  <2> QED
    BY <1>1, <1>6, <2>1, FetchRecord DEF TableMoves
<1>10. Woken'
  BY <1>1, <1>5 DEF Woken, RoomWakesFetch
<1> QED
  BY <1>1, <1>7, <1>8, <1>9, <1>10, OutsideKeeps

\* The reply arrives: its rows join the queue.
LEMMA FetchReplyKeeps ==
    ASSUME SubInv, FetchReply
    PROVE  SubInv'
<1>1. /\ UNCHANGED <<table, notice, generation, unseen, faults>>
      /\ UNCHANGED <<running, stopping, worker, stop, dispatched, closings, starts>>
      /\ fetch.pc = "reply" /\ stop.pc # "gather"
      /\ inflight' = inflight \o fetch.got
      /\ unfinished' = unfinished + Len(fetch.got)
      /\ IF fetch.got = <<>>
         THEN fetch' = IdleFetch("idleWait") /\ notify' = notify
         ELSE FetchTop(inflight', notify)
  BY DEF FetchReply, FetchUnchanged, events, Cancelled
<1>2. /\ Typed /\ TableSound /\ Control /\ Fits /\ TasksBalanced /\ DrainLeavesNothing
      /\ Woken /\ Placed /\ Traced
  BY DEF SubInv
<1>3. /\ inflight' \in Seq(Item) /\ Len(inflight') = Len(inflight) + Len(fetch.got)
      /\ ToSet(inflight') = ToSet(inflight) \cup ToSet(fetch.got)
      /\ IsInjective(inflight')
  <2>1. /\ inflight \in Seq(Item) /\ fetch.got \in Seq(Item)
        /\ IsInjective(inflight) /\ IsInjective(fetch.got)
        /\ ToSet(inflight) \cap ToSet(fetch.got) = {}
    BY <1>2, FetchRecord DEF Placed
  <2> QED
    BY <1>1, <2>1, JoinQueues
<1>4. Len(inflight') <= InflightMax
  BY <1>2, <1>3 DEF Fits
<1>5. /\ fetch' \in FetchType /\ fetch'.got = <<>> /\ notify' \in BOOLEAN
      /\ fetch'.pc \in {"done", "fullWait", "lock", "idleWait"}
      /\ fetch'.pc = "lock" => Len(inflight') + fetch'.free <= InflightMax
      /\ fetch'.pc = "fullWait" => Free(inflight') < RefillAt
      /\ fetch'.pc = "idleWait" => notify' = notify
  <2>1. CASE fetch.got = <<>>
    <3>1. 0 \in 0..InflightMax /\ <<>> \in Seq(Item)
      BY SubscriberAssumption
    <3>2. fetch' = IdleFetch("idleWait") /\ notify' = notify
      BY <1>1, <2>1
    <3> QED
      BY <3>1, <3>2, FetchRecord DEF IdleFetch, FetchType, FetchStates
  <2>2. CASE fetch.got # <<>>
    <3>1. FetchTop(inflight', notify) /\ notify \in BOOLEAN
      BY <1>1, <2>2, FetchRecord
    <3> QED
      BY <1>3, <1>4, <3>1, TopFits
  <2> QED
    BY <2>1, <2>2
<1>6. TableSound' /\ claims' = claims
  BY <1>1, SameTable
<1>7. Typed'
  <2>1. (\A v \in Worker : Shaped(worker[v]))'
    BY <1>1, <1>2 DEF Typed, Shaped
  <2>2. unfinished' \in Int
    BY <1>1, <1>2, FetchRecord DEF Typed
  <2> QED
    BY <1>1, <1>2, <1>3, <1>5, <2>1, <2>2 DEF Typed
<1>8. Control'
  BY <1>1, <1>2, <1>5, FetchRuns DEF Control, ClaimLocked
<1>9. Fits'
  BY <1>3, <1>4, <1>5, EmptyHolds, LenProperties DEF Fits
<1>10. TasksBalanced'
  <2>1. HeldCount' = HeldCount
    BY <1>1 DEF HeldCount, HandsOf, SlotsOf
  <2>2. HeldCount \in Nat /\ unfinished = Len(inflight) + HeldCount
    BY <1>2, FetchRecord, Balanced DEF Typed
  <2>3. worker' \in [Worker -> WorkerType]
    BY <1>7 DEF Typed
  <2>4. unfinished' = Len(inflight') + HeldCount'
    <3> DEFINE m == Len(inflight)
               n == Len(fetch.got)
    <3>1. m \in Nat /\ n \in Nat
      BY FetchRecord
    <3>2. unfinished' = unfinished + n /\ unfinished = m + HeldCount
      BY <1>1, <2>2
    <3>3. Len(inflight') = m + n
      BY <1>3
    <3> HIDE DEF m, n
    <3> QED
      BY <2>1, <2>2, <3>1, <3>2, <3>3
  <2>5. (worker \in [Worker -> WorkerType] /\ inflight \in Seq(Item) =>
           /\ HeldCount \in Nat
           /\ TasksBalanced <=> unfinished = Len(inflight) + HeldCount)'
    BY Balanced, PTL
  <2> QED
    BY <1>3, <2>3, <2>4, <2>5
<1>11. /\ HeldRows' = HeldRows
       /\ \A v \in Worker : HeldBy(v)' = HeldBy(v) /\ Buffered(v)' = Buffered(v)
                            /\ InHand(v)' = InHand(v)
  BY <1>1 DEF HeldRows, HeldBy, Buffered, InHand
<1>12. DrainLeavesNothing'
  BY <1>1 DEF DrainLeavesNothing
<1>13. Woken'
  BY <1>1, <1>2, <1>5 DEF Woken, RoomWakesFetch, Free
<1>14. Placed'
  <2>1. ToSet(fetch'.got) = {} /\ IsInjective(fetch'.got)
    BY <1>5, EmptyHolds
  <2> QED
    BY <1>1, <1>2, <1>3, <1>11, <2>1 DEF Placed
<1>15. Traced'
  <2>1. ToSet(fetch'.got) = {}
    BY <1>5, EmptyHolds
  <2> QED
    BY <1>1, <1>2, <1>3, <1>6, <1>11, <2>1 DEF Traced, EventsPaired
<1> QED
  BY <1>6, <1>7, <1>8, <1>9, <1>10, <1>12, <1>13, <1>14, <1>15 DEF SubInv

\* Every action of the fetch loop.
LEMMA FetchingKeeps ==
    ASSUME SubInv, Fetching
    PROVE  SubInv'
BY FetchTopKeeps, FetchLockKeeps, FetchExecuteKeeps, FetchReplyKeeps, FetchFailsKeeps,
   FetchUnwindsKeeps DEF Fetching, FetchClaims

-----------------------------------------------------------------------------
(* Publishers and other replicas. *)

\* A fetch loop that does nothing keeps what is on its way.
LEMMA FetchStays ==
    ASSUME SubInv, UNCHANGED <<fetch, inflight>>,
           \A r \in Row : claims[r] \in Nat /\ claims'[r] \in Nat /\ claims'[r] >= claims[r]
    PROVE  FetchFits /\ GotFresh
<1>1. Typed /\ Control /\ Fits /\ Placed /\ Traced
  BY DEF SubInv
<1>2. FetchFits
  BY <1>1 DEF FetchFits, Typed, Fits, Control, ClaimLocked
<1>3. \A i \in ToSet(fetch.got) : i.claim <= claims'[i.row]
  <2> SUFFICES ASSUME NEW i \in ToSet(fetch.got)
               PROVE  i.claim <= claims'[i.row]
    OBVIOUS
  <2>1. i \in Item
    BY FetchRecord, LenProperties DEF ToSet
  <2>2. i.row \in Row /\ i.claim \in Nat /\ i.claim <= claims[i.row]
    BY <1>1, <2>1, SubscriberAssumption DEF Traced, Item
  <2> QED
    BY <2>2
<1>4. GotFresh
  BY <1>1, <1>3 DEF Placed, GotFresh
<1> QED
  BY <1>2, <1>4

\* Publishers, lease expiry, other replicas and notifications.
LEMMA DatabaseKeeps ==
    ASSUME SubInv, Database
    PROVE  SubInv'
<1>1. /\ Typed /\ TableSound /\ Woken
      /\ \A r \in Row : claims[r] \in 0..MaxClaims /\ lease[r] \in {0, claims[r]}
      /\ MaxClaims \in Nat \ {0} /\ MaxFaults \in Nat
      /\ faults \in 0..MaxFaults /\ generation \in 0..faults /\ unseen \subseteq Row
      /\ notify \in BOOLEAN /\ notice \in BOOLEAN
  BY SubscriberAssumption DEF SubInv, TableSound, Typed
<1>2. ASSUME NEW r \in Row, Publish(r)
      PROVE  SubInv'
  <2>1. /\ place' = [place EXCEPT ![r] = "stored"]
        /\ notice' = (notice \/ fetch.pc \notin {"done", "open"})
        /\ unseen' = unseen \cup {r}
        /\ UNCHANGED <<claims, lease, expired, running, stopping, notify, generation, inflight,
                       unfinished, fetch, worker, stop, dispatched, closings, faults, starts>>
    BY <1>2 DEF Publish
  <2>2. TableSound'
    BY <1>1, <2>1 DEF TableSound
  <2>3. TableMoves
    BY <1>1, <2>1, <2>2 DEF TableMoves
  <2>4. FetchFits /\ GotFresh
    BY <1>1, <2>1, FetchStays
  <2>5. Woken'
    BY <1>1, <2>1 DEF Woken, RoomWakesFetch, Free
  <2> QED
    BY <2>1, <2>3, <2>4, <2>5, OutsideKeeps
<1>3. ASSUME NEW r \in Row, Expire(r)
      PROVE  SubInv'
  <2>1. /\ claims[r] < MaxClaims /\ expired' = expired \cup {r}
        /\ UNCHANGED <<place, claims, lease, notice, running, stopping, notify, generation,
                       inflight, unfinished, fetch, worker, stop, dispatched, closings, unseen,
                       faults, starts>>
    BY <1>3 DEF Expire, events
  <2>2. TableSound'
    BY <1>1, <2>1 DEF TableSound
  <2>3. TableMoves
    BY <1>1, <2>1, <2>2 DEF TableMoves
  <2>4. FetchFits /\ GotFresh
    BY <1>1, <2>1, FetchStays
  <2>5. Woken'
    BY <1>1, <2>1 DEF Woken, RoomWakesFetch, Free
  <2> QED
    BY <2>1, <2>3, <2>4, <2>5, OutsideKeeps
<1>4. ASSUME NEW r \in Row, OtherClaims(r)
      PROVE  SubInv'
  <2>1. /\ Fault /\ claims[r] + 1 < MaxClaims
        /\ claims' = [claims EXCEPT ![r] = @ + 1]
        /\ lease' = [lease EXCEPT ![r] = claims[r] + 1]
        /\ expired' = expired \ {r}
        /\ UNCHANGED <<place, notice, running, stopping, notify, generation, inflight, unfinished,
                       fetch, worker, stop, dispatched, closings, unseen, starts>>
    BY <1>4 DEF OtherClaims, events
  <2>2. claims' \in [Row -> 0..MaxClaims] /\ lease' \in [Row -> 0..MaxClaims]
    BY <1>1, <2>1 DEF TableSound
  <2>3. \A q \in Row : lease'[q] \in {0, claims'[q]}
    BY <1>1, <2>1 DEF TableSound
  <2>4. \A q \in Row : lease'[q] = 0 \/ q \in expired' => claims'[q] < MaxClaims
    BY <1>1, <2>1 DEF TableSound
  <2>5. TableSound'
    BY <1>1, <2>1, <2>2, <2>3, <2>4 DEF TableSound
  <2>6. \A q \in Row : claims[q] \in Nat /\ claims'[q] \in Nat /\ claims'[q] >= claims[q]
    BY <1>1, <2>1 DEF TableSound
  <2>7. faults' \in 0..MaxFaults /\ generation' \in 0..faults'
    BY <1>1, <2>1 DEF Fault
  <2>8. TableMoves
    BY <1>1, <2>1, <2>5, <2>6, <2>7 DEF TableMoves
  <2>9. FetchFits /\ GotFresh
    BY <2>1, <2>6, FetchStays
  <2>10. Woken'
    BY <1>1, <2>1 DEF Woken, RoomWakesFetch, Free
  <2> QED
    BY <2>1, <2>8, <2>9, <2>10, OutsideKeeps
<1>5. ASSUME OnNotify
      PROVE  SubInv'
  <2>1. /\ notice' = FALSE /\ notify' = TRUE
        /\ UNCHANGED <<table, unseen>> /\ UNCHANGED <<faults, generation>>
        /\ UNCHANGED <<running, stopping, inflight, unfinished, fetch, worker, stop, dispatched,
                       closings, starts>>
    BY <1>5 DEF OnNotify, events
  <2>2. TableMoves
    BY <2>1, TableStays
  <2>3. FetchFits /\ GotFresh
    BY <2>1, <2>2, FetchStays DEF TableMoves
  <2>4. Woken'
    BY <2>1 DEF Woken, RoomWakesFetch
  <2> QED
    BY <2>1, <2>2, <2>3, <2>4, OutsideKeeps
<1> QED
  BY <1>2, <1>3, <1>4, <1>5 DEF Database

-----------------------------------------------------------------------------
(* start, stop, and the end of the process. *)

\* Workers without rows count for nothing and hold nothing.
LEMMA NothingCounts ==
    ASSUME NEW f \in [Worker -> WorkerType],
           \A w \in Worker : f[w].pc \notin InHandPCs /\ f[w].buffer = <<>>
    PROVE  /\ Cardinality(HandsOf(f)) = 0 /\ Cardinality(SlotsOf(f)) = 0
           /\ \A w \in Worker : HeldOf(f[w]) = {}
<1>1. HandsOf(f) = {}
  BY DEF HandsOf
<1>2. SlotsOf(f) = {}
  <2> SUFFICES ASSUME NEW s \in Worker \X (1..FlushBatch), s[2] <= Len(f[s[1]].buffer)
               PROVE  FALSE
    BY DEF SlotsOf
  <2>1. Len(f[s[1]].buffer) = 0
    BY EmptyHolds
  <2>2. s[2] \in 1..FlushBatch /\ FlushBatch \in Nat
    BY SubscriberAssumption
  <2> QED
    BY <2>1, <2>2
<1>3. \A w \in Worker : HeldOf(f[w]) = {}
  BY EmptyHolds DEF HeldOf
<1> QED
  BY <1>1, <1>2, <1>3, FS_EmptySet

\* And the other way round: when nothing counts, nothing is held.
LEMMA NothingHeld ==
    ASSUME Typed, HeldCount = 0
    PROVE  HeldRows = {}
<1>1. /\ worker \in [Worker -> WorkerType] /\ \A w \in Worker : Shaped(worker[w])
  BY DEF Typed
<1>2. IsFiniteSet(HandsOf(worker)) /\ IsFiniteSet(SlotsOf(worker))
  <2>1. HandsOf(worker) \in SUBSET Worker /\ SlotsOf(worker) \in SUBSET (Worker \X (1..FlushBatch))
    BY DEF HandsOf, SlotsOf
  <2>2. IsFiniteSet(1..FlushBatch)
    BY SubscriberAssumption, FS_Interval
  <2>3. IsFiniteSet(Worker \X (1..FlushBatch))
    BY <2>2, SubscriberAssumption, FS_Product
  <2> QED
    BY <2>1, <2>3, SubscriberAssumption, FS_Subset
<1>3. Cardinality(HandsOf(worker)) = 0 /\ Cardinality(SlotsOf(worker)) = 0
  BY <1>2, FS_CardinalityType DEF HeldCount
<1>4. HandsOf(worker) = {} /\ SlotsOf(worker) = {}
  BY <1>2, <1>3, FS_EmptySet
<1>5. ASSUME NEW w \in Worker
      PROVE  HeldBy(w) = {}
  <2>1. worker[w].pc \notin InHandPCs
    BY <1>4 DEF HandsOf
  <2>2. worker[w].buffer \in Seq(Item)
    BY <1>1 DEF WorkerType
  <2>3. Len(worker[w].buffer) \in Nat
    BY <2>2, LenProperties
  <2>4. ~(1 <= Len(worker[w].buffer))
    <3>1. <<w, 1>> \in Worker \X (1..FlushBatch)
      BY SubscriberAssumption
    <3> QED
      BY <1>4, <3>1 DEF SlotsOf
  <2>5. worker[w].buffer = <<>>
    BY <2>2, <2>3, <2>4, EmptySeq
  <2> QED
    BY <2>1, <2>5, EmptyHolds DEF HeldBy, Buffered, InHand, InHandPCs
<1> QED
  BY <1>5 DEF HeldRows

\* A start, a crash, or the end of a stop: nothing is left in memory.
LEMMA EmptyKeeps ==
    ASSUME SubInv, inflight' = <<>>, unfinished' = 0,
           worker' \in [Worker -> WorkerType], \A w \in Worker : Shaped(worker'[w]),
           \A w \in Worker : worker'[w].pc \in {"open", "done"},
           NEW p \in {"open", "done"}, fetch' = IdleFetch(p),
           UNCHANGED <<table, unseen>>,
           dispatched' \subseteq dispatched, closings' \in [Item -> Nat],
           \A i \in Item \ dispatched' : closings'[i] = 0,
           stop'.clean => \A i \in dispatched' : closings'[i] = 1,
           {notice', running', stopping', notify'} \subseteq BOOLEAN,
           stop' \in [pc: {"idle", "lock", "join", "gather"}, clean: BOOLEAN],
           faults' \in 0..MaxFaults, generation' \in 0..faults', starts' \in 0..MaxStarts,
           stop'.pc = "idle", running' => stop'.clean,
           ~running' => p = "done" /\ \A w \in Worker : worker'[w].pc = "done"
    PROVE  SubInv'
<1>1. TableSound' /\ claims' = claims
  BY SameTable
<1>2. /\ fetch' \in FetchType /\ fetch'.pc = p /\ fetch'.got = <<>> /\ fetch'.free = 0
  <2>1. 0 \in 0..InflightMax /\ <<>> \in Seq(Item)
    BY SubscriberAssumption
  <2> QED
    BY <2>1 DEF IdleFetch, FetchType, FetchStates
<1>3. \A w \in Worker : worker'[w].pc \notin InHandPCs /\ worker'[w].buffer = <<>>
  BY DEF Shaped, InHandPCs
<1>4. /\ Cardinality(HandsOf(worker')) = 0 /\ Cardinality(SlotsOf(worker')) = 0
      /\ \A w \in Worker : HeldOf(worker'[w]) = {}
  BY <1>3, NothingCounts
<1>5. /\ \A w \in Worker : HeldBy(w)' = {} /\ Buffered(w)' = {} /\ ~InHand(w)'
      /\ HeldRows' = {}
  <2>1. \A w \in Worker : Buffered(w)' = {} /\ ~InHand(w)'
    BY <1>3, EmptyHolds DEF Buffered, InHand, InHandPCs
  <2>2. \A w \in Worker : HeldBy(w)' = {}
    BY <2>1 DEF HeldBy
  <2>3. HeldRows' = UNION {HeldBy(w)' : w \in Worker}
    BY DEF HeldRows
  <2> QED
    BY <2>1, <2>2, <2>3
<1>6. Typed'
  <2>1. (\A w \in Worker : Shaped(worker[w]))'
    BY DEF Shaped
  <2>2. dispatched' \subseteq Item /\ unseen' \subseteq Row /\ inflight' \in Seq(Item)
    BY DEF SubInv, Typed
  <2> QED
    BY <1>2, <2>1, <2>2 DEF Typed
<1>7. Control'
  BY <1>2 DEF Control
<1>8. Fits'
  BY <1>2, EmptyHolds, SubscriberAssumption DEF Fits
<1>9. TasksBalanced'
  <2>1. HeldCount' = 0
    BY <1>4 DEF HeldCount, HandsOf, SlotsOf
  <2>2. unfinished' = Len(inflight') + HeldCount' /\ inflight' \in Seq(Item)
    BY <2>1, EmptyHolds
  <2>3. (worker \in [Worker -> WorkerType] /\ inflight \in Seq(Item) =>
           /\ HeldCount \in Nat
           /\ TasksBalanced <=> unfinished = Len(inflight) + HeldCount)'
    BY Balanced, PTL
  <2> QED
    BY <2>2, <2>3
<1>10. DrainLeavesNothing' /\ Woken'
  BY <1>2 DEF DrainLeavesNothing, Woken, RoomWakesFetch
<1>11. Placed'
  <2>1. /\ ToSet(inflight') = {} /\ IsInjective(inflight')
        /\ ToSet(fetch'.got) = {} /\ IsInjective(fetch'.got)
        /\ \A w \in Worker : IsInjective(worker'[w].buffer)
    BY <1>2, <1>3, EmptyHolds
  <2> QED
    BY <1>5, <2>1 DEF Placed
<1>12. Traced'
  <2>1. ToSet(inflight') = {} /\ ToSet(fetch'.got) = {}
    BY <1>2, EmptyHolds
  <2>2. \A i \in dispatched : i.claim <= claims[i.row]
    BY DEF SubInv, Traced
  <2> QED
    BY <1>1, <1>5, <2>1, <2>2 DEF Traced, EventsPaired
<1> QED
  BY <1>1, <1>6, <1>7, <1>8, <1>9, <1>10, <1>11, <1>12 DEF SubInv

\* A worker that is open or done, and nothing else.
LEMMA FreshWorkers ==
    ASSUME NEW p \in {"open", "done"}, worker' = [w \in Worker |-> IdleWorker(p)]
    PROVE  /\ worker' \in [Worker -> WorkerType] /\ \A w \in Worker : Shaped(worker'[w])
           /\ \A w \in Worker : worker'[w].pc = p
<1> DEFINE rec == [pc |-> p, item |-> NoItem, kind |-> "none", buffer |-> <<>>, gen |-> 0]
<1>1. IdleWorker(p) = rec
  BY IdleRecords
<1>2. Shaped(rec)
  <2>1. p \in WorkerStates \ InHandPCs
    BY DEF WorkerStates, InHandPCs
  <2>2. 0 \in 0..MaxFaults /\ <<>> \in Seq(Item) /\ Len(<<>>) <= FlushBatch
    BY SubscriberAssumption, EmptyHolds
  <2> QED
    BY <2>1, <2>2, IdleShaped
<1>3. rec.pc = p
  OBVIOUS
<1> HIDE DEF rec
<1> QED
  BY <1>1, <1>2, <1>3 DEF Shaped

\* start() finds an empty memory and leaves it empty.
LEMMA StartKeeps ==
    ASSUME SubInv, Start
    PROVE  SubInv'
<1>1. /\ stop.pc = "idle" /\ ~running /\ starts < MaxStarts /\ starts' = starts + 1
      /\ running' = TRUE /\ stopping' = FALSE /\ fetch' = IdleFetch("open")
      /\ worker' = [w \in Worker |-> IdleWorker("open")]
      /\ stop' = [stop EXCEPT !.clean = TRUE]
      /\ dispatched' = {} /\ closings' = [i \in Item |-> 0]
      /\ UNCHANGED <<table, notice, notify, generation, inflight, unfinished, unseen, faults>>
  BY DEF Start
<1>2. Typed /\ Control
  BY DEF SubInv
<1>3. inflight' = <<>> /\ unfinished' = 0
  BY <1>1, <1>2 DEF Control
<1>4. /\ worker' \in [Worker -> WorkerType] /\ \A w \in Worker : Shaped(worker'[w])
      /\ \A w \in Worker : worker'[w].pc = "open"
  BY <1>1, FreshWorkers
<1>5. /\ stop' \in [pc: {"idle", "lock", "join", "gather"}, clean: BOOLEAN]
      /\ stop'.pc = "idle" /\ stop'.clean
  BY <1>1, <1>2 DEF Typed
<1>6. /\ starts' \in 0..MaxStarts /\ faults' \in 0..MaxFaults /\ generation' \in 0..faults'
      /\ {notice', running', stopping', notify'} \subseteq BOOLEAN
  <2>1. /\ faults \in 0..MaxFaults /\ starts \in 0..MaxStarts /\ generation \in 0..faults
        /\ notice \in BOOLEAN /\ notify \in BOOLEAN /\ MaxStarts \in Nat
    BY <1>2, SubscriberAssumption DEF Typed
  <2>2. starts' \in 0..MaxStarts
    BY <1>1, <2>1
  <2>3. {notice', running', stopping', notify'} \subseteq BOOLEAN
    BY <1>1, <2>1
  <2> QED
    BY <1>1, <2>1, <2>2, <2>3
<1>7. closings' \in [Item -> Nat] /\ \A i \in Item : closings'[i] = 0
  BY <1>1
<1> QED
  BY <1>1, <1>3, <1>4, <1>5, <1>6, <1>7, EmptyKeeps

\* A crash empties memory.
LEMMA CrashKeeps ==
    ASSUME SubInv, Crash
    PROVE  SubInv'
<1>1. /\ Fault
      /\ running' = FALSE /\ stopping' = FALSE /\ notify' = FALSE /\ notice' = FALSE
      /\ generation' = 0 /\ inflight' = <<>> /\ unfinished' = 0
      /\ fetch' = IdleFetch("done")
      /\ worker' = [w \in Worker |-> IdleWorker("done")]
      /\ stop' = [pc |-> "idle", clean |-> TRUE]
      /\ dispatched' = {} /\ closings' = [i \in Item |-> 0]
      /\ UNCHANGED <<table, unseen, starts>>
  BY DEF Crash
<1>2. /\ worker' \in [Worker -> WorkerType] /\ \A w \in Worker : Shaped(worker'[w])
      /\ \A w \in Worker : worker'[w].pc = "done"
  BY <1>1, FreshWorkers
<1>3. /\ stop' \in [pc: {"idle", "lock", "join", "gather"}, clean: BOOLEAN]
      /\ stop'.pc = "idle" /\ stop'.clean
  BY <1>1
<1>4. /\ starts' \in 0..MaxStarts /\ faults' \in 0..MaxFaults /\ generation' \in 0..faults'
      /\ {notice', running', stopping', notify'} \subseteq BOOLEAN
  <2>1. faults \in 0..MaxFaults /\ starts \in 0..MaxStarts /\ MaxFaults \in Nat
    BY SubscriberAssumption DEF SubInv, Typed
  <2>2. faults < MaxFaults /\ faults' = faults + 1
    BY <1>1 DEF Fault
  <2>3. faults' \in 0..MaxFaults /\ 0 \in 0..faults'
    BY <2>1, <2>2
  <2>4. {notice', running', stopping', notify'} \subseteq BOOLEAN
    BY <1>1
  <2> QED
    BY <1>1, <2>1, <2>3, <2>4
<1>5. closings' \in [Item -> Nat] /\ \A i \in Item : closings'[i] = 0
  BY <1>1
<1> QED
  BY <1>1, <1>2, <1>3, <1>4, <1>5, EmptyKeeps

\* The steps of stop() that leave the tasks alone.
LEMMA StopKeeps ==
    ASSUME SubInv,
           UNCHANGED <<table, notice, generation, fetch, worker, dispatched, closings, unseen,
                       faults, starts, inflight, unfinished>>,
           stop' \in [pc: {"idle", "lock", "join", "gather"}, clean: BOOLEAN],
           running' \in BOOLEAN, stopping' \in BOOLEAN, notify' \in BOOLEAN, notify => notify',
           stop'.clean => stop.clean, Control', DrainLeavesNothing'
    PROVE  SubInv'
<1>1. /\ Typed /\ TableSound /\ Fits /\ TasksBalanced /\ Woken /\ Placed /\ Traced
  BY DEF SubInv
<1>2. TableSound' /\ claims' = claims
  BY SameTable
<1>3. Typed'
  <2>1. (\A w \in Worker : Shaped(worker[w]))'
    BY <1>1 DEF Typed, Shaped
  <2> QED
    BY <1>1, <2>1 DEF Typed
<1>4. Fits' /\ Woken'
  BY <1>1 DEF Fits, Woken, RoomWakesFetch, Free
<1>5. TasksBalanced'
  BY <1>1 DEF TasksBalanced, InHand
<1>6. /\ HeldRows' = HeldRows
      /\ \A v \in Worker : HeldBy(v)' = HeldBy(v) /\ Buffered(v)' = Buffered(v)
                           /\ InHand(v)' = InHand(v)
  BY DEF HeldRows, HeldBy, Buffered, InHand
<1>7. Placed'
  BY <1>1, <1>6 DEF Placed
<1>8. Traced'
  BY <1>1, <1>2, <1>6 DEF Traced, EventsPaired
<1> QED
  BY <1>2, <1>3, <1>4, <1>5, <1>7, <1>8 DEF SubInv

\* stop() sets its flag, then takes its turn of the claim lock.
LEMMA StopBeginsKeeps ==
    ASSUME SubInv, StopBegin \/ StopLock
    PROVE  SubInv'
<1>1. Typed /\ Control /\ DrainLeavesNothing
  BY DEF SubInv
<1>2. UNCHANGED <<table, notice, generation, fetch, worker, dispatched, closings, unseen,
                  faults, starts, inflight, unfinished, running>>
  BY DEF StopBegin, StopLock, StopUnchanged, events
<1>3. CASE StopBegin
  <2>1. /\ stop.pc = "idle" /\ running /\ stopping' = TRUE /\ notify' = TRUE
        /\ stop' = [stop EXCEPT !.pc = "lock"]
    BY <1>3 DEF StopBegin
  <2>2. /\ stop' \in [pc: {"idle", "lock", "join", "gather"}, clean: BOOLEAN]
        /\ stop'.pc = "lock" /\ stop'.clean = stop.clean
    BY <1>1, <2>1 DEF Typed
  <2>3. Control' /\ DrainLeavesNothing'
    BY <1>1, <1>2, <2>1, <2>2 DEF Control, DrainLeavesNothing
  <2> QED
    BY <1>1, <1>2, <2>1, <2>2, <2>3, StopKeeps DEF Typed
<1>4. CASE StopLock
  <2>1. /\ stop.pc = "lock" /\ ~ClaimLocked /\ UNCHANGED <<stopping, notify>>
        /\ stop' = [stop EXCEPT !.pc = "join"]
    BY <1>4 DEF StopLock
  <2>2. /\ stop' \in [pc: {"idle", "lock", "join", "gather"}, clean: BOOLEAN]
        /\ stop'.pc = "join" /\ stop'.clean = stop.clean
    BY <1>1, <2>1 DEF Typed
  <2>3. Control' /\ DrainLeavesNothing'
    BY <1>1, <1>2, <2>1, <2>2 DEF Control, DrainLeavesNothing, ClaimLocked
  <2> QED
    BY <1>1, <1>2, <2>1, <2>2, <2>3, StopKeeps DEF Typed
<1> QED
  BY <1>3, <1>4

\* The drain ends: when join() returned, nothing was counted and so nothing
\* is in memory.
LEMMA DrainEndsKeeps ==
    ASSUME SubInv, StopJoined \/ DrainTimeout
    PROVE  SubInv'
<1>1. Typed /\ Control /\ Fits /\ TasksBalanced
  BY DEF SubInv
<1>2. /\ UNCHANGED <<table, notice, generation, fetch, worker, dispatched, closings, unseen,
                     faults, starts, inflight, unfinished, stopping, notify>>
      /\ running' = FALSE /\ stop.pc \in {"lock", "join"}
  BY DEF StopJoined, DrainTimeout, EndDrain, StopUnchanged, events
<1>3. stop.clean
  BY <1>1, <1>2 DEF Control
<1>4. \E clean \in BOOLEAN : /\ stop' = [pc |-> "gather", clean |-> clean]
                             /\ clean => stop.pc = "join" /\ unfinished = 0
  BY DEF StopJoined, DrainTimeout, EndDrain
<1>5. /\ stop' \in [pc: {"idle", "lock", "join", "gather"}, clean: BOOLEAN]
      /\ stop'.pc = "gather" /\ (stop'.clean => stop.pc = "join" /\ unfinished = 0)
  BY <1>4
<1>6. Control'
  BY <1>2, <1>5 DEF Control
<1>7. ASSUME stop'.clean
      PROVE  inflight = <<>> /\ HeldRows = {} /\ ~ClaimLocked /\ fetch.got = <<>>
  <2>1. stop.pc = "join" /\ unfinished = 0
    BY <1>5, <1>7
  <2>2. HeldCount \in Nat /\ unfinished = Len(inflight) + HeldCount
    BY <1>1, FetchRecord, Balanced DEF Typed
  <2>3. Len(inflight) = 0 /\ HeldCount = 0
    BY <2>1, <2>2, FetchRecord
  <2>4. inflight = <<>>
    BY <2>3, FetchRecord, EmptySeq
  <2>5. HeldRows = {}
    BY <1>1, <2>3, NothingHeld
  <2>6. ~ClaimLocked /\ fetch.got = <<>>
    BY <1>1, <2>1 DEF Control, Fits, ClaimLocked
  <2> QED
    BY <2>4, <2>5, <2>6
<1>8. DrainLeavesNothing'
  <2>1. HeldRows' = HeldRows
    BY <1>2 DEF HeldRows, HeldBy, Buffered, InHand
  <2> QED
    BY <1>2, <1>7, <2>1 DEF DrainLeavesNothing, ClaimLocked
<1>9. notify \in BOOLEAN /\ stopping \in BOOLEAN
  BY <1>1 DEF Typed
<1> QED
  BY <1>2, <1>3, <1>5, <1>6, <1>8, <1>9, StopKeeps

\* The tasks have ended; _reset_inflight empties the queue.
LEMMA StopDoneKeeps ==
    ASSUME SubInv, StopDone
    PROVE  SubInv'
<1>1. /\ stop.pc = "gather" /\ fetch.pc = "done" /\ \A w \in Worker : worker[w].pc = "done"
      /\ stop' = [stop EXCEPT !.pc = "idle"]
      /\ inflight' = <<>> /\ unfinished' = 0
      /\ UNCHANGED <<running, stopping, notify>>
      /\ UNCHANGED <<table, notice, generation, fetch, worker, dispatched, closings, unseen,
                     faults, starts>>
  BY DEF StopDone, StopUnchanged, events
<1>2. Typed /\ Control /\ Fits /\ Traced /\ Placed /\ Woken
  BY DEF SubInv
<1>3. \A w \in Worker : worker[w].pc \notin InHandPCs /\ worker[w].buffer = <<>>
  BY <1>1, <1>2 DEF Typed, Shaped, InHandPCs
<1>4. /\ Cardinality(HandsOf(worker)) = 0 /\ Cardinality(SlotsOf(worker)) = 0
  BY <1>2, <1>3, NothingCounts DEF Typed
<1>5. HeldRows = {} /\ fetch.got = <<>>
  <2>1. HeldCount = 0
    BY <1>4 DEF HeldCount
  <2> QED
    BY <1>1, <1>2, <2>1, NothingHeld DEF Fits
<1>6. /\ stop' \in [pc: {"idle", "lock", "join", "gather"}, clean: BOOLEAN]
      /\ stop'.pc = "idle" /\ stop'.clean = stop.clean
  BY <1>1, <1>2 DEF Typed
<1>7. /\ HeldRows' = HeldRows
      /\ \A v \in Worker : HeldBy(v)' = HeldBy(v) /\ Buffered(v)' = Buffered(v)
                           /\ InHand(v)' = InHand(v)
  BY <1>1 DEF HeldRows, HeldBy, Buffered, InHand
<1>8. TableSound' /\ claims' = claims
  BY <1>1, SameTable
<1>9. Typed'
  <2>1. (\A w \in Worker : Shaped(worker[w]))'
    BY <1>1, <1>2 DEF Typed, Shaped
  <2> QED
    BY <1>1, <1>2, <1>6, <2>1, EmptyHolds DEF Typed
<1>10. Control'
  BY <1>1, <1>2, <1>6 DEF Control
<1>11. Fits'
  BY <1>1, <1>5, EmptyHolds, SubscriberAssumption DEF Fits
<1>12. TasksBalanced'
  <2>1. HeldCount' = 0
    BY <1>1, <1>4 DEF HeldCount, HandsOf, SlotsOf
  <2>2. unfinished' = Len(inflight') + HeldCount' /\ inflight' \in Seq(Item)
    BY <1>1, <2>1, EmptyHolds
  <2>3. (worker \in [Worker -> WorkerType] /\ inflight \in Seq(Item) =>
           /\ HeldCount \in Nat
           /\ TasksBalanced <=> unfinished = Len(inflight) + HeldCount)'
    BY Balanced, PTL
  <2> QED
    BY <1>9, <2>2, <2>3 DEF Typed
<1>13. DrainLeavesNothing' /\ Woken'
  BY <1>1, <1>6 DEF DrainLeavesNothing, Woken, RoomWakesFetch
<1>14. Placed'
  BY <1>1, <1>2, <1>5, <1>7, EmptyHolds DEF Placed
<1>15. Traced'
  BY <1>1, <1>2, <1>5, <1>6, <1>7, <1>8, EmptyHolds DEF Traced, EventsPaired
<1> QED
  BY <1>8, <1>9, <1>10, <1>11, <1>12, <1>13, <1>14, <1>15 DEF SubInv

-----------------------------------------------------------------------------
(* The invariant holds. *)

\* Before the first start nothing is in memory.
LEMMA InitHolds == Init => SubInv
<1> SUFFICES ASSUME Init
             PROVE  SubInv
  OBVIOUS
<1>1. /\ place = [r \in Row |-> "unborn"] /\ claims = [r \in Row |-> 0]
      /\ lease = [r \in Row |-> 0] /\ expired = {}
      /\ notice = FALSE /\ running = FALSE /\ stopping = FALSE /\ notify = FALSE
      /\ generation = 0 /\ inflight = <<>> /\ unfinished = 0
      /\ fetch = IdleFetch("done") /\ worker = [w \in Worker |-> IdleWorker("done")]
      /\ stop = [pc |-> "idle", clean |-> TRUE] /\ dispatched = {}
      /\ closings = [i \in Item |-> 0] /\ unseen = {} /\ faults = 0 /\ starts = 0
  BY DEF Init
<1>2. /\ MaxClaims \in Nat \ {0} /\ MaxFaults \in Nat /\ MaxStarts \in Nat
      /\ InflightMax \in Nat \ {0} /\ FlushBatch \in Nat \ {0}
  BY SubscriberAssumption
<1>3. fetch \in FetchType /\ fetch.pc = "done" /\ fetch.got = <<>>
  <2>1. 0 \in 0..InflightMax /\ <<>> \in Seq(Item)
    BY <1>2
  <2> QED
    BY <1>1, <2>1 DEF IdleFetch, FetchType, FetchStates
<1>4. /\ worker \in [Worker -> WorkerType] /\ \A w \in Worker : Shaped(worker[w])
      /\ \A w \in Worker : worker[w].pc = "done" /\ worker[w].buffer = <<>>
  <2> DEFINE rec == [pc |-> "done", item |-> NoItem, kind |-> "none", buffer |-> <<>>, gen |-> 0]
  <2>1. IdleWorker("done") = rec
    BY IdleRecords
  <2>2. "done" \in WorkerStates \ InHandPCs
    BY DEF WorkerStates, InHandPCs
  <2>3. 0 \in 0..MaxFaults /\ <<>> \in Seq(Item) /\ Len(<<>>) <= FlushBatch
    BY <1>2, EmptyHolds
  <2>4. Shaped(rec)
    BY <2>2, <2>3, IdleShaped
  <2>5. rec.pc = "done" /\ rec.buffer = <<>>
    OBVIOUS
  <2> HIDE DEF rec
  <2> QED
    BY <1>1, <2>1, <2>4, <2>5 DEF Shaped
<1>5. Typed
  <2>1. inflight \in Seq(Item) /\ generation \in 0..faults /\ faults \in 0..MaxFaults
        /\ starts \in 0..MaxStarts /\ unfinished \in Int
    BY <1>1, <1>2
  <2> QED
    BY <1>1, <1>3, <1>4, <2>1 DEF Typed
<1>6. TableSound
  BY <1>1, <1>2 DEF TableSound
<1>7. Control
  BY <1>1, <1>3, <1>4 DEF Control
<1>8. Fits
  BY <1>1, <1>2, <1>3, EmptyHolds DEF Fits
<1>9. /\ \A w \in Worker : HeldBy(w) = {} /\ Buffered(w) = {} /\ ~InHand(w)
      /\ HeldRows = {}
  BY <1>4, EmptyHolds DEF HeldRows, HeldBy, Buffered, InHand
<1>10. TasksBalanced
  <2>1. Cardinality(HandsOf(worker)) = 0 /\ Cardinality(SlotsOf(worker)) = 0
    BY <1>4, NothingCounts DEF InHandPCs
  <2>2. unfinished = Len(inflight) + HeldCount
    BY <1>1, <2>1, EmptyHolds DEF HeldCount
  <2> QED
    BY <1>5, <2>2, Balanced DEF Typed
<1>11. DrainLeavesNothing /\ Woken
  BY <1>1, <1>3 DEF DrainLeavesNothing, Woken, RoomWakesFetch
<1>12. Placed
  BY <1>1, <1>3, <1>4, <1>9, EmptyHolds DEF Placed
<1>13. Traced
  BY <1>1, <1>3, EmptyHolds DEF Traced, EventsPaired
<1> QED
  BY <1>5, <1>6, <1>7, <1>8, <1>10, <1>11, <1>12, <1>13 DEF SubInv

\* A step that changes no variable.
LEMMA StuttersKeep ==
    ASSUME SubInv, UNCHANGED vars
    PROVE  SubInv'
<1>1. UNCHANGED <<table, notice, generation, fetch, worker, dispatched, closings, unseen,
                  faults, starts, inflight, unfinished>>
  BY DEF vars, table
<1>2. UNCHANGED <<running, stopping, notify, stop>>
  BY DEF vars
<1>3. Typed /\ Control /\ DrainLeavesNothing
  BY DEF SubInv
<1>4. Control'
  BY <1>1, <1>2, <1>3 DEF Control, ClaimLocked
<1>5. DrainLeavesNothing'
  BY <1>1, <1>2, <1>3 DEF DrainLeavesNothing, ClaimLocked, HeldRows, HeldBy, Buffered, InHand
<1>6. /\ stop' \in [pc: {"idle", "lock", "join", "gather"}, clean: BOOLEAN]
      /\ running' \in BOOLEAN /\ stopping' \in BOOLEAN /\ notify' \in BOOLEAN
  BY <1>2, <1>3 DEF Typed
<1> QED
  BY <1>1, <1>2, <1>4, <1>5, <1>6, StopKeeps

\* No step breaks the invariant.
LEMMA InvariantKept == SubInv /\ [Next]_vars => SubInv'
<1> SUFFICES ASSUME SubInv, [Next]_vars
             PROVE  SubInv'
  OBVIOUS
<1>1. CASE Lifecycle
  BY <1>1, StartKeeps, StopBeginsKeeps, DrainEndsKeeps, StopDoneKeeps, CrashKeeps DEF Lifecycle
<1> QED
  BY <1>1, DatabaseKeeps, FetchingKeeps, WorkingKeeps, StuttersKeep DEF Next

\* The invariant holds in every reachable state.
THEOREM MemoryAccounted == Spec => []SubInv
  BY InitHolds, InvariantKept, PTL DEF Spec

\* Every variable has its type, a worker has a row exactly while it handles or
\* writes one, and no buffer exceeds terminal_flush_batch_size
\* (_worker_inner, _flush_buffer in subscriber/usecase.py).
THEOREM SubscriberTypeCorrect == Spec => []TypeOK
<1>1. SubInv => TypeOK
  <2> SUFFICES ASSUME SubInv
               PROVE  TypeOK
    OBVIOUS
  <2>1. Typed /\ TableSound /\ TasksBalanced
    BY DEF SubInv
  <2>2. unfinished \in Nat
    <3>1. HeldCount \in Nat /\ unfinished = Len(inflight) + HeldCount
      BY <2>1, FetchRecord, Balanced DEF Typed
    <3> QED
      BY <3>1, FetchRecord
  <2>3. /\ ToSet(inflight) \subseteq Item /\ ToSet(fetch.got) \subseteq Item
        /\ fetch.pc \in FetchStates /\ fetch.free \in 0..InflightMax
    BY FetchRecord, LenProperties DEF ToSet
  <2>4. \A w \in Worker :
          /\ worker[w].pc \in WorkerStates
          /\ worker[w].item \in Item \cup {NoItem}
          /\ worker[w].item \in Item <=> InHand(w)
          /\ ToSet(worker[w].buffer) \subseteq Item
          /\ Len(worker[w].buffer) <= FlushBatch
          /\ worker[w].gen \in 0..MaxFaults
    <3> SUFFICES ASSUME NEW w \in Worker
                 PROVE  /\ worker[w].pc \in WorkerStates
                        /\ worker[w].item \in Item \cup {NoItem}
                        /\ worker[w].item \in Item <=> InHand(w)
                        /\ ToSet(worker[w].buffer) \subseteq Item
                        /\ Len(worker[w].buffer) <= FlushBatch
                        /\ worker[w].gen \in 0..MaxFaults
      OBVIOUS
    <3>1. worker[w] \in WorkerType /\ Shaped(worker[w]) /\ worker[w].buffer \in Seq(Item)
          /\ worker[w].pc \in WorkerStates /\ worker[w].gen \in 0..MaxFaults
          /\ Len(worker[w].buffer) <= FlushBatch
      BY Records
    <3>2. ToSet(worker[w].buffer) \subseteq Item
      BY <3>1, LenProperties DEF ToSet
    <3>3. worker[w].item \in Item \cup {NoItem}
      BY <3>1 DEF WorkerType
    <3>4. worker[w].item \in Item <=> InHand(w)
      BY <3>1 DEF Shaped, InHand, InHandPCs
    <3> QED
      BY <3>1, <3>2, <3>3, <3>4
  <2>5. /\ stop.pc \in {"idle", "lock", "join", "gather"} /\ stop.clean \in BOOLEAN
        /\ generation \in 0..MaxFaults
    BY <2>1, SubscriberAssumption DEF Typed
  <2>6. {notice, running, stopping, notify, stop.clean} \subseteq BOOLEAN
    BY <2>1, <2>5 DEF Typed
  <2> QED
    BY <2>1, <2>2, <2>3, <2>4, <2>5, <2>6 DEF TypeOK, Typed, TableSound
<1> QED
  BY <1>1, MemoryAccounted, PTL

\* put_nowait never raises QueueFull: not where a reply joins the queue, nor
\* where a worker with a stale connection puts a row back (InflightFits).
THEOREM QueueNeverOverflows == Spec => []InflightFits
<1>1. SubInv => InflightFits
  BY DEF SubInv, Fits, InflightFits
<1> QED
  BY <1>1, MemoryAccounted, PTL

\* join() waits for exactly the rows that are queued, in hand or buffered: each
\* path of a worker does one task_done for each row it ends (TasksBalanced).
THEOREM JoinCountsRows == Spec => []TasksBalanced
<1>1. SubInv => TasksBalanced
  BY DEF SubInv
<1> QED
  BY <1>1, MemoryAccounted, PTL

\* A stop() that drained without its timeout leaves nothing in memory for
\* _reset_inflight to throw away (DrainLeavesNothing).
THEOREM CleanDrainIsClean == Spec => []DrainLeavesNothing
<1>1. SubInv => DrainLeavesNothing
  BY DEF SubInv
<1> QED
  BY <1>1, MemoryAccounted, PTL

\* A NOTIFY between the claim and the idle wait is not lost (NoLostWakeup).
THEOREM NotifyNotLost == Spec => []NoLostWakeup
<1>1. SubInv => NoLostWakeup
  BY DEF SubInv, Woken, NoLostWakeup
<1> QED
  BY <1>1, MemoryAccounted, PTL

\* A fetch loop that waits for room is woken by the worker that makes it
\* (RoomWakesFetch).
THEOREM RoomIsNoticed == Spec => []RoomWakesFetch
<1>1. SubInv => RoomWakesFetch
  BY DEF SubInv, Woken
<1> QED
  BY <1>1, MemoryAccounted, PTL

\* Every dispatched event is closed once the row leaves its worker, and never
\* twice, until a drain times out (EventsPaired).
THEOREM EventsPairUp == Spec => []EventsPaired
<1>1. SubInv => EventsPaired
  BY DEF SubInv, Traced
<1> QED
  BY <1>1, MemoryAccounted, PTL
=============================================================================
