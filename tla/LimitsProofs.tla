---------------------------- MODULE LimitsProofs ----------------------------
(***************************************************************************)
(* Proofs about the limits a worker runs within.  First the slots of the   *)
(* pool: ConnectionPool, for every number of loops and sessions.  Then the *)
(* time of a lease: BufferAge, for every size of buffer and queue and      *)
(* every length of lease, dispatch, reply and delete.  Last the delays and *)
(* budgets of the retries: RetryDelay, for every strategy and all limits.  *)
(***************************************************************************)
EXTENDS ConnectionPool, Integers, Sequences, SequenceTheorems, FiniteSetTheorems, TLAPS
-----------------------------------------------------------------------------
\* The slots of the pool.

\* A slot is held by a loop that is connecting or serving, one per holder; a
\* loop of a stopped broker does nothing.
HeldInUse == \A held \in slots : pc[held[1]] \in {"connecting", "serving"}
HeldOnce == \A held, other \in slots : held[1] = other[1] => held = other
DownIsOff == phase = "down" => \A t \in Loops : pc[t] = "off"

PoolInv == TypeOK /\ HeldInUse /\ HeldOnce /\ DownIsOff

Holder == Loops \cup Sessions
-----------------------------------------------------------------------------
\* The set of slots is finite, and so are the holders.
LEMMA SlotsFinite ==
    ASSUME TypeOK
    PROVE  /\ IsFiniteSet(slots) /\ Cardinality(slots) \in Nat
           /\ IsFiniteSet(Holder)
           /\ Cardinality(Holder) = Needed + Cardinality(Sessions)
           /\ Needed \in Nat /\ Cardinality(Sessions) \in Nat
<1>1. /\ IsFiniteSet(Fetchers) /\ IsFiniteSet(Workers) /\ IsFiniteSet(Sessions)
      /\ Cardinality(Fetchers) \in Nat /\ Cardinality(Workers) \in Nat
      /\ Cardinality(Sessions) \in Nat
  BY PoolAssumption, FS_CardinalityType
<1>2. /\ IsFiniteSet(Loops)
      /\ Cardinality(Loops) = Cardinality(Fetchers) + Cardinality(Workers)
  <2>1. Fetchers \cap Workers = {}
    BY PoolAssumption
  <2>2. /\ IsFiniteSet(Loops)
        /\ Cardinality(Loops)
             = Cardinality(Fetchers) + Cardinality(Workers) - Cardinality({})
    BY <1>1, <2>1, FS_Union DEF Loops
  <2> QED
    BY <1>1, <2>2, FS_EmptySet
<1>3. /\ IsFiniteSet(Holder)
      /\ Cardinality(Holder) = Cardinality(Loops) + Cardinality(Sessions)
  <2>1. Loops \cap Sessions = {}
    BY PoolAssumption DEF Loops
  <2>2. /\ IsFiniteSet(Holder)
        /\ Cardinality(Holder)
             = Cardinality(Loops) + Cardinality(Sessions) - Cardinality({})
    BY <1>1, <1>2, <2>1, FS_Union DEF Holder
  <2> QED
    BY <1>1, <1>2, <2>2, FS_EmptySet
<1>4. IsFiniteSet(slots)
  <2>1. IsFiniteSet(Use)
    <3>1. IsFiniteSet({"listen"}) /\ IsFiniteSet({"fetch"}) /\ IsFiniteSet({"write"})
      BY FS_Singleton
    <3>2. IsFiniteSet({"session"})
      BY FS_Singleton
    <3>3. Use = (({"listen"} \cup {"fetch"}) \cup {"write"}) \cup {"session"}
      BY DEF Use
    <3> QED
      BY <3>1, <3>2, <3>3, FS_Union
  <2>2. IsFiniteSet(Holder \X Use)
    BY <1>3, <2>1, FS_Product
  <2>3. slots \in SUBSET (Holder \X Use)
    BY DEF TypeOK, Holder
  <2> QED
    BY <2>2, <2>3, FS_Subset
<1> QED
  BY <1>1, <1>2, <1>3, <1>4, FS_CardinalityType DEF Needed

\* A checkout by one that holds nothing keeps the invariant's parts.
LEMMA CheckOutKeeps ==
    ASSUME TypeOK, HeldInUse, HeldOnce,
           NEW t \in Holder, NEW use \in Use, NEW next \in {"connecting", "serving"},
           pc[t] \notin {"connecting", "serving"},
           CheckOut(t, use, next), capacity' = capacity
    PROVE  /\ slots' \subseteq Holder \X Use
           /\ Cardinality(slots') =< capacity'
           /\ HeldInUse' /\ HeldOnce'
<1>1. /\ slots' = slots \cup {<<t, use>>}
      /\ pc' = [pc EXCEPT ![t] = next]
      /\ Cardinality(slots) < capacity
  BY DEF CheckOut, Free
<1>2. slots \subseteq Holder \X Use /\ DOMAIN pc = Holder /\ capacity \in Nat
  BY PoolAssumption DEF TypeOK, Holder
<1>3. \A held \in slots : held[1] # t /\ held[1] \in Holder
  BY <1>2 DEF HeldInUse
<1>4. Cardinality(slots') =< capacity'
  <2>1. Cardinality(slots') =< Cardinality(slots) + 1
    <3>1. IsFiniteSet(slots) /\ Cardinality(slots) \in Nat
      BY SlotsFinite
    <3>2. Cardinality(slots \cup {<<t, use>>})
            = IF <<t, use>> \in slots THEN Cardinality(slots) ELSE Cardinality(slots) + 1
      BY <3>1, FS_AddElement
    <3> QED
      BY <1>1, <3>1, <3>2
  <2>2. Cardinality(slots) + 1 =< capacity
    BY <1>1, <1>2, SlotsFinite
  <2>3. IsFiniteSet(slots')
    BY <1>1, SlotsFinite, FS_AddElement
  <2> QED
    BY <1>2, <2>1, <2>2, <2>3, SlotsFinite, FS_CardinalityType
<1>5. HeldInUse'
  BY <1>1, <1>2, <1>3 DEF HeldInUse
<1>6. HeldOnce'
  BY <1>1, <1>3 DEF HeldOnce
<1> QED
  BY <1>1, <1>2, <1>4, <1>5, <1>6

\* A release keeps them too, whatever the holder does next.
LEMMA ReleaseKeeps ==
    ASSUME TypeOK, HeldInUse, HeldOnce, NEW t \in Holder, NEW next,
           Release(t, next), capacity' = capacity
    PROVE  /\ slots' \subseteq Holder \X Use
           /\ Cardinality(slots') =< capacity'
           /\ HeldInUse' /\ HeldOnce'
<1>1. /\ slots' = {held \in slots : held[1] # t}
      /\ pc' = [pc EXCEPT ![t] = next]
  BY DEF Release
<1>2. slots' \in SUBSET slots
  BY <1>1
<1>3. slots \subseteq Holder \X Use /\ DOMAIN pc = Holder /\ capacity \in Nat
      /\ Cardinality(slots) =< capacity
  BY PoolAssumption DEF TypeOK, Holder
<1>4. Cardinality(slots') =< capacity'
  <2>1. IsFiniteSet(slots') /\ Cardinality(slots') =< Cardinality(slots)
    BY <1>2, SlotsFinite, FS_Subset
  <2>2. Cardinality(slots') \in Nat
    BY <2>1, FS_CardinalityType
  <2> QED
    BY <1>3, <2>1, <2>2, SlotsFinite
<1>5. HeldInUse'
  BY <1>1, <1>3 DEF HeldInUse
<1>6. HeldOnce'
  BY <1>2 DEF HeldOnce
<1> QED
  BY <1>2, <1>3, <1>4, <1>5, <1>6

\* A step that moves no slot and no holder keeps them.
LEMMA SameSlotsKeep ==
    ASSUME TypeOK, HeldInUse, HeldOnce, slots' = slots, capacity' = capacity,
           \A held \in slots : pc'[held[1]] = pc[held[1]]
    PROVE  /\ slots' \subseteq Holder \X Use
           /\ Cardinality(slots') =< capacity'
           /\ HeldInUse' /\ HeldOnce'
BY DEF TypeOK, Holder, HeldInUse, HeldOnce
-----------------------------------------------------------------------------
\* The invariant holds of a broker that has not started.
LEMMA InitPool == Init => PoolInv
<1> SUFFICES ASSUME Init PROVE PoolInv
  OBVIOUS
<1>1. Cardinality(slots) =< capacity
  BY PoolAssumption, FS_EmptySet DEF Init
<1>2. TypeOK
  BY <1>1, PoolAssumption DEF Init, TypeOK
<1>3. HeldInUse /\ HeldOnce /\ DownIsOff
  BY DEF Init, HeldInUse, HeldOnce, DownIsOff, Loops
<1> QED
  BY <1>2, <1>3 DEF PoolInv

\* Every step keeps it: what loops and sessions check out and give back, what
\* start() and stop() do, and every fault.
LEMMA NextPool == PoolInv /\ [Next]_vars => PoolInv'
<1> SUFFICES ASSUME PoolInv, [Next]_vars PROVE PoolInv'
  OBVIOUS
<1> DEFINE State == {"off", "open", "connecting", "subscribing", "want", "serving"}
           Parts == /\ slots' \subseteq Holder \X Use
                    /\ Cardinality(slots') =< capacity'
                    /\ HeldInUse' /\ HeldOnce'
           Rest == /\ capacity' \in Capacities
                   /\ phase' \in {"down", "up", "stopping"}
                   /\ pc' \in [Holder -> State]
                   /\ listening' \subseteq Fetchers
                   /\ faults' \in 0 .. MaxFaults
                   /\ DownIsOff'
<1>t. TypeOK /\ HeldInUse /\ HeldOnce /\ DownIsOff
  BY DEF PoolInv
<1>u. /\ capacity \in Capacities /\ phase \in {"down", "up", "stopping"}
      /\ pc \in [Holder -> State] /\ listening \subseteq Fetchers
      /\ faults \in 0 .. MaxFaults /\ slots \subseteq Holder \X Use
  BY <1>t DEF TypeOK, Holder
<1>v. Fetchers \subseteq Holder /\ Workers \subseteq Holder /\ Loops \subseteq Holder
      /\ Sessions \subseteq Holder /\ Fetchers \subseteq Loops /\ Workers \subseteq Loops
  BY DEF Holder, Loops
<1>w. Sessions \cap Loops = {}
  BY PoolAssumption DEF Loops
<1>f. ASSUME Fault PROVE faults' \in 0 .. MaxFaults
  BY <1>f, <1>u, PoolAssumption DEF Fault
<1> HIDE DEF Parts, Rest
<1>q. ASSUME Parts, Rest PROVE PoolInv'
  BY <1>q DEF Parts, Rest, PoolInv, TypeOK, Holder
<1>1. CASE Start
  <2>1. \A held \in slots : pc'[held[1]] = pc[held[1]]
    <3>1. \A held \in slots : held[1] \in Holder /\ held[1] \notin Loops
      BY <1>1, <1>t, <1>u DEF Start, HeldInUse, DownIsOff
    <3> QED
      BY <3>1, <1>1, <1>u DEF Start
  <2>2. Parts
    BY <1>1, <1>t, <2>1, SameSlotsKeep DEF Start, Parts
  <2>3. pc' \in [Holder -> State]
    BY <1>1, <1>u DEF Start
  <2>4. Rest
    BY <1>1, <1>u, <2>3 DEF Start, Rest, DownIsOff
  <2> QED
    BY <2>2, <2>4, <1>q
<1>2. CASE Stop \/ Stopped
  <2>1. Parts
    BY <1>2, <1>t, SameSlotsKeep DEF Stop, Stopped, Parts
  <2>2. Rest
    BY <1>2, <1>u DEF Stop, Stopped, Rest, DownIsOff
  <2> QED
    BY <2>1, <2>2, <1>q
<1>3. ASSUME NEW f \in Fetchers, Fetcher(f) PROVE PoolInv'
  <2>0. f \in Holder /\ f \in Loops
    BY <1>v
  <2>1. CASE OpenListen(f)
    <3>1. Parts
      <4>1. CheckOut(f, "listen", "connecting") /\ pc[f] = "open" /\ capacity' = capacity
        BY <2>1 DEF OpenListen
      <4> QED
        BY <4>1, <2>0, <1>t, CheckOutKeeps DEF Parts, Use
    <3>2. Rest
      BY <2>1, <1>u DEF OpenListen, CheckOut, Rest, DownIsOff
    <3> QED
      BY <3>1, <3>2, <1>q
  <2>2. CASE ListenRefused(f)
    <3>1. Parts
      BY <2>2, <2>0, <1>t, ReleaseKeeps DEF ListenRefused, Parts
    <3>2. phase # "down"
      BY <2>2, <2>0, <1>t DEF ListenRefused, DownIsOff
    <3>3. Rest
      BY <2>2, <1>u, <3>2, <1>f DEF ListenRefused, Release, Rest, DownIsOff
    <3> QED
      BY <3>1, <3>3, <1>q
  <2>3. CASE DetachListen(f)
    <3>1. Parts
      BY <2>3, <2>0, <1>t, ReleaseKeeps DEF DetachListen, Parts
    <3>2. phase # "down"
      BY <2>3, <2>0, <1>t DEF DetachListen, DownIsOff
    <3>3. Rest
      BY <2>3, <1>u, <3>2 DEF DetachListen, Release, Rest, DownIsOff
    <3> QED
      BY <3>1, <3>3, <1>q
  <2>4. CASE Subscribe(f)
    <3>1. \A held \in slots : held[1] # f
      BY <2>4, <1>t DEF Subscribe, HeldInUse
    <3>2. \A held \in slots : pc'[held[1]] = pc[held[1]]
      BY <2>4, <3>1, <1>u DEF Subscribe
    <3>3. Parts
      BY <2>4, <3>2, <1>t, SameSlotsKeep DEF Subscribe, Parts
    <3>4. phase # "down"
      BY <2>4, <2>0, <1>t DEF Subscribe, DownIsOff
    <3>5. Rest
      BY <2>4, <1>u, <3>4, <1>f DEF Subscribe, Rest, DownIsOff
    <3> QED
      BY <3>3, <3>5, <1>q
  <2>5. CASE OpenFetch(f)
    <3>1. Parts
      <4>1. CheckOut(f, "fetch", "serving") /\ pc[f] = "want" /\ capacity' = capacity
        BY <2>5 DEF OpenFetch
      <4> QED
        BY <4>1, <2>0, <1>t, CheckOutKeeps DEF Parts, Use
    <3>2. Rest
      BY <2>5, <1>u DEF OpenFetch, CheckOut, Rest, DownIsOff
    <3> QED
      BY <3>1, <3>2, <1>q
  <2> QED
    BY <1>3, <2>1, <2>2, <2>3, <2>4, <2>5 DEF Fetcher
<1>4. ASSUME NEW w \in Workers, OpenWriter(w) PROVE PoolInv'
  <2>1. Parts
    <3>1. CheckOut(w, "write", "serving") /\ pc[w] = "open" /\ capacity' = capacity
      BY <1>4 DEF OpenWriter
    <3> QED
      BY <3>1, <1>v, <1>t, CheckOutKeeps DEF Parts, Use
  <2>2. Rest
    BY <1>4, <1>u DEF OpenWriter, CheckOut, Rest, DownIsOff
  <2> QED
    BY <2>1, <2>2, <1>q
<1>5. ASSUME NEW t \in Loops, LoopFails(t) \/ Unwind(t) PROVE PoolInv'
  <2>1. Parts
    BY <1>5, <1>v, <1>t, ReleaseKeeps DEF LoopFails, Unwind, Parts
  <2>2. phase # "down"
    BY <1>5, <1>t DEF LoopFails, Unwind, DownIsOff
  <2>3. faults' \in 0 .. MaxFaults
    BY <1>5, <1>f, <1>u DEF LoopFails, Unwind
  <2>4. pc' \in [Holder -> State]
    BY <1>5, <1>u DEF LoopFails, Unwind, Release
  <2>5. Rest
    BY <1>5, <1>u, <2>2, <2>3, <2>4 DEF LoopFails, Unwind, Rest, DownIsOff
  <2> QED
    BY <2>1, <2>5, <1>q
<1>6. ASSUME NEW a \in Sessions, Ask(a) \/ Connect(a) \/ Close(a) PROVE PoolInv'
  <2>0. a \in Holder /\ a \notin Loops
    BY <1>v, <1>w
  <2>1. CASE Ask(a)
    <3>1. \A held \in slots : pc'[held[1]] = pc[held[1]]
      BY <2>1, <1>u, <1>t DEF Ask, HeldInUse
    <3>2. Parts
      BY <2>1, <3>1, <1>t, SameSlotsKeep DEF Ask, Parts
    <3>3. Rest
      BY <2>1, <2>0, <1>u, <1>t DEF Ask, Rest, DownIsOff
    <3> QED
      BY <3>2, <3>3, <1>q
  <2>2. CASE Connect(a)
    <3>1. Parts
      <4>1. CheckOut(a, "session", "serving") /\ pc[a] = "want" /\ capacity' = capacity
        BY <2>2 DEF Connect
      <4> QED
        BY <4>1, <2>0, <1>t, CheckOutKeeps DEF Parts, Use
    <3>2. Rest
      BY <2>2, <2>0, <1>u, <1>t DEF Connect, CheckOut, Rest, DownIsOff
    <3> QED
      BY <3>1, <3>2, <1>q
  <2>3. CASE Close(a)
    <3>1. Parts
      BY <2>3, <2>0, <1>t, ReleaseKeeps DEF Close, Parts
    <3>2. Rest
      BY <2>3, <2>0, <1>u, <1>t DEF Close, Release, Rest, DownIsOff
    <3> QED
      BY <3>1, <3>2, <1>q
  <2> QED
    BY <1>6, <2>1, <2>2, <2>3
<1>7. CASE UNCHANGED vars
  <2>1. Parts
    BY <1>7, <1>t, SameSlotsKeep DEF vars, Parts
  <2>2. Rest
    BY <1>7, <1>u, <1>t DEF vars, Rest, DownIsOff
  <2> QED
    BY <2>1, <2>2, <1>q
<1> QED
  BY <1>1, <1>2, <1>3, <1>4, <1>5, <1>6, <1>7 DEF Next

\* The slots are those of other holders, one each, so one is left.
LEMMA PoolInvFree == PoolInv => NeverWaits /\ OneSlotEach
<1> SUFFICES ASSUME PoolInv PROVE NeverWaits /\ OneSlotEach
  OBVIOUS
<1>1. TypeOK /\ HeldInUse /\ HeldOnce /\ DownIsOff
  BY DEF PoolInv
<1>2. slots \subseteq Holder \X Use
  BY <1>1 DEF TypeOK, Holder
<1>3. NeverWaits
  <2> SUFFICES ASSUME NEW t \in Holder, Wants(t),
                      Needed + Cardinality(Sessions) =< capacity
               PROVE  Cardinality(slots) < capacity
    BY DEF NeverWaits, Holder, Free
  <2>1. pc[t] \notin {"connecting", "serving"}
    BY DEF Wants
  <2> DEFINE Others == Holder \ {t}
             holder == [held \in slots |-> held[1]]
  <2>2. \A held \in slots : held[1] \in Others
    BY <1>1, <1>2, <2>1 DEF HeldInUse
  <2>3. holder \in Injection(slots, Others)
    BY <2>2, <1>1 DEF Injection, IsInjective, HeldOnce
  <2>4. IsFiniteSet(Others) /\ Cardinality(Others) = Cardinality(Holder) - 1
    BY <1>1, SlotsFinite, FS_RemoveElement
  <2>5. Cardinality(slots) =< Cardinality(Others)
    <3> HIDE DEF holder, Others
    <3> QED
      BY <2>3, <2>4, FS_Injection
  <2>6. capacity \in Nat
    BY <1>1, PoolAssumption DEF TypeOK
  <2> HIDE DEF Others
  <2> QED
    BY <1>1, <2>4, <2>5, <2>6, SlotsFinite
<1>4. OneSlotEach
  <2>1. phase = "down" => \A held \in slots : held[1] \in Sessions
    BY <1>1, <1>2 DEF HeldInUse, DownIsOff, Holder
  <2> QED
    BY <1>1, <2>1 DEF OneSlotEach, HeldOnce
<1> QED
  BY <1>3, <1>4

\* The parts above hold in every state of the pool.
THEOREM PoolInvariant == Spec => []PoolInv
BY InitPool, NextPool, PTL DEF Spec

\* The pool never hands out more than it has, and its users keep their types.
THEOREM PoolTypes == Spec => []TypeOK
<1>1. PoolInv => TypeOK
  BY DEF PoolInv
<1> QED
  BY <1>1, PoolInvariant, PTL

\* With a pool of the size _check_pool_capacity asks for and room for the
\* application's sessions, no checkout ever waits, however many subscribers,
\* workers and faults.
THEOREM CheckoutsNeverWait == Spec => []NeverWaits
BY PoolInvFree, PoolInvariant, PTL

\* No loop holds a second slot, and stop() leaves none behind.
THEOREM SlotsAreReturned == Spec => []OneSlotEach
BY PoolInvFree, PoolInvariant, PTL
-----------------------------------------------------------------------------
\* The time of a lease.  The names are those of BufferAge, whose every constant
\* and variable this module declares anew.
CONSTANTS LeaseTtl, BatchSize, QueueSize, MaxReply, MaxDispatch, MaxFlush, MaxRecycles, MaxTime
VARIABLES now, queue, buffer, worker, current, recycles
Age == INSTANCE BufferAge

\* Half a lease, when the buffer is due, and the head of the buffer's claim.
Half == LeaseTtl \div 2
Oldest == buffer[1].row.claimed

\* Claims follow one another: a row behind another in the queue was claimed no
\* earlier, unless it was put back.
Follows(row, before) == ~row.moved => before.claimed =< row.claimed
InOrder ==
    /\ \A i, j \in DOMAIN queue : i < j => Follows(queue[j], queue[i])
    /\ worker.does = "dispatching" => \A j \in DOMAIN queue : Follows(queue[j], current)
    /\ buffer # << >> =>
          /\ \A j \in DOMAIN queue : Follows(queue[j], buffer[1].row)
          /\ \A j \in DOMAIN buffer : Follows(buffer[j].row, buffer[1].row)
          /\ worker.does = "dispatching" => Follows(current, buffer[1].row)

\* The client stamps a row after its lease has begun, by a reply at most.
Stamped(row) == row.claimed =< now /\ row.claimed =< row.leased + MaxReply
AllStamped ==
    /\ \A i \in DOMAIN queue : Stamped(queue[i])
    /\ worker.does = "dispatching" => Stamped(current)
    /\ \A i \in DOMAIN buffer : Stamped(buffer[i].row)

\* What is still to come before the delete, from the head of the buffer.
OnTime ==
    /\ worker.does # "idle" => now =< worker.until
    /\ worker.does # "flushing" => Len(buffer) < BatchSize
    /\ buffer # << >> =>
          /\ worker.does = "idle" => now < Oldest + Half
          /\ worker.does = "dispatching" => worker.until < Oldest + Half + MaxDispatch
          /\ worker.does = "flushing" =>
                \/ worker.until < Oldest + Half + MaxDispatch + MaxFlush
                \/ Len(buffer) = 1 /\ worker.until =< buffer[1].at + MaxFlush

\* The inductive invariant of a worker that batches its deletes.
BufferInv == Age!TypeOK /\ InOrder /\ AllStamped /\ OnTime
-----------------------------------------------------------------------------
\* The steps of the buffer.

\* What the types say of the rows, and of half a lease.
LEMMA BufferTypes ==
    ASSUME Age!Sizes, Age!TypeOK
    PROVE  /\ now \in Nat /\ Half \in Nat /\ LeaseTtl = Half + Half
           /\ MaxReply \in Nat /\ MaxDispatch \in Nat /\ MaxFlush \in Nat /\ MaxTime \in Nat
           /\ BatchSize \in Nat /\ BatchSize > 1 /\ LeaseTtl \in Nat
           /\ queue \in Seq(Age!ClaimedRow) /\ Len(queue) \in Nat /\ DOMAIN queue = 1 .. Len(queue)
           /\ \A i \in DOMAIN queue : queue[i] \in Age!ClaimedRow
           /\ Len(buffer) \in Nat /\ DOMAIN buffer = 1 .. Len(buffer)
           /\ \A i \in DOMAIN buffer : buffer[i] \in [row: Age!ClaimedRow, at: Age!Time]
           /\ worker.does \in {"idle", "dispatching", "flushing"} /\ worker.until \in Nat
           /\ current \in Age!ClaimedRow
<1>1. LeaseTtl \in Nat /\ LeaseTtl % 2 = 0
    BY DEF Age!Sizes
<1>2. Half \in Nat /\ LeaseTtl = Half + Half
    BY <1>1 DEF Half
<1>3. /\ MaxReply \in Nat /\ MaxDispatch \in Nat /\ MaxFlush \in Nat /\ MaxTime \in Nat
      /\ BatchSize \in Nat /\ BatchSize > 1
    BY DEF Age!Sizes
<1>4. /\ now \in Nat /\ worker.does \in {"idle", "dispatching", "flushing"}
      /\ worker.until \in Nat /\ current \in Age!ClaimedRow
    BY <1>3 DEF Age!TypeOK, Age!Time
<1>5. queue \in Seq(Age!ClaimedRow) /\ buffer \in Seq([row: Age!ClaimedRow, at: Age!Time])
    BY DEF Age!TypeOK
<1>6. /\ DOMAIN queue = 1 .. Len(queue) /\ Len(queue) \in Nat
      /\ DOMAIN buffer = 1 .. Len(buffer) /\ Len(buffer) \in Nat
    BY <1>5
<1>7. \A i \in DOMAIN queue : queue[i] \in Age!ClaimedRow
    BY <1>5, <1>6, ElementOfSeq
<1>8. \A i \in DOMAIN buffer : buffer[i] \in [row: Age!ClaimedRow, at: Age!Time]
    BY <1>5, <1>6, ElementOfSeq
<1> QED  BY <1>1, <1>2, <1>3, <1>4, <1>5, <1>6, <1>7, <1>8

\* A claimed row has a time of its claim, and of its lease.
LEMMA RowTimes ==
    ASSUME Age!Sizes, NEW row \in Age!ClaimedRow
    PROVE  row.claimed \in Nat /\ row.leased \in Nat /\ row.moved \in BOOLEAN
BY DEF Age!Sizes, Age!ClaimedRow, Age!Time

\* The worker is set to work for at most longest more ticks.
LEMMA BusyWorker ==
    ASSUME Age!Sizes, Age!TypeOK, NEW does \in {"dispatching", "flushing"},
           NEW longest \in Nat, longest =< MaxDispatch + MaxFlush,
           Age!Busy(does, longest)
    PROVE  /\ worker' \in [does: {"idle", "dispatching", "flushing"},
                           until: 0 .. MaxTime + MaxDispatch + MaxFlush]
           /\ worker'.does = does
           /\ now =< worker'.until /\ worker'.until =< now + longest
<1>1. PICK d \in 0 .. longest : worker' = [does |-> does, until |-> now + d]
    BY DEF Age!Busy
<1>2. now \in Nat /\ now =< MaxTime /\ MaxTime \in Nat /\ MaxDispatch \in Nat /\ MaxFlush \in Nat
    BY DEF Age!TypeOK, Age!Time, Age!Sizes
<1> QED  BY <1>1, <1>2

\* At first there is nothing to keep in order.
LEMMA BufferInit ==
    ASSUME Age!Sizes, Age!Init
    PROVE  BufferInv
<1>1. queue = << >> /\ buffer = << >> /\ now = 0 /\ worker.does = "idle"
    BY DEF Age!Init
<1>2. Age!TypeOK
  <2>1. current \in Age!ClaimedRow
      BY DEF Age!Init, Age!None, Age!ClaimedRow, Age!Time, Age!Sizes
  <2> QED  BY <2>1 DEF Age!Init, Age!TypeOK, Age!Time, Age!Sizes
<1>3. InOrder /\ AllStamped
    BY <1>1 DEF InOrder, AllStamped
<1>4. OnTime
    BY <1>1 DEF OnTime, Age!Sizes
<1> QED  BY <1>2, <1>3, <1>4 DEF BufferInv

\* Rows claimed now are behind all that are known.
LEMMA ClaimKeeps ==
    ASSUME Age!Sizes, BufferInv, Age!Claim
    PROVE  BufferInv'
<1> DEFINE fresh(lag) == [leased |-> now - lag, claimed |-> now, moved |-> FALSE]
<1>1. PICK count \in 1 .. QueueSize - Len(queue), lag \in 0 .. MaxReply :
          /\ lag =< now
          /\ queue' = queue \o [i \in 1 .. count |-> fresh(lag)]
          /\ UNCHANGED <<now, buffer, worker, current, recycles>>
    BY DEF Age!Claim
<1> DEFINE new == [i \in 1 .. count |-> fresh(lag)]
<1>2. Age!TypeOK /\ InOrder /\ AllStamped /\ OnTime
    BY DEF BufferInv
<1>3. /\ now \in 0 .. MaxTime /\ MaxTime \in Nat /\ MaxReply \in Nat
      /\ queue \in Seq(Age!ClaimedRow) /\ QueueSize \in Nat
    BY <1>2 DEF Age!TypeOK, Age!Time, Age!Sizes
<1>4. fresh(lag) \in Age!ClaimedRow
    BY <1>1, <1>3 DEF Age!ClaimedRow, Age!Time
<1>5. Len(queue) \in Nat /\ count \in Nat
    BY <1>1, <1>3
<1> HIDE DEF fresh
<1>6. new \in Seq(Age!ClaimedRow) /\ Len(new) = count
    BY <1>4, <1>5, IsASeq
<1>7. /\ queue' \in Seq(Age!ClaimedRow) /\ Len(queue') = Len(queue) + count
      /\ \A i \in DOMAIN queue' :
            \/ i \in DOMAIN queue /\ queue'[i] = queue[i]
            \/ i > Len(queue) /\ queue'[i] = fresh(lag)
  <2>1. queue' = queue \o new
      BY <1>1
  <2> HIDE DEF new
  <2>2. /\ queue' \in Seq(Age!ClaimedRow) /\ Len(queue') = Len(queue) + Len(new)
        /\ \A i \in 1 .. Len(queue) + Len(new) :
              queue'[i] = IF i =< Len(queue) THEN queue[i] ELSE new[i - Len(queue)]
      BY <1>3, <1>6, <2>1, ConcatProperties
  <2>3. \A i \in 1 .. count : new[i] = fresh(lag)
      BY DEF new
  <2>4. DOMAIN queue' = 1 .. Len(queue) + count /\ DOMAIN queue = 1 .. Len(queue)
      BY <1>3, <1>6, <2>2
  <2>5. ASSUME NEW i \in 1 .. Len(queue) + count
        PROVE  \/ i \in 1 .. Len(queue) /\ queue'[i] = queue[i]
               \/ i > Len(queue) /\ queue'[i] = fresh(lag)
    <3>1. queue'[i] = IF i =< Len(queue) THEN queue[i] ELSE new[i - Len(queue)]
        BY <1>6, <2>2
    <3>2. i > Len(queue) => i - Len(queue) \in 1 .. count
        BY <1>5
    <3>3. i > Len(queue) => new[i - Len(queue)] = fresh(lag)
        BY <2>3, <3>2
    <3> QED  BY <1>5, <3>1, <3>3
  <2> QED  BY <1>6, <2>2, <2>4, <2>5
<1> HIDE DEF new
<1>8. Age!TypeOK'
  <2>1. Len(queue') =< QueueSize
      BY <1>1, <1>3, <1>5, <1>7
  <2> QED  BY <1>1, <1>2, <1>7, <2>1 DEF Age!TypeOK, Age!Time, Age!ClaimedRow
<1>9. fresh(lag).claimed = now /\ now =< fresh(lag).leased + MaxReply /\ ~fresh(lag).moved
    BY <1>1, <1>3 DEF fresh
<1>10. AllStamped'
  <2>1. ASSUME NEW i \in DOMAIN queue'
        PROVE  Stamped(queue[i])'
    <3>1. CASE i \in DOMAIN queue /\ queue'[i] = queue[i]
        BY <1>1, <1>2, <3>1 DEF AllStamped, Stamped
    <3>2. CASE queue'[i] = fresh(lag)
        BY <1>1, <1>3, <1>9, <3>2 DEF Stamped
    <3> QED  BY <1>7, <3>1, <3>2
  <2> QED  BY <1>1, <1>2, <2>1 DEF AllStamped, Stamped
<1>11. InOrder'
  <2>1. ASSUME NEW row, Stamped(row), NEW i \in DOMAIN queue', i > Len(queue)
        PROVE  Follows(queue'[i], row)
      BY <1>3, <1>5, <1>7, <1>9, <2>1 DEF Stamped, Follows
  <2>2. ASSUME NEW row, Stamped(row),
               \A j \in DOMAIN queue : Follows(queue[j], row)
        PROVE  \A j \in DOMAIN queue' : Follows(queue'[j], row)
      BY <1>7, <2>1, <2>2
  <2>3. ASSUME NEW i \in DOMAIN queue', NEW j \in DOMAIN queue', i < j
        PROVE  Follows(queue'[j], queue'[i])
    <3>1. CASE j \in DOMAIN queue
      <4>1. i \in DOMAIN queue /\ queue'[i] = queue[i] /\ queue'[j] = queue[j]
          BY <1>3, <1>5, <1>7, <2>3, <3>1
      <4> QED  BY <1>2, <2>3, <3>1, <4>1 DEF InOrder
    <3>2. CASE j > Len(queue)
      <4>1. Stamped(queue'[i])
          BY <1>1, <1>10, <2>3 DEF AllStamped, Stamped
      <4> QED  BY <2>1, <2>3, <3>2, <4>1
    <3> QED  BY <1>7, <2>3, <3>1, <3>2
  <2>4. worker.does = "dispatching" => \A j \in DOMAIN queue' : Follows(queue'[j], current)
      BY <1>2, <2>2 DEF InOrder, AllStamped
  <2>5. buffer # << >> => \A j \in DOMAIN queue' : Follows(queue'[j], buffer[1].row)
    <3>1. ASSUME buffer # << >>
          PROVE  1 \in DOMAIN buffer
        BY <1>2, <3>1, BufferTypes DEF Age!TypeOK
    <3> QED  BY <1>2, <2>2, <3>1 DEF InOrder, AllStamped
  <2> QED  BY <1>1, <1>2, <2>3, <2>4, <2>5 DEF InOrder, Follows
<1>12. OnTime'
    BY <1>1, <1>2 DEF OnTime, Oldest
<1> QED  BY <1>8, <1>10, <1>11, <1>12 DEF BufferInv

\* Without its first row the queue keeps the others, in their order.
LEMMA TailOfQueue ==
    ASSUME Age!Sizes, BufferInv, queue # << >>
    PROVE  /\ 1 \in DOMAIN queue /\ Head(queue) = queue[1] /\ queue[1] \in Age!ClaimedRow
           /\ Tail(queue) \in Seq(Age!ClaimedRow) /\ Len(Tail(queue)) = Len(queue) - 1
           /\ \A i \in DOMAIN Tail(queue) :
                 i + 1 \in DOMAIN queue /\ i + 1 > 1 /\ Tail(queue)[i] = queue[i + 1]
           /\ \A i, j \in DOMAIN Tail(queue) : i < j => Follows(Tail(queue)[j], Tail(queue)[i])
           /\ \A i \in DOMAIN Tail(queue) : Stamped(Tail(queue)[i])
<1>1. Age!TypeOK /\ InOrder /\ AllStamped
    BY DEF BufferInv
<1>2. queue \in Seq(Age!ClaimedRow)
    BY <1>1 DEF Age!TypeOK
<1>3. /\ Tail(queue) \in Seq(Age!ClaimedRow) /\ Len(Tail(queue)) = Len(queue) - 1
      /\ \A i \in 1 .. Len(Tail(queue)) : Tail(queue)[i] = queue[i + 1]
    BY <1>2, HeadTailProperties
<1>4. Len(queue) \in Nat \ {0} /\ DOMAIN queue = 1 .. Len(queue) /\ Head(queue) = queue[1]
    BY <1>2
<1>5. 1 \in DOMAIN queue /\ queue[1] \in Age!ClaimedRow
    BY <1>2, <1>4, ElementOfSeq
<1>6. DOMAIN Tail(queue) = 1 .. Len(Tail(queue))
    BY <1>3
<1>7. \A i \in DOMAIN Tail(queue) :
          i + 1 \in DOMAIN queue /\ i + 1 > 1 /\ Tail(queue)[i] = queue[i + 1]
    BY <1>3, <1>4, <1>6
<1>8. ASSUME NEW i \in DOMAIN Tail(queue), NEW j \in DOMAIN Tail(queue), i < j
      PROVE  Follows(Tail(queue)[j], Tail(queue)[i])
  <2>1. i + 1 < j + 1
      BY <1>3, <1>4, <1>6, <1>8
  <2> QED  BY <1>1, <1>7, <2>1 DEF InOrder
<1>9. \A i \in DOMAIN Tail(queue) : Stamped(Tail(queue)[i])
    BY <1>1, <1>7 DEF AllStamped
<1> QED  BY <1>3, <1>4, <1>5, <1>7, <1>8, <1>9

\* A row another worker takes is no matter of this one.
LEMMA TakenByOtherKeeps ==
    ASSUME Age!Sizes, BufferInv, Age!TakenByOther
    PROVE  BufferInv'
<1>1. /\ queue # << >> /\ queue' = Tail(queue)
      /\ UNCHANGED <<now, buffer, worker, current, recycles>>
    BY DEF Age!TakenByOther
<1>2. Age!TypeOK /\ InOrder /\ AllStamped /\ OnTime
    BY DEF BufferInv
<1>3. Age!TypeOK'
  <2>1. queue' \in Seq(Age!ClaimedRow) /\ Len(queue') =< QueueSize
      BY <1>1, <1>2, TailOfQueue, BufferTypes DEF Age!TypeOK, Age!Sizes
  <2> QED  BY <1>1, <1>2, <2>1 DEF Age!TypeOK, Age!Time, Age!ClaimedRow
<1>4. InOrder'
    BY <1>1, <1>2, TailOfQueue DEF InOrder, Follows
<1>5. AllStamped'
    BY <1>1, <1>2, TailOfQueue DEF AllStamped, Stamped
<1>6. OnTime'
    BY <1>1, <1>2 DEF OnTime, Oldest
<1> QED  BY <1>3, <1>4, <1>5, <1>6 DEF BufferInv

\* The next row enters its dispatch: the first of the queue, so all follow it.
LEMMA TakeKeeps ==
    ASSUME Age!Sizes, BufferInv, Age!Take
    PROVE  BufferInv'
<1>1. /\ worker.does = "idle" /\ queue # << >>
      /\ current' = Head(queue) /\ queue' = Tail(queue)
      /\ Age!Busy("dispatching", MaxDispatch)
      /\ UNCHANGED <<now, buffer, recycles>>
    BY DEF Age!Take
<1>2. Age!TypeOK /\ InOrder /\ AllStamped /\ OnTime
    BY DEF BufferInv
<1>3. MaxDispatch \in Nat /\ MaxFlush \in Nat /\ MaxDispatch =< MaxDispatch + MaxFlush
    BY DEF Age!Sizes
<1>4. /\ worker' \in [does: {"idle", "dispatching", "flushing"},
                      until: 0 .. MaxTime + MaxDispatch + MaxFlush]
      /\ worker'.does = "dispatching"
      /\ now =< worker'.until /\ worker'.until =< now + MaxDispatch
    BY <1>1, <1>2, <1>3, BusyWorker
<1>5. Age!TypeOK'
  <2>1. queue' \in Seq(Age!ClaimedRow) /\ Len(queue') =< QueueSize
      BY <1>1, <1>2, TailOfQueue, BufferTypes DEF Age!TypeOK, Age!Sizes
  <2>2. current' \in Age!ClaimedRow
      BY <1>1, TailOfQueue
  <2> QED  BY <1>1, <1>2, <1>4, <2>1, <2>2 DEF Age!TypeOK, Age!Time, Age!ClaimedRow
<1>6. InOrder'
  <2>1. \A j \in DOMAIN queue' : Follows(queue'[j], current')
      BY <1>1, <1>2, TailOfQueue DEF InOrder
  <2>2. \A i, j \in DOMAIN queue' : i < j => Follows(queue'[j], queue'[i])
      BY <1>1, TailOfQueue
  <2>3. buffer # << >> => /\ \A j \in DOMAIN queue' : Follows(queue'[j], buffer[1].row)
                          /\ \A j \in DOMAIN buffer : Follows(buffer[j].row, buffer[1].row)
                          /\ Follows(current', buffer[1].row)
      BY <1>1, <1>2, TailOfQueue DEF InOrder
  <2> QED  BY <1>1, <2>1, <2>2, <2>3 DEF InOrder, Follows
<1>7. AllStamped'
    BY <1>1, <1>2, TailOfQueue DEF AllStamped, Stamped
<1>8. OnTime'
  <2>1. Len(buffer') < BatchSize /\ now' =< worker'.until
      BY <1>1, <1>2, <1>4 DEF OnTime
  <2>2. ASSUME buffer # << >>
        PROVE  worker'.until < Oldest + Half + MaxDispatch
    <3>1. now < Oldest + Half
        BY <1>1, <1>2, <2>2 DEF OnTime
    <3>2. Oldest \in Nat /\ Half \in Nat /\ now \in Nat /\ worker'.until \in Nat
      <4>1. buffer[1].row \in Age!ClaimedRow
          BY <1>2, <2>2, BufferTypes
      <4> QED  BY <1>2, <1>4, <4>1, BufferTypes, RowTimes DEF Oldest
    <3> QED  BY <1>3, <1>4, <3>1, <3>2
  <2> QED  BY <1>1, <1>4, <2>1, <2>2 DEF OnTime, Oldest
<1> QED  BY <1>5, <1>6, <1>7, <1>8 DEF BufferInv

\* A delete begins while the buffer has its time: what the delete takes is added.
LEMMA FlushBegins ==
    ASSUME Age!Sizes, BufferInv, buffer # << >>,
           \/ worker.does = "idle"
           \/ worker.does = "dispatching" /\ worker.until = now,
           Age!Busy("flushing", MaxFlush)
    PROVE  /\ worker' \in [does: {"idle", "dispatching", "flushing"},
                           until: 0 .. MaxTime + MaxDispatch + MaxFlush]
           /\ worker'.does = "flushing" /\ now =< worker'.until
           /\ worker'.until < Oldest + Half + MaxDispatch + MaxFlush
<1>1. Age!TypeOK /\ OnTime
    BY DEF BufferInv
<1>2. MaxDispatch \in Nat /\ MaxFlush \in Nat /\ MaxFlush =< MaxDispatch + MaxFlush
    BY DEF Age!Sizes
<1>3. /\ worker' \in [does: {"idle", "dispatching", "flushing"},
                      until: 0 .. MaxTime + MaxDispatch + MaxFlush]
      /\ worker'.does = "flushing"
      /\ now =< worker'.until /\ worker'.until =< now + MaxFlush
    BY <1>1, <1>2, BusyWorker
<1>4. Oldest \in Nat /\ Half \in Nat /\ now \in Nat /\ worker'.until \in Nat
  <2>1. buffer[1].row \in Age!ClaimedRow
      BY <1>1, BufferTypes
  <2> QED  BY <1>1, <1>3, <2>1, BufferTypes, RowTimes DEF Oldest
<1>5. now < Oldest + Half + MaxDispatch
    BY <1>1, <1>2, <1>4 DEF OnTime
<1> QED  BY <1>2, <1>3, <1>4, <1>5

\* A row put back goes behind all others, which need not follow it: the row is
\* marked.  What is buffered is deleted first.
LEMMA PutBackKeeps ==
    ASSUME Age!Sizes, BufferInv, Age!PutBack
    PROVE  BufferInv'
<1> DEFINE moved == [Head(queue) EXCEPT !.moved = TRUE]
<1>1. /\ worker.does = "idle" /\ queue # << >>
      /\ queue' = Append(Tail(queue), moved)
      /\ IF buffer = << >> THEN UNCHANGED worker ELSE Age!Busy("flushing", MaxFlush)
      /\ UNCHANGED <<now, buffer, current>>
      /\ recycles' = [recycles EXCEPT !.seen = recycles.happened]
    BY DEF Age!PutBack
<1>2. Age!TypeOK /\ InOrder /\ AllStamped /\ OnTime
    BY DEF BufferInv
<1>3. /\ moved \in Age!ClaimedRow /\ moved.moved
      /\ moved.claimed = queue[1].claimed /\ moved.leased = queue[1].leased
    BY TailOfQueue, <1>1 DEF Age!ClaimedRow
<1> HIDE DEF moved
<1>4. /\ queue' \in Seq(Age!ClaimedRow) /\ Len(queue') = Len(queue)
      /\ \A i \in DOMAIN queue' :
            \/ i \in DOMAIN Tail(queue) /\ queue'[i] = Tail(queue)[i]
            \/ i = Len(queue) /\ queue'[i] = moved
      /\ DOMAIN Tail(queue) = 1 .. Len(queue) - 1
  <2>1. Tail(queue) \in Seq(Age!ClaimedRow) /\ Len(Tail(queue)) = Len(queue) - 1
      BY <1>1, TailOfQueue
  <2>2. Len(queue) \in Nat
      BY <1>2, BufferTypes
  <2>3. /\ queue' \in Seq(Age!ClaimedRow) /\ Len(queue') = Len(Tail(queue)) + 1
        /\ \A i \in 1 .. Len(Tail(queue)) : queue'[i] = Tail(queue)[i]
        /\ queue'[Len(Tail(queue)) + 1] = moved
      BY <1>1, <1>3, <2>1, AppendProperties
  <2> QED  BY <2>1, <2>2, <2>3
<1>5. \/ buffer = << >> /\ worker' = worker
      \/ /\ buffer # << >>
         /\ worker' \in [does: {"idle", "dispatching", "flushing"},
                         until: 0 .. MaxTime + MaxDispatch + MaxFlush]
         /\ worker'.does = "flushing" /\ now =< worker'.until
         /\ worker'.until < Oldest + Half + MaxDispatch + MaxFlush
    BY <1>1, FlushBegins
<1>6. worker'.does # "dispatching"
    BY <1>1, <1>5
<1>7. Age!TypeOK'
  <2>1. Len(queue') =< QueueSize
      BY <1>2, <1>4 DEF Age!TypeOK
  <2>2. recycles' \in [happened: 0 .. MaxRecycles, seen: 0 .. MaxRecycles]
      BY <1>1, <1>2 DEF Age!TypeOK
  <2>3. worker' \in [does: {"idle", "dispatching", "flushing"},
                     until: 0 .. MaxTime + MaxDispatch + MaxFlush]
      BY <1>2, <1>5 DEF Age!TypeOK
  <2> QED  BY <1>1, <1>2, <1>4, <2>1, <2>2, <2>3 DEF Age!TypeOK, Age!Time, Age!ClaimedRow
<1>8. InOrder'
  <2>1. ASSUME NEW row
        PROVE  Follows(moved, row)
      BY <1>3 DEF Follows
  <2>2. ASSUME NEW i \in DOMAIN queue', NEW j \in DOMAIN queue', i < j
        PROVE  Follows(queue'[j], queue'[i])
    <3>1. CASE j \in DOMAIN Tail(queue) /\ queue'[j] = Tail(queue)[j]
      <4>1. i # Len(queue)
        <5>1. Len(queue) \in Nat /\ Len(queue') = Len(queue) /\ DOMAIN queue' = 1 .. Len(queue')
            BY <1>2, <1>4, BufferTypes
        <5> QED  BY <1>4, <2>2, <3>1, <5>1
      <4>2. i \in DOMAIN Tail(queue) /\ queue'[i] = Tail(queue)[i]
          BY <1>4, <4>1
      <4> QED  BY <1>1, <2>2, <3>1, <4>2, TailOfQueue
    <3>2. CASE queue'[j] = moved
        BY <2>1, <3>2
    <3> QED  BY <1>4, <3>1, <3>2
  <2>3. buffer # << >> => \A j \in DOMAIN queue' : Follows(queue'[j], buffer[1].row)
      BY <1>1, <1>2, <1>4, <2>1, TailOfQueue DEF InOrder
  <2> QED  BY <1>1, <1>2, <1>6, <2>2, <2>3 DEF InOrder, Follows
<1>9. AllStamped'
  <2>1. Stamped(moved)
      BY <1>1, <1>2, <1>3, TailOfQueue DEF AllStamped, Stamped
  <2>2. \A i \in DOMAIN queue' : Stamped(queue'[i])
      BY <1>1, <1>4, <2>1, TailOfQueue
  <2> QED  BY <1>1, <1>2, <1>6, <2>2 DEF AllStamped, Stamped
<1>10. OnTime'
    BY <1>1, <1>2, <1>5 DEF OnTime, Oldest
<1> QED  BY <1>7, <1>8, <1>9, <1>10 DEF BufferInv

\* The queue and the buffer as they are, and a delete that begins or rests.
LEMMA WorkerAlone ==
    ASSUME Age!Sizes, BufferInv,
           UNCHANGED <<now, queue, buffer, recycles>>,
           current' \in Age!ClaimedRow, worker'.does # "dispatching",
           worker' \in [does: {"idle", "dispatching", "flushing"},
                        until: 0 .. MaxTime + MaxDispatch + MaxFlush],
           OnTime'
    PROVE  BufferInv'
<1>1. Age!TypeOK /\ InOrder /\ AllStamped
    BY DEF BufferInv
<1>2. Age!TypeOK'
    BY <1>1 DEF Age!TypeOK, Age!Time, Age!ClaimedRow
<1>3. InOrder' /\ AllStamped'
    BY <1>1 DEF InOrder, AllStamped, Follows, Stamped
<1> QED  BY <1>2, <1>3 DEF BufferInv

\* An idle worker deletes what it has.
LEMMA FlushIdleKeeps ==
    ASSUME Age!Sizes, BufferInv, Age!FlushIdle
    PROVE  BufferInv'
<1>1. /\ worker.does = "idle" /\ buffer # << >> /\ Age!Busy("flushing", MaxFlush)
      /\ UNCHANGED <<now, queue, buffer, current, recycles>>
    BY DEF Age!FlushIdle
<1>2. /\ worker' \in [does: {"idle", "dispatching", "flushing"},
                      until: 0 .. MaxTime + MaxDispatch + MaxFlush]
      /\ worker'.does = "flushing" /\ now =< worker'.until
      /\ worker'.until < Oldest + Half + MaxDispatch + MaxFlush
    BY <1>1, FlushBegins
<1>3. OnTime'
    BY <1>1, <1>2 DEF OnTime, Oldest
<1>4. current' \in Age!ClaimedRow
    BY <1>1 DEF BufferInv, Age!TypeOK, Age!ClaimedRow, Age!Time
<1> QED  BY <1>1, <1>2, <1>3, <1>4, WorkerAlone

\* The worker rests at once.
LEMMA IdleWorker ==
    ASSUME Age!Sizes, BufferInv, worker' = Age!Idle
    PROVE  /\ worker' \in [does: {"idle", "dispatching", "flushing"},
                           until: 0 .. MaxTime + MaxDispatch + MaxFlush]
           /\ worker'.does = "idle"
<1>1. now \in 0 .. MaxTime /\ {MaxTime, MaxDispatch, MaxFlush} \subseteq Nat
    BY DEF BufferInv, Age!TypeOK, Age!Time, Age!Sizes
<1> QED  BY <1>1 DEF Age!Idle

\* No row is in dispatch.
LEMMA NoneIsARow ==
    ASSUME Age!Sizes
    PROVE  Age!None \in Age!ClaimedRow
BY DEF Age!None, Age!ClaimedRow, Age!Time, Age!Sizes

\* A failed write deletes what was finished before.
LEMMA DispatchFailsKeeps ==
    ASSUME Age!Sizes, BufferInv, Age!DispatchFails
    PROVE  BufferInv'
<1>1. /\ worker.does = "dispatching" /\ worker.until = now
      /\ IF buffer = << >> THEN worker' = Age!Idle ELSE Age!Busy("flushing", MaxFlush)
      /\ current' = Age!None
      /\ UNCHANGED <<now, queue, buffer, recycles>>
    BY DEF Age!DispatchFails
<1>2. OnTime
    BY DEF BufferInv
<1>3. current' \in Age!ClaimedRow
    BY <1>1, NoneIsARow
<1>4. CASE buffer = << >>
  <2>1. /\ worker' \in [does: {"idle", "dispatching", "flushing"},
                        until: 0 .. MaxTime + MaxDispatch + MaxFlush]
        /\ worker'.does = "idle"
      BY <1>1, <1>4, IdleWorker
  <2>2. OnTime'
      BY <1>1, <1>2, <1>4, <2>1 DEF OnTime
  <2> QED  BY <1>1, <1>3, <2>1, <2>2, WorkerAlone
<1>5. CASE buffer # << >>
  <2>1. /\ worker' \in [does: {"idle", "dispatching", "flushing"},
                        until: 0 .. MaxTime + MaxDispatch + MaxFlush]
        /\ worker'.does = "flushing" /\ now =< worker'.until
        /\ worker'.until < Oldest + Half + MaxDispatch + MaxFlush
      BY <1>1, <1>5, FlushBegins
  <2>2. OnTime'
      BY <1>1, <2>1 DEF OnTime, Oldest
  <2> QED  BY <1>1, <1>3, <2>1, <2>2, WorkerAlone
<1> QED  BY <1>4, <1>5

\* The delete ends, and the buffer is empty whatever became of it.
LEMMA FlushedKeeps ==
    ASSUME Age!Sizes, BufferInv, Age!Flushed
    PROVE  BufferInv'
<1>1. /\ buffer' = << >> /\ worker' = Age!Idle
      /\ UNCHANGED <<now, queue, current, recycles>>
    BY DEF Age!Flushed
<1>2. Age!TypeOK /\ InOrder /\ AllStamped
    BY DEF BufferInv
<1>3. /\ worker' \in [does: {"idle", "dispatching", "flushing"},
                      until: 0 .. MaxTime + MaxDispatch + MaxFlush]
      /\ worker'.does = "idle"
    BY <1>1, IdleWorker
<1>4. BatchSize \in Nat /\ BatchSize > 1
    BY DEF Age!Sizes
<1>5. Age!TypeOK'
    BY <1>1, <1>2, <1>3, <1>4 DEF Age!TypeOK, Age!Time, Age!ClaimedRow
<1>6. InOrder' /\ AllStamped'
    BY <1>1, <1>2, <1>3 DEF InOrder, AllStamped, Follows, Stamped
<1>7. OnTime'
    BY <1>1, <1>3, <1>4 DEF OnTime
<1> QED  BY <1>5, <1>6, <1>7 DEF BufferInv

\* A dispatch ends.  If the buffer is due it is deleted: behind an older head
\* there is the time of that head, and a lone row has been finished just now.
LEMMA DispatchedKeeps ==
    ASSUME Age!Sizes, BufferInv, Age!Dispatched
    PROVE  BufferInv'
<1> DEFINE entry == [row |-> current, at |-> now]
<1>1. /\ worker.does = "dispatching" /\ worker.until = now
      /\ buffer' = buffer \/ buffer' = Append(buffer, entry)
      /\ IF Age!FlushDue(buffer') THEN Age!Busy("flushing", MaxFlush) ELSE worker' = Age!Idle
      /\ current' = Age!None
      /\ UNCHANGED <<now, queue, recycles>>
    BY DEF Age!Dispatched
<1>2. Age!TypeOK /\ InOrder /\ AllStamped /\ OnTime
    BY DEF BufferInv
<1>3. /\ buffer \in Seq([row: Age!ClaimedRow, at: Age!Time]) /\ Len(buffer) \in Nat
      /\ DOMAIN buffer = 1 .. Len(buffer) /\ Len(buffer) < BatchSize
      /\ entry \in [row: Age!ClaimedRow, at: Age!Time] /\ BatchSize \in Nat
    BY <1>1, <1>2 DEF Age!TypeOK, OnTime, Age!Sizes
<1>4. entry.row = current /\ entry.at = now
    OBVIOUS
<1> HIDE DEF entry
<1>5. /\ buffer' \in Seq([row: Age!ClaimedRow, at: Age!Time]) /\ Len(buffer') =< BatchSize
      /\ Len(buffer') \in Nat /\ DOMAIN buffer' = 1 .. Len(buffer')
      /\ \A i \in DOMAIN buffer' :
            \/ i \in DOMAIN buffer /\ buffer'[i] = buffer[i]
            \/ i = Len(buffer) + 1 /\ buffer'[i] = entry
      /\ buffer # << >> => buffer' # << >> /\ buffer'[1] = buffer[1] /\ 1 \in DOMAIN buffer
      /\ buffer = << >> /\ buffer' # << >> => buffer'[1] = entry /\ Len(buffer') = 1
      /\ buffer' # << >> => 1 \in DOMAIN buffer'
  <2>1. CASE buffer' = buffer
      BY <1>3, <2>1
  <2>2. CASE buffer' = Append(buffer, entry)
    <3>1. /\ buffer' \in Seq([row: Age!ClaimedRow, at: Age!Time])
          /\ Len(buffer') = Len(buffer) + 1
          /\ \A i \in 1 .. Len(buffer) : buffer'[i] = buffer[i]
          /\ buffer'[Len(buffer) + 1] = entry
        BY <1>3, <2>2, AppendProperties
    <3>2. DOMAIN buffer' = 1 .. Len(buffer) + 1
        BY <3>1
    <3>3. buffer # << >> => Len(buffer) >= 1
        BY <1>3
    <3>4. buffer = << >> => Len(buffer) = 0
        OBVIOUS
    <3>5. buffer' # << >>
        BY <1>3, <3>2
    <3> QED  BY <1>3, <3>1, <3>2, <3>3, <3>4, <3>5
  <2> QED  BY <1>1, <2>1, <2>2
<1>6. MaxDispatch \in Nat /\ MaxFlush \in Nat /\ MaxFlush =< MaxDispatch + MaxFlush /\ now \in Nat
    BY <1>2, BufferTypes
<1>7. \/ /\ Age!FlushDue(buffer') /\ worker'.does = "flushing"
         /\ now =< worker'.until /\ worker'.until =< now + MaxFlush
         /\ worker' \in [does: {"idle", "dispatching", "flushing"},
                         until: 0 .. MaxTime + MaxDispatch + MaxFlush]
      \/ /\ ~Age!FlushDue(buffer') /\ worker'.does = "idle"
         /\ worker' \in [does: {"idle", "dispatching", "flushing"},
                         until: 0 .. MaxTime + MaxDispatch + MaxFlush]
    BY <1>1, <1>2, <1>6, BusyWorker, IdleWorker
<1>8. Age!TypeOK'
  <2>1. current' \in Age!ClaimedRow
      BY <1>1, NoneIsARow
  <2> QED  BY <1>1, <1>2, <1>5, <1>7, <2>1 DEF Age!TypeOK, Age!Time, Age!ClaimedRow
<1>9. InOrder'
  <2>1. ASSUME buffer' # << >>
        PROVE  /\ \A j \in DOMAIN queue : Follows(queue[j], buffer'[1].row)
               /\ \A j \in DOMAIN buffer' : Follows(buffer'[j].row, buffer'[1].row)
    <3>1. CASE buffer # << >>
      <4>1. \A j \in DOMAIN buffer' : Follows(buffer'[j].row, buffer[1].row)
          BY <1>1, <1>2, <1>4, <1>5, <3>1 DEF InOrder
      <4> QED  BY <1>2, <1>5, <3>1, <4>1 DEF InOrder
    <3>2. CASE buffer = << >>
      <4>1. buffer'[1].row = current /\ \A j \in DOMAIN buffer' : j = 1
          BY <1>4, <1>5, <2>1, <3>2
      <4>2. Follows(current, current)
          BY <1>2, BufferTypes, RowTimes DEF Follows
      <4> QED  BY <1>1, <1>2, <4>1, <4>2 DEF InOrder
    <3> QED  BY <3>1, <3>2
  <2> QED  BY <1>1, <1>2, <1>7, <2>1 DEF InOrder, Follows
<1>10. AllStamped'
  <2>1. \A i \in DOMAIN buffer' : Stamped(buffer'[i].row)
      BY <1>1, <1>2, <1>4, <1>5 DEF AllStamped
  <2> QED  BY <1>1, <1>2, <1>7, <2>1 DEF AllStamped, Stamped
<1>11. OnTime'
  <2>1. CASE Age!FlushDue(buffer')
    <3>1. /\ worker'.does = "flushing"
          /\ now =< worker'.until /\ worker'.until =< now + MaxFlush
          /\ worker'.until \in Nat
        BY <1>6, <1>7, <2>1
    <3>2. CASE buffer # << >>
      <4>1. now < Oldest + Half + MaxDispatch
          BY <1>1, <1>2, <3>2 DEF OnTime
      <4>2. Oldest \in Nat /\ Half \in Nat
          BY <1>2, <1>5, <3>2, BufferTypes, RowTimes DEF Oldest
      <4>3. worker'.until < Oldest + Half + MaxDispatch + MaxFlush
          BY <1>6, <3>1, <4>1, <4>2
      <4>4. buffer'[1] = buffer[1]
          BY <1>5, <3>2
      <4> QED  BY <1>1, <3>1, <4>3, <4>4 DEF OnTime, Oldest
    <3>3. CASE buffer = << >>
      <4>1. buffer' # << >> => Len(buffer') = 1 /\ buffer'[1].at = now
          BY <1>4, <1>5, <3>3
      <4> QED  BY <1>1, <3>1, <4>1 DEF OnTime
    <3> QED  BY <3>2, <3>3
  <2>2. CASE ~Age!FlushDue(buffer')
    <3>1. worker'.does = "idle"
        BY <1>7, <2>2
    <3>2. ASSUME buffer' # << >>
          PROVE  Len(buffer') < BatchSize /\ now < buffer'[1].row.claimed + Half
      <4>1. ~(Len(buffer') >= BatchSize) /\ ~(now - buffer'[1].row.claimed >= Half)
          BY <2>2, <3>2 DEF Age!FlushDue, Half
      <4>2. buffer'[1].row.claimed \in Nat
        <5>1. buffer'[1] \in [row: Age!ClaimedRow, at: Age!Time]
            BY <1>5, <3>2, ElementOfSeq
        <5>2. buffer'[1].row \in Age!ClaimedRow
            BY <5>1
        <5> QED  BY <5>2, RowTimes
      <4>3. Half \in Nat
          BY <1>2, BufferTypes
      <4> QED  BY <1>3, <1>5, <1>6, <4>1, <4>2, <4>3
    <3>3. Len(buffer') < BatchSize
      <4>1. buffer' = << >> => Len(buffer') = 0
          OBVIOUS
      <4> QED  BY <3>2, <4>1 DEF Age!Sizes
    <3> QED  BY <1>1, <3>1, <3>2, <3>3 DEF OnTime, Oldest
  <2> QED  BY <2>1, <2>2
<1> QED  BY <1>8, <1>9, <1>10, <1>11 DEF BufferInv

\* Time passes only while the worker is at work, or has nothing.
LEMMA TickKeeps ==
    ASSUME Age!Sizes, BufferInv, Age!Tick
    PROVE  BufferInv'
<1>1. /\ now < MaxTime /\ now' = now + 1
      /\ IF worker.does = "idle" THEN queue = << >> /\ buffer = << >> ELSE worker.until > now
      /\ UNCHANGED <<queue, buffer, worker, current, recycles>>
    BY DEF Age!Tick
<1>2. Age!TypeOK /\ InOrder /\ AllStamped /\ OnTime
    BY DEF BufferInv
<1>3. now \in Nat /\ MaxTime \in Nat /\ worker.until \in Nat
    BY <1>2, BufferTypes
<1>4. Age!TypeOK'
  <2>1. now' \in 0 .. MaxTime
      BY <1>1, <1>3
  <2> QED  BY <1>1, <1>2, <2>1 DEF Age!TypeOK, Age!Time, Age!ClaimedRow
<1>5. InOrder'
    BY <1>1, <1>2 DEF InOrder, Follows
<1>6. AllStamped'
  <2>1. ASSUME NEW row \in Age!ClaimedRow, Stamped(row)
        PROVE  row.claimed =< now + 1 /\ row.claimed =< row.leased + MaxReply
      BY <1>3, <2>1, RowTimes DEF Stamped
  <2>2. /\ \A i \in DOMAIN queue : queue[i] \in Age!ClaimedRow
        /\ \A i \in DOMAIN buffer : buffer[i].row \in Age!ClaimedRow
        /\ current \in Age!ClaimedRow
      BY <1>2, BufferTypes
  <2> QED  BY <1>1, <1>2, <2>1, <2>2 DEF AllStamped, Stamped
<1>7. OnTime'
    BY <1>1, <1>2, <1>3 DEF OnTime, Oldest
<1> QED  BY <1>4, <1>5, <1>6, <1>7 DEF BufferInv

\* A reconnect of the fetch loop is not seen before the next row.
LEMMA RecycleKeeps ==
    ASSUME Age!Sizes, BufferInv, Age!Recycle
    PROVE  BufferInv'
<1>1. /\ recycles.happened < MaxRecycles
      /\ recycles' = [recycles EXCEPT !.happened = @ + 1]
      /\ UNCHANGED <<now, queue, buffer, worker, current>>
    BY DEF Age!Recycle
<1>2. recycles' \in [happened: 0 .. MaxRecycles, seen: 0 .. MaxRecycles]
  <2>1. MaxRecycles \in Nat
      BY DEF Age!Sizes
  <2> QED  BY <1>1, <2>1 DEF BufferInv, Age!TypeOK
<1>3. Age!TypeOK'
    BY <1>1, <1>2 DEF BufferInv, Age!TypeOK, Age!Time, Age!ClaimedRow
<1> QED
    BY <1>1, <1>3 DEF BufferInv, InOrder, AllStamped, OnTime, Oldest, Follows, Stamped

\* Every step keeps it.
LEMMA BufferNext ==
    ASSUME Age!Sizes, BufferInv, [Age!Next]_Age!vars
    PROVE  BufferInv'
<1>1. CASE UNCHANGED Age!vars
    BY <1>1 DEF Age!vars, BufferInv, Age!TypeOK, Age!Time, Age!ClaimedRow,
                InOrder, AllStamped, OnTime, Oldest, Follows, Stamped
<1> QED
    BY <1>1, ClaimKeeps, TakenByOtherKeeps, RecycleKeeps, TakeKeeps, PutBackKeeps,
       FlushIdleKeeps, DispatchedKeeps, DispatchFailsKeeps, FlushedKeeps, TickKeeps
    DEF Age!Next

\* A claim, the time to it, and a delay of half a lease are within two halves.
LEMMA FitsInHalves ==
    ASSUME NEW end \in Nat, NEW first \in Nat, NEW claimed \in Nat, NEW leased \in Nat,
           NEW half \in Nat, NEW reply \in Nat, NEW dispatch \in Nat, NEW flush \in Nat,
           end < first + half + dispatch + flush,
           first =< claimed, claimed =< leased + reply,
           reply + dispatch + flush =< half
    PROVE  end =< leased + (half + half)
OBVIOUS

\* What is said of the head is said of every row that was not put back: it was
\* claimed no earlier.  A reply, a dispatch and a delete fit in half a lease.
LEMMA InTimeKeepsLease ==
    ASSUME Age!Sizes, BufferInv, MaxReply + MaxDispatch + MaxFlush =< LeaseTtl \div 2
    PROVE  Age!BufferedKeepLease
<1> SUFFICES ASSUME NEW i \in DOMAIN buffer,
                    Age!BufferedInTime(buffer[i]), ~buffer[i].row.moved
             PROVE  now =< buffer[i].row.leased + LeaseTtl
    BY DEF Age!BufferedKeepLease, Age!Leased
<1>1. Age!TypeOK /\ InOrder /\ AllStamped /\ OnTime
    BY DEF BufferInv
<1>2. /\ now \in Nat /\ worker.until \in Nat /\ Half \in Nat /\ LeaseTtl = Half + Half
      /\ MaxReply \in Nat /\ MaxDispatch \in Nat /\ MaxFlush \in Nat
      /\ worker.does \in {"idle", "dispatching", "flushing"}
      /\ Len(buffer) \in Nat /\ DOMAIN buffer = 1 .. Len(buffer)
    BY <1>1, BufferTypes
<1>3. MaxReply + MaxDispatch + MaxFlush =< Half
    BY DEF Half
<1>4. buffer # << >> /\ 1 \in DOMAIN buffer
    BY <1>2
<1>5. /\ buffer[i].row \in Age!ClaimedRow /\ buffer[1].row \in Age!ClaimedRow
      /\ buffer[i].at \in Nat
  <2>1. /\ buffer[i] \in [row: Age!ClaimedRow, at: Age!Time]
        /\ buffer[1] \in [row: Age!ClaimedRow, at: Age!Time]
      BY <1>1, <1>4, BufferTypes
  <2>2. buffer[i].at \in 0 .. MaxTime /\ MaxTime \in Nat
      BY <1>1, <2>1, BufferTypes DEF Age!Time
  <2> QED  BY <2>1, <2>2
<1>6. Oldest \in Nat /\ buffer[i].row.claimed \in Nat /\ buffer[i].row.leased \in Nat
    BY <1>5, RowTimes DEF Oldest
<1>7. Oldest =< buffer[i].row.claimed
    BY <1>1, <1>4 DEF InOrder, Follows, Oldest
<1>8. buffer[i].row.claimed =< buffer[i].row.leased + MaxReply
    BY <1>1 DEF AllStamped, Stamped
<1>9. CASE now < Oldest + Half + MaxDispatch + MaxFlush
  <2>1. now =< buffer[i].row.leased + (Half + Half)
      BY <1>2, <1>3, <1>6, <1>7, <1>8, <1>9, FitsInHalves
  <2> QED  BY <1>2, <2>1
<1>10. CASE Len(buffer) = 1 /\ now =< buffer[1].at + MaxFlush
  <2>1. i = 1
      BY <1>2, <1>10
  <2>2. buffer[i].at + MaxFlush =< buffer[i].row.leased + LeaseTtl
      BY DEF Age!BufferedInTime
  <2> QED  BY <1>2, <1>5, <1>6, <1>10, <2>1, <2>2
<1>11. \/ now < Oldest + Half + MaxDispatch + MaxFlush
       \/ Len(buffer) = 1 /\ now =< buffer[1].at + MaxFlush
  <2>1. CASE worker.does = "idle"
      BY <1>1, <1>2, <1>4, <1>6, <2>1 DEF OnTime
  <2>2. CASE worker.does = "dispatching"
      BY <1>1, <1>2, <1>4, <1>6, <2>2 DEF OnTime
  <2>3. CASE worker.does = "flushing"
    <3>1. now =< worker.until /\ buffer[1].at \in Nat
      <4>1. buffer[1].at \in 0 .. MaxTime
          BY <1>1, <1>4, BufferTypes DEF Age!Time
      <4> QED  BY <1>1, <2>3, <4>1 DEF OnTime
    <3>2. \/ worker.until < Oldest + Half + MaxDispatch + MaxFlush
          \/ Len(buffer) = 1 /\ worker.until =< buffer[1].at + MaxFlush
        BY <1>1, <1>4, <2>3 DEF OnTime
    <3> QED  BY <1>2, <1>6, <3>1, <3>2
  <2> QED  BY <1>2, <2>1, <2>2, <2>3
<1> QED  BY <1>9, <1>10, <1>11

\* A row that waits in the buffer keeps its lease if it was finished in time and
\* not put back, where a reply, a dispatch and a delete take half a lease at most
\* (usecase.py:683-685).
THEOREM BufferedRowsKeepLease ==
    ASSUME Age!Sizes, MaxReply + MaxDispatch + MaxFlush =< LeaseTtl \div 2
    PROVE  Age!Spec => []Age!BufferedKeepLease
<1>1. Age!Init => BufferInv
    BY BufferInit
<1>2. BufferInv /\ [Age!Next]_Age!vars => BufferInv'
    BY BufferNext
<1>3. BufferInv => Age!BufferedKeepLease
    BY InTimeKeepsLease
<1> QED  BY <1>1, <1>2, <1>3, PTL DEF Age!Spec
-----------------------------------------------------------------------------
\* The retries of a row.  Again the names are those of RetryDelay, but for its
\* pc, which the pool has too.
CONSTANTS Initial, Steps, Multipliers, DelayCaps, Jitters, AttemptLimits, TotalLimits,
          Ceiling, FloatMax, Lateness, MaxNacks
VARIABLES strategy, attempts, elapsed, delay, rowPc
Delay == INSTANCE RetryDelay WITH pc <- rowPc

\* Induction up to a bound: a set that starts at 0 and goes on has all.  A least
\* number left out would be of a least segment.
LEMMA AllUpTo ==
    ASSUME NEW N \in Nat, NEW S, 0 \in S,
           \A n \in 0 .. N : n \in S /\ n < N => n + 1 \in S
    PROVE  0 .. N \subseteq S
<1> DEFINE T == {n \in 0 .. N : n \notin S}
           Segments == {0 .. n : n \in T}
<1> SUFFICES ASSUME T # {} PROVE FALSE
    OBVIOUS
<1>1. Segments \subseteq FiniteSubsetsOf(0 .. N) /\ Segments # {}
  <2>1. \A n \in T : 0 .. n \in SUBSET (0 .. N) /\ IsFiniteSet(0 .. n)
      BY FS_Interval
  <2> QED  BY <2>1 DEF FiniteSubsetsOf
<1>2. PICK A \in Segments : \A B \in Segments : ~(<<B, A>> \in StrictSubsetOrdering(0 .. N))
    BY <1>1, FS_StrictSubsetOrderingWellFounded, WFMin
<1>3. PICK n \in T : A = 0 .. n
    BY <1>2
<1>4. n - 1 \in 0 .. N /\ n - 1 < N /\ (n - 1) + 1 = n
    OBVIOUS
<1>5. n - 1 \notin S
    BY <1>4
<1>6. 0 .. (n - 1) \in Segments
    BY <1>4, <1>5
<1>7. <<0 .. (n - 1), A>> \in StrictSubsetOrdering(0 .. N)
  <2>1. 0 .. (n - 1) \subseteq 0 .. N /\ A \subseteq 0 .. N /\ 0 .. (n - 1) \subseteq A
      BY <1>3, <1>4
  <2>2. n \in A /\ n \notin 0 .. (n - 1)
      BY <1>3
  <2> QED  BY <2>1, <2>2 DEF StrictSubsetOrdering
<1> QED  BY <1>2, <1>6, <1>7

\* The powers of a multiplier exist, each the one before times the multiplier.
LEMMA PowersDefined ==
    ASSUME Delay!Knobs
    PROVE  Delay!Power = [k \in 0 .. MaxNacks |->
               [m \in Multipliers |-> IF k = 0 THEN 1 ELSE m * Delay!Power[k - 1][m]]]
<1> DEFINE Rec(f, k) == [m \in Multipliers |-> IF k = 0 THEN 1 ELSE m * f[k - 1][m]]
           Powers(f, n) == f = [k \in 0 .. n |-> Rec(f, k)]
           S == {n \in 0 .. MaxNacks : \E f : Powers(f, n)}
<1>1. MaxNacks \in Nat
    BY DEF Delay!Knobs
<1>2. 0 \in S
  <2> DEFINE f == [k \in 0 .. 0 |-> [m \in Multipliers |-> 1]]
  <2>1. Powers(f, 0)
      OBVIOUS
  <2> HIDE DEF f
  <2>2. \E h : Powers(h, 0)
      BY <2>1
  <2> QED  BY <1>1, <2>2
<1>3. ASSUME NEW n \in 0 .. MaxNacks, n \in S, n < MaxNacks
      PROVE  n + 1 \in S
  <2>1. PICK f : Powers(f, n)
      BY <1>3
  <2> DEFINE g == [k \in 0 .. n + 1 |-> IF k =< n THEN f[k] ELSE Rec(f, n + 1)]
  <2>2. \A k \in 0 .. n : g[k] = f[k]
      OBVIOUS
  <2>3. ASSUME NEW k \in 0 .. n + 1
        PROVE  g[k] = Rec(g, k)
    <3>1. k # 0 => k - 1 \in 0 .. n
        OBVIOUS
    <3>2. k # 0 => g[k - 1] = f[k - 1]
        BY <2>2, <3>1
    <3> HIDE DEF g
    <3>3. Rec(g, k) = Rec(f, k)
        BY <3>2
    <3>4. CASE k =< n
      <4>1. g[k] = f[k]
          BY <2>2, <3>4
      <4>2. f[k] = Rec(f, k)
        <5>1. k \in 0 .. n
            BY <3>4
        <5> QED  BY <2>1, <5>1
      <4> QED  BY <3>3, <4>1, <4>2
    <3>5. CASE ~(k =< n)
      <4>1. k = n + 1
          BY <3>5
      <4>2. g[k] = Rec(f, n + 1)
          BY <3>5 DEF g
      <4> QED  BY <3>3, <4>1, <4>2
    <3> QED  BY <3>4, <3>5
  <2>4. DOMAIN g = 0 .. n + 1 /\ g = [k \in 0 .. n + 1 |-> g[k]]
      OBVIOUS
  <2> HIDE DEF g
  <2>5. Powers(g, n + 1)
      BY <2>3, <2>4
  <2> QED  BY <1>1, <1>3, <2>5
<1>4. MaxNacks \in S
  <2> HIDE DEF S
  <2>1. 0 .. MaxNacks \subseteq S
      BY <1>1, <1>2, <1>3, AllUpTo
  <2> QED  BY <1>1, <2>1
<1>5. \E f : f = [k \in 0 .. MaxNacks |->
                     [m \in Multipliers |-> IF k = 0 THEN 1 ELSE m * f[k - 1][m]]]
    BY <1>4
<1> QED  BY <1>5, Zenon DEF Delay!Power

\* A power of a multiplier is a positive number.
LEMMA PowerType ==
    ASSUME Delay!Knobs, NEW k \in 0 .. MaxNacks, NEW m \in Multipliers
    PROVE  Delay!Power[k][m] \in Nat \ {0}
<1> DEFINE S == {n \in 0 .. MaxNacks : \A r \in Multipliers : Delay!Power[n][r] \in Nat \ {0}}
<1>1. MaxNacks \in Nat /\ Multipliers \subseteq Nat \ {0}
    BY DEF Delay!Knobs
<1>2. \A n \in 0 .. MaxNacks : \A r \in Multipliers :
          Delay!Power[n][r] = IF n = 0 THEN 1 ELSE r * Delay!Power[n - 1][r]
    BY PowersDefined
<1>3. 0 \in S
    BY <1>1, <1>2
<1>4. ASSUME NEW n \in 0 .. MaxNacks, n \in S, n < MaxNacks
      PROVE  n + 1 \in S
  <2>1. n + 1 \in 0 .. MaxNacks /\ n + 1 # 0 /\ (n + 1) - 1 = n
      BY <1>1, <1>4
  <2>2. ASSUME NEW r \in Multipliers
        PROVE  Delay!Power[n + 1][r] \in Nat \ {0}
    <3>1. Delay!Power[n + 1][r] = r * Delay!Power[n][r]
        BY <1>2, <2>1
    <3>2. Delay!Power[n][r] \in Nat \ {0} /\ r \in Nat \ {0}
        BY <1>1, <1>4
    <3>3. \A a, b \in Nat \ {0} : a * b \in Nat \ {0}
        OBVIOUS
    <3> QED  BY <3>1, <3>2, <3>3
  <2> QED  BY <2>1, <2>2
<1> HIDE DEF S
<1>5. 0 .. MaxNacks \subseteq S
    BY <1>1, <1>3, <1>4, AllUpTo
<1> QED  BY <1>5 DEF S

\* What the knobs of a strategy are.
LEMMA KnobTypes ==
    ASSUME Delay!Knobs, strategy \in Delay!Strategies
    PROVE  /\ strategy.kind \in {"none", "constant", "linear", "exponential"}
           /\ strategy.jitter \div 2 \in 0 .. 100
           /\ strategy.cap \in Nat /\ strategy.maxAttempts \in Nat /\ strategy.maxTotal \in Nat
           /\ strategy.kind = "linear" => strategy.rate \in Nat
           /\ strategy.kind = "exponential" => strategy.rate \in Multipliers
           /\ Initial \in Nat \ {0} /\ Ceiling \in Nat \ {0} /\ FloatMax \in Nat
           /\ Ceiling =< FloatMax /\ Lateness \in Nat /\ MaxNacks \in Nat \ {0}
<1>1. /\ Initial \in Nat \ {0} /\ Ceiling \in Nat \ {0} /\ FloatMax \in Nat
      /\ Ceiling =< FloatMax /\ Lateness \in Nat /\ MaxNacks \in Nat \ {0}
      /\ Steps \subseteq Nat /\ Jitters \subseteq 0 .. 200
      /\ DelayCaps \cup AttemptLimits \cup TotalLimits \subseteq Nat
    BY DEF Delay!Knobs
<1>2. /\ strategy.kind \in {"none", "constant", "linear", "exponential"}
      /\ strategy.jitter \in Jitters /\ strategy.cap \in {0} \cup DelayCaps
      /\ strategy.maxAttempts \in AttemptLimits /\ strategy.maxTotal \in TotalLimits
      /\ strategy.kind = "linear" => strategy.rate \in Steps
      /\ strategy.kind = "exponential" => strategy.rate \in Multipliers
    BY DEF Delay!Strategies
<1>3. \A j \in 0 .. 200 : j \div 2 \in 0 .. 100
    OBVIOUS
<1>4. strategy.jitter \div 2 \in 0 .. 100
  <2>1. strategy.jitter \in 0 .. 200
      BY <1>1, <1>2
  <2> QED  BY <1>3, <2>1
<1>5. strategy.cap \in Nat
    BY <1>1, <1>2
<1>6. strategy.maxAttempts \in Nat /\ strategy.maxTotal \in Nat
    BY <1>1, <1>2
<1>7. strategy.kind = "linear" => strategy.rate \in Nat
    BY <1>1, <1>2
<1> QED  BY <1>1, <1>2, <1>4, <1>5, <1>6, <1>7

\* A larger delay with a larger share of jitter is no smaller.
LEMMA SpreadGrows ==
    ASSUME NEW a \in Nat, NEW b \in Nat, a =< b,
           NEW p \in Int, NEW q \in Int, 0 =< 100 + p, p =< q
    PROVE  /\ Delay!Spread(a, p) \in Nat
           /\ Delay!Spread(a, p) =< Delay!Spread(b, q)
           /\ Delay!Spread(a, 0) = a
<1> DEFINE x == a * (100 + p)
           y == b * (100 + q)
<1>1. \A c, d, e \in Nat : c =< d => c * e \in Nat /\ c * e =< d * e /\ e * c =< e * d
    OBVIOUS
<1>2. 100 + p \in Nat /\ 100 + q \in Nat /\ 100 + p =< 100 + q
    OBVIOUS
<1>3. x \in Nat /\ y \in Nat /\ x =< b * (100 + p) /\ b * (100 + p) =< y
      /\ b * (100 + p) \in Nat
    BY <1>1, <1>2
<1>4. \A c, d \in Nat : c =< d => c \div 100 \in Nat /\ c \div 100 =< d \div 100
    OBVIOUS
<1>5. x =< y
  <2> HIDE DEF x, y
  <2> QED  BY <1>3
<1>6. x \div 100 \in Nat /\ x \div 100 =< y \div 100
  <2> HIDE DEF x, y
  <2> QED  BY <1>3, <1>4, <1>5
<1>7. (a * (100 + 0)) \div 100 = a
    OBVIOUS
<1> QED  BY <1>6, <1>7 DEF Delay!Spread

\* Jitter moves a delay by half the factor at most, up or down.
LEMMA JitterBand ==
    ASSUME Delay!Knobs, strategy \in Delay!Strategies,
           NEW raw \in Nat, NEW d \in Delay!Jittered(raw)
    PROVE  /\ d \in Nat
           /\ Delay!Spread(raw, -(strategy.jitter \div 2)) =< d
           /\ d =< Delay!Spread(raw, strategy.jitter \div 2)
<1> DEFINE half == strategy.jitter \div 2
<1>1. half \in 0 .. 100
    BY KnobTypes
<1>2. \E u \in {-half, 0, half} : d = Delay!Spread(raw, u)
  <2>1. CASE raw = Delay!Infinite
    <3>1. d = raw
        BY <2>1 DEF Delay!Jittered
    <3>2. 0 \in Int /\ 0 =< 100 + 0 /\ raw =< raw
        OBVIOUS
    <3>3. Delay!Spread(raw, 0) = raw
        BY <3>2, SpreadGrows
    <3> QED  BY <3>1, <3>3
  <2>2. CASE raw # Delay!Infinite
      BY <2>2 DEF Delay!Jittered, Delay!Spread
  <2> QED  BY <2>1, <2>2
<1> HIDE DEF half
<1>3. PICK u \in {-half, 0, half} : d = Delay!Spread(raw, u)
    BY <1>2
<1>4. /\ -half \in Int /\ half \in Int /\ u \in Int
      /\ -half =< u /\ u =< half /\ 0 =< 100 + -half /\ 0 =< 100 + u /\ raw =< raw
    BY <1>1
<1>5. Delay!Spread(raw, -half) =< Delay!Spread(raw, u)
    BY <1>4, SpreadGrows
<1>6. Delay!Spread(raw, u) \in Nat /\ Delay!Spread(raw, u) =< Delay!Spread(raw, half)
    BY <1>4, SpreadGrows
<1> QED  BY <1>3, <1>5, <1>6 DEF half

\* The answers of each strategy.
LEMMA DelayByKind ==
    ASSUME NEW n
    PROVE  /\ strategy.kind = "none" => Delay!DelaySeconds(n) = {}
           /\ strategy.kind = "constant" => Delay!DelaySeconds(n) = Delay!Jittered(Initial)
           /\ strategy.kind = "linear" => Delay!DelaySeconds(n)
                 = Delay!Jittered(Initial + strategy.rate * Delay!AtLeast(0, n - 1))
           /\ strategy.kind = "exponential" => Delay!DelaySeconds(n) = Delay!Exponential(n)
BY Zenon DEF Delay!DelaySeconds

\* The exact delay of each strategy.
LEMMA ExactByKind ==
    ASSUME NEW s, NEW n
    PROVE  /\ s.kind \in {"none", "constant"} => Delay!Exact(s, n) = Initial
           /\ s.kind = "linear" => Delay!Exact(s, n) = Initial + s.rate * (n - 1)
           /\ s.kind = "exponential" => Delay!Exact(s, n) = Initial * Delay!Power[n - 1][s.rate]
BY Zenon DEF Delay!Exact

\* It is a number.
LEMMA ExactType ==
    ASSUME Delay!Knobs, strategy \in Delay!Strategies, NEW n \in 1 .. MaxNacks
    PROVE  Delay!Exact(strategy, n) \in Nat
<1>1. /\ strategy.kind \in {"none", "constant", "linear", "exponential"}
      /\ Initial \in Nat \ {0} /\ n - 1 \in Nat /\ n - 1 \in 0 .. MaxNacks
    BY KnobTypes
<1>2. \A a, b, c \in Nat : a + b * c \in Nat /\ a * b \in Nat
    OBVIOUS
<1>3. CASE strategy.kind \in {"none", "constant"}
    BY <1>1, <1>3, ExactByKind
<1>4. CASE strategy.kind = "linear"
  <2>1. strategy.rate \in Nat
      BY <1>4, KnobTypes
  <2> QED  BY <1>1, <1>2, <1>4, <2>1, ExactByKind
<1>5. CASE strategy.kind = "exponential"
  <2>1. Delay!Power[n - 1][strategy.rate] \in Nat
      BY <1>1, <1>5, KnobTypes, PowerType
  <2> QED  BY <1>1, <1>2, <1>5, <2>1, ExactByKind
<1> QED  BY <1>1, <1>3, <1>4, <1>5

\* The caps of a strategy keep the order of delays.
LEMMA CapGrows ==
    ASSUME Delay!Knobs, strategy \in Delay!Strategies, NEW a \in Nat, NEW b \in Nat, a =< b
    PROVE  Delay!Cap(strategy, a) \in Nat /\ Delay!Cap(strategy, a) =< Delay!Cap(strategy, b)
<1>1. Ceiling \in Nat /\ strategy.cap \in Nat
    BY KnobTypes
<1> QED  BY <1>1 DEF Delay!Cap, Delay!AtMost, Delay!Limited

\* A delay without a cap, jittered, is in its band.
LEMMA PlainBand ==
    ASSUME Delay!Knobs, strategy \in Delay!Strategies, strategy.kind # "exponential",
           NEW n \in 1 .. MaxNacks, Delay!Exact(strategy, n) \in Nat,
           NEW d \in Delay!Jittered(Delay!Exact(strategy, n))
    PROVE  /\ d \in Nat
           /\ Delay!Shortest(strategy, n) =< d /\ d =< Delay!Longest(strategy, n)
BY JitterBand DEF Delay!Shortest, Delay!Longest, Delay!Cap

\* An exponential delay is in its band: where the power or the product has
\* overflowed, what stands for it is no less than the ceiling, or the exact delay.
LEMMA ExponentialBand ==
    ASSUME Delay!Knobs, strategy \in Delay!Strategies, strategy.kind = "exponential",
           NEW n \in 1 .. MaxNacks, NEW d \in Delay!Exponential(n)
    PROVE  /\ d \in Nat
           /\ Delay!Shortest(strategy, n) =< d /\ d =< Delay!Longest(strategy, n)
<1> DEFINE power == Delay!Power[n - 1][strategy.rate]
           exact == Delay!Exact(strategy, n)
           raw == IF power > FloatMax THEN Ceiling ELSE Delay!AtMost(exact, Delay!Infinite)
           half == strategy.jitter \div 2
<1>1. /\ half \in 0 .. 100 /\ Ceiling \in Nat /\ FloatMax \in Nat /\ Ceiling =< FloatMax
      /\ strategy.cap \in Nat /\ Initial \in Nat \ {0} /\ strategy.rate \in Multipliers
    BY KnobTypes
<1>2. power \in Nat \ {0}
  <2>1. n - 1 \in 0 .. MaxNacks
      BY KnobTypes
  <2> QED  BY <1>1, <2>1, PowerType
<1>3. exact = Initial * power
    BY ExactByKind
<1>4. exact \in Nat /\ power =< exact
  <2>1. \A a, b \in Nat \ {0} : a * b \in Nat /\ b =< a * b
      OBVIOUS
  <2> HIDE DEF power, exact
  <2> QED  BY <1>1, <1>2, <1>3, <2>1
<1>5. Delay!AtLeast(0, n - 1) = n - 1
    BY DEF Delay!AtLeast
<1>6. \E e \in Delay!Jittered(raw) : d = Delay!Cap(strategy, e)
  <2>1. PICK e \in Delay!Jittered(raw) :
            d = Delay!AtMost(IF Delay!Limited(strategy.cap)
                               THEN Delay!AtMost(e, strategy.cap) ELSE e, Ceiling)
      BY <1>3, <1>5 DEF Delay!Exponential
  <2>2. raw \in Nat
      BY <1>1, <1>4 DEF Delay!AtMost, Delay!Infinite
  <2> HIDE DEF raw
  <2>3. e \in Nat
      BY <2>2, JitterBand
  <2>4. d = Delay!Cap(strategy, e)
      BY <1>1, <2>1, <2>3 DEF Delay!Cap, Delay!AtMost, Delay!Limited
  <2> QED  BY <2>4
<1>7. PICK e \in Delay!Jittered(raw) : d = Delay!Cap(strategy, e)
    BY <1>6
<1>8. raw \in Nat /\ raw =< exact /\ Delay!AtMost(exact, Ceiling) =< raw
      /\ Delay!AtMost(exact, Ceiling) \in Nat
  <2> HIDE DEF power, exact
  <2> QED  BY <1>1, <1>2, <1>4 DEF Delay!AtMost, Delay!Infinite
<1> HIDE DEF raw, exact, half
<1>9. e \in Nat /\ Delay!Spread(raw, -half) =< e /\ e =< Delay!Spread(raw, half)
    BY <1>8, JitterBand DEF half
<1>10. half \in Int /\ -half \in Int /\ 0 =< 100 + half /\ 0 =< 100 + -half
       /\ half =< half /\ -half =< -half
    BY <1>1
<1>11. /\ Delay!Spread(raw, half) =< Delay!Spread(exact, half)
       /\ Delay!Spread(raw, half) \in Nat
    BY <1>4, <1>8, <1>10, SpreadGrows
<1>12. Delay!Spread(exact, half) \in Nat
  <2>1. exact =< exact
      BY <1>4
  <2> QED  BY <1>4, <1>10, <2>1, SpreadGrows
<1>13. /\ Delay!Spread(Delay!AtMost(exact, Ceiling), -half) =< Delay!Spread(raw, -half)
       /\ Delay!Spread(Delay!AtMost(exact, Ceiling), -half) \in Nat
    BY <1>8, <1>10, SpreadGrows
<1>14. Delay!Spread(raw, -half) \in Nat
  <2>1. raw =< raw
      BY <1>8
  <2> QED  BY <1>8, <1>10, <2>1, SpreadGrows
<1>15. e =< Delay!Spread(exact, half)
    BY <1>9, <1>11, <1>12
<1>16. Delay!Spread(Delay!AtMost(exact, Ceiling), -half) =< e
    BY <1>9, <1>13, <1>14
<1>17. d \in Nat /\ d =< Delay!Cap(strategy, Delay!Spread(exact, half))
    BY <1>7, <1>9, <1>12, <1>15, CapGrows
<1>18. Delay!Cap(strategy, Delay!Spread(Delay!AtMost(exact, Ceiling), -half)) =< d
    BY <1>7, <1>9, <1>13, <1>16, CapGrows
<1> QED  BY <1>17, <1>18 DEF Delay!Shortest, Delay!Longest, exact, half

\* Whatever the strategy answers is in its band.
LEMMA AnswersInBand ==
    ASSUME Delay!Knobs, strategy \in Delay!Strategies,
           NEW n \in 1 .. MaxNacks, NEW d \in Delay!DelaySeconds(n)
    PROVE  /\ d \in Nat
           /\ Delay!Shortest(strategy, n) =< d /\ d =< Delay!Longest(strategy, n)
<1>1. strategy.kind \in {"none", "constant", "linear", "exponential"}
    BY KnobTypes
<1>2. strategy.kind # "none"
    BY DelayByKind
<1>3. CASE strategy.kind = "exponential"
    BY <1>3, DelayByKind, ExponentialBand
<1>4. CASE strategy.kind \in {"constant", "linear"}
  <2>1. Delay!AtLeast(0, n - 1) = n - 1
      BY KnobTypes DEF Delay!AtLeast
  <2>2. d \in Delay!Jittered(Delay!Exact(strategy, n))
      BY <1>4, <2>1, DelayByKind, ExactByKind
  <2>3. Delay!Exact(strategy, n) \in Nat
      BY ExactType
  <2> QED  BY <1>4, <2>2, <2>3, PlainBand
<1> QED  BY <1>1, <1>2, <1>3, <1>4

\* The end of the band is a number.
LEMMA LongestType ==
    ASSUME Delay!Knobs, strategy \in Delay!Strategies, NEW n \in 1 .. MaxNacks
    PROVE  Delay!Longest(strategy, n) \in Nat
<1>1. Delay!Exact(strategy, n) \in Nat
    BY ExactType
<1>2. Delay!Spread(Delay!Exact(strategy, n), strategy.jitter \div 2) \in Nat
  <2>1. /\ strategy.jitter \div 2 \in Int /\ 0 =< 100 + strategy.jitter \div 2
        /\ strategy.jitter \div 2 =< strategy.jitter \div 2
      BY KnobTypes
  <2>2. Delay!Exact(strategy, n) =< Delay!Exact(strategy, n)
      BY <1>1
  <2> QED  BY <1>1, <2>1, <2>2, SpreadGrows
<1> QED
  <2>1. Delay!Spread(Delay!Exact(strategy, n), strategy.jitter \div 2)
          =< Delay!Spread(Delay!Exact(strategy, n), strategy.jitter \div 2)
      BY <1>2
  <2> QED  BY <1>2, <2>1, CapGrows DEF Delay!Longest

\* A strategy other than none always has an answer.
LEMMA SomeAnswer ==
    ASSUME Delay!Knobs, strategy \in Delay!Strategies, NEW n, Delay!DelaySeconds(n) = {}
    PROVE  strategy.kind = "none"
<1>1. \A d : Delay!Jittered(d) # {}
    BY DEF Delay!Jittered
<1>2. Delay!Exponential(n) # {}
    BY <1>1 DEF Delay!Exponential
<1> QED  BY <1>1, <1>2, KnobTypes, DelayByKind
-----------------------------------------------------------------------------
\* A row that waits was allowed its delay by both budgets, and only the attempt
\* that reaches a budget is terminal.
WithinBudgets ==
    /\ rowPc = "waiting" /\ Delay!Limited(strategy.maxTotal) =>
          elapsed + delay =< strategy.maxTotal
    /\ rowPc # "terminal" /\ Delay!Limited(strategy.maxAttempts) =>
          attempts < strategy.maxAttempts

\* The inductive invariant of the retries of a row.
RetryInv == Delay!TypeOK /\ Delay!DelayInBand /\ WithinBudgets /\ Delay!BudgetsDecide

\* No attempt has been made at first.
LEMMA RetryInit ==
    ASSUME Delay!Knobs, Delay!Init
    PROVE  RetryInv
<1>1. /\ strategy \in Delay!Strategies /\ rowPc = "running"
      /\ attempts = 0 /\ elapsed = 0 /\ delay = 0
    BY DEF Delay!Init
<1>2. /\ strategy.maxAttempts \in Nat /\ strategy.maxTotal \in Nat
      /\ MaxNacks \in Nat \ {0} /\ Lateness \in Nat
    BY <1>1, KnobTypes
<1>3. Delay!TypeOK
    BY <1>1, <1>2 DEF Delay!TypeOK
<1> QED
    BY <1>1, <1>2, <1>3
    DEF RetryInv, WithinBudgets, Delay!DelayInBand, Delay!BudgetsDecide, Delay!Limited

\* A failed attempt is retried: its delay is in the band and within the budgets.
LEMMA NackRetriesKeeps ==
    ASSUME Delay!Knobs, RetryInv, Delay!NackRetries
    PROVE  RetryInv'
<1>1. PICK d \in Delay!DelaySeconds(attempts') : Delay!Allowed(attempts', d) /\ delay' = d
    BY DEF Delay!NackRetries
<1>2. /\ rowPc = "running" /\ attempts < MaxNacks /\ attempts' = attempts + 1
      /\ rowPc' = "waiting" /\ strategy' = strategy /\ elapsed' = elapsed
    BY DEF Delay!NackRetries
<1>3. /\ strategy \in Delay!Strategies /\ attempts \in 0 .. MaxNacks /\ elapsed \in Nat
    BY DEF RetryInv, Delay!TypeOK
<1>4. /\ strategy.maxAttempts \in Nat /\ strategy.maxTotal \in Nat
      /\ MaxNacks \in Nat \ {0} /\ Lateness \in Nat
    BY <1>3, KnobTypes
<1>5. attempts' \in 1 .. MaxNacks
    BY <1>2, <1>3, <1>4
<1>6. /\ d \in Nat
      /\ Delay!Shortest(strategy, attempts') =< d /\ d =< Delay!Longest(strategy, attempts')
    BY <1>1, <1>3, <1>5, AnswersInBand
<1>7. Delay!TypeOK'
    BY <1>1, <1>2, <1>3, <1>4, <1>5, <1>6 DEF Delay!TypeOK
<1>8. Delay!DelayInBand'
    BY <1>1, <1>2, <1>6 DEF Delay!DelayInBand
<1>9. WithinBudgets'
    BY <1>1, <1>2 DEF WithinBudgets, Delay!Allowed
<1>10. Delay!BudgetsDecide'
  <2>1. Delay!Limited(strategy.maxAttempts) => attempts' =< strategy.maxAttempts
    <3>1. Delay!Limited(strategy.maxAttempts) => attempts' < strategy.maxAttempts
        BY <1>1 DEF Delay!Allowed
    <3> QED  BY <1>4, <1>5, <3>1
  <2> QED  BY <1>2, <2>1 DEF RetryInv, Delay!BudgetsDecide
<1> QED  BY <1>7, <1>8, <1>9, <1>10 DEF RetryInv

\* It is given up: the strategy has no answer, or a budget refuses one.
LEMMA NackGivesUpKeeps ==
    ASSUME Delay!Knobs, RetryInv, Delay!NackGivesUp
    PROVE  RetryInv'
<1>1. \/ Delay!DelaySeconds(attempts') = {}
      \/ \E d \in Delay!DelaySeconds(attempts') : ~Delay!Allowed(attempts', d)
    BY DEF Delay!NackGivesUp
<1>2. /\ rowPc = "running" /\ attempts < MaxNacks /\ attempts' = attempts + 1
      /\ rowPc' = "terminal" /\ strategy' = strategy /\ elapsed' = elapsed /\ delay' = delay
    BY DEF Delay!NackGivesUp
<1>3. /\ strategy \in Delay!Strategies /\ attempts \in 0 .. MaxNacks /\ elapsed \in Nat
    BY DEF RetryInv, Delay!TypeOK
<1>4. /\ strategy.maxAttempts \in Nat /\ strategy.maxTotal \in Nat
      /\ MaxNacks \in Nat \ {0} /\ Lateness \in Nat
    BY <1>3, KnobTypes
<1>5. attempts' \in 1 .. MaxNacks
    BY <1>2, <1>3, <1>4
<1>6. Delay!TypeOK'
    BY <1>2, <1>3, <1>5 DEF RetryInv, Delay!TypeOK
<1>7. Delay!DelayInBand' /\ WithinBudgets'
    BY <1>2 DEF Delay!DelayInBand, WithinBudgets
<1>8. \/ strategy.kind = "none"
      \/ Delay!Limited(strategy.maxAttempts) /\ attempts' >= strategy.maxAttempts
      \/ /\ Delay!Limited(strategy.maxTotal)
         /\ elapsed + Delay!Longest(strategy, attempts') > strategy.maxTotal
  <2>1. CASE Delay!DelaySeconds(attempts') = {}
      BY <1>3, <2>1, SomeAnswer
  <2>2. CASE \E d \in Delay!DelaySeconds(attempts') : ~Delay!Allowed(attempts', d)
    <3>1. PICK d \in Delay!DelaySeconds(attempts') : ~Delay!Allowed(attempts', d)
        BY <2>2
    <3>2. d \in Nat /\ d =< Delay!Longest(strategy, attempts')
        BY <1>3, <1>5, <3>1, AnswersInBand
    <3>3. Delay!Longest(strategy, attempts') \in Nat
        BY <1>3, <1>5, LongestType
    <3>4. CASE Delay!Limited(strategy.maxAttempts) /\ ~(attempts' < strategy.maxAttempts)
        BY <1>4, <1>5, <3>4
    <3>5. CASE Delay!Limited(strategy.maxTotal) /\ ~(elapsed + d =< strategy.maxTotal)
        BY <1>3, <1>4, <3>2, <3>3, <3>5
    <3> QED  BY <3>1, <3>4, <3>5 DEF Delay!Allowed
  <2> QED  BY <1>1, <2>1, <2>2
<1>9. Delay!BudgetsDecide'
  <2>1. Delay!Limited(strategy.maxAttempts) => attempts' =< strategy.maxAttempts
    <3>1. Delay!Limited(strategy.maxAttempts) => attempts < strategy.maxAttempts
        BY <1>2 DEF RetryInv, WithinBudgets
    <3> QED  BY <1>2, <1>3, <1>4, <3>1
  <2> QED  BY <1>2, <1>8, <2>1 DEF RetryInv, Delay!BudgetsDecide, Delay!GivenUpByBudget
<1> QED  BY <1>6, <1>7, <1>9 DEF RetryInv

\* The next attempt starts when the delay is over, and a claim's time later.
LEMMA RetryKeeps ==
    ASSUME Delay!Knobs, RetryInv, Delay!Retry
    PROVE  RetryInv'
<1>1. PICK late \in {0, Lateness} : elapsed' = elapsed + delay + late
    BY DEF Delay!Retry
<1>2. /\ rowPc = "waiting" /\ rowPc' = "running"
      /\ strategy' = strategy /\ attempts' = attempts /\ delay' = delay
    BY DEF Delay!Retry
<1>3. /\ strategy \in Delay!Strategies /\ attempts \in 0 .. MaxNacks
      /\ elapsed \in Nat /\ delay \in Nat
    BY DEF RetryInv, Delay!TypeOK
<1>4. /\ strategy.maxTotal \in Nat /\ Lateness \in Nat
    BY <1>3, KnobTypes
<1>5. elapsed' \in Nat
    BY <1>1, <1>3, <1>4
<1>6. Delay!TypeOK'
    BY <1>2, <1>3, <1>5 DEF Delay!TypeOK
<1>7. Delay!DelayInBand' /\ WithinBudgets'
    BY <1>2 DEF RetryInv, Delay!DelayInBand, WithinBudgets
<1>8. Delay!BudgetsDecide'
  <2>1. ASSUME Delay!Limited(strategy.maxTotal)
        PROVE  elapsed' =< strategy.maxTotal + Lateness
    <3>1. elapsed + delay =< strategy.maxTotal
        BY <1>2, <2>1 DEF RetryInv, WithinBudgets
    <3> QED  BY <1>1, <1>3, <1>4, <3>1
  <2> QED  BY <1>2, <2>1 DEF RetryInv, Delay!BudgetsDecide
<1> QED  BY <1>6, <1>7, <1>8 DEF RetryInv

\* Every step keeps it.
LEMMA RetryNext ==
    ASSUME Delay!Knobs, RetryInv, [Delay!Next]_Delay!vars
    PROVE  RetryInv'
<1>1. CASE UNCHANGED Delay!vars
    BY <1>1 DEF Delay!vars, RetryInv, WithinBudgets, Delay!TypeOK, Delay!DelayInBand,
                Delay!BudgetsDecide, Delay!GivenUpByBudget
<1> QED  BY <1>1, NackRetriesKeeps, NackGivesUpKeeps, RetryKeeps DEF Delay!Next

\* What is known of the retries of a row, for every strategy and all limits.
THEOREM RetryInvariant == ASSUME Delay!Knobs PROVE Delay!Spec => []RetryInv
<1>1. Delay!Init => RetryInv
    BY RetryInit
<1>2. RetryInv /\ [Delay!Next]_Delay!vars => RetryInv'
    BY RetryNext
<1> QED  BY <1>1, <1>2, PTL DEF Delay!Spec

\* A delay is within half the jitter factor of the exact one and never above the
\* caps, in overflow too (retry.py:98-178).
THEOREM DelaysStayInBand == ASSUME Delay!Knobs PROVE Delay!Spec => []Delay!DelayInBand
<1>1. RetryInv => Delay!DelayInBand
    BY DEF RetryInv
<1> QED  BY <1>1, RetryInvariant, PTL

\* The retries of a row end by a budget its user set and by nothing else, and none
\* is made beyond them (retry.py:65-80).
THEOREM OnlyBudgetsEndRetries == ASSUME Delay!Knobs PROVE Delay!Spec => []Delay!BudgetsDecide
<1>1. RetryInv => Delay!BudgetsDecide
    BY DEF RetryInv
<1> QED  BY <1>1, RetryInvariant, PTL
=============================================================================
