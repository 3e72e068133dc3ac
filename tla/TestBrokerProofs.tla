-------------------------- MODULE TestBrokerProofs --------------------------
(***************************************************************************)
(* Proofs about TestBroker: a publish in a sync context runs what it       *)
(* stored, once; a loop context has its own loops and copies only; and     *)
(* what a user sees through all of it is at-least-once delivery.  For      *)
(* every number of rows, tasks, contexts, workers and deliveries, every    *)
(* depth of nested publishes and every size of the queue.                  *)
(***************************************************************************)
EXTENDS TestBroker, SequenceTheorems, FiniteSetTheorems, TLAPS

-----------------------------------------------------------------------------
\* The inductive invariant.

\* The loops of the open loop context, and what is left of earlier ones.
\* Quiet: no stop() of a handler has reached the context that is counted.
Quiet == harness.count \notin hist.stopped \cup hist.late
LoopsInv ==
    /\ spawns =< harness.count
    /\ harness.open => harness.count > 0
    /\ harness.spawned <=> InLoop
    /\ sub.running => harness.open
    /\ sub.tasks \subseteq {spawns}
    /\ InSync => fetchers = {}
    /\ InLoop => \A n \in DOMAIN queue.items : queue.items[n].from = harness.count
    /\ ~InLoop => sub.tasks = {} /\ queue = EmptyQueue
    /\ InLoop /\ Quiet => /\ sub.running /\ ~sub.stopping
                          /\ sub.tasks = {spawns} /\ fetchers = {spawns}
    /\ \A w \in Worker :
          /\ stop[w].at # "none" => ~Quiet
          /\ worker[w].at # "off" => /\ harness.count > 0
                                     /\ w[1] \in sub.tasks \/ w \in hist.caught

\* Ids not drawn yet are unknown; a row that was stored is, or left in some way.
IdsInv ==
    \A i \in Id :
       /\ i >= store.nextId => i \notin Live(store) /\ hist.runs[i] = 0 /\ hist.left[i] = "unborn"
       /\ i < store.nextId => i \in Live(store) \/ hist.left[i] # "unborn"

\* The copies in the queue are of later and later deliveries, and its row has
\* run less often than that.
ItemsOK(l, s, runs) ==
    /\ \A n \in DOMAIN l :
          /\ l[n].id < s.nextId /\ runs[l[n].id] < l[n].deliveries
          /\ l[n].id \in Live(s) => l[n].deliveries =< s.rows[l[n].id].deliveries
    /\ \A m, n \in DOMAIN l : m < n /\ l[m].id = l[n].id => l[m].deliveries < l[n].deliveries
RunsOK(s, runs) == \A i \in Live(s) : runs[i] =< s.rows[i].deliveries
QueueInv ==
    /\ ItemsOK(queue.items, store, hist.runs)
    /\ harness.loop => RunsOK(store, hist.runs)

\* A worker in its handler has run it; in a sync context its row is of a store left behind.
WorkerOK(x, s, h, loop) ==
    /\ x.at \in {"handling", "leaving", "stopping"} =>
          /\ x.copy \in Copy /\ x.copy.id < s.nextId /\ h.runs[x.copy.id] > 0
          /\ ~loop => x.copy.id \notin Live(s)
    /\ x.at \in {"leaving", "stopping"} =>
          /\ x.outcome \in Outcome
          /\ x.outcome = "ack" => x.copy.id \in h.succeeded
WorkersInv == \A w \in Worker : WorkerOK(worker[w], store, hist, harness.loop)

\* What waits: rows on a list, that have not run.
ListOK(l, n, runs) ==
    \A j \in DOMAIN l : /\ l[j] < n /\ runs[l[j]] = 0
                        /\ \A k \in DOMAIN l : l[j] = l[k] => j = k
Waits(f) == Range(f.todo) \cup (IF f.at = "entering" THEN {f.id} ELSE {})
FrameOK(f, n, h) ==
    /\ ListOK(f.todo, n, h.runs)
    /\ f.id < n
    /\ IF f.at = "entering" THEN h.runs[f.id] = 0 /\ f.id \notin Range(f.todo)
                            ELSE h.runs[f.id] > 0
    /\ f.at = "leaving" => /\ f.outcome \in Outcome
                           /\ f.outcome = "ack" => f.id \in h.succeeded
CallsOK(c, n, h) ==
    /\ \A t \in Task : \A k \in DOMAIN c[t] : FrameOK(c[t][k], n, h)
    /\ \A t, u \in Task : \A k \in DOMAIN c[t], m \in DOMAIN c[u] :
          Waits(c[t][k]) \cap Waits(c[u][m]) # {} => t = u /\ k = m
Apart(S, c) == \A t \in Task : \A k \in DOMAIN c[t] : S \cap Waits(c[t][k]) = {}
WaitOK(s, c, h, hand) ==
    /\ ListOK(hand, s.nextId, h.runs) /\ ListOK(s.dispatchable, s.nextId, h.runs)
    /\ Range(hand) \cap Range(s.dispatchable) = {}
    /\ Apart(Range(hand), c) /\ Apart(Range(s.dispatchable), c)
    /\ CallsOK(c, s.nextId, h)
OnList(c, i) == \E t \in Task : \E k \in DOMAIN c[t] : i \in Range(c[t][k].todo)
Covered(s, c, h, hand) ==
    \A i \in Live(s) :
       /\ h.runs[i] =< 1
       /\ s.rows[i].queue \in Served /\ h.runs[i] = 0 /\ s.rows[i].token = 0
             => \/ i \in h.excused \cup Range(s.dispatchable) \cup Range(hand)
                \/ OnList(c, i)
SyncInv ==
    /\ WaitOK(store, call, hist, << >>)
    /\ ~InSync => store.dispatchable = << >> /\ \A t \in Task : call[t] = << >>
    /\ ~harness.loop => Covered(store, call, hist, << >>)
BrokerInv == TypeOK /\ LoopsInv /\ IdsInv /\ QueueInv /\ WorkersInv /\ SyncInv
-----------------------------------------------------------------------------
\* The store: what each method does to what the invariants speak of.

\* A store that is typed is a record over its live rows.
LEMMA StoreFacts ==
    ASSUME NEW s, StoreOK(s)
    PROVE  /\ Live(s) \in SUBSET Id
           /\ s \in [rows: [Live(s) -> Row], nextId: 1 .. MaxRows + 1,
                     dispatchable: Seq(Id), dlq: SUBSET Id]
           /\ s.rows \in [Live(s) -> Row] /\ s.nextId \in 1 .. MaxRows + 1
           /\ s.dispatchable \in Seq(Id) /\ s.dlq \in SUBSET Id
<1>1. PICK S \in SUBSET Id : s \in [rows: [S -> Row], nextId: 1 .. MaxRows + 1,
                                    dispatchable: Seq(Id), dlq: SUBSET Id]
    BY DEF StoreOK
<1>2. s.rows \in [S -> Row]  BY <1>1
<1>3. Live(s) = S  BY <1>2 DEF Live
<1> QED  BY <1>1, <1>3

\* A record over some ids is a store with these rows.
LEMMA StoreIs ==
    ASSUME NEW S \in SUBSET Id,
           NEW r \in [rows: [S -> Row], nextId: 1 .. MaxRows + 1,
                     dispatchable: Seq(Id), dlq: SUBSET Id]
    PROVE  StoreOK(r) /\ Live(r) = S
BY DEF StoreOK, Live

\* A new store is empty.
LEMMA NewStoreFacts ==
    ASSUME NEW n \in 1 .. MaxRows + 1
    PROVE  /\ StoreOK(NewStore(n)) /\ Live(NewStore(n)) = {}
           /\ NewStore(n).nextId = n /\ NewStore(n).dlq = {} /\ NewStore(n).dispatchable = << >>
<1> DEFINE none == [i \in {} |-> 0]
<1>1. none \in [{} -> Row]  OBVIOUS
<1>2. NewStore(n) = [rows |-> none, nextId |-> n, dispatchable |-> << >>, dlq |-> {}]
    BY DEF NewStore
<1>3. << >> \in Seq(Id)  OBVIOUS
<1> HIDE DEF none
<1>5. NewStore(n) \in [rows: [{} -> Row], nextId: 1 .. MaxRows + 1,
                       dispatchable: Seq(Id), dlq: SUBSET Id]
    BY <1>1, <1>2, <1>3
<1>6. StoreOK(NewStore(n)) /\ Live(NewStore(n)) = {}
    BY <1>5, StoreIs
<1>7. NewStore(n).nextId = n
    BY <1>2
<1>8. NewStore(n).dlq = {}
    BY <1>2
<1>9. NewStore(n).dispatchable = << >>
    BY <1>2
<1> QED  BY <1>6, <1>7, <1>8, <1>9

\* r is s with n more rows, or a deadline moved: nobody has leased, run or
\* delivered what is new.
Grew(s, r, n) ==
    /\ StoreOK(r)
    /\ Live(r) = Live(s) \cup Fresh(s, n)
    /\ r.nextId = s.nextId + n /\ r.dlq = s.dlq
    /\ \A i \in Live(s) : /\ r.rows[i].queue = s.rows[i].queue
                          /\ r.rows[i].token = s.rows[i].token
                          /\ r.rows[i].deliveries = s.rows[i].deliveries

\* The ids an insert of n rows draws.
Ids(first, n) == [k \in 1 .. n |-> first + k - 1]
Drawn(s, n) == Ids(s.nextId, n)

\* r is s with rows more that are all on the list.
Stored(s, r) ==
    \E n \in Nat : /\ Grew(s, r, n) /\ s.nextId + n =< MaxRows + 1
                  /\ r.dispatchable = s.dispatchable \o Drawn(s, n)

\* _append.
LEMMA AppendedGrew ==
    ASSUME NEW s, StoreOK(s), NEW q \in Queue, NEW timer \in Timer \cup {NoTimer},
           NEW next \in Nat, NEW n \in Nat, s.nextId + n =< MaxRows + 1, FakeAssumption
    PROVE  /\ Grew(s, Appended(s, q, timer, next, n), n)
           /\ Appended(s, q, timer, next, n).dispatchable = s.dispatchable
<1> DEFINE row == [queue |-> q, timer |-> timer, next |-> next, at |-> 0,
                   token |-> 0, deliveries |-> 0]
           live == Live(s) \cup Fresh(s, n)
           rows == [i \in live |-> IF i \in Live(s) THEN s.rows[i] ELSE row]
           r == Appended(s, q, timer, next, n)
<1>1. row \in Row
    BY DEF Row, Token, FakeAssumption
<1>2. /\ Live(s) \in SUBSET Id
      /\ s \in [rows: [Live(s) -> Row], nextId: 1 .. MaxRows + 1,
                dispatchable: Seq(Id), dlq: SUBSET Id]
      /\ s.rows \in [Live(s) -> Row] /\ s.nextId \in 1 .. MaxRows + 1
      /\ s.dispatchable \in Seq(Id) /\ s.dlq \in SUBSET Id
    BY StoreFacts
<1>3. live \in SUBSET Id
  <2>1. MaxRows \in Nat  BY DEF FakeAssumption
  <2>2. Fresh(s, n) \subseteq Id  BY <1>2, <2>1 DEF Fresh, Id
  <2> QED  BY <1>2, <2>2
<1>4. rows \in [live -> Row] /\ DOMAIN rows = live
    BY <1>1, <1>2
<1>5. \A i \in Live(s) : rows[i] = s.rows[i]
    OBVIOUS
<1>6. r = [s EXCEPT !.rows = rows, !.nextId = s.nextId + n]
    BY <1>2 DEF Appended
<1> HIDE DEF rows, r, row, live
<1>7. /\ r.rows = rows /\ r.nextId = s.nextId + n
      /\ r.dispatchable = s.dispatchable /\ r.dlq = s.dlq
    BY <1>2, <1>6
<1>8. s.nextId + n \in 1 .. MaxRows + 1
    BY <1>2 DEF FakeAssumption
<1>9. r \in [rows: [live -> Row], nextId: 1 .. MaxRows + 1,
             dispatchable: Seq(Id), dlq: SUBSET Id]
    BY <1>2, <1>4, <1>6, <1>8
<1>10. StoreOK(r)
    BY <1>3, <1>9 DEF StoreOK
<1>11. Live(r) = live
    BY <1>4, <1>7 DEF Live
<1>12. Grew(s, r, n)
    BY <1>5, <1>7, <1>10, <1>11 DEF Grew, live
<1> QED  BY <1>7, <1>12 DEF r

\* A timer of the store is one of its rows.
LEMMA TimersLive ==
    ASSUME NEW s, NEW q, NEW timer
    PROVE  LiveTimers(s, q, timer) \subseteq Live(s)
BY DEF LiveTimers

\* _extend moves a deadline, and nothing else.
LEMMA ExtendedGrew ==
    ASSUME NEW s, StoreOK(s), NEW i \in Live(s), NEW next \in Nat, FakeAssumption
    PROVE  /\ Grew(s, ExtendedRow(s, i, next), 0)
           /\ ExtendedRow(s, i, next).dispatchable = s.dispatchable
           /\ ExtendedRow(s, i, next).nextId = s.nextId
<1>1. /\ Live(s) \in SUBSET Id
      /\ s \in [rows: [Live(s) -> Row], nextId: 1 .. MaxRows + 1,
                dispatchable: Seq(Id), dlq: SUBSET Id]
      /\ s.rows \in [Live(s) -> Row] /\ s.nextId \in 1 .. MaxRows + 1
    BY StoreFacts
<1>2. s.nextId + 0 = s.nextId /\ Fresh(s, 0) = {}
    BY <1>1 DEF Fresh, FakeAssumption
<1>3. CASE ExtendedRow(s, i, next) = s
    BY <1>2, <1>3 DEF Grew
<1>4. CASE ExtendedRow(s, i, next) = [s EXCEPT !.rows[i].next = next]
  <2> DEFINE r == ExtendedRow(s, i, next)
             rows == [s.rows EXCEPT ![i].next = next]
  <2>1. rows \in [Live(s) -> Row]
      BY <1>1 DEF Row
  <2>2. \A j \in Live(s) : /\ rows[j].queue = s.rows[j].queue
                          /\ rows[j].token = s.rows[j].token
                          /\ rows[j].deliveries = s.rows[j].deliveries
      BY <1>1 DEF Row
  <2>3. r = [s EXCEPT !.rows = rows]
      BY <1>1, <1>4
  <2> HIDE DEF r, rows
  <2>4. /\ r.rows = rows /\ r.nextId = s.nextId /\ r.dispatchable = s.dispatchable
        /\ r.dlq = s.dlq
        /\ r \in [rows: [Live(s) -> Row], nextId: 1 .. MaxRows + 1,
                  dispatchable: Seq(Id), dlq: SUBSET Id]
      BY <1>1, <2>1, <2>3
  <2>5. StoreOK(r) /\ Live(r) = Live(s)
      BY <1>1, <2>4, StoreIs
  <2>6. Grew(s, r, 0)
      BY <1>2, <2>2, <2>4, <2>5 DEF Grew
  <2> QED  BY <2>4, <2>6 DEF r
<1> QED  BY <1>3, <1>4 DEF ExtendedRow

\* insert_batch, and insert of a row that is not there.
LEMMA BatchGrew ==
    ASSUME NEW s, StoreOK(s), NEW q \in Queue, NEW timer \in Timer \cup {NoTimer},
           NEW next \in Nat, NEW n \in Nat, s.nextId + n =< MaxRows + 1, FakeAssumption
    PROVE  /\ Grew(s, InsertedBatch(s, q, timer, next, n), n)
           /\ InsertedBatch(s, q, timer, next, n).dispatchable = s.dispatchable \o Drawn(s, n)
<1> DEFINE a == Appended(s, q, timer, next, n)
           r == InsertedBatch(s, q, timer, next, n)
<1>1. Grew(s, a, n) /\ a.dispatchable = s.dispatchable
    BY AppendedGrew
<1>2. StoreOK(a)
    BY <1>1 DEF Grew
<1>3. /\ Live(a) \in SUBSET Id
      /\ a \in [rows: [Live(a) -> Row], nextId: 1 .. MaxRows + 1,
                dispatchable: Seq(Id), dlq: SUBSET Id]
    BY <1>2, StoreFacts
<1>4. r = [a EXCEPT !.dispatchable = a.dispatchable \o Drawn(s, n)]
    BY <1>3 DEF InsertedBatch, Drawn, Ids
<1>5. Drawn(s, n) \in Seq(Id)
  <2>1. s.nextId \in 1 .. MaxRows + 1 /\ MaxRows \in Nat
      BY StoreFacts DEF FakeAssumption
  <2>2. \A k \in 1 .. n : s.nextId + k - 1 \in Id
      BY <2>1 DEF Id
  <2> QED  BY <2>2 DEF Drawn, Ids
<1>6. a.dispatchable \o Drawn(s, n) \in Seq(Id)
    BY <1>3, <1>5
<1> HIDE DEF a, r
<1>7. /\ r.rows = a.rows /\ r.nextId = a.nextId /\ r.dlq = a.dlq
      /\ r.dispatchable = s.dispatchable \o Drawn(s, n)
      /\ r \in [rows: [Live(a) -> Row], nextId: 1 .. MaxRows + 1,
                dispatchable: Seq(Id), dlq: SUBSET Id]
    BY <1>1, <1>3, <1>4, <1>6
<1>8. StoreOK(r) /\ Live(r) = Live(a)
    BY <1>3, <1>7, StoreIs
<1>9. Grew(s, r, n)
    BY <1>1, <1>7, <1>8 DEF Grew
<1> QED  BY <1>7, <1>9 DEF r

\* insert stores one row or none.
LEMMA InsertedGrew ==
    ASSUME NEW s, StoreOK(s), NEW q \in Queue, NEW timer \in Timer \cup {NoTimer},
           NEW next \in Nat, NEW c \in {"ignore", "extend"}, FakeAssumption,
           NEW r, r = Inserted(s, q, timer, next, c), r.nextId =< MaxRows + 1
    PROVE  Stored(s, r)
<1>1. /\ s \in [rows: [Live(s) -> Row], nextId: 1 .. MaxRows + 1,
                dispatchable: Seq(Id), dlq: SUBSET Id]
      /\ s.nextId \in 1 .. MaxRows + 1 /\ s.dispatchable \in Seq(Id)
    BY StoreFacts
<1>2. s.dispatchable \o Drawn(s, 0) = s.dispatchable
  <2>1. Drawn(s, 0) = << >>  BY DEF Drawn, Ids
  <2> QED  BY <1>1, <2>1
<1>3. CASE LiveTimers(s, q, timer) = {}
  <2>1. r = InsertedBatch(s, q, timer, next, 1)
      BY <1>3 DEF Inserted
  <2>2. InsertedBatch(s, q, timer, next, 1).nextId = s.nextId + 1
      BY <1>1 DEF InsertedBatch, Appended
  <2>3. 1 \in Nat /\ s.nextId + 1 =< MaxRows + 1
      BY <2>1, <2>2
  <2>4. /\ Grew(s, InsertedBatch(s, q, timer, next, 1), 1)
        /\ InsertedBatch(s, q, timer, next, 1).dispatchable = s.dispatchable \o Drawn(s, 1)
      BY <2>3, BatchGrew
  <2> QED  BY <2>1, <2>3, <2>4 DEF Stored
<1>4. CASE LiveTimers(s, q, timer) # {}
  <2> DEFINE i == CHOOSE j \in LiveTimers(s, q, timer) : TRUE
  <2>1. i \in Live(s)
      BY <1>4, TimersLive
  <2> HIDE DEF i
  <2>2. CASE c = "extend"
    <3>1. r = ExtendedRow(s, i, next)
        BY <1>4, <2>2 DEF Inserted, i
    <3>2. Grew(s, ExtendedRow(s, i, next), 0)
          /\ ExtendedRow(s, i, next).dispatchable = s.dispatchable
        BY <2>1, ExtendedGrew
    <3>3. s.nextId + 0 =< MaxRows + 1 /\ 0 \in Nat
        BY <1>1
    <3>4. Grew(s, r, 0) /\ r.dispatchable = s.dispatchable \o Drawn(s, 0)
        BY <1>2, <3>1, <3>2
    <3> QED  BY <3>3, <3>4 DEF Stored
  <2>3. CASE c # "extend"
    <3>1. r = s
        BY <1>4, <2>3 DEF Inserted
    <3>2. s.nextId + 0 = s.nextId /\ Fresh(s, 0) = {}
        BY <1>1 DEF Fresh, FakeAssumption
    <3>3. Grew(s, s, 0)
        BY <3>2 DEF Grew
    <3> QED  BY <1>1, <1>2, <3>1, <3>3 DEF Stored
  <2> QED  BY <2>2, <2>3
<1> QED  BY <1>3, <1>4

\* feed stores one row or none, and leaves it off the list.
LEMMA FedGrew ==
    ASSUME NEW s, StoreOK(s), NEW q \in Queue, NEW timer \in Timer \cup {NoTimer},
           NEW next \in Nat, s.nextId =< MaxRows, FakeAssumption
    PROVE  \E n \in Nat : /\ Grew(s, Fed(s, q, timer, next), n)
                          /\ Fed(s, q, timer, next).dispatchable = s.dispatchable
<1>1. s.nextId \in 1 .. MaxRows + 1
    BY StoreFacts
<1>2. CASE LiveTimers(s, q, timer) # {}
  <2>1. s.nextId + 0 = s.nextId /\ Fresh(s, 0) = {}
      BY <1>1 DEF Fresh, FakeAssumption
  <2>2. Grew(s, s, 0)
      BY <2>1 DEF Grew
  <2> QED  BY <1>2, <2>2 DEF Fed
<1>3. CASE LiveTimers(s, q, timer) = {}
  <2>1. 1 \in Nat /\ s.nextId + 1 =< MaxRows + 1
      BY <1>1 DEF FakeAssumption
  <2>2. /\ Grew(s, Appended(s, q, timer, next, 1), 1)
        /\ Appended(s, q, timer, next, 1).dispatchable = s.dispatchable
      BY <2>1, AppendedGrew
  <2> QED  BY <1>3, <2>1, <2>2 DEF Fed
<1> QED  BY <1>2, <1>3

\* Taking the list leaves the rows.
LEMMA TakenFacts ==
    ASSUME NEW s, StoreOK(s)
    PROVE  /\ StoreOK(Taken(s)) /\ Live(Taken(s)) = Live(s) /\ Taken(s).rows = s.rows
           /\ Taken(s).nextId = s.nextId /\ Taken(s).dlq = s.dlq
           /\ Taken(s).dispatchable = << >>
<1>1. /\ Live(s) \in SUBSET Id
      /\ s \in [rows: [Live(s) -> Row], nextId: 1 .. MaxRows + 1,
                dispatchable: Seq(Id), dlq: SUBSET Id]
    BY StoreFacts
<1>2. << >> \in Seq(Id)
    OBVIOUS
<1>3. /\ Taken(s) \in [rows: [Live(s) -> Row], nextId: 1 .. MaxRows + 1,
                       dispatchable: Seq(Id), dlq: SUBSET Id]
      /\ Taken(s).rows = s.rows /\ Taken(s).nextId = s.nextId /\ Taken(s).dlq = s.dlq
      /\ Taken(s).dispatchable = << >>
    BY <1>1, <1>2 DEF Taken
<1>4. StoreOK(Taken(s)) /\ Live(Taken(s)) = Live(s)
    BY <1>1, <1>3, StoreIs
<1> QED  BY <1>3, <1>4

\* A row that _claim_fake_row has claimed is still a row, delivered once more.
LEMMA ClaimedRow ==
    ASSUME NEW x \in Row, NEW token \in Token, now \in 0 .. MaxTime
    PROVE  LET y == [x EXCEPT !.token = token, !.at = now, !.deliveries = @ + 1]
           IN  /\ y \in Row /\ y.queue = x.queue /\ y.token = token
               /\ y.deliveries = x.deliveries + 1
<1> DEFINE y == [x EXCEPT !.token = token, !.at = now, !.deliveries = @ + 1]
           leased == [x EXCEPT !.token = token]
           dated == [leased EXCEPT !.at = now]
           counted == [dated EXCEPT !.deliveries = x.deliveries + 1]
<1>1. leased \in Row  BY DEF Row
<1>2. dated \in Row
  <2> HIDE DEF leased
  <2> QED  BY <1>1 DEF Row
<1>3. counted \in Row
  <2> HIDE DEF dated
  <2> QED  BY <1>2 DEF Row
<1>4. y = counted  BY DEF Row
<1>5. y.queue = x.queue /\ y.token = token /\ y.deliveries = x.deliveries + 1
    BY DEF Row
<1> QED  BY <1>3, <1>4, <1>5

\* A row that mark_pending_with_lease makes due again is still a row.
LEMMA RetriedRow ==
    ASSUME NEW x \in Row, NEW next \in Nat, FakeAssumption
    PROVE  LET y == [x EXCEPT !.next = next, !.token = 0]
           IN  y \in Row /\ y.queue = x.queue /\ y.deliveries = x.deliveries
<1> DEFINE y == [x EXCEPT !.next = next, !.token = 0]
           later == [x EXCEPT !.next = next]
           free == [later EXCEPT !.token = 0]
<1>1. later \in Row  BY DEF Row
<1>2. 0 \in Token  BY DEF Token, FakeAssumption
<1>3. free \in Row  BY <1>1, <1>2 DEF Row
<1>4. y = free  BY DEF Row
<1>5. y.queue = x.queue /\ y.deliveries = x.deliveries  BY DEF Row
<1> QED  BY <1>3, <1>4, <1>5

\* r is s with the rows of S claimed under a token.
Leased(s, r, S, token) ==
    /\ StoreOK(r) /\ Live(r) = Live(s)
    /\ r.nextId = s.nextId /\ r.dlq = s.dlq /\ r.dispatchable = s.dispatchable
    /\ \A i \in Live(s) :
          /\ r.rows[i].queue = s.rows[i].queue
          /\ i \in S => /\ r.rows[i].token = token
                        /\ r.rows[i].deliveries = s.rows[i].deliveries + 1
          /\ i \notin S => r.rows[i] = s.rows[i]

\* _claim_fake_row.
LEMMA ClaimedLeased ==
    ASSUME NEW s, StoreOK(s), NEW S, NEW token \in Token, now \in 0 .. MaxTime
    PROVE  Leased(s, Claimed(s, S, token, now), S, token)
<1> DEFINE claimed(i) == [s.rows[i] EXCEPT !.token = token, !.at = now, !.deliveries = @ + 1]
           rows == [i \in Live(s) |-> IF i \in S THEN claimed(i) ELSE s.rows[i]]
           r == Claimed(s, S, token, now)
<1>1. /\ Live(s) \in SUBSET Id
      /\ s \in [rows: [Live(s) -> Row], nextId: 1 .. MaxRows + 1,
                dispatchable: Seq(Id), dlq: SUBSET Id]
      /\ s.rows \in [Live(s) -> Row]
    BY StoreFacts
<1>2. \A i \in Live(s) : /\ claimed(i) \in Row
                         /\ claimed(i).queue = s.rows[i].queue /\ claimed(i).token = token
                         /\ claimed(i).deliveries = s.rows[i].deliveries + 1
  <2> SUFFICES ASSUME NEW i \in Live(s)
               PROVE  /\ claimed(i) \in Row
                      /\ claimed(i).queue = s.rows[i].queue /\ claimed(i).token = token
                      /\ claimed(i).deliveries = s.rows[i].deliveries + 1
      OBVIOUS
  <2>1. s.rows[i] \in Row
      BY <1>1
  <2> QED  BY <2>1, ClaimedRow
<1>3. r = [s EXCEPT !.rows = rows]
    BY DEF Claimed
<1> HIDE DEF claimed
<1>4. rows \in [Live(s) -> Row]
    BY <1>1, <1>2
<1>5. \A i \in Live(s) : /\ rows[i].queue = s.rows[i].queue
                         /\ i \in S => /\ rows[i].token = token
                                       /\ rows[i].deliveries = s.rows[i].deliveries + 1
                         /\ i \notin S => rows[i] = s.rows[i]
    BY <1>2
<1> HIDE DEF rows, r
<1>6. /\ r \in [rows: [Live(s) -> Row], nextId: 1 .. MaxRows + 1,
                dispatchable: Seq(Id), dlq: SUBSET Id]
      /\ r.rows = rows /\ r.nextId = s.nextId /\ r.dlq = s.dlq
      /\ r.dispatchable = s.dispatchable
    BY <1>1, <1>3, <1>4
<1>7. StoreOK(r) /\ Live(r) = Live(s)
    BY <1>1, <1>6, StoreIs
<1>8. Leased(s, r, S, token)
    BY <1>5, <1>6, <1>7 DEF Leased
<1> QED  BY <1>8 DEF r

\* r is s without row i.
Lost(s, r, i) ==
    /\ StoreOK(r) /\ Live(r) = Live(s) \ {i}
    /\ r.nextId = s.nextId /\ r.dispatchable = s.dispatchable
    /\ \A j \in Live(r) : r.rows[j] = s.rows[j]

\* r is s with row i unleased.
Released(s, r, i) ==
    /\ StoreOK(r) /\ Live(r) = Live(s)
    /\ r.nextId = s.nextId /\ r.dispatchable = s.dispatchable /\ r.dlq = s.dlq
    /\ \A j \in Live(s) : /\ r.rows[j].queue = s.rows[j].queue
                          /\ r.rows[j].deliveries = s.rows[j].deliveries
                          /\ j # i => r.rows[j] = s.rows[j]

\* A record that is s without a row, with or without a dead letter more.
LEMMA LostRow ==
    ASSUME NEW s, StoreOK(s), NEW i, NEW dlq \in SUBSET Id
    PROVE  LET r == [s EXCEPT !.rows = Without(@, {i}), !.dlq = dlq]
           IN  Lost(s, r, i) /\ r.dlq = dlq
<1> DEFINE rows == Without(s.rows, {i})
           r == [s EXCEPT !.rows = rows, !.dlq = dlq]
<1>1. /\ Live(s) \in SUBSET Id
      /\ s \in [rows: [Live(s) -> Row], nextId: 1 .. MaxRows + 1,
                dispatchable: Seq(Id), dlq: SUBSET Id]
      /\ s.rows \in [Live(s) -> Row]
    BY StoreFacts
<1>2. /\ rows \in [Live(s) \ {i} -> Row]
      /\ \A j \in Live(s) \ {i} : rows[j] = s.rows[j]
    BY <1>1 DEF Without
<1> HIDE DEF rows
<1>3. /\ r \in [rows: [Live(s) \ {i} -> Row], nextId: 1 .. MaxRows + 1,
                dispatchable: Seq(Id), dlq: SUBSET Id]
      /\ r.rows = rows /\ r.nextId = s.nextId /\ r.dlq = dlq
      /\ r.dispatchable = s.dispatchable
    BY <1>1, <1>2
<1>4. Live(s) \ {i} \in SUBSET Id
    BY <1>1
<1> HIDE DEF r
<1>5. StoreOK(r) /\ Live(r) = Live(s) \ {i}
    BY <1>3, <1>4, StoreIs
<1>6. Lost(s, r, i) /\ r.dlq = dlq
    BY <1>2, <1>3, <1>5 DEF Lost
<1> QED  BY <1>6 DEF r, rows

\* cancel_timer.
LEMMA CancelledLost ==
    ASSUME NEW s, StoreOK(s), NEW i
    PROVE  Lost(s, Cancelled(s, i), i) /\ Cancelled(s, i).dlq = s.dlq
<1> DEFINE r == [s EXCEPT !.rows = Without(@, {i}), !.dlq = s.dlq]
<1>1. /\ s \in [rows: [Live(s) -> Row], nextId: 1 .. MaxRows + 1,
                dispatchable: Seq(Id), dlq: SUBSET Id]
      /\ s.dlq \in SUBSET Id
    BY StoreFacts
<1>2. Lost(s, r, i) /\ r.dlq = s.dlq
    BY <1>1, LostRow
<1>3. Cancelled(s, i) = r
    BY <1>1 DEF Cancelled
<1> QED  BY <1>2, <1>3

\* The write of an outcome: nothing, unless the token is the row's; then the
\* row is due again, or it is gone, with a dead letter if it was given up on.
LEMMA WrittenFacts ==
    ASSUME NEW s, StoreOK(s), NEW i \in Id, NEW token, NEW o \in Outcome, NEW d \in Nat,
           now \in Nat, FakeAssumption
    PROVE  LET r == Written(s, i, token, o, d) IN
           /\ ~TokenMatches(s, i, token) => r = s
           /\ TokenMatches(s, i, token) /\ o = "retry" => Released(s, r, i)
           /\ TokenMatches(s, i, token) /\ o # "retry" =>
                 /\ Lost(s, r, i)
                 /\ r.dlq = IF o = "dead" /\ HasDLQ THEN s.dlq \cup {i} ELSE s.dlq
<1> DEFINE r == Written(s, i, token, o, d)
<1>1. /\ Live(s) \in SUBSET Id
      /\ s \in [rows: [Live(s) -> Row], nextId: 1 .. MaxRows + 1,
                dispatchable: Seq(Id), dlq: SUBSET Id]
      /\ s.rows \in [Live(s) -> Row] /\ s.dlq \in SUBSET Id
    BY StoreFacts
<1>2. ASSUME ~TokenMatches(s, i, token)
      PROVE  r = s
    BY <1>2 DEF Written, MarkedPending, Deleted
<1>3. ASSUME TokenMatches(s, i, token), o = "retry"
      PROVE  Released(s, r, i)
  <2> DEFINE row == [s.rows[i] EXCEPT !.next = now + d, !.token = 0]
             rows == [s.rows EXCEPT ![i] = row]
  <2>1. i \in Live(s) /\ s.rows[i] \in Row
      BY <1>1, <1>3 DEF TokenMatches
  <2>2. /\ row \in Row /\ row.queue = s.rows[i].queue
        /\ row.deliveries = s.rows[i].deliveries
    <3>1. now + d \in Nat  OBVIOUS
    <3>2. \A x \in Row, n \in Nat : LET y == [x EXCEPT !.next = n, !.token = 0]
             IN  y \in Row /\ y.queue = x.queue /\ y.deliveries = x.deliveries
        BY RetriedRow
    <3> QED  BY <2>1, <3>1, <3>2
  <2>3. r = [s EXCEPT !.rows[i].next = now + d, !.rows[i].token = 0]
      BY <1>3 DEF Written, MarkedPending
  <2>4. r = [s EXCEPT !.rows = rows]
      BY <1>1, <2>1, <2>3
  <2> HIDE DEF row, r
  <2>5. /\ rows \in [Live(s) -> Row]
        /\ \A j \in Live(s) : /\ rows[j].queue = s.rows[j].queue
                              /\ rows[j].deliveries = s.rows[j].deliveries
                              /\ j # i => rows[j] = s.rows[j]
      BY <1>1, <2>1, <2>2
  <2> HIDE DEF rows
  <2>6. /\ r \in [rows: [Live(s) -> Row], nextId: 1 .. MaxRows + 1,
                  dispatchable: Seq(Id), dlq: SUBSET Id]
        /\ r.rows = rows /\ r.nextId = s.nextId /\ r.dlq = s.dlq
        /\ r.dispatchable = s.dispatchable
      BY <1>1, <2>4, <2>5
  <2>7. StoreOK(r) /\ Live(r) = Live(s)
      BY <1>1, <2>6, StoreIs
  <2> QED  BY <2>5, <2>6, <2>7 DEF Released
<1>4. ASSUME TokenMatches(s, i, token), o # "retry"
      PROVE  /\ Lost(s, r, i)
             /\ r.dlq = IF o = "dead" /\ HasDLQ THEN s.dlq \cup {i} ELSE s.dlq
  <2> DEFINE dlq == IF o = "dead" /\ HasDLQ THEN s.dlq \cup {i} ELSE s.dlq
             lost == [s EXCEPT !.rows = Without(@, {i}), !.dlq = dlq]
  <2>1. r = lost
      BY <1>4 DEF Written, Deleted
  <2>2. dlq \in SUBSET Id
      BY <1>1
  <2> HIDE DEF dlq, r
  <2>3. Lost(s, lost, i) /\ lost.dlq = dlq
      BY <2>2, LostRow
  <2> QED  BY <2>1, <2>3 DEF dlq
<1> QED  BY <1>2, <1>3, <1>4
-----------------------------------------------------------------------------
\* Lists of rows, and the frames of the publishes.

Calls == [Task -> Seq(Frame)]
History == [left: [Id -> {"unborn", "stored", "acked", "dead", "cancelled"}],
            runs: [Id -> Nat], succeeded: SUBSET Id, buried: SUBSET Id,
            excused: SUBSET Id, caught: SUBSET Worker,
            stopped: SUBSET (1 .. MaxContexts), late: SUBSET (1 .. MaxContexts)]
\* What history says of the contexts, and not of the rows.
Marks(h) == <<h.caught, h.stopped, h.late>>

\* A list stays in order as long as its rows do not run.
LEMMA ListKeeps ==
    ASSUME NEW l \in Seq(Id), NEW n \in Int, NEW m \in Int, n =< m, NEW runs, NEW more,
           ListOK(l, n, runs), \A i \in Range(l) : more[i] = runs[i]
    PROVE  ListOK(l, m, more)
<1>1. \A j \in DOMAIN l : l[j] \in Id
    OBVIOUS
<1>2. \A j \in DOMAIN l : l[j] \in Range(l)
    BY DEF Range
<1>3. \A j \in DOMAIN l : l[j] \in Int
    BY <1>1 DEF Id
<1> QED  BY <1>2, <1>3 DEF ListOK

\* The rows of a batch, behind those that wait already.
LEMMA ListGrows ==
    ASSUME NEW d \in Seq(Id), NEW first \in Nat, NEW n \in Nat,
           MaxRows \in Nat, first >= 1, first + n =< MaxRows + 1,
           NEW runs, ListOK(d, first, runs), \A i \in Id : i >= first => runs[i] = 0
    PROVE  LET l == d \o Ids(first, n) IN
           /\ l \in Seq(Id) /\ ListOK(l, first + n, runs)
           /\ Range(l) = Range(d) \cup (first .. first + n - 1)
<1> DEFINE fresh == Ids(first, n)
           l == d \o fresh
<1>1. PICK len \in Nat : len = Len(d) /\ DOMAIN d = 1 .. len
    OBVIOUS
<1>2. /\ fresh \in Seq(Id) /\ Len(fresh) = n
      /\ \A k \in 1 .. n : fresh[k] = first + k - 1
  <2>1. \A k \in 1 .. n : first + k - 1 \in Id
      BY DEF Id
  <2> QED  BY <2>1 DEF Ids
<1> HIDE DEF fresh
<1>3. /\ l \in Seq(Id) /\ Len(l) = len + n
      /\ \A k \in 1 .. len : l[k] = d[k]
      /\ \A k \in len + 1 .. len + n : l[k] = fresh[k - len]
  <2>1. /\ l \in Seq(Id) /\ Len(l) = Len(d) + Len(fresh)
        /\ \A k \in 1 .. Len(d) + Len(fresh) :
              l[k] = IF k =< Len(d) THEN d[k] ELSE fresh[k - Len(d)]
      BY <1>2, ConcatProperties
  <2> QED  BY <1>1, <1>2, <2>1
<1>4. \A k \in 1 .. len : d[k] \in Int /\ d[k] < first /\ runs[d[k]] = 0
  <2>1. \A k \in 1 .. len : d[k] \in Id
      BY <1>1
  <2>2. \A k \in 1 .. len : d[k] \in Int
      BY <2>1 DEF Id
  <2> QED  BY <1>1, <2>2 DEF ListOK
<1>5. \A j, k \in 1 .. len : d[j] = d[k] => j = k
    BY <1>1 DEF ListOK
<1> HIDE DEF l
<1>6. DOMAIN l = 1 .. len + n
    BY <1>3
<1>7. \A k \in len + 1 .. len + n : l[k] = first + (k - len) - 1
    BY <1>2, <1>3
<1>8. \A k \in len + 1 .. len + n : l[k] \in Id /\ l[k] >= first /\ l[k] < first + n
    BY <1>7 DEF Id
<1>9. \A k \in DOMAIN l : k \in Int /\ (k \in 1 .. len \/ k \in len + 1 .. len + n)
    BY <1>6
<1>10. \A k \in DOMAIN l : l[k] < first + n /\ runs[l[k]] = 0
  <2> SUFFICES ASSUME NEW k \in DOMAIN l
               PROVE  l[k] < first + n /\ runs[l[k]] = 0
      OBVIOUS
  <2>1. CASE k \in 1 .. len
    <3>1. l[k] = d[k] /\ d[k] \in Int /\ d[k] < first /\ runs[d[k]] = 0
        BY <1>3, <1>4, <2>1
    <3> QED  BY <3>1
  <2>2. CASE k \in len + 1 .. len + n
      BY <1>8, <2>2
  <2> QED  BY <1>9, <2>1, <2>2
<1>11. \A j, k \in DOMAIN l : l[j] = l[k] => j = k
  <2> SUFFICES ASSUME NEW j \in DOMAIN l, NEW k \in DOMAIN l, l[j] = l[k]
               PROVE  j = k
      OBVIOUS
  <2>1. CASE j \in 1 .. len /\ k \in 1 .. len
      BY <1>3, <1>5, <2>1
  <2>2. CASE j \in 1 .. len /\ k \in len + 1 .. len + n
    <3>1. l[j] = d[j] /\ d[j] \in Int /\ d[j] < first
        BY <1>3, <1>4, <2>2
    <3>2. l[k] \in Int /\ l[k] >= first
        BY <1>8, <2>2 DEF Id
    <3> QED  BY <3>1, <3>2
  <2>3. CASE j \in len + 1 .. len + n /\ k \in 1 .. len
    <3>1. l[k] = d[k] /\ d[k] \in Int /\ d[k] < first
        BY <1>3, <1>4, <2>3
    <3>2. l[j] \in Int /\ l[j] >= first
        BY <1>8, <2>3 DEF Id
    <3> QED  BY <3>1, <3>2
  <2>4. CASE j \in len + 1 .. len + n /\ k \in len + 1 .. len + n
    <3>1. first + (j - len) - 1 = first + (k - len) - 1
        BY <1>7, <2>4
    <3> QED  BY <1>9, <3>1
  <2> QED  BY <1>9, <2>1, <2>2, <2>3, <2>4
<1>12. Range(l) = Range(d) \cup (first .. first + n - 1)
  <2>1. ASSUME NEW k \in DOMAIN l
        PROVE  l[k] \in Range(d) \cup (first .. first + n - 1)
    <3>1. CASE k \in 1 .. len
        BY <1>1, <1>3, <3>1 DEF Range
    <3>2. CASE k \in len + 1 .. len + n
        BY <1>8, <3>2 DEF Id
    <3> QED  BY <1>9, <3>1, <3>2
  <2>2. ASSUME NEW k \in 1 .. len
        PROVE  d[k] \in Range(l)
    <3>1. k \in DOMAIN l /\ l[k] = d[k]
        BY <1>3, <1>6
    <3> QED  BY <3>1 DEF Range
  <2>3. ASSUME NEW i \in first .. first + n - 1
        PROVE  i \in Range(l)
    <3>1. PICK k \in len + 1 .. len + n : first + (k - len) - 1 = i
      <4>1. len + (i - first) + 1 \in len + 1 .. len + n
          OBVIOUS
      <4> QED  BY <4>1
    <3>2. k \in DOMAIN l /\ l[k] = i
        BY <1>6, <1>7, <3>1
    <3> QED  BY <3>2 DEF Range
  <2> QED  BY <1>1, <2>1, <2>2, <2>3 DEF Range
<1> QED  BY <1>3, <1>10, <1>11, <1>12 DEF l, fresh, ListOK

\* What is left of a list behind one of its rows.
LEMMA ListRest ==
    ASSUME NEW l \in Seq(Id), NEW k \in DOMAIN l, NEW n, NEW runs, ListOK(l, n, runs)
    PROVE  LET rest == SubSeq(l, k + 1, Len(l)) IN
           /\ rest \in Seq(Id) /\ ListOK(rest, n, runs)
           /\ Range(rest) = {l[j] : j \in k + 1 .. Len(l)}
           /\ l[k] \notin Range(rest)
<1> DEFINE rest == SubSeq(l, k + 1, Len(l))
<1>1. /\ Len(l) \in Nat /\ k \in 1 .. Len(l) /\ DOMAIN l = 1 .. Len(l)
    OBVIOUS
<1>2. /\ rest \in Seq(Id) /\ Len(rest) = Len(l) - k /\ DOMAIN rest = 1 .. Len(l) - k
      /\ \A j \in 1 .. Len(l) - k : rest[j] = l[k + j]
    BY <1>1
<1> HIDE DEF rest
<1>3. Range(rest) = {l[j] : j \in k + 1 .. Len(l)}
  <2>1. ASSUME NEW j \in DOMAIN rest
        PROVE  k + j \in k + 1 .. Len(l) /\ rest[j] = l[k + j]
    <3>1. j \in 1 .. Len(l) - k
        BY <1>2
    <3>2. rest[j] = l[k + j]
        BY <1>2, <3>1
    <3>3. k + j \in k + 1 .. Len(l)
        BY <1>1, <3>1
    <3> QED  BY <3>2, <3>3
  <2>2. ASSUME NEW j \in k + 1 .. Len(l)
        PROVE  j - k \in DOMAIN rest /\ rest[j - k] = l[j]
    <3>1. j - k \in 1 .. Len(l) - k /\ k + (j - k) = j
        BY <1>1
    <3>2. rest[j - k] = l[k + (j - k)]
        BY <1>2, <3>1
    <3> QED  BY <1>2, <3>1, <3>2
  <2> QED  BY <2>1, <2>2 DEF Range
<1>4. ListOK(rest, n, runs)
  <2>1. ASSUME NEW j \in DOMAIN rest
        PROVE  k + j \in DOMAIN l /\ rest[j] = l[k + j] /\ j \in Int
      BY <1>1, <1>2
  <2>2. ASSUME NEW j \in DOMAIN rest, NEW m \in DOMAIN rest, rest[j] = rest[m]
        PROVE  j = m
    <3>1. k + j = k + m
        BY <2>1, <2>2 DEF ListOK
    <3> QED  BY <1>1, <2>1, <3>1
  <2> QED  BY <2>1, <2>2 DEF ListOK
<1>5. l[k] \notin Range(rest)
  <2>1. ASSUME NEW j \in k + 1 .. Len(l), l[j] = l[k]
        PROVE  FALSE
    <3>1. j \in DOMAIN l /\ j # k
        BY <1>1
    <3> QED  BY <2>1, <3>1 DEF ListOK
  <2> QED  BY <1>3, <2>1
<1> QED  BY <1>2, <1>3, <1>4, <1>5 DEF rest

\* The frames of a task below the last one.
LEMMA PopSeq ==
    ASSUME NEW b \in Seq(Frame), b # << >>
    PROVE  \E len \in Nat \ {0} :
              /\ DOMAIN b = 1 .. len /\ Last(b) = b[len] /\ Last(b) \in Frame
              /\ Front(b) \in Seq(Frame) /\ DOMAIN Front(b) = 1 .. len - 1
              /\ \A k \in 1 .. len - 1 : Front(b)[k] = b[k]
<1>1. PICK len \in Nat : len = Len(b) /\ DOMAIN b = 1 .. len
    OBVIOUS
<1>2. len # 0
    BY <1>1
<1>3. len \in 1 .. len /\ \A k \in 1 .. len : b[k] \in Frame
    BY <1>1, <1>2
<1>4. /\ Front(b) \in Seq(Frame) /\ DOMAIN Front(b) = 1 .. len - 1
      /\ \A k \in 1 .. len - 1 : Front(b)[k] = b[k]
    BY <1>1, <1>3 DEF Front
<1> QED  BY <1>1, <1>2, <1>3, <1>4 DEF Last

\* A frame put on top of those of a task.
LEMMA PushSeq ==
    ASSUME NEW b \in Seq(Frame), NEW g \in Frame
    PROVE  \E len \in Nat :
              /\ DOMAIN b = 1 .. len /\ Append(b, g) \in Seq(Frame)
              /\ DOMAIN Append(b, g) = 1 .. len + 1
              /\ \A k \in 1 .. len : Append(b, g)[k] = b[k]
              /\ Append(b, g)[len + 1] = g
<1>1. PICK len \in Nat : len = Len(b) /\ DOMAIN b = 1 .. len
    OBVIOUS
<1> QED  BY <1>1

\* Without the last frame of a task, nothing else changes, and what that frame
\* had is apart from the rest.
LEMMA Popped ==
    ASSUME NEW c \in Calls, NEW t \in Task, c[t] # << >>, NEW n, NEW h, CallsOK(c, n, h)
    PROVE  LET f == Last(c[t])
               d == [c EXCEPT ![t] = Front(c[t])]
           IN  /\ f \in Frame /\ FrameOK(f, n, h)
               /\ d \in Calls /\ CallsOK(d, n, h) /\ Apart(Waits(f), d)
               /\ \A S : Apart(S, c) => Apart(S, d) /\ S \cap Waits(f) = {}
               /\ \A i : OnList(c, i) => OnList(d, i) \/ i \in Range(f.todo)
<1> DEFINE f == Last(c[t])
           d == [c EXCEPT ![t] = Front(c[t])]
<1>1. c[t] \in Seq(Frame) /\ c \in [Task -> Seq(Frame)]
    BY DEF Calls
<1>2. PICK len \in Nat \ {0} :
              /\ DOMAIN c[t] = 1 .. len /\ f = c[t][len] /\ f \in Frame
              /\ Front(c[t]) \in Seq(Frame) /\ DOMAIN Front(c[t]) = 1 .. len - 1
              /\ \A k \in 1 .. len - 1 : Front(c[t])[k] = c[t][k]
    BY <1>1, PopSeq
<1>3. d \in Calls
    BY <1>1, <1>2 DEF Calls
<1>4. d[t] = Front(c[t]) /\ \A u \in Task : u # t => d[u] = c[u]
    BY <1>1
<1> HIDE DEF f, d
<1>5. \A u \in Task : \A k \in DOMAIN d[u] :
         k \in DOMAIN c[u] /\ d[u][k] = c[u][k] /\ ~(u = t /\ k = len)
  <2> SUFFICES ASSUME NEW u \in Task, NEW k \in DOMAIN d[u]
               PROVE  k \in DOMAIN c[u] /\ d[u][k] = c[u][k] /\ ~(u = t /\ k = len)
      OBVIOUS
  <2>1. CASE u = t
    <3>1. k \in 1 .. len - 1
        BY <1>2, <1>4, <2>1
    <3>2. k \in 1 .. len /\ k # len
        BY <3>1
    <3> QED  BY <1>2, <1>4, <2>1, <3>1, <3>2
  <2> QED  BY <1>4, <2>1
<1>6. len \in DOMAIN c[t] /\ f = c[t][len]
    BY <1>2
<1>7. FrameOK(f, n, h)
    BY <1>6 DEF CallsOK
<1>8. CallsOK(d, n, h)
  <2>1. \A u \in Task : \A k \in DOMAIN d[u] : FrameOK(d[u][k], n, h)
      BY <1>5 DEF CallsOK
  <2>2. ASSUME NEW u \in Task, NEW v \in Task, NEW k \in DOMAIN d[u], NEW m \in DOMAIN d[v],
               Waits(d[u][k]) \cap Waits(d[v][m]) # {}
        PROVE  u = v /\ k = m
    <3>1. /\ k \in DOMAIN c[u] /\ d[u][k] = c[u][k]
          /\ m \in DOMAIN c[v] /\ d[v][m] = c[v][m]
        BY <1>5
    <3>2. Waits(c[u][k]) \cap Waits(c[v][m]) # {}
        BY <2>2, <3>1
    <3> QED  BY <3>1, <3>2 DEF CallsOK
  <2> QED  BY <2>1, <2>2 DEF CallsOK
<1>9. Apart(Waits(f), d)
  <2> SUFFICES ASSUME NEW u \in Task, NEW k \in DOMAIN d[u], Waits(f) \cap Waits(d[u][k]) # {}
               PROVE  FALSE
      BY DEF Apart
  <2>1. k \in DOMAIN c[u] /\ d[u][k] = c[u][k] /\ ~(u = t /\ k = len)
      BY <1>5
  <2>2. Waits(c[t][len]) \cap Waits(c[u][k]) # {}
      BY <1>6, <2>1
  <2>3. t = u /\ len = k
      BY <1>6, <2>1, <2>2 DEF CallsOK
  <2> QED  BY <2>1, <2>3
<1>10. ASSUME NEW S, Apart(S, c)
       PROVE  Apart(S, d) /\ S \cap Waits(f) = {}
    BY <1>5, <1>6, <1>10 DEF Apart
<1>11. ASSUME NEW i, OnList(c, i)
       PROVE  OnList(d, i) \/ i \in Range(f.todo)
  <2> PICK u \in Task : \E k \in DOMAIN c[u] : i \in Range(c[u][k].todo)
      BY <1>11 DEF OnList
  <2>1. PICK k \in DOMAIN c[u] : i \in Range(c[u][k].todo)
      OBVIOUS
  <2>2. CASE u = t /\ k = len
      BY <1>6, <2>1, <2>2
  <2>3. CASE ~(u = t /\ k = len)
    <3>1. CASE u = t
      <4>1. k \in 1 .. len /\ k # len
          BY <1>2, <2>1, <2>3, <3>1
      <4>2. k \in 1 .. len - 1
          BY <4>1
      <4>3. k \in DOMAIN d[u] /\ d[u][k] = c[u][k]
          BY <1>2, <1>4, <3>1, <4>2
      <4> QED  BY <2>1, <4>3 DEF OnList
    <3>2. CASE u # t
      <4>1. k \in DOMAIN d[u] /\ d[u][k] = c[u][k]
          BY <1>4, <2>1, <3>2
      <4> QED  BY <2>1, <4>1 DEF OnList
    <3> QED  BY <3>1, <3>2
  <2> QED  BY <2>2, <2>3
<1> QED  BY <1>2, <1>3, <1>7, <1>8, <1>9, <1>10, <1>11 DEF f, d

\* With a frame more on top, whose rows wait nowhere else.
LEMMA Pushed ==
    ASSUME NEW c \in Calls, NEW t \in Task, NEW g \in Frame, NEW n, NEW h,
           CallsOK(c, n, h), FrameOK(g, n, h), Apart(Waits(g), c)
    PROVE  LET d == [c EXCEPT ![t] = Append(c[t], g)] IN
           /\ d \in Calls /\ CallsOK(d, n, h)
           /\ \A S : Apart(S, c) /\ S \cap Waits(g) = {} => Apart(S, d)
           /\ \A i : OnList(c, i) \/ i \in Range(g.todo) => OnList(d, i)
<1> DEFINE d == [c EXCEPT ![t] = Append(c[t], g)]
<1>1. c[t] \in Seq(Frame) /\ c \in [Task -> Seq(Frame)]
    BY DEF Calls
<1>2. PICK len \in Nat :
              /\ DOMAIN c[t] = 1 .. len /\ Append(c[t], g) \in Seq(Frame)
              /\ DOMAIN Append(c[t], g) = 1 .. len + 1
              /\ \A k \in 1 .. len : Append(c[t], g)[k] = c[t][k]
              /\ Append(c[t], g)[len + 1] = g
    BY <1>1, PushSeq
<1>3. d \in Calls
    BY <1>1, <1>2 DEF Calls
<1>4. d[t] = Append(c[t], g) /\ \A u \in Task : u # t => d[u] = c[u]
    BY <1>1
<1> HIDE DEF d
<1>5. \A u \in Task : \A k \in DOMAIN d[u] :
         \/ u = t /\ k = len + 1 /\ d[u][k] = g
         \/ k \in DOMAIN c[u] /\ d[u][k] = c[u][k]
  <2> SUFFICES ASSUME NEW u \in Task, NEW k \in DOMAIN d[u]
               PROVE  \/ u = t /\ k = len + 1 /\ d[u][k] = g
                      \/ k \in DOMAIN c[u] /\ d[u][k] = c[u][k]
      OBVIOUS
  <2>1. CASE u = t
    <3>1. k \in 1 .. len + 1
        BY <1>2, <1>4, <2>1
    <3>2. k \in 1 .. len \/ k = len + 1
        BY <3>1
    <3> QED  BY <1>2, <1>4, <2>1, <3>2
  <2> QED  BY <1>4, <2>1
<1>6. \A u \in Task : \A k \in DOMAIN c[u] : k \in DOMAIN d[u] /\ d[u][k] = c[u][k]
  <2> SUFFICES ASSUME NEW u \in Task, NEW k \in DOMAIN c[u]
               PROVE  k \in DOMAIN d[u] /\ d[u][k] = c[u][k]
      OBVIOUS
  <2>1. CASE u = t
    <3>1. k \in 1 .. len /\ k \in 1 .. len + 1
        BY <1>2, <2>1
    <3> QED  BY <1>2, <1>4, <2>1, <3>1
  <2> QED  BY <1>4, <2>1
<1>7. len + 1 \in DOMAIN d[t] /\ d[t][len + 1] = g
    BY <1>2, <1>4
<1>8. CallsOK(d, n, h)
  <2>1. \A u \in Task : \A k \in DOMAIN d[u] : FrameOK(d[u][k], n, h)
      BY <1>5 DEF CallsOK
  <2>2. ASSUME NEW u \in Task, NEW v \in Task, NEW k \in DOMAIN d[u], NEW m \in DOMAIN d[v],
               Waits(d[u][k]) \cap Waits(d[v][m]) # {}
        PROVE  u = v /\ k = m
    <3>1. CASE /\ k \in DOMAIN c[u] /\ d[u][k] = c[u][k]
               /\ m \in DOMAIN c[v] /\ d[v][m] = c[v][m]
      <4>1. Waits(c[u][k]) \cap Waits(c[v][m]) # {}
          BY <2>2, <3>1
      <4> QED  BY <3>1, <4>1 DEF CallsOK
    <3>2. CASE k \in DOMAIN c[u] /\ d[u][k] = c[u][k] /\ d[v][m] = g
      <4>1. Waits(g) \cap Waits(c[u][k]) # {}
          BY <2>2, <3>2
      <4> QED  BY <3>2, <4>1 DEF Apart
    <3>3. CASE d[u][k] = g /\ m \in DOMAIN c[v] /\ d[v][m] = c[v][m]
      <4>1. Waits(g) \cap Waits(c[v][m]) # {}
          BY <2>2, <3>3
      <4> QED  BY <3>3, <4>1 DEF Apart
    <3>4. CASE u = t /\ k = len + 1 /\ v = t /\ m = len + 1
        BY <3>4
    <3> QED  BY <1>5, <3>1, <3>2, <3>3, <3>4
  <2> QED  BY <2>1, <2>2 DEF CallsOK
<1>9. ASSUME NEW S, Apart(S, c), S \cap Waits(g) = {}
      PROVE  Apart(S, d)
    BY <1>5, <1>9 DEF Apart
<1>10. ASSUME NEW i, OnList(c, i) \/ i \in Range(g.todo)
       PROVE  OnList(d, i)
    BY <1>6, <1>7, <1>10 DEF OnList
<1> QED  BY <1>3, <1>8, <1>9, <1>10 DEF d

\* Rows may be stored, and rows that wait in no frame may run.
LEMMA CallsKeep ==
    ASSUME NEW c \in Calls, NEW n \in Int, NEW m \in Int, n =< m,
           NEW h \in History, NEW g \in History, CallsOK(c, n, h),
           \A i \in Id : g.runs[i] >= h.runs[i], h.succeeded \subseteq g.succeeded,
           NEW S, Apart(S, c), \A i \in Id : i \notin S => g.runs[i] = h.runs[i]
    PROVE  CallsOK(c, m, g)
<1>1. ASSUME NEW t \in Task, NEW k \in DOMAIN c[t]
      PROVE  FrameOK(c[t][k], m, g)
  <2> DEFINE f == c[t][k]
  <2>1. c[t] \in Seq(Frame)
      BY DEF Calls
  <2>2. f \in Frame
      BY <2>1
  <2>3. FrameOK(f, n, h) /\ S \cap Waits(f) = {}
      BY DEF CallsOK, Apart
  <2> HIDE DEF f
  <2>4. f.todo \in Seq(Id) /\ f.id \in Id
      BY <2>2 DEF Frame
  <2>5. Range(f.todo) \subseteq Id
    <3>1. \A j \in DOMAIN f.todo : f.todo[j] \in Id
        BY <2>4
    <3> QED  BY <3>1 DEF Range
  <2>6. \A i \in Range(f.todo) : g.runs[i] = h.runs[i]
      BY <2>3, <2>5 DEF Waits
  <2>7. ListOK(f.todo, m, g.runs)
      BY <2>3, <2>4, <2>6, ListKeeps DEF FrameOK
  <2>8. f.id < m
      BY <2>3, <2>4 DEF FrameOK, Id
  <2>9. f.at = "entering" => g.runs[f.id] = h.runs[f.id]
      BY <2>3, <2>4 DEF Waits
  <2>10. g.runs[f.id] >= h.runs[f.id] /\ g.runs[f.id] \in Nat /\ h.runs[f.id] \in Nat
      BY <2>4 DEF History
  <2>11. FrameOK(f, m, g)
      BY <2>3, <2>7, <2>8, <2>9, <2>10 DEF FrameOK
  <2> QED  BY <2>11 DEF f
<1> QED  BY <1>1 DEF CallsOK

\* With nothing in hand.
LEMMA EmptyHand ==
    /\ Range(<< >>) = {} /\ << >> \in Seq(Id)
    /\ \A n, runs : ListOK(<< >>, n, runs)
    /\ \A c : Apart({}, c)
BY DEF Range, ListOK, Apart

\* What the dispatch does with the rows a publish has in hand: one has a frame,
\* whose list are those behind it, or all that could run are claimed, or none
\* can.
LEMMA Dispatched ==
    ASSUME NEW s, StoreOK(s), NEW t \in Task, NEW todo \in Seq(Id), NEW below \in Seq(Frame),
           NEW h \in History, call \in Calls, tokens \in Token, now \in 0 .. MaxTime,
           FakeAssumption, WaitOK(s, [call EXCEPT ![t] = below], h, todo),
           NEW running, Dispatch(t, s, todo, below, running)
    PROVE  /\ call' \in Calls /\ tokens' \in Token
           /\ store' = s \/ \E S : Leased(s, store', S, tokens')
           /\ WaitOK(store', call', h, << >>)
           /\ Covered(s, [call EXCEPT ![t] = below], h, todo)
                 => Covered(store', call', h, << >>)
<1> DEFINE c == [call EXCEPT ![t] = below]
           ready == {k \in DOMAIN todo : todo[k] \in Live(s) /\ s.rows[todo[k]].queue \in Served}
<1>1. c \in Calls /\ c[t] = below
    BY DEF Calls
<1>2. /\ ListOK(todo, s.nextId, h.runs) /\ ListOK(s.dispatchable, s.nextId, h.runs)
      /\ Range(todo) \cap Range(s.dispatchable) = {}
      /\ Apart(Range(todo), c) /\ Apart(Range(s.dispatchable), c)
      /\ CallsOK(c, s.nextId, h)
    BY DEF WaitOK
<1>3. MaxClaims \in Nat /\ tokens \in Nat
    BY DEF FakeAssumption, Token
<1>4. \A k \in DOMAIN todo : todo[k] \in Id /\ todo[k] \in Range(todo)
    BY DEF Range
<1> HIDE DEF c
<1>5. CASE ready = {} /\ store' = s /\ call' = c /\ UNCHANGED tokens
  <2>1. WaitOK(store', call', h, << >>)
      BY <1>2, <1>5, EmptyHand DEF WaitOK
  <2>2. ASSUME Covered(s, c, h, todo)
        PROVE  Covered(store', call', h, << >>)
    <3>1. \A i \in Live(s) : s.rows[i].queue \in Served => i \notin Range(todo)
        BY <1>5 DEF Range
    <3> QED  BY <1>5, <2>2, <3>1 DEF Covered
  <2> QED  BY <1>1, <1>5, <2>1, <2>2 DEF c
<1>6. ASSUME NEW k \in ready, tokens < MaxClaims, \A j \in ready : k =< j,
             tokens' = tokens + 1, store' = Claimed(s, {todo[k]}, tokens', now),
             call' = [call EXCEPT ![t] = Append(below,
                    [id |-> todo[k], token |-> tokens', at |-> "entering", outcome |-> "none",
                     raises |-> FALSE, stops |-> FALSE,
                     todo |-> SubSeq(todo, k + 1, Len(todo))])]
      PROVE  /\ call' \in Calls /\ tokens' \in Token
             /\ \E S : Leased(s, store', S, tokens')
             /\ WaitOK(store', call', h, << >>)
             /\ Covered(s, c, h, todo) => Covered(store', call', h, << >>)
  <2> DEFINE rest == SubSeq(todo, k + 1, Len(todo))
             g == [id |-> todo[k], token |-> tokens', at |-> "entering", outcome |-> "none",
                   raises |-> FALSE, stops |-> FALSE, todo |-> rest]
  <2>1. tokens' \in Token /\ tokens' # 0
      BY <1>3, <1>6 DEF Token
  <2>2. Leased(s, store', {todo[k]}, tokens')
      BY <1>6, <2>1, ClaimedLeased
  <2>3. k \in DOMAIN todo /\ todo[k] \in Id /\ todo[k] \in Range(todo)
      BY <1>4
  <2>4. /\ rest \in Seq(Id) /\ ListOK(rest, s.nextId, h.runs)
        /\ Range(rest) = {todo[j] : j \in k + 1 .. Len(todo)}
        /\ todo[k] \notin Range(rest)
      BY <1>2, <2>3, ListRest
  <2>5. DOMAIN todo = 1 .. Len(todo) /\ Len(todo) \in Nat
      OBVIOUS
  <2>6. Range(rest) \subseteq Range(todo)
    <3>1. \A j \in k + 1 .. Len(todo) : j \in DOMAIN todo
        BY <2>3, <2>5
    <3> QED  BY <1>4, <2>4, <3>1
  <2>7. call' = [c EXCEPT ![t] = Append(c[t], g)]
      BY <1>1, <1>6 DEF c, Calls
  <2> HIDE DEF rest
  <2>8. g \in Frame
      BY <2>1, <2>3, <2>4 DEF Frame
  <2>9. g.id = todo[k] /\ g.at = "entering" /\ g.todo = rest
      OBVIOUS
  <2> HIDE DEF g
  <2>10. todo[k] < s.nextId /\ h.runs[todo[k]] = 0
      BY <1>2, <2>3 DEF ListOK
  <2>11. FrameOK(g, s.nextId, h)
      BY <2>4, <2>9, <2>10 DEF FrameOK
  <2>12. Waits(g) = Range(rest) \cup {todo[k]}
      BY <2>9 DEF Waits
  <2>13. Waits(g) \subseteq Range(todo)
      BY <2>3, <2>6, <2>12
  <2>14. Apart(Waits(g), c) /\ Range(s.dispatchable) \cap Waits(g) = {}
      BY <1>2, <2>13 DEF Apart
  <2>15. /\ call' \in Calls /\ CallsOK(call', s.nextId, h)
         /\ \A S : Apart(S, c) /\ S \cap Waits(g) = {} => Apart(S, call')
         /\ \A i : OnList(c, i) \/ i \in Range(g.todo) => OnList(call', i)
      BY <1>1, <1>2, <2>7, <2>8, <2>11, <2>14, Pushed
  <2>16. WaitOK(store', call', h, << >>)
      BY <1>2, <2>2, <2>14, <2>15, EmptyHand DEF WaitOK, Leased
  <2>17. ASSUME Covered(s, c, h, todo)
         PROVE  Covered(store', call', h, << >>)
    <3>1. ASSUME NEW i \in Live(s), i # todo[k], s.rows[i].queue \in Served, i \in Range(todo)
          PROVE  i \in Range(rest)
      <4>1. PICK j \in DOMAIN todo : todo[j] = i
          BY <3>1 DEF Range
      <4>2. j \in ready /\ j # k
          BY <3>1, <4>1
      <4>3. k =< j /\ k \in Int /\ j \in Int
          BY <1>6, <2>3, <2>5, <4>2
      <4>4. j \in k + 1 .. Len(todo)
          BY <2>5, <4>1, <4>2, <4>3
      <4> QED  BY <2>4, <4>1, <4>4
    <3>2. \A i \in Live(s) :
             /\ store'.rows[i].queue = s.rows[i].queue
             /\ i = todo[k] => store'.rows[i].token # 0
             /\ i # todo[k] => store'.rows[i] = s.rows[i]
        BY <2>1, <2>2 DEF Leased
    <3>3. Live(store') = Live(s) /\ store'.dispatchable = s.dispatchable
        BY <2>2 DEF Leased
    <3> SUFFICES ASSUME NEW i \in Live(s)
                 PROVE  /\ h.runs[i] =< 1
                        /\ store'.rows[i].queue \in Served /\ h.runs[i] = 0
                           /\ store'.rows[i].token = 0
                              => \/ i \in h.excused \cup Range(s.dispatchable) \cup Range(<< >>)
                                 \/ OnList(call', i)
        BY <3>3 DEF Covered
    <3>4. h.runs[i] =< 1
        BY <2>17 DEF Covered
    <3>5. ASSUME store'.rows[i].queue \in Served, h.runs[i] = 0, store'.rows[i].token = 0
          PROVE  i \in h.excused \cup Range(s.dispatchable) \/ OnList(call', i)
      <4>1. i # todo[k] /\ s.rows[i].queue \in Served /\ s.rows[i].token = 0
          BY <3>2, <3>5
      <4>2. i \in h.excused \cup Range(s.dispatchable) \cup Range(todo) \/ OnList(c, i)
          BY <2>17, <3>5, <4>1 DEF Covered
      <4> QED  BY <2>9, <2>15, <3>1, <4>1, <4>2
    <3> QED  BY <3>4, <3>5
  <2> QED  BY <2>1, <2>2, <2>15, <2>16, <2>17
<1>7. CASE /\ ready # {} /\ tokens < MaxClaims /\ tokens' = tokens + 1
           /\ store' = Claimed(s, {todo[k] : k \in ready}, tokens', now)
           /\ call' = c
  <2> DEFINE S == {todo[k] : k \in ready}
  <2>1. tokens' \in Token /\ tokens' # 0
      BY <1>3, <1>7 DEF Token
  <2>2. Leased(s, store', S, tokens')
      BY <1>7, <2>1, ClaimedLeased
  <2>3. WaitOK(store', call', h, << >>)
      BY <1>2, <1>7, <2>2, EmptyHand DEF WaitOK, Leased
  <2>4. ASSUME Covered(s, c, h, todo)
        PROVE  Covered(store', call', h, << >>)
    <3>1. \A i \in Live(s) : s.rows[i].queue \in Served /\ i \in Range(todo) => i \in S
        BY DEF Range
    <3> HIDE DEF S
    <3>2. \A i \in Live(s) :
             /\ store'.rows[i].queue = s.rows[i].queue
             /\ i \in S => store'.rows[i].token # 0
             /\ i \notin S => store'.rows[i] = s.rows[i]
        BY <2>1, <2>2 DEF Leased
    <3>3. Live(store') = Live(s) /\ store'.dispatchable = s.dispatchable
        BY <2>2 DEF Leased
    <3> SUFFICES ASSUME NEW i \in Live(s)
                 PROVE  /\ h.runs[i] =< 1
                        /\ store'.rows[i].queue \in Served /\ h.runs[i] = 0
                           /\ store'.rows[i].token = 0
                              => \/ i \in h.excused \cup Range(s.dispatchable) \cup Range(<< >>)
                                 \/ OnList(c, i)
        BY <1>7, <3>3 DEF Covered
    <3>4. h.runs[i] =< 1
        BY <2>4 DEF Covered
    <3>5. ASSUME store'.rows[i].queue \in Served, h.runs[i] = 0, store'.rows[i].token = 0
          PROVE  i \in h.excused \cup Range(s.dispatchable) \/ OnList(c, i)
      <4>1. i \notin S /\ s.rows[i].queue \in Served /\ s.rows[i].token = 0
          BY <3>2, <3>5
      <4>2. i \in h.excused \cup Range(s.dispatchable) \cup Range(todo) \/ OnList(c, i)
          BY <2>4, <3>5, <4>1 DEF Covered
      <4> QED  BY <3>1, <4>1, <4>2
    <3> QED  BY <3>4, <3>5
  <2> HIDE DEF S
  <2>5. \E X : Leased(s, store', X, tokens')
      BY <2>2
  <2> QED  BY <1>1, <1>7, <2>1, <2>3, <2>4, <2>5 DEF c
<1>8. \/ ready = {} /\ store' = s /\ call' = c /\ UNCHANGED tokens
      \/ \E k \in ready :
            /\ tokens < MaxClaims /\ \A j \in ready : k =< j
            /\ tokens' = tokens + 1 /\ store' = Claimed(s, {todo[k]}, tokens', now)
            /\ call' = [call EXCEPT ![t] = Append(below,
                    [id |-> todo[k], token |-> tokens', at |-> "entering", outcome |-> "none",
                     raises |-> FALSE, stops |-> FALSE,
                     todo |-> SubSeq(todo, k + 1, Len(todo))])]
      \/ /\ ready # {} /\ tokens < MaxClaims /\ tokens' = tokens + 1
         /\ store' = Claimed(s, {todo[k] : k \in ready}, tokens', now)
         /\ call' = c
    BY DEF Dispatch, c
<1> HIDE DEF ready
<1> QED  BY <1>5, <1>6, <1>7, <1>8 DEF c
-----------------------------------------------------------------------------
\* The parts of the state and of the history.

\* The types of the variables by name.
LEMMA TypeFacts ==
    ASSUME TypeOK
    PROVE  /\ StoreOK(store) /\ Live(store) \in SUBSET Id /\ store.nextId \in 1 .. MaxRows + 1
           /\ store.rows \in [Live(store) -> Row]
           /\ store.dispatchable \in Seq(Id) /\ store.dlq \in SUBSET Id
           /\ call \in Calls /\ hist \in History /\ tokens \in Token /\ now \in 0 .. MaxTime
           /\ harness \in [open: BOOLEAN, loop: BOOLEAN, count: 0 .. MaxContexts, spawned: BOOLEAN]
BY StoreFacts DEF TypeOK, Calls, History

\* A run is recorded, and nothing else.
LEMMA RunRecorded ==
    ASSUME NEW h \in History, NEW i \in Id
    PROVE  LET g == [h EXCEPT !.runs[i] = @ + 1] IN
           /\ g \in History /\ g.left = h.left /\ g.succeeded = h.succeeded
           /\ g.buried = h.buried /\ g.excused = h.excused /\ Marks(g) = Marks(h)
           /\ g.runs[i] = h.runs[i] + 1 /\ h.runs[i] \in Nat
           /\ \A j \in Id : j # i => g.runs[j] = h.runs[j]
           /\ g.runs = [h.runs EXCEPT ![i] = @ + 1]
<1> DEFINE runs == [h.runs EXCEPT ![i] = @ + 1]
           g == [h EXCEPT !.runs = runs]
<1>1. h.runs \in [Id -> Nat]
    BY DEF History
<1>2. /\ runs \in [Id -> Nat] /\ runs[i] = h.runs[i] + 1 /\ h.runs[i] \in Nat
      /\ \A j \in Id : j # i => runs[j] = h.runs[j]
    BY <1>1
<1> HIDE DEF runs
<1>3. /\ g \in History /\ g.runs = runs /\ g.left = h.left /\ g.succeeded = h.succeeded
      /\ g.buried = h.buried /\ g.excused = h.excused /\ Marks(g) = Marks(h)
    BY <1>2 DEF History, Marks
<1>4. g = [h EXCEPT !.runs[i] = @ + 1]
    BY DEF runs, History
<1> HIDE DEF g
<1> QED  BY <1>2, <1>3, <1>4 DEF runs

\* A success is recorded, and nothing else.
LEMMA SuccessRecorded ==
    ASSUME NEW h \in History, NEW i \in Id
    PROVE  LET g == [h EXCEPT !.succeeded = @ \cup {i}] IN
           /\ g \in History /\ g.left = h.left /\ g.runs = h.runs
           /\ g.buried = h.buried /\ g.excused = h.excused /\ Marks(g) = Marks(h)
           /\ g.succeeded = h.succeeded \cup {i}
BY DEF History, Marks

\* Rows are excused, and nothing else.
LEMMA RowsExcused ==
    ASSUME NEW h \in History, NEW S \in SUBSET Id
    PROVE  LET g == [h EXCEPT !.excused = @ \cup S] IN
           /\ g \in History /\ g.left = h.left /\ g.runs = h.runs
           /\ g.buried = h.buried /\ g.succeeded = h.succeeded /\ Marks(g) = Marks(h)
           /\ g.excused = h.excused \cup S
BY DEF History, Marks

\* How a row may leave.
Ending == {"acked", "dead", "cancelled"}

\* How a row left is recorded, and nothing else.
LEMMA LeavingRecorded ==
    ASSUME NEW h \in History, NEW i \in Id, NEW x \in Ending
    PROVE  LET g == [h EXCEPT !.left[i] = x] IN
           /\ g \in History /\ g.runs = h.runs /\ g.succeeded = h.succeeded
           /\ g.buried = h.buried /\ g.excused = h.excused /\ Marks(g) = Marks(h)
           /\ g.left[i] = x /\ \A j \in Id : j # i => g.left[j] = h.left[j]
<1> DEFINE left == [h.left EXCEPT ![i] = x]
           g == [h EXCEPT !.left = left]
<1>1. h.left \in [Id -> {"unborn", "stored", "acked", "dead", "cancelled"}]
    BY DEF History
<1>2. /\ left \in [Id -> {"unborn", "stored", "acked", "dead", "cancelled"}]
      /\ left[i] = x /\ \A j \in Id : j # i => left[j] = h.left[j]
    BY <1>1 DEF Ending
<1> HIDE DEF left
<1>3. /\ g \in History /\ g.left = left /\ g.runs = h.runs /\ g.succeeded = h.succeeded
      /\ g.buried = h.buried /\ g.excused = h.excused /\ Marks(g) = Marks(h)
    BY <1>2 DEF History, Marks
<1>4. g = [h EXCEPT !.left[i] = x]
    BY DEF left, History
<1> HIDE DEF g
<1> QED  BY <1>2, <1>3, <1>4

\* What the write of an outcome does to the history.
LEMMA LeavesFacts ==
    ASSUME NEW h \in History, NEW s, NEW i \in Id, NEW token, NEW o \in Outcome
    PROVE  LET g == Leaves(h, s, i, token, o) IN
           /\ g \in History /\ g.runs = h.runs /\ g.succeeded = h.succeeded
           /\ g.buried = h.buried /\ g.excused = h.excused /\ Marks(g) = Marks(h)
           /\ \A j \in Id : j # i => g.left[j] = h.left[j]
           /\ ~TokenMatches(s, i, token) \/ o = "retry" => g = h
           /\ TokenMatches(s, i, token) /\ o # "retry" =>
                 g.left[i] = IF o = "ack" THEN "acked" ELSE "dead"
<1> DEFINE x == IF o = "ack" THEN "acked" ELSE "dead"
<1>1. x \in Ending
    BY DEF Ending
<1>2. CASE TokenMatches(s, i, token) /\ o # "retry"
  <2>1. Leaves(h, s, i, token, o) = [h EXCEPT !.left[i] = x]
      BY <1>2 DEF Leaves
  <2> HIDE DEF x
  <2>2. LET g == [h EXCEPT !.left[i] = x] IN
           /\ g \in History /\ g.runs = h.runs /\ g.succeeded = h.succeeded
           /\ g.buried = h.buried /\ g.excused = h.excused /\ Marks(g) = Marks(h)
           /\ g.left[i] = x /\ \A j \in Id : j # i => g.left[j] = h.left[j]
      BY <1>1, LeavingRecorded
  <2> QED  BY <1>2, <2>1, <2>2 DEF x
<1>3. CASE ~(TokenMatches(s, i, token) /\ o # "retry")
  <2>1. Leaves(h, s, i, token, o) = h
      BY <1>3 DEF Leaves
  <2> QED  BY <1>3, <2>1
<1> QED  BY <1>2, <1>3
-----------------------------------------------------------------------------
\* Steps that leave a part of the state alone keep its invariant.

\* Steps outside the loops keep what is said of them.
LEMMA LoopsKept ==
    ASSUME LoopsInv, UNCHANGED <<harness, loopVars>>, Marks(hist') = Marks(hist),
           \/ sub' = sub
           \/ InSync /\ sub'.running = FALSE /\ sub'.tasks = {}
    PROVE  LoopsInv'
<1>1. UNCHANGED <<harness, queue, worker, fetchers, spawns, stop>>
    BY DEF loopVars
<1>2. UNCHANGED hist.caught /\ Quiet' = Quiet
    BY <1>1 DEF Marks, Quiet
<1>3. InLoop' = InLoop /\ InSync' = InSync
    BY <1>1 DEF InLoop, InSync
<1>4. CASE sub' = sub
    BY <1>1, <1>2, <1>3, <1>4 DEF LoopsInv
<1>5. CASE InSync /\ sub'.running = FALSE /\ sub'.tasks = {}
  <2>1. ~InLoop /\ sub.tasks = {}
      BY <1>5 DEF InLoop, InSync, LoopsInv
  <2> QED  BY <1>1, <1>2, <1>3, <1>5, <2>1 DEF LoopsInv
<1> QED  BY <1>4, <1>5

\* Ids stay in order when rows are stored, or run that have been.
LEMMA IdsKept ==
    ASSUME TypeOK, IdsInv, NEW n \in Nat, StoreOK(store'),
           Live(store') = Live(store) \cup Fresh(store, n), store'.nextId = store.nextId + n,
           hist'.left = hist.left,
           \A i \in Id : i >= store.nextId => hist'.runs[i] = hist.runs[i]
    PROVE  IdsInv'
<1>1. store.nextId \in Nat
    BY TypeFacts
<1> SUFFICES ASSUME NEW i \in Id
             PROVE  /\ i >= store'.nextId => /\ i \notin Live(store') /\ hist'.runs[i] = 0
                                             /\ hist'.left[i] = "unborn"
                    /\ i < store'.nextId => i \in Live(store') \/ hist'.left[i] # "unborn"
    BY DEF IdsInv
<1>2. i \in Int
    BY DEF Id
<1>3. i \in Fresh(store, n) <=> i >= store.nextId /\ i < store.nextId + n
    BY <1>1, <1>2 DEF Fresh
<1>4. /\ i >= store.nextId => i \notin Live(store) /\ hist.runs[i] = 0 /\ hist.left[i] = "unborn"
      /\ i < store.nextId => i \in Live(store) \/ hist.left[i] # "unborn"
    BY DEF IdsInv
<1> QED  BY <1>1, <1>2, <1>3, <1>4

\* A row leaves, and how is recorded.
LEMMA IdsLost ==
    ASSUME TypeOK, IdsInv, NEW i \in Live(store), StoreOK(store'),
           Live(store') = Live(store) \ {i}, store'.nextId = store.nextId,
           hist'.left[i] \in Ending, \A j \in Id : j # i => hist'.left[j] = hist.left[j],
           hist'.runs = hist.runs
    PROVE  IdsInv'
<1>1. store.nextId \in Nat /\ i \in Id
    BY TypeFacts
<1> SUFFICES ASSUME NEW j \in Id
             PROVE  /\ j >= store'.nextId => /\ j \notin Live(store') /\ hist'.runs[j] = 0
                                             /\ hist'.left[j] = "unborn"
                    /\ j < store'.nextId => j \in Live(store') \/ hist'.left[j] # "unborn"
    BY DEF IdsInv
<1>2. /\ j >= store.nextId => j \notin Live(store) /\ hist.runs[j] = 0 /\ hist.left[j] = "unborn"
      /\ j < store.nextId => j \in Live(store) \/ hist.left[j] # "unborn"
    BY DEF IdsInv
<1>3. CASE j = i
    BY <1>1, <1>2, <1>3 DEF Ending, Id
<1>4. CASE j # i
    BY <1>2, <1>4
<1> QED  BY <1>3, <1>4

\* Rows are stored or leave, run or succeed: the workers are what they were.
LEMMA WorkersKeep ==
    ASSUME TypeOK, WorkersInv, harness'.loop = harness.loop,
           NEW n \in Nat, Live(store') \subseteq Live(store) \cup Fresh(store, n),
           store'.nextId = store.nextId + n, hist.succeeded \subseteq hist'.succeeded,
           hist' \in History, \A i \in Id : hist'.runs[i] >= hist.runs[i],
           NEW w \in Worker
    PROVE  WorkerOK(worker[w], store', hist', harness'.loop)
<1> DEFINE x == worker[w]
<1>1. store.nextId \in Nat /\ \A i \in Id : hist.runs[i] \in Nat /\ hist'.runs[i] \in Nat
    BY TypeFacts DEF History
<1>2. WorkerOK(x, store, hist, harness.loop)
    BY DEF WorkersInv
<1> HIDE DEF x
<1>3. x.at \in {"leaving", "stopping"} =>
         /\ x.outcome \in Outcome
         /\ x.outcome = "ack" => x.copy.id \in hist.succeeded
    BY <1>2 DEF WorkerOK
<1>4. ASSUME x.at \in {"handling", "leaving", "stopping"}
      PROVE  /\ x.copy \in Copy /\ x.copy.id < store'.nextId /\ hist'.runs[x.copy.id] > 0
             /\ ~harness'.loop => x.copy.id \notin Live(store')
  <2> DEFINE i == x.copy.id
  <2>1. /\ x.copy \in Copy /\ i < store.nextId /\ hist.runs[i] > 0
        /\ ~harness.loop => i \notin Live(store)
      BY <1>2, <1>4 DEF WorkerOK
  <2>2. i \in Id
      BY <2>1 DEF Copy
  <2> HIDE DEF i
  <2>3. i \in Int
      BY <2>2 DEF Id
  <2>4. i \notin Fresh(store, n) /\ i < store'.nextId
      BY <1>1, <2>1, <2>3 DEF Fresh
  <2>5. hist.runs[i] \in Nat /\ hist'.runs[i] \in Nat
      BY <1>1, <2>2
  <2>6. hist'.runs[i] > 0
      BY <2>1, <2>2, <2>5
  <2> QED  BY <2>1, <2>4, <2>6 DEF i
<1>5. WorkerOK(x, store', hist', harness'.loop)
    BY <1>3, <1>4 DEF WorkerOK
<1> QED  BY <1>5 DEF x

\* The same of all of them.
LEMMA WorkersKept ==
    ASSUME TypeOK, WorkersInv, UNCHANGED worker, harness'.loop = harness.loop,
           NEW n \in Nat, Live(store') \subseteq Live(store) \cup Fresh(store, n),
           store'.nextId = store.nextId + n, hist.succeeded \subseteq hist'.succeeded,
           hist' \in History, \A i \in Id : hist'.runs[i] >= hist.runs[i]
    PROVE  WorkersInv'
<1>1. \A w \in Worker : WorkerOK(worker[w], store', hist', harness'.loop)
    BY WorkersKeep
<1> QED  BY <1>1 DEF WorkersInv

\* The queue of a broker without loops is empty, and so is what it promises.
LEMMA QueueIdle ==
    ASSUME LoopsInv', ~harness'.loop
    PROVE  QueueInv'
<1>1. queue' = EmptyQueue
    BY DEF LoopsInv, InLoop
<1>2. queue'.items = << >>
    BY <1>1 DEF EmptyQueue
<1> QED  BY <1>2 DEF QueueInv, ItemsOK

\* Publishes are awaited in a sync context only.
LEMMA CallsAreSync ==
    ASSUME SyncInv, NEW t \in Task, call[t] # << >>
    PROVE  InSync /\ harness.open /\ ~harness.loop
BY DEF SyncInv, InSync

\* What waits in frames was stored before.
LEMMA WaitsAreOld ==
    ASSUME NEW c \in Calls, NEW s, s.nextId \in Int, NEW h, CallsOK(c, s.nextId, h), NEW n \in Int
    PROVE  Apart(Fresh(s, n), c)
<1> SUFFICES ASSUME NEW t \in Task, NEW k \in DOMAIN c[t], NEW i \in Fresh(s, n), i \in Waits(c[t][k])
             PROVE  FALSE
    BY DEF Apart
<1> DEFINE f == c[t][k]
<1>1. c[t] \in Seq(Frame)
    BY DEF Calls
<1>2. f \in Frame /\ FrameOK(f, s.nextId, h)
    BY <1>1 DEF CallsOK
<1> HIDE DEF f
<1>3. f.todo \in Seq(Id) /\ f.id \in Id
    BY <1>2 DEF Frame
<1>4. i \in Int /\ i >= s.nextId
    BY DEF Fresh
<1>5. CASE i = f.id
    BY <1>2, <1>4, <1>5 DEF FrameOK
<1>6. CASE i \in Range(f.todo)
  <2>1. PICK j \in DOMAIN f.todo : i = f.todo[j]
      BY <1>6 DEF Range
  <2>2. i < s.nextId
      BY <1>2, <2>1 DEF FrameOK, ListOK
  <2> QED  BY <1>4, <2>2
<1> QED  BY <1>5, <1>6 DEF Waits, f

\* The bound on ids keeps within the store.
LEMMA LastIdFits ==
    ASSUME FakeAssumption, TestAssumption
    PROVE  LastId \in Nat /\ LastId =< MaxRows /\ MaxRows \in Nat
BY DEF LastId, FakeAssumption, TestAssumption

\* A publish draws some ids, or none.
LEMMA PublishesDraw ==
    ASSUME TypeOK, FakeAssumption, NEW s \in Publishes
    PROVE  s.nextId \in Nat
<1>1. /\ StoreOK(store) /\ store.nextId \in Nat /\ now \in Nat /\ MaxRows \in Nat
      /\ \A d \in Delay : now + d \in Nat
    BY TypeFacts DEF FakeAssumption
<1>2. store \in [rows: [Live(store) -> Row], nextId: 1 .. MaxRows + 1,
                 dispatchable: Seq(Id), dlq: SUBSET Id]
    BY <1>1, StoreFacts
<1>3. \A q, timer, next : \A n \in Nat :
         InsertedBatch(store, q, timer, next, n).nextId = store.nextId + n
    BY <1>2 DEF InsertedBatch, Appended
<1>4. ASSUME NEW q, NEW timer, NEW next \in Nat
      PROVE  \A c : Inserted(store, q, timer, next, c).nextId \in Nat
  <2> DEFINE i == CHOOSE j \in LiveTimers(store, q, timer) : TRUE
  <2>1. LiveTimers(store, q, timer) # {} => i \in Live(store)
      BY TimersLive
  <2> HIDE DEF i
  <2>2. LiveTimers(store, q, timer) # {} => ExtendedRow(store, i, next).nextId = store.nextId
      BY <1>1, <2>1, ExtendedGrew
  <2> QED  BY <1>1, <1>3, <2>2 DEF Inserted, i
<1>5. \A n \in 2 .. MaxRows : n \in Nat
    OBVIOUS
<1> QED  BY <1>1, <1>3, <1>4, <1>5 DEF Publishes

\* A publish stores some rows, and has them on the list.
LEMMA PublishesGrow ==
    ASSUME TypeOK, FakeAssumption, NEW s \in Publishes, s.nextId =< MaxRows + 1
    PROVE  Stored(store, s)
<1>1. /\ StoreOK(store) /\ store.nextId \in 1 .. MaxRows + 1 /\ now \in Nat /\ MaxRows \in Nat
      /\ \A d \in Delay : now + d \in Nat
    BY TypeFacts DEF FakeAssumption
<1>2. CASE \E q \in Queue, timer \in Timer \cup {NoTimer}, d \in Delay, c \in {"ignore", "extend"} :
             s = Inserted(store, q, timer, now + d, c)
  <2> PICK q \in Queue, timer \in Timer \cup {NoTimer}, d \in Delay, c \in {"ignore", "extend"} :
             s = Inserted(store, q, timer, now + d, c)
      BY <1>2
  <2>1. now + d \in Nat
      BY <1>1
  <2> QED  BY <1>1, <2>1, InsertedGrew
<1>3. CASE \E q \in Queue, d \in Delay, n \in 2 .. MaxRows :
             s = InsertedBatch(store, q, NoTimer, now + d, n)
  <2> PICK q \in Queue, d \in Delay, n \in 2 .. MaxRows :
             s = InsertedBatch(store, q, NoTimer, now + d, n)
      BY <1>3
  <2> DEFINE next == now + d
  <2>1. next \in Nat /\ n \in Nat
      BY <1>1
  <2> HIDE DEF next
  <2>2. s = InsertedBatch(store, q, NoTimer, next, n)
      BY DEF next
  <2>3. InsertedBatch(store, q, NoTimer, next, n).nextId = store.nextId + n
    <3>1. store \in [rows: [Live(store) -> Row], nextId: 1 .. MaxRows + 1,
                     dispatchable: Seq(Id), dlq: SUBSET Id]
        BY <1>1, StoreFacts
    <3> QED  BY <3>1 DEF InsertedBatch, Appended
  <2>4. store.nextId + n =< MaxRows + 1
      BY <2>2, <2>3
  <2>5. /\ Grew(store, InsertedBatch(store, q, NoTimer, next, n), n)
        /\ InsertedBatch(store, q, NoTimer, next, n).dispatchable
              = store.dispatchable \o Drawn(store, n)
      BY <1>1, <2>1, <2>4, BatchGrew
  <2> QED  BY <2>1, <2>2, <2>4, <2>5 DEF Stored
<1>4. \/ \E q \in Queue, timer \in Timer \cup {NoTimer}, d \in Delay, c \in {"ignore", "extend"} :
             s = Inserted(store, q, timer, now + d, c)
      \/ \E q \in Queue, d \in Delay, n \in 2 .. MaxRows :
             s = InsertedBatch(store, q, NoTimer, now + d, n)
    BY DEF Publishes
<1> QED  BY <1>2, <1>3, <1>4

\* Nothing waits where nothing is on the list and no publish is awaited.
LEMMA NothingWaits ==
    ASSUME NEW s, s.dispatchable = << >>, NEW c, \A t \in Task : c[t] = << >>, NEW h
    PROVE  WaitOK(s, c, h, << >>)
<1>1. \A t \in Task : DOMAIN c[t] = {}
    OBVIOUS
<1> QED  BY <1>1, EmptyHand DEF WaitOK, CallsOK, Apart

\* The rows a publish stored are in its hand, with those that were on the list.
LEMMA InHand ==
    ASSUME BrokerInv, FakeAssumption, NEW s, Stored(store, s)
    PROVE  /\ s.dispatchable \in Seq(Id)
           /\ WaitOK(Taken(s), call, hist, s.dispatchable)
           /\ WaitOK(s, call, hist, << >>)
           /\ ~harness.loop => /\ Covered(Taken(s), call, hist, s.dispatchable)
                               /\ Covered(s, call, hist, << >>)
<1>1. PICK n \in Nat : /\ Grew(store, s, n) /\ store.nextId + n =< MaxRows + 1
                      /\ s.dispatchable = store.dispatchable \o Drawn(store, n)
    BY DEF Stored
<1>2. /\ StoreOK(store) /\ store.nextId \in Nat /\ store.nextId >= 1 /\ call \in Calls
      /\ hist \in History /\ MaxRows \in Nat /\ store.dispatchable \in Seq(Id)
    BY TypeFacts DEF BrokerInv, FakeAssumption
<1>3. /\ StoreOK(s) /\ Live(s) = Live(store) \cup Fresh(store, n) /\ s.nextId = store.nextId + n
      /\ \A i \in Live(store) : /\ s.rows[i].queue = store.rows[i].queue
                               /\ s.rows[i].token = store.rows[i].token
    BY <1>1 DEF Grew
<1>4. /\ StoreOK(Taken(s)) /\ Live(Taken(s)) = Live(s) /\ Taken(s).rows = s.rows
      /\ Taken(s).nextId = s.nextId /\ Taken(s).dispatchable = << >>
    BY <1>3, TakenFacts
<1>5. \A i \in Id : i >= store.nextId => hist.runs[i] = 0
    BY DEF BrokerInv, IdsInv
<1>6. /\ ListOK(store.dispatchable, store.nextId, hist.runs)
      /\ Apart(Range(store.dispatchable), call) /\ CallsOK(call, store.nextId, hist)
    BY DEF BrokerInv, SyncInv, WaitOK
<1>7. /\ s.dispatchable \in Seq(Id) /\ ListOK(s.dispatchable, s.nextId, hist.runs)
      /\ Range(s.dispatchable) = Range(store.dispatchable) \cup Fresh(store, n)
  <2> DEFINE d == store.dispatchable
             first == store.nextId
  <2>1. /\ MaxRows \in Nat /\ d \in Seq(Id) /\ first \in Nat /\ first >= 1
        /\ first + n =< MaxRows + 1 /\ ListOK(d, first, hist.runs)
        /\ \A i \in Id : i >= first => hist.runs[i] = 0
      BY <1>1, <1>2, <1>5, <1>6
  <2>2. s.dispatchable = d \o Ids(first, n)
      BY <1>1 DEF Drawn
  <2>3. first .. first + n - 1 = Fresh(store, n) /\ first + n = s.nextId
      BY <1>3 DEF Fresh
  <2> HIDE DEF d, first
  <2>4. /\ s.dispatchable \in Seq(Id) /\ ListOK(s.dispatchable, first + n, hist.runs)
        /\ Range(s.dispatchable) = Range(d) \cup (first .. first + n - 1)
    <3>1. LET l == d \o Ids(first, n) IN
          /\ l \in Seq(Id) /\ ListOK(l, first + n, hist.runs)
          /\ Range(l) = Range(d) \cup (first .. first + n - 1)
        BY <2>1, ListGrows
    <3> QED  BY <2>2, <3>1
  <2> QED  BY <2>3, <2>4 DEF d
<1>8. Apart(Fresh(store, n), call)
  <2>1. store.nextId \in Int /\ n \in Int  BY <1>2
  <2> QED  BY <1>2, <1>6, <2>1, WaitsAreOld
<1>9. Apart(Range(s.dispatchable), call)
    BY <1>6, <1>7, <1>8 DEF Apart
<1>10. CallsOK(call, s.nextId, hist)
  <2>1. store.nextId \in Int /\ s.nextId \in Int /\ store.nextId =< s.nextId
      BY <1>2, <1>3
  <2>2. \A i \in Id : hist.runs[i] >= hist.runs[i]
      BY <1>2 DEF History
  <2> QED  BY <1>2, <1>6, <1>8, <2>1, <2>2, CallsKeep
<1>11. WaitOK(Taken(s), call, hist, s.dispatchable) /\ WaitOK(s, call, hist, << >>)
    BY <1>4, <1>7, <1>9, <1>10, EmptyHand DEF WaitOK
<1>12. ASSUME ~harness.loop
       PROVE  /\ Covered(Taken(s), call, hist, s.dispatchable)
              /\ Covered(s, call, hist, << >>)
  <2>1. Covered(store, call, hist, << >>)
      BY <1>12 DEF BrokerInv, SyncInv
  <2>2. \A i \in Fresh(store, n) : i \in Live(s) => hist.runs[i] = 0
    <3>1. \A i \in Fresh(store, n) : i >= store.nextId
        BY <1>2 DEF Fresh
    <3>2. Live(s) \subseteq Id
        BY <1>3, StoreFacts
    <3> QED  BY <1>5, <3>1, <3>2
  <2>3. Range(store.dispatchable) \subseteq Range(s.dispatchable)
        /\ Fresh(store, n) \subseteq Range(s.dispatchable) /\ Range(<< >>) = {}
      BY <1>7, EmptyHand
  <2>4. ASSUME NEW i \in Live(s)
        PROVE  /\ hist.runs[i] =< 1
               /\ s.rows[i].queue \in Served /\ hist.runs[i] = 0 /\ s.rows[i].token = 0
                    => \/ i \in hist.excused \cup Range(s.dispatchable)
                       \/ OnList(call, i)
    <3>1. CASE i \in Live(store)
      <4>1. /\ s.rows[i].queue = store.rows[i].queue /\ s.rows[i].token = store.rows[i].token
          BY <1>3, <3>1
      <4> QED  BY <2>1, <2>3, <3>1, <4>1 DEF Covered
    <3>2. CASE i \in Fresh(store, n)
        BY <2>2, <2>3, <3>2
    <3> QED  BY <1>3, <3>1, <3>2
  <2> QED  BY <1>4, <2>3, <2>4 DEF Covered
<1> QED  BY <1>7, <1>11, <1>12

\* The dispatch leaves the rows it was given, some of them claimed.
LEMMA SameRows ==
    ASSUME NEW s, StoreOK(s), NEW r, NEW token, r = s \/ \E S : Leased(s, r, S, token)
    PROVE  StoreOK(r) /\ Live(r) = Live(s) /\ r.nextId = s.nextId /\ r.dlq = s.dlq
BY DEF Leased
-----------------------------------------------------------------------------
\* The steps of publishes keep the invariant.

\* The flags of the subscriber, and the spawns in its tasks.
SubOK(x) == x \in [running: BOOLEAN, stopping: BOOLEAN, tasks: SUBSET Spawn]

\* Types, in the steps that do not move the loops.
LEMMA TypeKept ==
    ASSUME TypeOK, StoreOK(store'), tokens' \in Token, now' \in 0 .. MaxTime, call' \in Calls,
           hist' \in History, SubOK(sub'), UNCHANGED <<harness, loopVars>>
    PROVE  TypeOK'
BY DEF TypeOK, Calls, History, SubOK, loopVars

\* Rows are stored, leave or are claimed beside the queue of a loop context.
LEMMA QueueKept ==
    ASSUME TypeOK, IdsInv, QueueInv, StoreOK(store'),
           queue'.items \in Seq(Copy), ItemsOK(queue'.items, store, hist.runs),
           harness'.loop = harness.loop, hist'.runs = hist.runs, store'.nextId >= store.nextId,
           \A i \in Live(store') :
              \/ i \in Live(store) /\ store'.rows[i].deliveries >= store.rows[i].deliveries
              \/ i \notin Live(store) /\ i >= store.nextId
    PROVE  QueueInv'
<1>1. /\ store.nextId \in Nat /\ store'.nextId \in Nat /\ Live(store') \subseteq Id
      /\ \A i \in Live(store) : store.rows[i].deliveries \in Nat
      /\ \A i \in Live(store') : store'.rows[i].deliveries \in Nat
  <2>1. /\ store.rows \in [Live(store) -> Row] /\ store'.rows \in [Live(store') -> Row]
        /\ store.nextId \in 1 .. MaxRows + 1 /\ store'.nextId \in 1 .. MaxRows + 1
        /\ Live(store') \in SUBSET Id
      BY TypeFacts, StoreFacts
  <2> QED  BY <2>1 DEF Row
<1>2. \A i \in Id : hist.runs[i] \in Nat /\ (i >= store.nextId => hist.runs[i] = 0)
    BY TypeFacts DEF IdsInv, History
<1> DEFINE l == queue'.items
<1>3. l \in Seq(Copy) /\ ItemsOK(l, store, hist.runs)
    OBVIOUS
<1> HIDE DEF l
<1>4. ASSUME NEW n \in DOMAIN l
      PROVE  /\ l[n].id < store'.nextId /\ hist.runs[l[n].id] < l[n].deliveries
             /\ l[n].id \in Live(store') => l[n].deliveries =< store'.rows[l[n].id].deliveries
  <2> DEFINE c == l[n]
  <2>1. /\ c.id < store.nextId /\ hist.runs[c.id] < c.deliveries
        /\ c.id \in Live(store) => c.deliveries =< store.rows[c.id].deliveries
      BY <1>3 DEF ItemsOK
  <2>2. c \in Copy
      BY <1>3
  <2> HIDE DEF c
  <2>3. c.id \in Int /\ c.deliveries \in Nat
      BY <2>2 DEF Copy, Id
  <2> QED  BY <1>1, <2>1, <2>3 DEF c
<1>5. ASSUME harness.loop, NEW i \in Live(store')
      PROVE  hist.runs[i] =< store'.rows[i].deliveries
  <2>1. i \in Live(store) => hist.runs[i] =< store.rows[i].deliveries
      BY <1>5 DEF QueueInv, RunsOK
  <2>2. i \in Id
      BY <1>1
  <2> QED  BY <1>1, <1>2, <2>1, <2>2
<1>6. ItemsOK(l, store', hist.runs)
    BY <1>3, <1>4 DEF ItemsOK
<1> QED  BY <1>5, <1>6 DEF QueueInv, RunsOK, l

\* In a loop context, open or left, nothing waits for a publish.
LEMMA SyncIdle ==
    ASSUME SyncInv, harness.loop, UNCHANGED <<harness, call>>, store'.dispatchable = << >>
    PROVE  SyncInv'
<1>1. ~InSync /\ ~InSync' /\ \A t \in Task : call'[t] = << >>
    BY DEF SyncInv, InSync
<1>2. WaitOK(store', call', hist', << >>)
    BY <1>1, NothingWaits
<1> QED  BY <1>1, <1>2 DEF SyncInv

\* broker.publish keeps the invariant: what it stored is in its hand, and the
\* dispatch of a sync context takes it from there (testing.py:560-588).
LEMMA PublishKeeps ==
    ASSUME BrokerInv, FakeAssumption, TestAssumption, NEW t \in Task, Publish(t)
    PROVE  BrokerInv'
<1>1. /\ TypeOK /\ LoopsInv /\ IdsInv /\ QueueInv /\ WorkersInv /\ SyncInv
      /\ harness.open /\ UNCHANGED <<now, harness, sub, loopVars, hist>>
      /\ queue' = queue /\ worker' = worker
    BY DEF BrokerInv, Publish, loopVars
<1>2. PICK s \in Publishes :
         /\ s.nextId =< LastId + 1
         /\ IF harness.loop
            THEN store' = Taken(s) /\ UNCHANGED <<tokens, call>>
            ELSE Dispatch(t, Taken(s), s.dispatchable, call[t], sub.running)
    BY DEF Publish
<1>3. Stored(store, s)
  <2>1. s.nextId =< MaxRows + 1
    <3>1. s.nextId \in Nat /\ s.nextId =< LastId + 1
        BY <1>1, <1>2, PublishesDraw
    <3> QED  BY <3>1, LastIdFits
  <2> QED  BY <1>1, <1>2, <2>1, PublishesGrow
<1>4. PICK n \in Nat : Grew(store, s, n)
    BY <1>3 DEF Stored
<1>5. /\ StoreOK(s) /\ Live(s) = Live(store) \cup Fresh(store, n) /\ s.nextId = store.nextId + n
    BY <1>4 DEF Grew
<1>6. /\ StoreOK(Taken(s)) /\ Live(Taken(s)) = Live(s) /\ Taken(s).rows = s.rows
      /\ Taken(s).nextId = s.nextId /\ Taken(s).dispatchable = << >>
    BY <1>5, TakenFacts
<1>7. /\ call \in Calls /\ hist \in History /\ tokens \in Token /\ now \in 0 .. MaxTime
      /\ SubOK(sub) /\ store.nextId \in Nat
    BY <1>1, TypeFacts DEF TypeOK, SubOK
<1>8. CASE harness.loop
  <2>1. store' = Taken(s) /\ UNCHANGED <<tokens, call>>
      BY <1>2, <1>8
  <2>2. TypeOK'
      BY <1>1, <1>6, <1>7, <2>1, TypeKept
  <2>3. LoopsInv'
      BY <1>1, LoopsKept
  <2>4. IdsInv'
      BY <1>1, <1>5, <1>6, <2>1, IdsKept
  <2>5. WorkersInv'
    <3>1. \A i \in Id : hist'.runs[i] >= hist.runs[i]
        BY <1>1, <1>7 DEF History
    <3>2. /\ Live(store') \subseteq Live(store) \cup Fresh(store, n)
          /\ store'.nextId = store.nextId + n /\ hist' \in History
          /\ hist.succeeded \subseteq hist'.succeeded /\ harness'.loop = harness.loop
        BY <1>1, <1>5, <1>6, <1>7, <2>1
    <3> QED  BY <1>1, <3>1, <3>2, WorkersKept
  <2>6. SyncInv'
      BY <1>1, <1>6, <1>8, <2>1, SyncIdle
  <2>7. QueueInv'
    <3>1. store'.nextId >= store.nextId
        BY <1>5, <1>6, <1>7, <2>1
    <3>2. ASSUME NEW i \in Live(store')
          PROVE  \/ i \in Live(store) /\ store'.rows[i].deliveries >= store.rows[i].deliveries
                 \/ i \notin Live(store) /\ i >= store.nextId
      <4>1. CASE i \in Live(store)
        <5>1. store'.rows[i].deliveries = store.rows[i].deliveries
            BY <1>4, <1>6, <2>1, <4>1 DEF Grew
        <5>2. store.rows[i] \in Row
            BY <1>1, <4>1, TypeFacts
        <5>3. store.rows[i].deliveries \in Nat
            BY <5>2 DEF Row
        <5> QED  BY <4>1, <5>1, <5>3
      <4>2. CASE i \notin Live(store)
        <5>1. i \in Fresh(store, n)
            BY <1>5, <1>6, <2>1, <4>2
        <5> QED  BY <1>7, <4>2, <5>1 DEF Fresh
      <4> QED  BY <4>1, <4>2
    <3>3. queue'.items \in Seq(Copy) /\ ItemsOK(queue'.items, store, hist.runs)
        BY <1>1 DEF TypeOK, QueueInv
    <3> QED  BY <1>1, <1>6, <2>1, <3>1, <3>2, <3>3, QueueKept
  <2> QED  BY <2>2, <2>3, <2>4, <2>5, <2>6, <2>7 DEF BrokerInv
<1>9. CASE ~harness.loop
  <2>1. Dispatch(t, Taken(s), s.dispatchable, call[t], sub.running)
      BY <1>2, <1>9
  <2>2. /\ s.dispatchable \in Seq(Id)
        /\ WaitOK(Taken(s), call, hist, s.dispatchable)
        /\ Covered(Taken(s), call, hist, s.dispatchable)
      BY <1>3, <1>9, InHand
  <2>3. [call EXCEPT ![t] = call[t]] = call /\ call[t] \in Seq(Frame)
      BY <1>7 DEF Calls
  <2>4. /\ call' \in Calls /\ tokens' \in Token
        /\ store' = Taken(s) \/ \E S : Leased(Taken(s), store', S, tokens')
        /\ WaitOK(store', call', hist, << >>) /\ Covered(store', call', hist, << >>)
    <3>1. /\ WaitOK(Taken(s), [call EXCEPT ![t] = call[t]], hist, s.dispatchable)
          /\ Covered(Taken(s), [call EXCEPT ![t] = call[t]], hist, s.dispatchable)
        BY <2>2, <2>3
    <3>2. /\ StoreOK(Taken(s)) /\ s.dispatchable \in Seq(Id) /\ call[t] \in Seq(Frame)
          /\ hist \in History /\ call \in Calls /\ tokens \in Token /\ now \in 0 .. MaxTime
        BY <1>6, <1>7, <2>2, <2>3
    <3> QED  BY <2>1, <3>1, <3>2, Dispatched
  <2>5. /\ StoreOK(store') /\ Live(store') = Live(store) \cup Fresh(store, n)
        /\ store'.nextId = store.nextId + n
      BY <1>5, <1>6, <2>4, SameRows
  <2>6. TypeOK'
      BY <1>1, <1>7, <2>4, <2>5, TypeKept
  <2>7. LoopsInv'
      BY <1>1, LoopsKept
  <2>8. IdsInv'
      BY <1>1, <2>5, IdsKept
  <2>9. WorkersInv'
      BY <1>1, <1>7, <2>5, WorkersKept DEF History
  <2>10. QueueInv'
      BY <1>1, <1>9, <2>7, QueueIdle
  <2>11. SyncInv'
      BY <1>1, <1>9, <2>4 DEF SyncInv, InSync
  <2> QED  BY <2>6, <2>7, <2>8, <2>9, <2>10, <2>11 DEF BrokerInv
<1> QED  BY <1>8, <1>9

\* A publish goes on with its row: what it had to do it still has, and what ran
\* was its own row.
Moves(f, g, h, S) ==
    /\ g.id = f.id /\ g.todo = f.todo /\ g.at # "entering" /\ FrameOK(g, store.nextId, h)
    /\ h.excused = hist.excused /\ hist.succeeded \subseteq h.succeeded
    /\ \A i \in Id : h.runs[i] >= hist.runs[i]
    /\ \A i \in Id : IF i \in S THEN h.runs[i] = 1 ELSE h.runs[i] = hist.runs[i]
    /\ S \subseteq Waits(f) /\ S \cap Range(f.todo) = {}

\* Then nothing that waits is lost.
LEMMA FrameMoves ==
    ASSUME BrokerInv, NEW t \in Task, call[t] # << >>,
           NEW g \in Frame, NEW h \in History, NEW S, Moves(Last(call[t]), g, h, S)
    PROVE  LET c == [call EXCEPT ![t] = Append(Front(call[t]), g)] IN
           c \in Calls /\ WaitOK(store, c, h, << >>) /\ Covered(store, c, h, << >>)
<1> DEFINE n == store.nextId
           f == Last(call[t])
           d == [call EXCEPT ![t] = Front(call[t])]
           c == [call EXCEPT ![t] = Append(Front(call[t]), g)]
<1>0. /\ g.id = f.id /\ g.todo = f.todo /\ g.at # "entering" /\ FrameOK(g, n, h)
      /\ h.excused = hist.excused /\ hist.succeeded \subseteq h.succeeded
      /\ \A i \in Id : h.runs[i] >= hist.runs[i]
      /\ \A i \in Id : IF i \in S THEN h.runs[i] = 1 ELSE h.runs[i] = hist.runs[i]
      /\ S \subseteq Waits(f) /\ S \cap Range(f.todo) = {}
    BY DEF Moves
<1>1. /\ call \in Calls /\ hist \in History /\ n \in Int /\ Live(store) \in SUBSET Id
      /\ store.dispatchable \in Seq(Id)
    BY TypeFacts DEF BrokerInv
<1>2. /\ WaitOK(store, call, hist, << >>) /\ ~harness.loop /\ Covered(store, call, hist, << >>)
    BY CallsAreSync DEF BrokerInv, SyncInv
<1>3. /\ ListOK(store.dispatchable, n, hist.runs) /\ Apart(Range(store.dispatchable), call)
      /\ CallsOK(call, n, hist)
    BY <1>2 DEF WaitOK
<1>4. /\ d \in Calls /\ CallsOK(d, n, hist) /\ Apart(Waits(f), d)
      /\ \A X : Apart(X, call) => Apart(X, d) /\ X \cap Waits(f) = {}
      /\ \A i : OnList(call, i) => OnList(d, i) \/ i \in Range(f.todo)
    BY <1>1, <1>3, Popped
<1>5. c = [d EXCEPT ![t] = Append(d[t], g)]
    BY <1>1 DEF Calls
<1> HIDE DEF c, d, f, n
<1>6. CallsOK(d, n, h)
  <2>1. Apart(S, d)
      BY <1>0, <1>4 DEF Apart
  <2>2. \A i \in Id : i \notin S => h.runs[i] = hist.runs[i]
      BY <1>0
  <2> QED  BY <1>0, <1>1, <1>4, <2>1, <2>2, CallsKeep
<1>7. Waits(g) \subseteq Waits(f) /\ Waits(g) = Range(f.todo)
    BY <1>0 DEF Waits
<1>8. Apart(Waits(g), d) /\ FrameOK(g, n, h)
    BY <1>0, <1>4, <1>7 DEF Apart
<1>9. /\ c \in Calls /\ CallsOK(c, n, h)
      /\ \A X : Apart(X, d) /\ X \cap Waits(g) = {} => Apart(X, c)
      /\ \A i : OnList(d, i) \/ i \in Range(g.todo) => OnList(c, i)
    BY <1>4, <1>5, <1>6, <1>8, Pushed
<1>10. Range(store.dispatchable) \cap Waits(f) = {} /\ Apart(Range(store.dispatchable), c)
    BY <1>3, <1>4, <1>7, <1>9
<1>11. ListOK(store.dispatchable, n, h.runs)
  <2>1. \A i \in Range(store.dispatchable) : i \in Id
    <3>1. \A k \in DOMAIN store.dispatchable : store.dispatchable[k] \in Id
        BY <1>1
    <3> QED  BY <3>1 DEF Range
  <2>2. \A i \in Range(store.dispatchable) : h.runs[i] = hist.runs[i]
      BY <1>0, <1>10, <2>1
  <2> QED  BY <1>1, <1>3, <2>2, ListKeeps
<1>12. WaitOK(store, c, h, << >>)
    BY <1>9, <1>10, <1>11, EmptyHand DEF WaitOK, n
<1>13. Covered(store, c, h, << >>)
  <2> SUFFICES ASSUME NEW i \in Live(store)
               PROVE  /\ h.runs[i] =< 1
                      /\ store.rows[i].queue \in Served /\ h.runs[i] = 0 /\ store.rows[i].token = 0
                           => \/ i \in h.excused \cup Range(store.dispatchable) \cup Range(<< >>)
                              \/ OnList(c, i)
      BY DEF Covered
  <2>1. /\ hist.runs[i] =< 1
        /\ store.rows[i].queue \in Served /\ hist.runs[i] = 0 /\ store.rows[i].token = 0
             => \/ i \in hist.excused \cup Range(store.dispatchable) \cup Range(<< >>)
                \/ OnList(call, i)
      BY <1>2 DEF Covered
  <2>2. i \in Id
      BY <1>1
  <2>3. CASE i \in S
      BY <1>0, <2>2, <2>3
  <2>4. CASE i \notin S
      BY <1>0, <1>4, <1>9, <2>1, <2>2, <2>4
  <2> QED  BY <2>3, <2>4
<1> QED  BY <1>9, <1>12, <1>13 DEF c

\* Frames c and history h that may follow, the store being what it is.
GoesOn(c, h) ==
    /\ c \in Calls /\ h \in History /\ h.left = hist.left /\ Marks(h) = Marks(hist)
    /\ hist.succeeded \subseteq h.succeeded
    /\ \A i \in Id : h.runs[i] >= hist.runs[i]
    /\ \A i \in Id : i >= store.nextId => h.runs[i] = hist.runs[i]
    /\ WaitOK(store, c, h, << >>) /\ Covered(store, c, h, << >>)

\* A sync context's publish goes on, and the store stays.
LEMMA PublishGoesOn ==
    ASSUME BrokerInv, InSync, UNCHANGED <<store, now, tokens, harness, sub, loopVars>>,
           GoesOn(call', hist')
    PROVE  BrokerInv'
<1>0. /\ call' \in Calls /\ hist' \in History /\ hist'.left = hist.left
      /\ Marks(hist') = Marks(hist) /\ hist.succeeded \subseteq hist'.succeeded
      /\ \A i \in Id : hist'.runs[i] >= hist.runs[i]
      /\ \A i \in Id : i >= store.nextId => hist'.runs[i] = hist.runs[i]
      /\ WaitOK(store, call', hist', << >>) /\ Covered(store, call', hist', << >>)
    BY DEF GoesOn
<1>1. /\ TypeOK /\ LoopsInv /\ IdsInv /\ QueueInv /\ WorkersInv /\ SyncInv
      /\ harness.open /\ ~harness.loop /\ queue' = queue /\ worker' = worker /\ InSync'
    BY DEF BrokerInv, loopVars, InSync
<1>2. /\ StoreOK(store) /\ tokens \in Token /\ now \in 0 .. MaxTime /\ store.nextId \in Nat
      /\ Fresh(store, 0) = {}
    BY <1>1, TypeFacts DEF Fresh
<1>3. TypeOK'
  <2>1. SubOK(sub')
      BY <1>1 DEF TypeOK, SubOK
  <2> QED  BY <1>0, <1>1, <1>2, <2>1, TypeKept
<1>4. LoopsInv'
    BY <1>0, <1>1, LoopsKept
<1>5. IdsInv'
  <2>1. 0 \in Nat /\ Live(store') = Live(store) \cup Fresh(store, 0)
        /\ store'.nextId = store.nextId + 0 /\ StoreOK(store')
      BY <1>2
  <2> QED  BY <1>0, <1>1, <2>1, IdsKept
<1>6. WorkersInv'
  <2>1. 0 \in Nat /\ Live(store') \subseteq Live(store) \cup Fresh(store, 0)
        /\ store'.nextId = store.nextId + 0 /\ harness'.loop = harness.loop
      BY <1>2
  <2> QED  BY <1>0, <1>1, <2>1, WorkersKept
<1>7. QueueInv'
    BY <1>1, <1>4, QueueIdle
<1>8. SyncInv'
    BY <1>0, <1>1 DEF SyncInv
<1> QED  BY <1>3, <1>4, <1>5, <1>6, <1>7, <1>8 DEF BrokerInv

\* The frame on top of a task's publishes, as it is typed and as the invariant has it.
LEMMA TopFrame ==
    ASSUME BrokerInv, NEW t \in Task, call[t] # << >>
    PROVE  /\ Last(call[t]) \in Frame /\ FrameOK(Last(call[t]), store.nextId, hist)
           /\ call \in Calls /\ hist \in History /\ InSync
           /\ Last(call[t]).id \in Id /\ Last(call[t]).todo \in Seq(Id)
           /\ Range(Last(call[t]).todo) \subseteq Id
<1>1. call \in Calls /\ hist \in History
    BY TypeFacts DEF BrokerInv
<1>2. CallsOK(call, store.nextId, hist) /\ InSync
    BY CallsAreSync DEF BrokerInv, SyncInv, WaitOK
<1>3. Last(call[t]) \in Frame /\ FrameOK(Last(call[t]), store.nextId, hist)
    BY <1>1, <1>2, Popped
<1>4. Last(call[t]).id \in Id /\ Last(call[t]).todo \in Seq(Id)
    BY <1>3 DEF Frame
<1>5. \A k \in DOMAIN Last(call[t]).todo : Last(call[t]).todo[k] \in Id
    BY <1>4
<1> QED  BY <1>1, <1>2, <1>3, <1>4, <1>5 DEF Range

\* A handler starts: its row, which waited in this frame alone, has now run once.
LEMMA HandlerStartsKeeps ==
    ASSUME BrokerInv, NEW t \in Task, HandlerStarts(t)
    PROVE  BrokerInv'
<1> DEFINE f == Last(call[t])
           g == [f EXCEPT !.at = "handling"]
           h == [hist EXCEPT !.runs[f.id] = @ + 1]
<1>1. /\ call[t] # << >> /\ f.at = "entering" /\ hist' = h
      /\ call' = [call EXCEPT ![t] = Append(Front(call[t]), g)]
      /\ UNCHANGED <<store, now, tokens, harness, sub, loopVars>>
    BY DEF HandlerStarts, Top
<1>2. /\ f \in Frame /\ FrameOK(f, store.nextId, hist) /\ hist \in History /\ InSync
      /\ f.id \in Id /\ f.todo \in Seq(Id) /\ Range(f.todo) \subseteq Id
    BY <1>1, TopFrame
<1>3. /\ h \in History /\ h.left = hist.left /\ h.succeeded = hist.succeeded
      /\ h.excused = hist.excused /\ Marks(h) = Marks(hist)
      /\ h.runs[f.id] = hist.runs[f.id] + 1 /\ hist.runs[f.id] \in Nat
      /\ \A j \in Id : j # f.id => h.runs[j] = hist.runs[j]
    BY <1>2, RunRecorded
<1>4. g \in Frame /\ g.id = f.id /\ g.todo = f.todo /\ g.at = "handling"
    BY <1>2 DEF Frame
<1>5. f = Last(call[t])
    OBVIOUS
<1> HIDE DEF f, g, h
<1>6. /\ ListOK(f.todo, store.nextId, hist.runs) /\ f.id < store.nextId
      /\ hist.runs[f.id] = 0 /\ f.id \notin Range(f.todo)
    BY <1>1, <1>2 DEF FrameOK
<1>7. \A i \in Id : hist.runs[i] \in Nat /\ h.runs[i] \in Nat /\ h.runs[i] >= hist.runs[i]
  <2>1. \A i \in Id : hist.runs[i] \in Nat
      BY <1>2 DEF History
  <2> QED  BY <1>3, <2>1
<1>8. store.nextId \in Int
    BY TypeFacts DEF BrokerInv
<1>9. ListOK(f.todo, store.nextId, h.runs)
  <2>1. \A i \in Range(f.todo) : h.runs[i] = hist.runs[i]
      BY <1>2, <1>3, <1>6
  <2> QED  BY <1>2, <1>6, <1>8, <2>1, ListKeeps
<1>10. FrameOK(g, store.nextId, h)
    BY <1>3, <1>4, <1>6, <1>9 DEF FrameOK
<1>11. call' \in Calls /\ WaitOK(store, call', h, << >>) /\ Covered(store, call', h, << >>)
  <2>1. {f.id} \subseteq Waits(f) /\ {f.id} \cap Range(f.todo) = {}
      BY <1>1, <1>6 DEF Waits
  <2>2. \A i \in Id : IF i \in {f.id} THEN h.runs[i] = 1 ELSE h.runs[i] = hist.runs[i]
      BY <1>3, <1>6
  <2>3. Moves(f, g, h, {f.id})
      BY <1>3, <1>4, <1>7, <1>10, <2>1, <2>2 DEF Moves
  <2> QED  BY <1>1, <1>3, <1>4, <1>5, <2>3, FrameMoves
<1>12. \A i \in Id : i >= store.nextId => h.runs[i] = hist.runs[i]
    BY <1>3, <1>6, <1>8 DEF Id
<1>13. GoesOn(call', hist')
    BY <1>1, <1>3, <1>7, <1>11, <1>12 DEF GoesOn
<1> QED  BY <1>1, <1>2, <1>13, PublishGoesOn

\* A handler returns or raises: its frame still holds the rows after its own.
LEMMA HandlerReturnsKeeps ==
    ASSUME BrokerInv, NEW t \in Task, NEW o \in Outcome, NEW raises \in BOOLEAN,
           NEW stops \in BOOLEAN, HandlerReturns(t, o, raises, stops)
    PROVE  BrokerInv'
<1> DEFINE f == Last(call[t])
           g == [f EXCEPT !.at = "leaving", !.outcome = o, !.raises = raises, !.stops = stops]
<1>1. /\ call[t] # << >> /\ f.at = "handling"
      /\ call' = [call EXCEPT ![t] = Append(Front(call[t]), g)]
      /\ hist' = IF o = "ack" THEN [hist EXCEPT !.succeeded = @ \cup {f.id}] ELSE hist
      /\ UNCHANGED <<store, now, tokens, harness, sub, loopVars>>
    BY DEF HandlerReturns, Top
<1>2. /\ f \in Frame /\ FrameOK(f, store.nextId, hist) /\ hist \in History /\ InSync
      /\ f.id \in Id /\ f.todo \in Seq(Id)
    BY <1>1, TopFrame
<1>3. /\ hist' \in History /\ hist'.left = hist.left /\ hist'.runs = hist.runs
      /\ hist'.excused = hist.excused /\ Marks(hist') = Marks(hist)
      /\ hist.succeeded \subseteq hist'.succeeded
      /\ o = "ack" => f.id \in hist'.succeeded
    BY <1>1, <1>2, SuccessRecorded
<1>4. /\ g \in Frame /\ g.id = f.id /\ g.todo = f.todo /\ g.at = "leaving" /\ g.outcome = o
    BY <1>2 DEF Frame, Outcome
<1>5. f = Last(call[t])
    OBVIOUS
<1> HIDE DEF f, g
<1>6. FrameOK(g, store.nextId, hist')
    BY <1>1, <1>2, <1>3, <1>4 DEF FrameOK
<1>7. \A i \in Id : hist.runs[i] \in Nat
    BY <1>2 DEF History
<1>8. \A i \in Id : hist'.runs[i] >= hist.runs[i]
    BY <1>3, <1>7
<1>9. call' \in Calls /\ WaitOK(store, call', hist', << >>) /\ Covered(store, call', hist', << >>)
  <2>1. Moves(f, g, hist', {})
      BY <1>3, <1>4, <1>6, <1>8 DEF Moves
  <2> QED  BY <1>1, <1>3, <1>4, <1>5, <2>1, FrameMoves
<1>10. GoesOn(call', hist')
  <2>1. \A i \in Id : i >= store.nextId => hist'.runs[i] = hist.runs[i]
      BY <1>3
  <2> QED  BY <1>3, <1>8, <1>9, <2>1 DEF GoesOn
<1> QED  BY <1>1, <1>2, <1>10, PublishGoesOn
-----------------------------------------------------------------------------
\* The writes of outcomes, and what is stored beside the publishes.

\* What the write of an outcome by a copy of row i leaves: the row, or it is
\* gone and how is recorded.
Wrote(i, s, h) ==
    /\ StoreOK(s) /\ s.nextId = store.nextId /\ s.dispatchable = store.dispatchable
    /\ h \in History /\ h.runs = hist.runs /\ hist.succeeded \subseteq h.succeeded
    /\ h.excused = hist.excused
    /\ \A j \in Live(s) : /\ j \in Live(store)
                          /\ s.rows[j].queue = store.rows[j].queue
                          /\ s.rows[j].deliveries = store.rows[j].deliveries
                          /\ j # i => s.rows[j] = store.rows[j]
    /\ \/ Live(s) = Live(store) /\ h.left = hist.left
       \/ /\ i \in Live(store) /\ Live(s) = Live(store) \ {i} /\ h.left[i] \in Ending
          /\ \A j \in Id : j # i => h.left[j] = hist.left[j]

\* A history that says of the rows what the history of now says.
RowsSame(h) == /\ h \in History /\ h.runs = hist.runs /\ h.left = hist.left
               /\ h.succeeded = hist.succeeded /\ h.excused = hist.excused

\* A worker's handler asks for a stop(): recorded, and nothing else.
LEMMA StopRecorded ==
    ASSUME NEW h \in History, NEW n \in 1 .. MaxContexts
    PROVE  LET g == [h EXCEPT !.stopped = @ \cup {n}] IN
           /\ g \in History /\ g.left = h.left /\ g.runs = h.runs /\ g.succeeded = h.succeeded
           /\ g.buried = h.buried /\ g.excused = h.excused /\ g.caught = h.caught
           /\ n \in g.stopped
BY DEF History

\* The writes of the fake client leave what Wrote says.
LEMMA WriteWrote ==
    ASSUME BrokerInv, FakeAssumption, NEW i \in Id, NEW token, NEW o \in Outcome, NEW d \in Nat,
           NEW g, RowsSame(g)
    PROVE  /\ Wrote(i, Written(store, i, token, o, d), Leaves(g, store, i, token, o))
           /\ Marks(Leaves(g, store, i, token, o)) = Marks(g)
<1> DEFINE s == Written(store, i, token, o, d)
           h == Leaves(g, store, i, token, o)
<1> SUFFICES Wrote(i, s, h) /\ Marks(h) = Marks(g)
    OBVIOUS
<1>1. StoreOK(store) /\ hist \in History /\ now \in Nat /\ g \in History
    BY TypeFacts DEF BrokerInv, RowsSame
<1>2. /\ ~TokenMatches(store, i, token) => s = store
      /\ TokenMatches(store, i, token) /\ o = "retry" => Released(store, s, i)
      /\ TokenMatches(store, i, token) /\ o # "retry" => Lost(store, s, i)
    BY <1>1, WrittenFacts
<1>3. /\ h \in History /\ h.runs = g.runs /\ h.succeeded = g.succeeded
      /\ h.excused = g.excused /\ Marks(h) = Marks(g)
      /\ \A j \in Id : j # i => h.left[j] = g.left[j]
      /\ ~TokenMatches(store, i, token) \/ o = "retry" => h = g
      /\ TokenMatches(store, i, token) /\ o # "retry" =>
            h.left[i] = IF o = "ack" THEN "acked" ELSE "dead"
    BY <1>1, LeavesFacts
<1>4. /\ g.runs = hist.runs /\ g.left = hist.left
      /\ g.succeeded = hist.succeeded /\ g.excused = hist.excused
    BY DEF RowsSame
<1> HIDE DEF s, h
<1>5. CASE ~TokenMatches(store, i, token)
  <2>1. s = store /\ h = g
      BY <1>2, <1>3, <1>5
  <2> QED  BY <1>1, <1>4, <2>1 DEF Wrote
<1>6. CASE TokenMatches(store, i, token) /\ o = "retry"
  <2>1. Released(store, s, i) /\ h = g
      BY <1>2, <1>3, <1>6
  <2> QED  BY <1>1, <1>4, <2>1 DEF Wrote, Released
<1>7. CASE TokenMatches(store, i, token) /\ o # "retry"
  <2>1. i \in Live(store) /\ h.left[i] \in Ending
      BY <1>3, <1>7 DEF TokenMatches, Ending
  <2>2. Lost(store, s, i)
      BY <1>2, <1>7
  <2>3. /\ StoreOK(s) /\ s.nextId = store.nextId /\ s.dispatchable = store.dispatchable
        /\ Live(s) = Live(store) \ {i} /\ \A j \in Live(s) : s.rows[j] = store.rows[j]
      BY <2>2 DEF Lost
  <2> QED  BY <1>3, <1>4, <2>1, <2>3 DEF Wrote
<1> QED  BY <1>3, <1>5, <1>6, <1>7

\* And so does a step in which nothing is written.
LEMMA NothingWrote ==
    ASSUME BrokerInv, NEW h \in History, h.runs = hist.runs, hist.succeeded \subseteq h.succeeded,
           h.excused = hist.excused, h.left = hist.left
    PROVE  \A i : Wrote(i, store, h)
<1>1. StoreOK(store)
    BY TypeFacts DEF BrokerInv
<1> QED  BY <1>1 DEF Wrote

\* Ids stay in order when an outcome is written.
LEMMA IdsWrote ==
    ASSUME TypeOK, IdsInv, NEW i, NEW s, NEW h, Wrote(i, s, h),
           StoreOK(store'), Live(store') = Live(s), store'.nextId = s.nextId,
           hist'.left = h.left, hist'.runs = h.runs
    PROVE  IdsInv'
<1>1. store.nextId \in Nat /\ hist'.runs = hist.runs /\ store'.nextId = store.nextId
    BY TypeFacts DEF Wrote
<1>2. CASE Live(s) = Live(store) /\ h.left = hist.left
  <2>1. /\ 0 \in Nat /\ Fresh(store, 0) = {} /\ store'.nextId = store.nextId + 0
      BY <1>1 DEF Fresh
  <2>2. Live(store') = Live(store) \cup Fresh(store, 0)
      BY <1>2, <2>1
  <2> QED  BY <1>1, <1>2, <2>1, <2>2, IdsKept
<1>3. CASE /\ i \in Live(store) /\ Live(s) = Live(store) \ {i} /\ h.left[i] \in Ending
           /\ \A j \in Id : j # i => h.left[j] = hist.left[j]
    BY <1>1, <1>3, IdsLost
<1> QED  BY <1>2, <1>3 DEF Wrote

\* The outcome of the innermost publish's row is written: what it has still to
\* do is in its hand, and its row has run.
LEMMA TopWrote ==
    ASSUME BrokerInv, NEW t \in Task, call[t] # << >>, Last(call[t]).at = "leaving",
           NEW s, NEW h, Wrote(Last(call[t]).id, s, h)
    PROVE  LET d == [call EXCEPT ![t] = Front(call[t])] IN
           /\ d \in Calls /\ Front(call[t]) \in Seq(Frame)
           /\ WaitOK(s, d, h, Last(call[t]).todo) /\ Covered(s, d, h, Last(call[t]).todo)
<1> DEFINE n == store.nextId
           f == Last(call[t])
           d == [call EXCEPT ![t] = Front(call[t])]
<1>1. /\ call \in Calls /\ hist \in History /\ n \in Int /\ store.dispatchable \in Seq(Id)
    BY TypeFacts DEF BrokerInv
<1>2. /\ f \in Frame /\ FrameOK(f, n, hist) /\ f.id \in Id /\ f.todo \in Seq(Id) /\ InSync
    BY TopFrame
<1>3. WaitOK(store, call, hist, << >>) /\ Covered(store, call, hist, << >>)
    BY <1>2 DEF BrokerInv, SyncInv, InSync
<1>4. /\ ListOK(store.dispatchable, n, hist.runs) /\ Apart(Range(store.dispatchable), call)
      /\ CallsOK(call, n, hist)
    BY <1>3 DEF WaitOK
<1>5. /\ d \in Calls /\ CallsOK(d, n, hist) /\ Apart(Waits(f), d)
      /\ \A X : Apart(X, call) => Apart(X, d) /\ X \cap Waits(f) = {}
      /\ \A i : OnList(call, i) => OnList(d, i) \/ i \in Range(f.todo)
    BY <1>1, <1>4, Popped
<1>6. Front(call[t]) \in Seq(Frame)
    BY <1>1, PopSeq DEF Calls
<1>7. f.at = "leaving" /\ Wrote(f.id, s, h)
    OBVIOUS
<1> HIDE DEF f, d, n
<1>8. Range(f.todo) = Waits(f) /\ ListOK(f.todo, n, hist.runs) /\ hist.runs[f.id] > 0
    BY <1>2, <1>7 DEF Waits, FrameOK
<1>9. /\ Apart(Range(f.todo), d) /\ Apart(Range(store.dispatchable), d)
      /\ Range(f.todo) \cap Range(store.dispatchable) = {}
    BY <1>4, <1>5, <1>8
<1>10. /\ s.nextId = n /\ s.dispatchable = store.dispatchable /\ h \in History
       /\ h.runs = hist.runs /\ hist.succeeded \subseteq h.succeeded /\ h.excused = hist.excused
       /\ \A j \in Live(s) : /\ j \in Live(store) /\ s.rows[j].queue = store.rows[j].queue
                             /\ j # f.id => s.rows[j] = store.rows[j]
    BY <1>7 DEF Wrote, n
<1>11. CallsOK(d, n, h)
  <2>1. \A i \in Id : hist.runs[i] \in Nat /\ h.runs[i] >= hist.runs[i] /\ h.runs[i] = hist.runs[i]
      BY <1>1, <1>10 DEF History
  <2> QED  BY <1>1, <1>5, <1>9, <1>10, <2>1, CallsKeep
<1>12. WaitOK(s, d, h, f.todo)
    BY <1>4, <1>8, <1>9, <1>10, <1>11 DEF WaitOK
<1>13. Covered(s, d, h, f.todo)
  <2> SUFFICES ASSUME NEW i \in Live(s)
               PROVE  /\ h.runs[i] =< 1
                      /\ s.rows[i].queue \in Served /\ h.runs[i] = 0 /\ s.rows[i].token = 0
                           => \/ i \in h.excused \cup Range(s.dispatchable) \cup Range(f.todo)
                              \/ OnList(d, i)
      BY DEF Covered
  <2>1. /\ hist.runs[i] =< 1
        /\ store.rows[i].queue \in Served /\ hist.runs[i] = 0 /\ store.rows[i].token = 0
             => \/ i \in hist.excused \cup Range(store.dispatchable)
                \/ OnList(call, i)
      BY <1>3, <1>10, EmptyHand DEF Covered
  <2>2. hist.runs[i] = 0 => s.rows[i] = store.rows[i]
      BY <1>8, <1>10
  <2> QED  BY <1>5, <1>10, <2>1, <2>2
<1> QED  BY <1>5, <1>6, <1>12, <1>13 DEF f, d

\* What the outcome of row i is when it is written, or left to its lease.
Outcomes(i, token, o, s, h) ==
    \/ s = store /\ h = hist
    \/ \E z \in Nat : /\ s = Written(store, i, token, o, z)
                      /\ h = Leaves(hist, store, i, token, o)

\* Either way a sync dispatch goes on with the store s and the history h.
LEMMA OutcomeIs ==
    ASSUME BrokerInv, FakeAssumption, NEW t \in Task, OutcomeWritten(t)
    PROVE  LET f == Last(call[t]) IN
           \E s, h :
              /\ Wrote(f.id, s, h) /\ Outcomes(f.id, f.token, f.outcome, s, h)
              /\ Marks(h) = Marks(hist)
              /\ IF f.raises
                 THEN store' = s /\ call' = [call EXCEPT ![t] = Front(call[t])] /\ UNCHANGED tokens
                 ELSE Dispatch(t, s, f.todo, Front(call[t]), sub.running /\ ~f.stops)
              /\ hist' = IF f.raises THEN [h EXCEPT !.excused = @ \cup Range(f.todo)] ELSE h
<1> DEFINE f == Last(call[t])
<1>1. call[t] # << >> /\ f.at = "leaving"
    BY DEF OutcomeWritten
<1>2. f.id \in Id /\ f.outcome \in Outcome
    BY <1>1, TopFrame DEF FrameOK
<1> DEFINE GoOn(s, h) ==
       /\ IF f.raises
          THEN store' = s /\ call' = [call EXCEPT ![t] = Front(call[t])] /\ UNCHANGED tokens
          ELSE Dispatch(t, s, f.todo, Front(call[t]), sub.running /\ ~f.stops)
       /\ hist' = IF f.raises THEN [h EXCEPT !.excused = @ \cup Range(f.todo)] ELSE h
<1>3. \/ \E z \in IF f.outcome = "retry" THEN Delay ELSE {0} :
            GoOn(Written(store, f.id, f.token, f.outcome, z),
                 Leaves(hist, store, f.id, f.token, f.outcome))
      \/ GoOn(store, hist)
    BY DEF OutcomeWritten
<1> SUFFICES \E s, h : /\ Wrote(f.id, s, h) /\ Outcomes(f.id, f.token, f.outcome, s, h)
                       /\ Marks(h) = Marks(hist) /\ GoOn(s, h)
    OBVIOUS
<1> HIDE DEF f, GoOn
<1>4. CASE \E z \in IF f.outcome = "retry" THEN Delay ELSE {0} :
              GoOn(Written(store, f.id, f.token, f.outcome, z),
                   Leaves(hist, store, f.id, f.token, f.outcome))
  <2> PICK z \in IF f.outcome = "retry" THEN Delay ELSE {0} :
              GoOn(Written(store, f.id, f.token, f.outcome, z),
                   Leaves(hist, store, f.id, f.token, f.outcome))
      BY <1>4
  <2>1. z \in Nat
      BY DEF FakeAssumption
  <2> DEFINE s == Written(store, f.id, f.token, f.outcome, z)
             h == Leaves(hist, store, f.id, f.token, f.outcome)
  <2>2. Wrote(f.id, s, h) /\ Marks(h) = Marks(hist)
    <3>1. RowsSame(hist)
        BY TypeFacts DEF BrokerInv, RowsSame
    <3> QED  BY <1>2, <2>1, <3>1, WriteWrote
  <2>3. Outcomes(f.id, f.token, f.outcome, s, h)
      BY <2>1 DEF Outcomes
  <2>4. GoOn(s, h)
      OBVIOUS
  <2> HIDE DEF s, h
  <2> QED  BY <2>2, <2>3, <2>4
<1>5. CASE GoOn(store, hist)
  <2>1. Outcomes(f.id, f.token, f.outcome, store, hist)
      BY DEF Outcomes
  <2>2. Wrote(f.id, store, hist)
    <3>1. hist \in History
        BY TypeFacts DEF BrokerInv
    <3> QED  BY <3>1, NothingWrote
  <2> QED  BY <1>5, <2>1, <2>2
<1> QED  BY <1>3, <1>4, <1>5

\* The outcome of a sync dispatch is written and the publish goes on with its
\* next row, or raises and its other rows are excused.
LEMMA OutcomeWrittenKeeps ==
    ASSUME BrokerInv, FakeAssumption, NEW t \in Task, OutcomeWritten(t)
    PROVE  BrokerInv'
<1> DEFINE f == Last(call[t])
           below == Front(call[t])
           d == [call EXCEPT ![t] = below]
           running == sub.running /\ ~f.stops
<1>1. /\ call[t] # << >> /\ f.at = "leaving" /\ UNCHANGED <<now, harness, loopVars>>
      /\ sub' = IF f.stops THEN [running |-> FALSE, stopping |-> TRUE, tasks |-> {}] ELSE sub
    BY DEF OutcomeWritten
<1>2. PICK s, h :
         /\ Wrote(f.id, s, h) /\ Marks(h) = Marks(hist)
         /\ IF f.raises
            THEN store' = s /\ call' = d /\ UNCHANGED tokens
            ELSE Dispatch(t, s, f.todo, below, running)
         /\ hist' = IF f.raises THEN [h EXCEPT !.excused = @ \cup Range(f.todo)] ELSE h
    BY OutcomeIs
<1>3. /\ IF f.raises
         THEN store' = s /\ call' = d /\ UNCHANGED tokens
         ELSE Dispatch(t, s, f.todo, below, running)
      /\ hist' = IF f.raises THEN [h EXCEPT !.excused = @ \cup Range(f.todo)] ELSE h
    BY <1>2
<1>4. /\ FrameOK(f, store.nextId, hist) /\ f.id \in Id /\ f.todo \in Seq(Id)
      /\ Range(f.todo) \subseteq Id /\ call \in Calls /\ InSync
    BY <1>1, TopFrame
<1> HIDE DEF f, running
<1>6. Wrote(f.id, s, h) /\ Marks(h) = Marks(hist)
    BY <1>2
<1>7. /\ d \in Calls /\ below \in Seq(Frame) /\ WaitOK(s, d, h, f.todo) /\ Covered(s, d, h, f.todo)
    BY <1>1, <1>6, TopWrote DEF f
<1>8. /\ StoreOK(s) /\ h \in History /\ s.nextId = store.nextId
      /\ h.runs = hist.runs /\ hist.succeeded \subseteq h.succeeded /\ Marks(h) = Marks(hist)
      /\ Live(s) \subseteq Live(store)
    BY <1>6 DEF Wrote
<1> HIDE DEF below, d
<1>9. /\ TypeOK /\ LoopsInv /\ IdsInv /\ QueueInv /\ WorkersInv /\ SyncInv
      /\ ~harness.loop /\ tokens \in Token /\ now \in 0 .. MaxTime /\ store.nextId \in Nat
      /\ queue' = queue /\ worker' = worker /\ harness' = harness /\ now' = now
      /\ UNCHANGED loopVars
  <2>1. /\ TypeOK /\ LoopsInv /\ IdsInv /\ QueueInv /\ WorkersInv /\ SyncInv /\ ~harness.loop
      BY <1>4 DEF BrokerInv, InSync
  <2>2. tokens \in Token /\ now \in 0 .. MaxTime /\ store.nextId \in Nat
      BY <2>1, TypeFacts
  <2>3. queue' = queue /\ worker' = worker /\ harness' = harness /\ now' = now /\ UNCHANGED loopVars
      BY <1>1 DEF loopVars
  <2> QED  BY <2>1, <2>2, <2>3
<1>10. /\ call' \in Calls /\ tokens' \in Token /\ StoreOK(store') /\ Live(store') = Live(s)
       /\ store'.nextId = s.nextId /\ hist' \in History /\ hist'.left = h.left
       /\ hist'.runs = h.runs /\ hist'.succeeded = h.succeeded /\ Marks(hist') = Marks(h)
       /\ WaitOK(store', call', hist', << >>) /\ Covered(store', call', hist', << >>)
  <2>1. CASE f.raises
    <3>1. store' = s /\ call' = d /\ tokens' = tokens
        BY <1>3, <2>1
    <3>2. /\ hist' \in History /\ hist'.left = h.left /\ hist'.runs = h.runs
          /\ hist'.succeeded = h.succeeded /\ Marks(hist') = Marks(h)
          /\ hist'.excused = h.excused \cup Range(f.todo)
      <4>1. hist' = [h EXCEPT !.excused = @ \cup Range(f.todo)]
          BY <1>3, <2>1
      <4> QED  BY <1>4, <1>8, <4>1, RowsExcused
    <3>3. CallsOK(d, s.nextId, hist')
      <4>1. CallsOK(d, s.nextId, h) /\ s.nextId \in Int
          BY <1>7, <1>8, <1>9 DEF WaitOK
      <4>2. Apart({}, d)
          BY EmptyHand
      <4>3. \A i \in Id : h.runs[i] \in Nat /\ hist'.runs[i] >= h.runs[i] /\ hist'.runs[i] = h.runs[i]
          BY <1>8, <3>2 DEF History
      <4> QED  BY <1>7, <1>8, <3>2, <4>1, <4>2, <4>3, CallsKeep
    <3>4. WaitOK(store', call', hist', << >>)
        BY <1>7, <3>1, <3>2, <3>3, EmptyHand DEF WaitOK
    <3>5. Covered(store', call', hist', << >>)
        BY <1>7, <3>1, <3>2 DEF Covered
    <3> QED  BY <1>7, <1>8, <1>9, <3>1, <3>2, <3>4, <3>5
  <2>2. CASE ~f.raises
    <3>1. Dispatch(t, s, f.todo, below, running) /\ hist' = h
        BY <1>3, <2>2
    <3>2. /\ call' \in Calls /\ tokens' \in Token
          /\ store' = s \/ \E S : Leased(s, store', S, tokens')
          /\ WaitOK(store', call', h, << >>) /\ Covered(store', call', h, << >>)
        BY <1>4, <1>7, <1>8, <1>9, <3>1, Dispatched DEF d
    <3>3. StoreOK(store') /\ Live(store') = Live(s) /\ store'.nextId = s.nextId
        BY <1>8, <3>2, SameRows
    <3> QED  BY <1>8, <3>1, <3>2, <3>3
  <2> QED  BY <2>1, <2>2
<1>11. TypeOK'
  <2>1. SubOK(sub)
      BY <1>9 DEF TypeOK, SubOK
  <2>2. SubOK([running |-> FALSE, stopping |-> TRUE, tasks |-> {}])
      BY DEF SubOK
  <2>3. SubOK(sub')
      BY <1>1, <2>1, <2>2
  <2> QED  BY <1>9, <1>10, <2>3, TypeKept
<1>12. LoopsInv'
  <2>1. sub' = sub \/ (InSync /\ sub'.running = FALSE /\ sub'.tasks = {})
      BY <1>1, <1>4
  <2> QED  BY <1>8, <1>9, <1>10, <2>1, LoopsKept
<1>13. IdsInv'
    BY <1>4, <1>6, <1>9, <1>10, IdsWrote
<1>14. WorkersInv'
  <2>1. /\ 0 \in Nat /\ Live(store') \subseteq Live(store) \cup Fresh(store, 0)
        /\ store'.nextId = store.nextId + 0 /\ harness'.loop = harness.loop
      BY <1>8, <1>9, <1>10
  <2>2. hist.succeeded \subseteq hist'.succeeded /\ hist' \in History
      BY <1>8, <1>10
  <2>3. \A i \in Id : hist'.runs[i] >= hist.runs[i]
      BY <1>8, <1>10 DEF History
  <2> QED  BY <1>9, <2>1, <2>2, <2>3, WorkersKept
<1>15. QueueInv'
    BY <1>9, <1>12, QueueIdle
<1>16. SyncInv'
    BY <1>4, <1>9, <1>10 DEF SyncInv, InSync
<1> QED  BY <1>11, <1>12, <1>13, <1>14, <1>15, <1>16 DEF BrokerInv

\* Rows are stored beside the publishes and the loops.
LEMMA StoreGrows ==
    ASSUME BrokerInv, NEW n \in Nat, Grew(store, store', n), SyncInv', hist' \in History,
           hist'.runs = hist.runs, hist'.left = hist.left, hist'.succeeded = hist.succeeded,
           Marks(hist') = Marks(hist), UNCHANGED <<now, tokens, harness, sub, call, loopVars>>
    PROVE  BrokerInv'
<1>1. /\ TypeOK /\ LoopsInv /\ IdsInv /\ QueueInv /\ WorkersInv /\ SyncInv
      /\ queue' = queue /\ worker' = worker
    BY DEF BrokerInv, loopVars
<1>2. /\ StoreOK(store') /\ Live(store') = Live(store) \cup Fresh(store, n)
      /\ store'.nextId = store.nextId + n
    BY DEF Grew
<1>3. /\ call \in Calls /\ hist \in History /\ tokens \in Token /\ now \in 0 .. MaxTime
      /\ SubOK(sub) /\ store.nextId \in Nat
    BY <1>1, TypeFacts DEF TypeOK, SubOK
<1>4. TypeOK'
    BY <1>1, <1>2, <1>3, TypeKept
<1>5. LoopsInv'
    BY <1>1, LoopsKept
<1>6. IdsInv'
    BY <1>1, <1>2, IdsKept
<1>7. WorkersInv'
    BY <1>1, <1>2, <1>3, WorkersKept DEF History
<1>8. QueueInv'
  <2>1. ASSUME NEW i \in Live(store')
        PROVE  \/ i \in Live(store) /\ store'.rows[i].deliveries >= store.rows[i].deliveries
               \/ i \notin Live(store) /\ i >= store.nextId
    <3>1. CASE i \in Live(store)
      <4>1. store'.rows[i].deliveries = store.rows[i].deliveries
          BY <3>1 DEF Grew
      <4>2. store.rows[i] \in Row
          BY <1>1, <3>1, TypeFacts
      <4>3. store.rows[i].deliveries \in Nat
          BY <4>2 DEF Row
      <4> QED  BY <3>1, <4>1, <4>3
    <3>2. CASE i \notin Live(store)
      <4>1. i \in Fresh(store, n)
          BY <1>2, <3>2
      <4> QED  BY <1>3, <3>2, <4>1 DEF Fresh
    <3> QED  BY <3>1, <3>2
  <2>2. queue'.items \in Seq(Copy) /\ ItemsOK(queue'.items, store, hist.runs)
      BY <1>1 DEF TypeOK, QueueInv
  <2> QED  BY <1>1, <1>2, <1>3, <2>1, <2>2, QueueKept
<1> QED  BY <1>4, <1>5, <1>6, <1>7, <1>8 DEF BrokerInv

\* feed() stores a row that no publish owes a run.
LEMMA FeedKeeps ==
    ASSUME BrokerInv, FakeAssumption, TestAssumption, Feed
    PROVE  BrokerInv'
<1>1. PICK q \in Queue, timer \in Timer \cup {NoTimer}, d \in Delay :
         /\ store' = Fed(store, q, timer, now + d)
         /\ hist' = IF InSync THEN [hist EXCEPT !.excused = @ \cup New(store, store')] ELSE hist
    BY DEF Feed
<1>2. /\ harness.open /\ store.nextId =< MaxRows
      /\ UNCHANGED <<now, tokens, harness, sub, call, loopVars>>
  <2>1. store.nextId \in Nat
      BY TypeFacts DEF BrokerInv
  <2> QED  BY <2>1, LastIdFits DEF Feed
<1>3. /\ StoreOK(store) /\ now + d \in Nat /\ hist \in History /\ call \in Calls
      /\ store.nextId \in Nat /\ store.dispatchable \in Seq(Id) /\ SyncInv
    BY TypeFacts DEF BrokerInv, FakeAssumption
<1>4. PICK n \in Nat : Grew(store, store', n) /\ store'.dispatchable = store.dispatchable
  <2> DEFINE next == now + d
  <2>1. next \in Nat /\ store.nextId =< MaxRows /\ StoreOK(store) /\ store' = Fed(store, q, timer, next)
      BY <1>1, <1>2, <1>3
  <2> HIDE DEF next
  <2>2. \E n \in Nat : /\ Grew(store, Fed(store, q, timer, next), n)
                       /\ Fed(store, q, timer, next).dispatchable = store.dispatchable
      BY <2>1, FedGrew
  <2> QED  BY <2>1, <2>2
<1>5. /\ StoreOK(store') /\ Live(store') = Live(store) \cup Fresh(store, n)
      /\ store'.nextId = store.nextId + n
      /\ \A i \in Live(store) : /\ store'.rows[i].queue = store.rows[i].queue
                                /\ store'.rows[i].token = store.rows[i].token
    BY <1>4 DEF Grew
<1>6. New(store, store') \in SUBSET Id
    BY <1>5, StoreFacts DEF New
<1>7. /\ hist' \in History /\ hist'.runs = hist.runs /\ hist'.left = hist.left
      /\ hist'.succeeded = hist.succeeded /\ Marks(hist') = Marks(hist)
      /\ InSync => hist'.excused = hist.excused \cup New(store, store')
  <2>1. CASE InSync
    <3>1. hist' = [hist EXCEPT !.excused = @ \cup New(store, store')]
        BY <1>1, <2>1
    <3> QED  BY <1>3, <1>6, <3>1, RowsExcused
  <2>2. CASE ~InSync
      BY <1>1, <1>3, <2>2
  <2> QED  BY <2>1, <2>2
<1>8. CASE harness.loop
  <2>1. store.dispatchable = << >>
      BY <1>3, <1>8 DEF SyncInv, InSync
  <2>2. SyncInv'
      BY <1>2, <1>3, <1>4, <1>8, <2>1, SyncIdle
  <2> QED  BY <1>2, <1>4, <1>7, <2>2, StoreGrows
<1>9. CASE ~harness.loop
  <2>1. InSync /\ WaitOK(store, call, hist, << >>) /\ Covered(store, call, hist, << >>)
      BY <1>2, <1>3, <1>9 DEF InSync, SyncInv
  <2>2. /\ ListOK(store.dispatchable, store.nextId, hist.runs)
        /\ Apart(Range(store.dispatchable), call) /\ CallsOK(call, store.nextId, hist)
      BY <2>1 DEF WaitOK
  <2>3. store.nextId \in Int /\ store'.nextId \in Int /\ store.nextId =< store'.nextId
      BY <1>3, <1>5
  <2>4. ListOK(store'.dispatchable, store'.nextId, hist'.runs)
      BY <1>3, <1>4, <1>7, <2>2, <2>3, ListKeeps
  <2>5. CallsOK(call, store'.nextId, hist')
    <3>1. \A i \in Id : hist.runs[i] \in Nat /\ hist'.runs[i] >= hist.runs[i]
        BY <1>3, <1>7 DEF History
    <3>2. Apart({}, call)
        BY EmptyHand
    <3>3. hist.succeeded \subseteq hist'.succeeded /\ \A i \in Id : hist'.runs[i] = hist.runs[i]
        BY <1>7
    <3> QED  BY <1>3, <1>7, <2>2, <2>3, <3>1, <3>2, <3>3, CallsKeep
  <2>6. WaitOK(store', call', hist', << >>)
      BY <1>2, <1>4, <2>2, <2>4, <2>5, EmptyHand DEF WaitOK
  <2>7. Covered(store', call', hist', << >>)
    <3>1. ASSUME NEW i \in Live(store')
          PROVE  /\ hist'.runs[i] =< 1
                 /\ store'.rows[i].queue \in Served /\ hist'.runs[i] = 0 /\ store'.rows[i].token = 0
                      => \/ i \in hist'.excused \cup Range(store'.dispatchable)
                         \/ OnList(call', i)
      <4>1. CASE i \in Live(store)
          BY <1>2, <1>4, <1>5, <1>7, <2>1, <4>1, EmptyHand DEF Covered
      <4>2. CASE i \notin Live(store)
        <5>1. i \in hist'.excused /\ i \in Fresh(store, n) /\ i \in Id
            BY <1>5, <1>7, <2>1, <4>2, StoreFacts DEF New
        <5>2. hist.runs[i] = 0
            BY <1>3, <5>1 DEF BrokerInv, IdsInv, Fresh
        <5> QED  BY <1>7, <5>1, <5>2
      <4> QED  BY <4>1, <4>2
    <3> QED  BY <3>1, EmptyHand DEF Covered
  <2>8. SyncInv'
      BY <1>2, <2>1, <2>6, <2>7 DEF SyncInv, InSync
  <2> QED  BY <1>2, <1>4, <1>7, <2>8, StoreGrows
<1> QED  BY <1>8, <1>9

\* An insert on the client itself puts its row on the list of the store.
LEMMA InsertDirectlyKeeps ==
    ASSUME BrokerInv, FakeAssumption, InsertDirectly
    PROVE  BrokerInv'
<1>1. /\ InSync /\ store.nextId =< MaxRows
      /\ UNCHANGED <<now, tokens, harness, sub, call, loopVars, hist>>
    BY DEF InsertDirectly
<1>2. PICK q \in Queue, d \in Delay : store' = Inserted(store, q, NoTimer, now + d, "ignore")
    BY DEF InsertDirectly
<1>3. /\ StoreOK(store) /\ now + d \in Nat /\ hist \in History /\ store.nextId \in 1 .. MaxRows + 1
      /\ MaxRows \in Nat
  <2>1. /\ StoreOK(store) /\ now \in 0 .. MaxTime /\ hist \in History
        /\ store.nextId \in 1 .. MaxRows + 1
      BY TypeFacts DEF BrokerInv
  <2>2. MaxRows \in Nat /\ d \in Nat
      BY DEF FakeAssumption
  <2>3. now + d \in Nat
      BY <2>1, <2>2
  <2> QED  BY <2>1, <2>2, <2>3
<1>4. Stored(store, store')
  <2> DEFINE next == now + d
  <2>1. next \in Nat
      BY <1>3
  <2>2. store' = Inserted(store, q, NoTimer, next, "ignore")
      BY <1>2
  <2> HIDE DEF next
  <2>3. store'.nextId =< MaxRows + 1
    <3>1. store \in [rows: [Live(store) -> Row], nextId: 1 .. MaxRows + 1,
                     dispatchable: Seq(Id), dlq: SUBSET Id]
        BY <1>3, StoreFacts
    <3>2. store' = InsertedBatch(store, q, NoTimer, next, 1)
        BY <2>2 DEF Inserted, LiveTimers
    <3>3. store'.nextId = store.nextId + 1
        BY <3>1, <3>2 DEF InsertedBatch, Appended
    <3> QED  BY <1>1, <1>3, <3>3
  <2> QED  BY <1>3, <2>1, <2>2, <2>3, InsertedGrew
<1>5. PICK n \in Nat : Grew(store, store', n)
    BY <1>4 DEF Stored
<1>6. WaitOK(store', call, hist, << >>) /\ Covered(store', call, hist, << >>)
    BY <1>1, <1>4, InHand DEF InSync
<1>7. SyncInv'
    BY <1>1, <1>6 DEF SyncInv, InSync
<1>8. hist' = hist /\ UNCHANGED <<now, tokens, harness, sub, call, loopVars>>
    BY <1>1
<1> QED  BY <1>3, <1>5, <1>7, <1>8, StoreGrows

\* After a write or a cancel nothing waits that did not.
LEMMA SyncWrote ==
    ASSUME BrokerInv, NEW i, Wrote(i, store', hist'), UNCHANGED <<harness, call>>,
           \A j \in Live(store') : store'.rows[j].token = 0 /\ hist.runs[j] = 0 /\ ~harness.loop
                                      => store.rows[j].token = 0
    PROVE  SyncInv'
<1>1. /\ SyncInv /\ call \in Calls /\ hist \in History /\ store.nextId \in Int
    BY TypeFacts DEF BrokerInv
<1>2. /\ store'.nextId = store.nextId /\ store'.dispatchable = store.dispatchable
      /\ hist' \in History /\ hist'.runs = hist.runs /\ hist.succeeded \subseteq hist'.succeeded
      /\ hist'.excused = hist.excused
      /\ \A j \in Live(store') : j \in Live(store) /\ store'.rows[j].queue = store.rows[j].queue
    BY DEF Wrote
<1>3. WaitOK(store, call, hist, << >>)
    BY <1>1 DEF SyncInv
<1>4. CallsOK(call, store.nextId, hist')
  <2>1. \A j \in Id : hist.runs[j] \in Nat /\ hist'.runs[j] >= hist.runs[j] /\ hist'.runs[j] = hist.runs[j]
      BY <1>1, <1>2 DEF History
  <2>2. Apart({}, call) /\ CallsOK(call, store.nextId, hist)
      BY <1>3, EmptyHand DEF WaitOK
  <2> QED  BY <1>1, <1>2, <2>1, <2>2, CallsKeep
<1>5. WaitOK(store', call', hist', << >>)
    BY <1>2, <1>3, <1>4 DEF WaitOK
<1>6. ASSUME ~harness.loop
      PROVE  Covered(store', call', hist', << >>)
    BY <1>1, <1>2, <1>6 DEF SyncInv, Covered
<1> QED  BY <1>1, <1>2, <1>5, <1>6 DEF SyncInv, InSync

\* The queue of a loop context stays what it promises when rows leave or are
\* due again.
LEMMA QueueWrote ==
    ASSUME BrokerInv, NEW i, Wrote(i, store', hist'), harness'.loop = harness.loop,
           queue'.items \in Seq(Copy), ItemsOK(queue'.items, store, hist.runs)
    PROVE  QueueInv'
<1>1. TypeOK /\ IdsInv /\ QueueInv /\ store.nextId \in Nat
    BY TypeFacts DEF BrokerInv
<1>2. StoreOK(store') /\ store'.nextId >= store.nextId /\ hist'.runs = hist.runs
    BY <1>1 DEF Wrote
<1>3. \A j \in Live(store') : j \in Live(store) /\ store'.rows[j].deliveries >= store.rows[j].deliveries
  <2> SUFFICES ASSUME NEW j \in Live(store')
               PROVE  j \in Live(store) /\ store'.rows[j].deliveries >= store.rows[j].deliveries
      OBVIOUS
  <2>1. j \in Live(store) /\ store'.rows[j].deliveries = store.rows[j].deliveries
      BY DEF Wrote
  <2>2. store.rows[j] \in Row
      BY <1>1, <2>1, TypeFacts
  <2>3. store.rows[j].deliveries \in Nat
      BY <2>2 DEF Row
  <2> QED  BY <2>1, <2>3
<1> QED  BY <1>1, <1>2, <1>3, QueueKept

\* The first of the queue, and the rest of it.
LEMMA QueueTail ==
    ASSUME NEW l \in Seq(Copy), l # << >>, NEW s, NEW runs, ItemsOK(l, s, runs)
    PROVE  /\ Head(l) \in Copy /\ Tail(l) \in Seq(Copy) /\ ItemsOK(Tail(l), s, runs)
           /\ 1 \in DOMAIN l /\ Head(l) = l[1]
           /\ \A n \in DOMAIN Tail(l) :
                 /\ n + 1 \in DOMAIN l /\ Tail(l)[n] = l[n + 1]
                 /\ Tail(l)[n].id = Head(l).id => Head(l).deliveries < Tail(l)[n].deliveries
<1>1. PICK len \in Nat : len = Len(l) /\ DOMAIN l = 1 .. len /\ len # 0
    OBVIOUS
<1>2. /\ Head(l) \in Copy /\ Head(l) = l[1] /\ Tail(l) \in Seq(Copy)
      /\ DOMAIN Tail(l) = 1 .. len - 1 /\ \A n \in 1 .. len - 1 : Tail(l)[n] = l[n + 1]
    BY <1>1
<1>3. \A n \in DOMAIN Tail(l) : n \in Int /\ n + 1 \in DOMAIN l /\ Tail(l)[n] = l[n + 1] /\ 1 < n + 1
    BY <1>1, <1>2
<1>4. 1 \in DOMAIN l
    BY <1>1
<1>5. /\ \A n \in DOMAIN l :
            /\ l[n].id < s.nextId /\ runs[l[n].id] < l[n].deliveries
            /\ l[n].id \in Live(s) => l[n].deliveries =< s.rows[l[n].id].deliveries
      /\ \A m, n \in DOMAIN l : m < n /\ l[m].id = l[n].id => l[m].deliveries < l[n].deliveries
    BY DEF ItemsOK
<1>6. \A n \in DOMAIN Tail(l) :
         Tail(l)[n].id = Head(l).id => Head(l).deliveries < Tail(l)[n].deliveries
    BY <1>2, <1>3, <1>4, <1>5
<1>7. \A m, n \in DOMAIN Tail(l) : m < n /\ Tail(l)[m].id = Tail(l)[n].id
                                      => Tail(l)[m].deliveries < Tail(l)[n].deliveries
  <2> SUFFICES ASSUME NEW m \in DOMAIN Tail(l), NEW n \in DOMAIN Tail(l), m < n,
                      Tail(l)[m].id = Tail(l)[n].id
               PROVE  Tail(l)[m].deliveries < Tail(l)[n].deliveries
      OBVIOUS
  <2>1. m + 1 < n + 1 /\ m + 1 \in DOMAIN l /\ n + 1 \in DOMAIN l
      BY <1>3
  <2> QED  BY <1>3, <1>5, <2>1
<1>8. ItemsOK(Tail(l), s, runs)
    BY <1>3, <1>5, <1>7 DEF ItemsOK
<1> QED  BY <1>2, <1>3, <1>4, <1>6, <1>8

\* cancel_timer takes a row away from whoever had it on a list.
LEMMA CancelTimerKeeps ==
    ASSUME BrokerInv, CancelTimer
    PROVE  BrokerInv'
<1>1. PICK q \in Queue, timer \in Timer : \E i \in Cancellable(store, q, timer) :
          store' = Cancelled(store, i) /\ hist' = [hist EXCEPT !.left[i] = "cancelled"]
    BY DEF CancelTimer
<1>2. PICK i \in Cancellable(store, q, timer) :
          store' = Cancelled(store, i) /\ hist' = [hist EXCEPT !.left[i] = "cancelled"]
    BY <1>1
<1>3. UNCHANGED <<now, tokens, harness, sub, call, loopVars>>
    BY DEF CancelTimer
<1>4. /\ TypeOK /\ LoopsInv /\ IdsInv /\ QueueInv /\ WorkersInv /\ hist \in History
      /\ StoreOK(store) /\ i \in Live(store) /\ i \in Id
    BY <1>2, TypeFacts DEF BrokerInv, Cancellable, LiveTimers
<1>5. Lost(store, store', i)
    BY <1>2, <1>4, CancelledLost
<1>6. /\ hist' \in History /\ hist'.runs = hist.runs /\ hist'.succeeded = hist.succeeded
      /\ hist'.excused = hist.excused /\ Marks(hist') = Marks(hist)
      /\ hist'.left[i] \in Ending /\ \A j \in Id : j # i => hist'.left[j] = hist.left[j]
  <2>1. "cancelled" \in Ending
      BY DEF Ending
  <2> QED  BY <1>2, <1>4, <2>1, LeavingRecorded
<1>7. Wrote(i, store', hist')
  <2>1. /\ StoreOK(store') /\ Live(store') = Live(store) \ {i} /\ store'.nextId = store.nextId
        /\ store'.dispatchable = store.dispatchable
        /\ \A j \in Live(store') : store'.rows[j] = store.rows[j]
      BY <1>5 DEF Lost
  <2> QED  BY <1>4, <1>6, <2>1 DEF Wrote
<1>8. \A j \in Live(store') : store'.rows[j] = store.rows[j]
    BY <1>5 DEF Lost
<1>9. TypeOK'
  <2>1. /\ StoreOK(store') /\ call \in Calls /\ tokens \in Token /\ now \in 0 .. MaxTime
        /\ SubOK(sub)
      BY <1>4, <1>7, TypeFacts DEF Wrote, TypeOK, SubOK
  <2> QED  BY <1>3, <1>4, <1>6, <2>1, TypeKept
<1>10. LoopsInv'
    BY <1>3, <1>4, <1>6, LoopsKept
<1>11. IdsInv'
  <2>1. StoreOK(store')
      BY <1>7 DEF Wrote
  <2> QED  BY <1>4, <1>7, <2>1, IdsWrote
<1>12. QueueInv'
  <2>1. queue' = queue
      BY <1>3 DEF loopVars
  <2>2. queue'.items \in Seq(Copy) /\ ItemsOK(queue'.items, store, hist.runs)
      BY <1>4, <2>1 DEF TypeOK, QueueInv
  <2> QED  BY <1>3, <1>7, <2>2, QueueWrote
<1>13. WorkersInv'
  <2>1. /\ 0 \in Nat /\ Live(store') \subseteq Live(store) \cup Fresh(store, 0)
        /\ store'.nextId = store.nextId + 0 /\ harness'.loop = harness.loop /\ worker' = worker
    <3>1. store.nextId \in Nat
        BY <1>4, TypeFacts
    <3> QED  BY <1>3, <1>5, <3>1 DEF Lost, loopVars
  <2>2. \A j \in Id : hist'.runs[j] >= hist.runs[j]
      BY <1>4, <1>6 DEF History
  <2> QED  BY <1>4, <1>6, <2>1, <2>2, WorkersKept
<1>14. SyncInv'
    BY <1>3, <1>7, <1>8, SyncWrote
<1> QED  BY <1>9, <1>10, <1>11, <1>12, <1>13, <1>14 DEF BrokerInv

\* The clock moves in no sync context, and nothing here depends on it.
LEMMA TickKeeps ==
    ASSUME BrokerInv, FakeAssumption, Tick
    PROVE  BrokerInv'
<1>1. /\ ~InSync /\ now' = now + 1 /\ now < MaxTime
      /\ UNCHANGED <<store, tokens, harness, sub, call, loopVars, hist>>
    BY DEF Tick
<1>2. UNCHANGED <<queue, worker>>
    BY <1>1 DEF loopVars
<1>3. /\ TypeOK /\ LoopsInv /\ StoreOK(store) /\ call \in Calls /\ hist \in History
      /\ tokens \in Token /\ SubOK(sub) /\ now \in 0 .. MaxTime
    BY TypeFacts DEF BrokerInv, TypeOK, SubOK
<1>4. TypeOK'
  <2>1. now' \in 0 .. MaxTime
      BY <1>1, <1>3 DEF FakeAssumption
  <2> QED  BY <1>1, <1>3, <2>1, TypeKept
<1>5. LoopsInv' /\ IdsInv' /\ QueueInv' /\ WorkersInv' /\ SyncInv'
  <2>1. LoopsInv'
      BY <1>1, <1>3, LoopsKept
  <2>2. IdsInv' /\ QueueInv' /\ WorkersInv'
      BY <1>1, <1>2 DEF BrokerInv, IdsInv, QueueInv, WorkersInv
  <2>3. SyncInv'
      BY <1>1 DEF BrokerInv, SyncInv, InSync
  <2> QED  BY <2>1, <2>2, <2>3
<1> QED  BY <1>4, <1>5 DEF BrokerInv

-----------------------------------------------------------------------------
\* The steps of the loops keep the invariant.

\* A step of worker w, which leaves it as x; it may ask for a stop().
Moved(w, x) ==
    /\ x \in Loop /\ worker' = [worker EXCEPT ![w] = x] /\ worker[w].at # "off"
    /\ queue' \in [items: Seq(Copy), unfinished: Nat]
    /\ \/ queue'.items = queue.items
       \/ queue.items # << >> /\ queue'.items = Tail(queue.items)
    /\ queue = EmptyQueue => queue' = EmptyQueue
    /\ StoreOK(store') /\ hist' \in History /\ stop' \in [Worker -> StopCall]
    /\ \/ stop' = stop /\ Marks(hist') = Marks(hist)
       \/ hist'.caught = hist.caught /\ harness.count \in hist'.stopped
    /\ UNCHANGED <<now, tokens, harness, sub, call, fetchers, spawns>>

\* The loops and the queue stay in order when one worker moves.
LEMMA LoopMoved ==
    ASSUME BrokerInv, NEW w \in Worker, NEW x, Moved(w, x)
    PROVE  TypeOK' /\ LoopsInv' /\ ItemsOK(queue'.items, store, hist.runs)
<1>1. /\ x \in Loop /\ worker' = [worker EXCEPT ![w] = x] /\ worker[w].at # "off"
      /\ queue' \in [items: Seq(Copy), unfinished: Nat]
      /\ queue = EmptyQueue => queue' = EmptyQueue
      /\ StoreOK(store') /\ hist' \in History /\ stop' \in [Worker -> StopCall]
      /\ now' = now /\ tokens' = tokens /\ harness' = harness /\ sub' = sub /\ call' = call
      /\ fetchers' = fetchers /\ spawns' = spawns
    BY DEF Moved
<1>2. \/ queue'.items = queue.items
      \/ queue.items # << >> /\ queue'.items = Tail(queue.items)
    BY DEF Moved
<1>3. /\ TypeOK /\ LoopsInv /\ QueueInv /\ worker \in [Worker -> Loop] /\ queue.items \in Seq(Copy)
    BY DEF BrokerInv, TypeOK
<1>4. worker' \in [Worker -> Loop]
    BY <1>1, <1>3
<1>5. TypeOK'
  <2>1. /\ now' \in 0 .. MaxTime /\ tokens' \in Token
        /\ harness' \in [open: BOOLEAN, loop: BOOLEAN, count: 0 .. MaxContexts, spawned: BOOLEAN]
        /\ sub' \in [running: BOOLEAN, stopping: BOOLEAN, tasks: SUBSET Spawn]
        /\ call' \in [Task -> Seq(Frame)]
        /\ fetchers' \subseteq Spawn /\ spawns' \in {0} \cup Spawn
      BY <1>1, <1>3 DEF TypeOK
  <2> QED  BY <1>1, <1>4, <2>1 DEF TypeOK, History
<1>6. \A v \in Worker : worker'[v] = IF v = w THEN x ELSE worker[v]
    BY <1>1, <1>3
<1>7. /\ \A n \in DOMAIN queue'.items : \E m \in DOMAIN queue.items : queue'.items[n] = queue.items[m]
      /\ ItemsOK(queue'.items, store, hist.runs)
  <2>1. ItemsOK(queue.items, store, hist.runs)
      BY <1>3 DEF QueueInv
  <2>2. CASE queue'.items = queue.items
      BY <2>1, <2>2
  <2>3. CASE queue.items # << >> /\ queue'.items = Tail(queue.items)
    <3>1. /\ ItemsOK(Tail(queue.items), store, hist.runs)
          /\ \A n \in DOMAIN Tail(queue.items) :
                n + 1 \in DOMAIN queue.items /\ Tail(queue.items)[n] = queue.items[n + 1]
        BY <1>3, <2>1, <2>3, QueueTail
    <3> QED  BY <2>3, <3>1
  <2> QED  BY <1>2, <2>2, <2>3
<1>8. LoopsInv'
  <2>1. InLoop' = InLoop /\ InSync' = InSync
      BY <1>1 DEF InLoop, InSync
  <2>2. hist'.caught = hist.caught /\ (Quiet' => Quiet /\ stop' = stop)
    <3>1. CASE stop' = stop /\ Marks(hist') = Marks(hist)
        BY <1>1, <3>1 DEF Marks, Quiet
    <3>2. CASE hist'.caught = hist.caught /\ harness.count \in hist'.stopped
        BY <1>1, <3>2 DEF Quiet
    <3> QED  BY <3>1, <3>2 DEF Moved
  <2>3. InLoop => \A n \in DOMAIN queue'.items : queue'.items[n].from = harness.count
      BY <1>3, <1>7 DEF LoopsInv
  <2>4. ~InLoop => queue' = EmptyQueue
      BY <1>1, <1>3 DEF LoopsInv
  <2>5. \A v \in Worker :
           worker'[v].at # "off" => harness.count > 0 /\ (v[1] \in sub.tasks \/ v \in hist.caught)
    <3>1. \A v \in Worker : worker'[v].at # "off" => worker[v].at # "off"
        BY <1>1, <1>6
    <3> QED  BY <1>3, <3>1 DEF LoopsInv
  <2> QED  BY <1>1, <1>3, <2>1, <2>2, <2>3, <2>4, <2>5 DEF LoopsInv
<1> QED  BY <1>5, <1>7, <1>8

\* A step of a worker that writes an outcome, or nothing.
LEMMA MovedKeeps ==
    ASSUME BrokerInv, NEW w \in Worker, NEW x, Moved(w, x), NEW i, Wrote(i, store', hist'),
           WorkerOK(x, store', hist', harness.loop), ~harness.loop => store' = store
    PROVE  BrokerInv'
<1>1. TypeOK' /\ LoopsInv' /\ ItemsOK(queue'.items, store, hist.runs)
    BY LoopMoved
<1>2. /\ worker' = [worker EXCEPT ![w] = x] /\ harness' = harness /\ call' = call
      /\ queue'.items \in Seq(Copy) /\ StoreOK(store') /\ hist' \in History
    BY DEF Moved
<1>3. /\ TypeOK /\ IdsInv /\ WorkersInv /\ worker \in [Worker -> Loop] /\ store.nextId \in Nat
      /\ hist \in History
    BY TypeFacts DEF BrokerInv, TypeOK
<1>4. IdsInv'
    BY <1>2, <1>3, IdsWrote
<1>5. QueueInv'
    BY <1>1, <1>2, QueueWrote
<1>6. SyncInv'
    BY <1>2, SyncWrote
<1>7. WorkersInv'
  <2>1. /\ store'.nextId = store.nextId /\ Live(store') \subseteq Live(store)
        /\ hist'.runs = hist.runs /\ hist.succeeded \subseteq hist'.succeeded
      BY DEF Wrote
  <2>2. /\ 0 \in Nat /\ Live(store') \subseteq Live(store) \cup Fresh(store, 0)
        /\ store'.nextId = store.nextId + 0 /\ harness'.loop = harness.loop
      BY <1>2, <1>3, <2>1
  <2>3. \A j \in Id : hist'.runs[j] >= hist.runs[j]
      BY <1>3, <2>1 DEF History
  <2>4. \A v \in Worker : WorkerOK(worker[v], store', hist', harness'.loop)
      BY <1>2, <1>3, <2>1, <2>2, <2>3, WorkersKeep
  <2>5. \A v \in Worker : worker'[v] = IF v = w THEN x ELSE worker[v]
      BY <1>2, <1>3
  <2>6. ASSUME NEW v \in Worker
        PROVE  WorkerOK(worker'[v], store', hist', harness'.loop)
    <3>1. CASE v = w
      <4>1. worker'[v] = x
          BY <2>5, <3>1
      <4> QED  BY <1>2, <4>1
    <3>2. CASE v # w
      <4>1. worker'[v] = worker[v]
          BY <2>5, <3>2
      <4> QED  BY <2>4, <4>1
    <3> QED  BY <3>1, <3>2
  <2> QED  BY <2>6 DEF WorkersInv
<1> QED  BY <1>1, <1>4, <1>5, <1>6, <1>7 DEF BrokerInv

\* A worker that waits, backs off or has ended promises nothing.
LEMMA WorkerRests ==
    ASSUME NEW x, x.at \in {"idle", "off", "backoff"}, NEW s, NEW h, NEW loop
    PROVE  WorkerOK(x, s, h, loop)
BY DEF WorkerOK

\* task_done() of a worker that goes on as x, or in a backoff.
Backoff == [Off EXCEPT !.at = "backoff"]
LEMMA TaskDoneMoves ==
    ASSUME NEW w \in Worker, NEW x, x \in Loop, NEW n \in Nat, worker' = TaskDone(w, x, n)
    PROVE  \E y \in {x, Backoff} : y \in Loop /\ worker' = [worker EXCEPT ![w] = y]
<1>1. Backoff \in Loop
    BY DEF Backoff, Off, Loop
<1>2. worker' = [worker EXCEPT ![w] = Backoff] \/ worker' = [worker EXCEPT ![w] = x]
    BY DEF TaskDone, Backoff
<1> QED  BY <1>1, <1>2

\* A worker that has ended, or goes on to its next row.
LEMMA RestingLoops ==
    /\ Off \in Loop /\ Off.at = "off" /\ Idle \in Loop /\ Idle.at = "idle"
    /\ Backoff \in Loop /\ Backoff.at = "backoff"
    /\ NextRow \in Loop /\ NextRow.at \in {"idle", "off"}
BY DEF Off, Idle, Backoff, NextRow, Loop

\* task_done() on the queue.
LEMMA CountedDown ==
    ASSUME TypeOK
    PROVE  LET q == [queue EXCEPT !.unfinished = Less(queue.unfinished)] IN
           /\ q \in [items: Seq(Copy), unfinished: Nat] /\ q.items = queue.items
           /\ queue = EmptyQueue => q = EmptyQueue
<1>1. queue \in [items: Seq(Copy), unfinished: Nat]
    BY DEF TypeOK
<1>2. Less(queue.unfinished) \in Nat /\ (queue.unfinished = 0 => Less(queue.unfinished) = 0)
    BY <1>1 DEF Less
<1>3. queue = EmptyQueue => queue.unfinished = 0
    BY DEF EmptyQueue
<1>4. queue.unfinished = 0 => [queue EXCEPT !.unfinished = Less(queue.unfinished)] = queue
    BY <1>1, <1>2
<1> QED  BY <1>1, <1>2, <1>3, <1>4

\* The handler of a worker returns: its row has run, and has succeeded if it says so.
LEMMA ReturnsKeeps ==
    ASSUME BrokerInv, NEW w \in Worker, NEW o \in Outcome, NEW stops \in BOOLEAN,
           Returns(w, o, stops)
    PROVE  BrokerInv'
<1> DEFINE x == [worker[w] EXCEPT !.at = "leaving", !.outcome = o, !.stops = stops]
<1>1. /\ worker[w].at = "handling"
      /\ worker' = [worker EXCEPT ![w].at = "leaving", ![w].outcome = o, ![w].stops = stops]
      /\ hist' = IF o = "ack" THEN [hist EXCEPT !.succeeded = @ \cup {worker[w].copy.id}] ELSE hist
      /\ UNCHANGED <<store, now, tokens, harness, sub, call, queue, fetchers, spawns, stop>>
    BY DEF Returns
<1>2. /\ TypeOK /\ worker \in [Worker -> Loop] /\ worker[w] \in Loop /\ hist \in History
      /\ StoreOK(store) /\ queue \in [items: Seq(Copy), unfinished: Nat]
      /\ stop \in [Worker -> StopCall]
      /\ WorkerOK(worker[w], store, hist, harness.loop)
    BY TypeFacts DEF BrokerInv, TypeOK, WorkersInv
<1>3. worker' = [worker EXCEPT ![w] = x]
    BY <1>1, <1>2 DEF Loop
<1>4. /\ x \in Loop /\ x.at = "leaving" /\ x.outcome = o /\ x.copy = worker[w].copy
    BY <1>2 DEF Loop, Outcome
<1> HIDE DEF x
<1>5. /\ x.copy \in Copy /\ x.copy.id < store.nextId /\ hist.runs[x.copy.id] > 0
      /\ ~harness.loop => x.copy.id \notin Live(store)
    BY <1>1, <1>2, <1>4 DEF WorkerOK
<1>6. x.copy.id \in Id
    BY <1>5 DEF Copy
<1>7. /\ hist' \in History /\ hist'.left = hist.left /\ hist'.runs = hist.runs
      /\ hist'.excused = hist.excused /\ Marks(hist') = Marks(hist)
      /\ hist.succeeded \subseteq hist'.succeeded /\ (o = "ack" => x.copy.id \in hist'.succeeded)
  <2>1. CASE o = "ack"
    <3>1. hist' = [hist EXCEPT !.succeeded = @ \cup {x.copy.id}]
        BY <1>1, <1>4, <2>1
    <3> QED  BY <1>2, <1>6, <3>1, SuccessRecorded
  <2>2. CASE o # "ack"
      BY <1>1, <1>2, <2>2
  <2> QED  BY <2>1, <2>2
<1>8. WorkerOK(x, store', hist', harness.loop)
    BY <1>1, <1>4, <1>5, <1>7 DEF WorkerOK
<1>9. Moved(w, x)
    BY <1>1, <1>2, <1>3, <1>4, <1>7 DEF Moved
<1>10. Wrote(0, store', hist')
    BY <1>1, <1>7, NothingWrote
<1> QED  BY <1>1, <1>8, <1>9, <1>10, MovedKeeps

\* A cancelled handler has unwound: task_done(), and nothing is written.
LEMMA UnwindsKeeps ==
    ASSUME BrokerInv, NEW w \in Worker, Unwinds(w)
    PROVE  BrokerInv'
<1>1. /\ worker[w].at = "unwinding" /\ worker' = TaskDone(w, Off, queue.unfinished)
      /\ queue' = [queue EXCEPT !.unfinished = Less(queue.unfinished)]
      /\ UNCHANGED <<store, now, tokens, harness, sub, call, fetchers, spawns, stop, hist>>
    BY DEF Unwinds
<1>2. /\ TypeOK /\ hist \in History /\ StoreOK(store) /\ queue.unfinished \in Nat
      /\ stop \in [Worker -> StopCall]
    BY TypeFacts DEF BrokerInv, TypeOK
<1>3. PICK y \in {Off, Backoff} : y \in Loop /\ worker' = [worker EXCEPT ![w] = y]
  <2>1. Off \in Loop
      BY RestingLoops
  <2> QED  BY <1>1, <1>2, <2>1, TaskDoneMoves
<1>4. y.at \in {"off", "backoff"}
    BY <1>3, RestingLoops
<1>5. /\ queue' \in [items: Seq(Copy), unfinished: Nat] /\ queue'.items = queue.items
      /\ queue = EmptyQueue => queue' = EmptyQueue
    BY <1>1, <1>2, CountedDown
<1>6. Moved(w, y)
    BY <1>1, <1>2, <1>3, <1>5 DEF Moved
<1>7. Wrote(0, store', hist') /\ WorkerOK(y, store', hist', harness.loop)
    BY <1>1, <1>2, <1>4, NothingWrote, WorkerRests
<1> QED  BY <1>1, <1>6, <1>7, MovedKeeps

\* The backoff of a worker ends.
LEMMA BackoffEndsKeeps ==
    ASSUME BrokerInv, NEW w \in Worker, BackoffEnds(w)
    PROVE  BrokerInv'
<1>1. /\ worker[w].at = "backoff" /\ worker' = [worker EXCEPT ![w] = NextRow]
      /\ UNCHANGED <<store, now, tokens, harness, sub, call, queue, fetchers, spawns, stop, hist>>
    BY DEF BackoffEnds
<1>2. /\ TypeOK /\ hist \in History /\ StoreOK(store) /\ stop \in [Worker -> StopCall]
      /\ queue \in [items: Seq(Copy), unfinished: Nat]
    BY TypeFacts DEF BrokerInv, TypeOK
<1>3. NextRow \in Loop /\ NextRow.at \in {"idle", "off"}
    BY RestingLoops
<1>4. Moved(w, NextRow)
    BY <1>1, <1>2, <1>3 DEF Moved
<1>5. Wrote(0, store', hist') /\ WorkerOK(NextRow, store', hist', harness.loop)
    BY <1>1, <1>2, <1>3, NothingWrote, WorkerRests
<1> QED  BY <1>1, <1>4, <1>5, MovedKeeps

\* A stop() that a worker's handler asks for is of the context that is counted.
LEMMA StopAsked ==
    ASSUME BrokerInv, NEW w \in Worker, worker[w].at # "off"
    PROVE  LET g == [hist EXCEPT !.stopped = @ \cup {harness.count}] IN
           RowsSame(g) /\ g.buried = hist.buried /\ g.caught = hist.caught
           /\ harness.count \in g.stopped
<1>1. harness.count > 0 /\ hist \in History /\ harness.count \in 0 .. MaxContexts
    BY TypeFacts DEF BrokerInv, LoopsInv
<1>2. harness.count \in 1 .. MaxContexts
    BY <1>1
<1> QED  BY <1>1, <1>2, StopRecorded DEF RowsSame

\* A worker writes its outcome, of an earlier store too: in a sync context its
\* row is none of the store, so it writes nothing.
LEMMA WritesKeeps ==
    ASSUME BrokerInv, FakeAssumption, NEW w \in Worker, Writes(w)
    PROVE  BrokerInv'
<1> DEFINE c == worker[w].copy
           o == worker[w].outcome
           asks == worker[w].stops
           g == [hist EXCEPT !.stopped = @ \cup {harness.count}]
           h == IF asks THEN g ELSE hist
<1>1. /\ worker[w].at = "leaving"
      /\ stop' = IF asks THEN [stop EXCEPT ![w].at = "asked"] ELSE stop
      /\ worker' = TaskDone(w, NextRow, queue.unfinished)
      /\ queue' = [queue EXCEPT !.unfinished = Less(queue.unfinished)]
      /\ UNCHANGED <<now, tokens, harness, sub, call, fetchers, spawns>>
    BY DEF Writes
<1>2. \/ \E d \in IF o = "retry" THEN Delay ELSE {0} :
            store' = Written(store, c.id, c.token, o, d) /\ hist' = Leaves(h, store, c.id, c.token, o)
      \/ store' = store /\ hist' = h
    BY DEF Writes
<1>3. /\ TypeOK /\ hist \in History /\ StoreOK(store) /\ queue.unfinished \in Nat
      /\ WorkerOK(worker[w], store, hist, harness.loop) /\ stop \in [Worker -> StopCall]
    BY TypeFacts DEF BrokerInv, TypeOK, WorkersInv
<1>4. /\ c \in Copy /\ o \in Outcome /\ (~harness.loop => c.id \notin Live(store))
    BY <1>1, <1>3 DEF WorkerOK
<1>5. c.id \in Id
    BY <1>4 DEF Copy
<1>6. RowsSame(g) /\ g.caught = hist.caught /\ harness.count \in g.stopped
    BY <1>1, StopAsked
<1> HIDE DEF c, o, asks, g
<1>7. PICK y \in {NextRow, Backoff} : y \in Loop /\ worker' = [worker EXCEPT ![w] = y]
    BY <1>1, <1>3, RestingLoops, TaskDoneMoves
<1>8. y.at \in {"idle", "off", "backoff"}
    BY <1>7, RestingLoops
<1>9. RowsSame(h)
    BY <1>3, <1>6 DEF RowsSame
<1> HIDE DEF h
<1>10. /\ Wrote(c.id, store', hist') /\ Marks(hist') = Marks(h)
       /\ ~harness.loop => store' = store
  <2>1. CASE store' = store /\ hist' = h
      BY <1>9, <2>1, NothingWrote DEF RowsSame
  <2>2. ASSUME NEW d \in IF o = "retry" THEN Delay ELSE {0},
               store' = Written(store, c.id, c.token, o, d),
               hist' = Leaves(h, store, c.id, c.token, o)
        PROVE  /\ Wrote(c.id, store', hist') /\ Marks(hist') = Marks(h)
               /\ ~harness.loop => store' = store
    <3>1. d \in Nat
        BY DEF FakeAssumption
    <3>2. Wrote(c.id, store', hist') /\ Marks(hist') = Marks(h)
        BY <1>4, <1>5, <1>9, <2>2, <3>1, WriteWrote
    <3>3. ~harness.loop => store' = store
        BY <1>4, <2>2 DEF Written, MarkedPending, Deleted, TokenMatches
    <3> QED  BY <3>2, <3>3
  <2> QED  BY <1>2, <2>1, <2>2
<1>11. /\ queue' \in [items: Seq(Copy), unfinished: Nat] /\ queue'.items = queue.items
       /\ queue = EmptyQueue => queue' = EmptyQueue
    BY <1>1, <1>3, CountedDown
<1>12. stop' \in [Worker -> StopCall]
    BY <1>1, <1>3 DEF StopCall
<1>13. \/ stop' = stop /\ Marks(hist') = Marks(hist)
       \/ hist'.caught = hist.caught /\ harness.count \in hist'.stopped
  <2>1. CASE asks
    <3>1. Marks(hist') = Marks(g)
        BY <1>10, <2>1 DEF h
    <3> QED  BY <1>6, <3>1 DEF Marks
  <2>2. CASE ~asks
      BY <1>1, <1>10, <2>2 DEF h
  <2> QED  BY <2>1, <2>2
<1>14. Moved(w, y)
  <2>1. StoreOK(store') /\ hist' \in History
      BY <1>10 DEF Wrote
  <2> QED  BY <1>1, <1>7, <1>11, <1>12, <1>13, <2>1 DEF Moved
<1>15. WorkerOK(y, store', hist', harness.loop)
    BY <1>8, WorkerRests
<1> QED  BY <1>10, <1>14, <1>15, MovedKeeps

\* A worker takes a copy and its handler starts: the copies behind it are of
\* later deliveries, so that its row has still run less often than they say.
LEMMA TakeRuns ==
    ASSUME BrokerInv, NEW w \in Worker, Take(w), Head(queue.items).deliveries =< MaxDeliveries,
           sub.running, TestAssumption
    PROVE  BrokerInv'
<1> DEFINE c == Head(queue.items)
           x == [worker[w] EXCEPT !.at = "handling", !.copy = c]
           l == queue.items
<1>1. /\ TypeOK /\ LoopsInv /\ IdsInv /\ QueueInv /\ WorkersInv /\ SyncInv /\ hist \in History
      /\ store.nextId \in Nat /\ worker \in [Worker -> Loop] /\ worker[w] \in Loop
      /\ queue \in [items: Seq(Copy), unfinished: Nat] /\ l \in Seq(Copy) /\ StoreOK(store)
      /\ Live(store) \in SUBSET Id /\ stop \in [Worker -> StopCall]
    BY TypeFacts DEF BrokerInv, TypeOK
<1>2. worker[w].at = "idle" /\ l # << >>
    BY DEF Take
<1>3. ItemsOK(l, store, hist.runs)
    BY <1>1 DEF QueueInv
<1>4. /\ c \in Copy /\ Tail(l) \in Seq(Copy) /\ ItemsOK(Tail(l), store, hist.runs)
      /\ 1 \in DOMAIN l /\ c = l[1]
      /\ \A n \in DOMAIN Tail(l) :
            Tail(l)[n].id = c.id => c.deliveries < Tail(l)[n].deliveries
    BY <1>1, <1>2, <1>3, QueueTail
<1>5. /\ c.id < store.nextId /\ hist.runs[c.id] < c.deliveries
      /\ c.id \in Live(store) => c.deliveries =< store.rows[c.id].deliveries
    BY <1>3, <1>4 DEF ItemsOK
<1>6. c.id \in Id /\ c.id \in Int /\ c.deliveries \in Nat
    BY <1>4 DEF Copy, Id
<1>7. /\ worker' = [worker EXCEPT ![w].at = "handling", ![w].copy = c]
      /\ hist' = [hist EXCEPT !.runs[c.id] = @ + 1]
      /\ queue' = [queue EXCEPT !.items = Tail(l)]
      /\ UNCHANGED <<store, now, tokens, harness, sub, call, fetchers, spawns, stop>>
  <2>1. ~(c.deliveries > MaxDeliveries)
      BY <1>6 DEF TestAssumption
  <2> QED  BY <2>1 DEF Take
<1>8. /\ hist' \in History /\ hist'.left = hist.left /\ hist'.succeeded = hist.succeeded
      /\ Marks(hist') = Marks(hist) /\ hist'.runs[c.id] = hist.runs[c.id] + 1
      /\ hist.runs[c.id] \in Nat /\ \A j \in Id : j # c.id => hist'.runs[j] = hist.runs[j]
  <2>1. hist' = [hist EXCEPT !.runs[c.id] = @ + 1]
      BY <1>7
  <2>2. hist \in History
      BY <1>1
  <2> HIDE DEF c, l
  <2> QED  BY <1>6, <2>1, <2>2, RunRecorded
<1>9. worker' = [worker EXCEPT ![w] = x]
    BY <1>1, <1>7 DEF Loop
<1>10. /\ x \in Loop /\ x.at = "handling" /\ x.copy = c
    BY <1>1, <1>4 DEF Loop
<1>11. queue' \in [items: Seq(Copy), unfinished: Nat] /\ queue'.items = Tail(l)
    BY <1>1, <1>4, <1>7
<1>12. queue # EmptyQueue
    BY <1>2 DEF EmptyQueue
<1> HIDE DEF x
<1>13. Moved(w, x)
    BY <1>1, <1>2, <1>7, <1>8, <1>9, <1>10, <1>11, <1>12 DEF Moved
<1>14. TypeOK' /\ LoopsInv'
    BY <1>13, LoopMoved
<1>15. InLoop
    BY <1>1, <1>12 DEF LoopsInv
<1> HIDE DEF c, l
<1>16. \A j \in Id : hist.runs[j] \in Nat /\ hist'.runs[j] >= hist.runs[j] /\ hist'.runs[j] \in Nat
  <2>1. \A j \in Id : hist.runs[j] \in Nat /\ hist'.runs[j] \in Nat
      BY <1>1, <1>8 DEF History
  <2> QED  BY <1>8, <2>1
<1>17. IdsInv'
  <2>1. /\ 0 \in Nat /\ StoreOK(store') /\ Live(store') = Live(store) \cup Fresh(store, 0)
        /\ store'.nextId = store.nextId + 0
      BY <1>1, <1>7 DEF Fresh
  <2>2. \A i \in Id : i >= store.nextId => hist'.runs[i] = hist.runs[i]
      BY <1>1, <1>5, <1>6, <1>8
  <2> QED  BY <1>1, <1>8, <2>1, <2>2, IdsKept
<1>18. QueueInv'
  <2>1. ItemsOK(Tail(l), store, hist'.runs)
    <3>1. ASSUME NEW n \in DOMAIN Tail(l)
          PROVE  hist'.runs[Tail(l)[n].id] < Tail(l)[n].deliveries
      <4>1. Tail(l)[n] \in Copy
          BY <1>4
      <4>2. Tail(l)[n].id \in Id /\ Tail(l)[n].deliveries \in Nat
          BY <4>1 DEF Copy
      <4>3. hist.runs[Tail(l)[n].id] < Tail(l)[n].deliveries
          BY <1>4 DEF ItemsOK
      <4>4. CASE Tail(l)[n].id = c.id
        <5>1. c.deliveries < Tail(l)[n].deliveries /\ hist'.runs[Tail(l)[n].id] = hist.runs[c.id] + 1
            BY <1>4, <1>8, <4>4 DEF c, l
        <5> QED  BY <1>5, <1>6, <1>8, <4>2, <5>1
      <4>5. CASE Tail(l)[n].id # c.id
          BY <1>8, <4>2, <4>3, <4>5
      <4> QED  BY <4>4, <4>5
    <3> QED  BY <1>4, <3>1 DEF ItemsOK
  <2>2. ASSUME NEW i \in Live(store)
        PROVE  hist'.runs[i] =< store.rows[i].deliveries
    <3>1. i \in Id /\ store.rows[i] \in Row /\ hist.runs[i] =< store.rows[i].deliveries
        BY <1>1, <1>15, TypeFacts DEF QueueInv, RunsOK, InLoop
    <3>2. store.rows[i].deliveries \in Nat
        BY <3>1 DEF Row
    <3>3. CASE i = c.id
        BY <1>5, <1>6, <1>8, <3>2, <3>3
    <3>4. CASE i # c.id
        BY <1>8, <3>1, <3>4
    <3> QED  BY <3>3, <3>4
  <2> QED  BY <1>7, <1>11, <2>1, <2>2 DEF QueueInv, RunsOK
<1>19. WorkersInv'
  <2>1. /\ 0 \in Nat /\ Live(store') \subseteq Live(store) \cup Fresh(store, 0)
        /\ store'.nextId = store.nextId + 0 /\ harness'.loop = harness.loop
      BY <1>1, <1>7
  <2>2. \A v \in Worker : WorkerOK(worker[v], store', hist', harness'.loop)
      BY <1>1, <1>8, <1>16, <2>1, WorkersKeep
  <2>3. WorkerOK(x, store', hist', harness'.loop)
    <3>1. hist'.runs[c.id] > 0 /\ c.id < store'.nextId /\ harness'.loop
        BY <1>5, <1>7, <1>8, <1>15 DEF InLoop
    <3> QED  BY <1>4, <1>10, <3>1 DEF WorkerOK, c, l
  <2>4. \A v \in Worker : worker'[v] = IF v = w THEN x ELSE worker[v]
      BY <1>1, <1>9
  <2>5. ASSUME NEW v \in Worker
        PROVE  WorkerOK(worker'[v], store', hist', harness'.loop)
    <3>1. CASE v = w
      <4>1. worker'[v] = x
          BY <2>4, <3>1
      <4> QED  BY <2>3, <4>1
    <3>2. CASE v # w
      <4>1. worker'[v] = worker[v]
          BY <2>4, <3>2
      <4> QED  BY <2>2, <4>1
    <3> QED  BY <3>1, <3>2
  <2> QED  BY <2>5 DEF WorkersInv
<1>20. SyncInv'
  <2>1. store'.dispatchable = << >>
      BY <1>1, <1>7, <1>15 DEF SyncInv, InLoop, InSync
  <2> QED  BY <1>1, <1>7, <1>15, <2>1, SyncIdle DEF InLoop
<1> QED  BY <1>14, <1>17, <1>18, <1>19, <1>20 DEF BrokerInv

\* A worker takes a copy, to run it or to give it up.
LEMMA TakeKeeps ==
    ASSUME BrokerInv, FakeAssumption, TestAssumption, NEW w \in Worker, Take(w)
    PROVE  BrokerInv'
<1> DEFINE c == Head(queue.items)
<1>1. /\ TypeOK /\ hist \in History /\ StoreOK(store) /\ stop \in [Worker -> StopCall]
      /\ queue \in [items: Seq(Copy), unfinished: Nat] /\ ItemsOK(queue.items, store, hist.runs)
    BY TypeFacts DEF BrokerInv, TypeOK, QueueInv
<1>2. worker[w].at = "idle" /\ queue.items # << >>
    BY DEF Take
<1>3. c \in Copy /\ Tail(queue.items) \in Seq(Copy)
    BY <1>1, <1>2, QueueTail
<1>4. c.id \in Id /\ c.deliveries \in Nat /\ MaxDeliveries \in Nat
    BY <1>3 DEF Copy, TestAssumption
<1>5. CASE c.deliveries =< MaxDeliveries /\ sub.running
    BY <1>5, TakeRuns
<1>6. CASE c.deliveries > MaxDeliveries \/ ~sub.running
  <2>1. /\ \/ /\ store' = Written(store, c.id, c.token, "dead", 0)
              /\ hist' = Leaves(hist, store, c.id, c.token, "dead")
           \/ store' = store /\ hist' = hist
        /\ worker' = TaskDone(w, NextRow, queue.unfinished)
        /\ queue' = [items |-> Tail(queue.items), unfinished |-> Less(queue.unfinished)]
        /\ UNCHANGED <<now, tokens, harness, sub, call, fetchers, spawns, stop>>
      BY <1>6 DEF Take
  <2>2. queue.unfinished \in Nat
      BY <1>1
  <2>3. PICK y \in {NextRow, Backoff} : y \in Loop /\ worker' = [worker EXCEPT ![w] = y]
      BY <2>1, <2>2, RestingLoops, TaskDoneMoves
  <2>4. y.at \in {"idle", "off", "backoff"}
      BY <2>3, RestingLoops
  <2>5. queue' \in [items: Seq(Copy), unfinished: Nat] /\ queue'.items = Tail(queue.items)
      BY <1>3, <2>1, <2>2 DEF Less
  <2>6. queue # EmptyQueue
      BY <1>2 DEF EmptyQueue
  <2>7. Wrote(c.id, store', hist') /\ Marks(hist') = Marks(hist)
    <3>1. "dead" \in Outcome /\ 0 \in Nat /\ RowsSame(hist)
        BY <1>1 DEF Outcome, RowsSame
    <3> HIDE DEF c
    <3>2. CASE store' = store /\ hist' = hist
        BY <1>1, <3>2, NothingWrote
    <3>3. CASE /\ store' = Written(store, c.id, c.token, "dead", 0)
               /\ hist' = Leaves(hist, store, c.id, c.token, "dead")
        BY <1>4, <3>1, <3>3, WriteWrote
    <3> QED  BY <2>1, <3>2, <3>3
  <2>8. StoreOK(store') /\ hist' \in History
      BY <2>7 DEF Wrote
  <2>9. Moved(w, y)
      BY <1>1, <1>2, <2>1, <2>3, <2>5, <2>6, <2>7, <2>8 DEF Moved
  <2>10. WorkerOK(y, store', hist', harness.loop)
      BY <2>4, WorkerRests
  <2>11. harness.loop
      BY <2>6 DEF BrokerInv, LoopsInv, InLoop
  <2> QED  BY <2>7, <2>9, <2>10, <2>11, MovedKeeps
<1>7. c.deliveries =< MaxDeliveries \/ c.deliveries > MaxDeliveries
    BY <1>4
<1> QED  BY <1>5, <1>6, <1>7

\* The queue with copies more behind.
LEMMA ItemsJoin ==
    ASSUME NEW l \in Seq(Copy), NEW m \in Seq(Copy), NEW s, NEW runs,
           ItemsOK(l, s, runs), ItemsOK(m, s, runs),
           \A i \in DOMAIN l, j \in DOMAIN m : l[i].id = m[j].id => l[i].deliveries < m[j].deliveries
    PROVE  /\ l \o m \in Seq(Copy) /\ ItemsOK(l \o m, s, runs)
           /\ \A k \in DOMAIN (l \o m) : \/ \E i \in DOMAIN l : (l \o m)[k] = l[i]
                                        \/ \E j \in DOMAIN m : (l \o m)[k] = m[j]
<1> DEFINE z == l \o m
<1>1. PICK a \in Nat : a = Len(l) /\ DOMAIN l = 1 .. a
    OBVIOUS
<1>2. PICK b \in Nat : b = Len(m) /\ DOMAIN m = 1 .. b
    OBVIOUS
<1>3. /\ z \in Seq(Copy) /\ DOMAIN z = 1 .. a + b
      /\ \A k \in 1 .. a + b : z[k] = IF k =< a THEN l[k] ELSE m[k - a]
  <2>1. /\ z \in Seq(Copy) /\ Len(z) = Len(l) + Len(m)
        /\ \A k \in 1 .. Len(l) + Len(m) : z[k] = IF k =< Len(l) THEN l[k] ELSE m[k - Len(l)]
      BY ConcatProperties
  <2> QED  BY <1>1, <1>2, <2>1
<1> SUFFICES /\ z \in Seq(Copy) /\ ItemsOK(z, s, runs)
             /\ \A k \in DOMAIN z : \/ \E i \in DOMAIN l : z[k] = l[i]
                                    \/ \E j \in DOMAIN m : z[k] = m[j]
    OBVIOUS
<1> HIDE DEF z
<1>4. \A k \in DOMAIN z : \/ k \in DOMAIN l /\ z[k] = l[k] /\ k =< a /\ k \in Int
                          \/ k - a \in DOMAIN m /\ z[k] = m[k - a] /\ k > a /\ k \in Int
    BY <1>1, <1>2, <1>3
<1>5. \A k \in DOMAIN z : /\ z[k].id < s.nextId /\ runs[z[k].id] < z[k].deliveries
                          /\ z[k].id \in Live(s) => z[k].deliveries =< s.rows[z[k].id].deliveries
    BY <1>4 DEF ItemsOK
<1>6. ASSUME NEW j \in DOMAIN z, NEW k \in DOMAIN z, j < k, z[j].id = z[k].id
      PROVE  z[j].deliveries < z[k].deliveries
  <2>1. CASE k =< a
    <3>1. j \in DOMAIN l /\ z[j] = l[j] /\ k \in DOMAIN l /\ z[k] = l[k]
        BY <1>4, <1>6, <2>1
    <3> QED  BY <1>6, <3>1 DEF ItemsOK
  <2>2. CASE j > a
    <3>1. /\ j - a \in DOMAIN m /\ z[j] = m[j - a] /\ k - a \in DOMAIN m /\ z[k] = m[k - a]
          /\ j - a < k - a
        BY <1>1, <1>4, <1>6, <2>2
    <3> QED  BY <1>6, <3>1 DEF ItemsOK
  <2>3. CASE j =< a /\ k > a
    <3>1. j \in DOMAIN l /\ z[j] = l[j] /\ k - a \in DOMAIN m /\ z[k] = m[k - a]
        BY <1>1, <1>4, <2>3
    <3> QED  BY <1>6, <3>1
  <2> QED  BY <1>1, <1>4, <2>1, <2>2, <2>3
<1>7. ItemsOK(z, s, runs)
    BY <1>5, <1>6 DEF ItemsOK
<1> QED  BY <1>3, <1>4, <1>7

\* A pass of the fetch loop: each copy is of one delivery more than its row
\* has run, and of this context.
LEMMA FetchKeeps ==
    ASSUME BrokerInv, FakeAssumption, TestAssumption, NEW k \in Spawn, Fetch(k)
    PROVE  BrokerInv'
<1> DEFINE free == QueueMax - Len(queue.items)
           CopyOf(i) == [id |-> i, token |-> tokens + 1, deliveries |-> store.rows[i].deliveries + 1,
                         from |-> harness.count]
<1>1. /\ k \in fetchers /\ sub.running /\ tokens < MaxClaims /\ tokens' = tokens + 1
      /\ UNCHANGED <<now, harness, sub, call, worker, fetchers, spawns, stop, hist>>
    BY DEF Fetch
<1>2. PICK n \in 1 .. free : \E ids \in [1 .. n -> Eligible(store, now)] :
         /\ IsFetched(store, now, free, ids)
         /\ store' = Claimed(store, Range(ids), tokens', now)
         /\ queue' = [items |-> queue.items \o [m \in 1 .. n |-> CopyOf(ids[m])],
                      unfinished |-> queue.unfinished + n]
    BY DEF Fetch
<1>3. PICK ids \in [1 .. n -> Eligible(store, now)] :
         /\ IsFetched(store, now, free, ids)
         /\ store' = Claimed(store, Range(ids), tokens', now)
         /\ queue' = [items |-> queue.items \o [m \in 1 .. n |-> CopyOf(ids[m])],
                      unfinished |-> queue.unfinished + n]
    BY <1>2
<1>4. /\ TypeOK /\ LoopsInv /\ IdsInv /\ QueueInv /\ WorkersInv /\ SyncInv /\ hist \in History
      /\ StoreOK(store) /\ Live(store) \in SUBSET Id /\ store.nextId \in Nat
      /\ tokens \in Token /\ now \in 0 .. MaxTime /\ call \in Calls
      /\ \A i \in Live(store) : store.rows[i] \in Row
      /\ queue \in [items: Seq(Copy), unfinished: Nat]
      /\ harness \in [open: BOOLEAN, loop: BOOLEAN, count: 0 .. MaxContexts, spawned: BOOLEAN]
  <2>1. TypeOK /\ LoopsInv /\ IdsInv /\ QueueInv /\ WorkersInv /\ SyncInv
      BY DEF BrokerInv
  <2>2. queue \in [items: Seq(Copy), unfinished: Nat]
      BY <2>1 DEF TypeOK
  <2> QED  BY <2>1, <2>2, TypeFacts
<1>5. n \in Nat
  <2>1. Len(queue.items) \in Nat
      BY <1>4
  <2> QED  BY <2>1 DEF TestAssumption
<1>6. InLoop /\ harness.loop /\ harness.count > 0
    BY <1>1, <1>4 DEF LoopsInv, InLoop, InSync
<1>7. harness.count \in 1 .. MaxContexts
  <2>1. harness.count \in 0 .. MaxContexts
      BY <1>4
  <2> QED  BY <1>6, <2>1
<1>8. tokens' \in Token
    BY <1>1, <1>4 DEF Token, FakeAssumption
<1>9. Leased(store, store', Range(ids), tokens')
    BY <1>3, <1>4, <1>8, ClaimedLeased
<1>10. /\ StoreOK(store') /\ Live(store') = Live(store) /\ store'.nextId = store.nextId
       /\ store'.dispatchable = store.dispatchable
       /\ \A i \in Live(store) :
             /\ i \in Range(ids) => store'.rows[i].deliveries = store.rows[i].deliveries + 1
             /\ i \notin Range(ids) => store'.rows[i] = store.rows[i]
    BY <1>9 DEF Leased
<1>11. \A m \in 1 .. n : ids[m] \in Live(store) /\ ids[m] \in Range(ids) /\ ids[m] \in Id
  <2>1. Eligible(store, now) \subseteq Live(store)
      BY DEF Eligible
  <2>2. DOMAIN ids = 1 .. n /\ \A m \in 1 .. n : ids[m] \in Eligible(store, now)
      OBVIOUS
  <2>3. \A m \in 1 .. n : ids[m] \in Range(ids)
      BY <2>2 DEF Range
  <2> QED  BY <1>4, <2>1, <2>2, <2>3
<1>12. \A i \in Live(store) : store.rows[i].deliveries \in Nat
    BY <1>4 DEF Row
<1> DEFINE fresh == [m \in 1 .. n |-> CopyOf(ids[m])]
<1>13. /\ fresh \in Seq(Copy) /\ DOMAIN fresh = 1 .. n
       /\ \A m \in 1 .. n : /\ fresh[m].id = ids[m] /\ fresh[m].from = harness.count
                            /\ fresh[m].deliveries = store.rows[ids[m]].deliveries + 1
  <2>1. \A m \in 1 .. n : CopyOf(ids[m]) \in Copy
      BY <1>1, <1>7, <1>8, <1>11, <1>12 DEF Copy
  <2>2. \A m \in 1 .. n : /\ CopyOf(ids[m]).id = ids[m] /\ CopyOf(ids[m]).from = harness.count
                          /\ CopyOf(ids[m]).deliveries = store.rows[ids[m]].deliveries + 1
      OBVIOUS
  <2> HIDE DEF CopyOf
  <2> QED  BY <1>5, <2>1, <2>2
<1>14. queue' = [items |-> queue.items \o fresh, unfinished |-> queue.unfinished + n]
    BY <1>3
<1> HIDE DEF fresh, CopyOf, free
<1>15. \A j, m \in 1 .. n : j < m => ids[j] # ids[m]
  <2> SUFFICES ASSUME NEW j \in 1 .. n, NEW m \in 1 .. n, j < m, ids[j] = ids[m]
               PROVE  FALSE
      OBVIOUS
  <2>1. Older(store, ids[j], ids[m])
      BY <1>3 DEF IsFetched
  <2>2. store.rows[ids[m]].next \in Nat /\ ids[m] \in Int
      BY <1>4, <1>11 DEF Row, Id
  <2> QED  BY <2>1, <2>2 DEF Older
<1> DEFINE old == queue.items
<1>16. old \in Seq(Copy) /\ ItemsOK(old, store, hist.runs)
    BY <1>4 DEF QueueInv
<1>17. \A i \in Live(store) : /\ store'.rows[i].deliveries \in Nat
                              /\ store'.rows[i].deliveries >= store.rows[i].deliveries
    BY <1>10, <1>12
<1>18. \A i \in DOMAIN old : old[i].id \in Id /\ old[i].deliveries \in Nat
  <2>1. \A i \in DOMAIN old : old[i] \in Copy
      BY <1>16
  <2> QED  BY <2>1 DEF Copy
<1> HIDE DEF old
<1>19. ItemsOK(old, store', hist.runs)
  <2>1. ASSUME NEW i \in DOMAIN old, old[i].id \in Live(store)
        PROVE  old[i].deliveries =< store'.rows[old[i].id].deliveries
    <3>1. old[i].deliveries =< store.rows[old[i].id].deliveries
        BY <1>16, <2>1 DEF ItemsOK
    <3> QED  BY <1>12, <1>17, <1>18, <2>1, <3>1
  <2> QED  BY <1>10, <1>16, <2>1 DEF ItemsOK
<1>20. RunsOK(store, hist.runs) /\ \A i \in Id : hist.runs[i] \in Nat
    BY <1>4, <1>6 DEF QueueInv, History
<1>21. ItemsOK(fresh, store', hist.runs)
  <2>1. ASSUME NEW m \in 1 .. n
        PROVE  /\ ids[m] < store'.nextId /\ hist.runs[ids[m]] < store.rows[ids[m]].deliveries + 1
               /\ store'.rows[ids[m]].deliveries = store.rows[ids[m]].deliveries + 1
    <3>1. ids[m] \in Live(store) /\ ids[m] \in Range(ids) /\ ids[m] \in Id /\ ids[m] \in Int
        BY <1>11 DEF Id
    <3>2. ids[m] < store.nextId
        BY <1>4, <3>1 DEF IdsInv
    <3>3. hist.runs[ids[m]] =< store.rows[ids[m]].deliveries
        BY <1>20, <3>1 DEF RunsOK
    <3> QED  BY <1>10, <1>12, <1>20, <3>1, <3>2, <3>3
  <2>2. ASSUME NEW m \in 1 .. n
        PROVE  /\ fresh[m].id < store'.nextId /\ hist.runs[fresh[m].id] < fresh[m].deliveries
               /\ fresh[m].id \in Live(store')
                      => fresh[m].deliveries =< store'.rows[fresh[m].id].deliveries
    <3>1. fresh[m].id = ids[m] /\ fresh[m].deliveries = store.rows[ids[m]].deliveries + 1
        BY <1>13
    <3>2. store.rows[ids[m]].deliveries \in Nat
        BY <1>11, <1>12
    <3> QED  BY <2>1, <3>1, <3>2
  <2>3. \A j, m \in 1 .. n : j < m => fresh[j].id # fresh[m].id
      BY <1>13, <1>15
  <2> QED  BY <1>13, <2>2, <2>3 DEF ItemsOK
<1>22. \A i \in DOMAIN old, m \in DOMAIN fresh :
          old[i].id = fresh[m].id => old[i].deliveries < fresh[m].deliveries
  <2> SUFFICES ASSUME NEW i \in DOMAIN old, NEW m \in 1 .. n, old[i].id = fresh[m].id
               PROVE  old[i].deliveries < fresh[m].deliveries
      BY <1>13
  <2>1. old[i].id = ids[m] /\ ids[m] \in Live(store)
      BY <1>11, <1>13
  <2>2. old[i].deliveries =< store.rows[ids[m]].deliveries
      BY <1>16, <2>1 DEF ItemsOK
  <2>3. fresh[m].deliveries = store.rows[ids[m]].deliveries + 1
      BY <1>13
  <2>4. store.rows[ids[m]].deliveries \in Nat /\ old[i].deliveries \in Nat
      BY <1>12, <1>18, <2>1
  <2> QED  BY <2>2, <2>3, <2>4
<1>23. /\ old \o fresh \in Seq(Copy) /\ ItemsOK(old \o fresh, store', hist.runs)
       /\ \A i \in DOMAIN (old \o fresh) :
             \/ \E j \in DOMAIN old : (old \o fresh)[i] = old[j]
             \/ \E m \in DOMAIN fresh : (old \o fresh)[i] = fresh[m]
    BY <1>13, <1>16, <1>19, <1>21, <1>22, ItemsJoin
<1>24. /\ queue'.items = old \o fresh /\ queue' \in [items: Seq(Copy), unfinished: Nat]
    BY <1>4, <1>5, <1>14, <1>23 DEF old
<1>25. TypeOK'
  <2>1. UNCHANGED <<now, harness, sub, call, worker, fetchers, spawns, stop, hist>>
      BY <1>1
  <2> QED  BY <1>4, <1>8, <1>10, <1>24, <2>1 DEF TypeOK
<1>26. LoopsInv'
  <2>1. \A i \in DOMAIN queue'.items : queue'.items[i].from = harness.count
    <3>1. \A j \in DOMAIN old : old[j].from = harness.count
        BY <1>4, <1>6 DEF LoopsInv, old
    <3>2. \A m \in DOMAIN fresh : fresh[m].from = harness.count
        BY <1>13
    <3> QED  BY <1>23, <1>24, <3>1, <3>2
  <2>2. UNCHANGED <<harness, sub, worker, fetchers, spawns, stop, hist>>
      BY <1>1
  <2>3. InLoop' = InLoop /\ InSync' = InSync /\ Quiet' = Quiet
      BY <2>2 DEF InLoop, InSync, Quiet
  <2> QED  BY <1>4, <1>6, <2>1, <2>2, <2>3 DEF LoopsInv
<1>27. IdsInv'
    BY <1>1, <1>4, <1>10 DEF IdsInv
<1>28. QueueInv'
  <2>1. RunsOK(store', hist.runs)
    <3>1. ASSUME NEW i \in Live(store)
          PROVE  hist.runs[i] =< store'.rows[i].deliveries
      <4>1. hist.runs[i] =< store.rows[i].deliveries /\ hist.runs[i] \in Nat
          BY <1>4, <1>20 DEF RunsOK
      <4> QED  BY <1>12, <1>17, <4>1
    <3> QED  BY <1>10, <3>1 DEF RunsOK
  <2> QED  BY <1>1, <1>23, <1>24, <2>1 DEF QueueInv
<1>29. WorkersInv'
  <2>1. \A w \in Worker : WorkerOK(worker[w], store', hist, harness.loop)
      BY <1>4, <1>10 DEF WorkersInv, WorkerOK
  <2> QED  BY <1>1, <2>1 DEF WorkersInv
<1>30. SyncInv'
  <2>1. store'.dispatchable = << >>
      BY <1>4, <1>6, <1>10 DEF SyncInv, InLoop, InSync
  <2> QED  BY <1>1, <1>4, <1>6, <2>1, SyncIdle
<1> QED  BY <1>25, <1>26, <1>27, <1>28, <1>29, <1>30 DEF BrokerInv

-----------------------------------------------------------------------------
\* Contexts entered and left keep the invariant.

\* start() spawns the loops once, however often it is called.
LEMMA SpawnedOnce ==
    ASSUME NEW spawned \in BOOLEAN, ~spawned, NEW loop \in BOOLEAN
    PROVE  LET before == [spawned |-> spawned, spawns |-> spawns, fetchers |-> fetchers,
                         tasks |-> sub.tasks, worker |-> worker]
               loops == Spawned(Spawned(before, loop), loop)
           IN  IF loop
               THEN /\ loops.spawned /\ loops.spawns = spawns + 1
                    /\ loops.fetchers = fetchers \cup {spawns + 1}
                    /\ loops.tasks = sub.tasks \cup {spawns + 1}
                    /\ loops.worker = [w \in Worker |-> IF w[1] = spawns + 1 THEN Idle ELSE worker[w]]
               ELSE loops = before
<1> DEFINE before == [spawned |-> spawned, spawns |-> spawns, fetchers |-> fetchers,
                   tasks |-> sub.tasks, worker |-> worker]
           started == [spawned |-> TRUE, spawns |-> spawns + 1, fetchers |-> fetchers \cup {spawns + 1},
                       tasks |-> sub.tasks \cup {spawns + 1},
                       worker |-> [w \in Worker |-> IF w[1] = spawns + 1 THEN Idle ELSE worker[w]]]
           loops == Spawned(Spawned(before, loop), loop)
<1>1. ASSUME loop
      PROVE  loops = started
  <2>1. Spawned(before, loop) = started
      BY <1>1 DEF Spawned
  <2>2. Spawned(started, loop) = started
      BY DEF Spawned
  <2> QED  BY <2>1, <2>2
<1>2. ASSUME ~loop
      PROVE  loops = before
    BY <1>2 DEF Spawned
<1>3. /\ started.spawned /\ started.spawns = spawns + 1
      /\ started.fetchers = fetchers \cup {spawns + 1}
      /\ started.tasks = sub.tasks \cup {spawns + 1}
      /\ started.worker = [w \in Worker |-> IF w[1] = spawns + 1 THEN Idle ELSE worker[w]]
    OBVIOUS
<1> HIDE DEF loops, started
<1>4. IF loop
      THEN /\ loops.spawned /\ loops.spawns = spawns + 1
           /\ loops.fetchers = fetchers \cup {spawns + 1}
           /\ loops.tasks = sub.tasks \cup {spawns + 1}
           /\ loops.worker = [w \in Worker |-> IF w[1] = spawns + 1 THEN Idle ELSE worker[w]]
      ELSE loops = before
    BY <1>1, <1>2, <1>3
<1> QED  BY <1>4 DEF loops

\* A context is entered, with the same harness, whose loops have ended, or with
\* a new one, whose store knows none of the rows left behind (testing.py:604-629).
LEMMA EnterKeeps ==
    ASSUME BrokerInv, FakeAssumption, TestAssumption, NEW loop \in BOOLEAN, NEW same \in BOOLEAN,
           Enter(loop, same)
    PROVE  BrokerInv'
<1> DEFINE k == spawns + 1
<1>1. /\ TypeOK /\ LoopsInv /\ IdsInv /\ QueueInv /\ WorkersInv /\ SyncInv /\ hist \in History
      /\ StoreOK(store) /\ Live(store) \in SUBSET Id /\ store.nextId \in 1 .. MaxRows + 1
      /\ store.dlq \in SUBSET Id
      /\ harness \in [open: BOOLEAN, loop: BOOLEAN, count: 0 .. MaxContexts, spawned: BOOLEAN]
      /\ worker \in [Worker -> Loop] /\ spawns \in {0} \cup Spawn /\ fetchers \subseteq Spawn
      /\ stop \in [Worker -> StopCall]
    BY TypeFacts DEF BrokerInv, TypeOK
<1>2. /\ ~harness.open /\ harness.count < MaxContexts
      /\ same => loop = harness.loop
      /\ ~loop => fetchers = {}
      /\ UNCHANGED <<now, tokens, call, queue, stop>>
    BY DEF Enter
<1>3. ~InLoop /\ ~InSync /\ ~harness.spawned
    BY <1>1, <1>2 DEF InLoop, InSync, LoopsInv
<1>4. /\ sub.tasks = {} /\ queue = EmptyQueue /\ spawns =< harness.count
      /\ \A w \in Worker : worker[w].at # "off" => w \in hist.caught
    BY <1>1, <1>3 DEF LoopsInv
<1>5. harness.count \in Nat /\ MaxContexts \in Nat /\ spawns \in Nat
    BY <1>1 DEF TestAssumption, Spawn
<1> DEFINE before == [spawned |-> same /\ harness.spawned, spawns |-> spawns,
                      fetchers |-> fetchers, tasks |-> sub.tasks, worker |-> worker]
           loops == Spawned(Spawned(before, loop), loop)
           rows == IF same THEN hist.left
                   ELSE [i \in Id |-> IF i \in Live(store) THEN "stored" ELSE hist.left[i]]
           fresh == fetchers = {} /\ \A w \in Worker : stop[w].at = "none"
           late == IF fresh THEN hist.late ELSE hist.late \cup {harness.count + 1}
<1>6. /\ worker' = loops.worker /\ fetchers' = loops.fetchers /\ spawns' = loops.spawns
      /\ harness' = [open |-> TRUE, loop |-> loop, count |-> harness.count + 1,
                     spawned |-> loops.spawned]
      /\ sub' = [running |-> TRUE, stopping |-> FALSE, tasks |-> loops.tasks]
    BY DEF Enter
<1>7. /\ loop => /\ loops.spawned /\ loops.spawns = k
                 /\ loops.fetchers = fetchers \cup {k} /\ loops.tasks = sub.tasks \cup {k}
                 /\ loops.worker = [w \in Worker |-> IF w[1] = k THEN Idle ELSE worker[w]]
      /\ ~loop => loops = before
  <2>1. (same /\ harness.spawned) \in BOOLEAN /\ ~(same /\ harness.spawned)
      BY <1>3
  <2> QED  BY <2>1, SpawnedOnce
<1>8. ~loop => before.spawned = FALSE /\ before.spawns = spawns
               /\ before.fetchers = fetchers /\ before.tasks = sub.tasks
               /\ before.worker = worker
    BY <1>3
<1> HIDE DEF before, loops
<1>9. /\ harness'.open /\ harness'.loop = loop /\ harness'.count = harness.count + 1
      /\ harness'.spawned = loop
      /\ harness' \in [open: BOOLEAN, loop: BOOLEAN, count: 0 .. MaxContexts, spawned: BOOLEAN]
  <2>1. loops.spawned = loop
      BY <1>7, <1>8
  <2>2. harness.count + 1 \in 0 .. MaxContexts
      BY <1>2, <1>5
  <2>3. harness' = [open |-> TRUE, loop |-> loop, count |-> harness.count + 1, spawned |-> loop]
      BY <1>6, <2>1
  <2> QED  BY <2>2, <2>3
<1>10. /\ spawns' = (IF loop THEN k ELSE spawns)
       /\ fetchers' = (IF loop THEN fetchers \cup {k} ELSE fetchers)
       /\ sub' = [running |-> TRUE, stopping |-> FALSE, tasks |-> IF loop THEN {k} ELSE {}]
    BY <1>4, <1>6, <1>7, <1>8
<1>11. \A w \in Worker : worker'[w] = IF loop /\ w[1] = k THEN Idle ELSE worker[w]
    BY <1>6, <1>7, <1>8
<1>12. worker' \in [Worker -> Loop]
  <2>1. Idle \in Loop
      BY RestingLoops
  <2> QED  BY <1>1, <1>6, <1>7, <1>8, <2>1
<1>13. k \in Spawn /\ k =< harness.count + 1
    BY <1>2, <1>4, <1>5 DEF Spawn
<1>14. /\ sub' \in [running: BOOLEAN, stopping: BOOLEAN, tasks: SUBSET Spawn]
       /\ sub'.running /\ ~sub'.stopping /\ sub'.tasks = IF loop THEN {k} ELSE {}
    BY <1>10, <1>13
<1>15. /\ StoreOK(store') /\ store'.nextId = store.nextId /\ store'.dispatchable = << >>
       /\ IF same THEN store' = store ELSE Live(store') = {}
  <2>1. store.dispatchable = << >>
      BY <1>1, <1>3 DEF SyncInv
  <2>2. CASE same
      BY <1>1, <2>1, <2>2 DEF Enter
  <2>3. CASE ~same
    <3>1. store' = NewStore(store.nextId)
        BY <2>3 DEF Enter
    <3> QED  BY <1>1, <2>3, <3>1, NewStoreFacts
  <2> QED  BY <2>2, <2>3
<1>16. /\ hist' \in History /\ hist'.runs = hist.runs /\ hist'.succeeded = hist.succeeded
       /\ hist'.excused = hist.excused /\ hist'.left = rows
       /\ Marks(hist') = <<hist.caught, hist.stopped, late>>
  <2> DEFINE buried == IF same THEN hist.buried ELSE hist.buried \cup store.dlq
  <2>1. hist' = [hist EXCEPT !.late = late, !.buried = buried, !.left = rows]
    <3>1. CASE same
      <4>1. hist' = [hist EXCEPT !.late = late]
          BY <3>1 DEF Enter
      <4>2. hist = [hist EXCEPT !.buried = buried, !.left = rows]
          BY <1>1, <3>1 DEF History
      <4> HIDE DEF late, buried, rows
      <4> QED  BY <1>1, <4>1, <4>2 DEF History
    <3>2. CASE ~same
        BY <3>2 DEF Enter
    <3> QED  BY <3>1, <3>2
  <2>2. rows \in [Id -> {"unborn", "stored", "acked", "dead", "cancelled"}]
      BY <1>1 DEF History
  <2>3. buried \in SUBSET Id
      BY <1>1 DEF History
  <2>4. late \in SUBSET (1 .. MaxContexts)
    <3>1. harness.count + 1 \in 1 .. MaxContexts
        BY <1>2, <1>5
    <3> QED  BY <1>1, <3>1 DEF History
  <2> HIDE DEF late, buried, rows
  <2> QED  BY <1>1, <2>1, <2>2, <2>3, <2>4 DEF History, Marks
<1>17. TypeOK'
  <2>1. spawns' \in {0} \cup Spawn /\ fetchers' \subseteq Spawn
      BY <1>1, <1>10, <1>13
  <2> QED  BY <1>1, <1>2, <1>9, <1>12, <1>14, <1>15, <1>16, <2>1 DEF TypeOK, History
<1>18. InLoop' = loop /\ InSync' = ~loop
    BY <1>9 DEF InLoop, InSync
<1>19. LoopsInv'
  <2>1. spawns' =< harness'.count /\ (harness'.spawned <=> InLoop') /\ harness'.count > 0
      BY <1>4, <1>5, <1>9, <1>10, <1>13, <1>18
  <2>2. sub'.tasks \subseteq {spawns'} /\ (InSync' => fetchers' = {}) /\ (~InLoop' => sub'.tasks = {})
      BY <1>2, <1>10, <1>14, <1>18
  <2>3. queue' = EmptyQueue /\ DOMAIN queue'.items = {}
      BY <1>2, <1>4 DEF EmptyQueue
  <2>4. hist'.caught = hist.caught /\ (Quiet' => fresh)
    <3>1. hist'.caught = hist.caught /\ hist'.late = late
        BY <1>16 DEF Marks
    <3>2. ~fresh => harness'.count \in late
        BY <1>9
    <3> QED  BY <3>1, <3>2 DEF Quiet
  <2>5. ASSUME InLoop', Quiet'
        PROVE  /\ sub'.running /\ ~sub'.stopping
               /\ sub'.tasks = {spawns'} /\ fetchers' = {spawns'}
      BY <1>10, <1>14, <1>18, <2>4, <2>5
  <2>6. ASSUME NEW w \in Worker
        PROVE  /\ stop'[w].at # "none" => ~Quiet'
               /\ worker'[w].at # "off" => /\ harness'.count > 0
                                           /\ w[1] \in sub'.tasks \/ w \in hist'.caught
    <3>1. stop'[w].at # "none" => ~Quiet'
        BY <1>2, <2>4
    <3>2. CASE loop /\ w[1] = k
        BY <1>14, <2>1, <3>1, <3>2
    <3>3. CASE ~(loop /\ w[1] = k)
      <4>1. worker'[w] = worker[w]
          BY <1>11, <3>3
      <4> QED  BY <1>4, <2>1, <2>4, <3>1, <4>1
    <3> QED  BY <3>2, <3>3
  <2> HIDE DEF k, late, fresh, rows
  <2> QED  BY <1>9, <2>1, <2>2, <2>3, <2>5, <2>6 DEF LoopsInv
<1>20. IdsInv'
    BY <1>1, <1>15, <1>16 DEF IdsInv
<1>21. QueueInv'
  <2>1. DOMAIN queue'.items = {}
      BY <1>2, <1>4 DEF EmptyQueue
  <2>2. ItemsOK(queue'.items, store', hist'.runs)
      BY <2>1 DEF ItemsOK
  <2>3. loop => RunsOK(store', hist'.runs)
      BY <1>1, <1>2, <1>15, <1>16 DEF QueueInv, RunsOK
  <2> QED  BY <1>9, <2>2, <2>3 DEF QueueInv
<1>22. WorkersInv'
  <2>1. ASSUME NEW w \in Worker
        PROVE  WorkerOK(worker'[w], store', hist', harness'.loop)
    <3>1. CASE loop /\ w[1] = k
      <4>1. Idle.at = "idle"
          BY RestingLoops
      <4> QED  BY <1>11, <3>1, <4>1, WorkerRests
    <3>2. CASE ~(loop /\ w[1] = k)
      <4>1. worker'[w] = worker[w]
          BY <1>11, <3>2
      <4>2. WorkerOK(worker[w], store, hist, harness.loop)
          BY <1>1 DEF WorkersInv
      <4> QED  BY <1>2, <1>9, <1>15, <1>16, <4>1, <4>2 DEF WorkerOK
    <3> QED  BY <3>1, <3>2
  <2> QED  BY <2>1 DEF WorkersInv
<1>23. SyncInv'
  <2>1. \A t \in Task : call'[t] = << >>
      BY <1>1, <1>2, <1>3 DEF SyncInv
  <2>2. WaitOK(store', call', hist', << >>)
      BY <1>15, <2>1, NothingWaits
  <2>3. ~loop => Covered(store', call', hist', << >>)
    <3>1. CASE same
        BY <1>1, <1>2, <1>15, <1>16, <3>1 DEF SyncInv, Covered
    <3>2. CASE ~same
        BY <1>15, <3>2 DEF Covered
    <3> QED  BY <3>1, <3>2
  <2> QED  BY <1>9, <1>15, <2>1, <2>2, <2>3 DEF SyncInv
<1> QED  BY <1>17, <1>19, <1>20, <1>21, <1>22, <1>23 DEF BrokerInv

\* A cancelled worker is as it was, or is about nothing any more.
Active == {"handling", "leaving", "stopping"}
LEMMA CancelledIs ==
    ASSUME TypeOK, NEW w \in Worker
    PROVE  /\ CancelledLoop(w) \in Loop
           /\ CancelledLoop(w).at \in Active => CancelledLoop(w) = worker[w]
           /\ worker[w].at = "off" => CancelledLoop(w) = worker[w]
<1> DEFINE unwinding == [Off EXCEPT !.at = "unwinding"]
<1>1. worker[w] \in Loop
    BY DEF TypeOK
<1>2. unwinding \in Loop /\ unwinding.at = "unwinding"
    BY DEF Off, Loop
<1>3. CASE w[1] \notin sub.tasks
  <2>1. CancelledLoop(w) = worker[w]
      BY <1>3 DEF CancelledLoop
  <2> QED  BY <1>1, <2>1
<1>4. CASE w[1] \in sub.tasks /\ worker[w].at \in {"idle", "backoff"}
  <2>1. CancelledLoop(w) = Off
      BY <1>4 DEF CancelledLoop
  <2> QED  BY <1>4, <2>1, RestingLoops DEF Active
<1>5. CASE w[1] \in sub.tasks /\ worker[w].at \in {"handling", "leaving"}
  <2>1. CancelledLoop(w) = unwinding
      BY <1>5 DEF CancelledLoop
  <2> QED  BY <1>2, <1>5, <2>1 DEF Active
<1>6. CASE w[1] \in sub.tasks /\ worker[w].at \notin {"idle", "backoff", "handling", "leaving"}
  <2>1. CancelledLoop(w) = worker[w]
      BY <1>6 DEF CancelledLoop
  <2> QED  BY <1>1, <2>1
<1> QED  BY <1>3, <1>4, <1>5, <1>6

\* So is one that waited on a queue that was replaced.
LEMMA ParkedIs ==
    ASSUME NEW l \in Loop
    PROVE  /\ Parked(l) \in Loop
           /\ Parked(l).at \in Active => Parked(l) = l
           /\ l.at = "off" => Parked(l) = l
BY RestingLoops DEF Parked, Active

\* A context is left: its loops are cancelled, its queue is reset, and what was
\* stored and not dispatched is forgotten (testing.py:630-651).
LEMMA ExitKeeps ==
    ASSUME BrokerInv, Exit
    PROVE  BrokerInv'
<1>1. /\ TypeOK /\ LoopsInv /\ IdsInv /\ QueueInv /\ WorkersInv /\ SyncInv /\ hist \in History
      /\ StoreOK(store) /\ store.dispatchable \in Seq(Id) /\ call \in Calls
      /\ harness \in [open: BOOLEAN, loop: BOOLEAN, count: 0 .. MaxContexts, spawned: BOOLEAN]
      /\ sub \in [running: BOOLEAN, stopping: BOOLEAN, tasks: SUBSET Spawn]
      /\ worker \in [Worker -> Loop]
      /\ queue \in [items: Seq(Copy), unfinished: Nat] /\ fetchers \subseteq Spawn
    BY TypeFacts DEF BrokerInv, TypeOK
<1>2. /\ harness.open /\ \A t \in Task : call[t] = << >>
      /\ harness' = [harness EXCEPT !.open = FALSE, !.spawned = FALSE]
      /\ sub' = [sub EXCEPT !.running = FALSE, !.tasks = {}]
      /\ store' = Taken(store)
      /\ UNCHANGED <<now, tokens, call, spawns, stop>>
    BY DEF Exit
<1> DEFINE caught == StillBusy
           listed == Range(store.dispatchable)
<1>3. hist' = [hist EXCEPT !.excused = @ \cup listed, !.caught = @ \cup caught]
    BY DEF Exit
<1>4. listed \subseteq Id /\ caught \subseteq Worker
    BY <1>1 DEF Range, StillBusy
<1>5. \A w \in Worker : worker'[w].at # "off" => w \in caught
    BY DEF StillBusy
<1> HIDE DEF caught, listed
<1>6. /\ hist' \in History /\ hist'.runs = hist.runs /\ hist'.succeeded = hist.succeeded
      /\ hist'.excused = hist.excused \cup listed /\ hist'.caught = hist.caught \cup caught
      /\ hist'.left = hist.left /\ hist'.stopped = hist.stopped /\ hist'.late = hist.late
    BY <1>1, <1>3, <1>4 DEF History
<1>7. /\ harness' \in [open: BOOLEAN, loop: BOOLEAN, count: 0 .. MaxContexts, spawned: BOOLEAN]
      /\ ~harness'.open /\ ~harness'.spawned /\ harness'.loop = harness.loop
      /\ harness'.count = harness.count
      /\ sub' \in [running: BOOLEAN, stopping: BOOLEAN, tasks: SUBSET Spawn]
      /\ ~sub'.running /\ sub'.tasks = {}
    BY <1>1, <1>2
<1>8. /\ StoreOK(store') /\ Live(store') = Live(store) /\ store'.rows = store.rows
      /\ store'.nextId = store.nextId /\ store'.dispatchable = << >>
    BY <1>1, <1>2, TakenFacts
<1>9. ~InLoop' /\ ~InSync' /\ (InLoop <=> harness.loop)
    BY <1>2, <1>7 DEF InLoop, InSync
<1>10. queue' = EmptyQueue /\ fetchers' \subseteq fetchers
  <2>1. CASE harness.loop
      BY <2>1 DEF Exit, Reset
  <2>2. CASE ~harness.loop
      BY <1>1, <1>9, <2>2 DEF Exit, LoopsInv
  <2> QED  BY <2>1, <2>2
<1>12. ASSUME NEW w \in Worker
       PROVE  worker'[w] \in Loop /\ (worker'[w].at \in Active => worker'[w] = worker[w])
  <2>1. CASE harness.loop
    <3>1. worker'[w] = Parked(CancelledLoop(w))
        BY <2>1 DEF Exit
    <3> QED  BY <1>1, <3>1, CancelledIs, ParkedIs
  <2>2. CASE ~harness.loop
      BY <1>1, <2>2 DEF Exit
  <2> QED  BY <2>1, <2>2
<1>13. worker' \in [Worker -> Loop]
  <2>1. DOMAIN worker' = Worker /\ worker' = [w \in Worker |-> worker'[w]]
    <3>1. CASE harness.loop
        BY <3>1 DEF Exit
    <3>2. CASE ~harness.loop
        BY <1>1, <3>2 DEF Exit
    <3> QED  BY <3>1, <3>2
  <2> QED  BY <1>12, <2>1
<1>14. TypeOK'
  <2>1. queue' \in [items: Seq(Copy), unfinished: Nat]
    <3>1. << >> \in Seq(Copy)
        OBVIOUS
    <3> QED  BY <1>10, <3>1 DEF EmptyQueue
  <2> QED  BY <1>1, <1>2, <1>6, <1>7, <1>8, <1>10, <1>13, <2>1 DEF TypeOK, History
<1>15. LoopsInv'
  <2>1. spawns' =< harness'.count
      BY <1>1, <1>2, <1>7 DEF LoopsInv
  <2>2. Quiet' = Quiet
      BY <1>6, <1>7 DEF Quiet
  <2>3. ASSUME NEW w \in Worker
        PROVE  /\ stop'[w].at # "none" => ~Quiet'
               /\ worker'[w].at # "off" => /\ harness'.count > 0
                                           /\ w[1] \in sub'.tasks \/ w \in hist'.caught
      BY <1>1, <1>2, <1>5, <1>6, <1>7, <2>2 DEF LoopsInv
  <2> QED  BY <1>7, <1>9, <1>10, <2>1, <2>3 DEF LoopsInv
<1>16. IdsInv'
    BY <1>1, <1>6, <1>8 DEF IdsInv
<1>17. QueueInv'
  <2>1. ItemsOK(queue'.items, store', hist'.runs)
      BY <1>10 DEF EmptyQueue, ItemsOK
  <2>2. harness'.loop => RunsOK(store', hist'.runs)
      BY <1>1, <1>6, <1>7, <1>8 DEF QueueInv, RunsOK
  <2> QED  BY <2>1, <2>2 DEF QueueInv
<1>18. WorkersInv'
  <2>1. ASSUME NEW w \in Worker
        PROVE  WorkerOK(worker'[w], store', hist', harness'.loop)
    <3>1. WorkerOK(worker[w], store, hist, harness.loop)
        BY <1>1 DEF WorkersInv
    <3>2. worker'[w].at \in {"handling", "leaving", "stopping"} => worker'[w] = worker[w]
        BY <1>12 DEF Active
    <3> QED  BY <1>6, <1>7, <1>8, <3>1, <3>2 DEF WorkerOK
  <2> QED  BY <2>1 DEF WorkersInv
<1>19. SyncInv'
  <2>1. \A t \in Task : call'[t] = << >>
      BY <1>2
  <2>2. WaitOK(store', call', hist', << >>)
      BY <1>8, <2>1, NothingWaits
  <2>3. ~harness.loop => Covered(store', call', hist', << >>)
      BY <1>1, <1>2, <1>6, <1>8, EmptyHand DEF SyncInv, Covered, listed
  <2> QED  BY <1>7, <1>8, <2>1, <2>2, <2>3 DEF SyncInv
<1> QED  BY <1>14, <1>15, <1>16, <1>17, <1>18, <1>19 DEF BrokerInv

-----------------------------------------------------------------------------
\* The steps of a stop() keep the invariant.

\* A step of a stop(), or of a fetch loop that ends: the rows are what they
\* were, and no worker is about anything new.
StopMoved ==
    /\ UNCHANGED <<store, now, tokens, harness, call, spawns>> /\ RowsSame(hist')
    /\ SubOK(sub') /\ (sub'.running => sub.running) /\ sub'.tasks \subseteq sub.tasks
    /\ fetchers' \subseteq fetchers /\ (queue' = queue \/ queue' = EmptyQueue)
    /\ ~(InLoop /\ Quiet')
    /\ worker' \in [Worker -> Loop] /\ stop' \in [Worker -> StopCall]
    /\ \A w \in Worker :
          /\ stop'[w].at # "none" => ~Quiet'
          /\ worker'[w].at # "off" => /\ worker[w].at # "off"
                                      /\ w[1] \in sub'.tasks \/ w \in hist'.caught
          /\ worker'[w].at \in Active =>
                /\ worker[w].at \in Active
                /\ worker'[w].copy = worker[w].copy /\ worker'[w].outcome = worker[w].outcome
                /\ worker'[w].at # "handling" => worker[w].at # "handling"

LEMMA StopMovedKeeps ==
    ASSUME BrokerInv, StopMoved
    PROVE  BrokerInv'
<1>1. /\ TypeOK /\ LoopsInv /\ IdsInv /\ QueueInv /\ WorkersInv /\ SyncInv
      /\ queue \in [items: Seq(Copy), unfinished: Nat] /\ fetchers \subseteq Spawn
      /\ spawns \in {0} \cup Spawn /\ call \in [Task -> Seq(Frame)]
    BY DEF BrokerInv, TypeOK
<1>2. /\ store' = store /\ now' = now /\ tokens' = tokens /\ harness' = harness
      /\ call' = call /\ spawns' = spawns
    BY DEF StopMoved
<1>3. /\ hist' \in History /\ hist'.runs = hist.runs /\ hist'.left = hist.left
      /\ hist'.succeeded = hist.succeeded /\ hist'.excused = hist.excused
    BY DEF StopMoved, RowsSame
<1>4. /\ sub' \in [running: BOOLEAN, stopping: BOOLEAN, tasks: SUBSET Spawn]
      /\ sub'.running => sub.running
      /\ sub'.tasks \subseteq sub.tasks
      /\ fetchers' \subseteq fetchers /\ ~(InLoop /\ Quiet')
      /\ worker' \in [Worker -> Loop] /\ stop' \in [Worker -> StopCall]
    BY DEF StopMoved, SubOK
<1>5. InLoop' = InLoop /\ InSync' = InSync
    BY <1>2 DEF InLoop, InSync
<1>6. /\ queue' = queue \/ queue' = EmptyQueue
      /\ EmptyQueue \in [items: Seq(Copy), unfinished: Nat] /\ EmptyQueue.items = << >>
  <2>1. << >> \in Seq(Copy)
      OBVIOUS
  <2> QED  BY <2>1 DEF StopMoved, EmptyQueue
<1>7. TypeOK'
    BY <1>1, <1>2, <1>3, <1>4, <1>6 DEF TypeOK, History
<1>8. LoopsInv'
  <2>1. InLoop => \A n \in DOMAIN queue'.items : queue'.items[n].from = harness.count
    <3>1. CASE queue' = queue
        BY <1>1, <3>1 DEF LoopsInv
    <3>2. CASE queue'.items = << >>
        BY <3>2
    <3> QED  BY <1>6, <3>1, <3>2
  <2>2. ASSUME NEW w \in Worker
        PROVE  /\ stop'[w].at # "none" => ~Quiet'
               /\ worker'[w].at # "off" => /\ harness'.count > 0
                                           /\ w[1] \in sub'.tasks \/ w \in hist'.caught
    <3>1. /\ stop'[w].at # "none" => ~Quiet'
          /\ worker'[w].at # "off" => /\ worker[w].at # "off"
                                      /\ w[1] \in sub'.tasks \/ w \in hist'.caught
        BY DEF StopMoved
    <3>2. worker[w].at # "off" => harness'.count > 0
        BY <1>1, <1>2 DEF LoopsInv
    <3> QED  BY <3>1, <3>2
  <2>3. ~InLoop => sub'.tasks = {} /\ queue' = EmptyQueue
      BY <1>1, <1>4, <1>6 DEF LoopsInv
  <2>4. InSync => fetchers' = {}
      BY <1>1, <1>4 DEF LoopsInv
  <2>5. /\ spawns =< harness.count /\ (harness.open => harness.count > 0)
        /\ (harness.spawned <=> InLoop) /\ (sub'.running => harness.open)
        /\ sub'.tasks \subseteq {spawns}
      BY <1>1, <1>4 DEF LoopsInv
  <2>6. /\ spawns' =< harness'.count /\ (harness'.open => harness'.count > 0)
        /\ (harness'.spawned <=> InLoop') /\ (sub'.running => harness'.open)
        /\ sub'.tasks \subseteq {spawns'} /\ (InSync' => fetchers' = {})
      BY <1>2, <1>5, <2>4, <2>5
  <2>7. /\ InLoop' => \A n \in DOMAIN queue'.items : queue'.items[n].from = harness'.count
        /\ ~InLoop' => sub'.tasks = {} /\ queue' = EmptyQueue
        /\ ~(InLoop' /\ Quiet')
      BY <1>2, <1>4, <1>5, <2>1, <2>3
  <2> QED  BY <2>2, <2>6, <2>7 DEF LoopsInv
<1>9. IdsInv'
    BY <1>1, <1>2, <1>3 DEF IdsInv
<1>10. QueueInv'
  <2>1. ItemsOK(queue'.items, store, hist.runs)
    <3>1. CASE queue' = queue
        BY <1>1, <3>1 DEF QueueInv
    <3>2. CASE queue'.items = << >>
        BY <3>2 DEF ItemsOK
    <3> QED  BY <1>6, <3>1, <3>2
  <2> QED  BY <1>1, <1>2, <1>3, <2>1 DEF QueueInv
<1>11. WorkersInv'
  <2>1. ASSUME NEW w \in Worker
        PROVE  WorkerOK(worker'[w], store', hist', harness'.loop)
    <3>1. WorkerOK(worker[w], store, hist, harness.loop)
        BY <1>1 DEF WorkersInv
    <3> DEFINE x == worker[w]
               y == worker'[w]
    <3>2. y.at \in {"handling", "leaving", "stopping"} =>
             /\ x.at \in {"handling", "leaving", "stopping"}
             /\ y.copy = x.copy /\ y.outcome = x.outcome
             /\ y.at # "handling" => x.at # "handling"
        BY DEF StopMoved, Active
    <3>3. WorkerOK(x, store, hist, harness.loop)
        BY <3>1
    <3> HIDE DEF x, y
    <3>4. WorkerOK(y, store, hist', harness.loop)
        BY <1>3, <3>2, <3>3 DEF WorkerOK
    <3> QED  BY <1>2, <3>4 DEF y
  <2> QED  BY <2>1 DEF WorkersInv
<1>12. SyncInv'
    BY <1>1, <1>2, <1>3, <1>5 DEF SyncInv, WaitOK, CallsOK, FrameOK, Covered
<1> QED  BY <1>7, <1>8, <1>9, <1>10, <1>11, <1>12 DEF BrokerInv

\* What a stop() finds, and keeps: the loops and the history, typed.
LEMMA StopFinds ==
    ASSUME BrokerInv
    PROVE  /\ SubOK(sub) /\ RowsSame(hist) /\ worker \in [Worker -> Loop]
           /\ stop \in [Worker -> StopCall] /\ fetchers \subseteq Spawn
           /\ \A w \in Worker :
                 /\ stop[w].at # "none" => ~Quiet
                 /\ worker[w].at # "off" => w[1] \in sub.tasks \/ w \in hist.caught
BY TypeFacts DEF BrokerInv, LoopsInv, TypeOK, SubOK, RowsSame

\* A fetch loop ends, which one of a context nothing has stopped does not.
LEMMA FetchEndsKeeps ==
    ASSUME BrokerInv, NEW k \in Spawn, FetchEnds(k)
    PROVE  BrokerInv'
<1>1. /\ sub.stopping \/ ~sub.running
      /\ fetchers' = fetchers \ {k}
      /\ UNCHANGED <<store, now, tokens, harness, sub, call, queue, worker, spawns, stop, hist>>
    BY DEF FetchEnds
<1>2. ~(InLoop /\ Quiet) /\ Quiet' = Quiet
    BY <1>1 DEF BrokerInv, LoopsInv, Quiet
<1>3. /\ RowsSame(hist') /\ SubOK(sub') /\ worker' \in [Worker -> Loop]
      /\ stop' \in [Worker -> StopCall]
    BY <1>1, StopFinds
<1> QED  BY <1>1, <1>2, <1>3, StopFinds, StopMovedKeeps DEF StopMoved

\* A worker that nothing lists runs the stop() its handler asked for itself.
LEMMA StopsInPlaceKeeps ==
    ASSUME BrokerInv, NEW w \in Worker, StopsInPlace(w)
    PROVE  BrokerInv'
<1>1. /\ worker[w].at = "leaving" /\ w[1] \notin sub.tasks
      /\ worker' = [worker EXCEPT ![w].at = "stopping", ![w].stops = FALSE]
      /\ stop' = [stop EXCEPT ![w].at = "drain"]
      /\ sub' = [sub EXCEPT !.stopping = TRUE]
      /\ hist' = [hist EXCEPT !.stopped = @ \cup {harness.count}]
      /\ UNCHANGED <<store, now, tokens, harness, call, queue, fetchers, spawns>>
    BY DEF StopsInPlace
<1>2. /\ RowsSame(hist') /\ hist'.caught = hist.caught /\ harness.count \in hist'.stopped
    BY <1>1, StopAsked
<1>3. ~Quiet'
    BY <1>1, <1>2 DEF Quiet
<1>4. /\ SubOK(sub') /\ sub'.running = sub.running /\ sub'.tasks = sub.tasks
    BY <1>1, StopFinds DEF SubOK
<1>5. /\ worker' \in [Worker -> Loop]
      /\ \A v \in Worker : v # w => worker'[v] = worker[v]
      /\ worker'[w].at = "stopping" /\ worker'[w].copy = worker[w].copy
      /\ worker'[w].outcome = worker[w].outcome
    BY <1>1, StopFinds DEF Loop
<1>6. stop' \in [Worker -> StopCall]
    BY <1>1, StopFinds DEF StopCall
<1>7. \A v \in Worker :
         /\ worker'[v].at # "off" => /\ worker[v].at # "off"
                                     /\ v[1] \in sub'.tasks \/ v \in hist'.caught
         /\ worker'[v].at \in Active =>
               /\ worker[v].at \in Active
               /\ worker'[v].copy = worker[v].copy /\ worker'[v].outcome = worker[v].outcome
               /\ worker'[v].at # "handling" => worker[v].at # "handling"
    BY <1>1, <1>2, <1>4, <1>5, StopFinds DEF Active
<1> QED  BY <1>1, <1>2, <1>3, <1>4, <1>5, <1>6, <1>7, StopMovedKeeps DEF StopMoved

\* The task of a handler's stop() starts.
LEMMA StopBeginsKeeps ==
    ASSUME BrokerInv, NEW w \in Worker, StopBegins(w)
    PROVE  BrokerInv'
<1>1. /\ stop[w].at = "asked" /\ stop' = [stop EXCEPT ![w].at = "drain"]
      /\ sub' = [sub EXCEPT !.stopping = TRUE]
      /\ UNCHANGED <<store, now, tokens, harness, call, queue, worker, fetchers, spawns, hist>>
    BY DEF StopBegins
<1>2. ~Quiet /\ Quiet' = Quiet
    BY <1>1, StopFinds DEF Quiet
<1>3. /\ SubOK(sub') /\ sub'.running = sub.running /\ sub'.tasks = sub.tasks
      /\ stop' \in [Worker -> StopCall] /\ RowsSame(hist') /\ worker' \in [Worker -> Loop]
    BY <1>1, StopFinds DEF SubOK, StopCall
<1> QED  BY <1>1, <1>2, <1>3, StopFinds, StopMovedKeeps DEF StopMoved

\* Its drain has ended: what tasks lists is cancelled.
LEMMA DrainEndsKeeps ==
    ASSUME BrokerInv, NEW w \in Worker, DrainEnds(w)
    PROVE  BrokerInv'
<1> DEFINE waits == {v \in StillBusy : v[1] \in sub.tasks}
<1>1. /\ stop[w].at = "drain" /\ sub' = [sub EXCEPT !.running = FALSE]
      /\ worker' = [v \in Worker |-> CancelledLoop(v)]
      /\ fetchers' = fetchers \ sub.tasks
      /\ stop' = [stop EXCEPT ![w] = [at |-> "cancel", waits |-> waits]]
      /\ UNCHANGED <<store, now, tokens, harness, call, queue, spawns, hist>>
    BY DEF DrainEnds
<1>2. ~Quiet /\ Quiet' = Quiet
    BY <1>1, StopFinds DEF Quiet
<1>3. waits \subseteq Worker
    BY DEF StillBusy
<1> HIDE DEF waits
<1>4. /\ SubOK(sub') /\ ~sub'.running /\ sub'.tasks = sub.tasks
      /\ stop' \in [Worker -> StopCall] /\ RowsSame(hist')
    BY <1>1, <1>3, StopFinds DEF SubOK, StopCall
<1>5. ASSUME NEW v \in Worker
      PROVE  /\ worker'[v] \in Loop
             /\ worker'[v].at \in Active => worker'[v] = worker[v]
             /\ worker[v].at = "off" => worker'[v] = worker[v]
    BY <1>1, CancelledIs DEF BrokerInv
<1>6. worker' \in [Worker -> Loop]
    BY <1>1, <1>5
<1> QED  BY <1>1, <1>2, <1>4, <1>5, <1>6, StopFinds, StopMovedKeeps DEF StopMoved

\* All that it cancelled has ended: tasks and the queue are cleared.
LEMMA StopEndsKeeps ==
    ASSUME BrokerInv, NEW w \in Worker, StopEnds(w)
    PROVE  BrokerInv'
<1> DEFINE busy == StillBusy
<1>1. /\ stop[w].at = "cancel" /\ sub' = [sub EXCEPT !.tasks = {}] /\ queue' = EmptyQueue
      /\ worker' = [v \in Worker |-> IF v = w /\ worker[v].at = "stopping"
                                     THEN [worker[v] EXCEPT !.at = "leaving"]
                                     ELSE Parked(worker[v])]
      /\ stop' = [stop EXCEPT ![w] = NoStop]
      /\ hist' = [hist EXCEPT !.caught = @ \cup busy]
      /\ UNCHANGED <<store, now, tokens, harness, call, fetchers, spawns>>
    BY DEF StopEnds, Reset
<1>2. busy \subseteq Worker /\ \A v \in Worker : worker'[v].at # "off" => v \in busy
    BY DEF StillBusy
<1> HIDE DEF busy
<1>3. /\ RowsSame(hist') /\ hist'.stopped = hist.stopped /\ hist'.late = hist.late
      /\ hist'.caught = hist.caught \cup busy
    BY <1>1, <1>2, StopFinds DEF RowsSame, History
<1>4. ~Quiet /\ Quiet' = Quiet
    BY <1>1, <1>3, StopFinds DEF Quiet
<1>5. /\ SubOK(sub') /\ sub'.running = sub.running /\ sub'.tasks = {}
      /\ stop' \in [Worker -> StopCall]
    BY <1>1, StopFinds DEF SubOK, StopCall, NoStop
<1>6. ASSUME NEW v \in Worker
      PROVE  /\ worker'[v] \in Loop
             /\ worker'[v].at # "off" => worker[v].at # "off"
             /\ worker'[v].at \in Active =>
                   /\ worker[v].at \in Active
                   /\ worker'[v].copy = worker[v].copy /\ worker'[v].outcome = worker[v].outcome
                   /\ worker'[v].at # "handling" => worker[v].at # "handling"
  <2>1. worker[v] \in Loop
      BY StopFinds
  <2>2. CASE v = w /\ worker[v].at = "stopping"
    <3>1. worker'[v] = [worker[v] EXCEPT !.at = "leaving"]
        BY <1>1, <2>2
    <3> QED  BY <2>1, <2>2, <3>1 DEF Loop, Active
  <2>3. CASE ~(v = w /\ worker[v].at = "stopping")
    <3>1. worker'[v] = Parked(worker[v])
        BY <1>1, <2>3
    <3> QED  BY <2>1, <3>1, ParkedIs
  <2> QED  BY <2>2, <2>3
<1>7. worker' \in [Worker -> Loop]
    BY <1>1, <1>6
<1> QED  BY <1>1, <1>2, <1>3, <1>4, <1>5, <1>6, <1>7, StopMovedKeeps, StopFinds DEF StopMoved

-----------------------------------------------------------------------------
\* The invariant of every behaviour.

\* The invariant holds before the first context.
LEMMA InitInv ==
    ASSUME Init, FakeAssumption, TestAssumption
    PROVE  BrokerInv
<1>1. MaxRows \in Nat /\ MaxTime \in Nat /\ MaxClaims \in Nat /\ MaxContexts \in Nat
    BY DEF FakeAssumption, TestAssumption
<1>2. /\ StoreOK(store) /\ Live(store) = {} /\ store.nextId = 1 /\ store.dispatchable = << >>
    BY <1>1, NewStoreFacts DEF Init
<1>3. /\ queue.items = << >> /\ DOMAIN queue.items = {}
      /\ ~harness.open /\ ~harness.loop /\ harness.count = 0 /\ ~harness.spawned
      /\ \A t \in Task : call[t] = << >>
      /\ \A w \in Worker : worker[w] = Off
      /\ \A i \in Id : hist.runs[i] = 0 /\ hist.left[i] = "unborn"
      /\ fetchers = {} /\ spawns = 0 /\ queue = EmptyQueue
      /\ ~sub.running /\ sub.tasks = {} /\ \A w \in Worker : stop[w] = NoStop
    BY DEF Init, EmptyQueue
<1>4. Off \in Loop /\ Off.at = "off" /\ NoStop \in StopCall /\ NoStop.at = "none"
    BY RestingLoops DEF NoStop, StopCall
<1>5. TypeOK
  <2>1. << >> \in Seq(Frame) /\ << >> \in Seq(Copy)
      OBVIOUS
  <2>2. call \in [Task -> Seq(Frame)]
      BY <2>1 DEF Init
  <2>3. queue \in [items: Seq(Copy), unfinished: Nat]
      BY <2>1 DEF Init, EmptyQueue
  <2>4. worker \in [Worker -> Loop]
      BY <1>4 DEF Init
  <2>5. harness \in [open: BOOLEAN, loop: BOOLEAN, count: 0 .. MaxContexts, spawned: BOOLEAN]
      BY <1>1 DEF Init
  <2>6. /\ sub \in [running: BOOLEAN, stopping: BOOLEAN, tasks: SUBSET Spawn]
        /\ stop \in [Worker -> StopCall]
      BY <1>4 DEF Init
  <2>7. hist \in [left: [Id -> {"unborn", "stored", "acked", "dead", "cancelled"}],
                  runs: [Id -> Nat], succeeded: SUBSET Id, buried: SUBSET Id,
                  excused: SUBSET Id, caught: SUBSET Worker,
                  stopped: SUBSET (1 .. MaxContexts), late: SUBSET (1 .. MaxContexts)]
    <3> DEFINE left == [i \in Id |-> "unborn"]
               runs == [i \in Id |-> 0]
    <3>1. left \in [Id -> {"unborn", "stored", "acked", "dead", "cancelled"}] /\ runs \in [Id -> Nat]
        OBVIOUS
    <3>2. hist = [left |-> left, runs |-> runs, succeeded |-> {}, buried |-> {},
                  excused |-> {}, caught |-> {}, stopped |-> {}, late |-> {}]
        BY DEF Init
    <3> HIDE DEF left, runs
    <3> QED  BY <3>1, <3>2
  <2>8. now \in 0 .. MaxTime /\ tokens \in Token
      BY <1>1 DEF Init, Token
  <2>9. fetchers \subseteq Spawn /\ spawns \in {0} \cup Spawn
      BY DEF Init
  <2> QED  BY <1>2, <2>2, <2>3, <2>4, <2>5, <2>6, <2>7, <2>8, <2>9 DEF TypeOK
<1>6. LoopsInv
    BY <1>3, <1>4 DEF LoopsInv, InLoop, InSync
<1>7. IdsInv
    BY <1>2, <1>3 DEF IdsInv, Id
<1>8. QueueInv
    BY <1>3 DEF QueueInv, ItemsOK
<1>9. WorkersInv
    BY <1>3, <1>4 DEF WorkersInv, WorkerOK
<1>10. SyncInv
  <2>1. WaitOK(store, call, hist, << >>)
      BY <1>2, <1>3, NothingWaits
  <2>2. Covered(store, call, hist, << >>)
      BY <1>2 DEF Covered
  <2> QED  BY <1>2, <1>3, <2>1, <2>2 DEF SyncInv
<1> QED  BY <1>5, <1>6, <1>7, <1>8, <1>9, <1>10 DEF BrokerInv

\* Every step keeps the invariant.
LEMMA NextKeeps ==
    ASSUME BrokerInv, FakeAssumption, TestAssumption, [Next]_vars
    PROVE  BrokerInv'
<1>1. CASE \E loop, same \in BOOLEAN : Enter(loop, same)
    BY <1>1, EnterKeeps
<1>2. CASE Exit
    BY <1>2, ExitKeeps
<1>3. ASSUME NEW t \in Task,
             \/ Publish(t)
             \/ HandlerStarts(t)
             \/ \E o \in Outcome, raises, stops \in BOOLEAN : HandlerReturns(t, o, raises, stops)
             \/ OutcomeWritten(t)
      PROVE  BrokerInv'
    BY <1>3, PublishKeeps, HandlerStartsKeeps, HandlerReturnsKeeps, OutcomeWrittenKeeps
<1>4. CASE Feed \/ InsertDirectly \/ CancelTimer \/ Tick
    BY <1>4, FeedKeeps, InsertDirectlyKeeps, CancelTimerKeeps, TickKeeps
<1>5. CASE \E k \in Spawn : Fetch(k) \/ FetchEnds(k)
    BY <1>5, FetchKeeps, FetchEndsKeeps
<1>6. ASSUME NEW w \in Worker, WorkerStep(w) \/ StopStep(w)
      PROVE  BrokerInv'
  <2>1. CASE WorkerStep(w)
      BY <2>1, TakeKeeps, ReturnsKeeps, WritesKeeps, StopsInPlaceKeeps, UnwindsKeeps, BackoffEndsKeeps
         DEF WorkerStep
  <2>2. CASE StopStep(w)
      BY <2>2, StopBeginsKeeps, DrainEndsKeeps, StopEndsKeeps DEF StopStep
  <2> QED  BY <1>6, <2>1, <2>2
<1>7. CASE UNCHANGED vars
    BY <1>7 DEF vars, BrokerInv, TypeOK, LoopsInv, IdsInv, QueueInv, WorkersInv, SyncInv,
               InLoop, InSync, Quiet, RunsOK, ItemsOK
<1> QED  BY <1>1, <1>2, <1>3, <1>4, <1>5, <1>6, <1>7 DEF Next

\* The inductive invariant of the test broker: what waits waits in one place,
\* copies are of later and later deliveries, loops are of the open context.
THEOREM TestBrokerInvariant == Spec => []BrokerInv
<1>1. Init => BrokerInv
    BY InitInv, FakeAssumption, TestAssumption
<1>2. BrokerInv /\ [Next]_vars => BrokerInv'
    BY NextKeeps, FakeAssumption, TestAssumption
<1> QED  BY <1>1, <1>2, PTL DEF Spec

\* The state of the test broker is typed, the fake client's rows included.
THEOREM TestBrokerTypeCorrect == Spec => []TypeOK
<1>1. BrokerInv => TypeOK
    BY DEF BrokerInv
<1> QED  BY <1>1, TestBrokerInvariant, PTL

-----------------------------------------------------------------------------
\* What follows from it.

\* The invariant says it: what has not run is on a list, of the store or of a publish.
LEMMA CoveredRuns ==
    ASSUME BrokerInv
    PROVE  PublishRunsItsRows
<1> DEFINE pending == UNION {UNION {Range(f.todo) : f \in Range(call[t])} : t \in Task}
<1>1. ASSUME InSync
      PROVE  Covered(store, call, hist, << >>)
    BY <1>1 DEF BrokerInv, SyncInv, InSync
<1>2. ASSUME NEW i, OnList(call, i)
      PROVE  i \in pending
  <2>1. PICK t \in Task : \E k \in DOMAIN call[t] : i \in Range(call[t][k].todo)
      BY <1>2 DEF OnList
  <2>2. PICK k \in DOMAIN call[t] : i \in Range(call[t][k].todo)
      BY <2>1
  <2>3. call[t][k] \in Range(call[t])
      BY DEF Range
  <2>4. i \in UNION {Range(f.todo) : f \in Range(call[t])}
      BY <2>2, <2>3
  <2> QED  BY <2>4
<1> HIDE DEF pending
<1>3. ASSUME InSync, NEW i \in Live(store)
      PROVE  /\ hist.runs[i] =< 1
             /\ store.rows[i].queue \in Served /\ hist.runs[i] = 0 /\ store.rows[i].token = 0
                  => i \in hist.excused \cup Range(store.dispatchable) \cup pending
    BY <1>1, <1>2, <1>3, EmptyHand DEF Covered
<1> QED  BY <1>3 DEF PublishRunsItsRows, pending

\* A publish under sync dispatch runs what it stored, once, however publishes
\* are nested, batched or cancelled (testing.py:207-210, 579-588).
THEOREM PublishesRunTheirRows == Spec => []PublishRunsItsRows
BY CoveredRuns, TestBrokerInvariant, PTL

\* The workers of one spawn are max_workers.
LEMMA SpawnedWorkers ==
    ASSUME TestAssumption, NEW k \in Spawn
    PROVE  Cardinality({w \in Worker : w[1] = k}) = MaxWorkers
<1> DEFINE S == {w \in Worker : w[1] = k}
           f == [n \in 1 .. MaxWorkers |-> <<k, n>>]
<1>1. MaxWorkers \in Nat
    BY DEF TestAssumption
<1>2. IsFiniteSet(1 .. MaxWorkers) /\ Cardinality(1 .. MaxWorkers) = MaxWorkers
    BY <1>1, FS_Interval
<1>3. \A n \in 1 .. MaxWorkers : f[n] \in S
    BY DEF Worker
<1>4. \A m, n \in 1 .. MaxWorkers : f[m] = f[n] => m = n
    OBVIOUS
<1>5. ASSUME NEW w \in S
      PROVE  \E n \in 1 .. MaxWorkers : f[n] = w
  <2>1. w = <<k, w[2]>> /\ w[2] \in 1 .. MaxWorkers
      BY DEF Worker
  <2> QED  BY <2>1
<1>6. f \in Bijection(1 .. MaxWorkers, S)
  <2>1. f \in [1 .. MaxWorkers -> S]
      BY <1>3
  <2> HIDE DEF f, S
  <2> QED  BY <1>4, <1>5, <2>1 DEF Bijection, Injection, Surjection, IsInjective
<1>7. ExistsBijection(1 .. MaxWorkers, S)
    BY <1>6 DEF ExistsBijection
<1> QED  BY <1>2, <1>7, FS_Bijection

\* The invariant says it: the loops of a context that no stop() has reached
\* are those of the one spawn.
LEMMA LoopsFresh ==
    ASSUME BrokerInv, TestAssumption
    PROVE  ContextStartsFresh
<1>1. LoopsInv /\ fetchers \subseteq Spawn
    BY DEF BrokerInv, TypeOK
<1>2. ASSUME InLoop, NEW n \in DOMAIN queue.items
      PROVE  queue.items[n].from = harness.count
    BY <1>1, <1>2 DEF LoopsInv
<1>3. Serving \subseteq Own \cup hist.caught
    BY <1>1 DEF LoopsInv, Serving, Own
<1>4. ASSUME InLoop, harness.count \notin hist.stopped \cup hist.late
      PROVE  /\ sub.running /\ ~sub.stopping
             /\ Cardinality(Own) = MaxWorkers
             /\ sub.tasks = fetchers /\ Cardinality(fetchers) = 1
  <2>1. sub.running /\ ~sub.stopping /\ sub.tasks = {spawns} /\ fetchers = {spawns}
      BY <1>1, <1>4 DEF LoopsInv, Quiet
  <2>2. Cardinality(fetchers) = 1
      BY <2>1, FS_Singleton
  <2>3. Own = {w \in Worker : w[1] = spawns}
      BY <2>1 DEF Own
  <2>4. spawns \in Spawn
      BY <1>1, <2>1
  <2> QED  BY <2>1, <2>2, <2>3, <2>4, SpawnedWorkers
<1> QED  BY <1>2, <1>3, <1>4 DEF ContextStartsFresh

\* A loop context that no handler's stop() reaches runs exactly its own loops,
\* whatever stopped the subscriber before; in every loop context the copies are
\* its own, and a worker of an earlier one serves only if it was busy when
\* subscriber.tasks was cleared (testing.py:604-651).
THEOREM ContextsStartFresh == Spec => []ContextStartsFresh
<1>1. BrokerInv => ContextStartsFresh
    BY LoopsFresh, TestAssumption
<1> QED  BY <1>1, TestBrokerInvariant, PTL
-----------------------------------------------------------------------------
\* At-least-once delivery.

\* The next store and history are, to a publisher, s and h.
Looks(s, h) ==
    /\ Live(store') = Live(s) /\ store'.dlq = s.dlq
    /\ hist'.left = h.left /\ hist'.runs = h.runs
    /\ hist'.succeeded = h.succeeded /\ hist'.buried = h.buried

\* A step in which a publisher sees no change is none of the promise.
LEMMA LooksSame ==
    ASSUME Looks(store, hist)
    PROVE  UNCHANGED Promise!avars
BY DEF Looks, Promise!avars

\* Rows that are stored are new to the promise: they are accepted.
LEMMA GrowthAccepts ==
    ASSUME BrokerInv, NEW s, NEW n \in Nat, Grew(store, s, n), Looks(s, hist)
    PROVE  \E S \in SUBSET Id : Promise!Accept(S)
<1>1. IdsInv /\ store.nextId \in Nat /\ StoreOK(s)
    BY TypeFacts DEF BrokerInv, Grew
<1>2. PICK S : S = Fresh(store, n)
    OBVIOUS
<1>3. Live(s) = Live(store) \cup S /\ s.dlq = store.dlq
    BY <1>2 DEF Grew
<1>4. S \in SUBSET Id
    BY <1>1, <1>3, StoreFacts
<1>5. \A i \in S : i \in Id /\ i \notin Live(store) /\ hist.left[i] = "unborn"
  <2>1. \A i \in S : i >= store.nextId
      BY <1>1, <1>2 DEF Fresh
  <2> QED  BY <1>1, <1>4, <2>1 DEF IdsInv
<1>6. \A i \in Id : (IF i \in Live(store') THEN "stored" ELSE hist'.left[i])
                    = IF i \in S THEN "stored"
                      ELSE IF i \in Live(store) THEN "stored" ELSE hist.left[i]
    BY <1>3 DEF Looks
<1>7. /\ hist'.buried \cup store'.dlq = hist.buried \cup store.dlq
      /\ hist'.runs = hist.runs /\ hist'.succeeded = hist.succeeded
    BY <1>3 DEF Looks
<1>8. Promise!Accept(S)
    BY <1>5, <1>6, <1>7 DEF Promise!Accept
<1> QED  BY <1>4, <1>8

\* A row that was stored has a status.
LEMMA BornRows ==
    ASSUME BrokerInv, NEW i \in Id, i < store.nextId
    PROVE  i \notin Live(store) => hist.left[i] # "unborn"
BY DEF BrokerInv, IdsInv

\* A handler that starts on a stored row, within max_deliveries, is a run.
LEMMA StartRuns ==
    ASSUME BrokerInv, NEW i \in Id, i < store.nextId, hist.runs[i] < MaxDeliveries,
           store' = store, hist' = [hist EXCEPT !.runs[i] = @ + 1]
    PROVE  Promise!Run(i)
<1>1. hist \in History
    BY TypeFacts DEF BrokerInv
<1>2. /\ hist'.left = hist.left /\ hist'.succeeded = hist.succeeded /\ hist'.buried = hist.buried
      /\ hist'.runs = [hist.runs EXCEPT ![i] = @ + 1]
    BY <1>1, RunRecorded
<1>3. i \notin Live(store) => hist.left[i] # "unborn"
    BY BornRows
<1> QED  BY <1>2, <1>3 DEF Promise!Run

\* A handler that succeeds has run.
LEMMA SuccessSucceeds ==
    ASSUME BrokerInv, NEW i \in Id, hist.runs[i] > 0,
           store' = store, hist' = [hist EXCEPT !.succeeded = @ \cup {i}]
    PROVE  Promise!Succeed(i)
<1>1. hist \in History
    BY TypeFacts DEF BrokerInv
<1>2. /\ hist'.left = hist.left /\ hist'.runs = hist.runs /\ hist'.buried = hist.buried
      /\ hist'.succeeded = hist.succeeded \cup {i}
    BY <1>1, SuccessRecorded
<1> QED  BY <1>2 DEF Promise!Succeed

\* The write of an outcome removes the row as the outcome says, with a dead
\* letter in the same step, or under a token that is stale changes nothing.
LEMMA WriteRemoves ==
    ASSUME BrokerInv, FakeAssumption, NEW i \in Id, NEW token, NEW o \in Outcome, NEW d \in Nat,
           o = "ack" => i \in hist.succeeded,
           NEW g, RowsSame(g), g.buried = hist.buried,
           Looks(Written(store, i, token, o, d), Leaves(g, store, i, token, o))
    PROVE  \/ \E A, D \in SUBSET Id : A \cap D = {} /\ Promise!Remove(A, D)
           \/ UNCHANGED Promise!avars
<1> DEFINE s == Written(store, i, token, o, d)
           h == Leaves(g, store, i, token, o)
<1>1. StoreOK(store) /\ now \in Nat /\ Live(store) \subseteq Id /\ g \in History
    BY TypeFacts DEF BrokerInv, RowsSame
<1>2. /\ ~TokenMatches(store, i, token) => s = store
      /\ TokenMatches(store, i, token) /\ o = "retry" => Released(store, s, i)
      /\ TokenMatches(store, i, token) /\ o # "retry" =>
            /\ Lost(store, s, i)
            /\ s.dlq = IF o = "dead" /\ HasDLQ THEN store.dlq \cup {i} ELSE store.dlq
    BY <1>1, WrittenFacts
<1>3. /\ h.runs = hist.runs /\ h.succeeded = hist.succeeded /\ h.buried = hist.buried
      /\ \A j \in Id : j # i => h.left[j] = hist.left[j]
      /\ ~TokenMatches(store, i, token) \/ o = "retry" => h.left = hist.left
      /\ TokenMatches(store, i, token) /\ o # "retry" =>
            h.left[i] = IF o = "ack" THEN "acked" ELSE "dead"
    BY <1>1, LeavesFacts DEF RowsSame
<1>4. Looks(s, h)
    OBVIOUS
<1> HIDE DEF s, h
<1>5. CASE ~TokenMatches(store, i, token) \/ o = "retry"
  <2>1. h.left = hist.left /\ Live(s) = Live(store) /\ s.dlq = store.dlq
      BY <1>2, <1>3, <1>5 DEF Released
  <2>2. Looks(store, hist)
      BY <1>3, <1>4, <2>1 DEF Looks
  <2> QED  BY <2>2, LooksSame
<1>6. CASE TokenMatches(store, i, token) /\ o # "retry"
  <2> DEFINE A == IF o = "ack" THEN {i} ELSE {}
             D == IF o = "ack" THEN {} ELSE {i}
  <2>1. o = "ack" \/ (o = "dead" /\ o # "ack")
      BY <1>6 DEF Outcome
  <2>2. i \in Live(store) /\ Live(s) = Live(store) \ {i}
      BY <1>2, <1>6 DEF TokenMatches, Lost
  <2>3. s.dlq = IF HasDLQ THEN store.dlq \cup D ELSE store.dlq
      BY <1>2, <1>6, <2>1
  <2>4. A \in SUBSET Id /\ D \in SUBSET Id /\ A \cap D = {} /\ A \cup D = {i}
        /\ A \subseteq hist.succeeded
      BY <2>1
  <2>5. \A j \in Id : IF j \in A THEN h.left[j] = "acked"
                      ELSE IF j \in D THEN h.left[j] = "dead" ELSE h.left[j] = hist.left[j]
      BY <1>3, <1>6, <2>1
  <2> HIDE DEF A, D
  <2>6. \A j \in Id : (IF j \in Live(store') THEN "stored" ELSE hist'.left[j])
                      = IF j \in A THEN "acked" ELSE IF j \in D THEN "dead"
                        ELSE IF j \in Live(store) THEN "stored" ELSE hist.left[j]
    <3>1. Live(store') = Live(store) \ {i} /\ hist'.left = h.left
        BY <1>4, <2>2 DEF Looks
    <3> QED  BY <2>4, <2>5, <3>1
  <2>7. \A j \in A \cup D : j \in Id /\ j \in Live(store)
      BY <2>2, <2>4
  <2>8. /\ hist'.buried \cup store'.dlq = IF HasDLQ THEN (hist.buried \cup store.dlq) \cup D
                                         ELSE hist.buried \cup store.dlq
        /\ hist'.runs = hist.runs /\ hist'.succeeded = hist.succeeded
      BY <1>3, <1>4, <2>3 DEF Looks
  <2>9. Promise!Remove(A, D)
      BY <2>4, <2>6, <2>7, <2>8 DEF Promise!Remove
  <2> QED  BY <2>4, <2>9
<1> QED  BY <1>5, <1>6

\* What sync dispatch claims looks the same to a publisher.
LEMMA DispatchLooks ==
    ASSUME NEW s, StoreOK(s), NEW t, NEW todo, NEW below, tokens \in Token, now \in 0 .. MaxTime,
           FakeAssumption, NEW running, Dispatch(t, s, todo, below, running)
    PROVE  Live(store') = Live(s) /\ store'.dlq = s.dlq
<1>1. CASE store' = s
    BY <1>1
<1>2. ASSUME tokens < MaxClaims, NEW S, store' = Claimed(s, S, tokens + 1, now)
      PROVE  Live(store') = Live(s) /\ store'.dlq = s.dlq
  <2>1. tokens + 1 \in Token
      BY <1>2 DEF Token, FakeAssumption
  <2>2. Leased(s, store', S, tokens + 1)
      BY <1>2, <2>1, ClaimedLeased
  <2> QED  BY <2>2 DEF Leased
<1> QED  BY <1>1, <1>2 DEF Dispatch

\* A publish accepts what it stores; what it then claims is nobody's business.
LEMMA PublishPromise ==
    ASSUME BrokerInv, FakeAssumption, TestAssumption, NEW t \in Task, Publish(t)
    PROVE  Promise!ANext \/ UNCHANGED Promise!avars
<1>1. PICK s \in Publishes :
         /\ s.nextId =< LastId + 1
         /\ IF harness.loop
            THEN store' = Taken(s) /\ UNCHANGED <<tokens, call>>
            ELSE Dispatch(t, Taken(s), s.dispatchable, call[t], sub.running)
    BY DEF Publish
<1>2. TypeOK /\ hist' = hist /\ tokens \in Token /\ now \in 0 .. MaxTime
    BY TypeFacts DEF BrokerInv, Publish
<1>3. PICK n \in Nat : Grew(store, s, n)
  <2>1. s.nextId =< MaxRows + 1
    <3>1. s.nextId \in Nat /\ s.nextId =< LastId + 1
        BY <1>1, <1>2, PublishesDraw
    <3> QED  BY <3>1, LastIdFits
  <2> QED  BY <1>2, <2>1, PublishesGrow DEF Stored
<1>4. StoreOK(Taken(s)) /\ Live(Taken(s)) = Live(s) /\ Taken(s).dlq = s.dlq
    BY <1>3, TakenFacts DEF Grew
<1>5. Live(store') = Live(s) /\ store'.dlq = s.dlq
    BY <1>1, <1>2, <1>4, DispatchLooks
<1>6. Looks(s, hist)
    BY <1>2, <1>5 DEF Looks
<1>7. \E S \in SUBSET Id : Promise!Accept(S)
    BY <1>3, <1>6, GrowthAccepts
<1> QED  BY <1>7 DEF Promise!ANext

\* The outcome of a sync dispatch removes the row, or leaves it.
LEMMA OutcomeWrittenPromise ==
    ASSUME BrokerInv, FakeAssumption, NEW t \in Task, OutcomeWritten(t)
    PROVE  Promise!ANext \/ UNCHANGED Promise!avars
<1> DEFINE f == Last(call[t])
<1>1. call[t] # << >> /\ f.at = "leaving"
    BY DEF OutcomeWritten
<1>2. PICK s, h :
         /\ Wrote(f.id, s, h) /\ Outcomes(f.id, f.token, f.outcome, s, h)
         /\ IF f.raises
            THEN store' = s /\ call' = [call EXCEPT ![t] = Front(call[t])] /\ UNCHANGED tokens
            ELSE Dispatch(t, s, f.todo, Front(call[t]), sub.running /\ ~f.stops)
         /\ hist' = IF f.raises THEN [h EXCEPT !.excused = @ \cup Range(f.todo)] ELSE h
    BY OutcomeIs
<1>3. FrameOK(f, store.nextId, hist) /\ f.id \in Id /\ Range(f.todo) \subseteq Id
    BY <1>1, TopFrame
<1>4. f.outcome \in Outcome /\ (f.outcome = "ack" => f.id \in hist.succeeded)
    BY <1>1, <1>3 DEF FrameOK
<1>5. tokens \in Token /\ now \in 0 .. MaxTime /\ hist \in History /\ RowsSame(hist)
    BY TypeFacts DEF BrokerInv, RowsSame
<1> HIDE DEF f
<1>6. StoreOK(s) /\ h \in History
    BY <1>2 DEF Wrote
<1>7. Live(store') = Live(s) /\ store'.dlq = s.dlq
    BY <1>2, <1>5, <1>6, DispatchLooks
<1>8. hist'.left = h.left /\ hist'.runs = h.runs /\ hist'.succeeded = h.succeeded /\ hist'.buried = h.buried
    BY <1>2, <1>3, <1>6, RowsExcused
<1>9. Looks(s, h)
    BY <1>7, <1>8 DEF Looks
<1>10. CASE s = store /\ h = hist
    BY <1>9, <1>10, LooksSame
<1>11. ASSUME NEW z \in Nat, s = Written(store, f.id, f.token, f.outcome, z),
              h = Leaves(hist, store, f.id, f.token, f.outcome)
       PROVE  Promise!ANext \/ UNCHANGED Promise!avars
  <2>1. \/ \E A, D \in SUBSET Id : A \cap D = {} /\ Promise!Remove(A, D)
        \/ UNCHANGED Promise!avars
      BY <1>3, <1>4, <1>5, <1>9, <1>11, WriteRemoves
  <2> QED  BY <2>1 DEF Promise!ANext
<1> QED  BY <1>2, <1>10, <1>11 DEF Outcomes

\* The handlers of a sync context run within max_deliveries, and succeed once run.
LEMMA HandlerPromise ==
    ASSUME BrokerInv, TestAssumption, NEW t \in Task,
           \/ HandlerStarts(t)
           \/ \E o \in Outcome, raises, stops \in BOOLEAN : HandlerReturns(t, o, raises, stops)
    PROVE  Promise!ANext \/ UNCHANGED Promise!avars
<1> DEFINE f == Last(call[t])
<1>1. call[t] # << >> /\ f.at \in {"entering", "handling"} /\ store' = store
    BY DEF HandlerStarts, HandlerReturns
<1>2. FrameOK(f, store.nextId, hist) /\ f.id \in Id
    BY <1>1, TopFrame
<1>3. CASE HandlerStarts(t)
  <2>1. f.at = "entering" /\ hist' = [hist EXCEPT !.runs[f.id] = @ + 1]
      BY <1>3 DEF HandlerStarts
  <2>2. f.id < store.nextId /\ hist.runs[f.id] < MaxDeliveries
      BY <1>2, <2>1 DEF FrameOK, TestAssumption
  <2> HIDE DEF f
  <2>3. Promise!Run(f.id)
      BY <1>1, <1>2, <2>1, <2>2, StartRuns
  <2> QED  BY <1>2, <2>3 DEF Promise!ANext
<1>4. ASSUME NEW o \in Outcome, NEW raises \in BOOLEAN, NEW stops \in BOOLEAN,
             HandlerReturns(t, o, raises, stops)
      PROVE  Promise!ANext \/ UNCHANGED Promise!avars
  <2>1. /\ f.at = "handling"
        /\ hist' = IF o = "ack" THEN [hist EXCEPT !.succeeded = @ \cup {f.id}] ELSE hist
      BY <1>4 DEF HandlerReturns
  <2>2. hist.runs[f.id] > 0
      BY <1>2, <2>1 DEF FrameOK
  <2> HIDE DEF f
  <2>3. CASE o = "ack"
    <3>1. Promise!Succeed(f.id)
        BY <1>1, <1>2, <2>1, <2>2, <2>3, SuccessSucceeds
    <3> QED  BY <1>2, <3>1 DEF Promise!ANext
  <2>4. CASE o # "ack"
      BY <1>1, <2>1, <2>4, LooksSame DEF Looks
  <2> QED  BY <2>3, <2>4
<1> QED  BY <1>3, <1>4

\* feed() and an insert on the client accept what they store.
LEMMA StorePromise ==
    ASSUME BrokerInv, FakeAssumption, TestAssumption, Feed \/ InsertDirectly
    PROVE  Promise!ANext \/ UNCHANGED Promise!avars
<1>1. StoreOK(store) /\ hist \in History /\ TypeOK /\ now \in Nat
    BY TypeFacts DEF BrokerInv
<1>2. \E n \in Nat : Grew(store, store', n)
  <2>1. CASE Feed
    <3>1. PICK q \in Queue, timer \in Timer \cup {NoTimer}, d \in Delay :
             store' = Fed(store, q, timer, now + d)
        BY <2>1 DEF Feed
    <3>2. store.nextId =< MaxRows
      <4>1. store.nextId \in Nat
          BY <1>1, TypeFacts
      <4>2. store.nextId =< LastId
          BY <2>1 DEF Feed
      <4> QED  BY <4>1, <4>2, LastIdFits
    <3>3. now + d \in Nat
        BY <1>1 DEF FakeAssumption
    <3> QED  BY <1>1, <3>1, <3>2, <3>3, FedGrew
  <2>2. CASE InsertDirectly
    <3>1. PICK q \in Queue, d \in Delay : store' = Inserted(store, q, NoTimer, now + d, "ignore")
        BY <2>2 DEF InsertDirectly
    <3>2. LiveTimers(store, q, NoTimer) = {}
        BY DEF LiveTimers
    <3>3. store' = InsertedBatch(store, q, NoTimer, now + d, 1)
        BY <3>1, <3>2 DEF Inserted
    <3>4. now + d \in Nat /\ store.nextId + 1 =< MaxRows + 1 /\ 1 \in Nat
      <4>1. store.nextId \in Nat /\ MaxRows \in Nat /\ d \in Nat
          BY <1>1, TypeFacts DEF FakeAssumption
      <4> QED  BY <1>1, <2>2, <4>1 DEF InsertDirectly
    <3> QED  BY <1>1, <3>3, <3>4, BatchGrew
  <2> QED  BY <2>1, <2>2
<1>3. PICK n \in Nat : Grew(store, store', n)
    BY <1>2
<1>4. /\ hist'.left = hist.left /\ hist'.runs = hist.runs
      /\ hist'.succeeded = hist.succeeded /\ hist'.buried = hist.buried
  <2>1. hist' = hist \/ hist' = [hist EXCEPT !.excused = @ \cup New(store, store')]
      BY DEF Feed, InsertDirectly
  <2>2. New(store, store') \in SUBSET Id
      BY <1>3, StoreFacts DEF New, Grew
  <2>3. CASE hist' = hist
      BY <2>3
  <2>4. CASE hist' = [hist EXCEPT !.excused = @ \cup New(store, store')]
      BY <1>1, <2>2, <2>4, RowsExcused
  <2> QED  BY <2>1, <2>3, <2>4
<1>5. StoreOK(store') /\ Looks(store', hist)
    BY <1>3, <1>4 DEF Looks, Grew
<1>6. \E S \in SUBSET Id : Promise!Accept(S)
  <2> DEFINE s == store'
  <2>1. Grew(store, s, n) /\ Looks(s, hist)
      BY <1>3, <1>5
  <2> HIDE DEF s
  <2> QED  BY <2>1, GrowthAccepts
<1> QED  BY <1>6 DEF Promise!ANext

\* cancel_timer cancels a message that is stored.
LEMMA CancelPromise ==
    ASSUME BrokerInv, CancelTimer
    PROVE  Promise!ANext \/ UNCHANGED Promise!avars
<1>1. PICK i : /\ \E q \in Queue, timer \in Timer : i \in Cancellable(store, q, timer)
               /\ store' = Cancelled(store, i) /\ hist' = [hist EXCEPT !.left[i] = "cancelled"]
    BY DEF CancelTimer
<1>2. StoreOK(store) /\ hist \in History /\ i \in Live(store) /\ i \in Id
    BY <1>1, TypeFacts DEF BrokerInv, Cancellable, LiveTimers
<1>3. Live(store') = Live(store) \ {i} /\ store'.dlq = store.dlq
    BY <1>1, <1>2, CancelledLost DEF Lost
<1>4. /\ hist'.runs = hist.runs /\ hist'.succeeded = hist.succeeded /\ hist'.buried = hist.buried
      /\ hist'.left[i] = "cancelled" /\ \A j \in Id : j # i => hist'.left[j] = hist.left[j]
  <2>1. "cancelled" \in Ending
      BY DEF Ending
  <2> QED  BY <1>1, <1>2, <2>1, LeavingRecorded
<1>5. \A j \in Id : (IF j \in Live(store') THEN "stored" ELSE hist'.left[j])
                    = IF j = i THEN "cancelled"
                      ELSE IF j \in Live(store) THEN "stored" ELSE hist.left[j]
    BY <1>3, <1>4
<1>6. Promise!Cancel(i)
    BY <1>2, <1>3, <1>4, <1>5 DEF Promise!Cancel
<1> QED  BY <1>2, <1>6 DEF Promise!ANext

\* Contexts come and go and loops poll: a publisher sees nothing of it.
LEMMA ContextPromise ==
    ASSUME BrokerInv, FakeAssumption,
           \/ \E loop, same \in BOOLEAN : Enter(loop, same)
           \/ Exit \/ Tick \/ \E k \in Spawn : Fetch(k) \/ FetchEnds(k)
           \/ \E w \in Worker : StopStep(w)
    PROVE  UNCHANGED Promise!avars
<1>1. /\ StoreOK(store) /\ hist \in History /\ Live(store) \subseteq Id
      /\ store.nextId \in 1 .. MaxRows + 1 /\ tokens \in Token /\ now \in 0 .. MaxTime
      /\ store.dispatchable \in Seq(Id)
    BY TypeFacts DEF BrokerInv
<1>2. ASSUME NEW loop \in BOOLEAN, NEW same \in BOOLEAN, Enter(loop, same)
      PROVE  UNCHANGED Promise!avars
  <2> DEFINE fresh == fetchers = {} /\ \A w \in Worker : stop[w].at = "none"
             late == IF fresh THEN hist.late ELSE hist.late \cup {harness.count + 1}
  <2>1. CASE same
    <3>1. store' = store /\ hist' = [hist EXCEPT !.late = late]
        BY <1>2, <2>1 DEF Enter
    <3> HIDE DEF late
    <3>2. /\ hist'.left = hist.left /\ hist'.runs = hist.runs
          /\ hist'.succeeded = hist.succeeded /\ hist'.buried = hist.buried
        BY <1>1, <3>1 DEF History
    <3> QED  BY <3>1, <3>2, LooksSame DEF Looks
  <2>2. CASE ~same
    <3> DEFINE left == [i \in Id |-> IF i \in Live(store) THEN "stored" ELSE hist.left[i]]
               buried == hist.buried \cup store.dlq
               h == [hist EXCEPT !.late = IF fresh THEN @ ELSE @ \cup {harness.count + 1}]
    <3>1. store' = NewStore(store.nextId)
        BY <1>2, <2>2 DEF Enter
    <3>6. hist' = [h EXCEPT !.buried = @ \cup store.dlq,
                           !.left = [i \in Id |-> IF i \in Live(store) THEN "stored" ELSE @[i]]]
        BY <1>2, <2>2 DEF Enter
    <3>2. Live(store') = {} /\ store'.dlq = {}
        BY <1>1, <3>1, NewStoreFacts
    <3> HIDE DEF fresh
    <3>7. h = [hist EXCEPT !.late = h.late]
        BY <1>1 DEF History
    <3>8. /\ h.left = hist.left /\ h.buried = hist.buried
          /\ h.runs = hist.runs /\ h.succeeded = hist.succeeded
        BY <1>1, <3>7 DEF History
    <3>9. /\ DOMAIN h = DOMAIN hist
          /\ DOMAIN hist = {"left", "runs", "succeeded", "buried", "excused", "caught", "stopped", "late"}
        BY <1>1, <3>7 DEF History
    <3> HIDE DEF h
    <3>10. /\ hist'.left = [i \in Id |-> IF i \in Live(store) THEN "stored" ELSE h.left[i]]
           /\ hist'.buried = h.buried \cup store.dlq
           /\ hist'.runs = h.runs /\ hist'.succeeded = h.succeeded
        BY <3>6, <3>9
    <3> HIDE DEF left, buried
    <3>3. /\ hist'.left = left /\ hist'.buried = buried
          /\ hist'.runs = hist.runs /\ hist'.succeeded = hist.succeeded
        BY <3>8, <3>10 DEF left, buried
    <3>4. \A i \in Id : (IF i \in Live(store') THEN "stored" ELSE hist'.left[i])
                        = IF i \in Live(store) THEN "stored" ELSE hist.left[i]
        BY <3>2, <3>3 DEF left
    <3>5. hist'.buried \cup store'.dlq = hist.buried \cup store.dlq
        BY <3>2, <3>3 DEF buried
    <3> QED  BY <3>3, <3>4, <3>5 DEF Promise!avars
  <2> QED  BY <2>1, <2>2
<1>3. CASE Exit
  <2> DEFINE caught == hist.caught \cup StillBusy
             excused == hist.excused \cup Range(store.dispatchable)
  <2>1. /\ store' = Taken(store)
        /\ hist' = [hist EXCEPT !.excused = excused, !.caught = caught]
      BY <1>3 DEF Exit
  <2> HIDE DEF caught, excused
  <2>2. /\ hist'.left = hist.left /\ hist'.runs = hist.runs
        /\ hist'.succeeded = hist.succeeded /\ hist'.buried = hist.buried
      BY <1>1, <2>1 DEF History
  <2>3. Live(store') = Live(store) /\ store'.dlq = store.dlq
      BY <1>1, <2>1, TakenFacts
  <2> QED  BY <2>2, <2>3, LooksSame DEF Looks
<1>4. CASE Tick
    BY <1>4, LooksSame DEF Tick, Looks
<1>5. ASSUME NEW k \in Spawn, Fetch(k)
      PROVE  UNCHANGED Promise!avars
  <2>1. /\ tokens < MaxClaims /\ tokens' = tokens + 1 /\ hist' = hist
        /\ \E S : store' = Claimed(store, S, tokens', now)
      BY <1>5 DEF Fetch
  <2>2. tokens' \in Token
      BY <1>1, <2>1 DEF Token, FakeAssumption
  <2>3. PICK S : Leased(store, store', S, tokens')
      BY <1>1, <2>1, <2>2, ClaimedLeased
  <2> QED  BY <2>1, <2>3, LooksSame DEF Leased, Looks
<1>6. ASSUME NEW k \in Spawn, FetchEnds(k)
      PROVE  UNCHANGED Promise!avars
    BY <1>6, LooksSame DEF FetchEnds, Looks
<1>7. ASSUME NEW w \in Worker, StopStep(w)
      PROVE  UNCHANGED Promise!avars
  <2> DEFINE caught == hist.caught \cup StillBusy
  <2>1. store' = store /\ (hist' = hist \/ hist' = [hist EXCEPT !.caught = caught])
      BY <1>7 DEF StopStep, StopBegins, DrainEnds, StopEnds
  <2> HIDE DEF caught
  <2>2. /\ hist'.left = hist.left /\ hist'.runs = hist.runs
        /\ hist'.succeeded = hist.succeeded /\ hist'.buried = hist.buried
      BY <1>1, <2>1 DEF History
  <2> QED  BY <2>1, <2>2, LooksSame DEF Looks
<1> QED  BY <1>2, <1>3, <1>4, <1>5, <1>6, <1>7

\* A worker runs a copy within max_deliveries, and what it writes is a removal
\* of a stored message, an acknowledgement only after a success.
LEMMA WorkerPromise ==
    ASSUME BrokerInv, FakeAssumption, TestAssumption, NEW w \in Worker, WorkerStep(w)
    PROVE  Promise!ANext \/ UNCHANGED Promise!avars
<1>1. /\ hist \in History /\ RowsSame(hist) /\ WorkerOK(worker[w], store, hist, harness.loop)
      /\ queue.items \in Seq(Copy) /\ ItemsOK(queue.items, store, hist.runs)
    BY TypeFacts DEF BrokerInv, TypeOK, WorkersInv, QueueInv, RowsSame
<1>2. ASSUME NEW i \in Id, NEW token, NEW o \in Outcome, NEW d \in Nat, o = "ack" => i \in hist.succeeded,
             NEW g, RowsSame(g), g.buried = hist.buried,
             store' = Written(store, i, token, o, d), hist' = Leaves(g, store, i, token, o)
      PROVE  Promise!ANext \/ UNCHANGED Promise!avars
  <2>1. Looks(Written(store, i, token, o, d), Leaves(g, store, i, token, o))
      BY <1>2 DEF Looks
  <2>2. \/ \E A, D \in SUBSET Id : A \cap D = {} /\ Promise!Remove(A, D)
        \/ UNCHANGED Promise!avars
      BY <1>2, <2>1, WriteRemoves
  <2> QED  BY <2>2 DEF Promise!ANext
<1>3. CASE Take(w)
  <2> DEFINE c == Head(queue.items)
  <2>1. queue.items # << >>
      BY <1>3 DEF Take
  <2>2. c \in Copy /\ 1 \in DOMAIN queue.items /\ c = queue.items[1]
      BY <1>1, <2>1, QueueTail
  <2>3. c.id \in Id /\ c.deliveries \in Nat /\ MaxDeliveries \in Nat /\ hist.runs[c.id] \in Nat
      BY <1>1, <2>2 DEF Copy, TestAssumption, History
  <2>4. c.id < store.nextId /\ hist.runs[c.id] < c.deliveries
      BY <1>1, <2>2 DEF ItemsOK
  <2>5. CASE c.deliveries > MaxDeliveries
    <3>1. /\ store' = Written(store, c.id, c.token, "dead", 0)
          /\ hist' = Leaves(hist, store, c.id, c.token, "dead")
        BY <1>3, <2>5 DEF Take
    <3>2. "dead" \in Outcome /\ 0 \in Nat /\ "dead" # "ack"
        BY DEF Outcome
    <3> HIDE DEF c
    <3> QED  BY <1>1, <1>2, <2>3, <3>1, <3>2
  <2>6. CASE ~(c.deliveries > MaxDeliveries) /\ ~sub.running
    <3>1. store' = store /\ hist' = hist
        BY <1>3, <2>6 DEF Take
    <3> QED  BY <3>1, LooksSame DEF Looks
  <2>7. CASE ~(c.deliveries > MaxDeliveries) /\ sub.running
    <3>1. store' = store /\ hist' = [hist EXCEPT !.runs[c.id] = @ + 1]
        BY <1>3, <2>7 DEF Take
    <3> HIDE DEF c
    <3>2. hist.runs[c.id] < MaxDeliveries
        BY <2>3, <2>4, <2>7
    <3>3. Promise!Run(c.id)
        BY <2>3, <2>4, <3>1, <3>2, StartRuns
    <3> QED  BY <2>3, <3>3 DEF Promise!ANext
  <2> QED  BY <2>5, <2>6, <2>7
<1>4. ASSUME NEW o \in Outcome, NEW stops \in BOOLEAN, Returns(w, o, stops)
      PROVE  Promise!ANext \/ UNCHANGED Promise!avars
  <2> DEFINE i == worker[w].copy.id
  <2>1. /\ worker[w].at = "handling" /\ store' = store
        /\ hist' = IF o = "ack" THEN [hist EXCEPT !.succeeded = @ \cup {i}] ELSE hist
      BY <1>4 DEF Returns
  <2>2. i \in Id /\ hist.runs[i] > 0
      BY <1>1, <2>1 DEF WorkerOK, Copy
  <2> HIDE DEF i
  <2>3. CASE o = "ack"
    <3>1. Promise!Succeed(i)
        BY <2>1, <2>2, <2>3, SuccessSucceeds
    <3> QED  BY <2>2, <3>1 DEF Promise!ANext
  <2>4. CASE o # "ack"
      BY <2>1, <2>4, LooksSame DEF Looks
  <2> QED  BY <2>3, <2>4
<1>5. CASE Writes(w) \/ StopsInPlace(w)
  <2> DEFINE c == worker[w].copy
             o == worker[w].outcome
             g == [hist EXCEPT !.stopped = @ \cup {harness.count}]
             h == IF worker[w].stops THEN g ELSE hist
  <2>1. worker[w].at = "leaving"
      BY <1>5 DEF Writes, StopsInPlace
  <2>2. RowsSame(g) /\ g.buried = hist.buried
      BY <2>1, StopAsked
  <2>3. \/ \E d \in IF o = "retry" THEN Delay ELSE {0} :
              store' = Written(store, c.id, c.token, o, d) /\ hist' = Leaves(h, store, c.id, c.token, o)
        \/ store' = store /\ (hist' = h \/ hist' = g)
      BY <1>5 DEF Writes, StopsInPlace
  <2>4. c \in Copy /\ o \in Outcome /\ (o = "ack" => c.id \in hist.succeeded)
      BY <1>1, <2>1 DEF WorkerOK
  <2> HIDE DEF c, o, g
  <2>5. RowsSame(h) /\ h.buried = hist.buried
      BY <1>1, <2>2
  <2>6. c.id \in Id
      BY <2>4 DEF Copy
  <2>7. CASE store' = store /\ (hist' = h \/ hist' = g)
      BY <2>2, <2>5, <2>7, LooksSame DEF Looks, RowsSame
  <2> HIDE DEF h
  <2>8. ASSUME NEW d \in IF o = "retry" THEN Delay ELSE {0},
               store' = Written(store, c.id, c.token, o, d), hist' = Leaves(h, store, c.id, c.token, o)
        PROVE  Promise!ANext \/ UNCHANGED Promise!avars
    <3>1. d \in Nat
        BY DEF FakeAssumption
    <3> QED  BY <1>2, <2>4, <2>5, <2>6, <2>8, <3>1
  <2> QED  BY <2>3, <2>7, <2>8
<1>6. CASE Unwinds(w) \/ BackoffEnds(w)
    BY <1>6, LooksSame DEF Unwinds, BackoffEnds, Looks
<1> QED  BY <1>3, <1>4, <1>5, <1>6 DEF WorkerStep

\* Every step of the test broker is one of the promise, or none.
LEMMA PromiseStep ==
    ASSUME BrokerInv, FakeAssumption, TestAssumption, [Next]_vars
    PROVE  [Promise!ANext]_(Promise!avars)
<1>1. CASE \/ \E loop, same \in BOOLEAN : Enter(loop, same)
           \/ Exit \/ Tick \/ \E k \in Spawn : Fetch(k) \/ FetchEnds(k)
           \/ \E w \in Worker : StopStep(w)
    BY <1>1, ContextPromise
<1>2. ASSUME NEW t \in Task,
             \/ Publish(t)
             \/ HandlerStarts(t)
             \/ \E o \in Outcome, raises, stops \in BOOLEAN : HandlerReturns(t, o, raises, stops)
             \/ OutcomeWritten(t)
      PROVE  Promise!ANext \/ UNCHANGED Promise!avars
    BY <1>2, PublishPromise, HandlerPromise, OutcomeWrittenPromise
<1>3. CASE Feed \/ InsertDirectly \/ CancelTimer
    BY <1>3, StorePromise, CancelPromise
<1>4. ASSUME NEW w \in Worker, WorkerStep(w)
      PROVE  Promise!ANext \/ UNCHANGED Promise!avars
    BY <1>4, WorkerPromise
<1>5. CASE UNCHANGED vars
    BY <1>5 DEF vars, Promise!avars
<1> QED  BY <1>1, <1>2, <1>3, <1>4, <1>5 DEF Next

\* Every behaviour under the test broker is one of at-least-once delivery, over
\* all its contexts (testing.py:103-375, 451-461, 604-651).
THEOREM FakeKeepsPromise == Spec => FakeImplementsAtLeastOnce
<1>1. Init => Promise!AInit
  <2>1. ASSUME Init
        PROVE  Promise!AInit
    <3>1. Live(store) = {} /\ store.dlq = {}
      <4>1. MaxRows \in Nat
          BY FakeAssumption DEF FakeAssumption
      <4> QED  BY <2>1, <4>1, NewStoreFacts DEF Init
    <3> QED  BY <2>1, <3>1 DEF Init, Promise!AInit
  <2> QED  BY <2>1
<1>2. BrokerInv /\ [Next]_vars => [Promise!ANext]_(Promise!avars)
    BY PromiseStep, FakeAssumption, TestAssumption
<1> QED  BY <1>1, <1>2, TestBrokerInvariant, PTL
         DEF Spec, FakeImplementsAtLeastOnce, Promise!ASpec
=============================================================================
