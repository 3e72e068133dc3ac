-------------------------- MODULE FetchQueryProofs --------------------------
(***************************************************************************)
(* Proofs about FetchQuery: no row is claimed twice, a fetch returns the   *)
(* oldest rows it could get, and the lag sampler reports the age of the    *)
(* next row, for every table, limit and number of concurrent fetches.      *)
(***************************************************************************)
EXTENDS FetchQuery, FiniteSetTheorems, WellFoundedInduction, TLAPS

-----------------------------------------------------------------------------
(* The order of the rows, as an operator on the table alone. *)

Older(r, i, j) == r[i].due < r[j].due \/ (r[i].due = r[j].due /\ i < j)

Ahead(r, S, i) == {j \in S : Older(r, j, i)}

First(r, S, n) == {i \in S : Cardinality(Ahead(r, S, i)) < n}

Dated(r) == \A i \in Id : r[i].due \in Int

\* FirstOf is First of the table as it is.
LEMMA FirstOfIsFirst ==
    ASSUME NEW S, NEW n PROVE FirstOf(S, n) = First(row, S, n)
BY DEF FirstOf, First, Ahead, Older, Before

\* Only the deadlines count.
LEMMA FirstByDue ==
    ASSUME NEW r, NEW q, \A i \in Id : q[i].due = r[i].due, NEW S \in SUBSET Id, NEW n
    PROVE  First(q, S, n) = First(r, S, n)
<1>1. \A i, j \in S : Older(q, j, i) <=> Older(r, j, i)
  BY DEF Older
<1>2. \A i \in S : Ahead(q, S, i) = Ahead(r, S, i)
  BY <1>1 DEF Ahead
<1> QED
  BY <1>2 DEF First

\* The rows ahead of another are finitely many.
LEMMA AheadFinite ==
    ASSUME NEW r, NEW S \in SUBSET Id, NEW i
    PROVE  /\ IsFiniteSet(S) /\ IsFiniteSet(Ahead(r, S, i))
           /\ Cardinality(Ahead(r, S, i)) \in Nat
<1>1. 1 \in Int /\ MaxId \in Int
  BY FetchAssumption
<1>2. IsFiniteSet(Id)
  BY <1>1, FS_Interval DEF Id
<1>3. IsFiniteSet(S)
  BY <1>2, FS_Subset
<1>4. Ahead(r, S, i) \in SUBSET S
  BY DEF Ahead
<1> QED
  BY <1>3, <1>4, FS_Subset, FS_CardinalityType

\* Of some rows one is the oldest.
LEMMA OldestExists ==
    ASSUME NEW r, Dated(r), NEW S \in SUBSET Id, S # {}
    PROVE  \E i \in S : Ahead(r, S, i) = {}
<1> DEFINE T == {Ahead(r, S, i) : i \in S}
<1>1. T \subseteq FiniteSubsetsOf(S) /\ T # {}
  <2>1. \A i \in S : Ahead(r, S, i) \in SUBSET S /\ IsFiniteSet(Ahead(r, S, i))
    BY AheadFinite DEF Ahead
  <2> QED
    BY <2>1 DEF FiniteSubsetsOf
<1>2. PICK A \in T : \A B \in T : ~(<<B, A>> \in StrictSubsetOrdering(S))
  BY <1>1, FS_StrictSubsetOrderingWellFounded, WFMin
<1>3. PICK i \in S : A = Ahead(r, S, i)
  BY <1>2
<1>4. ASSUME NEW j \in Ahead(r, S, i) PROVE FALSE
  <2>1. j \in S /\ Older(r, j, i) /\ {i, j} \subseteq Id
    BY <1>3, <1>4 DEF Ahead
  <2>2. /\ r[i].due \in Int /\ r[j].due \in Int
        /\ i \in Int /\ j \in Int
    BY <2>1 DEF Dated, Id
  <2>3. ~Older(r, j, j)
    BY <2>2 DEF Older
  <2>4. \A k \in S : Older(r, k, j) => Older(r, k, i)
    <3> SUFFICES ASSUME NEW k \in S, Older(r, k, j) PROVE Older(r, k, i)
      OBVIOUS
    <3>1. k \in Int /\ r[k].due \in Int
      BY DEF Dated, Id
    <3> QED
      BY <2>1, <2>2, <3>1 DEF Older
  <2>5. Ahead(r, S, j) \subseteq Ahead(r, S, i) /\ j \notin Ahead(r, S, j)
    BY <2>3, <2>4 DEF Ahead
  <2>6. <<Ahead(r, S, j), A>> \in StrictSubsetOrdering(S)
    BY <1>3, <1>4, <2>5 DEF StrictSubsetOrdering, Ahead
  <2> QED
    BY <1>2, <2>1, <2>6
<1> QED
  BY <1>4

\* If every row left out of F has n rows of its own part of S ahead of it, the
\* first n of F are the first n of S.
LEMMA FirstOfParts ==
    ASSUME NEW r, Dated(r), NEW S \in SUBSET Id, NEW F \in SUBSET S, NEW n \in Nat,
           NEW P \in SUBSET SUBSET S,
           \A i \in S \ F : \E A \in P : i \in A /\ n =< Cardinality(Ahead(r, A, i))
    PROVE  First(r, F, n) = First(r, S, n)
<1>1. ASSUME NEW i, NEW A \in SUBSET S, NEW B \in SUBSET S, Ahead(r, A, i) \subseteq B
      PROVE  /\ \A j : Ahead(r, A, i) \subseteq Ahead(r, B, j)
                          => Cardinality(Ahead(r, A, i)) =< Cardinality(Ahead(r, B, j))
             /\ Cardinality(Ahead(r, A, i)) =< Cardinality(Ahead(r, B, i))
  <2>1. \A j : IsFiniteSet(Ahead(r, B, j))
    BY AheadFinite
  <2>2. Ahead(r, A, i) \subseteq Ahead(r, B, i)
    BY <1>1 DEF Ahead
  <2> QED
    BY <2>1, <2>2, FS_Subset
<1>2. \A i : \A A \in SUBSET S : Cardinality(Ahead(r, A, i)) \in Nat
  BY AheadFinite
<1>3. ASSUME NEW i \in First(r, S, n) PROVE i \in First(r, F, n)
  <2>1. i \in S /\ Cardinality(Ahead(r, S, i)) < n
    BY <1>3 DEF First
  <2>2. i \in F
    <3> SUFFICES ASSUME i \notin F PROVE FALSE
      OBVIOUS
    <3>1. PICK A \in P : n =< Cardinality(Ahead(r, A, i))
      BY <2>1
    <3>2. Cardinality(Ahead(r, A, i)) =< Cardinality(Ahead(r, S, i))
      BY <1>1 DEF Ahead
    <3> QED
      BY <1>2, <2>1, <3>1, <3>2
  <2>3. Cardinality(Ahead(r, F, i)) =< Cardinality(Ahead(r, S, i))
    BY <1>1 DEF Ahead
  <2> QED
    BY <1>2, <2>1, <2>2, <2>3 DEF First
<1>4. ASSUME NEW i \in First(r, F, n) PROVE i \in First(r, S, n)
  <2>1. i \in F /\ i \in S /\ Cardinality(Ahead(r, F, i)) < n
    BY <1>4 DEF First
  <2>2. CASE Ahead(r, S, i) \subseteq F
    BY <1>1, <1>2, <2>1, <2>2 DEF First
  <2>3. CASE ~(Ahead(r, S, i) \subseteq F)
    <3> DEFINE lost == Ahead(r, S, i) \ F
    <3>1. lost \in SUBSET Id /\ lost # {} /\ lost \subseteq S \ F
      BY <2>3 DEF Ahead
    <3>2. PICK j \in lost : Ahead(r, lost, j) = {}
      BY <3>1, OldestExists
    <3>3. PICK A \in P : n =< Cardinality(Ahead(r, A, j))
      BY <3>1
    <3>4. /\ \A k \in S : Older(r, k, j) => Older(r, k, i)
      <4> SUFFICES ASSUME NEW k \in S, Older(r, k, j) PROVE Older(r, k, i)
        OBVIOUS
      <4>1. Older(r, j, i) /\ {i, j, k} \subseteq Id
        BY <2>1, <3>1 DEF Ahead
      <4>2. /\ i \in Int /\ j \in Int /\ k \in Int
            /\ r[i].due \in Int /\ r[j].due \in Int /\ r[k].due \in Int
        BY <4>1 DEF Dated, Id
      <4> QED
        BY <4>1, <4>2 DEF Older
    <3>5. Ahead(r, A, j) \subseteq Ahead(r, F, i)
      <4> SUFFICES ASSUME NEW k \in A, Older(r, k, j), k \notin F PROVE FALSE
        BY <3>4 DEF Ahead
      <4>1. k \in lost
        BY <3>4 DEF Ahead
      <4> QED
        BY <3>2, <4>1 DEF Ahead
    <3>6. Ahead(r, A, j) \subseteq F
      BY <3>5 DEF Ahead
    <3>7. A \in SUBSET S /\ F \in SUBSET S
      OBVIOUS
    <3>8. Cardinality(Ahead(r, A, j)) =< Cardinality(Ahead(r, F, i))
      BY <1>1, <3>5, <3>6, <3>7
    <3> QED
      BY <1>2, <2>1, <3>3, <3>7, <3>8
  <2> QED
    BY <2>2, <2>3
<1> QED
  BY <1>3, <1>4
-----------------------------------------------------------------------------
(* The inductive invariant. *)

\* The rows the snapshot of f shows to the scan of b.
Visible(f, b) == {i \in Id : <<i, b>> \in fetch[f].seen}

Typed ==
    /\ row \in [Id -> [queue: Queue, due: Due, lease: Lease]]
    /\ lock \in [Id -> Fetcher \cup {NoFetcher}]
    /\ serves \subseteq Queue
    /\ fetch \in [Fetcher -> [pc: {"idle", "scan", "done", "aborted"},
                              seen: SUBSET (Id \X Branch), todo: SUBSET Branch, found: SUBSET Id]]
    /\ claimed \in [Fetcher -> SUBSET Id] /\ passed \in [Fetcher -> SUBSET Id]

\* A statement under way holds the lock of each row it found, and nobody
\* claims such a row meanwhile; one that ended holds no lock.
LocksHeld ==
    \A i \in Id : \A f \in Fetcher :
        lock[i] = f <=> fetch[f].pc = "scan" /\ i \in fetch[f].found

FoundUnclaimed ==
    \A f \in Fetcher : \A i \in fetch[f].found :
        fetch[f].pc = "scan" => row[i].lease # "live"

\* What a statement claimed it had found, and is leased.
ClaimedLive ==
    \A f \in Fetcher :
        /\ fetch[f].pc # "done" => claimed[f] = {}
        /\ claimed[f] \subseteq fetch[f].found
        /\ \A i \in claimed[f] : row[i].lease = "live"

\* The snapshot shows each row to one branch.
SnapshotSplit ==
    \A f \in Fetcher : \A i \in Id : \A b, c \in Branch :
        <<i, b>> \in fetch[f].seen /\ <<i, c>> \in fetch[f].seen => b = c

\* Of a branch it has scanned, a statement found the first rows it could get;
\* of one it has not, it neither found nor passed by any.
ScansDone ==
    \A f \in Fetcher :
        /\ fetch[f].pc = "idle" => passed[f] = {}
        /\ fetch[f].pc = "scan" =>
             /\ \A i \in fetch[f].found : \E b \in Branch : i \in Visible(f, b)
             /\ \A b \in fetch[f].todo : Visible(f, b) \cap (fetch[f].found \cup passed[f]) = {}
             /\ \A b \in Branch \ fetch[f].todo :
                   fetch[f].found \cap Visible(f, b) = First(row, Visible(f, b) \ passed[f], Limit)

\* OldestFirst, in terms of First.
ClaimsDone ==
    \A f \in Fetcher :
        fetch[f].pc = "done" => claimed[f] = First(row, Available(f), Limit)

ClaimInv ==
    /\ Typed /\ LocksHeld /\ FoundUnclaimed /\ ClaimedLive
    /\ ClaimedOnce /\ SnapshotSplit /\ ScansDone /\ ClaimsDone
-----------------------------------------------------------------------------
(* Each step preserves the invariant. *)

\* The rows have deadlines, and a statement sees rows of the table.
LEMMA FetchTypes ==
    ASSUME Typed
    PROVE  /\ Dated(row)
           /\ \A f \in Fetcher :
                /\ fetch[f] \in [pc: {"idle", "scan", "done", "aborted"},
                                 seen: SUBSET (Id \X Branch), todo: SUBSET Branch,
                                 found: SUBSET Id]
                /\ claimed[f] \subseteq Id /\ passed[f] \subseteq Id
                /\ Available(f) \in SUBSET Id
                /\ \A b : Visible(f, b) \in SUBSET Id
BY FetchAssumption DEF Typed, Dated, Available, Visible

\* The snapshot of a new statement.
LEMMA BeginStep ==
    ASSUME ClaimInv, NEW f \in Fetcher, Begin(f) PROVE ClaimInv'
<1>1. /\ Typed /\ LocksHeld /\ FoundUnclaimed /\ ClaimedLive
      /\ ClaimedOnce /\ SnapshotSplit /\ ScansDone /\ ClaimsDone
  BY DEF ClaimInv
<1> DEFINE branches == {b \in Branch : b[1] \in serves}
           snapshot == {v \in Id \X branches : InBranch(v[1], v[2])}
           new == [pc |-> "scan", todo |-> branches, found |-> {}, seen |-> snapshot]
<1>2. /\ fetch[f].pc = "idle" /\ fetch' = [fetch EXCEPT ![f] = new]
      /\ row' = row /\ serves' = serves /\ lock' = lock /\ claimed' = claimed /\ passed' = passed
  BY DEF Begin
<1>3. branches \in SUBSET Branch /\ snapshot \in SUBSET (Id \X Branch)
  OBVIOUS
<1>4. /\ new \in [pc: {"idle", "scan", "done", "aborted"},
                  seen: SUBSET (Id \X Branch), todo: SUBSET Branch, found: SUBSET Id]
      /\ new.pc = "scan" /\ new.todo = branches /\ new.found = {} /\ new.seen = snapshot
  <2> HIDE DEF snapshot, branches
  <2> QED
    BY <1>3
<1> HIDE DEF new
<1>5. /\ fetch'[f] = new /\ \A g \in Fetcher \ {f} : fetch'[g] = fetch[g]
      /\ fetch' \in [Fetcher -> [pc: {"idle", "scan", "done", "aborted"},
                                 seen: SUBSET (Id \X Branch), todo: SUBSET Branch,
                                 found: SUBSET Id]]
  BY <1>1, <1>2, <1>4 DEF Typed
<1>6. Typed'
  BY <1>1, <1>2, <1>5 DEF Typed
<1>7. LocksHeld' /\ FoundUnclaimed' /\ ClaimedLive' /\ ClaimedOnce'
  BY <1>1, <1>2, <1>4, <1>5 DEF LocksHeld, FoundUnclaimed, ClaimedLive, ClaimedOnce
<1>8. SnapshotSplit'
  <2>1. ASSUME NEW i \in Id, NEW b \in Branch, NEW c \in Branch,
               <<i, b>> \in snapshot, <<i, c>> \in snapshot
        PROVE  b = c
    <3>1. InBranch(i, b) /\ InBranch(i, c)
      BY <2>1
    <3>2. b = <<b[1], b[2]>> /\ c = <<c[1], c[2]>>
      BY DEF Branch
    <3> QED
      BY <3>1, <3>2 DEF InBranch
  <2> HIDE DEF snapshot
  <2> QED
    BY <1>1, <1>4, <1>5, <2>1 DEF SnapshotSplit
<1>9. \A g \in Fetcher \ {f} : \A b : Visible(g, b)' = Visible(g, b)
  BY <1>5 DEF Visible
<1>10. ScansDone'
  <2>1. ASSUME NEW b \in Branch \ branches PROVE Visible(f, b)' = {}
    BY <1>4, <1>5 DEF Visible
  <2>2. First(row, {}, Limit) = {}
    BY DEF First
  <2> HIDE DEF branches, snapshot
  <2>3. passed[f] = {}
    BY <1>1, <1>2 DEF ScansDone
  <2>4. /\ \A b \in branches : Visible(f, b)' \cap (new.found \cup passed'[f]) = {}
        /\ \A b \in Branch \ branches :
              new.found \cap Visible(f, b)' = First(row', Visible(f, b)' \ passed'[f], Limit)
    BY <1>2, <1>4, <2>1, <2>2, <2>3
  <2> QED
    BY <1>1, <1>2, <1>4, <1>5, <1>9, <2>4 DEF ScansDone
<1>11. ClaimsDone'
  <2>1. \A g \in Fetcher \ {f} : Available(g)' = Available(g)
    BY <1>2, <1>5 DEF Available
  <2> QED
    BY <1>1, <1>2, <1>4, <1>5, <2>1 DEF ClaimsDone
<1> QED
  BY <1>6, <1>7, <1>8, <1>10, <1>11 DEF ClaimInv

\* A scan locks the rows it found, none of which another statement holds.
LEMMA ScanStep ==
    ASSUME ClaimInv, NEW f \in Fetcher, NEW b \in Branch, Scan(f, b) PROVE ClaimInv'
<1>1. /\ Typed /\ LocksHeld /\ FoundUnclaimed /\ ClaimedLive
      /\ ClaimedOnce /\ SnapshotSplit /\ ScansDone /\ ClaimsDone
  BY DEF ClaimInv
<1> DEFINE visible == Visible(f, b)
           free == {i \in visible : lock[i] = NoFetcher /\ InBranch(i, b)}
           hits == First(row, free, Limit)
           new == [fetch[f] EXCEPT !.todo = @ \ {b}, !.found = @ \cup hits]
<1>2. /\ fetch[f].pc = "scan" /\ b \in fetch[f].todo
      /\ fetch' = [fetch EXCEPT ![f].todo = @ \ {b}, ![f].found = @ \cup hits]
      /\ lock' = [i \in Id |-> IF i \in hits THEN f ELSE lock[i]]
      /\ passed' = [passed EXCEPT ![f] = @ \cup (visible \ free)]
      /\ row' = row /\ serves' = serves /\ claimed' = claimed
  BY FirstOfIsFirst DEF Scan, Visible
<1>3. /\ visible \in SUBSET Id /\ free \subseteq visible /\ hits \subseteq free
      /\ \A i \in free : lock[i] = NoFetcher /\ InBranch(i, b)
  BY DEF Visible, First
<1> HIDE DEF visible, free, hits
<1>4. /\ new \in [pc: {"idle", "scan", "done", "aborted"},
                  seen: SUBSET (Id \X Branch), todo: SUBSET Branch, found: SUBSET Id]
      /\ new.pc = "scan" /\ new.todo = fetch[f].todo \ {b}
      /\ new.found = fetch[f].found \cup hits /\ new.seen = fetch[f].seen
  <2>1. fetch[f] \in [pc: {"idle", "scan", "done", "aborted"},
                      seen: SUBSET (Id \X Branch), todo: SUBSET Branch, found: SUBSET Id]
    BY <1>1, FetchTypes
  <2> QED
    BY <1>2, <1>3, <2>1
<1>5. fetch' = [fetch EXCEPT ![f] = new]
  BY <1>1, <1>2 DEF Typed
<1> HIDE DEF new
<1>6. /\ fetch'[f] = new /\ \A g \in Fetcher \ {f} : fetch'[g] = fetch[g]
      /\ fetch' \in [Fetcher -> [pc: {"idle", "scan", "done", "aborted"},
                                 seen: SUBSET (Id \X Branch), todo: SUBSET Branch,
                                 found: SUBSET Id]]
  BY <1>1, <1>4, <1>5 DEF Typed
<1>7. /\ passed' \in [Fetcher -> SUBSET Id] /\ passed'[f] = passed[f] \cup (visible \ free)
      /\ \A g \in Fetcher \ {f} : passed'[g] = passed[g]
  BY <1>1, <1>2, <1>3 DEF Typed
<1>8. Typed'
  <2>1. lock' \in [Id -> Fetcher \cup {NoFetcher}]
    BY <1>1, <1>2 DEF Typed
  <2> QED
    BY <1>1, <1>2, <1>6, <1>7, <2>1 DEF Typed
<1>9. LocksHeld'
  <2> SUFFICES ASSUME NEW i \in Id, NEW g \in Fetcher
               PROVE  lock'[i] = g <=> fetch'[g].pc = "scan" /\ i \in fetch'[g].found
    BY DEF LocksHeld
  <2>1. lock[i] = g <=> fetch[g].pc = "scan" /\ i \in fetch[g].found
    BY <1>1 DEF LocksHeld
  <2>2. CASE i \in hits
    <3>1. lock'[i] = f /\ lock[i] # g
      BY <1>2, <1>3, <2>2, NoFetcherAssumption
    <3> QED
      BY <1>4, <1>6, <2>1, <2>2, <3>1
  <2>3. CASE i \notin hits
    BY <1>2, <1>4, <1>6, <2>1, <2>3
  <2> QED
    BY <2>2, <2>3
<1>10. FoundUnclaimed'
  <2>1. \A i \in hits : row[i].lease # "live"
    <3>1. b[2] \in {"none", "expired"}
      BY DEF Branch
    <3> QED
      BY <1>3, <3>1 DEF InBranch
  <2> QED
    BY <1>1, <1>2, <1>4, <1>6, <2>1 DEF FoundUnclaimed
<1>11. ClaimedLive' /\ ClaimedOnce' /\ SnapshotSplit'
  BY <1>1, <1>2, <1>4, <1>6 DEF ClaimedLive, ClaimedOnce, SnapshotSplit
<1>12. \A g \in Fetcher : \A c : Visible(g, c)' = Visible(g, c)
  BY <1>4, <1>6 DEF Visible
<1>13. ScansDone'
  <2>1. \A c \in Branch \ {b} : Visible(f, c) \cap visible = {}
    BY <1>1 DEF SnapshotSplit, Visible, visible
  <2>2. visible \cap (fetch[f].found \cup passed[f]) = {}
    BY <1>1, <1>2 DEF ScansDone, visible
  <2>3. \A i \in new.found : \E c \in Branch : i \in Visible(f, c)
    BY <1>1, <1>2, <1>3, <1>4 DEF ScansDone, visible
  <2>4. \A c \in new.todo : Visible(f, c) \cap (new.found \cup passed'[f]) = {}
    <3> SUFFICES ASSUME NEW c \in new.todo
                 PROVE  Visible(f, c) \cap (new.found \cup passed'[f]) = {}
      OBVIOUS
    <3>1. c \in Branch \ {b} /\ c \in fetch[f].todo
      BY <1>1, <1>4, FetchTypes
    <3>2. Visible(f, c) \cap (fetch[f].found \cup passed[f]) = {}
      BY <1>1, <1>2, <3>1 DEF ScansDone
    <3> QED
      BY <1>3, <1>4, <1>7, <2>1, <3>1, <3>2
  <2>5. ASSUME NEW c \in Branch \ new.todo
        PROVE  new.found \cap Visible(f, c) = First(row, Visible(f, c) \ passed'[f], Limit)
    <3>1. CASE c = b
      <4>1. visible \ passed'[f] = free
        BY <1>3, <1>7, <2>2
      <4>2. new.found \cap visible = hits
        BY <1>3, <1>4, <2>2
      <4> QED
        BY <3>1, <4>1, <4>2 DEF hits, visible
    <3>2. CASE c # b
      <4>1. Visible(f, c) \ passed'[f] = Visible(f, c) \ passed[f]
        BY <1>7, <2>1, <3>2
      <4>2. new.found \cap Visible(f, c) = fetch[f].found \cap Visible(f, c)
        BY <1>3, <1>4, <2>1, <3>2
      <4>3. c \in Branch \ fetch[f].todo
        BY <1>4, <3>2
      <4> QED
        BY <1>1, <1>2, <4>1, <4>2, <4>3 DEF ScansDone
    <3> QED
      BY <3>1, <3>2
  <2> QED
    BY <1>1, <1>2, <1>4, <1>6, <1>7, <1>12, <2>3, <2>4, <2>5 DEF ScansDone
<1>14. ClaimsDone'
  <2>1. \A g \in Fetcher \ {f} : Available(g)' = Available(g)
    BY <1>6, <1>7 DEF Available
  <2> QED
    BY <1>1, <1>2, <1>4, <1>6, <2>1 DEF ClaimsDone
<1> QED
  BY <1>8, <1>9, <1>10, <1>11, <1>13, <1>14 DEF ClaimInv

\* What was found of the branches gives the first rows of all of them.
LEMMA FoundIsFirst ==
    ASSUME ClaimInv, NEW f \in Fetcher, fetch[f].pc = "scan", fetch[f].todo = {}
    PROVE  First(row, fetch[f].found, Limit) = First(row, Available(f), Limit)
<1> DEFINE P == {Visible(f, b) \ passed[f] : b \in Branch}
<1>1. Typed /\ ScansDone /\ Limit \in Nat
  BY FetchAssumption DEF ClaimInv
<1>2. \A b \in Branch :
        fetch[f].found \cap Visible(f, b) = First(row, Visible(f, b) \ passed[f], Limit)
  BY <1>1 DEF ScansDone
<1>3. \A i : i \in Available(f) <=> i \in Id /\ \E b \in Branch : i \in Visible(f, b) \ passed[f]
  BY DEF Available, Visible
<1>4. fetch[f].found \subseteq Available(f)
  <2>1. \A i \in fetch[f].found : \E b \in Branch : i \in fetch[f].found \cap Visible(f, b)
    BY <1>1 DEF ScansDone
  <2>2. \A b \in Branch : First(row, Visible(f, b) \ passed[f], Limit) \subseteq Visible(f, b) \ passed[f]
    BY DEF First
  <2>3. fetch[f].found \subseteq Id
    BY <1>1, FetchTypes
  <2> QED
    BY <1>2, <1>3, <2>1, <2>2, <2>3
<1>5. P \in SUBSET SUBSET Available(f)
  <2>1. \A b \in Branch : Visible(f, b) \subseteq Id
    BY <1>1, FetchTypes
  <2> QED
    BY <1>3, <2>1
<1>6. ASSUME NEW i \in Available(f) \ fetch[f].found
      PROVE  \E A \in P : i \in A /\ Limit =< Cardinality(Ahead(row, A, i))
  <2>1. PICK b \in Branch : i \in Visible(f, b) \ passed[f]
    BY <1>3
  <2> DEFINE A == Visible(f, b) \ passed[f]
  <2>2. i \notin First(row, A, Limit)
    BY <1>2, <1>6, <2>1
  <2>3. A \in SUBSET Id
    BY <1>1, FetchTypes
  <2>4. Cardinality(Ahead(row, A, i)) \in Nat
    BY <2>3, AheadFinite
  <2>5. Limit =< Cardinality(Ahead(row, A, i))
    BY <1>1, <2>1, <2>2, <2>4 DEF First
  <2> QED
    BY <2>1, <2>5
<1>7. Dated(row) /\ Available(f) \in SUBSET Id
  BY <1>1, FetchTypes
<1> HIDE DEF P
<1> QED
  BY <1>1, <1>4, <1>5, <1>6, <1>7, FirstOfParts

\* The rows a statement claims were leased to nobody, and are the first.
LEMMA ClaimStep ==
    ASSUME ClaimInv, NEW f \in Fetcher, Claim(f) PROVE ClaimInv'
<1>1. /\ Typed /\ LocksHeld /\ FoundUnclaimed /\ ClaimedLive
      /\ ClaimedOnce /\ SnapshotSplit /\ ScansDone /\ ClaimsDone
  BY DEF ClaimInv
<1> DEFINE ready == First(row, fetch[f].found, Limit)
           new == [fetch[f] EXCEPT !.pc = "done"]
<1>2. /\ fetch[f].pc = "scan" /\ fetch[f].todo = {}
      /\ claimed' = [claimed EXCEPT ![f] = ready]
      /\ row' = [i \in Id |-> IF i \in ready THEN [row[i] EXCEPT !.lease = "live"] ELSE row[i]]
      /\ lock' = Unlocked(f) /\ fetch' = [fetch EXCEPT ![f] = new]
      /\ serves' = serves /\ passed' = passed
  BY <1>1, FirstOfIsFirst DEF Claim, Typed
<1>3. ready \subseteq fetch[f].found /\ fetch[f].found \subseteq Id
  BY <1>1, FetchTypes DEF First
<1> HIDE DEF ready
<1>4. /\ new \in [pc: {"idle", "scan", "done", "aborted"},
                  seen: SUBSET (Id \X Branch), todo: SUBSET Branch, found: SUBSET Id]
      /\ new.pc = "done" /\ new.found = fetch[f].found /\ new.seen = fetch[f].seen
  <2>1. fetch[f] \in [pc: {"idle", "scan", "done", "aborted"},
                      seen: SUBSET (Id \X Branch), todo: SUBSET Branch, found: SUBSET Id]
    BY <1>1, FetchTypes
  <2> QED
    BY <2>1
<1> HIDE DEF new
<1>5. /\ fetch'[f] = new /\ \A g \in Fetcher \ {f} : fetch'[g] = fetch[g]
      /\ fetch' \in [Fetcher -> [pc: {"idle", "scan", "done", "aborted"},
                                 seen: SUBSET (Id \X Branch), todo: SUBSET Branch,
                                 found: SUBSET Id]]
  BY <1>1, <1>2, <1>4 DEF Typed
<1>6. /\ claimed' \in [Fetcher -> SUBSET Id] /\ claimed'[f] = ready
      /\ \A g \in Fetcher \ {f} : claimed'[g] = claimed[g]
  BY <1>1, <1>2, <1>3 DEF Typed
<1>7. /\ row' \in [Id -> [queue: Queue, due: Due, lease: Lease]]
      /\ \A i \in Id : row'[i].due = row[i].due
      /\ \A i \in ready : row'[i].lease = "live"
      /\ \A i \in Id \ ready : row'[i] = row[i]
  <2>1. ASSUME NEW i \in Id
        PROVE  /\ row'[i] \in [queue: Queue, due: Due, lease: Lease]
               /\ row'[i].due = row[i].due
               /\ i \in ready => row'[i].lease = "live"
               /\ i \notin ready => row'[i] = row[i]
    <3>1. row[i] \in [queue: Queue, due: Due, lease: Lease]
      BY <1>1 DEF Typed
    <3>2. row'[i] = IF i \in ready THEN [row[i] EXCEPT !.lease = "live"] ELSE row[i]
      BY <1>2
    <3> QED
      BY <3>1, <3>2 DEF Lease
  <2>2. row' \in [Id -> [queue: Queue, due: Due, lease: Lease]]
    BY <1>2, <2>1
  <2> QED
    BY <1>3, <2>1, <2>2
<1>8. /\ lock' \in [Id -> Fetcher \cup {NoFetcher}]
      /\ \A i \in Id : lock'[i] = IF lock[i] = f THEN NoFetcher ELSE lock[i]
  BY <1>1, <1>2 DEF Typed, Unlocked
<1>9. Typed'
  BY <1>1, <1>2, <1>5, <1>6, <1>7, <1>8 DEF Typed
<1>10. LocksHeld'
  BY <1>1, <1>2, <1>4, <1>5, <1>8, NoFetcherAssumption DEF LocksHeld
<1>11. \A g \in Fetcher \ {f} : fetch[g].pc = "scan" => ready \cap fetch[g].found = {}
  BY <1>1, <1>2, <1>3 DEF LocksHeld
<1>12. \A g \in Fetcher \ {f} : claimed[g] \cap ready = {}
  BY <1>1, <1>2, <1>3 DEF FoundUnclaimed, ClaimedLive
<1>13. FoundUnclaimed'
  <2>1. \A g \in Fetcher \ {f} : fetch[g].found \subseteq Id
    BY <1>1, FetchTypes
  <2> QED
    BY <1>1, <1>4, <1>5, <1>7, <1>11, <2>1 DEF FoundUnclaimed
<1>14. ClaimedLive'
  <2>1. \A g \in Fetcher : claimed[g] \subseteq Id
    BY <1>1, FetchTypes
  <2> QED
    BY <1>1, <1>3, <1>4, <1>5, <1>6, <1>7, <1>12, <2>1 DEF ClaimedLive
<1>15. ClaimedOnce'
  BY <1>1, <1>6, <1>12 DEF ClaimedOnce
<1>16. SnapshotSplit'
  BY <1>1, <1>4, <1>5 DEF SnapshotSplit
<1>17. \A g \in Fetcher : /\ \A b : Visible(g, b)' = Visible(g, b)
                          /\ Available(g)' = Available(g)
  <2>1. \A g \in Fetcher : fetch'[g].seen = fetch[g].seen
    BY <1>4, <1>5
  <2> QED
    BY <1>2, <2>1 DEF Visible, Available
<1>18. \A S \in SUBSET Id : First(row', S, Limit) = First(row, S, Limit)
  BY <1>7, FirstByDue
<1>19. \A g \in Fetcher : /\ \A b : Visible(g, b) \ passed[g] \in SUBSET Id
                          /\ Available(g) \in SUBSET Id
  BY <1>1, FetchTypes
<1>20. ScansDone'
  BY <1>1, <1>2, <1>4, <1>5, <1>17, <1>18, <1>19 DEF ScansDone
<1>21. ClaimsDone'
  <2>1. ready = First(row', Available(f), Limit)
    BY <1>2, <1>18, <1>19, FoundIsFirst DEF ready
  <2>2. \A g \in Fetcher \ {f} : fetch[g].pc = "done" =>
          claimed[g] = First(row', Available(g), Limit)
    BY <1>1, <1>18, <1>19 DEF ClaimsDone
  <2> QED
    BY <1>5, <1>6, <1>17, <2>1, <2>2 DEF ClaimsDone
<1> QED
  BY <1>9, <1>10, <1>13, <1>14, <1>15, <1>16, <1>20, <1>21 DEF ClaimInv

\* A statement that is rolled back gives its locks up.
LEMMA AbortStep ==
    ASSUME ClaimInv, NEW f \in Fetcher, Abort(f) PROVE ClaimInv'
<1>1. /\ Typed /\ LocksHeld /\ FoundUnclaimed /\ ClaimedLive
      /\ ClaimedOnce /\ SnapshotSplit /\ ScansDone /\ ClaimsDone
  BY DEF ClaimInv
<1> DEFINE new == [fetch[f] EXCEPT !.pc = "aborted"]
<1>2. /\ fetch[f].pc = "scan" /\ lock' = Unlocked(f) /\ fetch' = [fetch EXCEPT ![f] = new]
      /\ row' = row /\ serves' = serves /\ passed' = passed /\ claimed' = claimed
  BY <1>1 DEF Abort, Typed
<1>3. /\ new \in [pc: {"idle", "scan", "done", "aborted"},
                  seen: SUBSET (Id \X Branch), todo: SUBSET Branch, found: SUBSET Id]
      /\ new.pc = "aborted" /\ new.found = fetch[f].found /\ new.seen = fetch[f].seen
  <2>1. fetch[f] \in [pc: {"idle", "scan", "done", "aborted"},
                      seen: SUBSET (Id \X Branch), todo: SUBSET Branch, found: SUBSET Id]
    BY <1>1, FetchTypes
  <2> QED
    BY <2>1
<1> HIDE DEF new
<1>4. /\ fetch'[f] = new /\ \A g \in Fetcher \ {f} : fetch'[g] = fetch[g]
      /\ fetch' \in [Fetcher -> [pc: {"idle", "scan", "done", "aborted"},
                                 seen: SUBSET (Id \X Branch), todo: SUBSET Branch,
                                 found: SUBSET Id]]
  BY <1>1, <1>2, <1>3 DEF Typed
<1>5. /\ lock' \in [Id -> Fetcher \cup {NoFetcher}]
      /\ \A i \in Id : lock'[i] = IF lock[i] = f THEN NoFetcher ELSE lock[i]
  BY <1>1, <1>2 DEF Typed, Unlocked
<1>6. Typed'
  BY <1>1, <1>2, <1>4, <1>5 DEF Typed
<1>7. LocksHeld'
  BY <1>1, <1>2, <1>3, <1>4, <1>5, NoFetcherAssumption DEF LocksHeld
<1>8. FoundUnclaimed' /\ ClaimedLive' /\ ClaimedOnce' /\ SnapshotSplit'
  BY <1>1, <1>2, <1>3, <1>4 DEF FoundUnclaimed, ClaimedLive, ClaimedOnce, SnapshotSplit
<1>9. \A g \in Fetcher : /\ \A b : Visible(g, b)' = Visible(g, b)
                         /\ Available(g)' = Available(g)
  <2>1. \A g \in Fetcher : fetch'[g].seen = fetch[g].seen
    BY <1>3, <1>4
  <2> QED
    BY <1>2, <2>1 DEF Visible, Available
<1>10. ScansDone' /\ ClaimsDone'
  BY <1>1, <1>2, <1>3, <1>4, <1>9 DEF ScansDone, ClaimsDone
<1> QED
  BY <1>6, <1>7, <1>8, <1>10 DEF ClaimInv

\* Every step preserves the invariant.
LEMMA ClaimInvStep == ClaimInv /\ [Next]_vars => ClaimInv'
<1> SUFFICES ASSUME ClaimInv, [Next]_vars PROVE ClaimInv'
  OBVIOUS
<1>1. ASSUME NEW f \in Fetcher, Begin(f) \/ Claim(f) \/ Abort(f) PROVE ClaimInv'
  BY <1>1, BeginStep, ClaimStep, AbortStep
<1>2. ASSUME NEW f \in Fetcher, NEW b \in Branch, Scan(f, b) PROVE ClaimInv'
  BY <1>2, ScanStep
<1>3. CASE UNCHANGED vars
  <2>1. \A g \in Fetcher : /\ \A b : Visible(g, b)' = Visible(g, b)
                           /\ Available(g)' = Available(g)
    BY <1>3 DEF vars, Visible, Available
  <2>2. Typed' /\ LocksHeld' /\ FoundUnclaimed' /\ ClaimedLive' /\ ClaimedOnce' /\ SnapshotSplit'
    BY <1>3 DEF vars, ClaimInv, Typed, LocksHeld, FoundUnclaimed, ClaimedLive, ClaimedOnce,
       SnapshotSplit
  <2>3. ScansDone' /\ ClaimsDone'
    BY <1>3, <2>1 DEF vars, ClaimInv, ScansDone, ClaimsDone
  <2> QED
    BY <2>2, <2>3 DEF ClaimInv
<1> QED
  BY <1>1, <1>2, <1>3 DEF Next

\* No statement has begun.
LEMMA ClaimInvInit == Init => ClaimInv
<1> SUFFICES ASSUME Init PROVE ClaimInv
  OBVIOUS
<1>1. /\ \A f \in Fetcher : /\ fetch[f].pc = "idle" /\ fetch[f].seen = {} /\ fetch[f].found = {}
                            /\ claimed[f] = {} /\ passed[f] = {}
      /\ \A i \in Id : lock[i] = NoFetcher
  BY DEF Init, Idle
<1>2. Typed
  BY DEF Init, Idle, Typed
<1> QED
  BY <1>1, <1>2, NoFetcherAssumption DEF ClaimInv, LocksHeld, FoundUnclaimed, ClaimedLive,
     ClaimedOnce, SnapshotSplit, ScansDone, ClaimsDone

\* The invariant holds in every reachable state.
LEMMA ClaimInvAlways == Spec => []ClaimInv
BY ClaimInvInit, ClaimInvStep, PTL DEF Spec
-----------------------------------------------------------------------------
(* The lag sampler, on any table. *)

\* The earliest deadline at all, of a set that has one.
LEMMA EarliestIs ==
    ASSUME NEW dues \in SUBSET Int, NEW m \in dues, \A d \in dues : m =< d
    PROVE  Earliest(dues) = {m}
<1>1. \A e \in dues : m =< e
  OBVIOUS
<1>2. \A d \in Earliest(dues) : d \in Int /\ d =< m /\ m =< d
  BY DEF Earliest
<1>3. \A d \in Earliest(dues) : d = m
  BY <1>2
<1> QED
  BY <1>1, <1>3 DEF Earliest

\* Where the oldest claimable row is expired, expired leases older than what is
\* pending are as old as it; where it is pending, none is older.
LEMMA LagOfTable ==
    ASSUME Typed PROVE LagIsOfNextClaim
<1> SUFFICES ASSUME NEW q \in Queue
             PROVE  LET claimable == {i \in Id : \E b \in {q} \X {"none", "expired"} : InBranch(i, b)}
                    IN  SampledLag(q) = IF claimable = {} THEN 0
                                        ELSE Now - row[CHOOSE i \in FirstOf(claimable, 1) : TRUE].due
  BY DEF LagIsOfNextClaim
<1> DEFINE claimable == {i \in Id : \E b \in {q} \X {"none", "expired"} : InBranch(i, b)}
           pending == DuesIn(<<q, "none">>)
           expired == DuesIn(<<q, "expired">>)
           horizon == IF Pending(q) = {} THEN {Now} ELSE Pending(q)
           near == {d \in expired : \E h \in horizon : d =< h}
           oldest == Earliest(Pending(q) \cup Overdue(q))
<1>1. \A i \in Id : row[i].due \in Int
  BY FetchTypes DEF Dated
<1>2. /\ pending \subseteq Int /\ expired \subseteq Int
      /\ \A d \in pending \cup expired : \E i \in claimable : row[i].due = d
      /\ \A i \in claimable : row[i].due \in pending \cup expired
  <2>1. \A i \in Id : i \in claimable <=> InBranch(i, <<q, "none">>) \/ InBranch(i, <<q, "expired">>)
    OBVIOUS
  <2> HIDE DEF claimable
  <2>2. claimable \subseteq Id
    BY DEF claimable
  <2> QED
    BY <1>1, <2>1, <2>2 DEF DuesIn
<1>3. Pending(q) = Earliest(pending) /\ Overdue(q) = Earliest(near)
  BY DEF Pending, Overdue
<1>4. SampledLag(q) = IF oldest = {} THEN 0 ELSE Now - CHOOSE d \in oldest : TRUE
  BY DEF SampledLag
<1>5. CASE claimable = {}
  <2>1. pending = {} /\ expired = {}
    BY <1>2, <1>5
  <2>2. oldest = {}
    BY <1>3, <2>1 DEF Earliest
  <2> QED
    BY <1>4, <1>5, <2>2
<1>6. CASE claimable # {}
  <2>1. claimable \in SUBSET Id
    OBVIOUS
  <2> DEFINE x == CHOOSE i \in FirstOf(claimable, 1) : TRUE
             m == row[x].due
  <2>2. x \in claimable /\ \A j \in claimable : ~Older(row, j, x)
    <3>1. \A i \in claimable : /\ IsFiniteSet(Ahead(row, claimable, i))
                               /\ Cardinality(Ahead(row, claimable, i)) \in Nat
      BY <2>1, AheadFinite
    <3>2. \A i \in claimable :
            Cardinality(Ahead(row, claimable, i)) < 1 <=> Ahead(row, claimable, i) = {}
      BY <3>1, FS_EmptySet
    <3>3. \A i : i \in FirstOf(claimable, 1) <=>
                   i \in claimable /\ Ahead(row, claimable, i) = {}
      BY <3>2, FirstOfIsFirst DEF First
    <3>4. \E i \in claimable : Ahead(row, claimable, i) = {}
      BY <1>6, <2>1, FetchTypes, OldestExists
    <3>5. x \in FirstOf(claimable, 1)
      BY <3>3, <3>4
    <3>6. x \in claimable /\ Ahead(row, claimable, x) = {}
      BY <3>3, <3>5
    <3> QED
      BY <3>6 DEF Ahead
  <2>3. x \in Id /\ m \in Int /\ m =< Now
    BY <1>1, <2>1, <2>2 DEF InBranch
  <2>4. m \in pending \cup expired
    BY <1>2, <2>2
  <2> HIDE DEF claimable, x, m
  <2>5. \A j \in claimable : m =< row[j].due
    BY <1>1, <2>1, <2>2, <2>3 DEF Older, m
  <2> HIDE DEF pending, expired
  <2>6. \A d \in pending \cup expired : d \in Int /\ m =< d
    BY <1>2, <2>5
  <2>7. Pending(q) \subseteq pending /\ Overdue(q) \subseteq near /\ near \subseteq expired
    BY <1>3 DEF Earliest
  <2>8. m \in Pending(q) \cup Overdue(q)
    <3>1. CASE m \in pending
      BY <1>2, <1>3, <2>6, <3>1, EarliestIs
    <3>2. CASE m \in expired
      <4>1. horizon # {} /\ \A h \in horizon : m =< h
        BY <2>3, <2>6, <2>7
      <4>2. m \in near
        BY <3>2, <4>1
      <4>3. near \in SUBSET Int /\ \A d \in near : m =< d
        BY <1>2, <2>6, <2>7
      <4> QED
        BY <1>3, <4>2, <4>3, EarliestIs
    <3> QED
      BY <2>4, <3>1, <3>2
  <2>9. oldest = {m}
    <3>1. /\ Pending(q) \cup Overdue(q) \in SUBSET Int
          /\ \A d \in Pending(q) \cup Overdue(q) : m =< d
      BY <1>2, <2>6, <2>7
    <3> QED
      BY <2>8, <3>1, EarliestIs
  <2>10. SampledLag(q) = Now - m
    BY <1>4, <2>9
  <2> QED
    BY <1>6, <2>10 DEF claimable, x, m
<1> QED
  BY <1>5, <1>6
-----------------------------------------------------------------------------
(* The theorems. *)

\* Types, and: row locks are held by the statements under way, on the rows they
\* found.
THEOREM FetchTypeCorrect == Spec => []TypeOK
<1>1. ClaimInv => TypeOK
  <2> SUFFICES ASSUME ClaimInv, NEW f \in Fetcher
               PROVE  /\ fetch[f].pc \in {"idle", "scan", "done", "aborted"}
                      /\ fetch[f].todo \subseteq Branch
                      /\ fetch[f].seen \subseteq Id \X Branch
                      /\ fetch[f].found \subseteq Id
                      /\ fetch[f].pc = "scan" => fetch[f].found = {i \in Id : lock[i] = f}
                      /\ claimed[f] \subseteq fetch[f].found
                      /\ passed[f] \subseteq Id
    BY DEF ClaimInv, Typed, TypeOK
  <2>1. Typed /\ LocksHeld /\ ClaimedLive
    BY DEF ClaimInv
  <2>2. /\ fetch[f] \in [pc: {"idle", "scan", "done", "aborted"},
                         seen: SUBSET (Id \X Branch), todo: SUBSET Branch, found: SUBSET Id]
        /\ passed[f] \subseteq Id
    BY <2>1, FetchTypes
  <2>3. fetch[f].pc = "scan" => fetch[f].found = {i \in Id : lock[i] = f}
    BY <2>1, <2>2 DEF LocksHeld
  <2> QED
    BY <2>1, <2>2, <2>3 DEF ClaimedLive
<1> QED
  BY <1>1, ClaimInvAlways, PTL

\* No row is claimed by two statements, however their scans interleave
\* (client.py:230, FOR UPDATE SKIP LOCKED).
THEOREM NoRowClaimedTwice == Spec => []ClaimedOnce
<1>1. ClaimInv => ClaimedOnce
  BY DEF ClaimInv
<1> QED
  BY <1>1, ClaimInvAlways, PTL

\* The split of the fetch statement into branches is invisible: a fetch returns
\* the first rows by (next_attempt_at, id) of those it could get (client.py:220-241).
THEOREM OldestRowsFirst == Spec => []OldestFirst
<1>1. ClaimInv => OldestFirst
  BY FirstOfIsFirst DEF ClaimInv, ClaimsDone, OldestFirst
<1> QED
  BY <1>1, ClaimInvAlways, PTL

\* The lag that is sampled is the age of the row that would be claimed next
\* (metrics/lag.py:24-33).
THEOREM LagOfNextClaim == Spec => []LagIsOfNextClaim
<1>1. ClaimInv => LagIsOfNextClaim
  BY LagOfTable DEF ClaimInv
<1> QED
  BY <1>1, ClaimInvAlways, PTL
=============================================================================
