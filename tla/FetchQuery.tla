----------------------------- MODULE FetchQuery -----------------------------
(***************************************************************************)
(* The fetch statement while other replicas run it too: per queue one scan *)
(* of the unleased and one of the expired rows, each ordered, limited and  *)
(* FOR UPDATE SKIP LOCKED; the union is ordered and limited again and      *)
(* updated.  A scan takes row locks one branch at a time, so two           *)
(* statements interleave between branches.                                 *)
(*                                                                         *)
(* PostgreSQL (READ COMMITTED) shows a statement the rows as of its start; *)
(* before it locks one it looks at the newest version and rechecks the     *)
(* WHERE.  Deadlines stay fixed here; OutboxTable has what changes them.   *)
(***************************************************************************)
EXTENDS Integers, FiniteSets

CONSTANTS
    MaxId,    \* bound: rows of the table
    Queue,    \* queue names
    Due,      \* the next_attempt_at values, eligible up to Now
    Now,      \* now() of every statement
    Fetcher,  \* concurrent fetch statements, of several replicas
    Limit     \* free slots each asks for

ASSUME FetchAssumption ==
    MaxId \in Nat /\ Due \subseteq Int /\ Now \in Int /\ Limit \in Nat \ {0}

VARIABLES
    row,      \* [Id -> [queue, due, lease]], lease "none", "expired" or "live"
    serves,   \* the queues all the fetchers are asked for
    lock,     \* [Id -> Fetcher or NoFetcher], who holds the row lock
    fetch,    \* [Fetcher -> [pc, seen, todo, found]]
    claimed,  \* [Fetcher -> SUBSET Id], what its UPDATE returned
    passed    \* history: the rows a fetch met locked or changed

vars == <<row, serves, lock, fetch, claimed, passed>>

Id == 1..MaxId
NoFetcher == "none"
ASSUME NoFetcherAssumption == NoFetcher \notin Fetcher

Lease == {"none", "expired", "live"}
Branch == Queue \X {"none", "expired"}

\* ORDER BY next_attempt_at, id
Before(i, j) == row[i].due < row[j].due \/ (row[i].due = row[j].due /\ i < j)

\* The first n rows of S in that order.
FirstOf(S, n) == {i \in S : Cardinality({j \in S : Before(j, i)}) < n}

\* The WHERE of one branch.
InBranch(i, b) ==
    /\ row[i].queue = b[1]
    /\ row[i].due <= Now
    /\ row[i].lease = b[2]

Idle == [pc |-> "idle", seen |-> {}, todo |-> {}, found |-> {}]

Init ==
    /\ row \in [Id -> [queue: Queue, due: Due, lease: Lease]]
    /\ serves \in (SUBSET Queue) \ {{}}
    /\ lock = [i \in Id |-> NoFetcher]
    /\ fetch = [f \in Fetcher |-> Idle]
    /\ claimed = [f \in Fetcher |-> {}]
    /\ passed = [f \in Fetcher |-> {}]

\* The statement starts: its snapshot, and the branches it has to scan.
Begin(f) ==
    /\ fetch[f].pc = "idle"
    /\ LET branches == {b \in Branch : b[1] \in serves}
       IN  fetch' = [fetch EXCEPT ![f] =
              [pc |-> "scan", todo |-> branches, found |-> {},
               seen |-> {v \in Id \X branches : InBranch(v[1], v[2])}]]
    /\ UNCHANGED <<row, serves, lock, claimed, passed>>

\* Mutant: without SKIP LOCKED and the recheck that comes with the lock.
ScanUnlocked(f, b) ==
    /\ fetch[f].pc = "scan" /\ b \in fetch[f].todo
    /\ LET hits == FirstOf({i \in Id : <<i, b>> \in fetch[f].seen}, Limit)
       IN  fetch' = [fetch EXCEPT ![f].todo = @ \ {b}, ![f].found = @ \cup hits]
    /\ UNCHANGED <<row, serves, lock, claimed, passed>>

\* Mutant: each branch ordered by id before its LIMIT.
ScanInIdOrder(f, b) ==
    /\ fetch[f].pc = "scan" /\ b \in fetch[f].todo
    /\ LET visible == {i \in Id : <<i, b>> \in fetch[f].seen}
           free == {i \in visible : lock[i] = NoFetcher /\ InBranch(i, b)}
           hits == {i \in free : Cardinality({j \in free : j < i}) < Limit}
       IN  /\ fetch' = [fetch EXCEPT ![f].todo = @ \ {b}, ![f].found = @ \cup hits]
           /\ lock' = [i \in Id |-> IF i \in hits THEN f ELSE lock[i]]
           /\ passed' = [passed EXCEPT ![f] = @ \cup (visible \ free)]
    /\ UNCHANGED <<row, serves, claimed>>

\* One ordered LIMIT n FOR UPDATE SKIP LOCKED scan.
Scan(f, b) ==
    /\ fetch[f].pc = "scan" /\ b \in fetch[f].todo
    /\ LET visible == {i \in Id : <<i, b>> \in fetch[f].seen}
           free == {i \in visible : lock[i] = NoFetcher /\ InBranch(i, b)}
           hits == FirstOf(free, Limit)
       IN  /\ fetch' = [fetch EXCEPT ![f].todo = @ \ {b}, ![f].found = @ \cup hits]
           /\ lock' = [i \in Id |-> IF i \in hits THEN f ELSE lock[i]]
           /\ passed' = [passed EXCEPT ![f] = @ \cup (visible \ free)]
    /\ UNCHANGED <<row, serves, claimed>>

Unlocked(f) == [i \in Id |-> IF lock[i] = f THEN NoFetcher ELSE lock[i]]

\* The UPDATE of the first n of all the branches, and its commit.
Claim(f) ==
    /\ fetch[f].pc = "scan" /\ fetch[f].todo = {}
    /\ LET ready == FirstOf(fetch[f].found, Limit)
       IN  /\ claimed' = [claimed EXCEPT ![f] = ready]
           /\ row' = [i \in Id |-> IF i \in ready THEN [row[i] EXCEPT !.lease = "live"] ELSE row[i]]
    /\ lock' = Unlocked(f)
    /\ fetch' = [fetch EXCEPT ![f].pc = "done"]
    /\ UNCHANGED <<serves, passed>>

\* The connection is lost first: the server rolls back.
Abort(f) ==
    /\ fetch[f].pc = "scan"
    /\ lock' = Unlocked(f)
    /\ fetch' = [fetch EXCEPT ![f].pc = "aborted"]
    /\ UNCHANGED <<row, serves, claimed, passed>>

-----------------------------------------------------------------------------
\* The statement of the lag sampler.  A query that returns at most one deadline
\* is a set of at most one.
Earliest(dues) == {d \in dues : \A e \in dues : d =< e}

DuesIn(b) == {row[i].due : i \in {j \in Id : InBranch(j, b)}}

Pending(q) == Earliest(DuesIn(<<q, "none">>))

\* Mutant: without coalesce(pending, now()).
OverdueBeforePending(q) ==
    Earliest({d \in DuesIn(<<q, "expired">>) : \E p \in Pending(q) : d =< p})

\* Expired leases count as far as they are older than what is pending.
Overdue(q) ==
    LET horizon == IF Pending(q) = {} THEN {Now} ELSE Pending(q)
    IN  Earliest({d \in DuesIn(<<q, "expired">>) : \E h \in horizon : d =< h})

\* The age it reports: least() passes NULL by, and none at all is 0.
SampledLag(q) ==
    LET oldest == Earliest(Pending(q) \cup Overdue(q))
    IN  IF oldest = {} THEN 0 ELSE Now - CHOOSE d \in oldest : TRUE

Next ==
    \E f \in Fetcher :
        Begin(f) \/ (\E b \in Branch : Scan(f, b)) \/ Claim(f) \/ Abort(f)

Spec == Init /\ [][Next]_vars
-----------------------------------------------------------------------------
\* Types; row locks are held by statements under way, on the rows they found.
TypeOK ==
    /\ row \in [Id -> [queue: Queue, due: Due, lease: Lease]]
    /\ serves \subseteq Queue
    /\ \A f \in Fetcher :
         /\ fetch[f].pc \in {"idle", "scan", "done", "aborted"}
         /\ fetch[f].todo \subseteq Branch
         /\ fetch[f].seen \subseteq Id \X Branch
         /\ fetch[f].found \subseteq Id
         /\ fetch[f].pc = "scan" => fetch[f].found = {i \in Id : lock[i] = f}
         /\ claimed[f] \subseteq fetch[f].found
         /\ passed[f] \subseteq Id

\* A row is claimed by one of the statements that run at a time, however their
\* scans interleave (client.py:230, FOR UPDATE SKIP LOCKED).
ClaimedOnce ==
    \A f, g \in Fetcher : f # g => claimed[f] \cap claimed[g] = {}

\* The rows a finished fetch could have claimed: claimable in a served queue
\* when it started and neither locked nor changed by another when it came by.
Available(f) == {i \in Id : \E b \in Branch : <<i, b>> \in fetch[f].seen} \ passed[f]

\* The split into branches is invisible: over all queues, unleased and expired
\* rows alike, a fetch returns the first rows by (next_attempt_at, id) of those
\* it could get, and as many as it may.  No older row of any queue is
\* overtaken, and a fetch that runs alone returns what one ordered query would.
OldestFirst ==
    \A f \in Fetcher : fetch[f].pc = "done" => claimed[f] = FirstOf(Available(f), Limit)

\* The lag that is sampled is the age of the row a fetch of that queue alone
\* would claim first, and 0 when it would claim none, though the sampler looks
\* at expired leases only up to the first pending row (metrics/lag.py:31-34).
LagIsOfNextClaim ==
    \A q \in Queue :
        LET claimable == {i \in Id : \E b \in {q} \X {"none", "expired"} : InBranch(i, b)}
        IN  SampledLag(q) = IF claimable = {} THEN 0
                            ELSE Now - row[CHOOSE i \in FirstOf(claimable, 1) : TRUE].due
=============================================================================
