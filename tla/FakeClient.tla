----------------------------- MODULE FakeClient -----------------------------
(***************************************************************************)
(* FakeOutboxClient, the store of the test broker: rows in memory instead  *)
(* of a table.  A store is a record of its fields, and each method is an   *)
(* operator from a store to the store it leaves, so that a step of the     *)
(* test broker can be several of them between two awaits (none of the      *)
(* methods awaits).  Bodies, headers and the attempts counter are data     *)
(* that nothing here looks at.                                             *)
(***************************************************************************)
EXTENDS Integers, Sequences, SequencesExt, FiniteSets

CONSTANTS
    MaxRows,        \* bound on the rows ever stored
    MaxClaims,      \* bound on the tokens drawn
    MaxTime,        \* bound on the clock
    LeaseTtl,       \* lease_ttl_seconds, in ticks
    Delay,          \* delays of publishes and retries, in ticks
    Queue, Served,  \* the queues, and those that have a subscriber
    Timer, NoTimer, \* values of timer_id, and None
    HasDLQ          \* dlq_enabled

ASSUME FakeAssumption ==
    /\ MaxRows \in Nat /\ MaxClaims \in Nat /\ MaxTime \in Nat /\ LeaseTtl \in Nat
    /\ Delay \subseteq Nat /\ Served \subseteq Queue /\ NoTimer \notin Timer
    /\ HasDLQ \in BOOLEAN

\* Ids and tokens count from 1; token 0 is None.
Id == 1 .. MaxRows
Token == 0 .. MaxClaims
Row == [queue: Queue, timer: Timer \cup {NoTimer}, next: Nat, at: 0 .. MaxTime,
        token: Token, deliveries: Nat]

\* A store.  dispatchable are the rows stored since it was last taken.
StoreOK(s) ==
    \E S \in SUBSET Id : s \in [rows: [S -> Row], nextId: 1 .. MaxRows + 1,
                              dispatchable: Seq(Id), dlq: SUBSET Id]
NewStore(nextId) ==
    [rows |-> [i \in {} |-> 0], nextId |-> nextId, dispatchable |-> << >>, dlq |-> {}]

Live(s) == DOMAIN s.rows
Without(rows, S) == [i \in DOMAIN rows \ S |-> rows[i]]
LiveTimers(s, q, timer) ==
    {i \in Live(s) : timer # NoTimer /\ s.rows[i].queue = q /\ s.rows[i].timer = timer}
-----------------------------------------------------------------------------
\* _append, of n rows alike, and _store, which leaves a timer that exists alone.
Fresh(s, n) == s.nextId .. s.nextId + n - 1
Appended(s, q, timer, next, n) ==
    LET row == [queue |-> q, timer |-> timer, next |-> next, at |-> 0,
                token |-> 0, deliveries |-> 0]
    IN  [s EXCEPT !.rows = [i \in Live(s) \cup Fresh(s, n) |->
                                IF i \in Live(s) THEN s.rows[i] ELSE row],
                  !.nextId = @ + n]
Fed(s, q, timer, next) ==
    IF LiveTimers(s, q, timer) # {} THEN s ELSE Appended(s, q, timer, next, 1)

\* _extend: never a leased row, and only to a later deadline.
ExtendedRow(s, i, next) ==
    IF s.rows[i].token = 0 /\ next > s.rows[i].next
    THEN [s EXCEPT !.rows[i].next = next] ELSE s

\* insert_batch of n rows, all of them to be dispatched.
InsertedBatch(s, q, timer, next, n) ==
    [Appended(s, q, timer, next, n) EXCEPT
        !.dispatchable = @ \o [k \in 1 .. n |-> s.nextId + k - 1]]

\* insert: only a row it stored is to be dispatched.
Inserted(s, q, timer, next, conflict) ==
    IF LiveTimers(s, q, timer) = {}
    THEN InsertedBatch(s, q, timer, next, 1)
    ELSE IF conflict = "extend"
         THEN ExtendedRow(s, CHOOSE i \in LiveTimers(s, q, timer) : TRUE, next) ELSE s

\* Mutant: the rows are returned and not forgotten.
TakenKept(s) == s
\* _take_dispatchable.
Taken(s) == [s EXCEPT !.dispatchable = << >>]

\* _claim_fake_row, of sync dispatch and of fetch alike, on the rows of S.
Claimed(s, S, token, now) ==
    [s EXCEPT !.rows = [i \in Live(s) |->
        IF i \in S THEN [s.rows[i] EXCEPT !.token = token, !.at = now, !.deliveries = @ + 1]
                   ELSE s.rows[i]]]

\* fetch: what is due and not leased, or whose lease is over, oldest first.
Eligible(s, now) ==
    {i \in Live(s) : LET r == s.rows[i] IN
        /\ r.queue \in Served /\ r.next =< now
        /\ r.token = 0 \/ r.at < now - LeaseTtl}
Older(s, i, j) ==
    \/ s.rows[i].next < s.rows[j].next
    \/ s.rows[i].next = s.rows[j].next /\ i < j
IsFetched(s, now, limit, ids) ==
    /\ \A m, n \in DOMAIN ids : m < n => Older(s, ids[m], ids[n])
    /\ \A i \in Eligible(s, now) \ Range(ids) :
          Len(ids) = limit /\ \A n \in DOMAIN ids : Older(s, ids[n], i)

\* _lease_token_matches.
TokenMatches(s, i, token) == i \in Live(s) /\ token # 0 /\ s.rows[i].token = token

\* Mutant: the audit copy is made before the token is compared.
DeletedArchivingFirst(s, i, token, dead) ==
    LET t == IF dead /\ HasDLQ THEN [s EXCEPT !.dlq = @ \cup {i}] ELSE s
    IN  IF TokenMatches(s, i, token) THEN [t EXCEPT !.rows = Without(@, {i})] ELSE t

\* delete_with_lease, with the audit copy of a row given up on.
Deleted(s, i, token, dead) ==
    IF TokenMatches(s, i, token)
    THEN [s EXCEPT !.rows = Without(@, {i}), !.dlq = IF dead /\ HasDLQ THEN @ \cup {i} ELSE @]
    ELSE s

\* mark_pending_with_lease.
MarkedPending(s, i, token, next) ==
    IF TokenMatches(s, i, token) THEN [s EXCEPT !.rows[i].next = next, !.rows[i].token = 0] ELSE s

\* cancel_timer: the first row of the timer, unless it is leased.
Cancellable(s, q, timer) == {i \in LiveTimers(s, q, timer) : s.rows[i].token = 0}
Cancelled(s, i) == [s EXCEPT !.rows = Without(@, {i})]
=============================================================================
