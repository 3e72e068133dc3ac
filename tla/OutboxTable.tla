---------------------------- MODULE OutboxTable ----------------------------
(***************************************************************************)
(* The outbox table, the statements OutboxClient runs against it and the   *)
(* in-memory copies of claimed rows that the replicas hold.                *)
(*                                                                         *)
(* PostgreSQL serialises the statements by row locks, so each one is a     *)
(* single action taking effect at its commit.  Which replica holds a copy  *)
(* never matters here: a lease is the token of the claim, so copies carry  *)
(* their token and no owner.  A crash is one Abandon (or GiveUpWrite) per  *)
(* copy the process held.                                                  *)
(*                                                                         *)
(* One queue is modelled (FetchQuery has several), payload and headers are *)
(* a version number, and first/last_attempt_at, which only a retry         *)
(* strategy reads, are left out.                                           *)
(***************************************************************************)
EXTENDS Integers, FiniteSets

CONSTANTS
    MaxRows,        \* bound: rows ever inserted
    MaxClaims,      \* bound: fetches that claim something (uuid tokens)
    MaxTime,        \* bound: ticks of the database clock
    MaxPayload,     \* bound: payload versions of one row
    FetchLimit,     \* LIMIT of one fetch
    LeaseTTL,       \* lease_ttl_seconds
    MaxDeliveries,  \* max_deliveries, when it is set
    Timer,          \* the timer_id values
    NoTimer,        \* timer_id IS NULL
    Delay,          \* activate_in and retry delays, 0 for "now"
    HasDLQ          \* is the broker configured with a dlq_table

ASSUME ConstantsAssumption ==
    /\ MaxRows \in Nat /\ MaxClaims \in Nat /\ MaxTime \in Nat
    /\ MaxPayload \in Nat \ {0}
    /\ FetchLimit \in Nat \ {0}
    /\ LeaseTTL \in Nat
    /\ MaxDeliveries \in Nat \ {0}
    /\ NoTimer \notin Timer
    /\ Delay \subseteq Nat
    /\ HasDLQ \in BOOLEAN

VARIABLES
    now,          \* the database's now()
    lastId,       \* the identity column: last id handed out
    lastToken,    \* uuid4 tokens drawn so far; a fresh one is lastToken + 1
    row,          \* [Id -> Row], a deleted row keeps its last contents
    fate,         \* [Id -> Fate], "stored" while the row is in the table
    dlq,          \* the rows of the dead-letter table
    copies,       \* in-memory copies of claimed rows, of every replica
    invocations,  \* history: handler invocations per row
    verdicts      \* history: the outcomes recorded by deliveries

vars == <<now, lastId, lastToken, row, fate, dlq, copies, invocations, verdicts>>

Id == 1..MaxRows
NoToken == 0
Fate == {"unborn", "stored", "acked", "dead", "cancelled"}
Reason == {"max_deliveries", "retry_terminal", "rejected"}
Outcome == {"none", "ack", "retry"} \cup Reason

Row == [timer: Timer \cup {NoTimer}, due: Nat, token: Nat, acquiredAt: Nat,
        deliveries: Nat, attempts: Nat, payload: Nat]
BlankRow == [timer |-> NoTimer, due |-> 0, token |-> NoToken, acquiredAt |-> 0,
             deliveries |-> 0, attempts |-> 0, payload |-> 0]

\* queued: claimed, in _inflight; running: in the handler; decided: outcome
\* recorded, write pending (buffered or under way); orphaned: the write was
\* sent but nobody waits for its reply any more.
Phase == {"queued", "running", "decided", "orphaned"}
Copy == [id: Id, token: Nat, deliveries: Nat, attempts: Nat, payload: Nat,
         phase: Phase, outcome: Outcome]
DeadLetter == [id: Id, deliveries: Nat, payload: Nat, reason: Reason]
Verdict == [id: Id, payload: Nat, outcome: Outcome]

Stored(i) == fate[i] = "stored"
Leased(i) == row[i].token # NoToken
LeaseExpired(i) == row[i].acquiredAt < now - LeaseTTL

\* The WHERE of the two branches of the fetch statement.
Claimable(i) ==
    /\ Stored(i)
    /\ row[i].due <= now
    /\ Leased(i) => LeaseExpired(i)

\* Mutant: the WHERE only asks that the row is leased, not by whom.
HoldsAnyLease(c) == Stored(c.id) /\ Leased(c.id)

\* The WHERE of every terminal or retry write: id and acquired_token.
HoldsLease(c) == Stored(c.id) /\ row[c.id].token = c.token
-----------------------------------------------------------------------------
Init ==
    /\ now = 0
    /\ lastId = 0
    /\ lastToken = 0
    /\ row = [i \in Id |-> BlankRow]
    /\ fate = [i \in Id |-> "unborn"]
    /\ dlq = {}
    /\ copies = {}
    /\ invocations = [i \in Id |-> 0]
    /\ verdicts = {}

\* The database clock advances.
Tick ==
    /\ now < MaxTime
    /\ now' = now + 1
    /\ UNCHANGED <<lastId, lastToken, row, fate, dlq, copies, invocations, verdicts>>

FreshRow(t, due) == [BlankRow EXCEPT !.timer = t, !.due = due, !.payload = 1]

\* publish without a timer_id (n = 1) and publish_batch: n rows of one
\* transaction.  A rolled-back transaction is no step.
Publish(n, d) ==
    /\ lastId + n <= MaxRows
    /\ LET new == lastId + 1 .. lastId + n
       IN  /\ row' = [i \in Id |-> IF i \in new THEN FreshRow(NoTimer, now + d) ELSE row[i]]
           /\ fate' = [i \in Id |-> IF i \in new THEN "stored" ELSE fate[i]]
    /\ lastId' = lastId + n
    /\ UNCHANGED <<now, lastToken, dlq, copies, invocations, verdicts>>

\* The row the partial unique index finds for a timer_id, as a set.
LiveTimer(t) == {i \in Id : Stored(i) /\ row[i].timer = t}

\* publish with a timer_id that no live row has.
InsertTimer(t, d) ==
    /\ LiveTimer(t) = {}
    /\ lastId < MaxRows
    /\ lastId' = lastId + 1
    /\ row' = [row EXCEPT ![lastId + 1] = FreshRow(t, now + d)]
    /\ fate' = [fate EXCEPT ![lastId + 1] = "stored"]
    /\ UNCHANGED <<now, lastToken, dlq, copies, invocations, verdicts>>

\* Mutants of the SET list: it starts the deliveries again, or accepts an earlier
\* deadline.
ExtendedForgets(r, due) ==
    IF due > r.due
    THEN [r EXCEPT !.due = due, !.payload = @ + 1, !.attempts = 0, !.deliveries = 0]
    ELSE r

ExtendedAnyway(r, due) == [r EXCEPT !.due = due, !.payload = @ + 1, !.attempts = 0]

\* The SET list of ON CONFLICT DO UPDATE: only a later deadline replaces the
\* payload and clears the retry history; deliveries_count is never touched.
Extended(r, due) ==
    IF due > r.due
    THEN [r EXCEPT !.due = due, !.payload = @ + 1, !.attempts = 0]
    ELSE r

\* Mutant: a leased row is extended too.
ExtendEvenLeased(t, d) ==
    \E i \in LiveTimer(t) :
        /\ row[i].payload < MaxPayload
        /\ row' = [row EXCEPT ![i] = Extended(row[i], now + d)]
        /\ UNCHANGED <<now, lastId, lastToken, fate, dlq, copies, invocations, verdicts>>

\* timer_conflict="extend" on a live timer nobody has leased.  On a leased
\* row, and with timer_conflict="ignore", a conflict changes nothing.
ExtendTimer(t, d) ==
    \E i \in LiveTimer(t) :
        /\ ~Leased(i)
        /\ row[i].payload < MaxPayload
        /\ row' = [row EXCEPT ![i] = Extended(row[i], now + d)]
        /\ UNCHANGED <<now, lastId, lastToken, fate, dlq, copies, invocations, verdicts>>

\* cancel_timer deletes the row only while it is not leased.
CancelTimer(t) ==
    \E i \in LiveTimer(t) :
        /\ ~Leased(i)
        /\ fate' = [fate EXCEPT ![i] = "cancelled"]
        /\ UNCHANGED <<now, lastId, lastToken, row, dlq, copies, invocations, verdicts>>
-----------------------------------------------------------------------------
\* The UPDATE of the fetch statement: one fresh token for all the rows of S.
\* Rows locked by concurrent statements are skipped, so S is any set of
\* claimable rows within the limit (FetchQuery has the order).
ClaimRows(S) ==
    /\ S # {}
    /\ \A i \in S : Claimable(i)
    /\ Cardinality(S) <= FetchLimit
    /\ lastToken < MaxClaims
    /\ lastToken' = lastToken + 1
    /\ row' = [i \in Id |->
                 IF i \in S
                 THEN [row[i] EXCEPT !.token = lastToken + 1, !.acquiredAt = now,
                                     !.deliveries = @ + 1]
                 ELSE row[i]]

\* The in-memory message _row_to_message builds from the RETURNING row.
CopyOf(i) ==
    [id |-> i, token |-> lastToken + 1, deliveries |-> row[i].deliveries + 1,
     attempts |-> row[i].attempts, payload |-> row[i].payload,
     phase |-> "queued", outcome |-> "none"]

Fetch(S) ==
    /\ ClaimRows(S)
    /\ copies' = copies \cup {CopyOf(i) : i \in S}
    /\ UNCHANGED <<now, lastId, fate, dlq, invocations, verdicts>>

\* The claim commits but its reply never arrives: the client timed out
\* (query_timeout), the socket dropped, or the process died.
FetchReplyLost(S) ==
    /\ ClaimRows(S)
    /\ UNCHANGED <<now, lastId, fate, dlq, copies, invocations, verdicts>>

AllowDelivery(c) == c.deliveries <= MaxDeliveries

VerdictOn(c, o) == [id |-> c.id, payload |-> c.payload, outcome |-> o]

Become(c, d) == copies' = (copies \ {c}) \cup {d}

\* dispatch_one runs the handler.
StartHandler(c) ==
    /\ c.phase = "queued"
    /\ AllowDelivery(c)
    /\ Become(c, [c EXCEPT !.phase = "running"])
    /\ invocations' = [invocations EXCEPT ![c.id] = @ + 1]
    /\ UNCHANGED <<now, lastId, lastToken, row, fate, dlq, verdicts>>

\* allow_delivery refuses: terminal without running the handler, and
\* without counting an attempt.
RefuseDelivery(c) ==
    /\ c.phase = "queued"
    /\ ~AllowDelivery(c)
    /\ Become(c, [c EXCEPT !.phase = "decided", !.outcome = "max_deliveries"])
    /\ verdicts' = verdicts \cup {VerdictOn(c, "max_deliveries")}
    /\ UNCHANGED <<now, lastId, lastToken, row, fate, dlq, invocations>>

\* ack, nack (retry or exhausted) or reject records the outcome, and
\* _record_attempt counts the attempt on the in-memory copy.
RecordOutcome(c, o) ==
    /\ c.phase = "running"
    /\ Become(c, [c EXCEPT !.phase = "decided", !.outcome = o, !.attempts = @ + 1])
    /\ verdicts' = verdicts \cup {VerdictOn(c, o)}
    /\ UNCHANGED <<now, lastId, lastToken, row, fate, dlq, invocations>>

\* A copy dropped without any write reaching the server: shutdown race, an
\* error that escaped the pipeline, cancellation, a connection error, a crash.
Abandon(c) ==
    /\ copies' = copies \ {c}
    /\ UNCHANGED <<now, lastId, lastToken, row, fate, dlq, invocations, verdicts>>

\* The client stops waiting (query_timeout, cancellation, crash) for a write
\* that the server may still execute.
GiveUpWrite(c) ==
    /\ c.phase = "decided"
    /\ Become(c, [c EXCEPT !.phase = "orphaned"])
    /\ UNCHANGED <<now, lastId, lastToken, row, fate, dlq, invocations, verdicts>>
-----------------------------------------------------------------------------
\* A statement is executed for a copy that is decided (its replica waits) or
\* orphaned (nobody does).
WriteSent(c) == c.phase \in {"decided", "orphaned"}

\* Mutant: a manual reject is deleted without a dead letter.
DeadLetteredUnlessRejected(c) == HasDLQ /\ c.outcome \in Reason \ {"rejected"}

DeadLettered(c) == HasDLQ /\ c.outcome \in Reason

FateOf(c) == IF c.outcome = "ack" THEN "acked" ELSE "dead"

\* Mutant: the archive INSERT does not depend on what the DELETE returned.
DeleteAndArchiveApart(c) ==
    /\ WriteSent(c)
    /\ c.outcome \in Reason \cup {"ack"}
    /\ copies' = copies \ {c}
    /\ fate' = IF HoldsLease(c) THEN [fate EXCEPT ![c.id] = FateOf(c)] ELSE fate
    /\ dlq' = IF DeadLettered(c)
              THEN dlq \cup {[id |-> c.id, deliveries |-> c.deliveries,
                              payload |-> c.payload, reason |-> c.outcome]}
              ELSE dlq
    /\ UNCHANGED <<now, lastId, lastToken, row, invocations, verdicts>>

\* delete_with_lease: a lease-guarded DELETE, in one statement with the INSERT
\* of what it deleted into the DLQ when there is one and the delivery failed.
DeleteWithLease(c) ==
    /\ WriteSent(c)
    /\ c.outcome \in Reason \cup {"ack"}
    /\ copies' = copies \ {c}
    /\ fate' = IF HoldsLease(c) THEN [fate EXCEPT ![c.id] = FateOf(c)] ELSE fate
    /\ dlq' = IF HoldsLease(c) /\ DeadLettered(c)
              THEN dlq \cup {[id |-> c.id, deliveries |-> row[c.id].deliveries,
                              payload |-> row[c.id].payload, reason |-> c.outcome]}
              ELSE dlq
    /\ UNCHANGED <<now, lastId, lastToken, row, invocations, verdicts>>

\* Mutant: id IN (...) AND acquired_token IN (...) instead of pairs.
DeleteBatchByColumns(S) ==
    LET hit == {c \in S : Stored(c.id) /\ \E d \in S : row[c.id].token = d.token}
    IN  /\ S # {}
        /\ \A c \in S : WriteSent(c) /\ c.outcome \in Reason \cup {"ack"} /\ ~DeadLettered(c)
        /\ copies' = copies \ S
        /\ fate' = [i \in Id |->
                      IF \E c \in hit : c.id = i THEN FateOf(CHOOSE c \in hit : c.id = i)
                      ELSE fate[i]]
        /\ UNCHANGED <<now, lastId, lastToken, row, dlq, invocations, verdicts>>

\* delete_batch_with_lease: the buffered plain deletes of one worker in one
\* statement; pairs that lost their lease match nothing.
DeleteBatchWithLease(S) ==
    /\ S # {}
    /\ \A c \in S : WriteSent(c) /\ c.outcome \in Reason \cup {"ack"} /\ ~DeadLettered(c)
    /\ copies' = copies \ S
    /\ fate' = [i \in Id |->
                  IF \E c \in S : c.id = i /\ HoldsLease(c)
                  THEN FateOf(CHOOSE c \in S : c.id = i /\ HoldsLease(c))
                  ELSE fate[i]]
    /\ UNCHANGED <<now, lastId, lastToken, row, dlq, invocations, verdicts>>

\* mark_pending_with_lease: release the lease, reschedule, and store the
\* attempt count of the in-memory copy.
MarkPendingWithLease(c, d) ==
    /\ WriteSent(c)
    /\ c.outcome = "retry"
    /\ copies' = copies \ {c}
    /\ row' = IF HoldsLease(c)
              THEN [row EXCEPT ![c.id].due = now + d, ![c.id].attempts = c.attempts,
                               ![c.id].token = NoToken, ![c.id].acquiredAt = 0]
              ELSE row
    /\ UNCHANGED <<now, lastId, lastToken, fate, dlq, invocations, verdicts>>
-----------------------------------------------------------------------------
Publishing ==
    \E d \in Delay :
        \/ \E n \in 1..MaxRows : Publish(n, d)
        \/ \E t \in Timer : InsertTimer(t, d) \/ ExtendTimer(t, d)

Cancelling == \E t \in Timer : CancelTimer(t)

Claiming == \E S \in SUBSET Id : Fetch(S) \/ FetchReplyLost(S)

Delivering ==
    \E c \in copies :
        \/ StartHandler(c)
        \/ RefuseDelivery(c)
        \/ \E o \in {"ack", "retry", "retry_terminal", "rejected"} : RecordOutcome(c, o)
        \/ Abandon(c)
        \/ GiveUpWrite(c)

Writing ==
    \/ \E c \in copies : DeleteWithLease(c) \/ \E d \in Delay : MarkPendingWithLease(c, d)
    \/ \E S \in SUBSET copies : DeleteBatchWithLease(S)

Next == Tick \/ Publishing \/ Cancelling \/ Claiming \/ Delivering \/ Writing

Spec == Init /\ [][Next]_vars
-----------------------------------------------------------------------------
\* Types, and the bounds of the counters.
TypeOK ==
    /\ now \in 0..MaxTime
    /\ lastId \in 0..MaxRows
    /\ lastToken \in 0..MaxClaims
    /\ row \in [Id -> Row]
    /\ fate \in [Id -> Fate]
    /\ dlq \subseteq DeadLetter
    /\ copies \subseteq Copy
    /\ invocations \in [Id -> Nat]
    /\ verdicts \subseteq Verdict

\* Mutual exclusion of leases: of all the copies of a row in memory anywhere,
\* sent writes included, at most one can still write it (client.py:583, 610,
\* 653), however claims, expiries, lost replies and retries interleave.
SingleHolder ==
    \A c, d \in copies : c.id = d.id /\ HoldsLease(c) /\ HoldsLease(d) => c = d

\* Attempts recorded on the copy since the claim.
CountedAttempts(c) == IF WriteSent(c) /\ c.outcome # "max_deliveries" THEN 1 ELSE 0

\* The copy that can still write a row is not stale: what its handler sees,
\* and the attempt count a retry writes back (client.py:649), is what the table
\* holds.  An extend or another claim since would have taken the lease away.
HolderIsCurrent ==
    \A c \in copies : HoldsLease(c) =>
        /\ c.payload = row[c.id].payload
        /\ c.deliveries = row[c.id].deliveries
        /\ c.attempts - row[c.id].attempts = CountedAttempts(c)

\* What makes leases exclusive: tokens are never handed out twice, a claim
\* yields one copy of each of its rows, and copies are of rows that exist.
ClaimsDistinct ==
    /\ \A i \in Id : row[i].token <= lastToken
    /\ \A c \in copies : c.token \in 1..lastToken /\ c.id \in 1..lastId
    /\ \A c, d \in copies : c.id = d.id /\ c.token = d.token => c = d

\* The identity column hands out ids in order.
IdsInOrder == \A i \in Id : fate[i] = "unborn" <=> i > lastId

LeaseInv == TypeOK /\ IdsInOrder /\ ClaimsDistinct /\ HolderIsCurrent

\* A handler runs at most max_deliveries times for a row, across retries, lease
\* expiries, lost replies, crashes and extends: every run is a counted delivery
\* (client.py:248), and attempts_count never claims more attempts than the
\* handler was run (message.py:207-217).
InvocationsBounded ==
    \A i \in Id :
        /\ invocations[i] <= MaxDeliveries
        /\ row[i].attempts <= invocations[i] /\ invocations[i] <= row[i].deliveries

\* Some delivery of the payload the row holds recorded this outcome.
Recorded(i, o) == [id |-> i, payload |-> row[i].payload, outcome |-> o] \in verdicts

\* No silent loss: a row that left the table was cancelled while unleased, or a
\* delivery of the payload it held then recorded the success or the failure
\* it was removed for, and a failure is in the DLQ when there is one.
NothingLost ==
    \A i \in 1..lastId :
        /\ fate[i] # "unborn"
        /\ fate[i] = "acked" => Recorded(i, "ack")
        /\ fate[i] = "dead" =>
              /\ \E r \in Reason : Recorded(i, r)
              /\ HasDLQ => \E e \in dlq : e.id = i

\* The DELETE and the archive INSERT are one statement (client.py:254-266): a
\* dead letter is the only one of its row, is of a row that is gone for that
\* reason, and records it as it was deleted.
DeadLettersFaithful ==
    \A e \in dlq :
        /\ fate[e.id] = "dead"
        /\ e.payload = row[e.id].payload /\ e.deliveries = row[e.id].deliveries
        /\ Recorded(e.id, e.reason)
        /\ (e.reason = "max_deliveries") <=> (e.deliveries > MaxDeliveries)
        /\ \A f \in dlq : f.id = e.id => f = e

\* Only the latest delivery of a row may settle or reschedule it: a slow
\* handler whose row was claimed again writes nothing.
OnlyLatestClaimWrites ==
    [][\A i \in Id :
          \/ Stored(i) /\ fate'[i] \in {"acked", "dead"}
          \/ Leased(i) /\ row'[i].token = NoToken
          => \E c \in copies \ copies' : c.id = i /\ c.deliveries = row[i].deliveries]_vars

\* A deadline only moves later: extends out of order never pull a timer in
\* (client.py:291), and a retry never schedules before the deadline it was
\* claimed for.
DeadlineOnlyMovesLater ==
    [][\A i \in 1..lastId : row'[i].due >= row[i].due]_vars

\* docs/usage/timers.md of an extend that returned an id: "the timer will not
\* fire before the deadline you asked for".  While a row waits unleased for the
\* deadline of an extend (a retry would have counted an attempt since) no
\* handler is started for it.  Not so: README, 7.
ExtendedTimerWaits ==
    [][\A i \in Id :
          /\ Stored(i) /\ ~Leased(i) /\ now < row[i].due
          /\ row[i].payload > 1 /\ row[i].attempts = 0
          => invocations'[i] = invocations[i]]_vars
=============================================================================
