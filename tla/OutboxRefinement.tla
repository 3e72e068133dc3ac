------------------------- MODULE OutboxRefinement -------------------------
(***************************************************************************)
(* The outbox table with its lease protocol implements AtLeastOnce.        *)
(***************************************************************************)
EXTENDS OutboxTable

\* The rows some delivery of which recorded a success.
AckRecorded == {i \in Id : \E v \in verdicts : v.id = i /\ v.outcome = "ack"}

\* The rows with a dead letter.
Archived == {i \in Id : \E e \in dlq : e.id = i}

Promise == INSTANCE AtLeastOnce WITH
    MaxRuns <- MaxDeliveries, Archive <- HasDLQ,
    status <- fate, runs <- invocations,
    succeeded <- AckRecorded, letters <- Archived

\* Every behaviour of the table, lost replies, crashes and stale writes
\* included, is one of at-least-once delivery: a row leaves only acknowledged
\* after a success, given up on (archived in the same step) or cancelled, and
\* max_deliveries bounds its handler invocations (client.py:523-664).
ImplementsAtLeastOnce == Promise!ASpec
=============================================================================
