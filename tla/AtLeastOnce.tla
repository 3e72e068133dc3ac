---------------------------- MODULE AtLeastOnce ----------------------------
(***************************************************************************)
(* What the outbox promises a publisher, without leases, clocks or         *)
(* statements: an accepted message is delivered, maybe several times but   *)
(* never beyond a limit, and leaves the outbox only because a delivery     *)
(* succeeded, because it was given up on (with a dead letter when there is *)
(* a place for it), or because it was cancelled.                           *)
(***************************************************************************)
EXTENDS Naturals

CONSTANTS
    Id,        \* the messages
    MaxRuns,   \* handler invocations allowed per message
    Archive    \* are messages that are given up on archived

VARIABLES
    status,     \* [Id -> "unborn", "stored", "acked", "dead" or "cancelled"]
    runs,       \* [Id -> Nat], handler invocations so far
    succeeded,  \* the messages some delivery of which succeeded
    letters     \* the messages that have a dead letter

avars == <<status, runs, succeeded, letters>>

AInit ==
    /\ status = [i \in Id |-> "unborn"]
    /\ runs = [i \in Id |-> 0]
    /\ succeeded = {}
    /\ letters = {}

Accept(S) ==
    /\ \A i \in S : status[i] = "unborn"
    /\ status' = [i \in Id |-> IF i \in S THEN "stored" ELSE status[i]]
    /\ UNCHANGED <<runs, succeeded, letters>>

\* A delivery may still run after the message is gone: its lease had expired.
Run(i) ==
    /\ status[i] # "unborn"
    /\ runs[i] < MaxRuns
    /\ runs' = [runs EXCEPT ![i] = @ + 1]
    /\ UNCHANGED <<status, succeeded, letters>>

Succeed(i) ==
    /\ runs[i] > 0
    /\ succeeded' = succeeded \cup {i}
    /\ UNCHANGED <<status, runs, letters>>

\* The messages of A leave as acknowledged, those of D as given up on.
Remove(A, D) ==
    /\ \A i \in A \cup D : status[i] = "stored"
    /\ A \subseteq succeeded
    /\ status' = [i \in Id |-> IF i \in A THEN "acked"
                               ELSE IF i \in D THEN "dead" ELSE status[i]]
    /\ letters' = IF Archive THEN letters \cup D ELSE letters
    /\ UNCHANGED <<runs, succeeded>>

Cancel(i) ==
    /\ status[i] = "stored"
    /\ status' = [status EXCEPT ![i] = "cancelled"]
    /\ UNCHANGED <<runs, succeeded, letters>>

ANext ==
    \/ \E S \in SUBSET Id : Accept(S)
    \/ \E i \in Id : Run(i) \/ Succeed(i) \/ Cancel(i)
    \/ \E A, D \in SUBSET Id : A \cap D = {} /\ Remove(A, D)

ASpec == AInit /\ [][ANext]_avars
=============================================================================
