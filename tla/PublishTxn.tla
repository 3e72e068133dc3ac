----------------------------- MODULE PublishTxn -----------------------------
(***************************************************************************)
(* publish and publish_batch on the caller's session: which INSERTs also   *)
(* issue a pg_notify, and what is left of both when savepoints and the     *)
(* transaction end.                                                        *)
(*                                                                         *)
(* _OutboxInserter remembers per innermost transaction which queues it has *)
(* notified (_notified, weakly keyed by the transaction object), to save   *)
(* round trips.  PostgreSQL drops the NOTIFYs of what is rolled back, so   *)
(* the memo must never outlive the NOTIFY it stands for.                   *)
(***************************************************************************)
EXTENDS Naturals, Sequences

CONSTANTS
    Queue,     \* queue names
    MaxDepth,  \* bound: the transaction and its savepoints
    MaxSends   \* bound: publishes

ASSUME PublishAssumption == MaxDepth \in Nat \ {0} /\ MaxSends \in Nat

VARIABLES
    stack,      \* the open transaction and its open savepoints, innermost last
    broken,     \* a statement failed: only a rollback is accepted
    committed,  \* the queues the last commit put rows in for now
    delivered,  \* the queues whose NOTIFY the last commit delivered
    sends       \* publishes so far

vars == <<stack, broken, committed, delivered, sends>>

\* What one transaction or savepoint has done and not undone: the queues it
\* has put rows in for now, not for a later deadline, or asked a timer of to be
\* extended to now, whatever its own deadline; those whose NOTIFY it has issued;
\* and the memo the inserter keeps for its transaction object.
Frame == [rows: SUBSET Queue, notified: SUBSET Queue, memo: SUBSET Queue]
NewFrame == [rows |-> {}, notified |-> {}, memo |-> {}]

Depth == Len(stack)
InTransaction == Depth > 0
Outermost == 1

\* SQLAlchemy autobegins a transaction for the first statement.
Begun == IF InTransaction THEN stack ELSE <<NewFrame>>

Init ==
    /\ stack = <<>>
    /\ broken = FALSE
    /\ committed = {}
    /\ delivered = {}
    /\ sends = 0

Begin ==
    /\ ~InTransaction
    /\ stack' = <<NewFrame>>
    /\ UNCHANGED <<broken, committed, delivered, sends>>

BeginNested ==
    /\ ~broken
    /\ Len(Begun) < MaxDepth
    /\ stack' = Append(Begun, NewFrame)
    /\ UNCHANGED <<committed, broken, delivered, sends>>
-----------------------------------------------------------------------------
\* _notified_queues: the memo of the innermost transaction, none outside one.
Emitted == IF InTransaction THEN stack[Depth].memo ELSE {}

\* The frame after an INSERT into q with or without a NOTIFY.
Inserted(frame, q, eligible, notify) ==
    [rows |-> IF eligible THEN frame.rows \cup {q} ELSE frame.rows,
     notified |-> IF notify THEN frame.notified \cup {q} ELSE frame.notified,
     memo |-> IF notify THEN frame.memo \cup {q} ELSE frame.memo]

\* Mutants of publish.  The NOTIFY of a savepoint is remembered by the outer
\* transaction.
PublishRemembersOutside(q, future, landed) ==
    /\ ~broken /\ sends < MaxSends
    /\ LET notify == ~future /\ q \notin Emitted /\ landed
           issued == [Begun EXCEPT ![Len(Begun)] = Inserted(@, q, landed /\ ~future, notify)]
       IN  stack' = [issued EXCEPT ![Outermost].memo = IF notify THEN @ \cup {q} ELSE @]
    /\ sends' = sends + 1
    /\ UNCHANGED <<broken, committed, delivered>>

\* The NOTIFY is sent whether or not the INSERT returned a row.
PublishNotifiesAnyway(q, future, landed) ==
    /\ ~broken /\ sends < MaxSends
    /\ LET notify == ~future /\ q \notin Emitted
       IN  stack' = [Begun EXCEPT ![Len(Begun)] = Inserted(@, q, landed /\ ~future, notify)]
    /\ sends' = sends + 1
    /\ UNCHANGED <<broken, committed, delivered>>

\* insert: pg_notify rides in the RETURNING of the INSERT, unless the row is
\* future-dated or the queue is in the memo.  It lands when a row is inserted or
\* extended; when a timer conflict leaves the row alone, or it is leased,
\* nothing is returned, notified or remembered.
Publish(q, future, landed) ==
    /\ ~broken /\ sends < MaxSends
    /\ LET notify == ~future /\ q \notin Emitted /\ landed
       IN  stack' = [Begun EXCEPT ![Len(Begun)] = Inserted(@, q, landed /\ ~future, notify)]
    /\ sends' = sends + 1
    /\ UNCHANGED <<broken, committed, delivered>>

\* insert_batch: the rows first, then _notify, which remembers the queue and
\* sends a pg_notify of its own.
PublishBatch(q, future) ==
    /\ ~broken /\ sends < MaxSends
    /\ LET notify == ~future /\ q \notin Emitted
       IN  stack' = [Begun EXCEPT ![Len(Begun)] = Inserted(@, q, ~future, notify)]
    /\ sends' = sends + 1
    /\ UNCHANGED <<broken, committed, delivered>>

\* insert_batch whose pg_notify fails: the queue is in the memo already.
NotifyFails(q) ==
    /\ ~broken /\ sends < MaxSends
    /\ q \notin Emitted
    /\ stack' = [Begun EXCEPT ![Len(Begun)].rows = @ \cup {q},
                             ![Len(Begun)].memo = @ \cup {q}]
    /\ broken' = TRUE
    /\ sends' = sends + 1
    /\ UNCHANGED <<committed, delivered>>

\* Any other statement of the transaction fails.
StatementFails ==
    /\ InTransaction
    /\ broken' = TRUE
    /\ UNCHANGED <<stack, committed, delivered, sends>>
-----------------------------------------------------------------------------
Inner == stack[Depth]
Outer == stack[Depth - 1]

\* RELEASE SAVEPOINT: rows and NOTIFYs pass to the enclosing transaction, the
\* memo dies with its transaction object.
Release ==
    /\ ~broken /\ Depth > 1
    /\ stack' = [SubSeq(stack, 1, Depth - 1) EXCEPT
                   ![Depth - 1].rows = @ \cup Inner.rows,
                   ![Depth - 1].notified = @ \cup Inner.notified]
    /\ UNCHANGED <<broken, committed, delivered, sends>>

\* ROLLBACK TO SAVEPOINT also makes a failed transaction usable again.
RollbackToSavepoint ==
    /\ Depth > 1
    /\ stack' = SubSeq(stack, 1, Depth - 1)
    /\ broken' = FALSE
    /\ UNCHANGED <<committed, delivered, sends>>

Commit ==
    /\ ~broken /\ Depth = 1
    /\ committed' = Inner.rows
    /\ delivered' = Inner.notified
    /\ stack' = <<>>
    /\ UNCHANGED <<broken, sends>>

Rollback ==
    /\ InTransaction
    /\ stack' = <<>>
    /\ broken' = FALSE
    /\ UNCHANGED <<committed, delivered, sends>>

Publishing ==
    \E q \in Queue, future \in BOOLEAN :
        \/ \E landed \in BOOLEAN : Publish(q, future, landed)
        \/ PublishBatch(q, future)

Next ==
    \/ Begin \/ BeginNested \/ Publishing
    \/ (\E q \in Queue : NotifyFails(q)) \/ StatementFails
    \/ Release \/ RollbackToSavepoint \/ Commit \/ Rollback

Spec == Init /\ [][Next]_vars
-----------------------------------------------------------------------------
\* Types; only queues the frame has a row in are notified or remembered.
TypeOK ==
    /\ stack \in Seq(Frame)
    /\ Depth <= MaxDepth
    /\ \A k \in 1..Depth : stack[k].notified \cup stack[k].memo \subseteq stack[k].rows
    /\ broken \in BOOLEAN
    /\ committed \subseteq Queue /\ delivered \subseteq Queue
    /\ sends \in Nat

\* No committed row waits for a poll: a commit delivers a NOTIFY of every queue
\* it commits a row in that is due at once, whatever savepoints were rolled
\* back or released and whichever publishes the memo silenced
\* (client.py:346-357, 384-416).
CommittedAreNotified == committed \subseteq delivered

\* What makes it so: in a transaction that can still commit, the rows and the
\* memo of a frame are covered by NOTIFYs of that very frame, which share
\* its fate.  A frame that failed is covered by nothing and cannot be kept.
Covered(frame) == frame.rows \cup frame.memo \subseteq frame.notified

FramesCovered ==
    /\ \A k \in 1..Depth - 1 : Covered(stack[k])
    /\ InTransaction /\ ~broken => Covered(stack[Depth])

\* Nobody is woken for what is rolled back: a commit delivers only NOTIFYs of
\* queues it commits a row or an extend in that was asked for now (that the
\* extended timer is due then is not promised: client.py:288).
NotifiedAreCommitted == delivered \subseteq committed
=============================================================================
