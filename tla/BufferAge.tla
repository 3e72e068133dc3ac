------------------------------ MODULE BufferAge ------------------------------
(***************************************************************************)
(* A worker that batches its deletes, against the clock of the leases: it  *)
(* buffers the rows it has finished and deletes them together when the     *)
(* buffer is full, when its queue is empty, or when the first of them was  *)
(* claimed half a lease ago, which it looks at after each dispatch.        *)
(*                                                                         *)
(* Time is in ticks.  The worker goes on at once when it can; a dispatch   *)
(* and a delete take time, and so does the reply to a claim, whose lease   *)
(* runs from the server's clock before the client stamps the row.          *)
(***************************************************************************)
EXTENDS Naturals, Sequences

CONSTANTS
    LeaseTtl,       \* lease_ttl_seconds
    BatchSize,      \* terminal_flush_batch_size
    QueueSize,      \* fetch_batch_size
    MaxReply,       \* longest reply to a claim
    MaxDispatch,    \* longest dispatch, its inline write included
    MaxFlush,       \* longest delete
    MaxRecycles,    \* bound on the times the fetch loop reconnects
    MaxTime         \* bound on the clock

Sizes ==
    /\ LeaseTtl \in Nat \ {0} /\ LeaseTtl % 2 = 0
    /\ BatchSize \in Nat /\ BatchSize > 1
    /\ QueueSize \in Nat \ {0}
    /\ {MaxReply, MaxDispatch, MaxFlush, MaxRecycles, MaxTime} \subseteq Nat

ASSUME BufferAssumption == Sizes

VARIABLES
    now,
    queue,      \* _inflight
    buffer,     \* the finished rows, with the time they were buffered
    worker,     \* "idle", "dispatching" or "flushing", and until when
    current,    \* the row in dispatch
    recycles    \* reconnects of the fetch loop, and the one the worker knows

vars == <<now, queue, buffer, worker, current, recycles>>

Time == 0 .. MaxTime

\* leased: acquired_at; claimed: claimed_at_monotonic; moved: was put back.
ClaimedRow == [leased: Time, claimed: Time, moved: BOOLEAN]
None == [leased |-> 0, claimed |-> 0, moved |-> FALSE]

TypeOK ==
    /\ now \in Time
    /\ queue \in Seq(ClaimedRow) /\ Len(queue) =< QueueSize
    /\ buffer \in Seq([row: ClaimedRow, at: Time]) /\ Len(buffer) =< BatchSize
    /\ worker \in [does: {"idle", "dispatching", "flushing"},
                   until: 0 .. MaxTime + MaxDispatch + MaxFlush]
    /\ current \in ClaimedRow
    /\ recycles \in [happened: 0 .. MaxRecycles, seen: 0 .. MaxRecycles]

Init ==
    /\ now = 0
    /\ queue = << >> /\ buffer = << >>
    /\ worker = [does |-> "idle", until |-> 0]
    /\ current = None
    /\ recycles = [happened |-> 0, seen |-> 0]
-----------------------------------------------------------------------------
Idle == [does |-> "idle", until |-> now]

\* The worker is busy for at most longest ticks.
Busy(does, longest) ==
    \E d \in 0 .. longest : worker' = [does |-> does, until |-> now + d]

\* A claim's reply arrives: rows it leased some time ago enter the queue.
\* Claims follow one another, so their leases are no older than the rows
\* stamped before.
Claim ==
    \E count \in 1 .. QueueSize - Len(queue), lag \in 0 .. MaxReply :
        /\ lag =< now
        /\ \A i \in DOMAIN queue : ~queue[i].moved => queue[i].claimed =< now - lag
        /\ LET fresh == [leased |-> now - lag, claimed |-> now, moved |-> FALSE]
           IN  queue' = queue \o [i \in 1 .. count |-> fresh]
        /\ UNCHANGED <<now, buffer, worker, current, recycles>>

\* Another worker takes the next row.
TakenByOther ==
    /\ queue # << >>
    /\ queue' = Tail(queue)
    /\ UNCHANGED <<now, buffer, worker, current, recycles>>

\* The fetch loop reconnects: _fetch_generation goes up.
Recycle ==
    /\ recycles.happened < MaxRecycles
    /\ recycles' = [recycles EXCEPT !.happened = @ + 1]
    /\ UNCHANGED <<now, queue, buffer, worker, current>>

\* The next row, with the connection still the right one ...
Take ==
    /\ worker.does = "idle" /\ queue # << >>
    /\ recycles.seen = recycles.happened
    /\ current' = Head(queue)
    /\ queue' = Tail(queue)
    /\ Busy("dispatching", MaxDispatch)
    /\ UNCHANGED <<now, buffer, recycles>>

\* ... or it goes back, to the end of the queue, and the buffer is deleted
\* before the worker starts over.
PutBack ==
    /\ worker.does = "idle" /\ queue # << >>
    /\ recycles.seen < recycles.happened
    /\ queue' = Append(Tail(queue), [Head(queue) EXCEPT !.moved = TRUE])
    /\ recycles' = [recycles EXCEPT !.seen = recycles.happened]
    /\ IF buffer = << >> THEN UNCHANGED worker ELSE Busy("flushing", MaxFlush)
    /\ UNCHANGED <<now, buffer, current>>

\* The queue is empty: what is buffered is deleted before the worker waits.
FlushIdle ==
    /\ worker.does = "idle" /\ queue = << >> /\ buffer # << >>
    /\ Busy("flushing", MaxFlush)
    /\ UNCHANGED <<now, queue, buffer, current, recycles>>

\* Mutant: no look at the age.
FlushDueBySize(held) == Len(held) >= BatchSize

\* The condition after a dispatch (usecase.py:683-685).
FlushDue(held) ==
    /\ held # << >>
    /\ \/ Len(held) >= BatchSize
       \/ now - Head(held).row.claimed >= LeaseTtl \div 2

\* The dispatch ends: the row is buffered, or was written inline.
Dispatched ==
    /\ worker.does = "dispatching" /\ worker.until = now
    /\ buffer' \in {buffer, Append(buffer, [row |-> current, at |-> now])}
    /\ IF FlushDue(buffer') THEN Busy("flushing", MaxFlush) ELSE worker' = Idle
    /\ current' = None
    /\ UNCHANGED <<now, queue, recycles>>

\* The inline write fails: the buffer is deleted on the way out.
DispatchFails ==
    /\ worker.does = "dispatching" /\ worker.until = now
    /\ IF buffer = << >> THEN worker' = Idle ELSE Busy("flushing", MaxFlush)
    /\ current' = None
    /\ UNCHANGED <<now, queue, buffer, recycles>>

\* _flush_buffer ends; it empties the buffer even when it fails.
Flushed ==
    /\ worker.does = "flushing" /\ worker.until = now
    /\ buffer' = << >>
    /\ worker' = Idle
    /\ UNCHANGED <<now, queue, current, recycles>>

\* Time passes only when the worker has nothing to do at once.
Tick ==
    /\ now < MaxTime
    /\ IF worker.does = "idle" THEN queue = << >> /\ buffer = << >> ELSE worker.until > now
    /\ now' = now + 1
    /\ UNCHANGED <<queue, buffer, worker, current, recycles>>

Next ==
    \/ Claim \/ TakenByOther \/ Recycle
    \/ Take \/ PutBack \/ FlushIdle \/ Dispatched \/ DispatchFails \/ Flushed
    \/ Tick

Spec == Init /\ [][Next]_vars
-----------------------------------------------------------------------------
Leased(row) == now =< row.leased + LeaseTtl

\* The row was finished with time left to delete it.
BufferedInTime(entry) == entry.at + MaxFlush =< entry.row.leased + LeaseTtl

\* A row that waits in the buffer, or whose delete is under way, still has its
\* lease, however the dispatches after it went, if it was finished in time.
\* It needs that a reply, a dispatch and a delete together take no longer than
\* half a lease, and that the row was not put back before.
BufferedKeepLease ==
    \A i \in DOMAIN buffer :
        BufferedInTime(buffer[i]) /\ ~buffer[i].row.moved => Leased(buffer[i].row)

\* docs/usage/subscriber.md:187: a buffered row is deleted before its lease can
\* expire; here only where the dispatch that delays it keeps its own lease.  Not
\* so: README, 7.
DeletedBeforeExpiry ==
    worker.does = "dispatching" /\ Leased(current) =>
        \A i \in DOMAIN buffer : BufferedInTime(buffer[i]) => Leased(buffer[i].row)

\* docs/usage/subscriber.md:184-185: the buffer is flushed when the oldest
\* buffered row was claimed half a lease ago, so a worker that takes its next
\* row keeps none that old.  Not so: README, 7.
OldestDecides ==
    [][Take => \A i \in DOMAIN buffer :
                   now - buffer[i].row.claimed < LeaseTtl \div 2]_vars
=============================================================================
