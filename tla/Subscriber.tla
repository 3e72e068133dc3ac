----------------------------- MODULE Subscriber -----------------------------
(***************************************************************************)
(* One OutboxSubscriber: the fetch loop, the worker loops with their       *)
(* delete buffers, the _inflight queue between them, and start and stop.   *)
(* Everything runs on one event loop, so an action is what a task does     *)
(* from one await to the next.                                             *)
(*                                                                         *)
(* The table is reduced to what the subscriber can tell apart: a row is    *)
(* stored or not and leased by its n-th claim or not; OutboxTable has the  *)
(* whole of it.  Time is not counted: timeouts, lease expiry and the age   *)
(* of a buffer happen at any moment.  Metrics are the dispatched event and *)
(* the number of events that close it.                                     *)
(***************************************************************************)
EXTENDS Naturals, Sequences, FiniteSets, SequencesExt

CONSTANTS
    Row,          \* the rows that may be published
    Worker,       \* max_workers tasks
    InflightMax,  \* fetch_batch_size, maxsize of _inflight
    FlushBatch,   \* terminal_flush_batch_size
    MaxClaims,    \* bound: claims of one row
    MaxFaults,    \* bound: connection errors, crashes, claims by other replicas
    MaxStarts     \* bound: calls of start

ASSUME SubscriberAssumption ==
    /\ IsFiniteSet(Row) /\ IsFiniteSet(Worker)
    /\ InflightMax \in Nat \ {0} /\ FlushBatch \in Nat \ {0}
    /\ MaxClaims \in Nat \ {0} /\ MaxFaults \in Nat /\ MaxStarts \in Nat

VARIABLES
    place,       \* [Row -> "unborn", "stored" or "gone"]
    claims,      \* [Row -> Nat], deliveries_count
    lease,       \* [Row -> Nat], the claim that holds the lease, 0 for none
    expired,     \* the rows whose lease is older than lease_ttl_seconds
    notice,      \* a NOTIFY is on its way to the LISTEN connection
    running,     \* self.running
    stopping,    \* self._stopping
    notify,      \* self._notify_event
    generation,  \* self._fetch_generation
    inflight,    \* self._inflight
    unfinished,  \* its count of tasks not done, what join() waits for
    fetch,       \* the fetch loop: [pc, free, got]
    worker,      \* [Worker -> [pc, item, kind, buffer, gen]]
    stop,        \* stop(): [pc, clean]
    dispatched,  \* history: claims with a dispatched event
    closings,    \* history: [Item -> Nat], closing events of each claim
    unseen,      \* history: rows published since a fetch last looked
    faults,      \* faults so far
    starts       \* starts so far

table == <<place, claims, lease, expired>>
events == <<dispatched, closings>>
vars == <<place, claims, lease, expired, notice, running, stopping, notify, generation,
          inflight, unfinished, fetch, worker, stop, dispatched, closings, unseen,
          faults, starts>>

Item == [row: Row, claim: 1..MaxClaims]
NoItem == [row |-> "none", claim |-> 0]

RefillAt == IF InflightMax \div 2 > 1 THEN InflightMax \div 2 ELSE 1
Free(q) == InflightMax - Len(q)

Claimable(r) == place[r] = "stored" /\ (lease[r] = 0 \/ r \in expired)
HoldsLease(i) == place[i.row] = "stored" /\ lease[i.row] = i.claim

IdleFetch(p) == [pc |-> p, free |-> 0, got |-> <<>>]
IdleWorker(p) == [pc |-> p, item |-> NoItem, kind |-> "none", buffer |-> <<>>, gen |-> 0]

FlushPCs == {"idleFlush", "flush", "staleFlush", "exitFlush", "lastFlush"}
InHand(w) == worker[w].pc \in {"handler", "write"}

\* The claim lock is only ever held across an await by the fetch loop.
ClaimLocked == fetch.pc \in {"query", "reply"}

\* From the moment stop() cancels the tasks they only unwind.
Cancelled == stop.pc = "gather"

Init ==
    /\ place = [r \in Row |-> "unborn"]
    /\ claims = [r \in Row |-> 0]
    /\ lease = [r \in Row |-> 0]
    /\ expired = {}
    /\ notice = FALSE
    /\ running = FALSE /\ stopping = FALSE /\ notify = FALSE
    /\ generation = 0
    /\ inflight = <<>> /\ unfinished = 0
    /\ fetch = IdleFetch("done")
    /\ worker = [w \in Worker |-> IdleWorker("done")]
    /\ stop = [pc |-> "idle", clean |-> TRUE]
    /\ dispatched = {}
    /\ closings = [i \in Item |-> 0]
    /\ unseen = {}
    /\ faults = 0 /\ starts = 0

Fault == faults < MaxFaults /\ faults' = faults + 1
-----------------------------------------------------------------------------
(* The table, publishers and other replicas. *)

\* A publisher commits an immediately eligible row; its NOTIFY reaches the
\* subscriber only while it listens.
Publish(r) ==
    /\ place[r] = "unborn"
    /\ place' = [place EXCEPT ![r] = "stored"]
    /\ notice' = (notice \/ fetch.pc \notin {"done", "open"})
    /\ unseen' = unseen \cup {r}
    /\ UNCHANGED <<claims, lease, expired, running, stopping, notify, generation, inflight,
                   unfinished, fetch, worker, stop, dispatched, closings, faults, starts>>

\* _on_notify runs.
OnNotify ==
    /\ notice
    /\ notice' = FALSE
    /\ notify' = TRUE
    /\ UNCHANGED <<table, running, stopping, generation, inflight, unfinished, fetch, worker,
                   stop, events, unseen, faults, starts>>

\* lease_ttl_seconds pass since the claim.
Expire(r) ==
    /\ place[r] = "stored" /\ lease[r] # 0 /\ r \notin expired
    /\ claims[r] < MaxClaims
    /\ expired' = expired \cup {r}
    /\ UNCHANGED <<place, claims, lease, notice, running, stopping, notify, generation, inflight,
                   unfinished, fetch, worker, stop, events, unseen, faults, starts>>

\* Another replica claims the row.
OtherClaims(r) ==
    /\ Fault
    /\ Claimable(r) /\ claims[r] + 1 < MaxClaims
    /\ claims' = [claims EXCEPT ![r] = @ + 1]
    /\ lease' = [lease EXCEPT ![r] = claims[r] + 1]
    /\ expired' = expired \ {r}
    /\ UNCHANGED <<place, notice, running, stopping, notify, generation, inflight, unfinished,
                   fetch, worker, stop, events, unseen, starts>>

\* A batched or single delete of items, each guarded by its lease.
DeleteRows(items) ==
    /\ place' = [r \in Row |-> IF \E i \in items : i.row = r /\ HoldsLease(i)
                               THEN "gone" ELSE place[r]]
    /\ UNCHANGED <<claims, lease, expired>>

\* mark_pending_with_lease.
ReleaseRow(i) ==
    /\ lease' = IF HoldsLease(i) THEN [lease EXCEPT ![i.row] = 0] ELSE lease
    /\ expired' = IF HoldsLease(i) THEN expired \ {i.row} ELSE expired
    /\ UNCHANGED <<place, claims>>

\* One closing event (acked, nacked_*, lease_lost, dispatch_abandoned) each.
Close(items) ==
    /\ closings' = [i \in Item |-> IF i \in items THEN closings[i] + 1 ELSE closings[i]]
    /\ UNCHANGED dispatched
-----------------------------------------------------------------------------
(* The fetch loop. *)

\* Mutant: the fetch always asks for fetch_batch_size rows.
FetchTopFullLimit(q, ev) ==
    IF ~running \/ stopping
    THEN fetch' = IdleFetch("done") /\ notify' = ev
    ELSE IF Free(q) < RefillAt
    THEN fetch' = IdleFetch("fullWait") /\ notify' = ev
    ELSE fetch' = [pc |-> "lock", free |-> InflightMax, got |-> <<>>] /\ notify' = FALSE

\* The top of _fetch_inner's loop, up to its next await: q and ev are the
\* queue and the event as the code before left them.  When this loop ends for
\* a drain, _run_with_reconnect ends too.
FetchTop(q, ev) ==
    IF ~running \/ stopping
    THEN fetch' = IdleFetch("done") /\ notify' = ev
    ELSE IF Free(q) < RefillAt
    THEN fetch' = IdleFetch("fullWait") /\ notify' = ev
    ELSE fetch' = [pc |-> "lock", free |-> Free(q), got |-> <<>>] /\ notify' = FALSE

FetchUnchanged == UNCHANGED <<running, stopping, worker, stop, events, starts>>

\* _run_with_reconnect (re)opens the LISTEN and the fetch connection.
FetchOpen ==
    /\ fetch.pc = "open" /\ ~Cancelled
    /\ FetchTop(inflight, notify)
    /\ UNCHANGED <<table, notice, generation, inflight, unfinished, unseen, faults>>
    /\ FetchUnchanged

\* Mutant: _stopping is not read again under the claim lock.
FetchLockAnyway ==
    /\ fetch.pc = "lock" /\ ~Cancelled
    /\ fetch' = [fetch EXCEPT !.pc = "query"]
    /\ UNCHANGED <<table, notice, notify, generation, inflight, unfinished, unseen, faults>>
    /\ FetchUnchanged

\* The claim lock is acquired; a drain that began meanwhile ends the loop.
FetchLock ==
    /\ fetch.pc = "lock" /\ ~Cancelled
    /\ fetch' = IF stopping THEN IdleFetch("done") ELSE [fetch EXCEPT !.pc = "query"]
    /\ UNCHANGED <<table, notice, notify, generation, inflight, unfinished, unseen, faults>>
    /\ FetchUnchanged

\* The server executes the fetch statement: as many claimable rows as fit.
ClaimUpTo(n, S) ==
    /\ \A r \in S : Claimable(r)
    /\ Cardinality(S) <= n
    /\ Cardinality(S) < n => \A r \in Row : Claimable(r) => r \in S
    /\ claims' = [r \in Row |-> IF r \in S THEN claims[r] + 1 ELSE claims[r]]
    /\ lease' = [r \in Row |-> IF r \in S THEN claims[r] + 1 ELSE lease[r]]
    /\ expired' = expired \ S
    /\ UNCHANGED place

FetchExecute(S) ==
    /\ fetch.pc = "query" /\ ~Cancelled
    /\ ClaimUpTo(fetch.free, S)
    /\ \E rows \in SetToSeqs({[row |-> r, claim |-> claims[r] + 1] : r \in S}) :
          fetch' = [fetch EXCEPT !.pc = "reply", !.got = rows]
    /\ unseen' = {}
    /\ UNCHANGED <<notice, notify, generation, inflight, unfinished, faults>>
    /\ FetchUnchanged

\* Mutant: the event is cleared after the fetch, not before it.
FetchReplyThenClear ==
    /\ fetch.pc = "reply" /\ ~Cancelled
    /\ inflight' = inflight \o fetch.got
    /\ unfinished' = unfinished + Len(fetch.got)
    /\ IF fetch.got = <<>>
       THEN fetch' = IdleFetch("idleWait") /\ notify' = FALSE
       ELSE FetchTop(inflight', FALSE)
    /\ UNCHANGED <<table, notice, generation, unseen, faults>>
    /\ FetchUnchanged

\* The reply arrives: the rows enter _inflight and the lock is released.
FetchReply ==
    /\ fetch.pc = "reply" /\ ~Cancelled
    /\ inflight' = inflight \o fetch.got
    /\ unfinished' = unfinished + Len(fetch.got)
    /\ IF fetch.got = <<>>
       THEN fetch' = IdleFetch("idleWait") /\ notify' = notify
       ELSE FetchTop(inflight', notify)
    /\ UNCHANGED <<table, notice, generation, unseen, faults>>
    /\ FetchUnchanged

\* _wait_for_notify_or_timeout returns, on the event or on its timeout, and
\* clears the event.
FetchWake ==
    /\ fetch.pc \in {"idleWait", "fullWait"} /\ ~Cancelled
    /\ FetchTop(inflight, FALSE)
    /\ UNCHANGED <<table, notice, generation, inflight, unfinished, unseen, faults>>
    /\ FetchUnchanged

\* A connection error, a failed LISTEN probe, or query_timeout: rows of a claim
\* that had committed are lost to memory, and the writers are to reconnect.
FetchFails ==
    /\ Fault
    /\ fetch.pc # "done" /\ ~Cancelled
    /\ fetch' = IdleFetch("open")
    /\ generation' = generation + 1
    /\ notice' = FALSE
    /\ UNCHANGED <<table, notify, inflight, unfinished, unseen>>
    /\ FetchUnchanged
-----------------------------------------------------------------------------
(* The worker loops. *)

WorkerUnchanged == UNCHANGED <<notice, running, stopping, generation, fetch, stop, unseen, starts>>

\* Mutant: a worker that makes room wakes nobody.
TakeRowQuietly(w, buf, g) ==
    /\ g = generation
    /\ inflight' = Tail(inflight)
    /\ notify' = notify
    /\ worker' = [worker EXCEPT ![w] = [pc |-> "handler", item |-> Head(inflight),
                                        kind |-> "none", buffer |-> buf, gen |-> g]]
    /\ dispatched' = dispatched \cup {Head(inflight)}

\* The top of _worker_inner's loop, up to its next await, for a worker with
\* this buffer and connection generation: take a row, or flush, or wait.  A
\* row met with a stale connection goes back to the queue.
TakeRow(w, buf, g) ==
    LET item == Head(inflight)
        rest == Tail(inflight)
    IN  IF g # generation
        THEN /\ inflight' = Append(rest, item)
             /\ worker' = [worker EXCEPT ![w] =
                   IF buf = <<>> THEN IdleWorker("open")
                   ELSE [IdleWorker("staleFlush") EXCEPT !.buffer = buf, !.gen = g]]
             /\ UNCHANGED <<notify, dispatched>>
        ELSE /\ inflight' = rest
             /\ notify' = (notify \/ Free(rest) >= RefillAt)
             /\ worker' = [worker EXCEPT ![w] =
                   [pc |-> "handler", item |-> item, kind |-> "none", buffer |-> buf, gen |-> g]]
             /\ dispatched' = dispatched \cup {item}

WorkerTop(w, buf, g) ==
    IF inflight # <<>> THEN TakeRow(w, buf, g)
    ELSE /\ worker' = [worker EXCEPT ![w] =
               [IdleWorker(IF buf = <<>> THEN "get" ELSE "idleFlush")
                  EXCEPT !.buffer = buf, !.gen = g]]
         /\ UNCHANGED <<inflight, notify, dispatched>>

\* The writer connection is open and takes the current generation.
WorkerOpen(w) ==
    /\ worker[w].pc = "open" /\ ~Cancelled
    /\ WorkerTop(w, <<>>, generation)
    /\ UNCHANGED <<table, unfinished, closings, faults>>
    /\ WorkerUnchanged

\* _inflight.get() returns.
WorkerGet(w) ==
    /\ worker[w].pc = "get" /\ inflight # <<>> /\ ~Cancelled
    /\ TakeRow(w, <<>>, worker[w].gen)
    /\ UNCHANGED <<table, unfinished, closings, faults>>
    /\ WorkerUnchanged

\* After dispatch_one: flush a full buffer, or one that has aged, or go on.
AfterDispatch(w, buf) ==
    \/ /\ buf # <<>>
       /\ worker' = [worker EXCEPT ![w] =
             [IdleWorker("flush") EXCEPT !.buffer = buf, !.gen = worker[w].gen]]
       /\ UNCHANGED <<inflight, notify, dispatched>>
    \/ /\ Len(buf) < FlushBatch
       /\ WorkerTop(w, buf, worker[w].gen)

\* The handler ends with an outcome that is a plain DELETE: it is buffered,
\* and task_done waits for the flush.
HandlerBuffers(w) ==
    /\ worker[w].pc = "handler" /\ ~Cancelled
    /\ FlushBatch > 1
    /\ AfterDispatch(w, Append(worker[w].buffer, worker[w].item))
    /\ UNCHANGED <<table, unfinished, closings, faults>>
    /\ WorkerUnchanged

\* The handler ends with a write of its own: a retry, a delete with a dead
\* letter, or any delete when batching is off.
HandlerWrites(w, kind) ==
    /\ worker[w].pc = "handler" /\ ~Cancelled
    /\ kind = "retry" => claims[worker[w].item.row] < MaxClaims
    /\ worker' = [worker EXCEPT ![w].pc = "write", ![w].kind = kind]
    /\ UNCHANGED <<table, notify, inflight, unfinished, events, faults>>
    /\ WorkerUnchanged

\* Mutant: no task_done for a row that is not written.
HandlerEscapesTask(w) ==
    /\ worker[w].pc = "handler" /\ ~Cancelled
    /\ claims[worker[w].item.row] < MaxClaims
    /\ unfinished' = unfinished
    /\ closings' = [closings EXCEPT ![worker[w].item] = @ + 1]
    /\ AfterDispatch(w, worker[w].buffer)
    /\ UNCHANGED <<table, faults>>
    /\ WorkerUnchanged

\* An error escapes consume(): no write, the lease will expire.
HandlerEscapes(w) ==
    /\ worker[w].pc = "handler" /\ ~Cancelled
    /\ claims[worker[w].item.row] < MaxClaims
    /\ unfinished' = unfinished - 1
    /\ closings' = [closings EXCEPT ![worker[w].item] = @ + 1]
    /\ AfterDispatch(w, worker[w].buffer)
    /\ UNCHANGED <<table, faults>>
    /\ WorkerUnchanged

WriteEffect(w) ==
    IF worker[w].kind = "retry" THEN ReleaseRow(worker[w].item) ELSE DeleteRows({worker[w].item})

WriteOk(w) ==
    /\ worker[w].pc = "write" /\ ~Cancelled
    /\ WriteEffect(w)
    /\ unfinished' = unfinished - 1
    /\ closings' = [closings EXCEPT ![worker[w].item] = @ + 1]
    /\ AfterDispatch(w, worker[w].buffer)
    /\ UNCHANGED faults
    /\ WorkerUnchanged

\* The worker leaves _worker_inner: a last flush if rows are buffered.
Leave(w, flushPC, donePC) ==
    worker' = [worker EXCEPT ![w] =
        IF worker[w].buffer = <<>> THEN IdleWorker(donePC)
        ELSE [IdleWorker(flushPC) EXCEPT !.buffer = worker[w].buffer, !.gen = worker[w].gen]]

\* Mutant: a write that raises emits no event.
WriteFailsSilently(w) ==
    /\ Fault
    /\ worker[w].pc = "write" /\ ~Cancelled
    /\ WriteEffect(w) \/ UNCHANGED table
    /\ unfinished' = unfinished - 1
    /\ UNCHANGED events
    /\ Leave(w, "exitFlush", "open")
    /\ UNCHANGED <<notify, inflight>>
    /\ WorkerUnchanged

\* The write raises, having landed or not; the worker reconnects.
WriteFails(w) ==
    /\ Fault
    /\ worker[w].pc = "write" /\ ~Cancelled
    /\ WriteEffect(w) \/ UNCHANGED table
    /\ unfinished' = unfinished - 1
    /\ Close({worker[w].item})
    /\ Leave(w, "exitFlush", "open")
    /\ UNCHANGED <<notify, inflight>>
    /\ WorkerUnchanged

\* Mutant: one task_done for the whole buffer.
FlushedAsOne(w) ==
    /\ Close(ToSet(worker[w].buffer))
    /\ unfinished' = unfinished - 1

\* _flush_buffer's statement returned: a closing event and a task_done per row.
Flushed(w) ==
    /\ Close(ToSet(worker[w].buffer))
    /\ unfinished' = unfinished - Len(worker[w].buffer)

AfterFlush(w) ==
    IF worker[w].pc \in {"idleFlush", "flush"}
    THEN [IdleWorker("get") EXCEPT !.gen = worker[w].gen]
    ELSE IdleWorker(IF worker[w].pc = "lastFlush" THEN "done" ELSE "open")

FlushOk(w) ==
    /\ worker[w].pc \in FlushPCs
    /\ Cancelled => worker[w].pc = "lastFlush"
    /\ DeleteRows(ToSet(worker[w].buffer))
    /\ Flushed(w)
    /\ worker' = [worker EXCEPT ![w] = AfterFlush(w)]
    /\ UNCHANGED <<notify, inflight, faults>>
    /\ WorkerUnchanged

\* The statement raises, having landed or not.
FlushFails(w) ==
    /\ Fault
    /\ worker[w].pc \in FlushPCs
    /\ Cancelled => worker[w].pc = "lastFlush"
    /\ DeleteRows(ToSet(worker[w].buffer)) \/ UNCHANGED table
    /\ Flushed(w)
    /\ worker' = [worker EXCEPT ![w] = IdleWorker(IF Cancelled THEN "done" ELSE "open")]
    /\ UNCHANGED <<notify, inflight>>
    /\ WorkerUnchanged

\* CancelledError is thrown at the await the worker is in.  It passes through
\* dispatch_one untouched while the handler runs; a write or a flush reports
\* its rows abandoned, having landed or not.
UnwindHandler(w) ==
    /\ worker[w].pc = "handler"
    /\ unfinished' = unfinished - 1
    /\ Leave(w, "lastFlush", "done")
    /\ UNCHANGED <<table, events>>

UnwindWrite(w) ==
    /\ worker[w].pc = "write"
    /\ WriteEffect(w) \/ UNCHANGED table
    /\ unfinished' = unfinished - 1
    /\ Close({worker[w].item})
    /\ Leave(w, "lastFlush", "done")

UnwindFlush(w) ==
    /\ worker[w].pc \in FlushPCs \ {"lastFlush"}
    /\ DeleteRows(ToSet(worker[w].buffer)) \/ UNCHANGED table
    /\ Flushed(w)
    /\ worker' = [worker EXCEPT ![w] = IdleWorker("done")]

UnwindIdle(w) ==
    /\ worker[w].pc \in {"open", "get"}
    /\ worker' = [worker EXCEPT ![w] = IdleWorker("done")]
    /\ UNCHANGED <<table, unfinished, events>>

WorkerUnwinds(w) ==
    /\ Cancelled
    /\ UnwindHandler(w) \/ UnwindWrite(w) \/ UnwindFlush(w) \/ UnwindIdle(w)
    /\ UNCHANGED <<notify, inflight, faults>>
    /\ WorkerUnchanged

FetchUnwinds ==
    /\ Cancelled
    /\ fetch.pc # "done"
    /\ fetch' = IdleFetch("done")
    /\ \/ fetch.pc = "query" /\ \E S \in SUBSET Row : ClaimUpTo(fetch.free, S)
       \/ UNCHANGED table
    /\ notice' = FALSE
    /\ UNCHANGED <<notify, generation, inflight, unfinished, unseen, faults>>
    /\ FetchUnchanged
-----------------------------------------------------------------------------
(* start, stop, and the end of the process. *)

\* Mutant: _stopping stays set from the stop before.
StartStillStopping ==
    /\ stop.pc = "idle" /\ ~running
    /\ starts < MaxStarts
    /\ starts' = starts + 1
    /\ running' = TRUE
    /\ fetch' = IdleFetch("open")
    /\ worker' = [w \in Worker |-> IdleWorker("open")]
    /\ stop' = [stop EXCEPT !.clean = TRUE]
    /\ dispatched' = {}
    /\ closings' = [i \in Item |-> 0]
    /\ UNCHANGED <<table, notice, stopping, notify, generation, inflight, unfinished, unseen, faults>>

\* The histories of events begin again with each start.
Start ==
    /\ stop.pc = "idle" /\ ~running
    /\ starts < MaxStarts
    /\ starts' = starts + 1
    /\ running' = TRUE
    /\ stopping' = FALSE
    /\ fetch' = IdleFetch("open")
    /\ worker' = [w \in Worker |-> IdleWorker("open")]
    /\ stop' = [stop EXCEPT !.clean = TRUE]
    /\ dispatched' = {}
    /\ closings' = [i \in Item |-> 0]
    /\ UNCHANGED <<table, notice, notify, generation, inflight, unfinished, unseen, faults>>

StopUnchanged == UNCHANGED <<table, notice, generation, fetch, worker, events, unseen, faults, starts>>

StopBegin ==
    /\ stop.pc = "idle" /\ running
    /\ stopping' = TRUE
    /\ notify' = TRUE
    /\ stop' = [stop EXCEPT !.pc = "lock"]
    /\ UNCHANGED <<running, inflight, unfinished>>
    /\ StopUnchanged

\* async with self._claim_lock: pass
StopLock ==
    /\ stop.pc = "lock" /\ ~ClaimLocked
    /\ stop' = [stop EXCEPT !.pc = "join"]
    /\ UNCHANGED <<running, stopping, notify, inflight, unfinished>>
    /\ StopUnchanged

\* The drain ends, and stop cancels the tasks and gathers them.
EndDrain(clean) ==
    /\ stop' = [pc |-> "gather", clean |-> clean]
    /\ running' = FALSE
    /\ UNCHANGED <<stopping, notify, inflight, unfinished>>
    /\ StopUnchanged

StopJoined ==
    /\ stop.pc = "join" /\ unfinished = 0
    /\ EndDrain(TRUE)

DrainTimeout ==
    /\ stop.pc \in {"lock", "join"}
    /\ EndDrain(FALSE)

\* Every task has unwound; _reset_inflight.
StopDone ==
    /\ stop.pc = "gather"
    /\ fetch.pc = "done" /\ \A w \in Worker : worker[w].pc = "done"
    /\ stop' = [stop EXCEPT !.pc = "idle"]
    /\ inflight' = <<>> /\ unfinished' = 0
    /\ UNCHANGED <<running, stopping, notify>>
    /\ StopUnchanged

\* The process dies and another takes its place.
Crash ==
    /\ Fault
    /\ running \/ Cancelled
    /\ running' = FALSE /\ stopping' = FALSE /\ notify' = FALSE /\ notice' = FALSE
    /\ generation' = 0
    /\ inflight' = <<>> /\ unfinished' = 0
    /\ fetch' = IdleFetch("done")
    /\ worker' = [w \in Worker |-> IdleWorker("done")]
    /\ stop' = [pc |-> "idle", clean |-> TRUE]
    /\ dispatched' = {}
    /\ closings' = [i \in Item |-> 0]
    /\ UNCHANGED <<table, unseen, starts>>
-----------------------------------------------------------------------------
Database ==
    \/ \E r \in Row : Publish(r) \/ Expire(r) \/ OtherClaims(r)
    \/ OnNotify

FetchClaims == \E S \in SUBSET Row : FetchExecute(S)

Fetching ==
    \/ FetchOpen \/ FetchLock \/ FetchClaims \/ FetchReply \/ FetchWake
    \/ FetchFails \/ FetchUnwinds

HandlerEnds(w) ==
    \/ HandlerBuffers(w)
    \/ \E kind \in {"retry", "delete"} : HandlerWrites(w, kind)
    \/ HandlerEscapes(w)

Working(w) ==
    \/ WorkerOpen(w) \/ WorkerGet(w) \/ HandlerEnds(w)
    \/ WriteOk(w) \/ WriteFails(w) \/ FlushOk(w) \/ FlushFails(w)
    \/ WorkerUnwinds(w)

Lifecycle ==
    Start \/ StopBegin \/ StopLock \/ StopJoined \/ DrainTimeout \/ StopDone \/ Crash

Next == Database \/ Fetching \/ (\E w \in Worker : Working(w)) \/ Lifecycle

Spec == Init /\ [][Next]_vars

\* Leases run out; queries, handlers and unwinding end; a wait on _notify_event
\* times out; a drain timeout may never come.
FairSpec ==
    /\ Spec
    /\ WF_vars(OnNotify) /\ \A r \in Row : WF_vars(Expire(r))
    /\ WF_vars(FetchOpen \/ FetchLock \/ FetchClaims \/ FetchReply \/ FetchWake \/ FetchUnwinds)
    /\ \A w \in Worker :
         WF_vars(WorkerOpen(w) \/ WorkerGet(w) \/ HandlerEnds(w) \/ WriteOk(w) \/ FlushOk(w)
                 \/ WorkerUnwinds(w))
    /\ WF_vars(StopLock \/ StopJoined \/ StopDone)
-----------------------------------------------------------------------------
(* Properties. *)

FetchStates == {"done", "open", "lock", "query", "reply", "idleWait", "fullWait"}
WorkerStates == {"done", "open", "get", "handler", "write"} \cup FlushPCs

\* Every variable has its type; a worker has a row exactly while it handles or
\* writes one, and its buffer never exceeds terminal_flush_batch_size.
TypeOK ==
    /\ place \in [Row -> {"unborn", "stored", "gone"}]
    /\ claims \in [Row -> 0..MaxClaims]
    /\ lease \in [Row -> 0..MaxClaims]
    /\ expired \subseteq Row /\ unseen \subseteq Row
    /\ {notice, running, stopping, notify, stop.clean} \subseteq BOOLEAN
    /\ stop.pc \in {"idle", "lock", "join", "gather"}
    /\ generation \in 0..MaxFaults /\ faults \in 0..MaxFaults /\ starts \in 0..MaxStarts
    /\ unfinished \in Nat
    /\ ToSet(inflight) \subseteq Item
    /\ fetch.pc \in FetchStates /\ fetch.free \in 0..InflightMax /\ ToSet(fetch.got) \subseteq Item
    /\ \A w \in Worker :
         /\ worker[w].pc \in WorkerStates
         /\ worker[w].item \in Item \cup {NoItem}
         /\ worker[w].item \in Item <=> InHand(w)
         /\ ToSet(worker[w].buffer) \subseteq Item
         /\ Len(worker[w].buffer) <= FlushBatch
         /\ worker[w].gen \in 0..MaxFaults
    /\ dispatched \subseteq Item
    /\ closings \in [Item -> Nat]

Buffered(w) == ToSet(worker[w].buffer)
HeldBy(w) == Buffered(w) \cup (IF InHand(w) THEN {worker[w].item} ELSE {})
HeldRows == UNION {HeldBy(w) : w \in Worker}

\* put_nowait in _fetch_inner and in _worker_inner never raises QueueFull:
\* the rows of a reply still fit after the query that free was read before,
\* whatever the workers put back meanwhile.
InflightFits ==
    /\ Len(inflight) <= InflightMax
    /\ Len(inflight) + Len(fetch.got) <= InflightMax

\* join() counts exactly the rows that are queued, in a handler, being written
\* or in a delete buffer: no path of a worker forgets a task_done or does two.
TasksBalanced ==
    unfinished = Len(inflight) + Cardinality({w \in Worker : InHand(w)})
                 + Cardinality({s \in Worker \X (1..FlushBatch) : s[2] <= Len(worker[s[1]].buffer)})

\* When stop() has drained without its timeout, the fetch loop has claimed
\* nothing it did not hand over and no row is left in memory: each claimed row
\* was handled and its outcome written or given up.
DrainLeavesNothing ==
    stop.pc = "gather" /\ stop.clean =>
        /\ inflight = <<>> /\ HeldRows = {}
        /\ ~ClaimLocked /\ fetch.got = <<>>

\* While it waits out the idle backoff with no event set and no NOTIFY under
\* way, the fetch loop has looked since the last publish: a NOTIFY that comes
\* between the claim and the wait is not lost.
NoLostWakeup ==
    fetch.pc = "idleWait" /\ ~notify /\ ~notice => unseen = {}

\* While it waits for room with no event set, there is no room to refill: a
\* worker that makes room wakes it.
RoomWakesFetch ==
    fetch.pc = "fullWait" /\ ~notify => Free(inflight) < RefillAt

\* Every dispatched event of this start is closed by exactly one event, or
\* the row is still with a worker and has none, unless a drain timed out.
EventsPaired ==
    stop.clean => \A i \in dispatched : closings[i] = IF i \in HeldRows THEN 0 ELSE 1

\* observability.md: every dispatched is closed by exactly one later event,
\* "the subscriber stopped mid-dispatch" included.  Not so: README, 7.
StoppedClosesAll ==
    stop.pc = "idle" => \A i \in dispatched : closings[i] = 1

\* subscriber.md: when the fetch loop reconnects, the workers drop their
\* connections too before writing again.  Not so: README, 7.
WritesOnNewConnection ==
    \A w \in Worker :
        worker[w].pc \in FlushPCs \cup {"write"} => worker[w].gen = generation

\* stop() drains without help from its timeout once handlers and queries end,
\* and returns.
StopTerminates == stop.pc = "lock" ~> stop.pc = "idle"

\* A row in the table of a running subscriber is dispatched by it unless stop()
\* is called, the process ends or its claims are at the bound: no earlier stop,
\* stale connection, lost reply or claim by a replica that does nothing with the
\* row leaves it behind.
EveryRowDispatched ==
    \A r \in Row :
        place[r] = "stored" /\ running ~>
            \/ \E i \in dispatched : i.row = r
            \/ stop.pc # "idle" \/ ~running \/ claims[r] = MaxClaims
=============================================================================
