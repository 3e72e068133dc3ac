# Faststream outbox: a verification development

TLA+ models of `faststream_outbox` (the transactional outbox broker for FastStream
on PostgreSQL), TLC configurations that check them on small instances, and TLAPS
proofs of what matters most for every instance. Line numbers are of
`src/faststream_outbox/` unless a path is given.

## 1. The system

A producer writes messages as rows of a table in its own transaction. Subscribers
in any number of processes poll the table, lease rows, run a handler, and delete or
reschedule the row. There is no other coordinator than PostgreSQL.

| Part | Source | State it keeps | Operations |
|---|---|---|---|
| Outbox table, DLQ table | `schema.py` | rows with `acquired_token`/`acquired_at` (the lease), `deliveries_count`, `attempts_count`, `next_attempt_at`, `timer_id` | written only by the statements of `client.py` |
| `OutboxClient` | `client.py` | none (`_notified`: queues already notified, per transaction) | `insert`, `insert_batch`, `fetch`, `delete_with_lease`, `delete_batch_with_lease`, `mark_pending_with_lease`, `cancel_timer` |
| Producer, publishers, responses | `publisher/`, `response.py`, `envelope.py` | none | encode, then insert on the caller's session |
| `OutboxSubscriber` | `subscriber/usecase.py` | `_inflight`, `_claim_lock`, `_notify_event`, `_stopping`, `running`, `_fetch_generation`, a delete buffer per worker, tasks | fetch loop, worker loops, `dispatch_one`, flushes, `start`, `stop` |
| `OutboxInnerMessage` | `message.py` | the copy of a claimed row, `outcome` | `ack`, `nack`, `reject`, `allow_delivery`, `assert_state_set` |
| Retry strategies | `retry.py` | parameters | delay of the next attempt, or none |
| Broker | `broker.py`, `metrics/lag.py` | `running`, `_queue_lag` | `start`, `stop`, `ping` |
| Metrics | `metrics/`, `prometheus/`, `opentelemetry/` | gauges, counters | fed by the events of subscriber and producer |
| Test broker | `testing.py` | the rows, `_dispatchable`, `_loops_spawned` | the client's operations in memory, contexts with or without loops, dispatch inside `publish()`, `feed` |
| Schema check | `schema_validation.py`, `autovacuum.py` | none | compare a live table with the declared one |
| Registration, configuration, helpers | `registrator.py`, `router.py`, `fastapi/`, `configs.py`, `subscriber/config.py`, `subscriber/factory.py`, `_*.py` | none at run time | checks of arguments, wiring before start |

How they meet: the table is the only thing shared between processes; inside a
process, fetch loop and workers are tasks of one event loop and share `_inflight`,
the event and the flags; publishers reach subscribers through rows and, to save the
poll interval, `pg_notify`. The loops of all subscribers and the application's own
sessions share the engine's connection pool. Middlewares, ack policy and foreign
publishers call back into a row's `ack`, `nack` and `reject`.

What is hard about it, and what makes each part correct:

| Part | Hard behaviour | Correct when |
|---|---|---|
| Table and leases | handlers slower than their lease, lost replies, statements of a dead process that still run, timers moved while they are claimed | one holder per row; a row leaves once, for the outcome of a delivery of what it held, archived in the same step; runs are bounded |
| Fetch statement | concurrent scans branch by branch with `SKIP LOCKED` | no row claimed twice, no more than asked, none overtaken |
| Insert and NOTIFY | savepoints rolled back under a memo of queues already notified | a commit wakes the queues it put rows in for now, or extended a timer of to now, and only those |
| Subscriber | two kinds of tasks, a bounded queue, cancellation at every await, reconnects, stop and start | the queue never overflows, `join()` counts right, no wakeup is lost, a clean drain leaves nothing, every row is dispatched |
| Consume pipeline | failures in the parser, handler, publisher, commit, write; intents by hand and by policy; a stop in between | a failure is retried, a rejection chosen, an acknowledged row done; what was counted is what happened |
| Retry strategies | overflow, jitter, caps, two budgets | a delay in its band; only a budget ends the retries |
| Delete buffer | lease clock against slow handlers | a buffered row is deleted under its lease |
| Connection pool | two checkouts of a fetch loop, long-lived writers, sessions | nothing waits for a slot held by one that waits |
| Broker | stops side by side, one cancelled, one that raises, a start beside one | `stop()` returns and nothing runs or is reported after it |
| Test broker | publishes nested in handlers and side by side; loops that still unwind, and a handler's `stop()` that still goes on, in the next context | a publish runs what it stored, a context starts fresh, and a test sees what the outbox promises |

`PROJECT.json` lists the hazards at their lines with the properties that answer them.

## 2. The modules

Written in this order, the most important first:

| Module | Models | State and actions against the code |
|---|---|---|
| `OutboxTable` | `client.py`, `schema.py`, the outcomes of `message.py` | `row`, `fate`, `dlq` are the tables; `copies` the claimed messages of all replicas with their token; an action is a statement (`Fetch`, `DeleteWithLease`, `MarkPendingWithLease`, ...) or a step of a copy (`StartHandler`, `RecordOutcome`, `Abandon`, `GiveUpWrite`) |
| `AtLeastOnce` | the promise: messages are stored, run, succeed, are removed | abstract, no code |
| `OutboxRefinement` | `OutboxTable` implements `AtLeastOnce` | the refinement mapping |
| `Subscriber` | `subscriber/usecase.py`: loops, buffers, start, stop | an action is what a task does between two awaits; `pc`s are the awaits; `inflight`, `notify`, `stopping`, `running`, `generation` are the attributes of those names |
| `PublishTxn` | `_OutboxInserter`, `_notify` | `stack` is the caller's transaction with its savepoints; `memo` is `_notified` |
| `FetchQuery` | `_build_fetch_stmt`, `_lag_statement` | one action per branch scan with its row locks; `Pending`, `Overdue`, `SampledLag` are the two queries of the sampler |
| `Consume` | `dispatch_one`, `process_message`, `message.py`, `PrometheusRecorder`, `OpenTelemetryRecorder` | `pc` walks the pipeline of one delivery, `run` is what happened in it, `copy` the `OutboxInnerMessage`, `seen` the series of both recorders (`Recorded`, `Measured`); `Stop` and `CutOff` are what a `stop()` elsewhere does to it |
| `RetryDelay` | `retry.py`, `_nack` | `DelaySeconds` is the answer of the strategy as a set (jitter); actions are the attempts |
| `ConnectionPool` | `_check_pool_capacity`, `_open_*_resources`, `_open_listen_connection` | `slots` is the pool of SQLAlchemy (external), `pc` where each loop and session stands |
| `BufferAge` | `_worker_inner`'s flush conditions | as `Subscriber`, one worker, with time in ticks |
| `Broker` | `OutboxBroker.start`, `stop`, `ping`, `_stop_from_handler`, `record_queue_lag` | `sub` is each subscriber's flags and tasks, `stops` the `stop()` calls under way on it, `missed` those whose loops the last `broker.stop()` did not await, `lag` the sampler with its gauges |
| `FakeClient` | `FakeOutboxClient` | no state: a store is a record, each method an operator on it, for none of them awaits |
| `TestBroker` | `TestOutboxBroker`, `_sync_dispatch` | `store` is the fake client, `harness` the context, `call` the publishes each task awaits, `worker` and `fetchers` the loops of all contexts, `stop` the `stop()` each worker's handler asked for |
| `OutboxTableProofs`, `SubscriberProofs`, `ConsumeProofs`, `FetchQueryProofs`, `PublishTxnProofs`, `BrokerProofs`, `LimitsProofs`, `TestBrokerProofs` | theorems, section 5 | |
| `MCOutboxRefinement`, `MCFetchQuery`, `MCSubscriber`, `MCTestBroker` | constants and symmetry for TLC | |

Composition: `OutboxRefinement` puts `OutboxTable` under `AtLeastOnce`, and `TestBroker`,
which steps the store of `FakeClient` by dispatch and by loops, is under the same
specification: code that a test passes against either meets one promise. The other
modules each take one neighbour of the table and reduce it to what that neighbour
can tell apart: `Subscriber` keeps of a row whether it is stored and by which claim
it is leased, `Consume` keeps its two counters, `FetchQuery` its deadline and the
state of its lease, `Broker` keeps of a subscriber whether it is busy.

A mutant is an operator beside the one it replaces, marked `Mutant`; it is a
plausible bug and no part of the specification.

## 3. The runs

| Run | Instance | What it shows |
|---|---|---|
| `table` | 2 rows, 3 claims, 2 payloads, `max_deliveries` 2, batches, a DLQ, one timer | leases exclude each other; the holder of a lease is never stale; handler runs are counted and stay within `max_deliveries`; nothing leaves the table without an outcome recorded for it; a dead letter is a faithful copy and alone; only the latest claim settles a row; a deadline only moves later; every step is one of `AtLeastOnce` |
| `fetch_query` | every table of 3 rows over 2 queues and 3 deadlines, 2 statements of limit 2 | a row is claimed once, and a fetch returns the oldest rows it can get over all branches, as many as it may; the lag sampled is the age of the next claim |
| `publish_txn` | 2 queues, 3 levels, 5 publishes | a commit delivers exactly the NOTIFYs of the queues it put something in for now, an extended timer counted whether it moved or not (`client.py:288`) |
| `subscriber` | 2 workers, 2 rows, 2 claims each, buffers of 2, 1 fault, 2 starts | the queue is never overfull, `join()` counts right, a clean drain leaves nothing, wakeups are not lost, events pair |
| `subscriber_live` | 1 row, 2 workers, 3 claims, 1 fault, 2 starts, fair | a drain ends by itself and every row of a running subscriber is dispatched |
| `consume` | every policy, strategy, DLQ, limit; 3 attempts, 1 delivery cut off | failures are retried, rejections chosen, acknowledged rows done; the gauge is what is in flight and what a drain timeout cut off, and both recorders count a verdict once and for a row that is gone, also when replies are lost |
| `retry_delay` | 4 kinds, multipliers 1 to 3, jitter 0, 50 and 200%, overflow at 64, ceiling 40, 8 attempts | delays stay in their band; the budgets, and nothing else, end the retries |
| `pool` | 2 subscribers, 1 worker each, a session, pools of 3 to 6, 2 faults, fair | a checkout finds a slot, none holds two, loops connect, sessions are served |
| `buffer_age` | leases of 6, replies, dispatches and deletes of up to 1, batches of 3 | buffered rows keep their lease |
| `broker` | 2 subscribers, 2 starts, 1 fault, fair | `stop()` returns, nothing runs and no lag is reported afterwards, no loop is orphaned, `ping` reports dead loops; all but for the loops of a start that crossed a stop, see 7 |
| `stop_start` | 1 subscriber | violation, see 7 |
| `test_broker` | 2 contexts, with and without loops, the same harness or another; 3 rows (2 for loops), 3 claims, 2 tasks, 1 worker, nesting 2 | a sync publish runs each row it stored, once; a loop context has its own rows and, unless a handler's `stop()` reaches it, its own loops; every step is one of `AtLeastOnce` |

Every module with state has its types as `TypeOK`; no run lists them, and section 5
proves them for seven modules.

Bounds, and why they are enough:

- `table`. A conflict of leases needs an old and a new claim of one row and, for
  batches, a second row claimed with either. `LeaseTTL = 0` and one tick mean that
  every lease of the first instant may have expired in the second; a retry with no
  delay makes a third claim possible before or after it. `max_deliveries` 2 is
  exceeded by the third claim.
- `fetch_query`. With two statements of limit 2 over three rows a branch can be cut
  by its limit, the union by its own, and each statement can skip what the other holds.
- `subscriber`. Two workers and a queue of two: a put-back meets a full queue, one
  worker flushes while the other handles; a fault at every await; the second start
  finds whatever the first stop left. The liveness run has one row because symmetry
  is not sound for it.
- `consume`. Three attempts pass the limits of 3 attempts and 2 deliveries; one delivery
  cut off (`MaxCuts`) leaves the gauge raised for all that follow it.
- `retry_delay`. The float limits are scaled down so that the eighth attempt is
  beyond the overflow of every multiplier above one.
- `pool`. One short of the demand (3), exact (4), one more for the session (5) and
  one to spare (6).
- `broker`. `MaxStarts` is two because a stop can outlive one stop and meet the
  start after it; more starts repeat that. One fault is a stop that raises or is
  cancelled, after which a start may meet a handler's stop that has yet to clear the tasks.
- `test_broker`. A row must be left over by one publish for another to take it, so
  three rows: one whose handler publishes, the nested one, one of the task beside it.
  Two contexts are one that is left and one that meets what it left behind; what
  unwinds out of two contexts at once does the same to the third. A row's lease has
  expired at the one tick, and the third claim exceeds `max_deliveries`. In a loop context
  `MaxLoopRows` keeps the ids to two, one in hand and one waiting; each worker asks for
  one stop at a time.
- The theorems of section 5 state the invariants of `table`, `subscriber`, `consume`,
  `fetch_query`, `publish_txn`, `broker` and `pool` for every instance, so for them the
  bounds matter only to what the runs show beside: that the interesting states
  are reached, and liveness.
- Symmetry is used for `fetch_query` (queues, fetchers), `subscriber` (rows, workers)
  and `test_broker` (tasks), none of which a definition orders.

`CHECK_DEADLOCK FALSE` is set throughout: every instance ends when its bounds are
used up, and the systems themselves may stop (a stopped broker, an empty table).
That nothing waits for ever is stated by liveness instead.

## 4. Fairness

- `Subscriber!FairSpec`: weak fairness of each loop's next step, of the delivery of a
  NOTIFY, of lease expiry (time passes) and of the steps of `stop()`. One event loop
  runs every ready task; queries are bounded by `query_timeout`; handlers are assumed
  to end. Publishing, faults, `start` and `stop` are not assumed, nor the drain timeout.
- `ConnectionPool!FairSpec`: weak fairness of the loops and of a session's close;
  strong fairness of a checkout, because SQLAlchemy's async pool serves waiters in turn.
- `Broker!FairSpec`: a drain ends at the latest with `graceful_timeout`, cancelled
  tasks unwind, leaving the sampler ends. Handlers need not end: the timeout covers them.

## 5. Proofs

Each module of proofs has one inductive invariant, a lemma per action (or per kind
of action) that it is kept, and the theorems that follow from it.

| Theorem | States | Module |
|---|---|---|
| `TypeCorrect`, `LeaseExclusive`, `HolderNeverStale` | `[]TypeOK`, `[]SingleHolder`, `[]HolderIsCurrent` | `OutboxTableProofs` |
| `OnlyLatestWrites`, `DeadlinesHold` | `OnlyLatestClaimWrites`, `DeadlineOnlyMovesLater` | `OutboxTableProofs` |
| `HandlerRunsBounded`, `NoRowLost`, `ArchiveFaithful` | `[]InvocationsBounded`, `[]NothingLost`, `[]DeadLettersFaithful` | `OutboxTableProofs` |
| `TableKeepsPromise` | `ImplementsAtLeastOnce` | `OutboxTableProofs` |
| `SubscriberTypeCorrect`, `MemoryAccounted` | `[]TypeOK`, `[]SubInv` | `SubscriberProofs` |
| `QueueNeverOverflows`, `JoinCountsRows`, `CleanDrainIsClean` | `[]InflightFits`, `[]TasksBalanced`, `[]DrainLeavesNothing` | `SubscriberProofs` |
| `NotifyNotLost`, `RoomIsNoticed`, `EventsPairUp` | `[]NoLostWakeup`, `[]RoomWakesFetch`, `[]EventsPaired` | `SubscriberProofs` |
| `ConsumeTypeCorrect`, `FailuresAreRetried`, `RejectionsAreChosen`, `AcknowledgedAreDone` | `[]TypeOK`, `[]FailedIsRetried`, `[]RejectedByChoice`, `[]AckedIsDone` | `ConsumeProofs` |
| `GaugeStaysTrue`, `VerdictsCountedOnce` | `[]GaugeIsTrue`, `[]VerdictCountedOnce` | `ConsumeProofs` |
| `FetchTypeCorrect`, `NoRowClaimedTwice`, `OldestRowsFirst`, `LagOfNextClaim` | `[]TypeOK`, `[]ClaimedOnce`, `[]OldestFirst`, `[]LagIsOfNextClaim` | `FetchQueryProofs` |
| `CommitsNotify`, `NotifiesCommit` | `[]CommittedAreNotified`, `[]NotifiedAreCommitted` | `PublishTxnProofs` |
| `BrokerTypeCorrect`, `NoLoopIsOrphaned`, `NothingRunsAfterStop`, `PingSeesDeadLoops` | `[]TypeOK`, `[]NoOrphanLoops`, `[]StopStopsAll`, `[]PingReportsDeadLoops` | `BrokerProofs` |
| `PoolTypes`, `CheckoutsNeverWait`, `SlotsAreReturned` | `ConnectionPool`: `[]TypeOK`, `[]NeverWaits`, `[]OneSlotEach` | `LimitsProofs` |
| `BufferedRowsKeepLease` | `BufferAge`: `[]BufferedKeepLease` | `LimitsProofs` |
| `DelaysStayInBand`, `OnlyBudgetsEndRetries` | `RetryDelay`: `[]DelayInBand`, `[]BudgetsDecide` | `LimitsProofs` |
| `TestBrokerTypeCorrect`, `PublishesRunTheirRows`, `ContextsStartFresh` | `[]TypeOK`, `[]PublishRunsItsRows`, `[]ContextStartsFresh` | `TestBrokerProofs` |
| `FakeKeepsPromise` | `FakeImplementsAtLeastOnce` | `TestBrokerProofs` |

All are theorems of `Spec`, from the assumption on the constants that their module
names; no theorem assumes fairness. `LimitsProofs` is about three modules: it extends
`ConnectionPool` and instantiates the other two as `Age` and `Delay`, so the assumption
of these (`Sizes`, `Knobs`) is a hypothesis of their theorems.

**Leases** (`OutboxTableProofs`), for any number of rows, copies, claims, timers, any
`lease_ttl_seconds`, `max_deliveries` and fetch limit, from `ConstantsAssumption`.
`SingleHolder` is not inductive: that two copies do not share a token needs that
tokens are fresh and that a claim makes one copy of a row. The invariant is
`LeaseInv == TypeOK /\ IdsInOrder /\ ClaimsDistinct /\ HolderIsCurrent`. A fetch draws a
token above every token so far, so its copies differ from all others and all earlier
copies of its rows lose the lease (`ClaimLeaseInv`); a step of a copy keeps id, token
and what was claimed (`BecomeLeaseInv`); an insert, an extend, a cancel touch rows
nobody has leased, hence nobody holds (`UnleasedHasNoHolder`), and a write takes its
copy out of memory (`FewerHoldersLeaseInv`). Two holders of a row have the row's
token, so `ClaimsDistinct` makes them one. The two action properties need one more
invariant, `LeasedAreDue`: a leased row is past its deadline, for claims only take due
rows and extends only unleased ones. So the deadline a retry writes, from the clock
of now, is not before the one it replaces; and a step that settles or unleases a row
is a write by a copy that holds its lease, which is of its latest claim.

**Histories** (in the same module), from the same assumption. How often a handler ran is
bounded by a count of deliveries, and neither a run nor a delivery belongs to the lease:
a copy whose lease is long lost still runs. So `HistoryInv` adds to `LeaseInv` that copies
of a row are of different deliveries of it (`DeliveriesDistinct`) and that the runs of a
row are at most the deliveries within `max_deliveries` that no copy in a queue keeps for
later (`Spent`, `RunsAreDeliveries`); a handler that starts takes one such delivery out of
the queue, so both sides grow by one. `AttemptsAreRuns` leaves the holder of the lease the run it
will count. `VerdictsRecorded` says that a write under way carries a verdict that was
recorded; with `HolderIsCurrent` that verdict is of the payload the row has when the write
lands, which is `NothingLost`, and what it archives is `DeadLettersFaithful`. `PromiseStep` then
maps every step to `AtLeastOnce`: an insert accepts, a handler that starts runs and
an acknowledgement it records succeeds (`DeliveringRuns`), a landed write removes, as
acknowledged only what has succeeded (`WritingRemoves`), and all else is a stutter; that the
limit on the runs holds and that a write finds its success recorded is what `HistoryInv` is for.

**Subscriber** (`SubscriberProofs`), for any finite sets of rows and workers, any
`fetch_batch_size` and flush batch, any number of claims, faults and restarts, from
`SubscriberAssumption`. No property holds alone: `join()` counts what is in
memory only if no row is there twice (`Placed`), that needs claims to be fresh (`Traced`,
`TableSound`), a clean drain leaves nothing only if the count is right and the fetch loop
holds no lock (`Control`), and the queue has room for a reply only because the free slots
that were counted before the query cannot be used by others (`Fits`). `SubInv` is
their conjunction. A worker has many steps but they differ in little: each settles some of its
rows (none, the row in hand, the buffer, or moves that row into the buffer) and then rests or takes
the next of the queue (`Step`); `StepKeeps` proves the invariant for all of them at once, and one
lemma per action shows that it is such a step. The count is by cardinality (`Recount`,
`SlotsSplit`, `Balanced`), which needs no induction. The steps of the fetch loop and of
the database leave the workers alone (`OutsideKeeps`); `ReplyOfClaim` shows that a reply is
fresh and fits. When a drain ends cleanly, `unfinished` is 0, so nothing is counted
(`NothingCounts`), so nothing is held (`NothingHeld`).

**Consume** (`ConsumeProofs`), for every `max_attempts` and `max_deliveries`, from
`ConsumeAssumption`. The properties speak of the end of a delivery; the invariant says what
is known at each point on the way. `ByHandOnly`: before the acknowledgement only the handler
has recorded an outcome. `Progress`: how far handler and publishers got, so that an
exception found later is told from a success. `Captured`: what the acknowledgement
middleware saw. `OutcomeJustified`: from there on the outcome has its reason. `CountInv` adds the two
properties of the recorders themselves, which are inductive once it is known whether the
row was dispatched (`DispatchedRows`) and that an attempt is counted exactly with the
outcome (`AttemptCounted`). A worker that a timed-out drain cancels leaves the gauge as it
is (`CutOff`); `cut` counts these, and a new process begins with neither.

**Fetch statement** (`FetchQueryProofs`), for any number of rows, fetchers and queues, any
deadlines and limit, from `FetchAssumption` and `NoFetcherAssumption`. `ClaimedOnce` needs
that a statement under way has the lock of all it found (`LocksHeld`) and that nobody
leases such rows meanwhile (`FoundUnclaimed`), for `SKIP LOCKED` only protects until the locks are
released. `OldestFirst` needs that each branch scanned so far gave the first rows it could
(`ScansDone`) and that the snapshot shows each row to one branch only (`SnapshotSplit`);
`FirstOfParts` then shows that the first `Limit` rows of all branches are among the first
`Limit` of each. It and `LagOfNextClaim` use that some row is oldest; `OldestExists` gets that
from the well-foundedness of the subsets of a finite set, where induction on the number of
rows is out of the prover's reach.

**Insert and NOTIFY** (`PublishTxnProofs`), for any queues, nesting and number of publishes,
from `PublishAssumption`. `TxnInv` speaks of every frame of the open transaction: what it
has in its rows or its memo it has notified itself (`FramesCovered`), and it notifies only
queues it has rows in. A frame whose NOTIFY failed is excepted while the transaction
is broken, and the only way on is to drop it. The commit of the last frame
delivers what it notified, which is then what it put in.

**Broker** (`BrokerProofs`), for any finite set of subscribers, any number of starts and
faults, from `BrokerAssumption`. `NoOrphanLoops` is inductive with `CancelsAll`: a `stop()` that has come
to cancel has among its tasks every running loop but those of a start made since, so clearing the
list afterwards forgets only these, which are `crossed`: such a start is possible where the
broker's own stop of the subscriber raised or was interrupted, since the application then
never waited for the tasks the handler's stop waits for. `StopStopsAll` is about the end of a gather
over all subscribers, and `DoneIsStopped` is what holds while it waits: each subscriber is
still being stopped, is stopped but for crossed loops, or raised; a second `stop()` by a handler does not undo that,
for nothing starts while the application awaits. `FlagFollows` says where the sampler and its
gauges are. `PingReportsDeadLoops` needs that a running subscriber has listed its loops,
or they are crossed (`RunningIsListed`). That a subscriber has at most two `stop()` calls is part of the types and follows from
`OneStopEach`.

**Connections** (`LimitsProofs`), for any finite sets of loops and sessions and any
capacity, from `PoolAssumption`. `PoolInv` adds to the types that a slot is
held by one that is connecting or serving, one per holder, and that a stopped
broker's loops are off. Whoever wants a slot holds none, so the holders are at most
all others: one less than the demand the capacity covers.

**Delete buffer** (`LimitsProofs`), for any sizes and times with `Sizes`, and a reply, a
dispatch and a delete that take half a lease at most. In `MCBufferAge.cfg` the three just
make half a lease; with `MaxDispatch` two ticks longer there TLC finds the property violated,
so a hypothesis on these times is needed. The worker looks only at the
head of the buffer. `InOrder` says that this is enough: whatever is behind another in the
queue or the buffer was claimed no earlier, or was put back. `OnTime` bounds what is still to
come before the delete by the claim of the head, and a lone row by when it was
finished; `AllStamped` ties claims to leases.

**Retries** (`LimitsProofs`), for every strategy with `Knobs`. That a power of the multiplier is a
positive number is by induction, which the library has as theorems with an operator for a parameter;
`AllUpTo` states it for a set instead, and follows from the well-foundedness of the subsets of
a finite one. With it `PowersDefined` shows that the recursive function exists and satisfies its
equation. `SpreadGrows` and `CapGrows` say that jitter and caps keep the order of delays, which
puts every answer into its band (`AnswersInBand`), where the power or the product has overflowed
too. `RetryInv` adds that a row that waits was allowed its delay by both budgets.

**Test broker** (`TestBrokerProofs`), for any number of rows, claims, contexts, workers and
deliveries, any tasks, nesting of publishes and size of the queue, from `FakeAssumption` and
`TestAssumption`. `PublishRunsItsRows` looks only at the end, where no publish is under way; the
invariant `BrokerInv` has to say where a row that has not run waits meanwhile. `SyncInv` says
that every such row is on a list (`Covered`): the store's, or one that a publish took from it;
and that it is on one list only, once (`WaitOK`), for two publishes that both held it would both
run it. `QueueInv` is the counterpart in a loop context: the copies of a row in the queue are of
later and later deliveries, and it has run less often than each of them, so that the run a worker
starts stays within `max_deliveries`. `WorkersInv` ties what a worker has in hand to a run that
was counted and, when it is about to acknowledge, to a success that was recorded; in a sync
context, which has no worker of its own, that row is of a store left behind. `LoopsInv` says whose the loops are. It
speaks of two kinds of loop context: in one that no handler's `stop()` has reached (`Quiet`: none
was asked for in it, and none was under way when it was entered) the subscriber runs with
exactly the loops of the last spawn; in any other, `tasks` lists those or nothing. A `stop()` that is under
way makes the context it finds one of the second kind, and its steps only take loops away, empty
the queue and move workers towards their end; `StopMoved` says this once for `StopBegins`,
`DrainEnds`, `StopEnds`, `StopsInPlace` and a fetch loop that ends, and `StopMovedKeeps`
proves the invariant for all of them. `ContextStartsFresh` follows from `LoopsInv` with the
count of the workers. `PromiseStep` then maps every step to `AtLeastOnce`: an insert
in either mode accepts, a handler that starts runs, its return with an acknowledgement
succeeds, a landed write or a cancel removes; a new context starts with an empty store, and is
a stutter because the rows of the one before stay as they were, for nobody to run.

Each of the invariants was first checked by TLC on the run of its module.

## 6. What is model-checked only, and what is not modelled

Only TLC:

- liveness, for the prover has no fairness: `Subscriber` drains and dispatches, `Broker`
  stops, loops connect and sessions are served, with the fairness of section 4;
- `StopStartFetchesAgain`, which does not hold.

Simplified in what is modelled: payloads are version numbers and queues are left out of
`OutboxTable`; `Subscriber` has no clock, so timeouts, expiry and the age of a buffer happen at
any moment; a subscriber of `Broker` has one `stop()` of a handler at a time, and its drain
timeouts are known by their order only; `RetryDelay` leaves out multipliers below one and the
NaN of an infinite delay with a jitter of exactly -100%; middlewares other than one that owns a
session are left out of `Consume`; of the recorders' series it has those whose events must
agree, not the plain counters. `TestBroker` has one subscriber, whose deletes are not batched.
Its handlers settle their row, or leave it to be rejected, or, once the subscriber has stopped,
to its lease (`MayAbandon`); a cancelled one lets the cancellation through. Several contexts of
it stand for one broker object that is tested again and again; a context is left once its
publishes have returned, one without loops is entered once no fetch loop is left, and there the
clock stands still, which is looked at only to extend a timer. A handler of a loop may stop the
subscriber, once at a time for each worker; the drain of that `stop()` may end at any time,
joined or timed out, a `stop()` that a worker outside the task list runs in place and its write
after it are two steps, and a worker that is handed a row by the queue takes it before that
queue is replaced. In `Consume`, where a delivery goes on after its subscriber stopped (`Stop`),
it is one whose user code swallows the cancellation or whose worker is no longer listed; every
other is `CutOff`.

Not modelled: schema validation and autovacuum (reads of
the catalog, no state), registrators, routers, FastAPI (wiring before start),
validation of arguments, encoding of bodies and headers, the middlewares of Prometheus and
OpenTelemetry (names and tags), the `published` metric, the warnings of `start()`,
`fetch_unprocessed` (a read).

## 7. Where code and text disagree

Found by a violation run:

- `stop_start` (`StopStartFetchesAgain`): a handler's `stop()` begun while the
  application's drains waits on a queue that has been replaced, and cancels the loops
  of the next start. `subscriber/usecase.py:278` wants a stop and start to fetch again.

Stated as definitions that do not hold, each seen violated by TLC with the run of its
module (no run is kept for them):

| Definition | Text | What happens |
|---|---|---|
| `OutboxTable!ExtendedTimerWaits` | `docs/usage/timers.md:143`: a timer will not fire before the deadline asked for | a copy claimed before the extend, whose lease was then lost and released, is still dispatched |
| `Subscriber!StoppedClosesAll` | `docs/usage/observability.md:90`: every `dispatched` is closed | a drain timeout cancels a handler; `CancelledError` leaves no event (`CutOff` of `Consume`, whose gauge keeps the count) |
| `Subscriber!WritesOnNewConnection` | `docs/usage/subscriber.md:438`: workers drop their connections before writing again | the generation is looked at only with the next row |
| `Consume!UnstartedRelayKeepsRow` | `docs/usage/relay.md:56`: the row is never lost | attempts run out and the row is deleted as `retry_terminal` |
| `Consume!DriftShows` | `docs/usage/dlq.md:174`, `metrics/__init__.py:39`, `docs/operations/checklist.md:50`: a drifted dead-letter table shows as `nacked_terminal` without `dlq_written` | the statement raises before either is emitted, so they never diverge; `dispatch_abandoned` and the error log do show it |
| `BufferAge!DeletedBeforeExpiry` | `docs/usage/subscriber.md:187` | a dispatch of more than half a lease holds back the delete |
| `BufferAge!OldestDecides` | `docs/usage/subscriber.md:184` | only the first row's age is looked at, and a row put back is not first |
| `Broker!PingReadsRunningFlag` | `tests/test_unit.py:722` | `ping()` never reads `running` and answers True after a stop |
| `Broker!NothingRunsOnceStopped` | `subscriber/usecase.py:339-341`: the loops have unwound before `stop()` returns | the broker's stop of a subscriber raises or is cancelled while a handler's waits for the tasks it cancelled; the application starts again, and the handler's `tasks.clear()` takes the new loops off the list, so that the next `stop()` neither cancels nor awaits them |
| `TestBroker!StopStaysInItsContext` | `testing.py:637-641`: a re-entered context starts fresh | the task of a handler's `stop()` is in no task list; it survives the context, and clears `running` and cancels the loops of the next |
| `TestBroker!OneWorkerPerSlot` | `testing.py:617-620`, `637-641`: a `max_workers` of 1 is one worker, and none of an earlier context fires in a later one | a worker cancelled in its handler meets `task_done()` on the new, empty queue when it unwinds in the next context; the `ValueError` replaces the cancellation, the worker backs off, finds the subscriber running and serves the new context beside its own worker |

## 8. The plan

Done: the modules of section 2 with their runs; every safety property that a run checks
is a theorem, both refinements of `AtLeastOnce` included, but for `StopStartFetchesAgain`,
which is false.

Next, extending the model:

1. The producer's side of the recorders (`published` with count, conflict, error) in
   `PublishTxn`, whose proofs it takes along.
2. `Subscriber` over several queues and two replicas on one table.
3. `TestBroker` with batched deletes and several subscribers.
