----------------------------- MODULE TestBroker -----------------------------
(***************************************************************************)
(* TestOutboxBroker around a broker with one subscriber.  In a sync        *)
(* context a publish runs the handlers of what it stored before it         *)
(* returns, and handlers publish in turn; in a loop context the real fetch *)
(* and worker loops run on the fake client.  Leaving a loop context        *)
(* cancels the loops without awaiting them, and the broker may be put in a *)
(* context again while they unwind.  A handler may stop the subscriber: in *)
(* a loop context a task of its own runs stop(), which nothing cancels.    *)
(*                                                                         *)
(* An action is what runs between two awaits.  The fake client never       *)
(* awaits; handlers and the middlewares around them may.  A drain ends at  *)
(* any time, joined or timed out.  Deletes are not batched here            *)
(* (terminal_flush_batch_size = 1), and polls, which the fetch loop may    *)
(* make at any time, stand for wakeups too.                                *)
(***************************************************************************)
EXTENDS FakeClient

CONSTANTS
    Task,           \* tasks of the test that publish side by side
    MaxLoopRows,    \* bound on the ids drawn when a loop context is open
    MaxDepth,       \* bound on publishes nested in each other's handlers
    MaxContexts,    \* bound on the contexts entered; the last stays open
    MaxWorkers,     \* max_workers
    MaxDeliveries,  \* max_deliveries
    QueueMax        \* fetch_batch_size, the size of _inflight

ASSUME TestAssumption ==
    /\ MaxLoopRows \in Nat /\ MaxLoopRows =< MaxRows
    /\ MaxDepth \in Nat /\ MaxContexts \in Nat
    /\ MaxWorkers \in Nat \ {0} /\ MaxDeliveries \in Nat \ {0} /\ QueueMax \in Nat \ {0}

VARIABLES
    store,   \* the fake client
    now, tokens,
    harness, \* is its context open, in loop mode; how many so far; _loops_spawned
    sub,     \* running and _stopping of the subscriber; the spawns its tasks list
    call,    \* [Task -> Seq of frames]: the publishes it awaits, outermost first
    queue,   \* _inflight: its items and the count join() waits on
    worker, fetchers, spawns,  \* worker loops, fetch loops, times they were spawned
    stop,    \* the stop() that a worker's handler asked for
    hist     \* what has become of each row

vars == <<store, now, tokens, harness, sub, call, queue, worker, fetchers, spawns, stop, hist>>

\* One spawn for each context, and one too many.
Spawn == 1 .. MaxContexts + 1
Worker == Spawn \X (1 .. MaxWorkers)
Copy == [id: Id, token: Token, deliveries: Nat, from: 1 .. MaxContexts]
NoCopy == [id |-> 0, token |-> 0, deliveries |-> 0, from |-> 0]

\* A publish in sync mode: the row it is dispatching, how far, the rows after it.
Frame == [id: Id, token: Token, at: {"entering", "handling", "leaving"},
          outcome: {"none", "ack", "retry", "dead"}, raises: BOOLEAN, stops: BOOLEAN,
          todo: Seq(Id)]
\* A worker loop; its handler stops the subscriber.
Loop == [at: {"off", "idle", "handling", "leaving", "stopping", "unwinding", "backoff"},
         outcome: {"none", "ack", "retry", "dead"}, copy: Copy \cup {NoCopy}, stops: BOOLEAN]
Off == [at |-> "off", outcome |-> "none", copy |-> NoCopy, stops |-> FALSE]
Idle == [Off EXCEPT !.at = "idle"]

\* A stop(): created, at its drain, at its gather of the workers it cancelled.
StopCall == [at: {"none", "asked", "drain", "cancel"}, waits: SUBSET Worker]
NoStop == [at |-> "none", waits |-> {}]

\* left: how a row left the store.  excused: rows no publish owes a run, for
\* they were fed, or their publish raised, or the context was left before.
\* caught: workers still busy when subscriber.tasks was cleared.  stopped: the
\* contexts a worker's handler asked for a stop in.  late: those entered
\* before everything of an earlier one's stop had ended.
TypeOK ==
    /\ StoreOK(store)
    /\ now \in 0 .. MaxTime /\ tokens \in Token
    /\ harness \in [open: BOOLEAN, loop: BOOLEAN, count: 0 .. MaxContexts, spawned: BOOLEAN]
    /\ sub \in [running: BOOLEAN, stopping: BOOLEAN, tasks: SUBSET Spawn]
    /\ call \in [Task -> Seq(Frame)]
    /\ queue \in [items: Seq(Copy), unfinished: Nat]
    /\ worker \in [Worker -> Loop]
    /\ fetchers \subseteq Spawn /\ spawns \in {0} \cup Spawn
    /\ stop \in [Worker -> StopCall]
    /\ hist \in [left: [Id -> {"unborn", "stored", "acked", "dead", "cancelled"}],
                 runs: [Id -> Nat], succeeded: SUBSET Id, buried: SUBSET Id,
                 excused: SUBSET Id, caught: SUBSET Worker,
                 stopped: SUBSET (1 .. MaxContexts), late: SUBSET (1 .. MaxContexts)]

EmptyQueue == [items |-> << >>, unfinished |-> 0]
Init ==
    /\ store = NewStore(1)
    /\ now = 0 /\ tokens = 0
    /\ harness = [open |-> FALSE, loop |-> FALSE, count |-> 0, spawned |-> FALSE]
    /\ sub = [running |-> FALSE, stopping |-> FALSE, tasks |-> {}]
    /\ call = [t \in Task |-> << >>]
    /\ queue = EmptyQueue
    /\ worker = [w \in Worker |-> Off]
    /\ fetchers = {} /\ spawns = 0
    /\ stop = [w \in Worker |-> NoStop]
    /\ hist = [left |-> [i \in Id |-> "unborn"], runs |-> [i \in Id |-> 0],
               succeeded |-> {}, buried |-> {}, excused |-> {}, caught |-> {},
               stopped |-> {}, late |-> {}]

loopVars == <<queue, worker, fetchers, spawns, stop>>
-----------------------------------------------------------------------------
\* What the store does, with what history keeps of it.

InSync == harness.open /\ ~harness.loop
InLoop == harness.open /\ harness.loop

\* The write of an outcome by a copy, under its token (_write_outcome).
Written(s, i, token, outcome, delay) ==
    IF outcome = "retry" THEN MarkedPending(s, i, token, now + delay)
                         ELSE Deleted(s, i, token, outcome = "dead")
Leaves(h, s, i, token, outcome) ==
    IF TokenMatches(s, i, token) /\ outcome # "retry"
    THEN [h EXCEPT !.left[i] = IF outcome = "ack" THEN "acked" ELSE "dead"] ELSE h

\* The rows that s2 has and s1 does not.
New(s1, s2) == Live(s2) \ Live(s1)
-----------------------------------------------------------------------------
\* Entering and leaving a context.

\* Mutant: the second start() spawns again (B14).
SpawnedAlways(loops, loop) ==
    IF ~loop THEN loops ELSE
    LET k == loops.spawns + 1 IN
    [spawned |-> TRUE, spawns |-> k, fetchers |-> loops.fetchers \cup {k},
     tasks |-> loops.tasks \cup {k},
     worker |-> [w \in Worker |-> IF w[1] = k THEN Idle ELSE loops.worker[w]]]
\* The loops after _fake_start: in loop mode, and once for each context.
Spawned(loops, loop) ==
    IF ~loop \/ loops.spawned THEN loops ELSE
    LET k == loops.spawns + 1 IN
    [spawned |-> TRUE, spawns |-> k, fetchers |-> loops.fetchers \cup {k},
     tasks |-> loops.tasks \cup {k},
     worker |-> [w \in Worker |-> IF w[1] = k THEN Idle ELSE loops.worker[w]]]

\* async with the same harness again, or with a new one, whose store is new
\* (ids go on, so that history can tell the rows apart).  start() is called
\* twice.  A sync context is entered once every fetch loop has ended (a bound).
Enter(loop, same) ==
    /\ ~harness.open /\ harness.count < MaxContexts
    /\ same => harness.count > 0 /\ loop = harness.loop
    /\ ~loop => fetchers = {}
    /\ LET before == [spawned |-> same /\ harness.spawned, spawns |-> spawns,
                      fetchers |-> fetchers, tasks |-> sub.tasks, worker |-> worker]
           loops == Spawned(Spawned(before, loop), loop)
       IN  /\ worker' = loops.worker /\ fetchers' = loops.fetchers /\ spawns' = loops.spawns
           /\ harness' = [open |-> TRUE, loop |-> loop, count |-> harness.count + 1,
                          spawned |-> loops.spawned]
           /\ sub' = [running |-> TRUE, stopping |-> FALSE, tasks |-> loops.tasks]
    /\ LET fresh == fetchers = {} /\ \A w \in Worker : stop[w].at = "none"
           h == [hist EXCEPT !.late = IF fresh THEN @ ELSE @ \cup {harness.count + 1}]
       IN  IF same
           THEN store' = store /\ hist' = h
           ELSE /\ store' = NewStore(store.nextId)
                /\ hist' = [h EXCEPT !.buried = @ \cup store.dlq,
                                     !.left = [i \in Id |-> IF i \in Live(store) THEN "stored" ELSE @[i]]]
    /\ UNCHANGED <<now, tokens, call, queue, stop>>

\* task.cancel() on what is in subscriber.tasks: a worker that waits ends, a
\* handler unwinds.
CancelledLoop(w) ==
    IF w[1] \notin sub.tasks THEN worker[w] ELSE
    CASE worker[w].at \in {"idle", "backoff"} -> Off
      [] worker[w].at \in {"handling", "leaving"} -> [Off EXCEPT !.at = "unwinding"]
      [] OTHER -> worker[w]

\* _reset_inflight: a worker that waits on the queue of before waits for good.
Reset == EmptyQueue
Parked(l) == IF l.at = "idle" THEN Off ELSE l
StillBusy == {w \in Worker : worker'[w].at # "off"}

\* Leaving the context, in sync mode after all its publishes have returned:
\* what was stored and not dispatched is forgotten.
Exit ==
    /\ harness.open /\ harness.count < MaxContexts
    /\ \A t \in Task : call[t] = << >>
    /\ harness' = [harness EXCEPT !.open = FALSE, !.spawned = FALSE]
    /\ sub' = [sub EXCEPT !.running = FALSE, !.tasks = {}]
    /\ store' = Taken(store)
    /\ IF harness.loop
       THEN /\ worker' = [w \in Worker |-> Parked(CancelledLoop(w))]
            /\ fetchers' = fetchers \ sub.tasks
            /\ queue' = Reset
       ELSE UNCHANGED <<worker, fetchers, queue>>
    /\ hist' = [hist EXCEPT !.excused = @ \cup Range(store.dispatchable),
                            !.caught = @ \cup StillBusy]
    /\ UNCHANGED <<now, tokens, call, spawns, stop>>
-----------------------------------------------------------------------------
\* Publishing, and the dispatch of a sync context.

\* The frame of a publish goes on to its next row: the first of todo that has
\* a subscriber and still exists is claimed in place (_sync_dispatch).  A
\* stopped subscriber's consume() skips the handlers, and the rows stay leased
\* under tokens nobody keeps.  Without a row left the publish returns.
Dispatch(t, s, todo, below, running) ==
    LET ready == {k \in DOMAIN todo : todo[k] \in Live(s) /\ s.rows[todo[k]].queue \in Served}
    IN  \/ /\ ready = {}
           /\ store' = s
           /\ call' = [call EXCEPT ![t] = below]
           /\ UNCHANGED tokens
        \/ \E k \in ready :
              /\ running /\ tokens < MaxClaims
              /\ \A j \in ready : k =< j
              /\ tokens' = tokens + 1
              /\ store' = Claimed(s, {todo[k]}, tokens', now)
              /\ call' = [call EXCEPT ![t] = Append(below,
                    [id |-> todo[k], token |-> tokens', at |-> "entering", outcome |-> "none",
                     raises |-> FALSE, stops |-> FALSE,
                     todo |-> SubSeq(todo, k + 1, Len(todo))])]
        \/ /\ ready # {}
           /\ ~running /\ tokens < MaxClaims
           /\ tokens' = tokens + 1
           /\ store' = Claimed(s, {todo[k] : k \in ready}, tokens', now)
           /\ call' = [call EXCEPT ![t] = below]

\* The store after a publish, of one row or timer or of a batch.
Publishes ==
    {Inserted(store, q, timer, now + d, c) : q \in Queue, timer \in Timer \cup {NoTimer},
                                             d \in Delay, c \in {"ignore", "extend"}}
    \cup {InsertedBatch(store, q, NoTimer, now + d, n) : q \in Queue, d \in Delay, n \in 2 .. MaxRows}

\* The ids that may still be drawn, a bound.
LastId == IF harness.loop THEN MaxLoopRows ELSE MaxRows

\* broker.publish under the test broker, by the test or by the innermost
\* handler of its task: the real producer inserts, then _dispatch_stored takes
\* what was stored.  In a loop context it only wakes the loops.
Publish(t) ==
    /\ harness.open
    /\ Len(call[t]) < MaxDepth
    /\ call[t] # << >> => Last(call[t]).at = "handling"
    /\ \E s \in {p \in Publishes : p.nextId =< LastId + 1} :
          IF harness.loop
          THEN store' = Taken(s) /\ UNCHANGED <<tokens, call>>
          ELSE Dispatch(t, Taken(s), s.dispatchable, call[t], sub.running)
    /\ UNCHANGED <<now, harness, sub, loopVars, hist>>

\* The handler of the innermost publish starts, and returns or raises.  The
\* outcome is what the ack policy, or the handler itself, has recorded.
\* StopConsume or SystemExit stops the subscriber; a configuration error
\* writes the outcome and raises out of publish.
Top(t, frame) == [call EXCEPT ![t] = Append(Front(@), frame)]
HandlerStarts(t) ==
    /\ call[t] # << >> /\ Last(call[t]).at = "entering"
    /\ call' = Top(t, [Last(call[t]) EXCEPT !.at = "handling"])
    /\ hist' = [hist EXCEPT !.runs[Last(call[t]).id] = @ + 1]
    /\ UNCHANGED <<store, now, tokens, harness, sub, loopVars>>

HandlerReturns(t, outcome, raises, stops) ==
    /\ call[t] # << >> /\ Last(call[t]).at = "handling"
    /\ ~(raises /\ stops)
    /\ call' = Top(t, [Last(call[t]) EXCEPT !.at = "leaving", !.outcome = outcome,
                                           !.raises = raises, !.stops = stops])
    /\ hist' = IF outcome = "ack" THEN [hist EXCEPT !.succeeded = @ \cup {Last(call[t]).id}] ELSE hist
    /\ UNCHANGED <<store, now, tokens, harness, sub, loopVars>>

\* A row that its handler has left unsettled is rejected, unless the
\* subscriber is stopped by then: it stays under its lease.
MayAbandon(outcome, running) == outcome = "dead" /\ ~running

\* A stop() the handler asked for is run in place, with nothing to drain or to
\* cancel.  The outcome is written and the publish goes on, or raises and its
\* other rows are never dispatched.
OutcomeWritten(t) ==
    LET f == Last(call[t])
        running == sub.running /\ ~f.stops
        Continue(s) == IF f.raises
                       THEN store' = s /\ call' = [call EXCEPT ![t] = Front(@)] /\ UNCHANGED tokens
                       ELSE Dispatch(t, s, f.todo, Front(call[t]), running)
        Excused(h) == IF f.raises THEN [h EXCEPT !.excused = @ \cup Range(f.todo)] ELSE h
    IN  /\ call[t] # << >> /\ f.at = "leaving"
        /\ sub' = IF f.stops THEN [running |-> FALSE, stopping |-> TRUE, tasks |-> {}] ELSE sub
        /\ \/ /\ \E d \in IF f.outcome = "retry" THEN Delay ELSE {0} :
                     Continue(Written(store, f.id, f.token, f.outcome, d))
              /\ hist' = Excused(Leaves(hist, store, f.id, f.token, f.outcome))
           \/ /\ MayAbandon(f.outcome, running)
              /\ Continue(store)
              /\ hist' = Excused(hist)
        /\ UNCHANGED <<now, harness, loopVars>>
-----------------------------------------------------------------------------
\* Around the broker's publish: feed(), an insert on the client itself, and
\* cancel_timer.  A row inserted that way goes with the next publish (to a loop
\* context it is as one fed).
Feed ==
    /\ harness.open /\ store.nextId =< LastId
    /\ \E q \in Queue, timer \in Timer \cup {NoTimer}, d \in Delay :
          /\ store' = Fed(store, q, timer, now + d)
          /\ hist' = IF InSync THEN [hist EXCEPT !.excused = @ \cup New(store, store')] ELSE hist
    /\ UNCHANGED <<now, tokens, harness, sub, call, loopVars>>

InsertDirectly ==
    /\ InSync /\ store.nextId =< MaxRows
    /\ \E q \in Queue, d \in Delay : store' = Inserted(store, q, NoTimer, now + d, "ignore")
    /\ UNCHANGED <<now, tokens, harness, sub, call, loopVars, hist>>

CancelTimer ==
    /\ \E q \in Queue, timer \in Timer : \E i \in Cancellable(store, q, timer) :
          /\ store' = Cancelled(store, i)
          /\ hist' = [hist EXCEPT !.left[i] = "cancelled"]
    /\ UNCHANGED <<now, tokens, harness, sub, call, loopVars>>
-----------------------------------------------------------------------------
\* The loops of a loop context.

\* A pass of the fetch loop: never awaits, for the fake does not.
Fetch(k) ==
    LET free == QueueMax - Len(queue.items)
        refillAt == IF QueueMax < 2 THEN 1 ELSE QueueMax \div 2
        CopyOf(i) == [id |-> i, token |-> tokens + 1, deliveries |-> store.rows[i].deliveries + 1,
                      from |-> harness.count]
    IN  /\ k \in fetchers /\ sub.running /\ ~sub.stopping
        /\ free >= refillAt /\ tokens < MaxClaims
        /\ tokens' = tokens + 1
        /\ \E n \in 1 .. free : \E ids \in [1 .. n -> Eligible(store, now)] :
              /\ IsFetched(store, now, free, ids)
              /\ store' = Claimed(store, Range(ids), tokens', now)
              /\ queue' = [items |-> queue.items \o [m \in 1 .. n |-> CopyOf(ids[m])],
                           unfinished |-> queue.unfinished + n]
        /\ UNCHANGED <<now, harness, sub, call, worker, fetchers, spawns, stop, hist>>

\* It sees that the subscriber stops, or has stopped.
FetchEnds(k) ==
    /\ k \in fetchers /\ (sub.stopping \/ ~sub.running)
    /\ fetchers' = fetchers \ {k}
    /\ UNCHANGED <<store, now, tokens, harness, sub, call, queue, worker, spawns, stop, hist>>

\* task_done() on the queue of now.  With nothing to count down it raises,
\* which ends what the worker was about in a backoff, a cancellation too.
TaskDone(w, then, n) == [worker EXCEPT ![w] = IF n = 0 THEN [Off EXCEPT !.at = "backoff"] ELSE then]
Less(n) == IF n = 0 THEN 0 ELSE n - 1
NextRow == IF sub.running THEN Idle ELSE Off

\* A worker takes a row.  One delivered too often is given up on at once; once
\* the subscriber has stopped, any other is left to its lease.
Take(w) ==
    LET c == Head(queue.items)
        tooOften == c.deliveries > MaxDeliveries
    IN  /\ worker[w].at = "idle" /\ queue.items # << >>
        /\ IF tooOften \/ ~sub.running
           THEN /\ store' = IF tooOften THEN Written(store, c.id, c.token, "dead", 0) ELSE store
                /\ hist' = IF tooOften THEN Leaves(hist, store, c.id, c.token, "dead") ELSE hist
                /\ worker' = TaskDone(w, NextRow, queue.unfinished)
                /\ queue' = [items |-> Tail(queue.items), unfinished |-> Less(queue.unfinished)]
           ELSE /\ worker' = [worker EXCEPT ![w].at = "handling", ![w].copy = c]
                /\ hist' = [hist EXCEPT !.runs[c.id] = @ + 1]
                /\ queue' = [queue EXCEPT !.items = Tail(@)]
                /\ UNCHANGED store
        /\ UNCHANGED <<now, tokens, harness, sub, call, fetchers, spawns, stop>>

\* Its handler returns, raises, or stops the subscriber (StopConsume, SystemExit).
Returns(w, outcome, stops) ==
    /\ worker[w].at = "handling"
    /\ worker' = [worker EXCEPT ![w].at = "leaving", ![w].outcome = outcome, ![w].stops = stops]
    /\ hist' = IF outcome = "ack"
               THEN [hist EXCEPT !.succeeded = @ \cup {worker[w].copy.id}] ELSE hist
    /\ UNCHANGED <<store, now, tokens, harness, sub, call, queue, fetchers, spawns, stop>>

\* A worker in subscriber.tasks leaves the stop() to a task of its own
\* (_stop_from_handler), one at a time for each worker (a bound), and goes on.
\* It writes the outcome, on the broker's client: the fake, in a context.
Writes(w) ==
    LET c == worker[w].copy
        o == worker[w].outcome
        asks == worker[w].stops
        h == IF asks THEN [hist EXCEPT !.stopped = @ \cup {harness.count}] ELSE hist
    IN  /\ worker[w].at = "leaving"
        /\ asks => w[1] \in sub.tasks /\ stop[w].at = "none"
        /\ stop' = IF asks THEN [stop EXCEPT ![w].at = "asked"] ELSE stop
        /\ \/ /\ harness.open
              /\ \E d \in IF o = "retry" THEN Delay ELSE {0} :
                     store' = Written(store, c.id, c.token, o, d)
              /\ hist' = Leaves(h, store, c.id, c.token, o)
           \/ /\ ~harness.open \/ MayAbandon(o, sub.running)
              /\ store' = store /\ hist' = h
        /\ worker' = TaskDone(w, NextRow, queue.unfinished)
        /\ queue' = [queue EXCEPT !.unfinished = Less(@)]
        /\ UNCHANGED <<now, tokens, harness, sub, call, fetchers, spawns>>

\* A worker that is not in subscriber.tasks awaits stop() itself, and has its
\* outcome to write after it.
StopsInPlace(w) ==
    /\ worker[w].at = "leaving" /\ worker[w].stops /\ w[1] \notin sub.tasks
    /\ stop[w].at = "none"
    /\ worker' = [worker EXCEPT ![w].at = "stopping", ![w].stops = FALSE]
    /\ stop' = [stop EXCEPT ![w].at = "drain"]
    /\ sub' = [sub EXCEPT !.stopping = TRUE]
    /\ hist' = [hist EXCEPT !.stopped = @ \cup {harness.count}]
    /\ UNCHANGED <<store, now, tokens, harness, call, queue, fetchers, spawns>>

\* A cancelled handler has let the cancellation through: nothing is written,
\* and _worker_inner's finally calls task_done() all the same.
Unwinds(w) ==
    /\ worker[w].at = "unwinding"
    /\ worker' = TaskDone(w, Off, queue.unfinished)
    /\ queue' = [queue EXCEPT !.unfinished = Less(@)]
    /\ UNCHANGED <<store, now, tokens, harness, sub, call, fetchers, spawns, stop, hist>>

\* The backoff of _run_with_reconnect ends: again, while the subscriber runs.
BackoffEnds(w) ==
    /\ worker[w].at = "backoff"
    /\ worker' = [worker EXCEPT ![w] = NextRow]
    /\ UNCHANGED <<store, now, tokens, harness, sub, call, queue, fetchers, spawns, stop, hist>>

\* The stop() that w's handler asked for, in whatever context it finds: it
\* halts the fetch loop and drains, clears running and cancels what is in
\* tasks then, and when all that has ended clears tasks and the queue.
StopBegins(w) ==
    /\ stop[w].at = "asked"
    /\ stop' = [stop EXCEPT ![w].at = "drain"]
    /\ sub' = [sub EXCEPT !.stopping = TRUE]
    /\ UNCHANGED <<store, now, tokens, harness, call, queue, worker, fetchers, spawns, hist>>

DrainEnds(w) ==
    /\ stop[w].at = "drain"
    /\ sub' = [sub EXCEPT !.running = FALSE]
    /\ worker' = [v \in Worker |-> CancelledLoop(v)]
    /\ fetchers' = fetchers \ sub.tasks
    /\ stop' = [stop EXCEPT ![w] = [at |-> "cancel", waits |-> {v \in StillBusy : v[1] \in sub.tasks}]]
    /\ UNCHANGED <<store, now, tokens, harness, call, queue, spawns, hist>>

StopEnds(w) ==
    /\ stop[w].at = "cancel" /\ \A v \in stop[w].waits : worker[v].at = "off"
    /\ sub' = [sub EXCEPT !.tasks = {}]
    /\ queue' = Reset
    /\ worker' = [v \in Worker |-> IF v = w /\ worker[v].at = "stopping"
                                  THEN [worker[v] EXCEPT !.at = "leaving"] ELSE Parked(worker[v])]
    /\ stop' = [stop EXCEPT ![w] = NoStop]
    /\ hist' = [hist EXCEPT !.caught = @ \cup StillBusy]
    /\ UNCHANGED <<store, now, tokens, harness, call, fetchers, spawns>>

\* The clock; a sync context compares with it in an extend only, where it is left.
Tick ==
    /\ ~InSync /\ now < MaxTime /\ now' = now + 1
    /\ UNCHANGED <<store, tokens, harness, sub, call, loopVars, hist>>
-----------------------------------------------------------------------------
Outcome == {"ack", "retry", "dead"}

WorkerStep(w) ==
    \/ Take(w)
    \/ \E o \in Outcome, stops \in BOOLEAN : Returns(w, o, stops)
    \/ Writes(w)
    \/ StopsInPlace(w)
    \/ Unwinds(w)
    \/ BackoffEnds(w)

StopStep(w) == StopBegins(w) \/ DrainEnds(w) \/ StopEnds(w)

Next ==
    \/ \E loop, same \in BOOLEAN : Enter(loop, same)
    \/ Exit
    \/ \E t \in Task :
          \/ Publish(t)
          \/ HandlerStarts(t)
          \/ \E o \in Outcome, raises, stops \in BOOLEAN : HandlerReturns(t, o, raises, stops)
          \/ OutcomeWritten(t)
    \/ Feed
    \/ InsertDirectly
    \/ CancelTimer
    \/ \E k \in Spawn : Fetch(k) \/ FetchEnds(k)
    \/ \E w \in Worker : WorkerStep(w) \/ StopStep(w)
    \/ Tick

Spec == Init /\ [][Next]_vars
-----------------------------------------------------------------------------
\* Properties.

\* A publish in sync mode has run the handler of each row it stored when it
\* returns, and no row runs twice, with publishes nested in handlers and side
\* by side, batches, timers and cancels: a row that has neither run nor been
\* claimed (a stopped subscriber's consume() skips what it claims) is still on
\* some publish's list (testing.py:579-588, the swap of _dispatchable at
\* 207-210).  In a loop context a publish promises no run.
PublishRunsItsRows ==
    LET pending == UNION {UNION {Range(f.todo) : f \in Range(call[t])} : t \in Task}
    IN  InSync => \A i \in Live(store) :
           /\ hist.runs[i] =< 1
           /\ store.rows[i].queue \in Served /\ hist.runs[i] = 0 /\ store.rows[i].token = 0
                => i \in hist.excused \cup Range(store.dispatchable) \cup pending

\* A loop context starts fresh.  What waits in memory was claimed in it, and a
\* worker of an earlier context serves in it only if it was busy when
\* subscriber.tasks was cleared.  And unless a handler stops the subscriber in
\* it, or it was entered before an earlier context's stop() was over: the
\* subscriber runs, whatever stopped it in an earlier context; exactly
\* max_workers workers and one fetch loop are its own, although the harness
\* starts it twice; and no other loop fetches (testing.py:604-651).
Serving == {w \in Worker : worker[w].at \in {"idle", "handling", "leaving"}}
Own == {w \in Worker : w[1] \in sub.tasks}
ContextStartsFresh ==
    InLoop =>
        /\ \A n \in DOMAIN queue.items : queue.items[n].from = harness.count
        /\ Serving \subseteq Own \cup hist.caught
        /\ harness.count \notin hist.stopped \cup hist.late =>
              /\ sub.running /\ ~sub.stopping
              /\ Cardinality(Own) = MaxWorkers
              /\ sub.tasks = fetchers /\ Cardinality(fetchers) = 1

\* What the test broker shows a user is what the outbox promises: every step
\* of both modes, stale workers and left contexts included, is a step of
\* at-least-once delivery (testing.py:103-375, 451-461, 604-651).
Promise == INSTANCE AtLeastOnce WITH
    MaxRuns <- MaxDeliveries, Archive <- HasDLQ,
    status <- [i \in Id |-> IF i \in Live(store) THEN "stored" ELSE hist.left[i]],
    runs <- hist.runs, succeeded <- hist.succeeded, letters <- hist.buried \cup store.dlq
FakeImplementsAtLeastOnce == Promise!ASpec

\* Does not hold: a max_workers of 1 is one worker (testing.py:617-620), and
\* none of an earlier context fires in a later one (testing.py:637-641).
OneWorkerPerSlot == InLoop => Cardinality(Serving) =< MaxWorkers

\* Does not hold: a re-entered context starts fresh (testing.py:637-641).  The
\* stop() of an earlier context's handler runs on and stops this one.
StopStaysInItsContext == InLoop /\ harness.count \notin hist.stopped => sub.running
=============================================================================
