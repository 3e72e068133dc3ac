------------------------------- MODULE Broker -------------------------------
(***************************************************************************)
(* The life cycle of the broker: start(), stop() and ping(), the stop of   *)
(* each subscriber, which stop() runs beside one that a handler started by *)
(* raising StopConsume or SystemExit, and the sampler of the queue lag.    *)
(*                                                                         *)
(* What a subscriber does in between is the module Subscriber; here its    *)
(* queue is only busy or not.  One event loop: an action is what runs      *)
(* between two awaits.  start() is one action, as nothing it awaits once   *)
(* the subscribers start waits for anything.                               *)
(***************************************************************************)
EXTENDS Integers, Sequences, SequencesExt, FiniteSets

CONSTANTS
    Subs,       \* the subscribers
    MaxStarts,  \* bound on the starts
    MaxFaults   \* bound on cancelled stops, stops that raise, dead loops

ASSUME BrokerAssumption ==
    IsFiniteSet(Subs) /\ MaxStarts \in Nat \ {0} /\ MaxFaults \in Nat

VARIABLES
    running,    \* broker.running
    phase,      \* the application's call: none since "down", started, ...
    sub,        \* each subscriber
    stops,      \* each subscriber: its stop() calls, in the order they began
    missed,     \* subscribers whose loops the last broker.stop() did not await
    lag,        \* the sampler: does it run, is it in _queue_lag, its gauges
    starts, faults

vars == <<running, phase, sub, stops, missed, lag, starts, faults>>

\* Sets of loops and queues are numbered by the start that made them and by
\* the resets of _inflight.  listed is subscriber.tasks, alive those that run.
\* crossed is history, for the properties only: loops of a start() made while a
\* stop() of the subscriber still had its tasks.clear() to run.
Loops == 1 .. MaxStarts
Queues == Nat
SubState == [running: BOOLEAN, stopping: BOOLEAN, busy: BOOLEAN, queue: Queues,
             left: SUBSET Queues, listed: SUBSET Loops, alive: SUBSET Loops,
             crossed: SUBSET Loops]
StopCall == [by: {"broker", "handler"}, queue: Queues, since: 0 .. MaxStarts,
             stage: {"drain", "cancel"}, tasks: SUBSET Loops]

\* The age and freshness of each queue: no series, NaN and 0, or a sample.
Gauges == {"none", "unset", "sampled"}
NoLag == [samples |-> FALSE, held |-> FALSE, gauges |-> "none"]

TypeOK ==
    /\ running \in BOOLEAN
    /\ phase \in {"down", "up", "leaving", "gathering", "interrupted"}
    /\ sub \in [Subs -> SubState]
    /\ stops \in [Subs -> Seq(StopCall)]
    /\ \A s \in Subs : Len(stops[s]) =< 2
    /\ missed \subseteq Subs
    /\ lag \in [samples: BOOLEAN, held: BOOLEAN, gauges: Gauges]
    /\ starts \in 0 .. MaxStarts /\ faults \in 0 .. MaxFaults

Init ==
    /\ running = FALSE /\ phase = "down"
    /\ sub = [s \in Subs |-> [running |-> FALSE, stopping |-> FALSE, busy |-> FALSE,
                              queue |-> 0, left |-> {}, listed |-> {}, alive |-> {}, crossed |-> {}]]
    /\ stops = [s \in Subs |-> << >>]
    /\ missed = {}
    /\ lag = NoLag
    /\ starts = 0 /\ faults = 0
-----------------------------------------------------------------------------
Stopping(s, by) == \E i \in DOMAIN stops[s] : stops[s][i].by = by

Fault == faults < MaxFaults /\ faults' = faults + 1

\* A call of stop() of s that has cancelled its tasks and waits for them.
Clearing(s, i) == stops[s][i].stage = "cancel"

\* OutboxSubscriber.start().
Started(s) ==
    LET loops == {starts + 1}
        crosses == \E i \in DOMAIN stops[s] : Clearing(s, i)
    IN  [sub[s] EXCEPT !.running = TRUE, !.stopping = FALSE,
                       !.listed = @ \cup loops, !.alive = @ \cup loops,
                       !.crossed = IF crosses THEN @ \cup loops ELSE @]

\* _start_queue_lag, for a recorder that has an interval or not.
StartQueueLag ==
    IF lag.held THEN lag' = lag
    ELSE lag' \in {lag, [samples |-> TRUE, held |-> TRUE, gauges |-> "unset"]}

\* OutboxBroker.start(), after a stop() that returned or was interrupted.  A stop
\* from a handler may be waiting for the tasks it cancelled: of a subscriber the
\* broker's stop() missed.  Where that awaited the same tasks, the handler's goes
\* on before the application does; and one with no task to wait for does not wait.
Start ==
    /\ phase \in {"down", "interrupted"} /\ starts < MaxStarts
    /\ \A s \in Subs : \A i \in DOMAIN stops[s] :
         Clearing(s, i) => s \in missed /\ stops[s][i].tasks # {}
    /\ sub' = [s \in Subs |-> Started(s)]
    /\ StartQueueLag
    /\ running' = TRUE /\ phase' = "up"
    /\ starts' = starts + 1
    /\ UNCHANGED <<stops, missed, faults>>

\* stop() of s begins.
Begins(s, by) ==
    Append(stops[s], [by |-> by, queue |-> sub[s].queue, since |-> starts,
                      stage |-> "drain", tasks |-> {}])

\* stop() of every subscriber, gathered.
Gather ==
    /\ phase' = "gathering"
    /\ missed' = {}
    /\ sub' = [s \in Subs |-> [sub[s] EXCEPT !.stopping = TRUE]]
    /\ stops' = [s \in Subs |-> Begins(s, "broker")]

\* OutboxBroker.stop(): with a sampler, leaving it is awaited first.  One that
\* was interrupted may be called again.
Stop ==
    /\ phase \in {"up", "interrupted"}
    /\ running' = FALSE
    /\ lag' = [lag EXCEPT !.held = FALSE]
    /\ IF lag.held THEN phase' = "leaving" /\ UNCHANGED <<sub, stops, missed>> ELSE Gather
    /\ UNCHANGED <<starts, faults>>

\* The exit of _sample_queue_lag: its task is cancelled and the series go,
\* though waiting for the task may be interrupted.  (A cancelled task sets none.)
LagCleared == NoLag

LagLeft ==
    /\ phase = "leaving"
    /\ lag' = LagCleared
    /\ Gather
    /\ UNCHANGED <<running, starts, faults>>

\* The task that awaits stop() is cancelled: the sampler still ends, and the
\* gathered stops, one of each subscriber, are cancelled where they are.  Loops
\* they had cancelled end first; a subscriber still draining goes on as it is.
Interrupted ==
    LET Own(s) == {i \in DOMAIN stops[s] : stops[s][i].by = "broker"}
        Others(s) == IF ~Stopping(s, "broker") THEN stops[s]
                     ELSE RemoveAt(stops[s], CHOOSE i \in Own(s) : TRUE)
        Ended(s) == UNION {stops[s][i].tasks : i \in Own(s)}
        Draining(s) == \E i \in Own(s) : stops[s][i].stage = "drain"
    IN  /\ phase \in {"leaving", "gathering"}
        /\ Fault
        /\ phase' = "interrupted"
        /\ lag' = LagCleared
        /\ missed' = IF phase = "leaving" THEN Subs ELSE missed \cup {s \in Subs : Draining(s)}
        /\ stops' = [s \in Subs |-> Others(s)]
        /\ sub' = [s \in Subs |-> [sub[s] EXCEPT !.alive = @ \ Ended(s)]]
        /\ UNCHANGED <<running, starts>>

\* A sample of the queues is taken; one that fails sets nothing.
LagSampled ==
    /\ lag.samples
    /\ lag' = [lag EXCEPT !.gauges = "sampled"]
    /\ UNCHANGED <<running, phase, sub, stops, missed, starts, faults>>

StopReturns ==
    /\ phase = "gathering"
    /\ \A s \in Subs : ~Stopping(s, "broker")
    /\ phase' = "down"
    /\ UNCHANGED <<running, sub, stops, missed, lag, starts, faults>>
-----------------------------------------------------------------------------
\* The fetch loop claims rows; the workers are done with them.
Claim(s) ==
    /\ sub[s].alive # {} /\ sub[s].running /\ ~sub[s].stopping /\ ~sub[s].busy
    /\ sub' = [sub EXCEPT ![s].busy = TRUE]
    /\ UNCHANGED <<running, phase, stops, missed, lag, starts, faults>>

Settle(s) ==
    /\ sub[s].alive # {} /\ sub[s].busy
    /\ sub' = [sub EXCEPT ![s].busy = FALSE]
    /\ UNCHANGED <<running, phase, stops, missed, lag, starts, faults>>

\* _stop_from_handler on a worker: a task of its own calls stop().  (One at
\* a time here.)
HandlerStop(s) ==
    /\ sub[s].alive # {} /\ sub[s].running /\ sub[s].busy /\ ~Stopping(s, "handler")
    /\ sub' = [sub EXCEPT ![s].stopping = TRUE]
    /\ stops' = [stops EXCEPT ![s] = Begins(s, "handler")]
    /\ UNCHANGED <<running, phase, missed, lag, starts, faults>>

\* The queue the call joined has no row left; one that was replaced with rows
\* in it keeps them.
Joined(s, i) ==
    IF stops[s][i].queue = sub[s].queue THEN ~sub[s].busy
    ELSE stops[s][i].queue \notin sub[s].left

\* The drain timeout of all calls is the same, so they end in their order.
TimesOut(s, i) == \A j \in 1 .. i - 1 : stops[s][j].stage # "drain"

\* Mutants: a drain without a timeout; tasks cancelled only after a clean
\* drain; tasks forgotten before they have ended.
DrainEndsUnbounded(s, i) ==
    /\ stops[s][i].stage = "drain"
    /\ Joined(s, i)
    /\ sub' = [sub EXCEPT ![s].running = FALSE]
    /\ stops' = [stops EXCEPT ![s][i].stage = "cancel", ![s][i].tasks = sub[s].listed]
    /\ UNCHANGED <<running, phase, missed, lag, starts, faults>>
DrainEndsJoinedOnly(s, i) ==
    /\ stops[s][i].stage = "drain"
    /\ Joined(s, i) \/ TimesOut(s, i)
    /\ sub' = [sub EXCEPT ![s].running = FALSE]
    /\ stops' = [stops EXCEPT ![s][i].stage = "cancel",
                              ![s][i].tasks = IF Joined(s, i) THEN sub[s].listed ELSE {}]
    /\ UNCHANGED <<running, phase, missed, lag, starts, faults>>
DrainEndsForgetting(s, i) ==
    /\ stops[s][i].stage = "drain"
    /\ Joined(s, i) \/ TimesOut(s, i)
    /\ sub' = [sub EXCEPT ![s].running = FALSE, ![s].listed = {}]
    /\ stops' = [stops EXCEPT ![s][i].stage = "cancel", ![s][i].tasks = sub[s].listed]
    /\ UNCHANGED <<running, phase, missed, lag, starts, faults>>

\* The drain is over, by itself or by its timeout: running is cleared and the
\* listed tasks are cancelled.
DrainEnds(s, i) ==
    /\ stops[s][i].stage = "drain"
    /\ Joined(s, i) \/ TimesOut(s, i)
    /\ sub' = [sub EXCEPT ![s].running = FALSE]
    /\ stops' = [stops EXCEPT ![s][i].stage = "cancel", ![s][i].tasks = sub[s].listed]
    /\ UNCHANGED <<running, phase, missed, lag, starts, faults>>

\* The cancelled tasks have unwound.  A row a worker held is counted off, those
\* in the queue go with it.
TasksEnd(s, i) ==
    /\ stops[s][i].stage = "cancel"
    /\ \E left \in {sub[s].left, sub[s].left \cup {sub[s].queue}} :
         /\ ~sub[s].busy => left = sub[s].left
         /\ sub' = [sub EXCEPT ![s].alive = @ \ stops[s][i].tasks, ![s].listed = {},
                               ![s].queue = @ + 1, ![s].left = left, ![s].busy = FALSE]
    /\ stops' = [stops EXCEPT ![s] = RemoveAt(@, i)]
    /\ UNCHANGED <<running, phase, missed, lag, starts, faults>>

\* The broker's call of stop() raises while it drains.
StopRaises(s, i) ==
    /\ stops[s][i].by = "broker" /\ stops[s][i].stage = "drain"
    /\ Fault
    /\ stops' = [stops EXCEPT ![s] = RemoveAt(@, i)]
    /\ missed' = missed \cup {s}
    /\ UNCHANGED <<running, phase, sub, lag, starts>>

\* A loop dies of something _run_with_reconnect does not catch.
LoopDies(s) ==
    /\ sub[s].alive # {} /\ sub[s].running
    /\ Fault
    /\ sub' = [sub EXCEPT ![s].alive = {}, ![s].busy = FALSE]
    /\ UNCHANGED <<running, phase, stops, missed, lag, starts>>

Next ==
    \/ Start \/ Stop \/ LagSampled \/ LagLeft \/ Interrupted \/ StopReturns
    \/ \E s \in Subs :
         \/ Claim(s) \/ Settle(s) \/ HandlerStop(s) \/ LoopDies(s)
         \/ \E i \in DOMAIN stops[s] : DrainEnds(s, i) \/ TasksEnd(s, i) \/ StopRaises(s, i)

Spec == Init /\ [][Next]_vars

\* A drain ends at the latest with its timeout, a cancelled task unwinds, and
\* leaving the sampler ends.
FairSpec ==
    /\ Spec
    /\ WF_vars(LagLeft) /\ WF_vars(StopReturns)
    /\ \A s \in Subs : WF_vars(\E i \in DOMAIN stops[s] : DrainEnds(s, i) \/ TasksEnd(s, i))
-----------------------------------------------------------------------------
\* Mutant: a subscriber, of a router say, is not looked at.
PingMissesOne ==
    \A s \in Subs : s # (CHOOSE r \in Subs : TRUE) => sub[s].listed \subseteq sub[s].alive

\* What ping() answers while the database does: no listed task is done.
Ping == \A s \in Subs : sub[s].listed \subseteq sub[s].alive

\* Once stop() has returned nothing runs, whatever a handler stopped meanwhile:
\* no loop but of a subscriber whose stop raised, or of a start() that crossed a
\* stop(), and no sampler; its gauges no longer show a lag nobody looks at.
StopStopsAll ==
    phase = "down" =>
        /\ ~running /\ ~lag.samples /\ lag.gauges = "none"
        /\ \A s \in Subs \ missed : sub[s].alive \subseteq sub[s].crossed /\ ~sub[s].running

\* No loop runs that subscriber.tasks does not list, so that stop() would not
\* cancel it, nor ping() look at it: but for one way, a start() made while an
\* earlier stop() still had its tasks.clear() to run (usecase.py:342-343).
NoOrphanLoops == \A s \in Subs : sub[s].alive \ sub[s].listed \subseteq sub[s].crossed

\* A loop that died is reported until the subscriber is stopped, unless its
\* start() was such a one.
PingReportsDeadLoops ==
    Ping => \A s \in Subs :
        sub[s].running /\ ~sub[s].stopping /\ starts \notin sub[s].crossed => sub[s].alive # {}

\* stop() returns, whoever else stops its subscribers.
StopReturnsEventually == phase \in {"leaving", "gathering"} ~> phase \in {"down", "interrupted"}

\* tests/test_unit.py:722-725: ping() reads running, so that a health check does
\* not report a stopped broker as one that dispatches.  Not so: README, 7.
PingReadsRunningFlag == starts > 0 /\ phase = "down" /\ ~running => ~Ping

\* usecase.py:339-341 (P16): the loops have unwound before stop() returns.  Not
\* so for the loops of a start() that crossed an earlier stop(): README, 7.
NothingRunsOnceStopped == phase = "down" => \A s \in Subs \ missed : sub[s].alive = {}

\* usecase.py:278: "a stop()->start() cycle fetches again"; the subscriber does,
\* until someone stops it.  A loop of this start is not cancelled by a stop
\* that began before it.
StopStartFetchesAgain ==
    \A s \in Subs : \A i \in DOMAIN stops[s] :
        stops[s][i].since < starts => starts \notin stops[s][i].tasks
=============================================================================
