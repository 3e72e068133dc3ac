------------------------------ MODULE Consume ------------------------------
(***************************************************************************)
(* One row going through dispatch_one and process_message, delivery after  *)
(* delivery: parser, handler, response and relay publishers, the exits of  *)
(* the middlewares, which outcome is written in the end, and what          *)
(* PrometheusRecorder and OpenTelemetryRecorder make of the events.        *)
(*                                                                         *)
(* The middlewares exit innermost first: the user's own (here one that     *)
(* opens the session, docs/usage/publisher.md), _CaptureException, and     *)
(* FastStream's AcknowledgementMiddleware, which AckPolicy.MANUAL leaves   *)
(* out.  The latter two are not under src/ but for the first.              *)
(***************************************************************************)
EXTENDS Integers

CONSTANTS
    MaxAttempts,    \* max_attempts of the strategy
    MaxDeliveries,  \* max_deliveries, where it is set
    MaxCuts         \* bound on the deliveries of one process that a drain cuts off

ASSUME ConsumeAssumption ==
    {MaxAttempts, MaxDeliveries} \subseteq Nat \ {0} /\ MaxCuts \in Nat

VARIABLES
    config,     \* ack policy, retry strategy, is a foreign publisher stacked,
                \* is max_deliveries set, and the dead-letter table
    running,    \* subscriber.running
    foreignUp,  \* has the foreign broker been started
    attempts,   \* the row's attempts_count
    deliveries, \* its deliveries_count, as far as max_deliveries asks
    copy,       \* the claimed copy: attempts, outcome, last_exception set
    pc,
    run,        \* what happened in this delivery
    seen,       \* what the recorders have counted of the row
    cut         \* deliveries a drain cut off since the recorders' series began

vars == <<config, running, foreignUp, attempts, deliveries, copy, pc, run, seen, cut>>

Policy == {"nack_on_error", "reject_on_error", "ack", "manual"}

\* When get_next_attempt_delay returns a delay below max_attempts: always,
\* for an exception it knows, or not at all (NoRetry, or it raises).
Strategy == {"always", "transient", "never"}

\* A drifted table no longer takes the audit copy.
Config == [policy: Policy, strategy: Strategy, foreign: BOOLEAN, limited: BOOLEAN,
           dlq: {"none", "sound", "drifted"}]

Intent == {"ack", "nack", "reject"}
Failure == {"retry_terminal", "rejected", "max_deliveries"}
Outcome == {"none", "ack", "retry"} \cup Failure

\* An exception: any other, FastStream's AckMessage etc., _OutboxConfigError.
Raised == {"none", "error", "config"} \cup Intent
Session == {"none", "open", "committed", "rolled_back"}

Run == [invoked: BOOLEAN,                      \* the handler was called
        byHand: Intent \cup {"none"},          \* its first msg.ack() etc.
        returned: {"nothing", "plain", "response", "late_response"},
        raised: Raised,                        \* the exception under way
        failure: Raised,                       \* the last one raised
        chained: Session,                      \* the follow-on row
        relayed: BOOLEAN]                      \* sent to the foreign broker

NewRun == [invoked |-> FALSE, byHand |-> "none", returned |-> "nothing",
           raised |-> "none", failure |-> "none", chained |-> "none", relayed |-> FALSE]
Fresh == [attempts |-> attempts, outcome |-> "none", failed |-> FALSE]

\* The series received_messages_in_process, outbox_terminal_total and
\* outbox_dlq_written_total of Prometheus; of OpenTelemetry process.messages and
\* process.duration where they carry a terminal_reason, and outbox.dlq_written.
Series == {"in_process", "nacked_terminal", "dlq_written",
           "ot_messages", "ot_durations", "ot_dlq"}
NoneSeen == [s \in Series |-> 0]

Init ==
    /\ config \in Config
    /\ running = TRUE
    /\ foreignUp \in BOOLEAN
    /\ attempts = 0 /\ deliveries = 0
    /\ copy = [attempts |-> 0, outcome |-> "none", failed |-> FALSE]
    /\ pc = "leased"
    /\ run = NewRun
    /\ seen = NoneSeen
    /\ cut = 0
-----------------------------------------------------------------------------
\* get_next_attempt_delay returns a delay.
Grants(c) ==
    /\ c.attempts < MaxAttempts
    /\ config.strategy = "always" \/ (config.strategy = "transient" /\ c.failed)

\* _update_state_if_not_set with _ack, _nack or _reject.  The attempt counts
\* before the strategy is asked; one that raises ends the retries.
Settle(c, intent) ==
    LET tried == [c EXCEPT !.attempts = @ + 1]
        verdict == [ack |-> "ack", reject |-> "rejected",
                    nack |-> IF Grants(tried) THEN "retry" ELSE "retry_terminal"]
    IN  IF c.outcome = "none" THEN [tried EXCEPT !.outcome = verdict[intent]] ELSE c

\* assert_state_set: an exception nobody recorded is nacked, a handler that
\* returned without an intent is rejected.
AssertStateSet(c) == Settle(c, IF c.failed THEN "nack" ELSE "reject")

\* PrometheusRecorder.__call__: the gauge goes down on the event that carries
\* the duration of the dispatch it closes.
Recorded(series, event, timed) ==
    LET counted == IF event \in Series THEN [series EXCEPT ![event] = @ + 1] ELSE series
    IN  [counted EXCEPT !.in_process = IF event = "dispatched" THEN @ + 1
                                       ELSE IF timed THEN @ - 1 ELSE @]

\* OpenTelemetryRecorder.__call__ of the same event.
Measured(series, event, timed) ==
    CASE event = "nacked_terminal" ->
           [series EXCEPT !.ot_messages = @ + 1, !.ot_durations = IF timed THEN @ + 1 ELSE @]
      [] event = "dlq_written" -> [series EXCEPT !.ot_dlq = @ + 1]
      [] OTHER -> series

\* _emit_metric, to a recorder of each kind.
Emit(series, event, timed) == Measured(Recorded(series, event, timed), event, timed)

\* Mutants: _write_outcome without its shutdown race; the verdict is counted
\* before it is written.
RecordAnyway(c, series) ==
    /\ copy' = AssertStateSet(c)
    /\ pc' = "write"
    /\ seen' = series
RecordAndCount(c, series) ==
    IF c.outcome = "none" /\ ~running
      THEN pc' = "abandoned" /\ copy' = c /\ seen' = Emit(series, "dispatch_abandoned", TRUE)
      ELSE /\ copy' = AssertStateSet(c) /\ pc' = "write"
           /\ seen' = IF copy'.outcome \in Failure
                      THEN Emit(series, "nacked_terminal", FALSE) ELSE series

\* _write_outcome up to the write.  Without an outcome, and with running
\* cleared, consume() may have skipped the handler: the row is left alone.
Record(c, series) ==
    IF c.outcome = "none" /\ ~running
      THEN pc' = "abandoned" /\ copy' = c /\ seen' = Emit(series, "dispatch_abandoned", TRUE)
      ELSE copy' = AssertStateSet(c) /\ pc' = "write" /\ seen' = series

Fails(e) == run' = [run EXCEPT !.raised = e, !.failure = e]

\* allow_delivery, of the delivery a claim begins.
AllowDelivery == config.limited => deliveries < MaxDeliveries

Claimed ==
    deliveries' = IF config.limited /\ deliveries =< MaxDeliveries THEN deliveries + 1
                  ELSE deliveries
-----------------------------------------------------------------------------
\* dispatch_one of a fresh copy while the subscriber runs.
Consume ==
    /\ pc = "leased" /\ running /\ AllowDelivery
    /\ Claimed
    /\ copy' = Fresh
    /\ run' = NewRun
    /\ pc' = "parse"
    /\ seen' = Emit(seen, "dispatched", FALSE)
    /\ UNCHANGED <<config, cut, running, foreignUp, attempts>>

\* consume() returns at once when running is cleared; no await lies between
\* the dispatched event, that, and the one that closes it.
ConsumeRefused ==
    /\ pc = "leased" /\ ~running /\ AllowDelivery
    /\ Claimed
    /\ run' = NewRun
    /\ Record(Fresh, Emit(seen, "dispatched", FALSE))
    /\ UNCHANGED <<config, cut, running, foreignUp, attempts>>

\* One delivery too many: deleted without being dispatched.
RefuseDelivery ==
    /\ pc = "leased" /\ ~AllowDelivery
    /\ Claimed
    /\ copy' = [Fresh EXCEPT !.outcome = "max_deliveries"]
    /\ run' = NewRun
    /\ pc' = "write"
    /\ UNCHANGED <<config, cut, running, foreignUp, attempts, seen>>

\* is_suitable raises, or no handler is suitable.
ParseFails ==
    /\ pc = "parse"
    /\ Fails("error")
    /\ pc' = "exits"
    /\ UNCHANGED <<config, cut, running, foreignUp, attempts, deliveries, copy, seen>>

CallHandler ==
    /\ pc = "parse"
    /\ run' = [run EXCEPT !.invoked = TRUE]
    /\ pc' = "handler"
    /\ UNCHANGED <<config, cut, running, foreignUp, attempts, deliveries, copy, seen>>

\* The handler calls msg.ack(), msg.nack() or msg.reject().
HandlerSettles(intent) ==
    /\ pc = "handler"
    /\ copy' = Settle(copy, intent)
    /\ run' = [run EXCEPT !.byHand = IF @ = "none" THEN intent ELSE @]
    /\ UNCHANGED <<config, cut, running, foreignUp, attempts, deliveries, pc, seen>>

\* StopConsume and SystemExit are errors here: the stop() they ask for runs
\* outside the worker.
HandlerRaises(e) ==
    /\ pc = "handler"
    /\ Fails(e)
    /\ pc' = "exits"
    /\ UNCHANGED <<config, cut, running, foreignUp, attempts, deliveries, copy, seen>>

\* The handler returns; an OutboxResponse under a foreign publisher is refused
\* before anything is published.
HandlerReturns(value) ==
    /\ pc = "handler"
    /\ LET ended == [run EXCEPT !.returned = value]
       IN  IF value # "plain" /\ config.foreign
             THEN run' = [ended EXCEPT !.raised = "config", !.failure = "config"] /\ pc' = "exits"
             ELSE run' = ended /\ pc' = "publish"
    /\ UNCHANGED <<config, cut, running, foreignUp, attempts, deliveries, copy, seen>>

\* Mutant: without the in_transaction guard of OutboxFakePublisher.
PublishResponseLate ==
    /\ pc = "publish"
    /\ \/ run.returned = "response" /\ run' = [run EXCEPT !.chained = "open"]
       \/ run.returned = "response" /\ Fails("error")
       \/ run.returned = "late_response" /\ run' = run
    /\ pc' = IF run'.raised = "none" /\ config.foreign THEN "relay" ELSE "exits"
    /\ UNCHANGED <<config, cut, running, foreignUp, attempts, deliveries, copy, seen>>

\* OutboxFakePublisher, then the foreign publishers: a response inserts the
\* follow-on row if its session still has a transaction.
PublishResponse ==
    /\ pc = "publish"
    /\ \/ run.returned = "response" /\ run' = [run EXCEPT !.chained = "open"]
       \/ run.returned = "response" /\ Fails("error")
       \/ run.returned = "late_response" /\ Fails("config")
    /\ pc' = IF run'.raised = "none" /\ config.foreign THEN "relay" ELSE "exits"
    /\ UNCHANGED <<config, cut, running, foreignUp, attempts, deliveries, copy, seen>>

\* A plain value passes the response publisher by.
PublishPlain ==
    /\ pc = "publish" /\ run.returned = "plain"
    /\ pc' = IF config.foreign THEN "relay" ELSE "exits"
    /\ UNCHANGED <<config, cut, running, foreignUp, attempts, deliveries, copy, run, seen>>

\* The foreign publisher: sent, failed, or sent with the answer lost.
Relay ==
    /\ pc = "relay"
    /\ \/ foreignUp /\ run' = [run EXCEPT !.relayed = TRUE]
       \/ Fails("error")
       \/ foreignUp /\ run' = [run EXCEPT !.relayed = TRUE, !.raised = "error", !.failure = "error"]
    /\ pc' = "exits"
    /\ UNCHANGED <<config, cut, running, foreignUp, attempts, deliveries, copy, seen>>
-----------------------------------------------------------------------------
\* The exit of the user's session middleware: commit, or roll back.
SessionExit ==
    /\ pc = "exits"
    /\ \/ run.chained = "open" /\ run.raised = "none" /\ run' = [run EXCEPT !.chained = "committed"]
       \/ /\ run.chained = "open" /\ run.raised = "none"
          /\ run' = [run EXCEPT !.chained = "rolled_back", !.raised = "error", !.failure = "error"]
       \/ run.chained = "open" /\ run.raised # "none" /\ run' = [run EXCEPT !.chained = "rolled_back"]
       \/ run.chained # "open" /\ run' = run
    /\ pc' = "capture"
    /\ UNCHANGED <<config, cut, running, foreignUp, attempts, deliveries, copy, seen>>

\* Mutant: the exception is captured after the acknowledgement.
CaptureTooLate ==
    /\ pc = "capture"
    /\ pc' = "acknowledge"
    /\ UNCHANGED <<config, cut, running, foreignUp, attempts, deliveries, copy, run, seen>>

\* _CaptureExceptionMiddleware keeps the exception for the strategy.
CaptureException ==
    /\ pc = "capture"
    /\ copy' = [copy EXCEPT !.failed = run.raised # "none"]
    /\ pc' = "acknowledge"
    /\ UNCHANGED <<config, cut, running, foreignUp, attempts, deliveries, run, seen>>

OnError == [nack_on_error |-> "nack", reject_on_error |-> "reject", ack |-> "ack"]

\* AcknowledgementMiddleware: by AckMessage and its kin, else by the policy.
\* It knows the message only when the handler was called.
Acknowledge ==
    /\ pc = "acknowledge"
    /\ LET intent == IF run.raised = "none" THEN "ack"
                     ELSE IF run.raised \in Intent THEN run.raised
                     ELSE OnError[config.policy]
           acts == config.policy # "manual" /\ run.invoked
       IN  /\ copy' = IF acts THEN Settle(copy, intent) ELSE copy
           /\ run' = IF acts /\ run.raised \in Intent THEN [run EXCEPT !.raised = "none"] ELSE run
    /\ pc' = "record"
    /\ UNCHANGED <<config, cut, running, foreignUp, attempts, deliveries, seen>>

\* consume() swallows what is left; a config error is raised again only after
\* the outcome was written.
RecordOutcome ==
    /\ pc = "record"
    /\ Record(copy, seen)
    /\ UNCHANGED <<config, cut, running, foreignUp, attempts, deliveries, run>>

Failed == copy.outcome \in Failure
Audited == Failed /\ config.dlq # "none"
Dispatched == copy.outcome # "max_deliveries"

\* The statement of _flush_retry puts the row back, that of every other outcome
\* deletes it, a failure with its audit copy.
Landed(gone) ==
    /\ Audited => config.dlq = "sound"
    /\ IF copy.outcome = "retry"
         THEN attempts' = copy.attempts /\ pc' = "leased"
         ELSE attempts' = attempts /\ pc' = gone

\* The write lands, and only then is the verdict counted.
WriteLands ==
    /\ pc = "write" /\ Landed("gone")
    /\ LET verdict == Emit(seen, IF Failed THEN "nacked_terminal" ELSE copy.outcome, Dispatched)
       IN  seen' = IF Audited THEN Emit(verdict, "dlq_written", FALSE) ELSE verdict
    /\ UNCHANGED <<config, cut, running, foreignUp, deliveries, copy, run>>

\* The lease was lost: the write finds no row.
WriteMisses ==
    /\ pc = "write" /\ (Audited => config.dlq = "sound")
    /\ seen' = Emit(seen, "lease_lost", Dispatched)
    /\ pc' = "leased"
    /\ UNCHANGED <<config, cut, running, foreignUp, attempts, deliveries, copy, run>>

\* Mutant: a write that fails leaves no event.
WriteFailsSilently ==
    /\ pc = "write"
    /\ pc' = "unwritten"
    /\ UNCHANGED <<config, cut, running, foreignUp, attempts, deliveries, copy, run, seen>>

\* The write raises, as one into a drifted table must.  A delivery that was
\* dispatched is closed as abandoned.
WriteFails ==
    /\ pc = "write"
    /\ seen' = IF Dispatched THEN Emit(seen, "dispatch_abandoned", TRUE) ELSE seen
    /\ pc' = "unwritten"
    /\ UNCHANGED <<config, cut, running, foreignUp, attempts, deliveries, copy, run>>

\* The write lands and its reply is lost: as a write that raised, or the process
\* has died meanwhile and another begins with fresh series.
ReplyLost ==
    /\ pc = "write" /\ Landed("vanished")
    /\ \/ /\ seen' = IF Dispatched THEN Emit(seen, "dispatch_abandoned", TRUE) ELSE seen
          /\ cut' = cut
       \/ seen' = NoneSeen /\ cut' = 0
    /\ UNCHANGED <<config, running, foreignUp, deliveries, copy, run>>

\* The delivery ended without a write: its lease runs out and the row is claimed
\* again.
LeaseRunsOut ==
    /\ pc \in {"abandoned", "unwritten", "cut"}
    /\ pc' = "leased"
    /\ UNCHANGED <<config, cut, running, foreignUp, attempts, deliveries, copy, run, seen>>

\* The process dies with the row in hand; another begins with fresh series.
Crash ==
    /\ pc \notin {"leased", "gone", "vanished"}
    /\ pc' = "leased"
    /\ run' = [run EXCEPT !.chained = IF @ = "open" THEN "rolled_back" ELSE @]
    /\ seen' = NoneSeen /\ cut' = 0
    /\ UNCHANGED <<config, running, foreignUp, attempts, deliveries, copy>>

StartForeign ==
    /\ ~foreignUp
    /\ foreignUp' = TRUE
    /\ UNCHANGED <<config, cut, running, attempts, deliveries, copy, pc, run, seen>>

Start ==
    /\ ~running
    /\ running' = TRUE
    /\ UNCHANGED <<config, cut, foreignUp, attempts, deliveries, copy, pc, run, seen>>

\* stop() clears running.  A delivery it finds under way after its drain timed
\* out goes on in two cases: user code swallows the cancellation, or
\* subscriber.tasks no longer lists the worker (Broker).
Stop ==
    /\ running
    /\ running' = FALSE
    /\ UNCHANGED <<config, cut, foreignUp, attempts, deliveries, copy, pc, run, seen>>

\* Else the worker is cancelled: CancelledError passes dispatch_one by, no event
\* closes the delivery and nothing is written.  (_safe_flush closes one that is
\* at its write: Stop, then WriteFails or ReplyLost.)
CutOff ==
    /\ pc \in {"parse", "handler", "publish", "relay", "exits"} /\ cut < MaxCuts
    /\ running' = FALSE
    /\ pc' = "cut"
    /\ run' = [run EXCEPT !.chained = IF @ = "open" THEN "rolled_back" ELSE @]
    /\ cut' = cut + 1
    /\ UNCHANGED <<config, foreignUp, attempts, deliveries, copy, seen>>

Handling ==
    \/ \E intent \in Intent : HandlerSettles(intent)
    \/ \E e \in Intent \cup {"error"} : HandlerRaises(e)
    \/ \E value \in {"plain", "response", "late_response"} : HandlerReturns(value)

Next ==
    \/ Consume \/ ConsumeRefused \/ RefuseDelivery
    \/ ParseFails \/ CallHandler \/ Handling
    \/ PublishResponse \/ PublishPlain \/ Relay
    \/ SessionExit \/ CaptureException \/ Acknowledge \/ RecordOutcome
    \/ WriteLands \/ WriteMisses \/ WriteFails \/ ReplyLost
    \/ LeaseRunsOut \/ Crash \/ StartForeign \/ Start \/ Stop \/ CutOff

Spec == Init /\ [][Next]_vars
-----------------------------------------------------------------------------
\* Types; a delivery counts one attempt, however often it was settled.
TypeOK ==
    /\ config \in Config /\ running \in BOOLEAN /\ foreignUp \in BOOLEAN
    /\ attempts \in Nat /\ deliveries \in 0 .. MaxDeliveries + 1
    /\ copy \in [attempts: 0..attempts + 1, outcome: Outcome, failed: BOOLEAN]
    /\ run \in Run
    /\ seen \in [Series -> Int] /\ cut \in 0..MaxCuts
    /\ pc = "write" /\ Dispatched => copy.attempts = attempts + 1

Settled == pc = "write"

\* A failed delivery is never destroyed while its strategy grants a retry: a
\* parse error, a handler, publisher or commit that raised, with no intent
\* recorded by hand, is rescheduled under the default policy and under MANUAL,
\* whichever middleware saw it (message.py:219-239, broker.py:75-97).
FailedIsRetried ==
    /\ Settled /\ run.byHand = "none" /\ run.failure \in {"error", "config"}
    /\ config.policy \in {"nack_on_error", "manual"}
    /\ config.strategy # "never" /\ attempts + 1 < MaxAttempts
    => copy.outcome = "retry"

\* A row is rejected only by someone's choice: the handler's, the policy's
\* after a failure, or a MANUAL handler that returned without an intent.  Never
\* because the subscriber was stopping and skipped the handler (usecase.py:790).
RejectedByChoice ==
    Settled /\ copy.outcome = "rejected" =>
        \/ run.byHand = "reject" \/ run.failure = "reject"
        \/ config.policy = "reject_on_error" /\ run.failure # "none"
        \/ config.policy = "manual" /\ run.invoked /\ run.failure = "none"

\* An acknowledged row is done: unless somebody acknowledged it regardless, its
\* handler returned and all it returned was published and committed.
AckedIsDone ==
    Settled /\ copy.outcome = "ack" =>
        \/ run.byHand = "ack" \/ run.failure = "ack" \/ config.policy = "ack"
        \/ /\ run.returned \in {"plain", "response"} /\ run.failure = "none"
           /\ run.returned = "response" => run.chained = "committed"
           /\ run.returned = "plain" /\ config.foreign => run.relayed

\* The delivery a dispatched event opened and nothing has ended yet.
InFlight ==
    pc \notin {"leased", "gone", "vanished", "abandoned", "unwritten", "cut"} /\ Dispatched

\* The in-flight gauge is what is in flight, and what a drain cut off: one from
\* the dispatched event until exactly one other event closes the delivery, zero
\* for a row refused by max_deliveries, whose verdict closes nothing, and one
\* for ever for a worker cancelled in its handler (metrics/prometheus.py:297-336,
\* usecase.py:334-338).
GaugeIsTrue == seen.in_process = IF InFlight THEN cut + 1 ELSE cut

\* A terminal failure is counted once by each recorder, when its row is known
\* to be gone, and so is its audit copy; never for a write that failed, found
\* the lease lost or lost its reply.  A row refused by max_deliveries has no
\* duration (usecase.py:729-731, 980-994; metrics/opentelemetry.py:188-220).
VerdictCountedOnce ==
    LET buried == IF pc = "gone" /\ Failed THEN 1 ELSE 0
        audited == IF config.dlq = "none" THEN 0 ELSE buried
    IN  /\ seen.nacked_terminal = buried /\ seen.ot_messages = buried
        /\ seen.ot_durations = IF Dispatched THEN buried ELSE 0
        /\ seen.dlq_written = audited /\ seen.ot_dlq = audited

\* metrics/__init__.py:39-40, docs/usage/dlq.md:173-176: "row failed but audit
\* didn't land" shows as nacked_terminal above dlq_written.  Not so: README, 7.
DriftShows ==
    pc = "unwritten" /\ Failed /\ config.dlq = "drifted" =>
        seen.nacked_terminal > seen.dlq_written

\* docs/usage/relay.md of a foreign broker that is not started: the relay
\* "fails and retries until that broker is started, so the row is never lost".
\* Not so: README, 7.
UnstartedRelayKeepsRow ==
    /\ pc = "gone" /\ config.foreign /\ ~foreignUp
    /\ config.policy = "nack_on_error" /\ config.strategy = "always"
      => run.returned # "plain" \/ run.byHand # "none"
=============================================================================
