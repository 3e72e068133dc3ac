--------------------------- MODULE ConsumeProofs ---------------------------
(***************************************************************************)
(* Proofs about Consume: why a delivery ends with the outcome it writes,   *)
(* and what the recorders count of it, for every max_attempts and          *)
(* max_deliveries.                                                         *)
(***************************************************************************)
EXTENDS Consume, TLAPS

-----------------------------------------------------------------------------
(* The inductive invariant: what is known at each point of a delivery. *)

Calling == {"handler", "publish", "relay"}
Exiting == {"exits", "capture", "acknowledge"}
Dispatching == {"parse"} \cup Calling \cup Exiting

Place == Dispatching \cup {"leased", "record", "write", "abandoned", "unwritten",
                           "gone", "vanished", "cut"}

\* All a handler returned was published: the follow-on row is in the given
\* state of its session, a plain value was relayed where it is to be.
Published(state) ==
    /\ run.returned \in {"plain", "response"}
    /\ run.returned = "response" => run.chained = state
    /\ run.returned = "plain" /\ config.foreign => run.relayed

\* Until the acknowledgement nothing but the handler itself can have recorded an
\* outcome, and no exception was swallowed.
ByHandOnly ==
    pc \in Dispatching =>
        /\ run.raised = run.failure
        /\ copy.outcome = "none" <=> run.byHand = "none"
        /\ copy.outcome = "rejected" => run.byHand = "reject"
        /\ copy.outcome = "ack" => run.byHand = "ack"

\* An attempt is counted exactly when the outcome is recorded.
AttemptCounted ==
    pc \in Dispatching \cup {"record", "write"} =>
        /\ copy.outcome = "none" => copy.attempts = attempts
        /\ copy.outcome # "none" /\ Dispatched => copy.attempts = attempts + 1

\* Only a row that is refused before its dispatch has spent max_deliveries.
DispatchedRows ==
    pc \in Dispatching \cup {"record", "abandoned"} => Dispatched

\* How far the handler and its publishers got.
Progress ==
    /\ pc = "parse" => ~run.invoked /\ run.failure = "none" /\ run.chained = "none"
    /\ pc \in Calling => run.invoked /\ run.failure = "none"
    /\ pc \in {"handler", "publish"} => run.chained = "none"
    /\ pc = "publish" => /\ run.returned # "nothing"
                         /\ config.foreign => run.returned = "plain"
    /\ pc = "relay" => run.returned = "plain" /\ config.foreign
    /\ pc \in Exiting \cup {"record"} => run.invoked \/ run.failure = "error"
    /\ pc = "exits" /\ run.failure = "none" => Published("open")
    /\ pc \in {"capture", "acknowledge"} /\ run.failure = "none" => Published("committed")

\* What the acknowledgement knows, and leaves to assert_state_set.
Captured ==
    /\ pc \in {"acknowledge", "record"} => (copy.failed <=> run.failure # "none")
    /\ pc = "record" /\ copy.outcome = "none" => config.policy = "manual" \/ ~run.invoked
    /\ pc = "write" => copy.outcome # "none"

\* Why the copy has the outcome it has, once the middlewares are done.
RejectionChosen ==
    copy.outcome = "rejected" =>
        \/ run.byHand = "reject" \/ run.failure = "reject"
        \/ config.policy = "reject_on_error" /\ run.failure # "none"
        \/ config.policy = "manual" /\ run.invoked /\ run.failure = "none"

SuccessDone ==
    copy.outcome = "ack" =>
        \/ run.byHand = "ack" \/ run.failure = "ack" \/ config.policy = "ack"
        \/ Published("committed") /\ run.failure = "none"

RetryDue ==
    /\ run.byHand = "none" /\ run.failure \in {"error", "config"}
    /\ config.policy \in {"nack_on_error", "manual"}
    /\ config.strategy # "never" /\ attempts + 1 < MaxAttempts

OutcomeJustified ==
    pc \in {"record", "write"} =>
        /\ RejectionChosen /\ SuccessDone
        /\ RetryDue => copy.outcome \in (IF pc = "record" THEN {"none", "retry"} ELSE {"retry"})

\* The types, but for what AttemptCounted says better.
Typed ==
    /\ config \in Config /\ running \in BOOLEAN /\ foreignUp \in BOOLEAN
    /\ attempts \in Nat /\ deliveries \in 0 .. MaxDeliveries + 1
    /\ copy \in [attempts: 0..attempts + 1, outcome: Outcome, failed: BOOLEAN]
    /\ run \in Run
    /\ seen \in [Series -> Int] /\ cut \in 0..MaxCuts
    /\ pc \in Place

OutcomeInv ==
    /\ Typed
    /\ ByHandOnly /\ AttemptCounted /\ DispatchedRows
    /\ Progress /\ Captured /\ OutcomeJustified

\* The recorders, with the facts about the delivery that they depend on.
CountInv == OutcomeInv /\ GaugeIsTrue /\ VerdictCountedOnce
-----------------------------------------------------------------------------
(* What recording an outcome and emitting an event do. *)

AnyCopy == [attempts: Nat, outcome: Outcome, failed: BOOLEAN]

\* An outcome is recorded once, and counts an attempt.
LEMMA SettleOnce ==
    ASSUME Typed, NEW c \in AnyCopy, NEW intent \in Intent
    PROVE  /\ c.outcome # "none" => Settle(c, intent) = c
           /\ c.outcome = "none" =>
                /\ Settle(c, intent).attempts = c.attempts + 1
                /\ Settle(c, intent).failed = c.failed
                /\ intent = "ack" => Settle(c, intent).outcome = "ack"
                /\ intent = "reject" => Settle(c, intent).outcome = "rejected"
                /\ intent = "nack" => Settle(c, intent).outcome \in {"retry", "retry_terminal"}
                /\ /\ intent = "nack" /\ c.attempts + 1 < MaxAttempts
                   /\ config.strategy = "always" \/ (config.strategy = "transient" /\ c.failed)
                   => Settle(c, intent).outcome = "retry"
                /\ Settle(c, intent) \in AnyCopy
<1>1. CASE c.outcome # "none"
  BY <1>1 DEF Settle
<1>2. CASE c.outcome = "none"
  <2> DEFINE tried == [c EXCEPT !.attempts = @ + 1]
             verdict == [ack |-> "ack", reject |-> "rejected",
                         nack |-> IF Grants(tried) THEN "retry" ELSE "retry_terminal"]
  <2>1. tried \in AnyCopy /\ tried.attempts = c.attempts + 1 /\ tried.failed = c.failed
    BY DEF AnyCopy
  <2>2. Settle(c, intent) = [tried EXCEPT !.outcome = verdict[intent]]
    BY <1>2 DEF Settle
  <2>3. /\ verdict["ack"] = "ack" /\ verdict["reject"] = "rejected"
        /\ verdict["nack"] = IF Grants(tried) THEN "retry" ELSE "retry_terminal"
    OBVIOUS
  <2> HIDE DEF tried, verdict
  <2>4. /\ verdict[intent] \in Outcome
        /\ intent = "ack" => verdict[intent] = "ack"
        /\ intent = "reject" => verdict[intent] = "rejected"
        /\ intent = "nack" => verdict[intent] \in {"retry", "retry_terminal"}
        /\ intent = "nack" /\ Grants(tried) => verdict[intent] = "retry"
    BY <2>3 DEF Intent, Outcome, Failure
  <2>5. /\ c.attempts + 1 < MaxAttempts
        /\ config.strategy = "always" \/ (config.strategy = "transient" /\ c.failed)
        => Grants(tried)
    BY <2>1 DEF Grants
  <2>6. /\ Settle(c, intent) \in AnyCopy
        /\ Settle(c, intent).attempts = tried.attempts
        /\ Settle(c, intent).failed = tried.failed
        /\ Settle(c, intent).outcome = verdict[intent]
    BY <2>1, <2>2, <2>4 DEF AnyCopy
  <2> QED
    BY <1>2, <2>1, <2>4, <2>5, <2>6
<1> QED
  BY <1>1, <1>2

\* The event that opens or closes a dispatch, or tells of a write that settles
\* no failure, moves only the gauge.
GaugeMoves(series, after, event, timed) ==
    /\ after \in [Series -> Int]
    /\ after.in_process = IF event = "dispatched" THEN series.in_process + 1
                          ELSE IF timed THEN series.in_process - 1 ELSE series.in_process
    /\ \A s \in Series \ {"in_process"} : after[s] = series[s]

LEMMA GaugeEvent ==
    ASSUME NEW series \in [Series -> Int],
           NEW event \in {"dispatched", "dispatch_abandoned", "lease_lost", "ack", "retry"},
           NEW timed \in BOOLEAN
    PROVE  GaugeMoves(series, Emit(series, event, timed), event, timed)
<1>1. event \notin Series /\ event # "nacked_terminal" /\ event # "dlq_written"
  BY DEF Series
<1>2. Emit(series, event, timed) =
        [series EXCEPT !.in_process = IF event = "dispatched" THEN @ + 1
                                      ELSE IF timed THEN @ - 1 ELSE @]
  BY <1>1 DEF Emit, Measured, Recorded
<1> QED
  BY <1>2 DEF Series, GaugeMoves
-----------------------------------------------------------------------------
(* Every step of a delivery preserves what is known of it. *)

\* The facts about types that the proofs below keep using.
LEMMA DeliveryTypes ==
    ASSUME Typed
    PROVE  /\ copy \in AnyCopy /\ copy.outcome \in Outcome /\ copy.failed \in BOOLEAN
           /\ copy.attempts \in 0..attempts + 1 /\ attempts \in Nat
           /\ run \in Run /\ run.invoked \in BOOLEAN /\ run.relayed \in BOOLEAN
           /\ run.raised \in Raised /\ run.failure \in Raised
           /\ run.byHand \in Intent \cup {"none"} /\ run.chained \in Session
           /\ run.returned \in {"nothing", "plain", "response", "late_response"}
           /\ config.policy \in Policy /\ config.strategy \in Strategy
           /\ config.foreign \in BOOLEAN
           /\ seen \in [Series -> Int]
           /\ MaxAttempts \in Nat /\ MaxDeliveries \in Nat /\ cut \in Nat
<1>1. \A c \in [attempts: 0..attempts + 1, outcome: Outcome, failed: BOOLEAN] :
         /\ c \in AnyCopy /\ c.outcome \in Outcome /\ c.failed \in BOOLEAN
         /\ c.attempts \in 0..attempts + 1
  BY DEF AnyCopy, Typed
<1>2. /\ run \in Run /\ run.invoked \in BOOLEAN /\ run.relayed \in BOOLEAN
      /\ run.raised \in Raised /\ run.failure \in Raised
      /\ run.byHand \in Intent \cup {"none"} /\ run.chained \in Session
      /\ run.returned \in {"nothing", "plain", "response", "late_response"}
  BY DEF Typed, Run
<1>3. /\ config.policy \in Policy /\ config.strategy \in Strategy
      /\ config.foreign \in BOOLEAN
  BY DEF Typed, Config
<1> QED
  BY <1>1, <1>2, <1>3, ConsumeAssumption DEF Typed

\* A claim starts with a fresh copy and nothing done; a refused delivery is
\* over at once.
LEMMA ClaimStep ==
    ASSUME OutcomeInv, Consume \/ ConsumeRefused \/ RefuseDelivery
    PROVE  OutcomeInv'
<1>0. Typed /\ Fresh \in AnyCopy /\ MaxDeliveries \in Nat
  BY ConsumeAssumption DEF OutcomeInv, Typed, Fresh, AnyCopy, Outcome
<1>1. /\ run' = NewRun /\ NewRun \in Run /\ UNCHANGED <<config, cut, running, foreignUp, attempts>>
      /\ deliveries' \in 0 .. MaxDeliveries + 1
  <2>1. Claimed /\ run' = NewRun /\ UNCHANGED <<config, cut, running, foreignUp, attempts>>
    BY DEF Consume, ConsumeRefused, RefuseDelivery
  <2>2. deliveries' \in 0 .. MaxDeliveries + 1
    BY <1>0, <2>1 DEF Typed, Claimed
  <2>3. NewRun \in Run
    BY DEF NewRun, Run, Raised, Intent, Session
  <2> QED
    BY <2>1, <2>2, <2>3
<1>a. /\ Fresh \in [attempts: 0..attempts + 1, outcome: Outcome, failed: BOOLEAN]
      /\ [Fresh EXCEPT !.outcome = "max_deliveries"]
            \in [attempts: 0..attempts + 1, outcome: Outcome, failed: BOOLEAN]
  <2>1. attempts \in 0..attempts + 1
    BY <1>0 DEF Typed
  <2> QED
    BY <2>1 DEF Fresh, Outcome, Failure
<1>2. /\ NewRun.invoked = FALSE /\ NewRun.byHand = "none" /\ NewRun.raised = "none"
      /\ NewRun.failure = "none" /\ NewRun.chained = "none"
  BY DEF NewRun
<1>3. CASE Consume
  <2>1. copy' = Fresh /\ pc' = "parse" /\ seen' = Emit(seen, "dispatched", FALSE)
    BY <1>3 DEF Consume
  <2>2. Typed'
    <3>1. seen' \in [Series -> Int]
      BY <1>0, <2>1, GaugeEvent DEF Typed, GaugeMoves
    <3>2. copy' \in [attempts: 0..attempts + 1, outcome: Outcome, failed: BOOLEAN]
      BY <1>a, <2>1
    <3> QED
      BY <1>0, <1>1, <2>1, <3>1, <3>2 DEF Typed, Place, Dispatching
  <2> QED
    BY <1>2, <1>1, <2>1, <2>2
       DEF OutcomeInv, ByHandOnly, AttemptCounted, DispatchedRows, Progress, Captured,
           OutcomeJustified, Dispatching, Calling, Exiting, Dispatched, Fresh
<1>4. CASE ConsumeRefused
  <2>1. /\ copy' = Fresh /\ pc' = "abandoned"
        /\ seen' = Emit(Emit(seen, "dispatched", FALSE), "dispatch_abandoned", TRUE)
    BY <1>4 DEF ConsumeRefused, Record, Fresh
  <2>2. Typed'
    <3>1. Emit(seen, "dispatched", FALSE) \in [Series -> Int]
      BY <1>0, GaugeEvent DEF Typed, GaugeMoves
    <3>2. seen' \in [Series -> Int]
      BY <2>1, <3>1, GaugeEvent DEF GaugeMoves
    <3>3. copy' \in [attempts: 0..attempts + 1, outcome: Outcome, failed: BOOLEAN]
      BY <1>a, <2>1
    <3> QED
      BY <1>0, <1>1, <2>1, <3>2, <3>3 DEF Typed, Place
  <2> QED
    BY <2>1, <2>2
       DEF OutcomeInv, ByHandOnly, AttemptCounted, DispatchedRows, Progress, Captured,
           OutcomeJustified, Dispatching, Calling, Exiting, Dispatched, Fresh
<1>5. CASE RefuseDelivery
  <2>1. /\ copy' = [Fresh EXCEPT !.outcome = "max_deliveries"] /\ pc' = "write"
        /\ UNCHANGED seen
    BY <1>5 DEF RefuseDelivery
  <2>2. Typed'
    <3>1. copy' \in [attempts: 0..attempts + 1, outcome: Outcome, failed: BOOLEAN]
      BY <1>a, <2>1
    <3> QED
      BY <1>0, <1>1, <2>1, <3>1 DEF Typed, Place
  <2>3. copy'.outcome = "max_deliveries"
    BY <2>1 DEF Fresh
  <2> QED
    BY <1>1, <1>2, <2>1, <2>2, <2>3
       DEF OutcomeInv, ByHandOnly, AttemptCounted, DispatchedRows, Progress, Captured,
           OutcomeJustified, RejectionChosen, SuccessDone, RetryDue,
           Dispatching, Calling, Exiting, Dispatched
<1> QED
  BY <1>3, <1>4, <1>5

\* The parser, the handler and what it settles, raises or returns.
LEMMA HandlerStep ==
    ASSUME OutcomeInv, ParseFails \/ CallHandler \/ Handling
    PROVE  OutcomeInv'
<1> USE DEF OutcomeInv, ByHandOnly, AttemptCounted, DispatchedRows, Progress, Captured,
        OutcomeJustified, Dispatching, Calling, Exiting, Dispatched
<1>0. Typed
  OBVIOUS
<1>1. CASE ParseFails
  <2>1. /\ run' = [run EXCEPT !.raised = "error", !.failure = "error"] /\ pc' = "exits"
        /\ pc = "parse" /\ UNCHANGED <<config, cut, running, foreignUp, attempts, deliveries, copy, seen>>
    BY <1>1 DEF ParseFails, Fails
  <2>2. run'.raised = "error" /\ run'.failure = "error" /\ run'.byHand = run.byHand /\ run' \in Run
    BY <1>0, <2>1, DeliveryTypes DEF Run, Raised
  <2>3. Typed'
    BY <1>0, <2>1, <2>2 DEF Typed, Place
  <2> QED
    BY <2>1, <2>2, <2>3
<1>2. CASE CallHandler
  <2>1. /\ run' = [run EXCEPT !.invoked = TRUE] /\ pc' = "handler"
        /\ pc = "parse" /\ UNCHANGED <<config, cut, running, foreignUp, attempts, deliveries, copy, seen>>
    BY <1>2 DEF CallHandler
  <2>2. /\ run'.invoked /\ run'.raised = run.raised /\ run'.failure = run.failure
        /\ run'.byHand = run.byHand /\ run'.chained = run.chained /\ run' \in Run
    BY <1>0, <2>1, DeliveryTypes DEF Run
  <2>3. Typed'
    BY <1>0, <2>1, <2>2 DEF Typed, Place
  <2> QED
    BY <2>1, <2>2, <2>3
<1>3. ASSUME NEW intent \in Intent, HandlerSettles(intent)
      PROVE  OutcomeInv'
  <2>1. /\ pc = "handler" /\ copy' = Settle(copy, intent)
        /\ run' = [run EXCEPT !.byHand = IF @ = "none" THEN intent ELSE @]
        /\ UNCHANGED <<config, cut, running, foreignUp, attempts, deliveries, pc, seen>>
    BY <1>3 DEF HandlerSettles
  <2>2. /\ run'.raised = run.raised /\ run'.failure = run.failure /\ run'.invoked = run.invoked
        /\ run'.chained = run.chained /\ run' \in Run
        /\ run'.byHand = IF run.byHand = "none" THEN intent ELSE run.byHand
    BY <1>0, <2>1, DeliveryTypes DEF Run
  <2>3. CASE copy.outcome # "none"
    <3>1. copy' = copy
      BY <1>0, <2>1, <2>3, SettleOnce, DeliveryTypes
    <3>2. Typed'
      BY <1>0, <2>1, <2>2, <3>1 DEF Typed
    <3> QED
      BY <2>1, <2>2, <2>3, <3>1, <3>2
  <2>4. CASE copy.outcome = "none"
    <3>1. /\ copy' \in AnyCopy /\ copy'.attempts = copy.attempts + 1 /\ copy'.failed = copy.failed
          /\ intent = "ack" => copy'.outcome = "ack"
          /\ intent = "reject" => copy'.outcome = "rejected"
          /\ intent = "nack" => copy'.outcome \in {"retry", "retry_terminal"}
      BY <1>0, <2>1, <2>4, SettleOnce, DeliveryTypes
    <3>2. copy.attempts = attempts /\ copy'.attempts \in 0..attempts + 1
      BY <1>0, <2>1, <2>4, <3>1, DeliveryTypes
    <3>3. Typed'
      BY <1>0, <2>1, <2>2, <3>1, <3>2 DEF Typed, AnyCopy
    <3> QED
      BY <1>0, <2>1, <2>2, <2>4, <3>1, <3>2, <3>3 DEF Intent
  <2> QED
    BY <2>3, <2>4
<1>4. ASSUME NEW e \in Intent \cup {"error"}, HandlerRaises(e)
      PROVE  OutcomeInv'
  <2>1. /\ run' = [run EXCEPT !.raised = e, !.failure = e] /\ pc' = "exits"
        /\ pc = "handler" /\ UNCHANGED <<config, cut, running, foreignUp, attempts, deliveries, copy, seen>>
    BY <1>4 DEF HandlerRaises, Fails
  <2>2. /\ run'.raised = e /\ run'.failure = e /\ run'.byHand = run.byHand
        /\ run'.invoked = run.invoked /\ run' \in Run /\ e # "none"
    BY <1>0, <2>1, DeliveryTypes DEF Run, Raised, Intent
  <2>3. Typed'
    BY <1>0, <2>1, <2>2 DEF Typed, Place
  <2> QED
    BY <2>1, <2>2, <2>3
<1>5. ASSUME NEW value \in {"plain", "response", "late_response"}, HandlerReturns(value)
      PROVE  OutcomeInv'
  <2>1. /\ pc = "handler" /\ UNCHANGED <<config, cut, running, foreignUp, attempts, deliveries, copy, seen>>
    BY <1>5 DEF HandlerReturns
  <2>2. CASE value # "plain" /\ config.foreign
    <3>1. /\ run' = [[run EXCEPT !.returned = value] EXCEPT !.raised = "config", !.failure = "config"]
          /\ pc' = "exits"
      BY <1>5, <2>2 DEF HandlerReturns
    <3>2. /\ run'.raised = "config" /\ run'.failure = "config" /\ run'.byHand = run.byHand
          /\ run'.invoked = run.invoked /\ run' \in Run
      BY <1>0, <3>1, DeliveryTypes DEF Run, Raised
    <3>3. Typed'
      BY <1>0, <2>1, <3>1, <3>2 DEF Typed, Place
    <3> QED
      BY <2>1, <3>1, <3>2, <3>3
  <2>3. CASE ~(value # "plain" /\ config.foreign)
    <3>1. run' = [run EXCEPT !.returned = value] /\ pc' = "publish"
      BY <1>5, <2>3 DEF HandlerReturns
    <3>2. /\ run'.raised = run.raised /\ run'.failure = run.failure /\ run'.byHand = run.byHand
          /\ run'.invoked = run.invoked /\ run'.chained = run.chained
          /\ run'.returned = value /\ run' \in Run
      BY <1>0, <3>1, DeliveryTypes DEF Run
    <3>3. Typed'
      BY <1>0, <2>1, <3>1, <3>2 DEF Typed, Place
    <3> QED
      BY <2>1, <2>3, <3>1, <3>2, <3>3
  <2> QED
    BY <2>2, <2>3
<1> QED
  BY <1>1, <1>2, <1>3, <1>4, <1>5 DEF Handling

\* The response publisher and the foreign one.
LEMMA PublishStep ==
    ASSUME OutcomeInv, PublishResponse \/ PublishPlain \/ Relay
    PROVE  OutcomeInv'
<1> USE DEF OutcomeInv, ByHandOnly, AttemptCounted, DispatchedRows, Progress, Captured,
        OutcomeJustified, Dispatching, Calling, Exiting, Dispatched
<1>0. Typed
  OBVIOUS
<1>1. CASE PublishResponse
  <2>0. /\ pc = "publish" /\ UNCHANGED <<config, cut, running, foreignUp, attempts, deliveries, copy, seen>>
        /\ pc' = IF run'.raised = "none" /\ config.foreign THEN "relay" ELSE "exits"
        /\ run.failure = "none" /\ run.raised = "none"
    BY <1>1 DEF PublishResponse
  <2>1. CASE run.returned = "response" /\ run' = [run EXCEPT !.chained = "open"]
    <3>1. /\ run'.raised = run.raised /\ run'.failure = run.failure /\ run'.byHand = run.byHand
          /\ run'.invoked = run.invoked /\ run'.chained = "open"
          /\ run'.returned = "response" /\ run' \in Run
      BY <1>0, <2>1, DeliveryTypes DEF Run, Session
    <3>2. pc' = "exits"
      BY <2>0, <2>1
    <3>3. Typed'
      BY <1>0, <2>0, <3>1, <3>2 DEF Typed, Place
    <3> QED
      BY <2>0, <3>1, <3>2, <3>3 DEF Published
  <2>2. ASSUME NEW e \in {"error", "config"}, Fails(e) PROVE OutcomeInv'
    <3>1. /\ run'.raised = e /\ run'.failure = e /\ run'.byHand = run.byHand
          /\ run'.invoked = run.invoked /\ run' \in Run
      BY <1>0, <2>2, DeliveryTypes DEF Fails, Run, Raised
    <3>2. pc' = "exits"
      BY <2>0, <3>1
    <3>3. Typed'
      BY <1>0, <2>0, <3>1, <3>2 DEF Typed, Place
    <3> QED
      BY <2>0, <3>1, <3>2, <3>3
  <2> QED
    BY <1>1, <2>1, <2>2 DEF PublishResponse
<1>2. CASE PublishPlain
  <2>1. /\ pc = "publish" /\ run.returned = "plain"
        /\ UNCHANGED <<config, cut, running, foreignUp, attempts, deliveries, copy, run, seen>>
        /\ pc' = IF config.foreign THEN "relay" ELSE "exits"
    BY <1>2 DEF PublishPlain
  <2>2. Typed'
    BY <1>0, <2>1 DEF Typed, Place
  <2> QED
    BY <2>1, <2>2 DEF Published
<1>3. CASE Relay
  <2>0. /\ pc = "relay" /\ pc' = "exits"
        /\ UNCHANGED <<config, cut, running, foreignUp, attempts, deliveries, copy, seen>>
        /\ run.failure = "none" /\ run.raised = "none" /\ run.returned = "plain"
    BY <1>3 DEF Relay
  <2>1. /\ run'.byHand = run.byHand /\ run'.invoked = run.invoked /\ run'.returned = run.returned
        /\ run'.raised = run'.failure
        /\ run'.failure = "none" => run'.relayed
        /\ run' \in Run
    <3>1. CASE run' = [run EXCEPT !.relayed = TRUE]
      BY <1>0, <2>0, <3>1, DeliveryTypes DEF Run
    <3>2. CASE Fails("error")
      BY <1>0, <2>0, <3>2, DeliveryTypes DEF Fails, Run, Raised
    <3>3. CASE run' = [run EXCEPT !.relayed = TRUE, !.raised = "error", !.failure = "error"]
      BY <1>0, <2>0, <3>3, DeliveryTypes DEF Run, Raised
    <3> QED
      BY <1>3, <3>1, <3>2, <3>3 DEF Relay
  <2>2. Typed'
    BY <1>0, <2>0, <2>1 DEF Typed, Place
  <2> QED
    BY <2>0, <2>1, <2>2 DEF Published
<1> QED
  BY <1>1, <1>2, <1>3

\* The middlewares exit: commit or roll back, then capture the exception.
LEMMA ExitStep ==
    ASSUME OutcomeInv, SessionExit \/ CaptureException
    PROVE  OutcomeInv'
<1> USE DEF OutcomeInv, ByHandOnly, AttemptCounted, DispatchedRows, Progress, Captured,
        OutcomeJustified, Dispatching, Calling, Exiting, Dispatched
<1>0. Typed
  OBVIOUS
<1>1. CASE SessionExit
  <2>0. /\ pc = "exits" /\ pc' = "capture"
        /\ UNCHANGED <<config, cut, running, foreignUp, attempts, deliveries, copy, seen>>
        /\ run.raised = run.failure
    BY <1>1 DEF SessionExit
  <2>1. /\ run'.byHand = run.byHand /\ run'.invoked = run.invoked /\ run'.returned = run.returned
        /\ run'.relayed = run.relayed
        /\ run'.raised = run'.failure
        /\ run.failure = "error" => run'.failure = "error"
        /\ run'.failure = "none" => /\ run.failure = "none"
                                    /\ run.chained = "open" => run'.chained = "committed"
        /\ run' \in Run
    <3>1. CASE run.raised = "none" /\ run' = [run EXCEPT !.chained = "committed"]
      BY <1>0, <2>0, <3>1, DeliveryTypes DEF Run, Session
    <3>2. CASE /\ run.raised = "none"
               /\ run' = [run EXCEPT !.chained = "rolled_back", !.raised = "error", !.failure = "error"]
      BY <1>0, <2>0, <3>2, DeliveryTypes DEF Run, Session, Raised
    <3>3. CASE run.raised # "none" /\ run' = [run EXCEPT !.chained = "rolled_back"]
      BY <1>0, <2>0, <3>3, DeliveryTypes DEF Run, Session
    <3>4. CASE run.chained # "open" /\ run' = run
      BY <1>0, <2>0, <3>4, DeliveryTypes
    <3> QED
      BY <1>1, <3>1, <3>2, <3>3, <3>4 DEF SessionExit
  <2>2. Typed'
    BY <1>0, <2>0, <2>1 DEF Typed, Place
  <2> QED
    BY <2>0, <2>1, <2>2 DEF Published
<1>2. CASE CaptureException
  <2>1. /\ pc = "capture" /\ pc' = "acknowledge"
        /\ copy' = [copy EXCEPT !.failed = run.raised # "none"]
        /\ UNCHANGED <<config, cut, running, foreignUp, attempts, deliveries, run, seen>>
    BY <1>2 DEF CaptureException
  <2>2. /\ copy'.attempts = copy.attempts /\ copy'.outcome = copy.outcome
        /\ copy'.failed <=> run.raised # "none"
        /\ copy' \in [attempts: 0..attempts + 1, outcome: Outcome, failed: BOOLEAN]
    BY <1>0, <2>1 DEF Typed
  <2>3. Typed'
    BY <1>0, <2>1, <2>2 DEF Typed, Place
  <2> QED
    BY <2>1, <2>2, <2>3 DEF Published
<1> QED
  BY <1>1, <1>2

\* FastStream's acknowledgement settles what the handler left open.
LEMMA AcknowledgeStep ==
    ASSUME OutcomeInv, Acknowledge
    PROVE  OutcomeInv'
<1> DEFINE intent == IF run.raised = "none" THEN "ack"
                     ELSE IF run.raised \in Intent THEN run.raised
                     ELSE OnError[config.policy]
           acts == config.policy # "manual" /\ run.invoked
<1>0. /\ Typed /\ pc = "acknowledge" /\ pc' = "record" /\ run.raised = run.failure
      /\ UNCHANGED <<config, cut, running, foreignUp, attempts, deliveries, seen>>
      /\ copy' = (IF acts THEN Settle(copy, intent) ELSE copy)
      /\ run' = (IF acts /\ run.raised \in Intent THEN [run EXCEPT !.raised = "none"] ELSE run)
      /\ copy.failed <=> run.failure # "none"
  BY DEF Acknowledge, OutcomeInv, ByHandOnly, Captured, Dispatching, Exiting
<1>1. /\ run'.byHand = run.byHand /\ run'.invoked = run.invoked /\ run'.failure = run.failure
      /\ run'.returned = run.returned /\ run'.relayed = run.relayed /\ run'.chained = run.chained
      /\ run' \in Run
  BY <1>0, DeliveryTypes DEF Run, Raised
<1>2. /\ copy.outcome = "none" => copy.attempts = attempts
      /\ copy.outcome # "none" => copy.attempts = attempts + 1
      /\ copy.outcome # "max_deliveries"
      /\ copy.outcome = "none" <=> run.byHand = "none"
      /\ copy.outcome = "rejected" => run.byHand = "reject"
      /\ copy.outcome = "ack" => run.byHand = "ack"
      /\ run.invoked \/ run.failure = "error"
      /\ run.failure = "none" => Published("committed")
  BY <1>0 DEF OutcomeInv, AttemptCounted, ByHandOnly, DispatchedRows, Dispatched, Progress,
              Dispatching, Exiting
<1>3. acts => intent \in Intent
  <2>1. acts => config.policy \in DOMAIN OnError
    BY <1>0, DeliveryTypes DEF OnError, Policy
  <2> QED
    BY <1>0, <2>1, DeliveryTypes DEF OnError, Intent, Policy
<1>4. /\ run.failure = "none" => intent = "ack"
      /\ run.failure = "ack" => intent = "ack"
      /\ run.failure = "reject" => intent = "reject"
      /\ run.failure = "nack" => intent = "nack"
      /\ run.failure \in {"error", "config"} => intent = OnError[config.policy]
  BY <1>0 DEF Intent
<1>5. /\ OnError["nack_on_error"] = "nack" /\ OnError["reject_on_error"] = "reject"
      /\ OnError["ack"] = "ack"
  BY DEF OnError
<1> HIDE DEF intent
<1>6. CASE ~acts \/ copy.outcome # "none"
  <2>1. copy' = copy
    BY <1>0, <1>3, <1>6, SettleOnce, DeliveryTypes
  <2>2. Typed'
    BY <1>0, <1>1, <2>1 DEF Typed, Place
  <2> QED
    BY <1>0, <1>1, <1>2, <1>6, <2>1, <2>2
       DEF OutcomeInv, ByHandOnly, AttemptCounted, DispatchedRows, Progress, Captured,
           OutcomeJustified, RejectionChosen, SuccessDone, RetryDue, Published,
           Dispatching, Calling, Exiting, Dispatched
<1>7. CASE acts /\ copy.outcome = "none"
  <2>1. copy' = Settle(copy, intent) /\ intent \in Intent /\ copy \in AnyCopy
    BY <1>0, <1>3, <1>7, DeliveryTypes
  <2>2. /\ copy' \in AnyCopy /\ copy'.attempts = copy.attempts + 1 /\ copy'.failed = copy.failed
        /\ intent = "ack" => copy'.outcome = "ack"
        /\ intent = "reject" => copy'.outcome = "rejected"
        /\ intent = "nack" => copy'.outcome \in {"retry", "retry_terminal"}
        /\ /\ intent = "nack" /\ copy.attempts + 1 < MaxAttempts
           /\ config.strategy = "always" \/ (config.strategy = "transient" /\ copy.failed)
           => copy'.outcome = "retry"
    BY <1>0, <1>7, <2>1, SettleOnce
  <2>3. copy'.attempts = attempts + 1 /\ attempts \in Nat
    BY <1>0, <1>2, <1>7, <2>2, DeliveryTypes
  <2>4. Typed'
    BY <1>0, <1>1, <2>2, <2>3 DEF Typed, Place, AnyCopy
  <2>5. copy'.outcome \in {"ack", "rejected", "retry", "retry_terminal"}
    BY <2>1, <2>2 DEF Intent
  <2>6. RejectionChosen'
    <3>1. ASSUME copy'.outcome = "rejected"
          PROVE  \/ run.failure = "reject"
                 \/ config.policy = "reject_on_error" /\ run.failure # "none"
      <4>1. intent = "reject"
        BY <2>1, <2>2, <3>1 DEF Intent
      <4> QED
        BY <1>0, <1>4, <1>5, <1>7, <4>1, DeliveryTypes DEF Raised, Intent, Policy
    <3> QED
      BY <1>0, <1>1, <3>1 DEF RejectionChosen
  <2>7. SuccessDone'
    <3>1. ASSUME copy'.outcome = "ack"
          PROVE  \/ run.failure = "ack" \/ config.policy = "ack" \/ run.failure = "none"
      <4>1. intent = "ack"
        BY <2>1, <2>2, <3>1 DEF Intent
      <4> QED
        BY <1>0, <1>4, <1>5, <1>7, <4>1, DeliveryTypes DEF Raised, Intent, Policy
    <3> QED
      BY <1>0, <1>1, <1>2, <3>1 DEF SuccessDone, Published
  <2>8. RetryDue' => copy'.outcome = "retry"
    <3> SUFFICES ASSUME RetryDue' PROVE copy'.outcome = "retry"
      OBVIOUS
    <3>1. intent = "nack"
      BY <1>0, <1>1, <1>4, <1>5, <1>7 DEF RetryDue
    <3>2. config.strategy \in {"always", "transient"} /\ copy.failed
      BY <1>0, <1>1, DeliveryTypes DEF RetryDue, Strategy
    <3>3. copy.attempts + 1 < MaxAttempts
      BY <1>0, <1>2, <1>7 DEF RetryDue
    <3> QED
      BY <2>2, <3>1, <3>2, <3>3
  <2> QED
    BY <1>0, <1>1, <1>2, <2>2, <2>3, <2>4, <2>5, <2>6, <2>7, <2>8
       DEF OutcomeInv, ByHandOnly, AttemptCounted, DispatchedRows, Progress, Captured,
           OutcomeJustified, Dispatching, Calling, Exiting, Dispatched
<1> QED
  BY <1>6, <1>7

\* assert_state_set settles what nobody did: an exception is nacked, a MANUAL
\* handler that returned without an intent rejected.
LEMMA RecordStep ==
    ASSUME OutcomeInv, RecordOutcome
    PROVE  OutcomeInv'
<1>0. /\ Typed /\ pc = "record" /\ Record(copy, seen)
      /\ UNCHANGED <<config, cut, running, foreignUp, attempts, deliveries, run>>
  BY DEF RecordOutcome, OutcomeInv
<1>1. /\ copy.outcome = "none" => copy.attempts = attempts
      /\ copy.outcome # "none" => copy.attempts = attempts + 1
      /\ copy.outcome # "max_deliveries"
      /\ copy.failed <=> run.failure # "none"
      /\ copy.outcome = "none" => config.policy = "manual" \/ ~run.invoked
      /\ run.invoked \/ run.failure = "error"
      /\ RejectionChosen /\ SuccessDone
      /\ RetryDue => copy.outcome \in {"none", "retry"}
  BY <1>0 DEF OutcomeInv, AttemptCounted, DispatchedRows, Dispatched, Progress, Captured,
              OutcomeJustified, Exiting
<1>2. CASE copy.outcome = "none" /\ ~running
  <2>1. pc' = "abandoned" /\ copy' = copy /\ seen' = Emit(seen, "dispatch_abandoned", TRUE)
    BY <1>0, <1>2 DEF Record
  <2>2. seen' \in [Series -> Int]
    BY <1>0, <2>1, GaugeEvent DEF Typed, GaugeMoves
  <2>3. Typed'
    BY <1>0, <2>1, <2>2 DEF Typed, Place
  <2> QED
    BY <1>1, <2>1, <2>3
       DEF OutcomeInv, ByHandOnly, AttemptCounted, DispatchedRows, Progress, Captured,
           OutcomeJustified, Dispatching, Calling, Exiting, Dispatched
<1>3. CASE ~(copy.outcome = "none" /\ ~running) /\ copy.outcome # "none"
  <2>1. pc' = "write" /\ seen' = seen /\ copy' = AssertStateSet(copy)
    BY <1>0, <1>3 DEF Record
  <2>2. copy' = copy
    BY <1>0, <1>3, <2>1, SettleOnce, DeliveryTypes DEF AssertStateSet, Intent
  <2>3. Typed'
    BY <1>0, <2>1, <2>2 DEF Typed, Place
  <2> QED
    BY <1>0, <1>1, <1>3, <2>1, <2>2, <2>3
       DEF OutcomeInv, ByHandOnly, AttemptCounted, DispatchedRows, Progress, Captured,
           OutcomeJustified, RejectionChosen, SuccessDone, RetryDue, Published,
           Dispatching, Calling, Exiting, Dispatched
<1>4. CASE ~(copy.outcome = "none" /\ ~running) /\ copy.outcome = "none"
  <2> DEFINE intent == IF copy.failed THEN "nack" ELSE "reject"
  <2>1. pc' = "write" /\ seen' = seen /\ copy' = Settle(copy, intent)
    BY <1>0, <1>4 DEF Record, AssertStateSet
  <2>2. /\ intent \in Intent /\ copy \in AnyCopy
        /\ intent = "nack" <=> run.failure # "none"
        /\ intent = "reject" <=> run.failure = "none"
    BY <1>0, <1>1, DeliveryTypes DEF Intent
  <2> HIDE DEF intent
  <2>3. /\ copy' \in AnyCopy /\ copy'.attempts = copy.attempts + 1
        /\ intent = "reject" => copy'.outcome = "rejected"
        /\ intent = "nack" => copy'.outcome \in {"retry", "retry_terminal"}
        /\ /\ intent = "nack" /\ copy.attempts + 1 < MaxAttempts
           /\ config.strategy = "always" \/ (config.strategy = "transient" /\ copy.failed)
           => copy'.outcome = "retry"
    BY <1>0, <1>4, <2>1, <2>2, SettleOnce
  <2>4. copy'.attempts = attempts + 1 /\ attempts \in Nat
    BY <1>0, <1>1, <1>4, <2>3, DeliveryTypes
  <2>5. Typed'
    BY <1>0, <2>1, <2>3, <2>4 DEF Typed, Place, AnyCopy
  <2>6. copy'.outcome \in {"rejected", "retry", "retry_terminal"}
    BY <2>2, <2>3
  <2>7. RejectionChosen' /\ SuccessDone'
    <3>1. copy'.outcome = "rejected"
            => config.policy = "manual" /\ run.invoked /\ run.failure = "none"
      BY <1>1, <1>4, <2>2, <2>3
    <3> QED
      BY <1>0, <2>6, <3>1 DEF RejectionChosen, SuccessDone
  <2>8. RetryDue' => copy'.outcome = "retry"
    <3> SUFFICES ASSUME RetryDue' PROVE copy'.outcome = "retry"
      OBVIOUS
    <3>1. intent = "nack" /\ copy.failed
      BY <1>0, <1>1, <2>2 DEF RetryDue
    <3>2. config.strategy \in {"always", "transient"}
      BY <1>0, DeliveryTypes DEF RetryDue, Strategy
    <3>3. copy.attempts + 1 < MaxAttempts
      BY <1>0, <1>1, <1>4 DEF RetryDue
    <3> QED
      BY <2>3, <3>1, <3>2, <3>3
  <2> QED
    BY <1>0, <2>1, <2>4, <2>5, <2>6, <2>7, <2>8
       DEF OutcomeInv, ByHandOnly, AttemptCounted, DispatchedRows, Progress, Captured,
           OutcomeJustified, Dispatching, Calling, Exiting, Dispatched
<1> QED
  BY <1>2, <1>3, <1>4

\* A terminal failure is counted by both recorders, with a duration when it
\* closes a dispatch.
CountsTerminal(series, after, timed) ==
    /\ after \in [Series -> Int]
    /\ after.in_process = IF timed THEN series.in_process - 1 ELSE series.in_process
    /\ after.nacked_terminal = series.nacked_terminal + 1
    /\ after.ot_messages = series.ot_messages + 1
    /\ after.ot_durations = IF timed THEN series.ot_durations + 1 ELSE series.ot_durations
    /\ after.dlq_written = series.dlq_written /\ after.ot_dlq = series.ot_dlq

LEMMA TerminalEvent ==
    ASSUME NEW series \in [Series -> Int], NEW timed \in BOOLEAN
    PROVE  CountsTerminal(series, Emit(series, "nacked_terminal", timed), timed)
<1> DEFINE counted == [series EXCEPT !["nacked_terminal"] = @ + 1]
           closed == [counted EXCEPT !.in_process = IF timed THEN @ - 1 ELSE @]
           measured == [closed EXCEPT !.ot_messages = @ + 1,
                                      !.ot_durations = IF timed THEN @ + 1 ELSE @]
<1>1. Emit(series, "nacked_terminal", timed) = measured
  BY DEF Emit, Measured, Recorded, Series
<1>2. /\ counted \in [Series -> Int]
      /\ \A s \in Series : counted[s] = IF s = "nacked_terminal" THEN series[s] + 1 ELSE series[s]
  BY DEF Series
<1> HIDE DEF counted
<1>3. /\ closed \in [Series -> Int]
      /\ \A s \in Series : closed[s] = IF s = "in_process" /\ timed THEN counted[s] - 1 ELSE counted[s]
  BY <1>2 DEF Series
<1> HIDE DEF closed
<1>4. /\ measured \in [Series -> Int]
      /\ \A s \in Series :
            measured[s] = IF s = "ot_messages" \/ (s = "ot_durations" /\ timed)
                          THEN closed[s] + 1 ELSE closed[s]
  <2>1. \A s \in Series : closed[s] \in Int /\ closed[s] + 1 \in Int
    BY <1>3
  <2>2. measured \in [Series -> Int]
    BY <1>3, <2>1
  <2>3. \A s \in Series :
            measured[s] = IF s = "ot_messages" \/ (s = "ot_durations" /\ timed)
                          THEN closed[s] + 1 ELSE closed[s]
    BY <1>3 DEF Series
  <2> QED
    BY <2>2, <2>3
<1> HIDE DEF measured
<1> QED
  BY <1>1, <1>2, <1>3, <1>4 DEF Series, CountsTerminal

\* An audit copy is counted by both recorders and closes nothing.
LEMMA AuditEvent ==
    ASSUME NEW series \in [Series -> Int]
    PROVE  LET after == Emit(series, "dlq_written", FALSE)
           IN  /\ after \in [Series -> Int]
               /\ after.dlq_written = series.dlq_written + 1
               /\ after.ot_dlq = series.ot_dlq + 1
               /\ \A s \in Series \ {"dlq_written", "ot_dlq"} : after[s] = series[s]
<1> DEFINE counted == [series EXCEPT !["dlq_written"] = @ + 1]
           closed == [counted EXCEPT !.in_process = @]
           measured == [closed EXCEPT !.ot_dlq = @ + 1]
<1>1. Emit(series, "dlq_written", FALSE) = measured
  BY DEF Emit, Measured, Recorded, Series
<1>2. /\ counted \in [Series -> Int]
      /\ \A s \in Series : counted[s] = IF s = "dlq_written" THEN series[s] + 1 ELSE series[s]
  BY DEF Series
<1> HIDE DEF counted
<1>3. closed \in [Series -> Int] /\ \A s \in Series : closed[s] = counted[s]
  BY <1>2 DEF Series
<1> HIDE DEF closed
<1>4. /\ measured \in [Series -> Int]
      /\ \A s \in Series : measured[s] = IF s = "ot_dlq" THEN closed[s] + 1 ELSE closed[s]
  BY <1>3 DEF Series
<1> HIDE DEF measured
<1> QED
  BY <1>1, <1>2, <1>3, <1>4 DEF Series

Counters == {"nacked_terminal", "dlq_written", "ot_messages", "ot_durations", "ot_dlq"}

\* Until the write nothing of the row is counted, and the gauge shows whether the
\* delivery was dispatched.
LEMMA BeforeTheVerdict ==
    ASSUME CountInv, pc # "gone"
    PROVE  /\ \A s \in Counters : seen[s] = 0
           /\ pc = "write" => seen.in_process = IF Dispatched THEN cut + 1 ELSE cut
           /\ cut \in Nat
BY ConsumeAssumption DEF CountInv, OutcomeInv, Typed, VerdictCountedOnce, GaugeIsTrue, InFlight,
   Counters

\* A write that lands counts its verdict, and the audit copy, once.
LEMMA LandedCounts ==
    ASSUME CountInv, WriteLands
    PROVE  seen' \in [Series -> Int] /\ GaugeIsTrue' /\ VerdictCountedOnce'
<1>0. /\ Typed /\ seen \in [Series -> Int] /\ pc = "write" /\ UNCHANGED <<config, cut, copy>>
      /\ cut \in Nat /\ copy.outcome # "none" /\ copy.outcome \in Outcome
      /\ pc' = IF copy.outcome = "retry" THEN "leased" ELSE "gone"
      /\ config.dlq \in {"none", "sound", "drifted"}
  BY DeliveryTypes DEF CountInv, OutcomeInv, Typed, WriteLands, Landed, Captured, Config
<1>s. seen \in [Series -> Int]
  BY <1>0
<1>1. /\ \A s \in Counters : seen[s] = 0
      /\ seen.in_process = IF Dispatched THEN cut + 1 ELSE cut
  BY <1>0, BeforeTheVerdict
<1>2. CASE ~Failed
  <2>1. copy.outcome \in {"ack", "retry"} /\ Dispatched /\ ~Audited
    BY <1>0, <1>2 DEF Failed, Outcome, Dispatched, Failure, Audited
  <2>2. seen' = Emit(seen, copy.outcome, TRUE)
    BY <1>2, <2>1 DEF WriteLands, Emit, Recorded, Measured
  <2>3. /\ seen' \in [Series -> Int]
        /\ seen'.in_process = cut
        /\ \A s \in Counters : seen'[s] = 0
    <3>1. /\ seen' \in [Series -> Int] /\ seen'.in_process = seen.in_process - 1
          /\ \A s \in Series \ {"in_process"} : seen'[s] = seen[s]
      <4> DEFINE event == copy.outcome
      <4>1. event # "dispatched" /\ seen' = Emit(seen, event, TRUE)
        BY <2>1, <2>2
      <4>2. event \in {"dispatched", "dispatch_abandoned", "lease_lost", "ack", "retry"}
        BY <2>1
      <4> HIDE DEF event
      <4>3. GaugeMoves(seen, Emit(seen, event, TRUE), event, TRUE)
        BY <1>s, <4>2, GaugeEvent
      <4> QED
        BY <4>1, <4>3 DEF GaugeMoves
    <3>2. Counters \subseteq Series \ {"in_process"}
      BY DEF Counters, Series
    <3> QED
      BY <1>0, <1>1, <2>1, <3>1, <3>2
  <2>4. ~Failed' /\ pc' \in {"leased", "gone"}
    BY <1>0, <1>2 DEF Failed
  <2> QED
    BY <1>0, <2>3, <2>4 DEF GaugeIsTrue, InFlight, VerdictCountedOnce, Counters
<1>3. CASE Failed
  <2> DEFINE verdict == Emit(seen, "nacked_terminal", Dispatched)
  <2>1. seen' = IF Audited THEN Emit(verdict, "dlq_written", FALSE) ELSE verdict
    BY <1>3 DEF WriteLands
  <2>2. /\ verdict \in [Series -> Int] /\ verdict.in_process = cut
        /\ verdict.nacked_terminal = 1 /\ verdict.ot_messages = 1
        /\ verdict.ot_durations = IF Dispatched THEN 1 ELSE 0
        /\ verdict.dlq_written = 0 /\ verdict.ot_dlq = 0
    <3>1. CASE Dispatched
      <4>1. verdict = Emit(seen, "nacked_terminal", TRUE)
        BY <3>1 DEF Emit, Recorded, Measured
      <4> QED
        <5>1. TRUE \in BOOLEAN /\ seen.in_process = cut + 1
          BY <1>1, <3>1
        <5>2. CountsTerminal(seen, Emit(seen, "nacked_terminal", TRUE), TRUE)
          BY <1>s, <5>1, TerminalEvent
        <5> HIDE DEF verdict
        <5>3. CountsTerminal(seen, verdict, TRUE)
          BY <4>1, <5>2
        <5> QED
          BY <1>0, <1>1, <3>1, <5>1, <5>3 DEF Counters, CountsTerminal
    <3>2. CASE ~Dispatched
      <4>1. verdict = Emit(seen, "nacked_terminal", FALSE)
        BY <3>2 DEF Emit, Recorded, Measured
      <4> QED
        <5>1. FALSE \in BOOLEAN /\ seen.in_process = cut
          BY <1>1, <3>2
        <5>2. CountsTerminal(seen, Emit(seen, "nacked_terminal", FALSE), FALSE)
          BY <1>s, <5>1, TerminalEvent
        <5> HIDE DEF verdict
        <5>3. CountsTerminal(seen, verdict, FALSE)
          BY <4>1, <5>2
        <5> QED
          BY <1>0, <1>1, <3>2, <5>1, <5>3 DEF Counters, CountsTerminal
    <3> QED
      BY <3>1, <3>2
  <2> HIDE DEF verdict
  <2>3. /\ seen' \in [Series -> Int] /\ seen'.in_process = cut
        /\ seen'.nacked_terminal = 1 /\ seen'.ot_messages = 1
        /\ seen'.ot_durations = IF Dispatched THEN 1 ELSE 0
        /\ seen'.dlq_written = IF Audited THEN 1 ELSE 0
        /\ seen'.ot_dlq = IF Audited THEN 1 ELSE 0
    <3>1. CASE Audited
      <4>1. seen' = Emit(verdict, "dlq_written", FALSE)
        BY <2>1, <3>1
      <4>2. /\ seen' \in [Series -> Int]
            /\ seen'.dlq_written = verdict.dlq_written + 1
            /\ seen'.ot_dlq = verdict.ot_dlq + 1
            /\ \A s \in Series \ {"dlq_written", "ot_dlq"} : seen'[s] = verdict[s]
        BY <2>2, <4>1, AuditEvent
      <4>3. {"in_process", "nacked_terminal", "ot_messages", "ot_durations"}
               \subseteq Series \ {"dlq_written", "ot_dlq"}
        BY DEF Series
      <4> QED
        BY <2>2, <3>1, <4>2, <4>3
    <3>2. CASE ~Audited
      BY <2>1, <2>2, <3>2
    <3> QED
      BY <3>1, <3>2
  <2>4. pc' = "gone" /\ Failed' /\ (Dispatched' <=> Dispatched) /\ (Audited <=> config'.dlq # "none")
    BY <1>0, <1>3 DEF Failed, Failure, Dispatched, Audited
  <2> QED
    BY <1>0, <2>3, <2>4 DEF GaugeIsTrue, InFlight, VerdictCountedOnce
<1> QED
  BY <1>2, <1>3

\* A write that does not land, or whose reply is lost, counts no verdict and
\* closes the dispatch if there was one.
LEMMA LostCounts ==
    ASSUME CountInv, WriteMisses \/ WriteFails \/ ReplyLost
    PROVE  seen' \in [Series -> Int] /\ GaugeIsTrue' /\ VerdictCountedOnce'
<1>0. /\ seen \in [Series -> Int] /\ pc = "write" /\ UNCHANGED <<config, copy>>
      /\ cut \in Nat /\ cut' \in {0, cut} /\ pc' \in {"leased", "unwritten", "vanished"}
  BY DeliveryTypes DEF CountInv, OutcomeInv, Typed, WriteMisses, WriteFails, ReplyLost, Landed
<1>1. /\ \A s \in Counters : seen[s] = 0
      /\ seen.in_process = IF Dispatched THEN cut + 1 ELSE cut
  BY <1>0, BeforeTheVerdict
<1>2. ASSUME seen' \in [Series -> Int], seen'.in_process = cut', \A s \in Counters : seen'[s] = 0
      PROVE  seen' \in [Series -> Int] /\ GaugeIsTrue' /\ VerdictCountedOnce'
  <2>1. ~InFlight'
    BY <1>0 DEF InFlight
  <2>2. GaugeIsTrue'
    BY <1>2, <2>1 DEF GaugeIsTrue
  <2>3. VerdictCountedOnce'
    BY <1>0, <1>2 DEF VerdictCountedOnce, Counters
  <2> QED
    BY <1>2, <2>2, <2>3
<1>3. CASE seen' = NoneSeen /\ cut' = 0
  BY <1>2, <1>3 DEF NoneSeen, Series, Counters
<1>4. ASSUME NEW event \in {"lease_lost", "dispatch_abandoned"}, Dispatched,
             seen' = Emit(seen, event, TRUE), cut' = cut
      PROVE  seen' \in [Series -> Int] /\ GaugeIsTrue' /\ VerdictCountedOnce'
  <2>1. /\ seen' \in [Series -> Int] /\ seen'.in_process = seen.in_process - 1
        /\ \A s \in Series \ {"in_process"} : seen'[s] = seen[s]
    <3>1. event # "dispatched" /\ seen \in [Series -> Int]
      BY <1>0
    <3>2. event \in {"dispatched", "dispatch_abandoned", "lease_lost", "ack", "retry"}
      OBVIOUS
    <3>3. GaugeMoves(seen, Emit(seen, event, TRUE), event, TRUE)
      BY <3>1, <3>2, GaugeEvent
    <3> QED
      BY <1>4, <3>1, <3>3 DEF GaugeMoves
  <2>2. Counters \subseteq Series \ {"in_process"}
    BY DEF Counters, Series
  <2> QED
    <3>1. seen.in_process = cut + 1
      BY <1>1, <1>4
    <3>2. seen'.in_process = cut'
      <4>1. cut' = cut /\ cut \in Nat
        BY <1>0, <1>4
      <4> QED
        BY <2>1, <3>1, <4>1
    <3>3. \A s \in Counters : seen'[s] = 0
      BY <1>1, <2>1, <2>2
    <3> QED
      BY <1>2, <2>1, <3>2, <3>3
<1>5. CASE ~Dispatched /\ seen' = Emit(seen, "lease_lost", FALSE) /\ cut' = cut
  <2>1. /\ seen' \in [Series -> Int] /\ seen'.in_process = seen.in_process
        /\ \A s \in Series \ {"in_process"} : seen'[s] = seen[s]
    <3>1. GaugeMoves(seen, Emit(seen, "lease_lost", FALSE), "lease_lost", FALSE)
      BY <1>0, GaugeEvent
    <3> QED
      BY <1>5, <3>1 DEF GaugeMoves
  <2>2. Counters \subseteq Series \ {"in_process"}
    BY DEF Counters, Series
  <2> QED
    BY <1>1, <1>2, <1>5, <2>1, <2>2 DEF Dispatched
<1>6. CASE ~Dispatched /\ seen' = seen /\ cut' = cut
  BY <1>0, <1>1, <1>2, <1>6
<1>7. CASE WriteMisses
  <2>1. seen' = Emit(seen, "lease_lost", Dispatched) /\ cut' = cut
    BY <1>7 DEF WriteMisses
  <2>2. CASE Dispatched
    <3>1. seen' = Emit(seen, "lease_lost", TRUE)
      BY <2>1, <2>2 DEF Emit, Recorded, Measured
    <3> QED
      BY <1>4, <2>1, <2>2, <3>1
  <2>3. CASE ~Dispatched
    <3>1. seen' = Emit(seen, "lease_lost", FALSE)
      BY <2>1, <2>3 DEF Emit, Recorded, Measured
    <3> QED
      BY <1>5, <2>1, <2>3, <3>1
  <2> QED
    BY <2>2, <2>3
<1>8. CASE WriteFails \/ ReplyLost
  BY <1>3, <1>4, <1>6, <1>8 DEF WriteFails, ReplyLost
<1> QED
  BY <1>7, <1>8

\* A write, whatever becomes of it, ends the delivery.
LEMMA WriteStep ==
    ASSUME CountInv, WriteLands \/ WriteMisses \/ WriteFails \/ ReplyLost
    PROVE  CountInv'
<1>0. /\ Typed /\ pc = "write" /\ UNCHANGED <<config, running, foreignUp, deliveries, copy, run>>
      /\ cut' \in {0, cut} /\ cut \in 0..MaxCuts
      /\ pc' \in {"leased", "unwritten", "gone", "vanished"}
      /\ attempts' \in {attempts, copy.attempts}
      /\ attempts' = copy.attempts => copy.outcome # "none" /\ copy.outcome \in Outcome
  BY DeliveryTypes DEF CountInv, OutcomeInv, Typed, Captured, WriteLands, WriteMisses, WriteFails,
     ReplyLost, Landed
<1>1. seen' \in [Series -> Int] /\ GaugeIsTrue' /\ VerdictCountedOnce'
  BY LandedCounts, LostCounts
<1>2. /\ attempts' \in Nat
      /\ copy \in [attempts: 0..attempts' + 1, outcome: Outcome, failed: BOOLEAN]
  <2>1. copy \in AnyCopy /\ copy.attempts \in 0..attempts + 1 /\ attempts \in Nat
    BY <1>0, DeliveryTypes
  <2>2. attempts' \in Nat /\ copy.attempts \in 0..attempts' + 1
    BY <1>0, <2>1
  <2> QED
    BY <2>1, <2>2 DEF AnyCopy
<1>3. Typed'
  <2>1. cut' \in 0..MaxCuts
    BY <1>0, ConsumeAssumption
  <2> QED
    BY <1>0, <1>1, <1>2, <2>1 DEF Typed, Place
<1>4. OutcomeInv'
  BY <1>0, <1>3
     DEF OutcomeInv, ByHandOnly, AttemptCounted, DispatchedRows, Progress, Captured,
         OutcomeJustified, Dispatching, Calling, Exiting
<1> QED
  BY <1>1, <1>4 DEF CountInv

\* A lease that runs out and a crash end it too; the switches of the subscriber
\* and of the foreign broker change nothing of it.
LEMMA EndStep ==
    ASSUME CountInv, LeaseRunsOut \/ Crash \/ StartForeign \/ Start \/ Stop \/ CutOff
    PROVE  CountInv'
<1> USE DEF OutcomeInv, ByHandOnly, AttemptCounted, DispatchedRows, Progress, Captured,
        OutcomeJustified, RejectionChosen, SuccessDone, RetryDue, Published,
        Dispatching, Calling, Exiting, Dispatched
<1>0. OutcomeInv /\ Typed /\ GaugeIsTrue /\ VerdictCountedOnce
  BY DEF CountInv
<1>1. CASE LeaseRunsOut
  <2>1. /\ pc \in {"abandoned", "unwritten", "cut"} /\ pc' = "leased"
        /\ UNCHANGED <<config, cut, running, foreignUp, attempts, deliveries, copy, run, seen>>
    BY <1>1 DEF LeaseRunsOut
  <2>2. Typed'
    BY <1>0, <2>1 DEF Typed, Place
  <2>3. GaugeIsTrue' /\ VerdictCountedOnce'
    BY <1>0, <2>1 DEF GaugeIsTrue, InFlight, VerdictCountedOnce
  <2> QED
    BY <2>1, <2>2, <2>3 DEF CountInv
<1>2. CASE Crash
  <2>1. /\ pc' = "leased" /\ seen' = NoneSeen /\ cut' = 0
        /\ UNCHANGED <<config, running, foreignUp, attempts, deliveries, copy>>
        /\ run' = [run EXCEPT !.chained = IF @ = "open" THEN "rolled_back" ELSE @]
    BY <1>2 DEF Crash
  <2>2. run' \in Run
    BY <1>0, <2>1, DeliveryTypes DEF Run, Session
  <2>3. Typed'
    BY <1>0, <2>1, <2>2, ConsumeAssumption DEF Typed, Place, NoneSeen
  <2>4. GaugeIsTrue' /\ VerdictCountedOnce'
    BY <2>1 DEF GaugeIsTrue, InFlight, VerdictCountedOnce, NoneSeen, Series
  <2> QED
    BY <2>1, <2>3, <2>4 DEF CountInv
<1>3. CASE StartForeign \/ Start \/ Stop
  <2>1. /\ UNCHANGED <<config, cut, attempts, deliveries, copy, pc, run, seen>>
        /\ running' \in BOOLEAN /\ foreignUp' \in BOOLEAN
    BY <1>0, <1>3 DEF StartForeign, Start, Stop, Typed
  <2>2. Typed'
    BY <1>0, <2>1 DEF Typed
  <2>3. GaugeIsTrue' /\ VerdictCountedOnce'
    BY <1>0, <2>1 DEF GaugeIsTrue, InFlight, VerdictCountedOnce, Failed
  <2>4. OutcomeInv'
    BY <1>0, <2>1, <2>2
  <2> QED
    BY <2>3, <2>4 DEF CountInv
<1>4. CASE CutOff
  <2>1. /\ pc \in {"parse", "handler", "publish", "relay", "exits"} /\ pc' = "cut"
        /\ running' = FALSE /\ cut < MaxCuts /\ cut' = cut + 1
        /\ run' = [run EXCEPT !.chained = IF @ = "open" THEN "rolled_back" ELSE @]
        /\ UNCHANGED <<config, foreignUp, attempts, deliveries, copy, seen>>
    BY <1>4 DEF CutOff
  <2>2. run' \in Run
    BY <1>0, <2>1, DeliveryTypes DEF Run, Session
  <2>3. cut' \in 0..MaxCuts
    BY <1>0, <2>1, ConsumeAssumption DEF Typed
  <2>4. Typed'
    BY <1>0, <2>1, <2>2, <2>3 DEF Typed, Place
  <2>5. VerdictCountedOnce'
    BY <1>0, <2>1 DEF VerdictCountedOnce
  <2>6. seen.in_process = cut + 1
    BY <1>0, <2>1 DEF GaugeIsTrue, InFlight
  <2>7. GaugeIsTrue'
    BY <1>0, <2>1, <2>6, DeliveryTypes DEF GaugeIsTrue, InFlight
  <2> QED
    BY <2>1, <2>4, <2>5, <2>7 DEF CountInv
<1> QED
  BY <1>1, <1>2, <1>3, <1>4

\* The dispatched event opens the gauge and counts nothing.
LEMMA Opening ==
    ASSUME seen \in [Series -> Int]
    PROVE  /\ Emit(seen, "dispatched", FALSE) \in [Series -> Int]
           /\ Emit(seen, "dispatched", FALSE).in_process = seen.in_process + 1
           /\ \A s \in Series \ {"in_process"} : Emit(seen, "dispatched", FALSE)[s] = seen[s]
<1>1. Emit(seen, "dispatched", FALSE) = [seen EXCEPT !.in_process = @ + 1]
  BY DEF Emit, Measured, Recorded, Series
<1>2. "in_process" \in Series /\ seen.in_process \in Int
  BY DEF Series
<1>3. seen.in_process + 1 \in Int
  BY <1>2
<1>4. Emit(seen, "dispatched", FALSE) \in [Series -> Int]
  BY <1>1, <1>2, <1>3
<1>5. Emit(seen, "dispatched", FALSE).in_process = seen.in_process + 1
  BY <1>1, <1>2
<1>6. \A s \in Series \ {"in_process"} : Emit(seen, "dispatched", FALSE)[s] = seen[s]
  BY <1>1
<1> QED
  BY <1>4, <1>5, <1>6

\* Before the write the series show a dispatch in process and no verdict.
LEMMA DispatchCounts ==
    ASSUME CountInv, OutcomeInv',
           \/ Consume \/ ConsumeRefused \/ RefuseDelivery
           \/ ParseFails \/ CallHandler \/ Handling
           \/ PublishResponse \/ PublishPlain \/ Relay
           \/ SessionExit \/ CaptureException \/ Acknowledge \/ RecordOutcome
    PROVE  GaugeIsTrue' /\ VerdictCountedOnce'
<1>0. /\ seen \in [Series -> Int] /\ seen.in_process \in Int /\ UNCHANGED <<config, cut>>
      /\ DispatchedRows /\ DispatchedRows' /\ Captured' /\ AttemptCounted'
      /\ Counters \subseteq Series \ {"in_process"}
  BY DEF CountInv, OutcomeInv, Typed, Consume, ConsumeRefused, RefuseDelivery, ParseFails,
     CallHandler, Handling, HandlerSettles, HandlerRaises, HandlerReturns, PublishResponse,
     PublishPlain, Relay, SessionExit, CaptureException, Acknowledge, RecordOutcome,
     Series, Counters
<1>n. cut \in Nat
  BY DeliveryTypes DEF CountInv, OutcomeInv
<1>1. ASSUME pc # "gone" PROVE \A s \in Counters : seen[s] = 0
  BY <1>1, BeforeTheVerdict
<1>2. ASSUME pc' # "gone", \A s \in Counters : seen'[s] = 0 PROVE VerdictCountedOnce'
  BY <1>2 DEF VerdictCountedOnce, Counters
<1>3. CASE Consume
  <2>1. /\ pc = "leased" /\ pc' = "parse" /\ seen' = Emit(seen, "dispatched", FALSE)
    BY <1>3 DEF Consume
  <2>2. seen.in_process = cut
    BY <1>0, <2>1 DEF CountInv, GaugeIsTrue, InFlight
  <2>3. seen'.in_process = cut + 1 /\ \A s \in Counters : seen'[s] = 0
    <3>1. /\ seen'.in_process = seen.in_process + 1
          /\ \A s \in Series \ {"in_process"} : seen'[s] = seen[s]
      BY <1>0, <2>1, Opening
    <3>2. seen'.in_process = cut + 1
      BY <1>0, <1>n, <2>2, <3>1
    <3> QED
      BY <1>0, <1>1, <2>1, <3>1, <3>2
  <2> QED
    BY <1>0, <1>2, <2>1, <2>3 DEF GaugeIsTrue, InFlight, DispatchedRows, Dispatching
<1>4. CASE ConsumeRefused
  <2> DEFINE opened == Emit(seen, "dispatched", FALSE)
  <2>1. /\ pc = "leased" /\ pc' = "abandoned"
        /\ seen' = Emit(opened, "dispatch_abandoned", TRUE)
    BY <1>4 DEF ConsumeRefused, Record, Fresh
  <2>2. seen.in_process = cut
    BY <1>0, <2>1 DEF CountInv, GaugeIsTrue, InFlight
  <2>3. opened \in [Series -> Int] /\ opened.in_process = cut + 1 /\ \A s \in Counters : opened[s] = 0
    <3>1. /\ opened \in [Series -> Int]
          /\ opened.in_process = seen.in_process + 1
          /\ \A s \in Series \ {"in_process"} : opened[s] = seen[s]
      BY <1>0, Opening
    <3> HIDE DEF opened
    <3>2. opened.in_process = cut + 1
      BY <1>0, <1>n, <2>2, <3>1
    <3> QED
      BY <1>0, <1>1, <2>1, <3>1, <3>2
  <2> HIDE DEF opened
  <2>4. seen'.in_process = cut /\ \A s \in Counters : seen'[s] = 0
    <3>1. TRUE \in BOOLEAN /\ "dispatch_abandoned" # "dispatched"
      OBVIOUS
    <3>2. /\ seen'.in_process = opened.in_process - 1
          /\ \A s \in Series \ {"in_process"} : seen'[s] = opened[s]
      BY <2>1, <2>3, <3>1, GaugeEvent DEF GaugeMoves
    <3> QED
      BY <1>0, <1>n, <2>3, <3>2
  <2>5. VerdictCountedOnce'
    BY <1>2, <2>1, <2>4
  <2> QED
    BY <1>0, <2>1, <2>4, <2>5 DEF GaugeIsTrue, InFlight
<1>5. CASE RefuseDelivery
  <2>1. /\ pc = "leased" /\ pc' = "write" /\ seen' = seen /\ copy'.outcome = "max_deliveries"
    BY <1>5 DEF RefuseDelivery, Fresh
  <2> QED
    BY <1>0, <1>1, <1>2, <2>1 DEF CountInv, GaugeIsTrue, InFlight, Dispatched
<1>6. CASE RecordOutcome /\ pc' = "abandoned"
  <2>1. pc = "record" /\ seen' = Emit(seen, "dispatch_abandoned", TRUE)
    BY <1>6 DEF RecordOutcome, Record
  <2>2. seen.in_process = cut + 1
    BY <1>0, <2>1 DEF CountInv, GaugeIsTrue, InFlight, DispatchedRows
  <2>3. seen'.in_process = cut /\ \A s \in Counters : seen'[s] = 0
    <3>1. TRUE \in BOOLEAN /\ "dispatch_abandoned" # "dispatched"
      OBVIOUS
    <3>2. /\ seen'.in_process = seen.in_process - 1
          /\ \A s \in Series \ {"in_process"} : seen'[s] = seen[s]
      BY <1>0, <2>1, <3>1, GaugeEvent DEF GaugeMoves
    <3>3. seen'.in_process = cut
      BY <1>0, <1>n, <2>2, <3>2
    <3> QED
      BY <1>0, <1>1, <2>1, <3>2, <3>3
  <2> QED
    BY <1>0, <1>2, <1>6, <2>3 DEF GaugeIsTrue, InFlight
<1>7. ASSUME pc \in Dispatching \cup {"record"}, pc' \in Dispatching \cup {"record", "write"},
             seen' = seen, Dispatched'
      PROVE  GaugeIsTrue' /\ VerdictCountedOnce'
  <2>1. seen.in_process = cut + 1
    BY <1>0, <1>7 DEF CountInv, GaugeIsTrue, InFlight, DispatchedRows, Dispatching, Calling, Exiting
  <2> QED
    BY <1>0, <1>1, <1>2, <1>7, <2>1 DEF GaugeIsTrue, InFlight, Dispatching, Calling, Exiting
<1>8. CASE RecordOutcome /\ pc' # "abandoned"
  <2>1. pc = "record" /\ pc' = "write" /\ seen' = seen /\ copy' = AssertStateSet(copy)
    BY <1>8 DEF RecordOutcome, Record
  <2>2. Dispatched'
    <3>1. copy.outcome # "max_deliveries"
      BY <1>0, <2>1 DEF DispatchedRows, Dispatched
    <3>2. Typed /\ copy \in AnyCopy /\ copy.failed \in BOOLEAN
      BY DeliveryTypes DEF CountInv, OutcomeInv
    <3>3. PICK intent \in {"nack", "reject"} : copy' = Settle(copy, intent)
      BY <2>1 DEF AssertStateSet
    <3>4. intent \in Intent
      BY DEF Intent
    <3> QED
      BY <3>1, <3>2, <3>3, <3>4, SettleOnce DEF Dispatched
  <2> QED
    BY <1>7, <2>1, <2>2
<1>9. CASE \/ ParseFails \/ CallHandler \/ Handling
           \/ PublishResponse \/ PublishPlain \/ Relay
           \/ SessionExit \/ CaptureException \/ Acknowledge
  <2>1. /\ pc \in Dispatching /\ pc' \in Dispatching \cup {"record"} /\ seen' = seen
    BY <1>9 DEF ParseFails, CallHandler, Handling, HandlerSettles, HandlerRaises, HandlerReturns,
       PublishResponse, PublishPlain, Relay, SessionExit, CaptureException, Acknowledge,
       Dispatching, Calling, Exiting
  <2>2. Dispatched'
    BY <1>0, <2>1 DEF DispatchedRows
  <2> QED
    BY <1>7, <2>1, <2>2
<1> QED
  BY <1>3, <1>4, <1>5, <1>6, <1>8, <1>9

\* Every step preserves the invariant.
LEMMA CountInvStep == CountInv /\ [Next]_vars => CountInv'
<1> SUFFICES ASSUME CountInv, [Next]_vars PROVE CountInv'
  OBVIOUS
<1>1. OutcomeInv
  BY DEF CountInv
<1>2. CASE Consume \/ ConsumeRefused \/ RefuseDelivery
  BY <1>1, <1>2, ClaimStep, DispatchCounts DEF CountInv
<1>3. CASE ParseFails \/ CallHandler \/ Handling
  BY <1>1, <1>3, HandlerStep, DispatchCounts DEF CountInv
<1>4. CASE PublishResponse \/ PublishPlain \/ Relay
  BY <1>1, <1>4, PublishStep, DispatchCounts DEF CountInv
<1>5. CASE SessionExit \/ CaptureException \/ Acknowledge \/ RecordOutcome
  BY <1>1, <1>5, ExitStep, AcknowledgeStep, RecordStep, DispatchCounts DEF CountInv
<1>6. CASE WriteLands \/ WriteMisses \/ WriteFails \/ ReplyLost
  BY <1>6, WriteStep
<1>7. CASE LeaseRunsOut \/ Crash \/ StartForeign \/ Start \/ Stop \/ CutOff
  BY <1>7, EndStep
<1>8. CASE UNCHANGED vars
  BY <1>8 DEF vars, CountInv, OutcomeInv, Typed, ByHandOnly, AttemptCounted, DispatchedRows,
     Progress, Captured, OutcomeJustified, RejectionChosen, SuccessDone, RetryDue, Published,
     Dispatched, GaugeIsTrue, InFlight, VerdictCountedOnce, Failed
<1> QED
  BY <1>2, <1>3, <1>4, <1>5, <1>6, <1>7, <1>8 DEF Next

\* Nothing was delivered yet and nothing counted.
LEMMA CountInvInit == Init => CountInv
<1> SUFFICES ASSUME Init PROVE CountInv
  OBVIOUS
<1>1. /\ pc = "leased" /\ attempts = 0 /\ deliveries = 0
      /\ copy = [attempts |-> 0, outcome |-> "none", failed |-> FALSE]
      /\ seen = NoneSeen /\ cut = 0
  BY DEF Init
<1>2. Typed
  <2>1. run \in Run
    BY DEF Init, NewRun, Run, Raised, Intent, Session
  <2>2. copy \in [attempts: 0..attempts + 1, outcome: Outcome, failed: BOOLEAN]
    BY <1>1 DEF Outcome
  <2>3. seen \in [Series -> Int]
    BY <1>1 DEF NoneSeen
  <2>4. deliveries \in 0 .. MaxDeliveries + 1
    BY <1>1, ConsumeAssumption
  <2> QED
    BY <1>1, <2>1, <2>2, <2>3, <2>4, ConsumeAssumption DEF Init, Typed, Place
<1>3. ByHandOnly /\ AttemptCounted /\ DispatchedRows /\ Progress /\ Captured /\ OutcomeJustified
  BY <1>1 DEF ByHandOnly, AttemptCounted, DispatchedRows, Progress, Captured, OutcomeJustified,
     Dispatching, Calling, Exiting
<1>4. GaugeIsTrue /\ VerdictCountedOnce
  BY <1>1 DEF GaugeIsTrue, InFlight, VerdictCountedOnce, NoneSeen, Series
<1> QED
  BY <1>2, <1>3, <1>4 DEF CountInv, OutcomeInv

\* What is known in the middle of a delivery gives the properties of its end.
LEMMA CountInvImplies ==
    CountInv => /\ TypeOK /\ FailedIsRetried /\ RejectedByChoice /\ AckedIsDone
                /\ GaugeIsTrue /\ VerdictCountedOnce
<1> SUFFICES ASSUME CountInv PROVE /\ TypeOK /\ FailedIsRetried /\ RejectedByChoice /\ AckedIsDone
                                   /\ GaugeIsTrue /\ VerdictCountedOnce
  OBVIOUS
<1>1. Typed /\ AttemptCounted /\ Captured /\ OutcomeJustified /\ GaugeIsTrue /\ VerdictCountedOnce
  BY DEF CountInv, OutcomeInv
<1>2. TypeOK
  BY <1>1 DEF TypeOK, Typed, AttemptCounted, Captured
<1>3. FailedIsRetried
  BY <1>1 DEF FailedIsRetried, Settled, OutcomeJustified, RetryDue
<1>4. RejectedByChoice
  BY <1>1 DEF RejectedByChoice, Settled, OutcomeJustified, RejectionChosen
<1>5. AckedIsDone
  BY <1>1 DEF AckedIsDone, Settled, OutcomeJustified, SuccessDone, Published
<1> QED
  BY <1>1, <1>2, <1>3, <1>4, <1>5

\* Type correctness; a delivery counts one attempt, however often it was settled.
THEOREM ConsumeTypeCorrect == Spec => []TypeOK
BY CountInvImplies, CountInvInit, CountInvStep, PTL DEF Spec

\* A failed delivery whose strategy grants a retry is rescheduled, whichever
\* middleware saw the failure (FailedIsRetried), for every max_attempts.
THEOREM FailuresAreRetried == Spec => []FailedIsRetried
BY CountInvImplies, CountInvInit, CountInvStep, PTL DEF Spec

\* A row is rejected only because somebody chose so (RejectedByChoice).
THEOREM RejectionsAreChosen == Spec => []RejectedByChoice
BY CountInvImplies, CountInvInit, CountInvStep, PTL DEF Spec

\* An acknowledged row is done: what its handler returned was published and
\* committed (AckedIsDone).
THEOREM AcknowledgedAreDone == Spec => []AckedIsDone
BY CountInvImplies, CountInvInit, CountInvStep, PTL DEF Spec

\* The in-flight gauge is the dispatches under way and those a drain cut off
\* (GaugeIsTrue), over any number of deliveries, crashes and restarts.
THEOREM GaugeStaysTrue == Spec => []GaugeIsTrue
BY CountInvImplies, CountInvInit, CountInvStep, PTL DEF Spec

\* A terminal failure is counted once, when its row is known to be gone
\* (VerdictCountedOnce).
THEOREM VerdictsCountedOnce == Spec => []VerdictCountedOnce
BY CountInvImplies, CountInvInit, CountInvStep, PTL DEF Spec
=============================================================================
