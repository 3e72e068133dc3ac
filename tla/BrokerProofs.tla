---------------------------- MODULE BrokerProofs ----------------------------
(***************************************************************************)
(* Proofs about Broker: no loop runs that nobody lists, stop() stops what  *)
(* there is, and ping() sees loops that died, for every set of             *)
(* subscribers and any number of starts and faults.                        *)
(***************************************************************************)
EXTENDS Broker, SequenceTheorems, TLAPS

-----------------------------------------------------------------------------
(* The inductive invariant. *)

\* A subscriber has at most one stop() of each caller.
OneOfEach(calls) == \A i, j \in DOMAIN calls : calls[i].by = calls[j].by => i = j

OneStopEach == \A s \in Subs : OneOfEach(stops[s])

\* The broker's stops run only while the application awaits them.
StopsAwaited == phase # "gathering" => \A s \in Subs : ~Stopping(s, "broker")

\* The flag and the sampler follow the application's calls; the sampler runs on
\* without being held only while stop() leaves it.
FlagFollows ==
    /\ running <=> phase = "up"
    /\ phase \in {"down", "gathering", "interrupted"} => lag = NoLag
    /\ phase = "up" => (lag.held <=> lag.samples)
    /\ ~lag.samples => lag = NoLag

\* A stop() that cancels has stopped the subscriber, and cancels every loop but
\* those of a start() that crossed it.
CancelsAll ==
    \A s \in Subs : \A i \in DOMAIN stops[s] :
        stops[s][i].stage = "cancel" =>
            /\ sub[s].alive \subseteq stops[s][i].tasks \cup sub[s].crossed
            /\ ~sub[s].running \/ (stops[s][i].by = "handler" /\ starts \in sub[s].crossed)

\* A subscriber that runs has listed its loops, alive or not, unless its start()
\* crossed a stop.
RunningIsListed ==
    \A s \in Subs : sub[s].running => starts \in sub[s].listed \cup sub[s].crossed

\* A subscriber the broker's stop() is done with is stopped, unless it missed it.
DoneIsStopped ==
    phase \in {"gathering", "down"} =>
        \A s \in Subs \ missed :
            \/ Stopping(s, "broker")
            \/ sub[s].alive \subseteq sub[s].crossed /\ ~sub[s].running

LifeInv ==
    /\ TypeOK
    /\ OneStopEach /\ StopsAwaited /\ FlagFollows
    /\ CancelsAll /\ NoOrphanLoops /\ RunningIsListed /\ DoneIsStopped
-----------------------------------------------------------------------------
(* The stop() calls of a subscriber, as a sequence. *)

\* Removing an element shifts those behind it.
LEMMA RemoveAtShifts ==
    ASSUME NEW S, NEW q \in Seq(S), NEW i \in DOMAIN q
    PROVE  /\ RemoveAt(q, i) \in Seq(S)
           /\ DOMAIN RemoveAt(q, i) = 1 .. Len(q) - 1
           /\ \A k \in 1 .. Len(q) - 1 : RemoveAt(q, i)[k] = q[IF k < i THEN k ELSE k + 1]
<1>1. Len(q) \in Nat /\ DOMAIN q = 1 .. Len(q) /\ i \in 1 .. Len(q)
  BY LenProperties
<1> DEFINE front == SubSeq(q, 1, i - 1)
           back == SubSeq(q, i + 1, Len(q))
<1>2. /\ front \in Seq(S) /\ Len(front) = i - 1
      /\ \A k \in 1 .. i - 1 : front[k] = q[k]
  BY <1>1, SubSeqProperties
<1>3. /\ back \in Seq(S) /\ Len(back) = Len(q) - i
      /\ \A k \in 1 .. Len(q) - i : back[k] = q[k + i]
  BY <1>1, SubSeqProperties
<1> HIDE DEF front, back
<1>4. /\ front \o back \in Seq(S)
      /\ Len(front \o back) = Len(q) - 1
      /\ \A k \in 1 .. Len(q) - 1 :
            (front \o back)[k] = IF k =< i - 1 THEN front[k] ELSE back[k - (i - 1)]
  <2>1. /\ front \o back \in Seq(S)
        /\ Len(front \o back) = Len(front) + Len(back)
        /\ \A k \in 1 .. Len(front) + Len(back) :
              (front \o back)[k] = IF k =< Len(front) THEN front[k] ELSE back[k - Len(front)]
    BY <1>2, <1>3, ConcatProperties
  <2>2. Len(front) + Len(back) = Len(q) - 1
    BY <1>1, <1>2, <1>3
  <2> QED
    BY <1>2, <2>1, <2>2
<1>5. DOMAIN (front \o back) = 1 .. Len(q) - 1
  BY <1>4, LenProperties
<1>6. ASSUME NEW k \in 1 .. Len(q) - 1
      PROVE  (front \o back)[k] = q[IF k < i THEN k ELSE k + 1]
  <2>1. CASE k < i
    BY <1>1, <1>2, <1>4, <2>1
  <2>2. CASE ~(k < i)
    <3>1. k - (i - 1) \in 1 .. Len(q) - i /\ k - (i - 1) + i = k + 1 /\ ~(k =< i - 1)
      BY <1>1, <2>2
    <3>2. back[k - (i - 1)] = q[k - (i - 1) + i]
      BY <1>3, <3>1
    <3> QED
      BY <1>4, <2>2, <3>1, <3>2
  <2> QED
    BY <2>1, <2>2
<1> QED
  BY <1>4, <1>5, <1>6 DEF RemoveAt, front, back

\* Removing a call leaves each other one, once.
LEMMA OthersRemain ==
    ASSUME NEW q \in Seq(StopCall), NEW i \in DOMAIN q, OneOfEach(q)
    PROVE  /\ RemoveAt(q, i) \in Seq(StopCall) /\ OneOfEach(RemoveAt(q, i))
           /\ \A k \in DOMAIN RemoveAt(q, i) : \E m \in DOMAIN q \ {i} : RemoveAt(q, i)[k] = q[m]
           /\ \A m \in DOMAIN q \ {i} : \E k \in DOMAIN RemoveAt(q, i) : RemoveAt(q, i)[k] = q[m]
<1> DEFINE rest == RemoveAt(q, i)
           from(k) == IF k < i THEN k ELSE k + 1
<1>1. /\ rest \in Seq(StopCall) /\ DOMAIN rest = 1 .. Len(q) - 1
      /\ \A k \in DOMAIN rest : rest[k] = q[from(k)]
  BY RemoveAtShifts
<1> HIDE DEF rest
<1>2. Len(q) \in Nat /\ DOMAIN q = 1 .. Len(q) /\ i \in 1 .. Len(q)
  BY LenProperties
<1>3. \A k \in DOMAIN rest : from(k) \in DOMAIN q \ {i}
  BY <1>1, <1>2
<1>4. \A k, l \in DOMAIN rest : from(k) = from(l) => k = l
  BY <1>1, <1>2
<1>5. ASSUME NEW m \in DOMAIN q \ {i} PROVE \E k \in DOMAIN rest : from(k) = m
  <2>1. CASE m < i
    <3>1. m \in DOMAIN rest /\ from(m) = m
      BY <1>1, <1>2, <2>1
    <3> QED
      BY <3>1
  <2>2. CASE m > i
    <3>1. m - 1 \in DOMAIN rest /\ from(m - 1) = m
      BY <1>1, <1>2, <2>2
    <3> QED
      BY <3>1
  <2> QED
    BY <1>2, <2>1, <2>2
<1> HIDE DEF from
<1>6. OneOfEach(rest)
  BY <1>1, <1>3, <1>4 DEF OneOfEach
<1> QED
  BY <1>1, <1>3, <1>5, <1>6 DEF rest

\* A call of a caller that has none yet is the last of them.
LEMMA CallAdded ==
    ASSUME NEW q \in Seq(StopCall), NEW c \in StopCall, OneOfEach(q),
           \A i \in DOMAIN q : q[i].by # c.by
    PROVE  /\ Append(q, c) \in Seq(StopCall) /\ OneOfEach(Append(q, c))
           /\ DOMAIN Append(q, c) = DOMAIN q \cup {Len(q) + 1}
           /\ Append(q, c)[Len(q) + 1] = c
           /\ \A i \in DOMAIN q : Append(q, c)[i] = q[i]
<1> DEFINE more == Append(q, c)
<1>1. Len(q) \in Nat /\ DOMAIN q = 1 .. Len(q)
  BY LenProperties
<1>2. /\ more \in Seq(StopCall) /\ Len(more) = Len(q) + 1
      /\ \A i \in 1 .. Len(q) : more[i] = q[i]
      /\ more[Len(q) + 1] = c
  BY AppendProperties
<1> HIDE DEF more
<1>3. DOMAIN more = DOMAIN q \cup {Len(q) + 1}
  <2>1. DOMAIN more = 1 .. Len(q) + 1
    BY <1>2, LenProperties
  <2> QED
    BY <1>1, <2>1
<1>4. OneOfEach(more)
  BY <1>1, <1>2, <1>3 DEF OneOfEach
<1> QED
  BY <1>1, <1>2, <1>3, <1>4 DEF more

\* There are two callers.
LEMMA AtMostTwo ==
    ASSUME NEW q \in Seq(StopCall), OneOfEach(q)
    PROVE  Len(q) =< 2
<1>1. Len(q) \in Nat /\ DOMAIN q = 1 .. Len(q)
  BY LenProperties
<1>2. \A i \in DOMAIN q : q[i].by \in {"broker", "handler"}
  <2>1. q \in [1 .. Len(q) -> StopCall]
    BY LenProperties
  <2> QED
    BY <1>1, <2>1 DEF StopCall
<1>3. SUFFICES ASSUME Len(q) > 2 PROVE FALSE
  BY <1>1
<1>4. {1, 2, 3} \subseteq DOMAIN q
  BY <1>1, <1>3
<1>5. q[1].by # q[2].by /\ q[1].by # q[3].by /\ q[2].by # q[3].by
  BY <1>4 DEF OneOfEach
<1> QED
  BY <1>2, <1>4, <1>5
-----------------------------------------------------------------------------
(* Each step preserves the invariant. *)

\* A subscriber and a call of its stop(), by their types.
LEMMA Types ==
    ASSUME TypeOK, NEW s \in Subs
    PROVE  /\ sub[s] \in SubState /\ stops[s] \in Seq(StopCall)
           /\ DOMAIN stops[s] = 1 .. Len(stops[s]) /\ Len(stops[s]) \in Nat
           /\ \A i \in DOMAIN stops[s] : stops[s][i] \in StopCall
<1>1. sub[s] \in SubState /\ stops[s] \in Seq(StopCall)
  BY DEF TypeOK
<1>2. stops[s] \in [1 .. Len(stops[s]) -> StopCall] /\ Len(stops[s]) \in Nat
  BY <1>1, LenProperties
<1> QED
  BY <1>1, <1>2

\* start() lists its loops, and crosses the stops that have cancelled.
LEMMA StartStep ==
    ASSUME LifeInv, Start PROVE LifeInv'
<1>1. /\ TypeOK /\ OneStopEach /\ StopsAwaited /\ FlagFollows
      /\ CancelsAll /\ NoOrphanLoops /\ RunningIsListed /\ DoneIsStopped
  BY DEF LifeInv
<1>2. /\ phase \in {"down", "interrupted"} /\ starts < MaxStarts
      /\ sub' = [s \in Subs |-> Started(s)]
      /\ running' = TRUE /\ phase' = "up" /\ starts' = starts + 1
      /\ UNCHANGED <<stops, missed, faults>>
  BY DEF Start
<1>3. starts \in 0 .. MaxStarts /\ starts' \in 0 .. MaxStarts /\ starts + 1 \in Loops
  BY <1>1, <1>2, BrokerAssumption DEF TypeOK, Loops
<1>4. ASSUME NEW s \in Subs
      PROVE  /\ sub'[s] \in SubState /\ sub'[s].listed = sub[s].listed \cup {starts + 1}
             /\ sub'[s].alive = sub[s].alive \cup {starts + 1}
             /\ sub'[s].crossed = IF \E i \in DOMAIN stops[s] : stops[s][i].stage = "cancel"
                                  THEN sub[s].crossed \cup {starts + 1} ELSE sub[s].crossed
  BY <1>1, <1>2, <1>3, Types DEF Started, SubState, Clearing
<1>5. /\ lag' \in [samples: BOOLEAN, held: BOOLEAN, gauges: Gauges]
      /\ lag'.held <=> lag'.samples
      /\ ~lag'.samples => lag' = NoLag
  <2>1. lag = NoLag /\ ~lag.held
    BY <1>1, <1>2 DEF FlagFollows, NoLag
  <2>2. lag' \in {NoLag, [samples |-> TRUE, held |-> TRUE, gauges |-> "unset"]}
    BY <2>1 DEF Start, StartQueueLag
  <2>3. CASE lag' = NoLag
    BY <2>3 DEF NoLag, Gauges
  <2>4. CASE lag' = [samples |-> TRUE, held |-> TRUE, gauges |-> "unset"]
    BY <2>4 DEF Gauges
  <2> QED
    BY <2>2, <2>3, <2>4
<1>6. TypeOK'
  <2>1. sub' \in [Subs -> SubState]
    BY <1>2, <1>4
  <2> QED
    BY <1>1, <1>2, <1>3, <1>5, <2>1 DEF TypeOK
<1>7. StopsAwaited' /\ FlagFollows' /\ OneStopEach' /\ DoneIsStopped'
  BY <1>1, <1>2, <1>5
     DEF StopsAwaited, FlagFollows, OneStopEach, OneOfEach, DoneIsStopped, Stopping
<1>8. CancelsAll'
  <2> SUFFICES ASSUME NEW s \in Subs, NEW i \in DOMAIN stops[s], stops[s][i].stage = "cancel"
               PROVE  /\ sub'[s].alive \subseteq stops[s][i].tasks \cup sub'[s].crossed
                      /\ stops[s][i].by = "handler" /\ starts' \in sub'[s].crossed
    BY <1>2 DEF CancelsAll
  <2>1. sub'[s].crossed = sub[s].crossed \cup {starts + 1}
    BY <1>4
  <2>2. sub[s].alive \subseteq stops[s][i].tasks \cup sub[s].crossed
    BY <1>1 DEF CancelsAll
  <2>3. stops[s][i].by = "handler"
    BY <1>1, <1>2, Types DEF StopsAwaited, Stopping, StopCall
  <2> QED
    BY <1>2, <1>4, <2>1, <2>2, <2>3
<1>9. NoOrphanLoops' /\ RunningIsListed'
  <2>1. ASSUME NEW s \in Subs
        PROVE  sub'[s].alive \ sub'[s].listed \subseteq sub'[s].crossed
    BY <1>1, <1>4 DEF NoOrphanLoops
  <2> QED
    BY <1>2, <1>4, <2>1 DEF NoOrphanLoops, RunningIsListed
<1> QED
  BY <1>6, <1>7, <1>8, <1>9 DEF LifeInv

\* What the gathered stops leave behind.
Gathered ==
    /\ sub' \in [Subs -> SubState] /\ stops' \in [Subs -> Seq(StopCall)]
    /\ \A s \in Subs : Len(stops'[s]) =< 2 /\ Stopping(s, "broker")'
    /\ OneStopEach' /\ CancelsAll' /\ NoOrphanLoops' /\ RunningIsListed'

\* stop() of every subscriber begins where the broker has none.
LEMMA GatherStep ==
    ASSUME LifeInv, phase \in {"up", "leaving", "interrupted"}, Gather, starts' = starts
    PROVE  Gathered
<1>1. TypeOK /\ OneStopEach /\ StopsAwaited /\ CancelsAll /\ NoOrphanLoops /\ RunningIsListed
  BY DEF LifeInv
<1>2. /\ sub' = [s \in Subs |-> [sub[s] EXCEPT !.stopping = TRUE]]
      /\ stops' = [s \in Subs |-> Begins(s, "broker")]
  BY DEF Gather
<1>3. ASSUME NEW s \in Subs
      PROVE  /\ sub'[s] \in SubState /\ sub'[s].running = sub[s].running
             /\ sub'[s].listed = sub[s].listed /\ sub'[s].alive = sub[s].alive
             /\ sub'[s].crossed = sub[s].crossed
  BY <1>1, <1>2, Types DEF SubState
<1>4. ASSUME NEW s \in Subs
      PROVE  /\ stops'[s] \in Seq(StopCall) /\ OneOfEach(stops'[s]) /\ Len(stops'[s]) =< 2
             /\ Stopping(s, "broker")'
             /\ \A i \in DOMAIN stops'[s] : stops'[s][i].stage = "cancel" =>
                   i \in DOMAIN stops[s] /\ stops'[s][i] = stops[s][i]
    <2> DEFINE call == [by |-> "broker", queue |-> sub[s].queue, since |-> starts,
                        stage |-> "drain", tasks |-> {}]
    <2>1. call \in StopCall
      BY <1>1, Types DEF StopCall, SubState, Queues, TypeOK
    <2>2. stops'[s] = Append(stops[s], call) /\ call.by = "broker" /\ call.stage = "drain"
      BY <1>2 DEF Begins
    <2> HIDE DEF call
    <2>3. \A i \in DOMAIN stops[s] : stops[s][i].by # call.by
      BY <1>1, <2>2 DEF StopsAwaited, Stopping
    <2>4. stops[s] \in Seq(StopCall) /\ OneOfEach(stops[s])
      BY <1>1, Types DEF OneStopEach
    <2>5. /\ stops'[s] \in Seq(StopCall) /\ OneOfEach(stops'[s])
          /\ DOMAIN stops'[s] = DOMAIN stops[s] \cup {Len(stops[s]) + 1}
          /\ stops'[s][Len(stops[s]) + 1] = call
          /\ \A i \in DOMAIN stops[s] : stops'[s][i] = stops[s][i]
      <3> DEFINE q == stops[s]
      <3>1. q \in Seq(StopCall) /\ OneOfEach(q) /\ \A i \in DOMAIN q : q[i].by # call.by
        BY <2>3, <2>4
      <3> HIDE DEF q
      <3>2. /\ Append(q, call) \in Seq(StopCall) /\ OneOfEach(Append(q, call))
            /\ DOMAIN Append(q, call) = DOMAIN q \cup {Len(q) + 1}
            /\ Append(q, call)[Len(q) + 1] = call
            /\ \A i \in DOMAIN q : Append(q, call)[i] = q[i]
        BY <2>1, <3>1, CallAdded
      <3>3. stops'[s] = Append(q, call)
        BY <2>2 DEF q
      <3> QED
        BY <3>2, <3>3 DEF q
    <2>6. Stopping(s, "broker")'
      BY <2>2, <2>5 DEF Stopping
    <2>7. Len(stops'[s]) =< 2
      BY <2>5, AtMostTwo
    <2> QED
      BY <2>2, <2>5, <2>6, <2>7
<1>5. sub' \in [Subs -> SubState] /\ stops' \in [Subs -> Seq(StopCall)]
  BY <1>2, <1>3, <1>4
<1>6. CancelsAll'
  BY <1>1, <1>3, <1>4 DEF CancelsAll
<1>7. NoOrphanLoops' /\ RunningIsListed' /\ OneStopEach'
  BY <1>1, <1>3, <1>4 DEF NoOrphanLoops, RunningIsListed, OneStopEach, OneOfEach
<1> QED
  BY <1>4, <1>5, <1>6, <1>7 DEF Gathered

\* stop(), which leaves the sampler first, or begins the stops.
LEMMA StopStep ==
    ASSUME LifeInv, Stop \/ LagLeft PROVE LifeInv'
<1>1. TypeOK /\ StopsAwaited /\ FlagFollows
  BY DEF LifeInv
<1>2. phase \in {"up", "leaving", "interrupted"} /\ UNCHANGED <<starts, faults>>
  BY DEF Stop, LagLeft
<1>3. ASSUME Gather, running' = FALSE, lag' = NoLag PROVE LifeInv'
  <2>1. phase' = "gathering" /\ missed' = {} /\ Gathered
    BY <1>2, <1>3, GatherStep DEF Gather
  <2>2. lag' \in [samples: BOOLEAN, held: BOOLEAN, gauges: Gauges]
    BY <1>3 DEF NoLag, Gauges
  <2>3. TypeOK'
    BY <1>1, <1>2, <1>3, <2>1, <2>2 DEF TypeOK, Gathered
  <2>4. StopsAwaited' /\ FlagFollows' /\ DoneIsStopped'
    <3>1. \A s \in Subs : Stopping(s, "broker")'
      BY <2>1 DEF Gathered
    <3>2. StopsAwaited' /\ FlagFollows'
      BY <1>3, <2>1 DEF StopsAwaited, FlagFollows, NoLag
    <3>3. DoneIsStopped'
      BY <3>1 DEF DoneIsStopped
    <3> QED
      BY <3>2, <3>3
  <2> QED
    BY <2>1, <2>3, <2>4 DEF LifeInv, Gathered
<1>4. CASE LagLeft
  <2>1. Gather /\ lag' = NoLag /\ running' = running /\ ~running /\ running \in BOOLEAN
    BY <1>1, <1>4 DEF LagLeft, LagCleared, FlagFollows, TypeOK
  <2> QED
    BY <1>3, <2>1
<1>5. CASE Stop /\ ~lag.held
  <2>1. lag = NoLag
    BY <1>1, <1>5 DEF Stop, FlagFollows
  <2>2. lag' = [lag EXCEPT !.held = FALSE] /\ running' = FALSE /\ Gather
    BY <1>5 DEF Stop
  <2>3. lag' = NoLag
    BY <2>1, <2>2 DEF NoLag
  <2> QED
    BY <1>3, <2>2, <2>3
<1>6. CASE Stop /\ lag.held
  <2>1. /\ phase = "up" /\ phase' = "leaving" /\ UNCHANGED <<sub, stops, missed>>
        /\ ~running' /\ lag' = [lag EXCEPT !.held = FALSE] /\ lag.samples
    BY <1>1, <1>6 DEF Stop, FlagFollows, NoLag
  <2>2. lag' \in [samples: BOOLEAN, held: BOOLEAN, gauges: Gauges] /\ lag'.samples
    BY <1>1, <2>1 DEF TypeOK
  <2>3. TypeOK'
    BY <1>1, <1>2, <1>6, <2>1, <2>2 DEF TypeOK, Stop
  <2>4. StopsAwaited' /\ FlagFollows'
    BY <1>1, <1>6, <2>1, <2>2 DEF StopsAwaited, FlagFollows, Stopping, Stop
  <2> QED
    BY <1>2, <2>1, <2>3, <2>4 DEF LifeInv, OneStopEach, OneOfEach, CancelsAll, NoOrphanLoops,
       RunningIsListed, DoneIsStopped
<1> QED
  BY <1>4, <1>5, <1>6

\* The stops that the application no longer awaits are gone.
LEMMA InterruptedStep ==
    ASSUME LifeInv, Interrupted PROVE LifeInv'
<1>1. /\ TypeOK /\ OneStopEach /\ StopsAwaited /\ FlagFollows
      /\ CancelsAll /\ NoOrphanLoops /\ RunningIsListed
  BY DEF LifeInv
<1> DEFINE Own(s) == {i \in DOMAIN stops[s] : stops[s][i].by = "broker"}
           Ended(s) == UNION {stops[s][i].tasks : i \in Own(s)}
           own(s) == CHOOSE i \in Own(s) : TRUE
<1>2. /\ phase \in {"leaving", "gathering"} /\ phase' = "interrupted" /\ lag' = NoLag
      /\ faults' \in 0 .. MaxFaults /\ UNCHANGED <<running, starts>>
      /\ stops' = [s \in Subs |-> IF ~Stopping(s, "broker") THEN stops[s]
                                  ELSE RemoveAt(stops[s], own(s))]
      /\ sub' = [s \in Subs |-> [sub[s] EXCEPT !.alive = @ \ Ended(s)]]
  BY <1>1, BrokerAssumption DEF Interrupted, Fault, LagCleared, TypeOK
<1>m. missed' \subseteq Subs
  BY <1>1 DEF Interrupted, TypeOK
<1>3. ASSUME NEW s \in Subs
      PROVE  /\ sub'[s] \in SubState /\ sub'[s].running = sub[s].running
             /\ sub'[s].listed = sub[s].listed /\ sub'[s].alive \subseteq sub[s].alive
             /\ sub'[s].crossed = sub[s].crossed
  <2>1. sub[s] \in SubState
    BY <1>1, Types
  <2>2. sub'[s] = [sub[s] EXCEPT !.alive = @ \ Ended(s)]
    BY <1>2
  <2> HIDE DEF Ended
  <2> QED
    BY <2>1, <2>2 DEF SubState
<1>4. ASSUME NEW s \in Subs
      PROVE  /\ stops'[s] \in Seq(StopCall) /\ OneOfEach(stops'[s])
             /\ \A k \in DOMAIN stops'[s] :
                   /\ stops'[s][k].by # "broker"
                   /\ \E m \in DOMAIN stops[s] : stops'[s][k] = stops[s][m]
  <2> DEFINE q == stops[s]
  <2>1. q \in Seq(StopCall) /\ OneOfEach(q)
    BY <1>1, Types DEF OneStopEach
  <2>2. CASE ~Stopping(s, "broker")
    <3>1. stops'[s] = q
      BY <1>2, <2>2
    <3> QED
      BY <2>1, <2>2, <3>1 DEF Stopping
  <2>3. CASE Stopping(s, "broker")
    <3> DEFINE n == own(s)
    <3>1. stops'[s] = RemoveAt(q, n)
      BY <1>2, <2>3
    <3>2. n \in DOMAIN q /\ q[n].by = "broker"
      BY <2>3 DEF Stopping
    <3> HIDE DEF q, n
    <3>3. /\ RemoveAt(q, n) \in Seq(StopCall) /\ OneOfEach(RemoveAt(q, n))
          /\ \A k \in DOMAIN RemoveAt(q, n) : \E m \in DOMAIN q \ {n} : RemoveAt(q, n)[k] = q[m]
      BY <2>1, <3>2, OthersRemain
    <3>4. \A m \in DOMAIN q \ {n} : q[m].by # "broker"
      BY <2>1, <3>2 DEF OneOfEach
    <3> QED
      BY <3>1, <3>3, <3>4 DEF q
  <2> QED
    BY <2>2, <2>3
<1>5. TypeOK'
  <2>1. sub' \in [Subs -> SubState] /\ stops' \in [Subs -> Seq(StopCall)]
    BY <1>2, <1>3, <1>4
  <2>2. \A s \in Subs : Len(stops'[s]) =< 2
    BY <1>4, AtMostTwo
  <2>3. lag' \in [samples: BOOLEAN, held: BOOLEAN, gauges: Gauges]
    BY <1>2 DEF NoLag, Gauges
  <2> QED
    BY <1>1, <1>2, <1>m, <2>1, <2>2, <2>3 DEF TypeOK
<1>6. StopsAwaited' /\ FlagFollows' /\ DoneIsStopped'
  BY <1>1, <1>2, <1>4 DEF StopsAwaited, FlagFollows, DoneIsStopped, Stopping
<1>7. OneStopEach' /\ NoOrphanLoops' /\ RunningIsListed'
  <2>1. NoOrphanLoops'
    BY <1>1, <1>3 DEF NoOrphanLoops
  <2> QED
    BY <1>1, <1>2, <1>3, <1>4, <2>1 DEF OneStopEach, OneOfEach, RunningIsListed
<1>8. CancelsAll'
  <2> SUFFICES ASSUME NEW s \in Subs, NEW k \in DOMAIN stops'[s], stops'[s][k].stage = "cancel"
               PROVE  /\ sub'[s].alive \subseteq stops'[s][k].tasks \cup sub'[s].crossed
                      /\ \/ ~sub'[s].running
                         \/ stops'[s][k].by = "handler" /\ starts' \in sub'[s].crossed
    BY DEF CancelsAll
  <2>1. PICK m \in DOMAIN stops[s] : stops'[s][k] = stops[s][m]
    BY <1>4
  <2>2. /\ sub[s].alive \subseteq stops[s][m].tasks \cup sub[s].crossed
        /\ ~sub[s].running \/ (stops[s][m].by = "handler" /\ starts \in sub[s].crossed)
    BY <1>1, <2>1 DEF CancelsAll
  <2>3. starts' = starts
    BY <1>2
  <2> QED
    BY <1>3, <2>1, <2>2, <2>3
<1> QED
  BY <1>5, <1>6, <1>7, <1>8 DEF LifeInv

\* The sampler and the return of stop() touch no subscriber.
LEMMA LagAndReturnStep ==
    ASSUME LifeInv, LagSampled \/ StopReturns PROVE LifeInv'
<1>1. /\ TypeOK /\ OneStopEach /\ StopsAwaited /\ FlagFollows
      /\ CancelsAll /\ NoOrphanLoops /\ RunningIsListed /\ DoneIsStopped
  BY DEF LifeInv
<1>2. UNCHANGED <<running, sub, stops, missed, starts, faults>>
  BY DEF LagSampled, StopReturns
<1>3. OneStopEach' /\ CancelsAll' /\ NoOrphanLoops' /\ RunningIsListed'
  BY <1>1, <1>2 DEF OneStopEach, OneOfEach, CancelsAll, NoOrphanLoops, RunningIsListed
<1>4. CASE LagSampled
  <2>1. /\ lag.samples /\ phase' = phase /\ lag' = [lag EXCEPT !.gauges = "sampled"]
    BY <1>4 DEF LagSampled
  <2>2. /\ lag' \in [samples: BOOLEAN, held: BOOLEAN, gauges: Gauges]
        /\ lag'.samples /\ lag'.held = lag.held
    BY <1>1, <2>1 DEF TypeOK, Gauges
  <2>3. phase \notin {"down", "gathering", "interrupted"}
    BY <1>1, <2>1 DEF FlagFollows, NoLag
  <2> QED
    BY <1>1, <1>2, <1>3, <2>1, <2>2, <2>3
       DEF LifeInv, TypeOK, StopsAwaited, FlagFollows, DoneIsStopped, Stopping
<1>5. CASE StopReturns
  BY <1>1, <1>2, <1>3, <1>5
     DEF StopReturns, LifeInv, TypeOK, StopsAwaited, FlagFollows, DoneIsStopped, Stopping
<1> QED
  BY <1>4, <1>5

Has(calls, by) == \E i \in DOMAIN calls : calls[i].by = by

\* What a step of one subscriber has to keep, so that its state is the given one.
Sound(s, state, calls, excused) ==
    /\ state \in SubState /\ calls \in Seq(StopCall) /\ OneOfEach(calls)
    /\ Has(calls, "broker") => Has(stops[s], "broker")
    /\ \A i \in DOMAIN calls : calls[i].stage = "cancel" =>
          /\ state.alive \subseteq calls[i].tasks \cup state.crossed
          /\ ~state.running \/ (calls[i].by = "handler" /\ starts \in state.crossed)
    /\ state.alive \ state.listed \subseteq state.crossed
    /\ state.running => starts \in state.listed \cup state.crossed
    /\ phase \in {"gathering", "down"} /\ ~excused =>
          Has(calls, "broker") \/ (state.alive \subseteq state.crossed /\ ~state.running)

\* A step of one subscriber that keeps that.
LEMMA SubscriberStep ==
    ASSUME LifeInv, NEW s \in Subs, NEW new, NEW calls,
           sub' = [sub EXCEPT ![s] = new], stops' = [stops EXCEPT ![s] = calls],
           running' = running, phase' = phase, lag' = lag, starts' = starts,
           missed' = missed \/ missed' = missed \cup {s}, faults' \in 0 .. MaxFaults,
           Sound(s, new, calls, s \in missed')
    PROVE  LifeInv'
<1>1. /\ TypeOK /\ OneStopEach /\ StopsAwaited /\ FlagFollows
      /\ CancelsAll /\ NoOrphanLoops /\ RunningIsListed /\ DoneIsStopped
  BY DEF LifeInv
<1>2. sub \in [Subs -> SubState] /\ stops \in [Subs -> Seq(StopCall)]
  BY <1>1 DEF TypeOK
<1>3. /\ sub'[s] = new /\ stops'[s] = calls
      /\ \A r \in Subs \ {s} : sub'[r] = sub[r] /\ stops'[r] = stops[r]
  BY <1>2
<1>4. /\ sub' \in [Subs -> SubState] /\ stops' \in [Subs -> Seq(StopCall)]
  BY <1>2 DEF Sound
<1>5. TypeOK'
  <2>1. \A r \in Subs : Len(stops'[r]) =< 2
    BY <1>1, <1>3, AtMostTwo DEF TypeOK, Sound
  <2> QED
    BY <1>1, <1>4, <2>1 DEF TypeOK
<1>6. OneStopEach' /\ NoOrphanLoops' /\ RunningIsListed'
  BY <1>1, <1>3 DEF OneStopEach, OneOfEach, NoOrphanLoops, RunningIsListed, Sound
<1>7. CancelsAll'
  BY <1>1, <1>3 DEF CancelsAll, Sound
<1>8. \A r \in Subs : Stopping(r, "broker")' <=> Has(stops'[r], "broker")
  BY DEF Stopping, Has
<1>9. \A r \in Subs : Stopping(r, "broker") <=> Has(stops[r], "broker")
  BY DEF Stopping, Has
<1>10. StopsAwaited' /\ FlagFollows'
  BY <1>1, <1>3, <1>8, <1>9 DEF StopsAwaited, FlagFollows, Sound
<1>11. DoneIsStopped'
  BY <1>1, <1>3, <1>8, <1>9 DEF DoneIsStopped, Sound
<1> QED
  BY <1>5, <1>6, <1>7, <1>10, <1>11 DEF LifeInv

\* Every subscriber is sound as it is.
LEMMA SoundNow ==
    ASSUME LifeInv, NEW s \in Subs
    PROVE  /\ Sound(s, sub[s], stops[s], s \in missed)
           /\ stops = [stops EXCEPT ![s] = stops[s]]
           /\ DOMAIN stops[s] = 1 .. Len(stops[s]) /\ Len(stops[s]) \in Nat
           /\ \A i \in DOMAIN stops[s] : stops[s][i] \in StopCall
           /\ faults \in 0 .. MaxFaults /\ starts \in 0 .. MaxStarts
<1>1. /\ TypeOK /\ OneStopEach /\ CancelsAll /\ NoOrphanLoops /\ RunningIsListed /\ DoneIsStopped
  BY DEF LifeInv
<1>2. stops \in [Subs -> Seq(StopCall)] /\ faults \in 0 .. MaxFaults /\ starts \in 0 .. MaxStarts
  BY <1>1 DEF TypeOK
<1>3. stops = [stops EXCEPT ![s] = stops[s]]
  BY <1>2
<1>4. phase \in {"gathering", "down"} /\ ~(s \in missed) =>
          Has(stops[s], "broker") \/ (sub[s].alive \subseteq sub[s].crossed /\ ~sub[s].running)
  BY <1>1 DEF DoneIsStopped, Stopping, Has
<1> QED
  BY <1>1, <1>2, <1>3, <1>4, Types
     DEF OneStopEach, CancelsAll, NoOrphanLoops, RunningIsListed, Sound

\* Rows come and go, a handler stops its subscriber, a loop dies.
LEMMA LoopStep ==
    ASSUME LifeInv, NEW s \in Subs, Claim(s) \/ Settle(s) \/ HandlerStop(s) \/ LoopDies(s)
    PROVE  LifeInv'
<1>1. /\ Sound(s, sub[s], stops[s], s \in missed)
      /\ stops = [stops EXCEPT ![s] = stops[s]]
      /\ DOMAIN stops[s] = 1 .. Len(stops[s]) /\ Len(stops[s]) \in Nat
      /\ faults \in 0 .. MaxFaults /\ starts \in 0 .. MaxStarts
  BY SoundNow
<1>2. sub[s] \in SubState
  BY <1>1 DEF Sound
<1>3. CASE Claim(s) \/ Settle(s)
  <2>1. PICK b \in BOOLEAN : sub' = [sub EXCEPT ![s].busy = b]
    BY <1>3 DEF Claim, Settle
  <2> DEFINE new == [sub[s] EXCEPT !.busy = b]
  <2>2. /\ sub' = [sub EXCEPT ![s] = new]
        /\ UNCHANGED <<running, phase, stops, missed, lag, starts, faults>>
    BY <1>3, <2>1 DEF Claim, Settle
  <2>3. /\ new \in SubState /\ new.running = sub[s].running
        /\ new.listed = sub[s].listed /\ new.alive = sub[s].alive
        /\ new.crossed = sub[s].crossed
    BY <1>2 DEF SubState
  <2> HIDE DEF new
  <2>4. Sound(s, new, stops[s], s \in missed')
    BY <1>1, <2>2, <2>3 DEF Sound
  <2> QED
    BY <1>1, <2>2, <2>4, SubscriberStep
<1>4. CASE HandlerStop(s)
  <2> DEFINE new == [sub[s] EXCEPT !.stopping = TRUE]
             call == [by |-> "handler", queue |-> sub[s].queue, since |-> starts,
                      stage |-> "drain", tasks |-> {}]
             old == stops[s]
             calls == Append(old, call)
  <2>1. /\ sub' = [sub EXCEPT ![s] = new] /\ stops' = [stops EXCEPT ![s] = calls]
        /\ UNCHANGED <<running, phase, missed, lag, starts, faults>>
        /\ \A i \in DOMAIN old : old[i].by # "handler"
    BY <1>4 DEF HandlerStop, Begins, Stopping
  <2>2. /\ new \in SubState /\ new.running = sub[s].running
        /\ new.listed = sub[s].listed /\ new.alive = sub[s].alive
        /\ new.crossed = sub[s].crossed
    BY <1>2 DEF SubState
  <2>3. call \in StopCall /\ call.by = "handler" /\ call.stage = "drain"
    BY <1>1, <1>2 DEF SubState, StopCall, Queues
  <2>4. old \in Seq(StopCall) /\ OneOfEach(old)
    BY <1>1 DEF Sound
  <2> HIDE DEF new, call, old
  <2>5. \A i \in DOMAIN old : old[i].by # call.by
    BY <2>1, <2>3
  <2>6. /\ calls \in Seq(StopCall) /\ OneOfEach(calls)
        /\ DOMAIN calls = DOMAIN old \cup {Len(old) + 1}
        /\ calls[Len(old) + 1] = call
        /\ \A i \in DOMAIN old : calls[i] = old[i]
    BY <2>3, <2>4, <2>5, CallAdded
  <2> HIDE DEF calls
  <2>7. Has(calls, "broker") <=> Has(old, "broker")
    BY <2>3, <2>6 DEF Has
  <2>8. Sound(s, new, calls, s \in missed')
    BY <1>1, <2>1, <2>2, <2>3, <2>6, <2>7 DEF Sound, old
  <2> QED
    BY <1>1, <2>1, <2>8, SubscriberStep
<1>5. CASE LoopDies(s)
  <2> DEFINE new == [sub[s] EXCEPT !.alive = {}, !.busy = FALSE]
  <2>1. /\ sub' = [sub EXCEPT ![s] = new]
        /\ faults < MaxFaults /\ faults' = faults + 1
        /\ UNCHANGED <<running, phase, stops, missed, lag, starts>>
    BY <1>5 DEF LoopDies, Fault
  <2>2. faults' \in 0 .. MaxFaults
    BY <1>1, <2>1, BrokerAssumption
  <2>3. /\ new \in SubState /\ new.running = sub[s].running
        /\ new.listed = sub[s].listed /\ new.alive = {}
        /\ new.crossed = sub[s].crossed
    BY <1>2 DEF SubState
  <2> HIDE DEF new
  <2>4. Sound(s, new, stops[s], s \in missed')
    BY <1>1, <2>1, <2>3 DEF Sound
  <2> QED
    BY <1>1, <2>1, <2>2, <2>4, SubscriberStep
<1> QED
  BY <1>3, <1>4, <1>5

\* A drain ends: the call cancels what is listed, which is every loop.
LEMMA DrainStep ==
    ASSUME LifeInv, NEW s \in Subs, NEW i \in DOMAIN stops[s], DrainEnds(s, i)
    PROVE  LifeInv'
<1> DEFINE old == stops[s]
           new == [sub[s] EXCEPT !.running = FALSE]
           call == [old[i] EXCEPT !.stage = "cancel", !.tasks = sub[s].listed]
           calls == [old EXCEPT ![i] = call]
<1>1. /\ Sound(s, sub[s], old, s \in missed)
      /\ DOMAIN old = 1 .. Len(old) /\ Len(old) \in Nat
      /\ \A k \in DOMAIN old : old[k] \in StopCall
      /\ faults \in 0 .. MaxFaults
  BY SoundNow
<1>2. sub[s] \in SubState /\ old \in Seq(StopCall) /\ OneOfEach(old)
  BY <1>1 DEF Sound
<1>3. /\ sub' = [sub EXCEPT ![s] = new]
      /\ UNCHANGED <<running, phase, missed, lag, starts, faults>>
  BY DEF DrainEnds
<1>4. stops' = [stops EXCEPT ![s] = calls]
  <2>1. stops' = [stops EXCEPT ![s][i].stage = "cancel", ![s][i].tasks = sub[s].listed]
    BY DEF DrainEnds
  <2>2. stops \in [Subs -> Seq(StopCall)]
    BY DEF LifeInv, TypeOK
  <2> QED
    BY <1>1, <2>1, <2>2
<1>5. /\ new \in SubState /\ ~new.running
      /\ new.listed = sub[s].listed /\ new.alive = sub[s].alive
      /\ new.crossed = sub[s].crossed
  BY <1>2 DEF SubState
<1>6. call \in StopCall /\ call.by = old[i].by /\ call.tasks = sub[s].listed
  <2>1. old[i] \in StopCall
    BY <1>1
  <2> QED
    BY <1>2, <2>1 DEF StopCall, SubState
<1> HIDE DEF new, call
<1>7. /\ calls \in Seq(StopCall) /\ DOMAIN calls = DOMAIN old /\ calls[i] = call
      /\ \A k \in DOMAIN old \ {i} : calls[k] = old[k]
  <2>1. calls \in Seq(StopCall)
    BY <1>1, <1>2, <1>6, ExceptSeq
  <2> QED
    BY <2>1
<1> HIDE DEF old, calls
<1>8. i \in DOMAIN old
  BY DEF old
<1>9. Has(calls, "broker") <=> Has(old, "broker")
  BY <1>6, <1>7, <1>8 DEF Has
<1>10. OneOfEach(calls)
  BY <1>2, <1>6, <1>7, <1>8 DEF OneOfEach
<1>11. Sound(s, new, calls, s \in missed')
  <2>1. \A k \in DOMAIN calls : calls[k].stage = "cancel" =>
           ~new.running /\ new.alive \subseteq calls[k].tasks \cup new.crossed
    BY <1>1, <1>5, <1>6, <1>7 DEF Sound
  <2> QED
    BY <1>1, <1>3, <1>5, <1>7, <1>9, <1>10, <2>1 DEF Sound, old
<1> QED
  BY <1>1, <1>3, <1>4, <1>11, SubscriberStep

\* The tasks a call has cancelled end, and with them every loop.
LEMMA TasksStep ==
    ASSUME LifeInv, NEW s \in Subs, NEW i \in DOMAIN stops[s], TasksEnd(s, i)
    PROVE  LifeInv'
<1> DEFINE old == stops[s]
           calls == RemoveAt(old, i)
<1>1. Sound(s, sub[s], old, s \in missed) /\ faults \in 0 .. MaxFaults
  BY SoundNow
<1>2. sub[s] \in SubState /\ old \in Seq(StopCall) /\ OneOfEach(old)
  BY <1>1 DEF Sound
<1>3. /\ old[i].stage = "cancel"
      /\ stops' = [stops EXCEPT ![s] = calls]
      /\ UNCHANGED <<running, phase, missed, lag, starts, faults>>
  <2>1. stops' = [stops EXCEPT ![s] = RemoveAt(@, i)]
    BY DEF TasksEnd
  <2> QED
    BY <2>1 DEF TasksEnd
<1>4. PICK left \in {sub[s].left, sub[s].left \cup {sub[s].queue}} :
        sub' = [sub EXCEPT ![s].alive = @ \ stops[s][i].tasks, ![s].listed = {},
                           ![s].queue = @ + 1, ![s].left = left, ![s].busy = FALSE]
  BY DEF TasksEnd
<1> DEFINE new == [sub[s] EXCEPT !.alive = @ \ old[i].tasks, !.listed = {}, !.queue = @ + 1,
                                 !.left = left, !.busy = FALSE]
<1>5. sub' = [sub EXCEPT ![s] = new]
  <2>1. sub \in [Subs -> SubState]
    BY DEF LifeInv, TypeOK
  <2> QED
    BY <1>4, <2>1
<1>6. /\ sub[s].alive \subseteq old[i].tasks \cup sub[s].crossed
      /\ ~sub[s].running \/ (old[i].by = "handler" /\ starts \in sub[s].crossed)
  BY <1>1, <1>3 DEF Sound
<1>7. /\ new \in SubState /\ new.running = sub[s].running /\ new.listed = {}
      /\ new.alive = sub[s].alive \ old[i].tasks /\ new.crossed = sub[s].crossed
  <2>1. left \in SUBSET Nat /\ sub[s].queue + 1 \in Nat
    BY <1>2 DEF SubState, Queues
  <2> QED
    BY <1>2, <2>1 DEF SubState, Queues
<1>8. new.alive \subseteq new.crossed
  BY <1>6, <1>7
<1> HIDE DEF new, old
<1>9. i \in DOMAIN old
  BY DEF old
<1>10. /\ calls \in Seq(StopCall) /\ OneOfEach(calls)
       /\ \A k \in DOMAIN calls : \E m \in DOMAIN old \ {i} : calls[k] = old[m]
       /\ \A m \in DOMAIN old \ {i} : \E k \in DOMAIN calls : calls[k] = old[m]
  BY <1>2, <1>9, OthersRemain
<1> HIDE DEF calls
<1>11. /\ Has(calls, "broker") => Has(old, "broker")
       /\ Has(old, "broker") => Has(calls, "broker") \/ old[i].by = "broker"
  BY <1>10 DEF Has
<1>12. Sound(s, new, calls, s \in missed')
  <2>1. \A k \in DOMAIN calls : calls[k].stage = "cancel" =>
           /\ new.alive \subseteq calls[k].tasks \cup new.crossed
           /\ ~new.running \/ (calls[k].by = "handler" /\ starts \in new.crossed)
    BY <1>1, <1>7, <1>8, <1>10 DEF Sound
  <2>2. new.running => starts \in new.listed \cup new.crossed
    BY <1>6, <1>7
  <2>3. phase \in {"gathering", "down"} /\ ~(s \in missed') =>
           Has(calls, "broker") \/ (new.alive \subseteq new.crossed /\ ~new.running)
    <3>1. CASE old[i].by = "broker"
      BY <1>6, <1>7, <1>8, <3>1
    <3>2. CASE old[i].by # "broker"
      BY <1>1, <1>3, <1>7, <1>8, <1>11, <3>2 DEF Sound
    <3> QED
      BY <3>1, <3>2
  <2> QED
    BY <1>7, <1>8, <1>10, <1>11, <2>1, <2>2, <2>3 DEF Sound, old
<1> QED
  BY <1>1, <1>3, <1>5, <1>12, SubscriberStep

\* A stop() of the broker that raises is excused.
LEMMA RaisesStep ==
    ASSUME LifeInv, NEW s \in Subs, NEW i \in DOMAIN stops[s], StopRaises(s, i)
    PROVE  LifeInv'
<1> DEFINE old == stops[s]
           calls == RemoveAt(old, i)
<1>1. Sound(s, sub[s], old, s \in missed) /\ faults \in 0 .. MaxFaults
  BY SoundNow
<1>2. sub[s] \in SubState /\ old \in Seq(StopCall) /\ OneOfEach(old)
  BY <1>1 DEF Sound
<1>3. /\ stops' = [stops EXCEPT ![s] = calls]
      /\ missed' = missed \cup {s} /\ faults' = faults + 1 /\ faults < MaxFaults
      /\ UNCHANGED <<running, phase, sub, lag, starts>>
  <2>1. stops' = [stops EXCEPT ![s] = RemoveAt(@, i)]
    BY DEF StopRaises
  <2> QED
    BY <2>1 DEF StopRaises, Fault
<1>4. faults' \in 0 .. MaxFaults
  BY <1>1, <1>3, BrokerAssumption
<1>5. sub' = [sub EXCEPT ![s] = sub[s]]
  BY <1>3 DEF LifeInv, TypeOK
<1> HIDE DEF old
<1>6. i \in DOMAIN old
  BY DEF old
<1>7. /\ calls \in Seq(StopCall) /\ OneOfEach(calls)
      /\ \A k \in DOMAIN calls : \E m \in DOMAIN old \ {i} : calls[k] = old[m]
  BY <1>2, <1>6, OthersRemain
<1> HIDE DEF calls
<1>8. Has(calls, "broker") => Has(old, "broker")
  BY <1>7 DEF Has
<1>9. Sound(s, sub[s], calls, s \in missed')
  BY <1>1, <1>3, <1>7, <1>8 DEF Sound, old
<1> QED
  BY <1>3, <1>4, <1>5, <1>9, SubscriberStep

\* Every step preserves the invariant.
LEMMA LifeInvStep == LifeInv /\ [Next]_vars => LifeInv'
<1> SUFFICES ASSUME LifeInv, [Next]_vars PROVE LifeInv'
  OBVIOUS
<1>1. CASE Start
  BY <1>1, StartStep
<1>2. CASE Stop \/ LagLeft
  BY <1>2, StopStep
<1>3. CASE LagSampled \/ StopReturns
  BY <1>3, LagAndReturnStep
<1>4. CASE Interrupted
  BY <1>4, InterruptedStep
<1>5. ASSUME NEW s \in Subs, Claim(s) \/ Settle(s) \/ HandlerStop(s) \/ LoopDies(s)
      PROVE  LifeInv'
  BY <1>5, LoopStep
<1>6. ASSUME NEW s \in Subs, NEW i \in DOMAIN stops[s],
             DrainEnds(s, i) \/ TasksEnd(s, i) \/ StopRaises(s, i)
      PROVE  LifeInv'
  BY <1>6, DrainStep, TasksStep, RaisesStep
<1>7. CASE UNCHANGED vars
  BY <1>7 DEF vars, LifeInv, TypeOK, OneStopEach, OneOfEach, StopsAwaited, FlagFollows, CancelsAll,
     NoOrphanLoops, RunningIsListed, DoneIsStopped, Stopping
<1> QED
  BY <1>1, <1>2, <1>3, <1>4, <1>5, <1>6, <1>7 DEF Next

\* Nothing has started, and nothing stops.
LEMMA LifeInvInit == Init => LifeInv
<1> SUFFICES ASSUME Init PROVE LifeInv
  OBVIOUS
<1>1. /\ phase = "down" /\ lag = NoLag /\ running = FALSE
      /\ \A s \in Subs : stops[s] = << >> /\ sub[s].alive = {} /\ ~sub[s].running
  BY DEF Init
<1>2. TypeOK
  <2>1. sub \in [Subs -> SubState]
    BY DEF Init, SubState, Queues
  <2>2. stops \in [Subs -> Seq(StopCall)] /\ \A s \in Subs : Len(stops[s]) =< 2
    BY EmptySeq DEF Init
  <2>3. lag \in [samples: BOOLEAN, held: BOOLEAN, gauges: Gauges]
    BY <1>1 DEF NoLag, Gauges
  <2>4. starts \in 0 .. MaxStarts /\ faults \in 0 .. MaxFaults
    BY BrokerAssumption DEF Init
  <2> QED
    BY <2>1, <2>2, <2>3, <2>4 DEF Init, TypeOK
<1>3. \A s \in Subs : DOMAIN stops[s] = {}
  BY <1>1
<1> QED
  BY <1>1, <1>2, <1>3 DEF LifeInv, OneStopEach, OneOfEach, StopsAwaited, FlagFollows, CancelsAll,
     NoOrphanLoops, RunningIsListed, DoneIsStopped, Stopping, NoLag

\* The invariant holds in every reachable state.
LEMMA LifeInvAlways == Spec => []LifeInv
BY LifeInvInit, LifeInvStep, PTL DEF Spec
-----------------------------------------------------------------------------
(* The theorems. *)

\* Every variable keeps its type, and no subscriber is stopped by more than the
\* application and one handler at a time.
THEOREM BrokerTypeCorrect == Spec => []TypeOK
<1>1. LifeInv => TypeOK
  BY DEF LifeInv
<1> QED
  BY <1>1, LifeInvAlways, PTL

\* No loop runs that subscriber.tasks does not list, whoever stops and starts
\* the subscriber beside whom, but those of a start() that crossed an earlier
\* stop() (usecase.py:276-288, 321-348).
THEOREM NoLoopIsOrphaned == Spec => []NoOrphanLoops
<1>1. LifeInv => NoOrphanLoops
  BY DEF LifeInv
<1> QED
  BY <1>1, LifeInvAlways, PTL

\* When stop() has returned, no loop, no subscriber and no sampler runs, but for
\* a subscriber whose own stop raised, and for loops of a start() that crossed an
\* earlier stop() (broker.py:352-395).
THEOREM NothingRunsAfterStop == Spec => []StopStopsAll
<1>1. LifeInv => StopStopsAll
  <2> SUFFICES ASSUME LifeInv, phase = "down"
               PROVE  /\ ~running /\ ~lag.samples /\ lag.gauges = "none"
                      /\ \A s \in Subs \ missed :
                           sub[s].alive \subseteq sub[s].crossed /\ ~sub[s].running
    BY DEF StopStopsAll
  <2>1. ~running /\ lag = NoLag
    BY DEF LifeInv, FlagFollows
  <2>2. \A s \in Subs \ missed : sub[s].alive \subseteq sub[s].crossed /\ ~sub[s].running
    BY DEF LifeInv, StopsAwaited, DoneIsStopped
  <2> QED
    BY <2>1, <2>2 DEF NoLag
<1> QED
  BY <1>1, LifeInvAlways, PTL

\* While ping() answers yes, every subscriber that runs and is not stopping has
\* a loop that is alive, unless its start() crossed a stop (broker.py:397-426).
THEOREM PingSeesDeadLoops == Spec => []PingReportsDeadLoops
<1>1. LifeInv => PingReportsDeadLoops
  BY DEF LifeInv, RunningIsListed, PingReportsDeadLoops, Ping
<1> QED
  BY <1>1, LifeInvAlways, PTL
=============================================================================
