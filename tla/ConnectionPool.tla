--------------------------- MODULE ConnectionPool ---------------------------
(***************************************************************************)
(* The engine's connection pool, shared by the fetch and worker loops of   *)
(* the broker's subscribers and by the application's own sessions.         *)
(*                                                                         *)
(* A fetch loop checks a connection out for LISTEN, detaches it, which     *)
(* gives its slot back, and checks out a second one for fetching; a worker *)
(* checks out one for writing.  They keep these for as long as they serve, *)
(* so start() refuses a pool that cannot hold them all.                    *)
(***************************************************************************)
EXTENDS Naturals, FiniteSets

CONSTANTS
    Fetchers,   \* the fetch loops, one per subscriber
    Workers,    \* the worker loops of all subscribers
    Sessions,   \* application sessions, at most one connection each
    Capacities, \* values of pool_size + max_overflow
    MaxFaults   \* bound on failed connections and timed out checkouts

ASSUME PoolAssumption ==
    /\ IsFiniteSet(Fetchers) /\ IsFiniteSet(Workers) /\ IsFiniteSet(Sessions)
    /\ Fetchers \cap Workers = {} /\ Fetchers \cap Sessions = {} /\ Workers \cap Sessions = {}
    /\ Capacities \subseteq Nat
    /\ MaxFaults \in Nat

VARIABLES
    capacity,   \* the pool: slots it may hand out
    slots,      \* those handed out: <<holder, use>>
    phase,      \* the broker: "down", "up" or "stopping"
    pc,         \* each loop and session
    listening,  \* fetch loops with a LISTEN connection, detached
    faults

vars == <<capacity, slots, phase, pc, listening, faults>>

Loops == Fetchers \cup Workers
Use == {"listen", "fetch", "write", "session"}

TypeOK ==
    /\ capacity \in Capacities
    /\ slots \subseteq (Loops \cup Sessions) \X Use
    /\ Cardinality(slots) =< capacity
    /\ phase \in {"down", "up", "stopping"}
    /\ pc \in [Loops \cup Sessions ->
                 {"off", "open", "connecting", "subscribing", "want", "serving"}]
    /\ listening \subseteq Fetchers
    /\ faults \in 0 .. MaxFaults

Init ==
    /\ capacity \in Capacities
    /\ slots = {}
    /\ phase = "down"
    /\ pc = [t \in Loops \cup Sessions |-> "off"]
    /\ listening = {}
    /\ faults = 0
-----------------------------------------------------------------------------
Free == Cardinality(slots) < capacity

\* The pool hands a slot to t, which goes on at next.
CheckOut(t, use, next) ==
    /\ Free
    /\ slots' = slots \cup {<<t, use>>}
    /\ pc' = [pc EXCEPT ![t] = next]

\* t gives back whatever it holds and goes on at next.
Release(t, next) ==
    /\ slots' = {held \in slots : held[1] # t}
    /\ pc' = [pc EXCEPT ![t] = next]

Fault == faults < MaxFaults /\ faults' = faults + 1

\* Mutant: the fetch connections are not counted.
NeededByWorkers == Cardinality(Workers)

\* _pooled_connections of every subscriber: one, and one per worker.
Needed == Cardinality(Fetchers) + Cardinality(Workers)

\* start(), which raises when _check_pool_capacity does.
Start ==
    /\ phase = "down"
    /\ Needed =< capacity
    /\ phase' = "up"
    /\ pc' = [t \in DOMAIN pc |-> IF t \in Loops THEN "open" ELSE pc[t]]
    /\ UNCHANGED <<capacity, slots, listening, faults>>

\* Mutant: the fetch connection is opened before the one for LISTEN.
OpenFetchFirst(f) ==
    /\ phase = "up" /\ pc[f] = "open"
    /\ IF <<f, "fetch">> \in slots THEN CheckOut(f, "listen", "connecting")
                                   ELSE CheckOut(f, "fetch", "open")
    /\ UNCHANGED <<capacity, phase, listening, faults>>

\* _open_listen_connection: the checkout.
OpenListen(f) ==
    /\ phase = "up" /\ pc[f] = "open"
    /\ CheckOut(f, "listen", "connecting")
    /\ UNCHANGED <<capacity, phase, listening, faults>>

\* The checkout or the connect fails, and the loop falls back to polling.
ListenRefused(f) ==
    /\ \/ pc[f] = "open" /\ phase = "up" /\ ~Free
       \/ pc[f] = "connecting"
    /\ Fault
    /\ Release(f, "want")
    /\ UNCHANGED <<capacity, phase, listening>>

\* Mutant: the connection for LISTEN stays in the pool.
DetachListenLater(f) ==
    /\ pc[f] = "connecting"
    /\ pc' = [pc EXCEPT ![f] = "subscribing"]
    /\ UNCHANGED <<capacity, slots, phase, listening, faults>>

\* The connection is detached and its slot is free again; no await between.
DetachListen(f) ==
    /\ pc[f] = "connecting"
    /\ Release(f, "subscribing")
    /\ UNCHANGED <<capacity, phase, listening, faults>>

\* add_listener succeeds; fails, which means polling; or times out, which
\* raises so that the loop starts over.
Subscribe(f) ==
    /\ pc[f] = "subscribing"
    /\ \/ listening' = listening \cup {f} /\ pc' = [pc EXCEPT ![f] = "want"] /\ UNCHANGED faults
       \/ \E next \in {"want", "open"} :
            Fault /\ pc' = [pc EXCEPT ![f] = next] /\ UNCHANGED listening
    /\ UNCHANGED <<capacity, slots, phase>>

\* The with-statement of _open_fetch_resources.
OpenFetch(f) ==
    /\ phase = "up" /\ pc[f] = "want"
    /\ CheckOut(f, "fetch", "serving")
    /\ UNCHANGED <<capacity, phase, listening, faults>>

\* _open_worker_resources; workers serve on while the broker stops.
OpenWriter(w) ==
    /\ phase # "down" /\ pc[w] = "open"
    /\ CheckOut(w, "write", "serving")
    /\ UNCHANGED <<capacity, phase, listening, faults>>

\* An error in the inner loop or in the checkout: what is open is closed, and
\* after a pause _run_with_reconnect opens it again.
LoopFails(t) ==
    /\ pc[t] = "serving" \/ (pc[t] = "want" /\ ~Free)
    /\ Fault
    /\ Release(t, "open")
    /\ listening' = listening \ {t}
    /\ UNCHANGED <<capacity, phase>>

Stop ==
    /\ phase = "up"
    /\ phase' = "stopping"
    /\ UNCHANGED <<capacity, slots, pc, listening, faults>>

\* A loop ends, of itself or cancelled, and closes what it has open.
Unwind(t) ==
    /\ phase = "stopping" /\ pc[t] # "off"
    /\ Release(t, "off")
    /\ listening' = listening \ {t}
    /\ UNCHANGED <<capacity, phase, faults>>

\* Mutant: stop() returns once the loops are cancelled.
StoppedUnawaited ==
    /\ phase = "stopping"
    /\ phase' = "down"
    /\ UNCHANGED <<capacity, slots, pc, listening, faults>>

\* stop() has awaited every loop (usecase.py:340).
Stopped ==
    /\ phase = "stopping"
    /\ \A t \in Loops : pc[t] = "off"
    /\ phase' = "down"
    /\ UNCHANGED <<capacity, slots, pc, listening, faults>>

\* An application session: it asks, gets a connection, and closes.
Ask(a) ==
    /\ pc[a] = "off"
    /\ pc' = [pc EXCEPT ![a] = "want"]
    /\ UNCHANGED <<capacity, slots, phase, listening, faults>>

Connect(a) ==
    /\ pc[a] = "want"
    /\ CheckOut(a, "session", "serving")
    /\ UNCHANGED <<capacity, phase, listening, faults>>

Close(a) ==
    /\ pc[a] = "serving"
    /\ Release(a, "off")
    /\ UNCHANGED <<capacity, phase, listening, faults>>

Fetcher(f) ==
    OpenListen(f) \/ ListenRefused(f) \/ DetachListen(f) \/ Subscribe(f) \/ OpenFetch(f)

Next ==
    \/ Start \/ Stop \/ Stopped
    \/ \E f \in Fetchers : Fetcher(f)
    \/ \E w \in Workers : OpenWriter(w)
    \/ \E t \in Loops : LoopFails(t) \/ Unwind(t)
    \/ \E a \in Sessions : Ask(a) \/ Connect(a) \/ Close(a)

Spec == Init /\ [][Next]_vars

\* The event loop runs every task that can go on, a connection attempt ends,
\* an application closes its sessions, and the pool serves its waiters in
\* turn.  That anyone calls start() or stop() is not assumed.
FairSpec ==
    /\ Spec
    /\ WF_vars(Stopped)
    /\ \A f \in Fetchers :
         /\ SF_vars(OpenListen(f)) /\ SF_vars(OpenFetch(f))
         /\ WF_vars(DetachListen(f)) /\ WF_vars(Subscribe(f))
    /\ \A w \in Workers : SF_vars(OpenWriter(w))
    /\ \A t \in Loops : WF_vars(Unwind(t))
    /\ \A a \in Sessions : SF_vars(Connect(a)) /\ WF_vars(Close(a))
-----------------------------------------------------------------------------
\* Whoever is about to check out a connection.
Wants(t) ==
    \/ t \in Loops /\ phase = "up" /\ pc[t] \in {"open", "want"}
    \/ t \in Sessions /\ pc[t] = "want"

\* A pool of the size start() asks for, with room for the sessions, never
\* makes a loop wait for a slot: a LISTEN is not left behind the slot of the
\* fetch connection, however loops fail, reopen, stop and start again.
NeverWaits ==
    \A t \in Loops \cup Sessions :
        Wants(t) /\ Needed + Cardinality(Sessions) =< capacity => Free

\* No loop holds two slots, and a stopped broker holds none.
OneSlotEach ==
    /\ \A held, other \in slots : held[1] = other[1] => held = other
    /\ phase = "down" => \A held \in slots : held[1] \in Sessions

\* In a started broker every loop gets its connections again and again, as
\* long as it runs, even when sessions take what little room there is.
LoopsConnect ==
    \A t \in Loops : []<>(pc[t] = "serving" \/ phase # "up")

\* A pool with a slot beyond what the loops need serves every session.
SessionsServed ==
    \A a \in Sessions : (pc[a] = "want" /\ Needed < capacity) ~> pc[a] = "serving"
=============================================================================
