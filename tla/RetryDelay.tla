----------------------------- MODULE RetryDelay -----------------------------
(***************************************************************************)
(* The retry strategies of retry.py, asked once per failed attempt of one  *)
(* row: the delay each returns, and when it gives up.                      *)
(*                                                                         *)
(* Delays are whole units of time, jitter is in percent.  A float has two  *)
(* limits in the code, kept here with small values: FloatMax, beyond which *)
(* a power raises OverflowError and a product is infinite, and Ceiling,    *)
(* _MAX_DELAY_SECONDS.  Left out: multipliers below one, and the product   *)
(* of an infinite delay with a jitter of exactly -100%, which is no number.*)
(***************************************************************************)
EXTENDS Integers

CONSTANTS
    Initial,        \* delay_seconds or initial_delay_seconds
    Steps,          \* values of step_seconds
    Multipliers,    \* values of multiplier
    DelayCaps,      \* values of max_delay_seconds, 0 for None
    Jitters,        \* values of jitter_factor, in percent
    AttemptLimits,  \* values of max_attempts, 0 for None
    TotalLimits,    \* values of max_total_delay_seconds, 0 for None
    Ceiling,
    FloatMax,
    Lateness,       \* how late a due row is claimed and has failed, at most
    MaxNacks        \* bound on the attempts

Knobs ==
    /\ Initial \in Nat \ {0} /\ Steps \subseteq Nat
    /\ Multipliers \subseteq Nat \ {0}
    /\ DelayCaps \cup AttemptLimits \cup TotalLimits \subseteq Nat
    /\ Jitters \subseteq 0 .. 200
    /\ Ceiling \in Nat \ {0} /\ FloatMax \in Nat /\ Ceiling =< FloatMax
    /\ Lateness \in Nat /\ MaxNacks \in Nat \ {0}

ASSUME RetryAssumption == Knobs

VARIABLES
    strategy,
    attempts,   \* attempts_count
    elapsed,    \* last_attempt_at - first_attempt_at
    delay,      \* the last answer
    pc          \* the row: "running", "waiting" or "terminal"

vars == <<strategy, attempts, elapsed, delay, pc>>

\* rate is the step or the multiplier.  The knobs __post_init__ accepts.
Strategies ==
    LET Of(kinds, rates, caps) ==
            [kind: kinds, rate: rates, cap: caps, jitter: Jitters,
             maxAttempts: AttemptLimits, maxTotal: TotalLimits]
    IN  Of({"none", "constant"}, {0}, {0}) \cup Of({"linear"}, Steps, {0})
          \cup Of({"exponential"}, Multipliers, DelayCaps)

TypeOK ==
    /\ strategy \in Strategies
    /\ attempts \in 0 .. MaxNacks
    /\ elapsed \in Nat
    /\ delay \in Nat
    /\ pc \in {"running", "waiting", "terminal"}
-----------------------------------------------------------------------------
AtMost(a, b) == IF a =< b THEN a ELSE b
AtLeast(a, b) == IF a >= b THEN a ELSE b

Limited(limit) == limit > 0

Infinite == FloatMax + 1

Power[k \in 0 .. MaxNacks] ==
    [m \in Multipliers |-> IF k = 0 THEN 1 ELSE m * Power[k - 1][m]]

\* delay *= 1 + uniform(-j/2, +j/2): the two ends and the middle.
Jittered(d) ==
    LET half == strategy.jitter \div 2
    IN  IF d = Infinite THEN {d}
        ELSE {(d * (100 + u)) \div 100 : u \in {-half, 0, half}}

\* Mutants: an overflow escapes, which ends the retries of the row
\* (message.py:176); jitter after the cap.
ExponentialRaises(n) ==
    LET power == Power[AtLeast(0, n - 1)][strategy.rate]
    IN  IF power > FloatMax THEN {}
        ELSE {AtMost(d, Ceiling) : d \in Jittered(Initial * power)}
ExponentialJitteredLast(n) ==
    LET power == Power[AtLeast(0, n - 1)][strategy.rate]
    IN  Jittered(AtMost(IF power > FloatMax THEN Ceiling ELSE Initial * power,
                        IF Limited(strategy.cap) THEN strategy.cap ELSE Ceiling))

\* ExponentialRetry._delay_seconds: overflow, then jitter, then the caps.
Exponential(n) ==
    LET power == Power[AtLeast(0, n - 1)][strategy.rate]
        raw == IF power > FloatMax THEN Ceiling ELSE AtMost(Initial * power, Infinite)
        Capped(d) == IF Limited(strategy.cap) THEN AtMost(d, strategy.cap) ELSE d
    IN  {AtMost(Capped(d), Ceiling) : d \in Jittered(raw)}

\* The delays _delay_seconds(attempts_count=n) may return.
DelaySeconds(n) ==
    CASE strategy.kind = "none" -> {}
      [] strategy.kind = "constant" -> Jittered(Initial)
      [] strategy.kind = "linear" -> Jittered(Initial + strategy.rate * AtLeast(0, n - 1))
      [] strategy.kind = "exponential" -> Exponential(n)

\* Mutant: the delay to come is left out of the total.
AllowedByElapsed(n, d) ==
    /\ Limited(strategy.maxAttempts) => n < strategy.maxAttempts
    /\ Limited(strategy.maxTotal) => elapsed =< strategy.maxTotal

\* The two limits of get_next_attempt_delay.
Allowed(n, d) ==
    /\ Limited(strategy.maxAttempts) => n < strategy.maxAttempts
    /\ Limited(strategy.maxTotal) => elapsed + d =< strategy.maxTotal

Init ==
    /\ strategy \in Strategies
    /\ attempts = 0 /\ elapsed = 0 /\ delay = 0
    /\ pc = "running"

\* _record_attempt, then a delay for the next attempt ...
NackRetries ==
    /\ pc = "running" /\ attempts < MaxNacks
    /\ attempts' = attempts + 1
    /\ \E d \in DelaySeconds(attempts') : Allowed(attempts', d) /\ delay' = d
    /\ pc' = "waiting"
    /\ UNCHANGED <<strategy, elapsed>>

\* ... or None.
NackGivesUp ==
    /\ pc = "running" /\ attempts < MaxNacks
    /\ attempts' = attempts + 1
    /\ \/ DelaySeconds(attempts') = {}
       \/ \E d \in DelaySeconds(attempts') : ~Allowed(attempts', d)
    /\ pc' = "terminal"
    /\ UNCHANGED <<strategy, elapsed, delay>>

\* The row is due, is claimed again, and its handler fails.
Retry ==
    /\ pc = "waiting"
    /\ \E late \in {0, Lateness} : elapsed' = elapsed + delay + late
    /\ pc' = "running"
    /\ UNCHANGED <<strategy, attempts, delay>>

Next == NackRetries \/ NackGivesUp \/ Retry

Spec == Init /\ [][Next]_vars
-----------------------------------------------------------------------------
\* What a strategy stands for at the n-th attempt, as plain arithmetic: the
\* delay without jitter, overflow and caps, and the band around it.
Exact(s, n) ==
    CASE s.kind = "linear" -> Initial + s.rate * (n - 1)
      [] s.kind = "exponential" -> Initial * Power[n - 1][s.rate]
      [] OTHER -> Initial

Cap(s, d) ==
    IF s.kind # "exponential" THEN d
    ELSE AtMost(AtMost(d, Ceiling), IF Limited(s.cap) THEN s.cap ELSE Ceiling)

Spread(d, percent) == (d * (100 + percent)) \div 100

Longest(s, n) == Cap(s, Spread(Exact(s, n), s.jitter \div 2))
Shortest(s, n) ==
    LET exact == IF s.kind = "exponential" THEN AtMost(Exact(s, n), Ceiling) ELSE Exact(s, n)
    IN  Cap(s, Spread(exact, -(s.jitter \div 2)))

\* The delay of every attempt lies within jitter_factor/2 of the exact one,
\* and never above the caps: not even by the jitter, and not after the power
\* has overflowed.
DelayInBand ==
    pc = "waiting" => /\ delay =< Longest(strategy, attempts)
                      /\ delay >= Shortest(strategy, attempts)

\* The two budgets its user set decide, and nothing else (retry.py:65-80): a
\* row is given up only for one of them, however many attempts overflowed before;
\* no attempt is made beyond max_attempts, and none starts later after the first
\* than max_total_delay_seconds and the time its claim took.
GivenUpByBudget ==
    \/ strategy.kind = "none"
    \/ Limited(strategy.maxAttempts) /\ attempts >= strategy.maxAttempts
    \/ /\ Limited(strategy.maxTotal)
       /\ elapsed + Longest(strategy, attempts) > strategy.maxTotal

BudgetsDecide ==
    /\ pc = "terminal" => GivenUpByBudget
    /\ Limited(strategy.maxAttempts) => attempts =< strategy.maxAttempts
    /\ Limited(strategy.maxTotal) => elapsed =< strategy.maxTotal + Lateness
=============================================================================
