--------------------------- MODULE CircuitBreaker ---------------------------
(***************************************************************************)
(* internal/scanner/circuit_breaker.go as functions of the breaker's       *)
(* state.  Each method runs under cb.mu, so a module that uses a breaker   *)
(* applies one of these per step.                                          *)
(*                                                                         *)
(* The clock is reduced to what Allow asks of it: cooled says whether      *)
(* cooldown has passed since lastFailure.  consecutiveFails is only ever   *)
(* compared with the threshold, so it is counted up to the threshold.      *)
(***************************************************************************)
EXTENDS Naturals

CONSTANTS
    Threshold,      \* config.CircuitBreakerThreshold
    HalfOpenMax     \* config.CircuitBreakerHalfOpenMax

ASSUME BreakerAssumption ==
    /\ Threshold \in Nat \ {0}
    /\ HalfOpenMax \in Nat \ {0}

BreakerState == {"closed", "open", "half_open"}

Breaker == [state : BreakerState, fails : 0 .. Threshold,
            halfOpenCount : 0 .. HalfOpenMax, cooled : BOOLEAN]

NewBreaker == [state |-> "closed", fails |-> 0, halfOpenCount |-> 0, cooled |-> TRUE]

\* Mutant: the cooldown of an open breaker is never found to have passed.
AllowsNeverReopensMutant(cb) ==
    \/ cb.state = "closed"
    \/ cb.state = "half_open" /\ cb.halfOpenCount < HalfOpenMax

\* Whether Allow returns true.
Allows(cb) ==
    \/ cb.state = "closed"
    \/ cb.state = "open" /\ cb.cooled
    \/ cb.state = "half_open" /\ cb.halfOpenCount < HalfOpenMax

\* The breaker after an Allow that returned true: the request that turns an open
\* breaker half-open is not itself counted.
AfterAllow(cb) ==
    CASE cb.state = "open" -> [cb EXCEPT !.state = "half_open", !.halfOpenCount = 0]
      [] cb.state = "half_open" -> [cb EXCEPT !.halfOpenCount = @ + 1]
      [] OTHER -> cb

\* Mutant: consecutiveFails is not reset.
AfterSuccessKeepsFailsMutant(cb) ==
    [cb EXCEPT !.state = "closed", !.halfOpenCount = 0]

AfterSuccess(cb) ==
    [state |-> "closed", fails |-> 0, halfOpenCount |-> 0, cooled |-> cb.cooled]

\* Mutant: a failed half-open request leaves the breaker half-open.
AfterFailureKeepsHalfOpenMutant(cb) ==
    LET fails == IF cb.fails < Threshold THEN cb.fails + 1 ELSE cb.fails
        trips == cb.state # "half_open" /\ fails = Threshold
    IN  [state |-> IF trips THEN "open" ELSE cb.state,
         fails |-> fails,
         halfOpenCount |-> IF trips THEN 0 ELSE cb.halfOpenCount,
         cooled |-> FALSE]

AfterFailure(cb) ==
    LET fails == IF cb.fails < Threshold THEN cb.fails + 1 ELSE cb.fails
        trips == cb.state = "half_open" \/ fails = Threshold
    IN  [state |-> IF trips THEN "open" ELSE cb.state,
         fails |-> fails,
         halfOpenCount |-> IF trips THEN 0 ELSE cb.halfOpenCount,
         cooled |-> FALSE]

\* cooldown has passed since the last failure.
AfterCooldown(cb) == [cb EXCEPT !.cooled = TRUE]

\* What the counters say about the state, whatever calls succeed and fail late.
BreakerConsistent(cb) ==
    /\ cb.state = "closed" <=> cb.fails < Threshold
    /\ cb.state # "half_open" => cb.halfOpenCount = 0

=============================================================================
