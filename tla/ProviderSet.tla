---------------------------- MODULE ProviderSet ----------------------------
(***************************************************************************)
(* internal/poller/provider/provider.go: the round-robin engine            *)
(* executeFetch, called by the goroutines of every watch of one chain, and *)
(* the circuit breakers of its providers.  A step is one critical section  *)
(* of ps.mu or of a breaker, one wait for the rate limiter, or one answer  *)
(* of a provider.                                                          *)
(***************************************************************************)
EXTENDS CircuitBreaker, FiniteSets

CONSTANTS
    N,              \* providers in the set
    Callers,        \* goroutines that may be in executeFetch
    MaxCancels      \* bound on rate-limiter waits that end with ctx.Done

ASSUME ProviderSetAssumption ==
    /\ N \in Nat \ {0}
    /\ IsFiniteSet(Callers)
    /\ MaxCancels \in Nat

VARIABLES
    breakers,       \* [Provider -> breaker of the provider]
    current,        \* ps.current
    calls,          \* [Callers -> locals of executeFetch]
    healthy,        \* [Provider -> BOOLEAN]: does the provider answer
    cancels         \* waits cancelled so far

vars == <<breakers, current, calls, healthy, cancels>>

Provider == 0 .. N - 1
CallPC == {"idle", "attempt", "wait", "call", "rotate"}
Result == {"none", "ok", "failed", "cancelled"}

\* admitted: the state of the breaker once it had let the call through.
Call == [pc : CallPC, start : Provider, attempt : 0 .. N, admitted : BreakerState,
         result : Result]

Returned(result) ==
    [pc |-> "idle", start |-> 0, attempt |-> 0, admitted |-> "closed", result |-> result]

TypeOK ==
    /\ breakers \in [Provider -> Breaker]
    /\ current \in Provider
    /\ calls \in [Callers -> Call]
    /\ healthy \in [Provider -> BOOLEAN]
    /\ cancels \in Nat

Init ==
    /\ breakers = [p \in Provider |-> NewBreaker]
    /\ current = 0
    /\ calls = [c \in Callers |-> Returned("none")]
    /\ healthy = [p \in Provider |-> TRUE]
    /\ cancels = 0

\* The provider of the attempt in hand.
Target(c) == (calls[c].start + calls[c].attempt) % N

-----------------------------------------------------------------------------

Begin(c) ==
    /\ calls[c].pc = "idle"
    /\ calls' = [calls EXCEPT ![c] = [pc |-> "attempt", start |-> current, attempt |-> 0,
                                       admitted |-> "closed", result |-> "none"]]
    /\ UNCHANGED <<breakers, current, healthy, cancels>>

\* circuitBreaker.Allow
Attempt(c) ==
    /\ calls[c].pc = "attempt"
    /\ calls[c].attempt < N
    /\ LET p == Target(c)
       IN  IF Allows(breakers[p])
           THEN /\ breakers' = [breakers EXCEPT ![p] = AfterAllow(@)]
                /\ calls' = [calls EXCEPT ![c].pc = "wait",
                                          ![c].admitted = AfterAllow(breakers[p]).state]
           ELSE /\ calls' = [calls EXCEPT ![c].attempt = @ + 1]
                /\ UNCHANGED breakers
    /\ UNCHANGED <<current, healthy, cancels>>

\* ErrAllProvidersFailed
AllFailed(c) ==
    /\ calls[c].pc = "attempt"
    /\ calls[c].attempt = N
    /\ calls' = [calls EXCEPT ![c] = Returned("failed")]
    /\ UNCHANGED <<breakers, current, healthy, cancels>>

RateLimiterReady(c) ==
    /\ calls[c].pc = "wait"
    /\ calls' = [calls EXCEPT ![c].pc = "call"]
    /\ UNCHANGED <<breakers, current, healthy, cancels>>

\* rateLimiter.Wait returned ctx.Err: neither success nor failure is recorded.
RateLimiterCancelled(c) ==
    /\ calls[c].pc = "wait"
    /\ cancels < MaxCancels
    /\ cancels' = cancels + 1
    /\ calls' = [calls EXCEPT ![c] = Returned("cancelled")]
    /\ UNCHANGED <<breakers, current, healthy>>

Succeed(c) ==
    /\ calls[c].pc = "call"
    /\ healthy[Target(c)]
    /\ breakers' = [breakers EXCEPT ![Target(c)] = AfterSuccess(@)]
    /\ calls' = [calls EXCEPT ![c] = Returned("ok")]
    /\ UNCHANGED <<current, healthy, cancels>>

Fail(c) ==
    /\ calls[c].pc = "call"
    /\ ~ healthy[Target(c)]
    /\ breakers' = [breakers EXCEPT ![Target(c)] = AfterFailure(@)]
    /\ calls' = [calls EXCEPT ![c].pc = "rotate", ![c].admitted = "closed"]
    /\ UNCHANGED <<current, healthy, cancels>>

\* Mutant: without % len(ps.providers).
RotatePastTheEndMutant(c) ==
    /\ calls[c].pc = "rotate"
    /\ current' = Target(c) + 1
    /\ calls' = [calls EXCEPT ![c].pc = "attempt", ![c].attempt = @ + 1]
    /\ UNCHANGED <<breakers, healthy, cancels>>

Rotate(c) ==
    /\ calls[c].pc = "rotate"
    /\ current' = (Target(c) + 1) % N
    /\ calls' = [calls EXCEPT ![c].pc = "attempt", ![c].attempt = @ + 1]
    /\ UNCHANGED <<breakers, healthy, cancels>>

Cooldown(p) ==
    /\ ~ breakers[p].cooled
    /\ breakers' = [breakers EXCEPT ![p] = AfterCooldown(@)]
    /\ UNCHANGED <<current, calls, healthy, cancels>>

ChangeHealth(p) ==
    /\ healthy' = [healthy EXCEPT ![p] = ~ @]
    /\ UNCHANGED <<breakers, current, calls, cancels>>

ExecuteFetch(c) ==
    \/ Begin(c) \/ Attempt(c) \/ AllFailed(c)
    \/ RateLimiterReady(c) \/ RateLimiterCancelled(c)
    \/ Succeed(c) \/ Fail(c) \/ Rotate(c)

Next ==
    \/ \E c \in Callers : ExecuteFetch(c)
    \/ \E p \in Provider : Cooldown(p) \/ ChangeHealth(p)

Spec == Init /\ [][Next]_vars

\* Every poll loop ticks again and again, a rate limiter that is waited for
\* hands out its token, a provider answers or times out, and time passes.
Fairness ==
    /\ \A c \in Callers :
          /\ WF_vars(Begin(c) \/ Attempt(c) \/ AllFailed(c) \/ RateLimiterReady(c)
                     \/ Rotate(c))
          /\ WF_vars(Succeed(c) \/ Fail(c))
    /\ \A p \in Provider : WF_vars(Cooldown(p))

FairSpec == Spec /\ Fairness

-----------------------------------------------------------------------------
(* Properties *)

(* A breaker is closed exactly while it has fewer failures than the          *)
(* threshold, and counts half-open requests only when half-open, although    *)
(* calls it let through earlier succeed and fail after it changed state.     *)
BreakersConsistent == \A p \in Provider : BreakerConsistent(breakers[p])

InFlight(c, p) == calls[c].pc \in {"wait", "call"} /\ Target(c) = p

(* A half-open breaker that admits no request waits for one it admitted: its *)
(* verdict will close or reopen the breaker.  Otherwise nothing ever would,  *)
(* half-open having no timeout (the state diagram of CircuitBreaker leaves   *)
(* it on success and on failure only).                                       *)
BlockedHalfOpenIsBeingTested ==
    \A p \in Provider :
        breakers[p].state = "half_open" /\ ~ Allows(breakers[p])
        => \E c \in Callers : InFlight(c, p)

(* HalfOpenMax requests that end in the rate limiter without a verdict are   *)
(* survived, the request that turned the breaker half-open being a spare; it *)
(* takes one more to block a breaker that nobody tests.                      *)
BreakerSurvivesFewCancels == cancels <= HalfOpenMax => BlockedHalfOpenIsBeingTested

(* Once the providers answer again for good, every caller is served again    *)
(* and again: failures, skipped providers and moves of the shared index      *)
(* leave no caller without a provider, as long as no more calls were         *)
(* cancelled than the breakers survive.                                      *)
HealthyProvidersServe ==
    /\ <>[](\A p \in Provider : healthy[p])
    /\ [](cancels <= HalfOpenMax)
    => \A c \in Callers : []<>(calls[c].result = "ok")

=============================================================================
