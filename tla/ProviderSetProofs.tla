-------------------------- MODULE ProviderSetProofs --------------------------
(***************************************************************************)
(* What holds of the circuit breakers and of the round robin for every     *)
(* threshold, every number of providers and any set of callers.            *)
(***************************************************************************)
EXTENDS ProviderSet, FiniteSetTheorems, TLAPS

-----------------------------------------------------------------------------
(* The breaker's methods keep it a breaker whose counters agree with its    *)
(* state.                                                                  *)

GoodBreaker(cb) == cb \in Breaker /\ BreakerConsistent(cb)

(* NewCircuitBreaker starts closed with no failure counted. *)
LEMMA NewBreakerGood == GoodBreaker(NewBreaker)
  BY BreakerAssumption DEF GoodBreaker, Breaker, BreakerState, NewBreaker, BreakerConsistent

(* Allow admits no more half-open requests than the count has room for. *)
LEMMA AfterAllowGood ==
  ASSUME NEW cb, GoodBreaker(cb), Allows(cb)
  PROVE  GoodBreaker(AfterAllow(cb))
<1>. USE BreakerAssumption DEF GoodBreaker, Breaker, BreakerState, BreakerConsistent
<1>1. CASE cb.state = "closed"
  BY <1>1 DEF AfterAllow
<1>2. CASE cb.state = "open"
  BY <1>2 DEF AfterAllow
<1>3. CASE cb.state = "half_open"
  <2>1. cb.halfOpenCount < HalfOpenMax
    BY <1>3 DEF Allows
  <2>2. AfterAllow(cb) = [cb EXCEPT !.halfOpenCount = @ + 1]
    BY <1>3 DEF AfterAllow
  <2>3. cb.halfOpenCount + 1 \in 0 .. HalfOpenMax
    BY <2>1
  <2>. QED  BY <1>3, <2>2, <2>3
<1>. QED  BY <1>1, <1>2, <1>3

(* RecordSuccess closes the breaker and clears both counters. *)
LEMMA AfterSuccessGood ==
  ASSUME NEW cb, GoodBreaker(cb)
  PROVE  GoodBreaker(AfterSuccess(cb))
  BY BreakerAssumption
  DEF GoodBreaker, Breaker, BreakerState, BreakerConsistent, AfterSuccess

(* RecordFailure trips at the threshold and from half-open, whichever state *)
(* the breaker is in when the failure arrives.                              *)
LEMMA AfterFailureGood ==
  ASSUME NEW cb, GoodBreaker(cb)
  PROVE  GoodBreaker(AfterFailure(cb))
<1>. USE BreakerAssumption DEF GoodBreaker, Breaker, BreakerState, BreakerConsistent
<1>. DEFINE fails == IF cb.fails < Threshold THEN cb.fails + 1 ELSE cb.fails
            trips == cb.state = "half_open" \/ fails = Threshold
<1>1. fails \in 0 .. Threshold
  OBVIOUS
<1>2. AfterFailure(cb) = [state |-> IF trips THEN "open" ELSE cb.state,
                          fails |-> fails,
                          halfOpenCount |-> IF trips THEN 0 ELSE cb.halfOpenCount,
                          cooled |-> FALSE]
  BY DEF AfterFailure
<1>3. CASE trips
  <2>1. fails = Threshold
    BY <1>3
  <2>. QED  BY <1>1, <1>2, <1>3, <2>1
<1>4. CASE ~ trips
  <2>1. cb.state = "closed" /\ fails < Threshold
    BY <1>1, <1>4
  <2>. QED  BY <1>1, <1>2, <1>4, <2>1
<1>. QED  BY <1>3, <1>4

(* Time does not touch the counters. *)
LEMMA AfterCooldownGood ==
  ASSUME NEW cb, GoodBreaker(cb)
  PROVE  GoodBreaker(AfterCooldown(cb))
  BY DEF GoodBreaker, Breaker, BreakerState, BreakerConsistent, AfterCooldown

-----------------------------------------------------------------------------
(* The inductive invariant.  A half-open breaker has let halfOpenCount       *)
(* requests through and the one that opened it half-way; no verdict has come *)
(* since, so each of them is in flight or was cancelled.                     *)

AttemptInRange ==
    \A c \in Callers : calls[c].pc \in {"wait", "call", "rotate"} => calls[c].attempt < N

Flying(p) == {c \in Callers : InFlight(c, p)}

SlotsAccountedFor ==
    \A p \in Provider : breakers[p].state = "half_open" =>
        breakers[p].halfOpenCount + 1 <= Cardinality(Flying(p)) + cancels

Inv == TypeOK /\ BreakersConsistent /\ AttemptInRange /\ SlotsAccountedFor

(* The round robin of executeFetch never indexes past the providers. *)
LEMMA ModuloInRange ==
  ASSUME NEW x \in Nat
  PROVE  x % N \in Provider
  BY ProviderSetAssumption DEF Provider

LEMMA TargetInRange ==
  ASSUME TypeOK, NEW c \in Callers
  PROVE  Target(c) \in Provider
<1>1. calls[c].start \in Nat /\ calls[c].attempt \in Nat
  BY ProviderSetAssumption DEF TypeOK, Call, Provider
<1>2. calls[c].start + calls[c].attempt \in Nat
  BY <1>1
<1>. QED  BY <1>2, ModuloInRange DEF Target

(* The requests in flight at a provider can be counted. *)
LEMMA FlyingFinite ==
  ASSUME NEW p
  PROVE  IsFiniteSet(Flying(p)) /\ Cardinality(Flying(p)) \in Nat
<1>1. Flying(p) \subseteq Callers
  BY DEF Flying
<1>2. IsFiniteSet(Flying(p))
  BY <1>1, ProviderSetAssumption, FS_Subset
<1>. QED  BY <1>2, FS_CardinalityType

(* A step of one caller does not move the requests of the others. *)
LEMMA OthersKeepFlying ==
  ASSUME TypeOK, NEW c \in Callers, NEW x, calls' = [calls EXCEPT ![c] = x], NEW p
  PROVE  Flying(p)' \ {c} = Flying(p) \ {c}
<1>1. \A d \in Callers : d # c => calls'[d] = calls[d]
  BY DEF TypeOK
<1>2. \A d \in Callers : d # c => (InFlight(d, p)' <=> InFlight(d, p))
  BY <1>1 DEF InFlight, Target
<1>. QED  BY <1>2 DEF Flying

(* ... and if its own request is where it was, neither does anything else. *)
LEMMA SameFlying ==
  ASSUME TypeOK, NEW c \in Callers, NEW x, calls' = [calls EXCEPT ![c] = x], NEW p,
         InFlight(c, p)' <=> InFlight(c, p)
  PROVE  Flying(p)' = Flying(p)
<1>1. Flying(p)' \ {c} = Flying(p) \ {c}
  BY OthersKeepFlying
<1>2. c \in Flying(p)' <=> c \in Flying(p)
  BY DEF Flying
<1>. QED  BY <1>1, <1>2

(* What keeps the accounts of a breaker that a step leaves alone. *)
LEMMA SlotsKept ==
  ASSUME SlotsAccountedFor, NEW p \in Provider, cancels' = cancels,
         Flying(p)' = Flying(p), breakers'[p] = breakers[p]
  PROVE  breakers'[p].state = "half_open" =>
             breakers'[p].halfOpenCount + 1 <= Cardinality(Flying(p)') + cancels'
  BY DEF SlotsAccountedFor

LEMMA InitInv == Init => Inv
<1>. SUFFICES ASSUME Init PROVE Inv
  OBVIOUS
<1>. USE ProviderSetAssumption DEF Init
<1>1. 0 \in Provider
  BY DEF Provider
<1>2. TypeOK
  <2>1. breakers \in [Provider -> Breaker]
    BY NewBreakerGood DEF GoodBreaker
  <2>2. Returned("none") \in Call
    BY <1>1 DEF Call, Returned, CallPC, Result, BreakerState
  <2>. QED  BY <1>1, <2>1, <2>2 DEF TypeOK
<1>3. BreakersConsistent
  BY NewBreakerGood DEF GoodBreaker, BreakersConsistent
<1>4. AttemptInRange
  BY DEF AttemptInRange, Returned
<1>5. SlotsAccountedFor
  BY DEF SlotsAccountedFor, NewBreaker
<1>. QED  BY <1>2, <1>3, <1>4, <1>5 DEF Inv

(* Steps of a caller that leave the breakers alone and whose request is in   *)
(* flight neither before nor after, or both.                                 *)
LEMMA QuietStep ==
  ASSUME Inv, NEW c \in Callers, NEW x \in Call, calls' = [calls EXCEPT ![c] = x],
         UNCHANGED <<breakers, healthy, cancels>>, current' \in Provider,
         x.pc \in {"wait", "call", "rotate"} => x.attempt < N,
         \A p \in Provider : InFlight(c, p)' <=> InFlight(c, p)
  PROVE  Inv'
<1>1. TypeOK'
  BY DEF Inv, TypeOK
<1>2. BreakersConsistent'
  BY DEF Inv, BreakersConsistent
<1>3. AttemptInRange'
  BY DEF Inv, TypeOK, AttemptInRange
<1>4. SlotsAccountedFor'
  <2>. SUFFICES ASSUME NEW p \in Provider
                PROVE  breakers'[p].state = "half_open" =>
                    breakers'[p].halfOpenCount + 1 <= Cardinality(Flying(p)') + cancels'
    BY DEF SlotsAccountedFor
  <2>1. Flying(p)' = Flying(p)
    BY SameFlying DEF Inv
  <2>. QED  BY <2>1, SlotsKept DEF Inv
<1>. QED  BY <1>1, <1>2, <1>3, <1>4 DEF Inv

LEMMA BeginInv ==
  ASSUME Inv, NEW c \in Callers, Begin(c)
  PROVE  Inv'
<1>. DEFINE x == [pc |-> "attempt", start |-> current, attempt |-> 0, admitted |-> "closed",
                  result |-> "none"]
<1>1. current \in Provider /\ 0 \in 0 .. N
  BY ProviderSetAssumption DEF Inv, TypeOK
<1>2. x \in Call
  BY <1>1 DEF Call, CallPC, Result, BreakerState
<1>3. calls' = [calls EXCEPT ![c] = x]
  BY DEF Begin
<1>4. \A p \in Provider : ~ InFlight(c, p) /\ ~ InFlight(c, p)'
  BY <1>3 DEF Begin, InFlight, Inv, TypeOK
<1>5. x.pc = "attempt"
  OBVIOUS
<1>. HIDE DEF x
<1>. QED  BY <1>1, <1>2, <1>3, <1>4, <1>5, QuietStep DEF Begin

LEMMA AllFailedInv ==
  ASSUME Inv, NEW c \in Callers, AllFailed(c)
  PROVE  Inv'
<1>. DEFINE x == Returned("failed")
<1>1. x \in Call
  BY ProviderSetAssumption DEF Call, CallPC, Result, BreakerState, Returned, Provider
<1>2. calls' = [calls EXCEPT ![c] = x]
  BY DEF AllFailed
<1>3. \A p \in Provider : ~ InFlight(c, p) /\ ~ InFlight(c, p)'
  BY <1>2 DEF AllFailed, InFlight, Returned, Inv, TypeOK
<1>4. x.pc = "idle"
  BY DEF Returned
<1>. QED  BY <1>1, <1>2, <1>3, <1>4, QuietStep DEF AllFailed, Inv, TypeOK

(* A caller's locals, for the steps that change one or two of them. *)
LEMMA CallFields ==
  ASSUME TypeOK, NEW c \in Callers
  PROVE  /\ calls[c] \in Call
         /\ calls[c].pc \in CallPC
         /\ calls[c].start \in Provider
         /\ calls[c].attempt \in 0 .. N
         /\ calls[c].attempt \in Nat
         /\ calls[c].admitted \in BreakerState
         /\ calls[c].result \in Result
  BY ProviderSetAssumption DEF TypeOK, Call

LEMMA RateLimiterReadyInv ==
  ASSUME Inv, NEW c \in Callers, RateLimiterReady(c)
  PROVE  Inv'
<1>. DEFINE x == [calls[c] EXCEPT !.pc = "call"]
<1>1. x \in Call
  BY CallFields DEF Inv, Call, CallPC
<1>2. calls' = [calls EXCEPT ![c] = x]
  BY DEF RateLimiterReady
<1>3. /\ x.pc = "call"
      /\ x.start = calls[c].start
      /\ x.attempt = calls[c].attempt
  BY CallFields DEF Inv, Call
<1>4. calls[c].pc = "wait" /\ x.attempt < N
  BY <1>3 DEF RateLimiterReady, Inv, AttemptInRange
<1>5. calls'[c] = x
  BY <1>2 DEF Inv, TypeOK
<1>6. \A p \in Provider : InFlight(c, p)' <=> InFlight(c, p)
  BY <1>3, <1>4, <1>5 DEF InFlight, Target
<1>. HIDE DEF x
<1>. QED  BY <1>1, <1>2, <1>4, <1>6, QuietStep DEF RateLimiterReady, Inv, TypeOK

LEMMA RotateInv ==
  ASSUME Inv, NEW c \in Callers, Rotate(c)
  PROVE  Inv'
<1>. DEFINE x == [calls[c] EXCEPT !.pc = "attempt", !.attempt = @ + 1]
<1>1. calls[c].pc = "rotate" /\ calls[c].attempt + 1 \in 0 .. N
  BY CallFields, ProviderSetAssumption DEF Rotate, Inv, AttemptInRange
<1>2. x \in Call
  BY <1>1, CallFields DEF Inv, Call, CallPC
<1>3. calls' = [calls EXCEPT ![c] = x]
  BY DEF Rotate
<1>4. x.pc = "attempt"
  BY CallFields DEF Inv, Call
<1>5. calls'[c] = x
  BY <1>3 DEF Inv, TypeOK
<1>6. \A p \in Provider : InFlight(c, p)' <=> InFlight(c, p)
  BY <1>1, <1>4, <1>5 DEF InFlight
<1>7. current' \in Provider
  <2>1. Target(c) + 1 \in Nat
    BY TargetInRange, ProviderSetAssumption DEF Inv, Provider
  <2>. QED  BY <2>1, ModuloInRange DEF Rotate
<1>. HIDE DEF x
<1>. QED  BY <1>2, <1>3, <1>4, <1>6, <1>7, QuietStep DEF Rotate

(* Every method of one breaker but Allow: the others, and the calls, stay. *)
LEMMA VerdictStep ==
  ASSUME Inv, NEW c \in Callers, NEW x \in Call, calls' = [calls EXCEPT ![c] = x],
         calls[c].pc = "call", x.pc \in {"idle", "rotate"},
         x.pc = "rotate" => x.attempt < N,
         NEW cb, GoodBreaker(cb), cb.state # "half_open",
         breakers' = [breakers EXCEPT ![Target(c)] = cb],
         UNCHANGED <<current, healthy, cancels>>
  PROVE  Inv'
<1>. DEFINE t == Target(c)
<1>1. t \in Provider
  BY TargetInRange DEF Inv
<1>2. TypeOK'
  BY <1>1 DEF Inv, TypeOK, GoodBreaker
<1>3. BreakersConsistent'
  BY <1>1 DEF Inv, TypeOK, BreakersConsistent, GoodBreaker
<1>4. AttemptInRange'
  BY DEF Inv, TypeOK, AttemptInRange
<1>5. SlotsAccountedFor'
  <2>. SUFFICES ASSUME NEW p \in Provider
                PROVE  breakers'[p].state = "half_open" =>
                    breakers'[p].halfOpenCount + 1 <= Cardinality(Flying(p)') + cancels'
    BY DEF SlotsAccountedFor
  <2>1. CASE p = t
    BY <1>1, <2>1 DEF Inv, TypeOK
  <2>2. CASE p # t
    <3>1. breakers'[p] = breakers[p]
      BY <2>2 DEF Inv, TypeOK
    <3>2. ~ InFlight(c, p) /\ ~ InFlight(c, p)'
      BY <2>2 DEF InFlight, Inv, TypeOK
    <3>3. Flying(p)' = Flying(p)
      BY <3>2, SameFlying DEF Inv
    <3>. QED  BY <3>1, <3>3, SlotsKept DEF Inv
  <2>. QED  BY <2>1, <2>2
<1>. QED  BY <1>2, <1>3, <1>4, <1>5 DEF Inv

LEMMA SucceedInv ==
  ASSUME Inv, NEW c \in Callers, Succeed(c)
  PROVE  Inv'
<1>. DEFINE x == Returned("ok")
            cb == AfterSuccess(breakers[Target(c)])
<1>1. x \in Call /\ x.pc = "idle"
  BY ProviderSetAssumption DEF Call, CallPC, Result, BreakerState, Returned, Provider
<1>2. Target(c) \in Provider
  BY TargetInRange DEF Inv
<1>3. GoodBreaker(breakers[Target(c)])
  BY <1>2 DEF Inv, TypeOK, BreakersConsistent, GoodBreaker
<1>4. GoodBreaker(cb) /\ cb.state # "half_open"
  BY <1>3, AfterSuccessGood DEF AfterSuccess
<1>5. /\ calls' = [calls EXCEPT ![c] = x]
      /\ breakers' = [breakers EXCEPT ![Target(c)] = cb]
  BY DEF Succeed
<1>. HIDE DEF x, cb
<1>. QED  BY <1>1, <1>4, <1>5, VerdictStep DEF Succeed

LEMMA FailInv ==
  ASSUME Inv, NEW c \in Callers, Fail(c)
  PROVE  Inv'
<1>. DEFINE x == [calls[c] EXCEPT !.pc = "rotate", !.admitted = "closed"]
            cb == AfterFailure(breakers[Target(c)])
<1>1. x \in Call
  BY CallFields DEF Inv, Call, CallPC, BreakerState
<1>2. x.pc = "rotate" /\ x.attempt = calls[c].attempt /\ x.attempt < N
  BY CallFields DEF Fail, Inv, AttemptInRange, Call
<1>3. Target(c) \in Provider
  BY TargetInRange DEF Inv
<1>4. GoodBreaker(breakers[Target(c)])
  BY <1>3 DEF Inv, TypeOK, BreakersConsistent, GoodBreaker
<1>5. GoodBreaker(cb) /\ cb.state # "half_open"
  BY <1>4, AfterFailureGood
  DEF AfterFailure, GoodBreaker, Breaker, BreakerState
<1>6. /\ calls' = [calls EXCEPT ![c] = x]
      /\ breakers' = [breakers EXCEPT ![Target(c)] = cb]
  BY DEF Fail
<1>. HIDE DEF x, cb
<1>. QED  BY <1>1, <1>2, <1>5, <1>6, VerdictStep DEF Fail

(* A provider skipped because of its breaker. *)
LEMMA SkipInv ==
  ASSUME Inv, NEW c \in Callers, Attempt(c), ~ Allows(breakers[Target(c)])
  PROVE  Inv'
<1>. DEFINE x == [calls[c] EXCEPT !.attempt = @ + 1]
<1>1. calls[c].pc = "attempt" /\ calls[c].attempt + 1 \in 0 .. N
  BY CallFields, ProviderSetAssumption DEF Attempt, Inv
<1>2. x \in Call
  BY <1>1, CallFields DEF Inv, Call
<1>3. calls' = [calls EXCEPT ![c] = x] /\ UNCHANGED <<breakers, current, healthy, cancels>>
  BY DEF Attempt
<1>4. x.pc = "attempt"
  BY <1>1, CallFields DEF Inv, Call
<1>5. calls'[c] = x
  BY <1>3 DEF Inv, TypeOK
<1>6. \A p \in Provider : InFlight(c, p)' <=> InFlight(c, p)
  BY <1>1, <1>4, <1>5 DEF InFlight
<1>7. current' \in Provider
  BY <1>3 DEF Inv, TypeOK
<1>. HIDE DEF x
<1>. QED  BY <1>2, <1>3, <1>4, <1>6, <1>7, QuietStep

(* A provider whose breaker lets the call through: one more slot is taken by  *)
(* one more request in flight.                                                *)
LEMMA AdmitInv ==
  ASSUME Inv, NEW c \in Callers, Attempt(c), Allows(breakers[Target(c)])
  PROVE  Inv'
<1>. DEFINE t == Target(c)
            cb == AfterAllow(breakers[t])
            x == [calls[c] EXCEPT !.pc = "wait", !.admitted = cb.state]
<1>1. t \in Provider
  BY TargetInRange DEF Inv
<1>2. GoodBreaker(breakers[t])
  BY <1>1 DEF Inv, TypeOK, BreakersConsistent, GoodBreaker
<1>3. GoodBreaker(cb) /\ cb.state \in BreakerState
  <2>1. GoodBreaker(cb)
    BY <1>2, AfterAllowGood
  <2>. QED  BY <2>1 DEF GoodBreaker, Breaker
<1>4. /\ calls' = [calls EXCEPT ![c] = x]
      /\ breakers' = [breakers EXCEPT ![t] = cb]
      /\ calls[c].pc = "attempt" /\ calls[c].attempt < N
      /\ UNCHANGED <<current, healthy, cancels>>
  BY DEF Attempt
<1>. HIDE DEF cb
<1>5. x \in Call
  BY <1>3, CallFields DEF Inv, Call, CallPC
<1>6. x.pc = "wait" /\ x.start = calls[c].start /\ x.attempt = calls[c].attempt
  BY CallFields DEF Inv, Call
<1>. HIDE DEF x
<1>7. calls'[c] = x /\ breakers'[t] = cb
  BY <1>1, <1>4 DEF Inv, TypeOK
<1>8. TypeOK'
  BY <1>1, <1>3, <1>4, <1>5 DEF Inv, TypeOK, GoodBreaker
<1>9. BreakersConsistent'
  BY <1>1, <1>3, <1>4 DEF Inv, TypeOK, BreakersConsistent, GoodBreaker
<1>10. AttemptInRange'
  BY <1>4, <1>6, <1>7 DEF Inv, TypeOK, AttemptInRange
<1>11. SlotsAccountedFor'
  <2>. SUFFICES ASSUME NEW p \in Provider
                PROVE  breakers'[p].state = "half_open" =>
                    breakers'[p].halfOpenCount + 1 <= Cardinality(Flying(p)') + cancels'
    BY DEF SlotsAccountedFor
  <2>1. CASE p # t
    <3>1. breakers'[p] = breakers[p]
      BY <1>4, <2>1 DEF Inv, TypeOK
    <3>2. ~ InFlight(c, p) /\ ~ InFlight(c, p)'
      BY <1>4, <1>6, <1>7, <2>1 DEF InFlight, Target
    <3>3. Flying(p)' = Flying(p)
      BY <1>4, <3>2, SameFlying DEF Inv
    <3>. QED  BY <1>4, <3>1, <3>3, SlotsKept DEF Inv
  <2>2. CASE p = t
    <3>1. Flying(p)' \ {c} = Flying(p) \ {c}
      BY <1>4, OthersKeepFlying DEF Inv
    <3>2. c \notin Flying(p) /\ c \in Flying(p)'
      BY <1>4, <1>6, <1>7, <2>2 DEF Flying, InFlight, Target
    <3>3. Flying(p)' = Flying(p) \cup {c}
      BY <3>1, <3>2
    <3>4. Cardinality(Flying(p)') = Cardinality(Flying(p)) + 1
      BY <3>2, <3>3, FlyingFinite, FS_AddElement
    <3>5. Cardinality(Flying(p)) \in Nat /\ cancels \in Nat
      BY FlyingFinite DEF Inv, TypeOK
    <3>6. CASE breakers[p].state = "half_open"
      <4>1. breakers[p].halfOpenCount + 1 <= Cardinality(Flying(p)) + cancels
        BY <3>6 DEF Inv, SlotsAccountedFor
      <4>2. cb.halfOpenCount = breakers[p].halfOpenCount + 1
        BY <1>2, <2>2, <3>6 DEF cb, AfterAllow, GoodBreaker, Breaker
      <4>3. breakers[p].halfOpenCount \in Nat
        BY <1>2, <2>2, BreakerAssumption DEF GoodBreaker, Breaker
      <4>. QED  BY <1>4, <1>7, <2>2, <3>4, <3>5, <4>1, <4>2, <4>3
    <3>7. CASE breakers[p].state # "half_open" /\ cb.state = "half_open"
      <4>1. cb.halfOpenCount = 0
        BY <1>2, <2>2, <3>7 DEF cb, AfterAllow, GoodBreaker, Breaker
      <4>. QED  BY <1>4, <1>7, <2>2, <3>4, <3>5, <4>1
    <3>. QED  BY <1>7, <2>2, <3>6, <3>7
  <2>. QED  BY <2>1, <2>2
<1>. QED  BY <1>8, <1>9, <1>10, <1>11 DEF Inv

(* A cancelled wait takes a request out of flight and is counted instead. *)
LEMMA RateLimiterCancelledInv ==
  ASSUME Inv, NEW c \in Callers, RateLimiterCancelled(c)
  PROVE  Inv'
<1>. DEFINE x == Returned("cancelled")
<1>1. x \in Call /\ x.pc = "idle"
  BY ProviderSetAssumption DEF Call, CallPC, Result, Returned, Provider, BreakerState
<1>2. /\ calls' = [calls EXCEPT ![c] = x]
      /\ cancels' = cancels + 1
      /\ calls[c].pc = "wait"
      /\ UNCHANGED <<breakers, current, healthy>>
  BY DEF RateLimiterCancelled
<1>. HIDE DEF x
<1>3. TypeOK'
  BY <1>1, <1>2 DEF Inv, TypeOK
<1>4. BreakersConsistent'
  BY <1>2 DEF Inv, BreakersConsistent
<1>5. AttemptInRange'
  BY <1>1, <1>2 DEF Inv, TypeOK, AttemptInRange
<1>6. SlotsAccountedFor'
  <2>. SUFFICES ASSUME NEW p \in Provider, breakers[p].state = "half_open"
                PROVE  breakers[p].halfOpenCount + 1 <= Cardinality(Flying(p)') + cancels'
    BY <1>2 DEF SlotsAccountedFor
  <2>1. breakers[p].halfOpenCount + 1 <= Cardinality(Flying(p)) + cancels
    BY DEF Inv, SlotsAccountedFor
  <2>2. c \notin Flying(p)'
    BY <1>1, <1>2 DEF Flying, InFlight, Inv, TypeOK
  <2>3. Flying(p)' = Flying(p) \ {c}
    BY <1>2, <2>2, OthersKeepFlying DEF Inv
  <2>4. /\ Cardinality(Flying(p)) \in Nat
        /\ Cardinality(Flying(p)') \in Nat
        /\ Cardinality(Flying(p)) <= Cardinality(Flying(p)') + 1
    <3>. DEFINE F == Flying(p)
    <3>1. IsFiniteSet(F) /\ Cardinality(F) \in Nat
      BY FlyingFinite
    <3>2. /\ IsFiniteSet(F \ {c})
          /\ Cardinality(F \ {c}) =
                IF c \in F THEN Cardinality(F) - 1 ELSE Cardinality(F)
      BY <3>1, FS_RemoveElement
    <3>3. Cardinality(F \ {c}) \in Nat
      BY <3>2, FS_CardinalityType
    <3>. HIDE DEF F
    <3>4. Cardinality(F) <= Cardinality(F \ {c}) + 1
      BY <3>1, <3>2
    <3>. QED  BY <2>3, <3>1, <3>3, <3>4 DEF F
  <2>5. breakers[p].halfOpenCount \in Nat /\ cancels \in Nat
    BY BreakerAssumption DEF Inv, TypeOK, Breaker
  <2>. QED  BY <1>2, <2>1, <2>4, <2>5
<1>. QED  BY <1>3, <1>4, <1>5, <1>6 DEF Inv

LEMMA CooldownInv ==
  ASSUME Inv, NEW p \in Provider, Cooldown(p)
  PROVE  Inv'
<1>. DEFINE cb == AfterCooldown(breakers[p])
<1>1. GoodBreaker(breakers[p])
  BY DEF Inv, TypeOK, BreakersConsistent, GoodBreaker
<1>2. GoodBreaker(cb)
  BY <1>1, AfterCooldownGood
<1>3. cb.state = breakers[p].state /\ cb.halfOpenCount = breakers[p].halfOpenCount
  BY <1>1 DEF AfterCooldown, GoodBreaker, Breaker
<1>4. /\ breakers' = [breakers EXCEPT ![p] = cb]
      /\ UNCHANGED <<current, calls, healthy, cancels>>
  BY DEF Cooldown
<1>. HIDE DEF cb
<1>5. TypeOK'
  BY <1>2, <1>4 DEF Inv, TypeOK, GoodBreaker
<1>6. BreakersConsistent'
  BY <1>2, <1>4 DEF Inv, TypeOK, BreakersConsistent, GoodBreaker
<1>7. AttemptInRange'
  BY <1>4 DEF Inv, AttemptInRange
<1>8. SlotsAccountedFor'
  <2>1. \A q \in Provider : Flying(q)' = Flying(q)
    BY <1>4 DEF Flying, InFlight, Target
  <2>2. \A q \in Provider : /\ breakers'[q].state = breakers[q].state
                            /\ breakers'[q].halfOpenCount = breakers[q].halfOpenCount
    BY <1>3, <1>4 DEF Inv, TypeOK
  <2>. QED  BY <1>4, <2>1, <2>2 DEF Inv, SlotsAccountedFor
<1>. QED  BY <1>5, <1>6, <1>7, <1>8 DEF Inv

LEMMA ChangeHealthInv ==
  ASSUME Inv, NEW p \in Provider, ChangeHealth(p)
  PROVE  Inv'
<1>1. \A q \in Provider : healthy[q] \in BOOLEAN /\ (~ healthy[q]) \in BOOLEAN
  BY DEF Inv, TypeOK
<1>2. healthy' \in [Provider -> BOOLEAN]
  BY <1>1, ZenonT(30) DEF ChangeHealth, Inv, TypeOK
<1>3. TypeOK'
  BY <1>2 DEF ChangeHealth, Inv, TypeOK
<1>4. \A q \in Provider : Flying(q)' = Flying(q)
  BY DEF ChangeHealth, Flying, InFlight, Target
<1>. QED  BY <1>3, <1>4
          DEF ChangeHealth, Inv, BreakersConsistent, AttemptInRange, SlotsAccountedFor

LEMMA StutterInv ==
  ASSUME Inv, UNCHANGED vars
  PROVE  Inv'
<1>1. \A q \in Provider : Flying(q)' = Flying(q)
  BY DEF vars, Flying, InFlight, Target
<1>. QED  BY <1>1
          DEF vars, Inv, TypeOK, BreakersConsistent, AttemptInRange, SlotsAccountedFor

LEMMA StepInv == Inv /\ [Next]_vars => Inv'
<1>. SUFFICES ASSUME Inv, [Next]_vars PROVE Inv'
  OBVIOUS
<1>1. ASSUME NEW c \in Callers, ExecuteFetch(c) PROVE Inv'
  <2>1. CASE Begin(c)
    BY <2>1, BeginInv
  <2>2. CASE Attempt(c)
    BY <2>2, SkipInv, AdmitInv
  <2>3. CASE AllFailed(c)
    BY <2>3, AllFailedInv
  <2>4. CASE RateLimiterReady(c)
    BY <2>4, RateLimiterReadyInv
  <2>5. CASE RateLimiterCancelled(c)
    BY <2>5, RateLimiterCancelledInv
  <2>6. CASE Succeed(c)
    BY <2>6, SucceedInv
  <2>7. CASE Fail(c)
    BY <2>7, FailInv
  <2>8. CASE Rotate(c)
    BY <2>8, RotateInv
  <2>. QED
    BY <1>1, <2>1, <2>2, <2>3, <2>4, <2>5, <2>6, <2>7, <2>8 DEF ExecuteFetch
<1>2. ASSUME NEW p \in Provider, Cooldown(p) \/ ChangeHealth(p) PROVE Inv'
  BY <1>2, CooldownInv, ChangeHealthInv
<1>. QED  BY <1>1, <1>2, StutterInv DEF Next

-----------------------------------------------------------------------------

(* The engine and its breakers never leave their types: in particular the    *)
(* shared index and every target stay within the providers.                  *)
THEOREM TypeCorrect == Spec => []TypeOK
<1>1. Inv => TypeOK
  BY DEF Inv
<1>. QED  BY <1>1, InitInv, StepInv, PTL DEF Spec

(* Whatever verdicts arrive late, the counters of every breaker agree with   *)
(* its state.                                                                *)
THEOREM BreakersStayConsistent == Spec => []BreakersConsistent
<1>1. Inv => BreakersConsistent
  BY DEF Inv
<1>. QED  BY <1>1, InitInv, StepInv, PTL DEF Spec

(* A half-open breaker that rejects everything has spent HalfOpenMax slots,   *)
(* so of HalfOpenMax + 1 requests at most HalfOpenMax were cancelled: one is  *)
(* still in flight and its verdict will move the breaker.                     *)
THEOREM FewCancelsAreSurvived == Spec => []BreakerSurvivesFewCancels
<1>1. ASSUME Inv PROVE BreakerSurvivesFewCancels
  <2>. SUFFICES ASSUME cancels <= HalfOpenMax, NEW p \in Provider,
                       breakers[p].state = "half_open", ~ Allows(breakers[p])
                PROVE  \E c \in Callers : InFlight(c, p)
    BY DEF BreakerSurvivesFewCancels, BlockedHalfOpenIsBeingTested
  <2>1. breakers[p].halfOpenCount + 1 <= Cardinality(Flying(p)) + cancels
    BY <1>1 DEF Inv, SlotsAccountedFor
  <2>2. breakers[p].halfOpenCount \in 0 .. HalfOpenMax
    BY <1>1 DEF Inv, TypeOK, Breaker
  <2>3. breakers[p].halfOpenCount = HalfOpenMax
    BY <2>2, BreakerAssumption DEF Allows
  <2>4. Cardinality(Flying(p)) \in Nat /\ cancels \in Nat
    BY <1>1, FlyingFinite DEF Inv, TypeOK
  <2>5. Cardinality(Flying(p)) # 0
    BY <2>1, <2>3, <2>4, BreakerAssumption
  <2>6. Flying(p) # {}
    BY <2>5, FS_EmptySet
  <2>. QED  BY <2>6 DEF Flying
<1>. QED  BY <1>1, InitInv, StepInv, PTL DEF Spec

=============================================================================
