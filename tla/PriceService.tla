---------------------------- MODULE PriceService ----------------------------
(***************************************************************************)
(* The price cache that poll goroutines share (internal/price).  A price   *)
(* is abstracted to the time at which CoinGecko answered it.  Module       *)
(* Console has the steps of the callers.                                   *)
(***************************************************************************)
EXTENDS Naturals

CONSTANTS
    Coins,              \* coins with a price of their own
    CacheDuration,      \* prices younger than this are not fetched again
    StaleTolerance,     \* and those younger than this are served when a fetch fails
    FetchTimeout        \* of the HTTP client

ASSUME PriceAssumption ==
    /\ Coins # {}
    /\ CacheDuration \in Nat \ {0} /\ StaleTolerance \in Nat /\ FetchTimeout \in Nat
    /\ CacheDuration <= StaleTolerance

VARIABLES
    cache,      \* [coins: those the answer had a price for, asOf: when it was given]
    cachedAt,   \* when the answer was stored
    stale       \* what IsStale returns

priceVars == <<cache, cachedAt, stale>>

Answer == [coins : SUBSET Coins, asOf : Nat]
NoAnswer == [coins |-> {}, asOf |-> 0]

NewPriceService == cache = NoAnswer /\ cachedAt = 0 /\ stale = FALSE

CacheHit(now) == cache.coins # {} /\ now - cachedAt < CacheDuration

\* Mutant: a cache of any age is served when a fetch fails.
StaleHitAnyAgeMutant(now) == cache.coins # {}

\* A failed fetch falls back to the cache.
StaleHit(now) == cache.coins # {} /\ now - cachedAt < StaleTolerance

Store(answer, now) == cache' = answer /\ cachedAt' = now /\ stale' = FALSE

ServeStale == stale' = TRUE /\ UNCHANGED <<cache, cachedAt>>

=============================================================================
