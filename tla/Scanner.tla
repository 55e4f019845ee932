------------------------------ MODULE Scanner ------------------------------
(***************************************************************************)
(* Balance scans of the HDPay server: scanner.go, pool.go and the handlers *)
(* of api/handlers/scan.go, with the database, the provider pools and the  *)
(* event hub around them.                                                  *)
(*                                                                         *)
(* A scan is a goroutine numbered in the order StartScan accepted it.  It  *)
(* walks over the addresses in batches: native balances, then the tokens,  *)
(* then one transaction.  The context of a scan is done when a stop is     *)
(* requested or ScanContextTimeout has passed; the goroutine notices at    *)
(* the places where the code looks.                                        *)
(*                                                                         *)
(* One turn of a provider (nextIndex, Allow, the call, the breaker and the *)
(* health statements) is one step: a pool belongs to one chain, a chain    *)
(* has one scan, and nothing else uses the pool.                           *)
(***************************************************************************)
EXTENDS ScanProviders, SSEHub

CONSTANTS
    MaxScans,           \* bound on the scans that are accepted
    MaxIDs,             \* the maxId that requests ask for
    Pools,              \* [Chains -> sequence of provider names]
    BatchSize,          \* [provider name -> its MaxBatchSize]
    MaxConsecutivePoolFails,
    OnChain,            \* [Chains -> set of <<index, asset>> that hold funds]
    MaxFaults,          \* bound on provider and database faults
    MaxStops, MaxResets, MaxRestarts

Providers == UNION {{Pools[c][j] : j \in 1 .. Len(Pools[c])} : c \in Chains}
Scans == 1 .. MaxScans
NoScan == 0

ASSUME ScannerAssumption ==
    /\ {MaxScans, MaxFaults, MaxStops, MaxResets, MaxRestarts} \subseteq Nat
    /\ MaxIDs \subseteq Nat \ {0}
    /\ MaxConsecutivePoolFails \in Nat \ {0}
    /\ \A c \in Chains : Pools[c] \in Seq(STRING) /\ Len(Pools[c]) > 0
    /\ \A c, d \in Chains : \A j \in 1 .. Len(Pools[c]), k \in 1 .. Len(Pools[d]) :
          Pools[c][j] = Pools[d][k] => c = d /\ j = k
    /\ \A c \in Chains : \A j \in 1 .. Len(Pools[c]) :
          Pools[c][j] \in {"Blockstream", "Mempool"} => Tokens[c] = <<>>
    /\ BatchSize \in [Providers -> Nat \ {0}]

VARIABLES
    cancels,    \* [Chains -> the scan whose cancel function is in s.cancels, or NoScan]
    accepted,   \* how many scans StartScan has accepted
    pc,         \* [Scans -> where the goroutine is]
    loc,        \* [Scans -> its local variables]
    done,       \* the scans whose context is done
    pools,      \* [Chains -> the pool's counter and breakers]
    balances, scanState, health,    \* the tables
    hub,        \* h.clients
    used,       \* what has been spent of each bound
    fresh,      \* ghost: per chain, <<index, asset>> stored since the row's scan began
    missed,     \* ghost: those whose fetch failed in that scan, or that a reset deleted
    unwritten   \* ghost: the providers that a health statement failed for

scanVars == <<cancels, accepted, pc, loc, done>>
tableVars == <<balances, scanState, health>>
ghostVars == <<fresh, missed, unwritten>>
vars == <<scanVars, pools, tableVars, hub, used, ghostVars>>

-----------------------------------------------------------------------------

Live == {"begin", "loop", "backoff", "load", "native", "token", "store",
         "report", "write", "announce", "remove"}
PC == {"new", "over"} \cup Live

\* at: the first index of the batch; fails: consecutivePoolFails; tries: providers
\* already tried in this fetch; token: the next token; status, event: how it ends.
Locals == [chain : Chains, max : Nat, at : Nat, scanned : Nat, fails : Nat, tries : Nat,
           nativeFailed : BOOLEAN, token : Nat, results : SUBSET BalanceResult,
           status : ScanStatus, event : {"none", "scan_complete", "scan_error"}]

NewLocals(chain, max) ==
    [chain |-> chain, max |-> max, at |-> 0, scanned |-> 0, fails |-> 0, tries |-> 0,
     nativeFailed |-> FALSE, token |-> 1, results |-> {}, status |-> "scanning",
     event |-> "none"]

EventType == {"scan_progress", "scan_token_error", "scan_complete", "scan_error"}
Event == [type : EventType, chain : Chains, scan : Scans]

NewPool(chain) == [current |-> 1, breakers |-> [j \in 1 .. Len(Pools[chain]) |-> NewBreaker]]

MaxBatchSize(chain) ==
    LET sizes == {BatchSize[Pools[chain][j]] : j \in 1 .. Len(Pools[chain])}
    IN  CHOOSE n \in sizes : \A o \in sizes : n >= o

Key == Index \X Asset

TypeOK ==
    /\ cancels \in [Chains -> Scans \cup {NoScan}]
    /\ accepted \in 0 .. MaxScans
    /\ pc \in [Scans -> PC] /\ DOMAIN loc = Scans
    /\ \A s \in Scans : pc[s] # "new" => loc[s] \in Locals
    /\ done \subseteq Scans
    /\ DOMAIN pools = Chains
    /\ \A c \in Chains :
          /\ pools[c].current \in 1 .. Len(Pools[c])
          /\ pools[c].breakers \in [1 .. Len(Pools[c]) -> Breaker]
    /\ balances \in [Chains -> [Key -> StoredAmount]]
    /\ scanState \in [Chains -> ScanRow]
    /\ health \in [Providers -> HealthRow]
    /\ hub \in [Clients -> [in : BOOLEAN, queue : Seq(Event)]]
    /\ \A k \in Clients : Len(hub[k].queue) <= QueueCap
    /\ fresh \in [Chains -> SUBSET Key] /\ missed \in [Chains -> SUBSET Key]
    /\ unwritten \subseteq Providers

Init ==
    /\ cancels = [c \in Chains |-> NoScan]
    /\ accepted = 0
    /\ pc = [s \in Scans |-> "new"]
    /\ loc = [s \in Scans |-> NewLocals(CHOOSE c \in Chains : TRUE, 0)]
    /\ done = {}
    /\ pools = [c \in Chains |-> NewPool(c)]
    /\ balances = ResetBalances
    /\ scanState = ResetScanStates
    /\ health = [p \in Providers |-> InitialHealth]
    /\ hub = NoClients
    /\ used = [faults |-> 0, stops |-> 0, resets |-> 0, restarts |-> 0]
    /\ fresh = [c \in Chains |-> {}]
    /\ missed = [c \in Chains |-> {}]
    /\ unwritten = {}

-----------------------------------------------------------------------------
(* Steps of a goroutine *)

Goto(s, next) == pc' = [pc EXCEPT ![s] = next]
GotoWith(s, next, locals) == Goto(s, next) /\ loc' = [loc EXCEPT ![s] = locals]

\* n faults happen in this step.
Faults(n) ==
    /\ used.faults + n <= MaxFaults
    /\ used' = [used EXCEPT !.faults = @ + n]

\* finishScan is entered, or the tail of a cancelled scan.
Ends(s, locals, status, event) ==
    GotoWith(s, "write", [locals EXCEPT !.status = status, !.event = event, !.results = {}])

\* The row of the chain with position loc.scanned; nothing when the statement fails.
Writes(s, status, ok) ==
    scanState' = IF ok THEN UpsertScanState(scanState, loc[s].chain, loc[s].scanned,
                                            loc[s].max, status)
                 ELSE scanState

\* The initial row of StartScan, then go s.runScan.
Begin(s) ==
    /\ pc[s] = "begin"
    /\ \/ /\ Writes(s, "scanning", TRUE)
          /\ Goto(s, "loop")
          /\ fresh' = [fresh EXCEPT ![loc[s].chain] = {}]
          /\ missed' = [missed EXCEPT ![loc[s].chain] = {}]
          /\ UNCHANGED used
       \/ /\ Faults(1)
          /\ Writes(s, "scanning", FALSE)
          /\ Goto(s, "remove")
          /\ UNCHANGED <<fresh, missed>>
    /\ UNCHANGED <<cancels, accepted, loc, done, pools, balances, health, hub, unwritten>>

\* The head of the loop: the end of the addresses, a done context, a backoff.
LoopHead(s) ==
    /\ pc[s] = "loop"
    /\ \/ /\ loc[s].at >= loc[s].max
          /\ Ends(s, loc[s], "completed", "scan_complete")
       \/ /\ loc[s].at < loc[s].max /\ s \in done
          /\ Ends(s, loc[s], "scanning", "scan_error")
       \/ /\ loc[s].at < loc[s].max /\ s \notin done
          /\ Goto(s, IF loc[s].fails > 0 THEN "backoff" ELSE "load")
          /\ UNCHANGED loc
    /\ UNCHANGED <<cancels, accepted, done, pools, tableVars, hub, used, ghostVars>>

\* A stop during the backoff ends the scan without an event.
Backoff(s) ==
    /\ pc[s] = "backoff"
    /\ \/ Goto(s, "load") /\ UNCHANGED loc
       \/ s \in done /\ Ends(s, loc[s], "scanning", "none")
    /\ UNCHANGED <<cancels, accepted, done, pools, tableVars, hub, used, ghostVars>>

BatchEnd(s) ==
    LET end == loc[s].at + MaxBatchSize(loc[s].chain)
    IN  IF end > loc[s].max THEN loc[s].max ELSE end

Batch(s) == GetAddressesBatch(loc[s].chain, loc[s].at, BatchEnd(s) - loc[s].at)

NextAt(s) == loc[s].at + MaxBatchSize(loc[s].chain)

\* Mutant: an empty batch is skipped without moving on.
LoadStaysMutant(s) ==
    /\ pc[s] = "load"
    /\ \/ /\ Faults(1)
          /\ Ends(s, loc[s], "failed", "scan_error")
       \/ /\ Batch(s) = {}
          /\ GotoWith(s, "loop", [loc[s] EXCEPT !.scanned = BatchEnd(s)])
          /\ UNCHANGED used
       \/ /\ Batch(s) # {}
          /\ GotoWith(s, "native", [loc[s] EXCEPT !.tries = 0, !.nativeFailed = FALSE,
                                                  !.token = 1, !.results = {}])
          /\ UNCHANGED used
    /\ UNCHANGED <<cancels, accepted, done, pools, tableVars, hub, ghostVars>>

\* A batch without addresses is passed over.
Load(s) ==
    /\ pc[s] = "load"
    /\ \/ /\ Faults(1)
          /\ Ends(s, loc[s], "failed", "scan_error")
       \/ /\ Batch(s) = {}
          /\ GotoWith(s, "loop", [loc[s] EXCEPT !.scanned = BatchEnd(s), !.at = NextAt(s)])
          /\ UNCHANGED used
       \/ /\ Batch(s) # {}
          /\ GotoWith(s, "native", [loc[s] EXCEPT !.tries = 0, !.nativeFailed = FALSE,
                                                  !.token = 1, !.results = {}])
          /\ UNCHANGED used
    /\ UNCHANGED <<cancels, accepted, done, pools, tableVars, hub, ghostVars>>

-----------------------------------------------------------------------------
(* The pool: one turn of one provider *)

\* The health statements of a turn, of which the numbers in "lost" fail.
HealthAfter(row, answer, breaker, lost) ==
    LET counted == IF 1 \in lost THEN row ELSE RecordProviderFailure(row)
    IN  CASE answer.err = "none" -> IF 1 \in lost THEN row ELSE RecordProviderSuccess(row)
          [] answer.err # "none" /\ 2 \in lost -> counted
          [] OTHER -> UpdateProviderCircuitState(counted, breaker.state)

OnChainNow(chain, asset) ==
    [i \in Index |-> IF <<i, asset>> \in OnChain[chain] THEN "funds" ELSE "0"]

\* A provider whose turn comes with a done context fails before it asks.
AnswersNow(s, provider, asset) ==
    IF s \in done THEN {Breaks}
    ELSE Answers(provider, asset, Batch(s), OnChainNow(loc[s].chain, asset))

FaultsOf(s, asset, answer, lost) ==
    Cardinality(lost) +
    (IF s \in done \/ answer = Reads(asset, Batch(s), OnChainNow(loc[s].chain, asset), {})
     THEN 0 ELSE 1)

CurrentProvider(c) == Pools[c][pools[c].current]
CurrentBreaker(c) == pools[c].breakers[pools[c].current]

\* The breaker after a request that Allow let through.
AfterRequest(cb, answer) ==
    IF answer.err = "none" THEN AfterSuccess(AfterAllow(cb)) ELSE AfterFailure(AfterAllow(cb))

\* A turn in which the provider is asked.
Turn(s, asset, answer, lost) ==
    LET c == loc[s].chain
        after == AfterRequest(CurrentBreaker(c), answer)
    IN  [answer |-> answer, breaker |-> after,
         row |-> HealthAfter(health[CurrentProvider(c)], answer, after, lost),
         lost |-> lost, faults |-> FaultsOf(s, asset, answer, lost)]

\* What the turn of the provider at pools[...].current can come to.  A provider whose
\* breaker refuses is skipped: nothing is recorded.
Turns(s, asset) ==
    LET c == loc[s].chain
    IN  IF Allows(CurrentBreaker(c))
        THEN {Turn(s, asset, answer, lost) :
                 answer \in AnswersNow(s, CurrentProvider(c), asset), lost \in SUBSET {1, 2}}
        ELSE {[answer |-> Refuses, breaker |-> CurrentBreaker(c),
               row |-> health[CurrentProvider(c)], lost |-> {}, faults |-> 0]}

\* Mutant: the counter is not reduced modulo the number of providers.
NextIndexUnwrappedMutant(pool, n) == pool.current + 1

\* The round-robin counter, which wraps over the providers.
NextIndex(pool, n) == (pool.current % n) + 1

TakesTurn(s, t) ==
    LET c == loc[s].chain
        pool == pools[c]
        provider == CurrentProvider(c)
    IN  /\ 2 \in t.lost => t.answer.err # "none"
        /\ Faults(t.faults)
        /\ pools' = [pools EXCEPT ![c] =
                        [current |-> NextIndex(pool, Len(Pools[c])),
                         breakers |-> [pool.breakers EXCEPT ![pool.current] = t.breaker]]]
        /\ health' = [health EXCEPT ![provider] = t.row]
        /\ unwritten' = CASE t.lost # {} -> unwritten \cup {provider}
                          [] t.lost = {} /\ t.answer.err = "none" -> unwritten \ {provider}
                          [] OTHER -> unwritten

\* The next provider is tried after ErrCircuitOpen and after a retriable error.
TriesNext(s, t) ==
    t.answer.err = "retriable" /\ loc[s].tries + 1 < Len(Pools[loc[s].chain])

FetchFails(s, t) == t.answer.err # "none" /\ ~TriesNext(s, t)

Misses(s, asset) ==
    missed' = [missed EXCEPT ![loc[s].chain] = @ \cup (Batch(s) \X {asset})]

AfterFetch(s, token) == IF token > Len(Tokens[loc[s].chain]) THEN "store" ELSE "token"

FetchNativeBalances(s) ==
    /\ pc[s] = "native"
    /\ \E t \in Turns(s, Native) :
        /\ TakesTurn(s, t)
        /\ \/ /\ t.answer.err = "none"
              /\ GotoWith(s, AfterFetch(s, 1),
                          [loc[s] EXCEPT !.fails = 0, !.tries = 0, !.results = t.answer.results])
              /\ UNCHANGED missed
           \/ /\ TriesNext(s, t)
              /\ GotoWith(s, "native", [loc[s] EXCEPT !.tries = @ + 1])
              /\ UNCHANGED missed
           \/ /\ FetchFails(s, t) /\ s \in done
              /\ Ends(s, loc[s], "scanning", "none")
              /\ UNCHANGED missed
           \/ /\ FetchFails(s, t) /\ s \notin done
              /\ GotoWith(s, AfterFetch(s, 1),
                          [loc[s] EXCEPT !.fails = @ + 1, !.tries = 0, !.nativeFailed = TRUE])
              /\ Misses(s, Native)
    /\ UNCHANGED <<cancels, accepted, done, balances, scanState, hub, fresh>>

\* A failed token is announced and the scan goes on with the next one.
FetchTokenBalances(s) ==
    /\ pc[s] = "token"
    /\ LET token == Tokens[loc[s].chain][loc[s].token]
       IN  \E t \in Turns(s, token) :
            /\ TakesTurn(s, t)
            /\ \/ /\ t.answer.err = "none"
                  /\ GotoWith(s, AfterFetch(s, loc[s].token + 1),
                              [loc[s] EXCEPT !.token = @ + 1, !.tries = 0,
                                             !.results = @ \cup t.answer.results])
                  /\ UNCHANGED <<hub, missed>>
               \/ /\ TriesNext(s, t)
                  /\ GotoWith(s, "token", [loc[s] EXCEPT !.tries = @ + 1])
                  /\ UNCHANGED <<hub, missed>>
               \/ /\ FetchFails(s, t) /\ s \in done
                  /\ GotoWith(s, "remove", [loc[s] EXCEPT !.results = {}])
                  /\ UNCHANGED <<hub, missed>>
               \/ /\ FetchFails(s, t) /\ s \notin done
                  /\ GotoWith(s, AfterFetch(s, loc[s].token + 1),
                              [loc[s] EXCEPT !.token = @ + 1, !.tries = 0, !.fails = @ + 1])
                  /\ hub' = Broadcast(hub, [type |-> "scan_token_error", chain |-> loc[s].chain,
                                            scan |-> s])
                  /\ Misses(s, token)
    /\ UNCHANGED <<cancels, accepted, done, balances, scanState, fresh>>

-----------------------------------------------------------------------------
(* The end of a batch and of a scan *)

StoredKeys(results) == {<<r.index, r.asset>> : r \in results}

\* The transaction of a batch commits.
Commits(s, chain) ==
    /\ balances' = UpsertBalanceBatch(balances, chain, loc[s].results)
    /\ fresh' = [fresh EXCEPT ![chain] = @ \cup StoredKeys(loc[s].results)]
    /\ scanState' = UpsertScanState(scanState, chain, BatchEnd(s), loc[s].max, "scanning")

\* Mutant: the position is not part of the transaction that is rolled back.
StoreBatchOutsideMutant(s) ==
    /\ pc[s] = "store"
    /\ LET stored == [loc[s] EXCEPT !.scanned = BatchEnd(s), !.results = {}]
           chain == loc[s].chain
       IN  \/ /\ GotoWith(s, "report", stored)
              /\ Commits(s, chain)
              /\ UNCHANGED used
           \/ /\ Faults(1)
              /\ Ends(s, stored, "failed", "scan_error")
              /\ scanState' = UpsertScanState(scanState, chain, BatchEnd(s), loc[s].max,
                                              "scanning")
              /\ UNCHANGED <<balances, fresh>>
    /\ UNCHANGED <<cancels, accepted, done, pools, health, hub, missed, unwritten>>

\* Balances and position in one transaction, or, with nothing to store because the native
\* fetch failed, the position alone, written again once if the first statement fails.
StoreBatch(s) ==
    /\ pc[s] = "store"
    /\ LET stored == [loc[s] EXCEPT !.scanned = BatchEnd(s), !.results = {}]
           chain == loc[s].chain
           nothing == loc[s].results = {} /\ loc[s].nativeFailed
       IN  \/ /\ GotoWith(s, "report", stored)
              /\ Commits(s, chain)
              /\ UNCHANGED used
           \/ /\ nothing /\ Faults(2)
              /\ GotoWith(s, "report", stored)
              /\ UNCHANGED <<balances, scanState, fresh>>
           \/ /\ ~nothing /\ Faults(1)
              /\ Ends(s, stored, "failed", "scan_error")
              /\ UNCHANGED <<balances, scanState, fresh>>
    /\ UNCHANGED <<cancels, accepted, done, pools, health, hub, missed, unwritten>>

Report(s) ==
    /\ pc[s] = "report"
    /\ \/ /\ loc[s].fails >= MaxConsecutivePoolFails
          /\ Ends(s, loc[s], "failed", "scan_error")
          /\ UNCHANGED hub
       \/ /\ loc[s].fails < MaxConsecutivePoolFails
          /\ hub' = Broadcast(hub, [type |-> "scan_progress", chain |-> loc[s].chain, scan |-> s])
          /\ GotoWith(s, "loop", [loc[s] EXCEPT !.at = NextAt(s)])
    /\ UNCHANGED <<cancels, accepted, done, pools, tableVars, used, ghostVars>>

\* The row as the scan leaves it; an error is logged and passed over.
WriteFinal(s) ==
    /\ pc[s] = "write"
    /\ \/ Writes(s, loc[s].status, TRUE) /\ UNCHANGED used
       \/ Faults(1) /\ Writes(s, loc[s].status, FALSE)
    /\ Goto(s, IF loc[s].event = "none" THEN "remove" ELSE "announce")
    /\ UNCHANGED <<cancels, accepted, loc, done, pools, balances, health, hub, ghostVars>>

\* Mutant: the scan is taken out of the map before its end is announced.
AnnounceAfterRemoveMutant(s) ==
    /\ pc[s] = "announce"
    /\ \/ /\ cancels[loc[s].chain] = s
          /\ cancels' = [cancels EXCEPT ![loc[s].chain] = NoScan]
          /\ UNCHANGED <<pc, hub>>
       \/ /\ cancels[loc[s].chain] # s
          /\ hub' = Broadcast(hub, [type |-> loc[s].event, chain |-> loc[s].chain, scan |-> s])
          /\ Goto(s, "over")
          /\ UNCHANGED cancels
    /\ UNCHANGED <<accepted, loc, done, pools, tableVars, used, ghostVars>>

Announce(s) ==
    /\ pc[s] = "announce"
    /\ hub' = Broadcast(hub, [type |-> loc[s].event, chain |-> loc[s].chain, scan |-> s])
    /\ Goto(s, "remove")
    /\ UNCHANGED <<cancels, accepted, loc, done, pools, tableVars, used, ghostVars>>

\* delete(s.cancels, chain): whatever scan is registered for the chain.  The goroutine
\* returns; its context and its local variables are forgotten.
RemoveScan(s) ==
    /\ pc[s] = "remove"
    /\ cancels' = [cancels EXCEPT ![loc[s].chain] = NoScan]
    /\ GotoWith(s, "over", NewLocals(loc[s].chain, 0))
    /\ done' = done \ {s}
    /\ UNCHANGED <<accepted, pools, tableVars, hub, used, ghostVars>>

ScanStep(s) ==
    \/ Begin(s) \/ LoopHead(s) \/ Backoff(s) \/ Load(s)
    \/ FetchNativeBalances(s) \/ FetchTokenBalances(s) \/ StoreBatch(s) \/ Report(s)
    \/ WriteFinal(s) \/ Announce(s) \/ RemoveScan(s)

-----------------------------------------------------------------------------
(* Requests, the clock, clients and the process *)

\* Mutant: the check for a running scan is left out.
StartScanUncheckedMutant(c, max) ==
    /\ accepted < MaxScans
    /\ accepted' = accepted + 1
    /\ cancels' = [cancels EXCEPT ![c] = accepted + 1]
    /\ GotoWith(accepted + 1, "begin", NewLocals(c, max))
    /\ UNCHANGED <<done, pools, tableVars, hub, used, ghostVars>>

\* POST /api/scan/start that is accepted: the map entry is taken under s.mu.  A request
\* for a chain with a running scan is answered 409 and changes nothing.
StartScan(c, max) ==
    /\ accepted < MaxScans
    /\ cancels[c] = NoScan
    /\ accepted' = accepted + 1
    /\ cancels' = [cancels EXCEPT ![c] = accepted + 1]
    /\ GotoWith(accepted + 1, "begin", NewLocals(c, max))
    /\ UNCHANGED <<done, pools, tableVars, hub, used, ghostVars>>

\* POST /api/scan/stop, and ScanContextTimeout: the context of the running scan is done.
StopScan(c) ==
    /\ cancels[c] # NoScan
    /\ used.stops < MaxStops
    /\ done' = done \cup {cancels[c]}
    /\ used' = [used EXCEPT !.stops = @ + 1]
    /\ UNCHANGED <<cancels, accepted, pc, loc, pools, tableVars, hub, ghostVars>>

\* POST /api/settings/reset-balances, whatever is running.
ResetBalancesHandler ==
    /\ used.resets < MaxResets
    /\ used' = [used EXCEPT !.resets = @ + 1]
    /\ balances' = ResetBalances
    /\ scanState' = ResetScanStates
    /\ missed' = [c \in Chains |-> missed[c] \cup fresh[c]]
    /\ fresh' = [c \in Chains |-> {}]
    /\ UNCHANGED <<scanVars, pools, health, hub, unwritten>>

CooldownPasses(c, j) ==
    /\ pools[c].breakers[j].state = "open" /\ ~pools[c].breakers[j].cooled
    /\ pools' = [pools EXCEPT ![c].breakers[j] = AfterCooldown(@)]
    /\ UNCHANGED <<scanVars, tableVars, hub, used, ghostVars>>

Connect(k) ==
    /\ ~hub[k].in
    /\ hub' = Subscribe(hub, k)
    /\ UNCHANGED <<scanVars, pools, tableVars, used, ghostVars>>

Deliver(k) ==
    /\ hub[k].queue # <<>>
    /\ hub' = Receive(hub, k)
    /\ UNCHANGED <<scanVars, pools, tableVars, used, ghostVars>>

Disconnect(k) ==
    /\ hub[k].in \/ hub[k].queue # <<>>
    /\ hub' = Unsubscribe(hub, k)
    /\ UNCHANGED <<scanVars, pools, tableVars, used, ghostVars>>

\* SIGTERM closes the streams.  The scans go on: their contexts come from Background.
HubStops ==
    /\ \E k \in Clients : hub[k].in
    /\ hub' = CloseAll(hub)
    /\ UNCHANGED <<scanVars, pools, tableVars, used, ghostVars>>

\* The process ends, at any point, and is started again: the goroutines, the map, the
\* pools and the streams are gone, and SetDB writes the health rows, of which some fail.
Restart ==
    /\ used.restarts < MaxRestarts
    /\ pc' = [s \in Scans |-> IF pc[s] = "new" THEN "new" ELSE "over"]
    /\ cancels' = [c \in Chains |-> NoScan]
    /\ pools' = [c \in Chains |-> NewPool(c)]
    /\ hub' = NoClients
    /\ \E lost \in SUBSET Providers :
        /\ used.faults + Cardinality(lost) <= MaxFaults
        /\ used' = [used EXCEPT !.restarts = @ + 1, !.faults = @ + Cardinality(lost)]
        /\ health' = [p \in Providers |-> IF p \in lost THEN health[p] ELSE InitialHealth]
        /\ unwritten' = lost
    /\ loc' = [s \in Scans |-> NewLocals(loc[s].chain, 0)]
    /\ done' = {}
    /\ UNCHANGED <<accepted, balances, scanState, fresh, missed>>

Next ==
    \/ \E s \in Scans : ScanStep(s)
    \/ \E c \in Chains : \/ \E max \in MaxIDs : StartScan(c, max)
                         \/ StopScan(c)
                         \/ \E j \in 1 .. Len(Pools[c]) : CooldownPasses(c, j)
    \/ ResetBalancesHandler
    \/ \E k \in Clients : Connect(k) \/ Deliver(k) \/ Disconnect(k)
    \/ HubStops
    \/ Restart

\* The Go scheduler runs every goroutine: a scan that can take a step takes one.  Provider
\* calls end by ProviderRequestTimeout and the backoff by its timer.
Fairness == \A s \in Scans : WF_vars(ScanStep(s))

Spec == Init /\ [][Next]_vars /\ Fairness

-----------------------------------------------------------------------------
(* Properties *)

\* A goroutine that is alive is the one registered for its chain, so a chain has at most
\* one scan, a stop reaches it, and nothing it writes last is written over a later scan's
\* row (the comment on removeScan, scanner.go:180 and :530).
LiveScanOwnsChain ==
    \A s \in Scans : pc[s] \in Live => cancels[loc[s].chain] = s

\* The position of a row that is not "failed" covers the balances: whatever was asked of
\* an address below it was stored by the row's scan and is still in the table, or its fetch
\* failed in that scan, or a reset deleted it (B4: one transaction).
PositionCoversBalances ==
    \A c \in Chains :
        scanState[c].exists /\ scanState[c].status # "failed" =>
            \A i \in Index, a \in {Native} \cup {Tokens[c][k] : k \in 1 .. Len(Tokens[c])} :
                i < scanState[c].last /\ i < AddressCount[c] =>
                    \/ <<i, a>> \in missed[c]
                    \/ <<i, a>> \in fresh[c] /\ balances[c][<<i, a>>] # "none"

\* A client never reads an event of a scan after one of a later scan of the same chain: the
\* end that finishScan announces is not taken for the end of the scan started after it.
EventsInScanOrder ==
    \A k \in Clients : \A m, n \in 1 .. Len(hub[k].queue) :
        m < n /\ hub[k].queue[m].chain = hub[k].queue[n].chain =>
            hub[k].queue[m].scan <= hub[k].queue[n].scan

\* The provider_health rows, which the providers page shows, agree with the breakers in
\* memory, through scans, failures and restarts, unless a statement of theirs has failed.
HealthFollowsBreakers ==
    \A c \in Chains : \A j \in 1 .. Len(Pools[c]) :
        LET row == health[Pools[c][j]]
            cb == pools[c].breakers[j]
        IN  Pools[c][j] \notin unwritten =>
                row.circuit = cb.state /\ row.fails = cb.fails /\ row.status = StatusOf(cb.state)

\* A chain is scannable again after every scan, however it ends: done, failed, stopped at
\* any point, or after a failed first write.
ScansEnd == \A c \in Chains : cancels[c] # NoScan ~> cancels[c] = NoScan

\* An address whose balances the scans have read and that holds funds is offered to a sweep
\* (provider.go:14: a result with Error set is unreliable; .project/v2/02-plan.md:28: never
\* silently "0" on error).
FundsStayListed ==
    \A c \in Chains : \A key \in OnChain[c] :
        key \in fresh[c] /\ key \notin missed[c]
            => key[1] \in GetFundedAddressesJoined(balances, c, key[2])

=============================================================================
