# HDPay and Poller: formal models

The repository holds two Go programs that share a few packages.

- **Poller** (`src/cmd/poller`, `src/internal/poller`) watches addresses on BTC, BSC and
  SOL for incoming payments, turns a confirmed payment into points of the address, and
  lets a client claim those points.
- **HDPay** (`src/cmd/server`, `src/internal/scanner`, `src/internal/tx`, ...) derives
  addresses from a mnemonic, scans their balances, and sweeps the funds to one address.

Six systems are modelled, each a state machine of its own over the modules of its parts:

- *the poller*: one goroutine per watch, an HTTP API beside them and a startup recovery, over
  a database whose statements are never grouped in a transaction (`Poller`);
- *the provider set* that all poll goroutines of a chain share (`ProviderSet`);
- *the console* of the poller: the allowlist, the tiers and the prices that the process keeps
  in memory of a table, a file and a web service (`Console`);
- *the transfers* of HDPay: the send handlers, the sweeps, their two tables and the reconciler
  that runs after a restart (`SendServer`);
- *the gas pre-seed*, which sends from one address what the sweeps will spend (`GasPreSeed`);
- *the balance scans* with their database, provider pools and event hub (`Scanner`).

The circuit breaker is shared by the provider set and the scanner, as it is in the code.

## 1. Inventory

| Component | State it keeps | Operations | What must be right |
|---|---|---|---|
| Poller database (`internal/poller/pollerdb`) | tables `watches`, `transactions`, `points` (and `ip_allowlist`, `system_errors`), one connection | single statements; no SQL transaction | each statement is right whatever the others did in between |
| Watch lifecycle (`internal/poller/watcher`) | `Watcher.watches` map under a mutex, a context and a goroutine per watch | CreateWatch, CancelWatch, runWatch, Stop | payments credited once; every watch ends; statuses truthful |
| Startup recovery (`watcher/recovery.go`) | locals only | RunRecovery | no row left ACTIVE without a goroutine; no second credit |
| Poller process (`cmd/poller/main.go`) | the phase of main | recovery, serve, Stop, exit | order of shutdown, crash at any point |
| Claim of points (`api/handlers/points.go`, `pollerdb/points.go`) | locals of a request | GetPoints, GetPendingPoints, ClaimPoints | claimed points are points awarded; none lost |
| Watch API (`api/handlers/watch.go`) | none | POST, DELETE, GET | - |
| Poller provider set (`provider/provider.go`) | `ps.current`, a breaker and a rate limiter per provider | executeFetch, ExecuteConfirmation | no provider lost for ever; fair rotation |
| Poller chain providers (`provider/btc.go`, `bsc.go`, `sol.go`) | none | FetchTransactions, CheckConfirmation | what they call confirmed is confirmed |
| Circuit breaker (`internal/scanner/circuit_breaker.go`) | state, failures, half-open count | Allow, RecordSuccess, RecordFailure | admits, trips and closes as documented |
| Points calculator, tiers (`points/`, `admin.go`) | tiers in memory, `tiers.json` | Calculate, Reload, LoadTiers, UpdateTiers | file and memory agree; every amount has one tier |
| Price service (`internal/price`), pricer (`points/pricer.go`) | cached prices and their age | GetPrices, GetTokenPrice with retries | no payment is priced by an old answer |
| Allowlist, sessions (`api/middleware`, `admin.go`, `auth.go`) | cached set of IPs, session map | add, remove, refresh; login, expiry | cache agrees with the table |
| Dashboard, errors page | none | read-only listings; CheckPointsMismatch | the discrepancy check has no false alarm |
| Balance scanner (`internal/scanner/scanner.go`, `db/scans.go`) | running scans, `scan_state` row | StartScan, StopScan, batch loop | a chain has one scan and gets free again; the position never passes a balance that was not stored |
| Scanner pool (`pool.go`) | round-robin counter, breakers, `provider_health` rows | failover | the rows agree with the breakers |
| Scanner providers (`scanner/bscscan.go`, ...) | none | balances of a batch | a failed address is not an empty one |
| SSE hubs (`scanner/sse.go`, `tx/sse.go`) | client channels | Subscribe, Broadcast, Unsubscribe | no blocking; events in order |
| Transaction state (`db/tx_state.go`, `db/transactions.go`) | `tx_state`, `transactions` | create, update, list | status only moves forward |
| BSC, BTC, SOL sweeps (`internal/tx`) | locals, rows of `tx_state` | build, sign, broadcast, await | nothing is sent twice |
| Gas pre-seed (`tx/gas.go`) | locals, rows of `tx_state` | one transfer per entry of the list, retry of a refused nonce | an entry is paid once; the nonces have no gap |
| Reconciler (`tx/reconciler.go`) | none | run at startup | what it concludes is true of the chain |
| Send API (`handlers/send.go`) | a lock per chain | preview, execute, resume | one sweep per chain at a time |
| Key service, wallet (`tx/key_service.go`, `internal/wallet`) | none | BIP-32/44/84, SLIP-10 | deterministic cryptography |
| HDPay database, API, configuration, logging, web UI | tables `addresses`, `balances`, `settings` | listings, settings | - |

How the parts of Poller meet:

- The API handlers and the watch goroutines share the `Watcher.watches` map (under
  `Watcher.mu`) and the database (one connection, one statement at a time).
- A goroutine calls the provider set of its chain; all goroutines of that chain share its
  breakers and its round-robin index.
- `CancelWatch` and `Stop` reach a goroutine through its context only. The goroutine
  notices between two calls, writes the final status itself, then leaves the map.
- `main` runs recovery to its end, then serves; on a signal it calls `Stop` **before** it
  shuts the HTTP server down, so requests still arrive while goroutines are cancelled, and
  goroutines may outlive `Stop` (it waits only `ShutdownTimeout`).

How the parts of HDPay that move funds meet:

- `ExecuteSend` and `ResumeSweep` take the lock of the chain (`TryLock`, or 409). The first
  answers 202 and leaves the sweep, and the lock, to a goroutine with a background context;
  the second runs the sweep in the handler.
- A sweep goes through its addresses (BTC: one transfer for all): it creates a `tx_state`
  row, writes `broadcasting`, broadcasts, writes `confirming` with the hash, inserts the
  history row, and starts a goroutine that waits for the confirmation and writes the verdict
  in both tables. Nobody waits for that goroutine, and the lock does not cover it.
- The reconciler starts beside the HTTP server, lists the rows an earlier process left open
  and settles each, or starts a goroutine of its own to wait for it.
- `main` ends when the HTTP handlers have: sweeps started by `ExecuteSend`, confirmation
  goroutines and the reconciler's are cut off at whatever statement they are.

How the rest meets:

- `StartScan` registers the cancel function of a scan under a mutex and leaves the rest to a
  goroutine with a background context; `finishScan` announces the end to the hub before the
  scan leaves the map, so that the next scan of the chain is announced later. The providers'
  pool writes its breakers' states to `provider_health`, which the providers page reads. A reset
  of the balances may fall into a running scan.
- The gas pre-seed runs inside its HTTP request and takes no lock. It asks one of several nodes
  for the next nonce of the source, while other requests send from it.
- The admin handlers change the table or the file first and then the copy in memory, each a
  step of its own, without a lock around them. All poll goroutines of the poller share the
  price cache; its lock covers a read or a write, not the fetch between them.

What is hard here: steps of several goroutines between the two statements of one of them
(confirm/credit, read/reset, check/insert), failed statements after earlier ones succeeded,
a crash between them and the recovery after it, cancellation racing expiry and completion,
verdicts of provider calls that arrive after the breaker moved on; in the sweeps, a broadcast
whose answer is lost or whose hash is never stored, and up to four writers of one row.
`PROJECT.json` lists
every such hazard at its line, with the properties that cover it or why none does.

## 2. Modules

| Module | Models | Uses |
|---|---|---|
| `PollerDB` | the three tables and every statement that changes them | |
| `Watcher` | `internal/poller/watcher`: CreateWatch, CancelWatch, runWatch, Stop, RunRecovery, and what the chain providers answer | `PollerDB` |
| `Poller` | the process: main, the claim requests, crash and restart; `Next`, fairness, properties | `Watcher` |
| `PaymentLifecycle` | the abstract promise: a payment is seen, confirmed with a fixed award, credited at most once; nothing else moves a total | |
| `CircuitBreaker` | the breaker's methods as functions of its state | |
| `ProviderSet` | `executeFetch` by any number of goroutines over shared breakers and index | `CircuitBreaker` |
| `TxStateDB` | `tx_state` and `transactions` and every statement that changes them | |
| `Sweep` | the handlers and their locks, the three engines, the confirmation goroutines, what the chains may answer | `TxStateDB` |
| `Reconciler` | `ReconcilePending` and the goroutines it launches | `Sweep` |
| `SendServer` | the process: requests, shutdown, exit, crash, restart; `Next`, fairness, properties | `Reconciler` |
| `TransferLifecycle` | the abstract promise: a chain is swept by one request at a time, a transfer is sent once and by its own sweep, fates are final, only mined transfers are called confirmed | |
| `GasPreSeed` | `tx/gas.go`: requests for gas over one source address, its nonces on the chain, replaced transfers | |
| `ScanDB` | `scan_state`, `balances`, `provider_health` and the statements on them | `CircuitBreaker` |
| `ScanProviders` | what each provider of a chain may answer for a batch | `ScanDB` |
| `SSEHub` | the hub's methods as functions of the clients' channels | |
| `Scanner` | the scans, the pools, the handlers, the process; `Next`, fairness, properties | `ScanProviders`, `SSEHub` |
| `Tiers` | validation and matching of tiers | |
| `PriceService` | the price cache | |
| `Console` | admin handlers, pricing of payments, the process; `Next`, properties | `PriceService`, `Tiers` |
| `MCPoller`, `MCProviderSet`, `MCSendServer`, `MCGasPreSeed`, `MCScanner`, `MCConsole` | instances for TLC | |
| `PollerProofs`, `PollerRefinement` | the inductive invariant of `Poller`; that it implements `PaymentLifecycle`, and the ledger that follows | `Poller` |
| `PollerSafety` | the safety properties of `Poller`, from invariants beside that of `PollerProofs` | `PollerRefinement` |
| `ProviderSetProofs` | the inductive invariant of `ProviderSet` | `ProviderSet` |
| `SendProofs` | the two inductive invariants of `SendServer`, its safety properties, the variant of its sweeps, and that it implements `TransferLifecycle` | `SendServer` |
| `ConsoleProofs` | every property of `Console`; that validated tiers split the amounts | `Console` |
| `GasProofs` | every safety property of `GasPreSeed`, and the variant of its requests | `GasPreSeed` |
| `ScannerProofs` | the safety properties of `Scanner`, `FundsStayListed` excepted, and the variant of its scans | `Scanner` |

### Correspondence with the code

*Atomicity.* A step of `Watcher` and `Poller` is one database statement, one provider or
price call, or one critical section of `Watcher.mu`. The database has one open connection
(`SetMaxOpenConns(1)`), so statements are serial; nothing groups two of them. Between any
two steps every other goroutine and handler may run.

*Goroutines.* `g[w]` holds the locals of the CreateWatch call and of the goroutine it
starts, with `pc` naming the statement it is about to run:

| pc | code |
|---|---|
| `limit`, `dup`, `register` | CreateWatch after the limit check, the duplicate check, the insert |
| `start` | `resolveCutoff` |
| `loop` | the `select` over the ticker and `ctx.Done` |
| `dedup`, `insert`, `credit`, `estimate` | `processTransaction` of one transaction of the batch |
| `list`, `confirm`, `move` | `recheckPending` |
| `check` | `checkStopConditions` |
| `finish`, `remove` | `UpdateWatchStatus` on the way out; the deferred `removeWatch` |

*Failures.* A provider or price call may fail at any time. A database statement may fail
too (`DBFault`, bounded by `MaxFaults`), and then takes the error path the code gives it:
usually a log line, so that what the statement should have done is lost. A failed
statement after which the code behaves as if it had not been run is a read that changes
nothing and is not counted twice.

*Time.* `due[w]` says that `ExpiresAt` has passed and `ctx[w] = "deadline"` that the grace
period after it has, too; the deadline never comes first. `now` is only what is written to
`detected_at` and compared with block times.

*Chains.* `onChain[h]` goes from absent to unconfirmed (visible to the explorers) to final
(the confirmation threshold of its chain). `blockTime` is 0 in the BTC mempool. `RawTx`,
`Since`, `FetchResults` and `Confirmable` are the answers of the providers: BSC calls every
mined transaction confirmed, SOL may skip a signature it cannot parse, and a BSC row has no
block number, so its check never confirms it. Reorganisations are not modelled.

*Crash.* `Crash` may happen at any step; `Restart` runs recovery and serves again. Only
the database and the chains survive. A normal exit forgets the same memory, because main
returns whatever is still running. A `watches` row that exists belongs to an id that is
never handed out again (`uuid.New`), so its locals become `done`.

*Ghost state.* `credited[h]` counts how often the points of `h` were added to a total and
`paid[a]` what claimers were told; no guard reads them.

*Provider set.* A step is one critical section of `ps.mu` or of a breaker, the end of a
rate limiter wait, or an answer. `admitted` records in which state the breaker was when it
let a call through; no guard reads it.

*Sweeps.* A request of `SendServer` is one POST and the sweep it starts; `req[q]` holds its
locals, with `pc` naming what comes next:

| pc | code |
|---|---|
| `new`, `retry` | not yet arrived; a resume between its reads and its lock |
| `begin`, `next` | the engine before its loop; the head of the loop over addresses |
| `check`, `build` | the row exists; balances, key, nonce or inputs, fee, signature (BTC writes `pending` again between the two) |
| `send`, `refused` | `broadcasting` is written and the transfer is on its way; it was answered with an error |
| `sent`, `record` | it was accepted; `confirming` is written and the history row is next |
| `unlock`, `done` | the deferred `mu.Unlock`; gone |

A step is one statement or one broadcast together with the reads before it, which change
nothing: what they may answer is a choice. A broadcast is accepted, refused, or accepted and
answered with an error. `poll[r][p]` is the goroutine of the sweep or of the reconciler that
waits for row `r`; the end of its wait and the statement that records the verdict are one
step, because a verdict that was possible stays possible (a timeout always is, and a transfer
that was mined or reverted stays so). The three chains differ in what a timeout, a revert and
a failed query are called, and the reconciler differs from the sweeps again on SOL.

A transfer's hash is named by the row that first sent it. On SOL the blockhash is cached, so a
resume may sign the same bytes and get the same hash; two rows then share it. Amounts,
nonces and inputs are not modelled, nor which node answers: where two rows spend the same
funds, what the second broadcast meets is one of the three answers above.

`lost` and `rec.raced` are history: that an accepted broadcast was reported as an error, and
which rows the reconciler listed while a sweep of its own process had them. Both only say
under which conditions a property is promised.

*Scans.* `pc[s]` names the place of the goroutine of scan `s` in `runScan`; scans are numbered
in the order `StartScan` accepted them, and `cancels[c]` is the entry of the map, which the
code overwrites and deletes by chain:

| pc | code |
|---|---|
| `begin` | StartScan after the map entry: the first row, then `go s.runScan` |
| `loop`, `backoff` | the head of the loop; the wait after a failed fetch |
| `load` | `GetAddressesBatch` |
| `native`, `token` | one turn of a provider in a fetch |
| `store`, `report` | the transaction of the batch; the limit of failures and the progress event |
| `write`, `announce`, `remove` | the last row, the event and `removeScan` on the way out |

A turn of a provider is one step: a pool belongs to one chain, a chain has one scan
(`LiveScanOwnsChain`), and nothing else uses the pool. A provider's answer is what
`ScanProviders` lets it be: for some of them a batch fails as a whole, for others an address is
missing or annotated in an answer that counts as a success. Balances are "0" or "funds".
When the server stops, the hub closes the clients' channels, and what is buffered in them is
still read (`CloseAll`). `fresh` and `missed` say which balances the scan of the row has stored or could not fetch,
`unwritten` for which provider a health statement failed; no guard reads them.

*Gas pre-seed.* A transfer is named by nonce, target and gas price, of which its hash is a
function. `slots[n]` is the transfer that holds nonce `n` of the source: the first, or a later
one with a higher price until the nonce is mined. A node that lags answers a smaller nonce than
the first free one (`LaggingNonces`). A lost answer is a transfer that was taken and an error
that was reported. `by` is history: for which entry of which request's list the transfer was broadcast.
A crash is a request that takes no further step, since nobody else looks at its memory.

*Console.* A worker is one request or one payment being priced at a time. A file write is two
steps, since `os.WriteFile` empties the file first. A price is the time at which CoinGecko
answered it (`asOf`); `age` is what a payment was priced by. `lapsed` is history: that two
changes overlapped, or that one was done by half.

## 3. Runs

| Run | Instance | Properties |
|---|---|---|
| `poller` | two watches of one BTC address, two transactions, one claimer, one crash and restart or one failed statement | `TypeOK`, `MismatchOnlyInFlight`, `NeverOverCredited`, `ClaimedWithinAwarded`, `CompletedMeansSettled`, `ActiveIsPolled`, `ConfirmedMeansFinal`, `TerminalStatusIsFinal`, `ImplementsLifecycle` |
| `poller_live` | one watch, two transactions, a clock of two instants, one crash or shutdown and a restart | `EveryWatchEnds`, `DoneContextLeavesMap` |
| `providerset` | two providers that fail and recover at will, two callers, two cancelled waits | `TypeOK`, `BreakersConsistent`, `BreakerSurvivesFewCancels`, `HealthyProvidersServe` |
| `transfers` | two requests, two addresses, three chains, one failed statement, one crash or shutdown and a restart | `TypeOK`, `ConfirmedIsMined`, `OpenRowsAreWatched`, `HistoryFollows`, `SentIsRecorded`, `StatusMovesForward`, `OpenRowsSettle`, `LocksAreReleased`, `ImplementsTransferLifecycle` |
| `scans` | one BSC chain, two providers, two scans of up to three addresses, two faults, one stop, one reset, one restart, one client | `TypeOK`, `LiveScanOwnsChain`, `PositionCoversBalances`, `EventsInScanOrder`, `HealthFollowsBreakers`, `ScansEnd` |
| `gas` | two requests, one whose list names one target twice and one for another target, two gas prices, one fault | `TypeOK`, `ConfirmedIsPaid`, `NoNonceGap`, `PaidOncePerEntry`, `AttemptsGetVerdicts` |
| `console` | two workers, four pieces of work, two faults, four instants | `TypeOK`, `AllowlistFollowsTable`, `TiersFollowFile`, `AmountsHaveOneTier`, `PricesAreRecent` |
| `poller_claim`, `poller_cutoff`, `providerset_stuck`, `transfers_unhashed`, `scans_erased` | the smallest instance that shows it | one property each, stated by a comment or document and refuted: see section 5 |

Every property of a passing run is also run against a mutant of the code it is about (the
operators named `...Mutant`), and fails there.

### Bounds

- *Two watches, one address.* The races are between two goroutines that poll the same
  address, which two concurrent CreateWatch calls produce; watches of different addresses
  share only the limit. The constraint `RaceOrBatch` explores two watches with one
  transaction, or one watch with two transactions, and not both at once: a race needs one
  transaction seen twice, a batch needs two seen by one watch. The proofs have no such bound.
- *`MaxActiveWatches = 1`* with two ids, so that the limit is at its boundary and the
  unlocked check is passed by both.
- *`OneFailure`*: one restart or one failed statement. What a failure leaves behind (a row
  CONFIRMED and not credited, a row ACTIVE without a goroutine) is already every kind of
  state the error paths can leave; the second failure is covered by the proofs.
- *`PointValues = {0, 1}`*: the code tests `points > 0` only; otherwise it adds.
- *One claimer* in `poller`: with two, `ClaimedWithinAwarded` is false for the reason the
  run `poller_claim` shows.
- *`MaxTime`*: 1 where no property looks at time, 2 where the order of a detection and of a
  block matters.
- *Breakers*: threshold 2, so that a failure short of the threshold exists; half-open limit
  1 as in the code; two cancelled waits, one more than a breaker survives.
- *`transfers`*: four constraints of `MCSendServer` keep the product of races, crashes and
  faults within reach. `InOrder`: the second request comes after the first and concerns the
  same chain and coins; token sweeps come alone. Locks are per chain, so sweeps of two
  chains share nothing. `OneSweepEnds`: in the first process either the reconciler or a second
  request runs beside the first, and in the second process the reconciler runs beside the
  second. `OneMishap`: a failed statement or a dismissal happens to one request in one
  process. `SecondAddress`: a sweep of two addresses is of BSC coins and alone, which is enough
  for the loop and for the lock that covers it. States outside a constraint are not
  explored, so the liveness properties are checked of the behaviours that stay inside. The
  proofs of section 4 have none of these bounds.
- *`scans`*: the two BSC providers differ in their batch size (2 and 1) and in how they fail;
  a request for three addresses of which two exist makes a full batch and an empty one, one for
  a single address ends in its first batch. Two faults reach the limit of consecutive failures,
  a breaker's threshold, and both statements of a turn. Two scans are enough for the end of one
  to meet the start of the next; the second restart or stop repeats the first. A buffer of two
  events overflows. Chains share only the hub and the database, so one is enough.
- *`gas`*: two requests of one source meet in every nonce, and of two prices one replaces the
  other. One list names an address twice, so its two entries differ by their nonce only; that two
  requests have a target in common, and may even sign the same transfer, is left to the proofs,
  which have no bound.
- *`console`*: two workers for every race of two; four pieces of work are two changes, or an
  update, two prices and a crash between them. The clock covers the stale tolerance and the
  time of a fetch. The bodies include tiers of two and three steps, a single one, one with a
  hole and one that overlaps. The proofs have no bound.
- Deadlock is not checked for `SendServer`, `Scanner`, `GasPreSeed` and `Console`: a server
  without requests rests, and requests are bounded.
- Symmetry is used by the runs `poller` (`WatchIDs`, `Hashes`) and `console` (`Workers`) only,
  which check no liveness.
- Deadlock is not checked for `Poller`: with its restarts used up the process really stops.
  It is checked for `ProviderSet`.

### Fairness

`Poller`: weak fairness of each goroutine and CreateWatch call (the Go scheduler), of
`ExpiresAt` and the deadline (timers fire), of recovery, `Serve`, the rest of a shutdown
once begun, and of a restart (the service manager). None for requests, for the chains, for
signals or for crashes. A provider call ends, because the HTTP clients have timeouts.
`ProviderSet`: a poll loop calls again, a waited-for token comes, a provider answers or
times out, time passes. None for failures, recoveries or cancellations.
`SendServer`: weak fairness of each sweep, each confirmation goroutine and the reconciler, of
the end of a shutdown and of a restart. None for requests, users, the chains (a transfer may
stay in the mempool for ever) or crashes. Every wait has a timeout of its own; that a call
to a BSC node ends is an assumption, since that client is built without one.
`Scanner`: weak fairness of each scan's goroutine: provider calls end by
`ProviderRequestTimeout`, the backoff by its timer. `GasPreSeed`: weak fairness of each
request's steps, since the wait for a receipt has a timeout; none for the chain, which need
not mine anything. `Console` states none and checks no liveness.

## 4. Proofs

All for any finite or infinite sets of watches, addresses, transactions, point values and
claimers, any number of faults and restarts, and any clock; for the provider set, any
number of providers, any finite set of callers, any threshold and half-open limit above 0; for
the console, any workers, coins, bodies and durations; for the gas pre-seed, any finite set of
requests and any lists; for the scans, any number of scans, addresses, providers, batch sizes
and clients.

The only assumptions are the `ASSUME`s of the modules: the sentinels are not members of the
sets; point values are naturals; the addresses one transaction pays are of one chain; the
cache duration is positive and not above the stale tolerance; the default tiers are valid; the
provider names are distinct, and a chain read by the BTC providers has no tokens. The lists of a
gas pre-seed are any finite lists, repeated addresses included.

**`PollerProofs`.** `InvHolds`: `Spec => []Inv`, where `Inv` strengthens the type invariant by

- `RowOK`: a row that is not CONFIRMED carries 0 points and has not been credited; a recorded
  row has an address; no row was credited twice;
- `LocalOK`: a goroutine about to credit (`credit`) or to move (`move`) holds a payment that
  is CONFIRMED, not yet credited, worth exactly the points in hand (`Owed`), and recorded by
  its own watch; what it still has to recheck is PENDING and its own;
- `RecOK`: the same of recovery;
- `PhaseOK`: recovery runs in the recovery phase only, and no goroutine does then.

It is needed because crediting once is not visible in the tables alone: after the insert the
row says CONFIRMED whether or not the credit follows, so the promise rests on who may still
perform it. Two goroutines never hold the same payment, since `transactions.watch_id` is
written once and names one of them, and recovery never holds one beside a goroutine, since
main runs it before it serves. The proof has one lemma per action; the actions that write no
transaction (`QuietStep`), the goroutine steps that write their own row (`GoroutineStep`) and
recovery (`RecoveryStep`) share their frame. `TypeCorrect` follows.

**`PollerRefinement`.** `RefinesPaymentLifecycle`: `Spec => ImplementsLifecycle`. The two
kinds of insert, the confirmation and the two kinds of credit map to the five abstract
steps; everything else stutters. With `Inv`, the award credited is the one fixed at the
confirmation and the payee is the address of the row.

`LedgerHolds`, from the refinement: the total of an address is the sum (`SumOf`) of the points
of the transactions credited to it. `Ledger` also says that finitely many transactions were
seen, since the set of all may be infinite and a sum needs a finite one. The sums cannot be
had by the induction theorems of the library, which take the induction hypothesis as an
operator. Instead, a nonempty set of subsets of a finite set has a smallest member
(`SmallestSubset`, as finite sets are well-founded by inclusion), so a smallest set without a
table of its sums would have one put together from those of its subsets
(`SumTableExists`). From the table follow the equation of `SumOf` and its laws: any element
may be taken first (`SumRemove`), a set may be split (`SumSplit`), and its elements renamed
(`SumImage`). `TotalsAreCovered` is the ledger with the credited transactions
among the confirmed.

**`PollerSafety`.** Each property from an invariant of its own, kept by every step on top of
`Inv`:

- `StatusIsFinal` and `ActiveWatchesArePolled` from `StatusInv`: a row that is not ACTIVE
  belongs to no goroutine that is still polling, so nobody is left to overwrite it but the
  goroutine that already decided how its watch ends. The exception the property names,
  `Stop` writing EXPIRED under a goroutine that outlives it, is the one step that breaks
  this, and only in the shutdown phase.
- `ConfirmedTransactionsAreFinal` from `FinalInv`: what a goroutine or recovery carries from
  an earlier answer of a provider as confirmed is final on its chain when it is used, since
  finality is never taken back; BSC is exempt: its provider calls
  every mined transaction confirmed.
- `OneClaimIsWithinAward`, under `OneClaimer` (any two claimers are the same): `ClaimBound`, the
  amount a claim has read is still in the account when it resets it. Without the assumption
  it is false (see `poller_claim`).
- `CompletedWatchesAreSettled` from `SettledInv`: a watch that is COMPLETED, or whose
  goroutine is about to write it, has only CONFIRMED rows and gains no more; and
  (`NothingLost`) until something fails, a confirmed and uncredited row is in the hands of
  the goroutine that will credit it.
- `MismatchIsInFlight` from `Ledger`, `Inv` and `NothingLost`: the confirmed transactions of an
  address are those credited and the rest, and the goroutines between their two statements
  map one to one (`InFlightIsOwed`) onto those of the rest that are worth something.

**`ProviderSetProofs`.** `TypeCorrect`, `BreakersStayConsistent` (closed exactly while below
the threshold, no half-open count outside half-open, whatever late verdicts arrive) and
`FewCancelsAreSurvived`, by counting: a half-open breaker's count plus one is at most the
requests in flight at its provider plus the waits cancelled so far (`SlotsAccountedFor`).

**`SendProofs`.** For any sets of requests and addresses, any number of failed statements and
restarts. `SendInvariant`: `Spec => []Inv`, where `Inv` strengthens the type invariant and
`ConfirmedIsMined` by

- `Locked`: a request between its lock and its unlock is the holder of the lock of its chain;
- `Fresh`: what a request has not broadcast yet is not on the chain, so that a broadcast never
  moves a mined transfer back to the mempool; a request past its broadcast has a hash;
- `Polls`, `Marks`: a goroutine, or the reconciler, between its two statements holds a verdict,
  and one that is true of the chain if it says confirmed.

`ConfirmedIsMined` needs them because its two tables are written by four kinds of writers on
what the chain said earlier: the verdict in hand must still be true when the second statement
runs, which holds because mined is for ever and no later broadcast reuses the hash. Most
steps are `Quiet` (nothing is newly confirmed) and follow from one of three frames:
`RequestFrame` for a step of a request, `SentFrame` for a broadcast, `SettlesFrame` for the
confirmation goroutines and the reconciler. `SendTypesCorrect`, `SweepsAreExclusive` (from
`Locked`: a lock has one holder) and `ConfirmedTransfersAreMined` follow.

The other four properties hold as long as no statement failed, since a failed one is logged
and not repeated. They rest on a second invariant on top of `Inv`, `TaleInv`:
`faults = 0 => Tale`, which says of each row who has it and what they find there:

- `Memory`, `Untouched`, `Known`: a process that ended has nothing in memory; a row
  is created once, since its request has not taken the address yet; the history has only
  transfers of some row;
- `Tracked`: at most one goroutine and one entry of the reconciler have the row, and what
  they hold as its hash is its hash, or they hold none and it has none;
- `Staged`: the statuses the row may have by who has it - pending while the sweep checks,
  broadcasting from before the broadcast until the hash is stored, confirming while somebody waits,
  the verdict while it is told - or dismissed, at any time;
- `Told`: what the history may say of its transfer: nothing or undecided while the row has an
  owner, the verdict when it was told, an undecided status if the process ended in between;
- `Watched`: an open row of a serving process has an owner that will write its verdict.

None of the four is inductive without it: whether a write moves a row forward, or contradicts the
history, is decided by what its writer remembers of an earlier statement. `Staged` and `Told` (`Calm`)
exempt the rows the reconciler listed while a sweep had them (`raced`), as the
properties do: those have two owners, and one fails the row under the other. They also
leave a transfer to itself when a SOL hash is shared by two rows. One lemma per
step (`...Tells`) follows from frames: `OneRow`, a step that touches one row; `WithRow` and
`BetweenRows`, a sweep with a row and without one; `Settling`, the goroutines and the
reconciler. `OpenRowsHaveAnOwner` and `HistoryTellsTheVerdict` are parts of the tale.
`RowsMoveForward` lists every statement (`Statement`, `Writes`) and compares it with
`Staged`. `SentTransfersAreRecorded` is inductive on top: what a request has sent stays with it
until its row and the history have it (`CarriedIsFound`), and no later statement replaces
the hash of a row or empties the history (`RecordsStay`).

`LocksAreHeld` and `SweepsTerminate` are what liveness rests on besides fairness. A chain is
locked only while a sweep of it is between its lock and its unlock (`Held`): no early return, refused
request or end of the process leaves a lock behind. And a sweep never goes round in
circles: each step takes an address out of those left, or with the same addresses goes to a
higher `Stage` of the one in hand. One lemma, `SweepGoesOn`, says both of all engines.

`RefinesTransferLifecycle`: `Spec => ImplementsTransferLifecycle`, whatever statements fail.
The requests between their lock and their unlock are those that sweep the chain, its fates
are `onChain`, and `Called` is what either table calls confirmed. Taking the lock begins a
sweep, which by `Locked` is the only one and by `Fresh` has sent nothing yet (`Begins`);
giving it back ends that sweep; a broadcast sends the transfer of the row for the first time,
or is one a SOL node has in its mempool already (`SendRefines`); the end of a process aborts its
sweeps. Everything else may only report, and by `ConfirmedIsMined` after the step it
reports what was mined before it (`Reports`). The abstract specification does not say what a resume may
send again: that is where the code breaks its promise (`transfers_unhashed`).

**`ConsoleProofs`.** `Inv` is the type invariant with four parts, each about one memory:

- `ListOK`: a worker between its statement and its refresh is the only one, unless `lapsed` says
  so; the list it carries is the table;
- `FileOK`: the same of the file and the tiers an update carries;
- `PriceOK`: an answer is no older than the time it was stored at but for a fetch's duration
  (`CacheOK`), a fetch under way began at most `FetchTimeout` ago (`CallOK`), and a payment
  that was priced keeps the bound of `PricesAreRecent`;
- `WorkersOK`: a stopped process has no worker, and tiers on their way to the file are valid.

The prices are the reason for `CacheOK`: the age check compares with the time of the *store*,
so the bound on the age of the *answer* rests on how long a fetch may take.
`EveryAmountHasOneTier` is about `ValidateTiers` and `MatchTier` for tiers of any number. No
induction rule can be used, so the tier of an amount is found as the last that begins at or
below it, by `LeastNatural`: a set of naturals has a least element, since the intervals `0 .. n`
are finite sets and these are well-founded by inclusion.

**`GasProofs`.** `Inv` strengthens the four properties by

- `LocalOK`: below the nonce of a request all nonces are in use, and its own is once it was
  sent; a hash in hand belongs to the target; a verdict "confirmed" is true of the chain;
- `HeldOK`: a nonce in use carries a transfer for an entry (`by`) that its request is `Past`: it
  moved on, or will not send for it again.

`PaidOncePerEntry` (`EntriesArePaidOnce`) follows from `HeldOK` at the moment of a broadcast: an
earlier transfer of the same request was for an entry it is past, and the entry in hand is not
one of these. Nothing is said of addresses, which a list may repeat. That a
node has a nonce to answer at all is a counting argument (`OneIsFree`): the transfers in use
map one to one into the entries of the lists, and there is a nonce more than those.
`EntersInv` is the only step in which the chain takes a transfer; `QuietStep` and `ChainGrows`
are the frames of the others.

`RequestsTerminate`: a step of a request takes it to a later `Phase`, and in its loop to the next
target, to the second attempt at the same one, or to a higher `Stage` of that. The retry
is why it needs a proof: it goes back to where the first attempt began. It cannot loop since
only a first attempt fetches its nonce again (`RefetchIsFirst`).

**`ScannerProofs`.** `Inv` strengthens the safety properties of `Scanner` by four parts:

- `ScansOK`: the scans accepted so far are those that are not new, and a live one owns its chain;
- `PoolsOK`: the counters, breakers and rows have their types, and the rows agree with the
  breakers;
- `EventsOK`: what waits in a client's queue is of a scan no later than the live one of its
  chain, so that what the live one adds stays in order;
- `PositionOK`: `RowOK`, which is `PositionCoversBalances` of one chain, and `ScanOK`, which is
  what a goroutine carries between its steps.

`PositionCoversBalances` alone is not inductive, because the position is written from the
locals of a goroutine. `ScanOK` says that what a scan may still write as its position covers the
balances (`CoveredBelow`), that a batch begins where the last one ended, and that while the batch is
fetched every address of it has a result in hand or is missed, for each asset asked so far
(`InHand`). When the transaction commits (`StoreBatchInv`), what is in hand becomes rows, and the
position moves to the end of the batch. That this end is the next beginning (`BatchBounds`) needs
the batch size of a pool to be a positive number: the `CHOOSE` of a maximum over the
providers, found by `LargestBatch` without an induction rule. A reset deletes rows under a
running scan; it only makes things missed. Most steps use two frames: `PositionStep` (a step
of one scan leaves the tables of the other chains alone) and `MovesOn` (a turn of a provider
within a batch). The assumptions are that provider names are distinct, which the server relies on
where it keys `provider_health` by them, and that a chain read by the BTC providers has no
tokens, as `buildTokenConfig` leaves it.

`ChainsAreFreed` is the converse of `LiveScanOwnsChain`: an entry of `s.cancels` belongs to a scan
whose goroutine is alive and will delete it. `ScansTerminate` says that this goroutine does not go
round in circles: below the last address a batch begins further up than the one before
(`BatchBounds`), within a batch the token, or the number of providers tried for it, grows up to a
bound, and everything else is further on the way out.

### Only model-checked

- Liveness (`EveryWatchEnds`, `DoneContextLeavesMap`, `HealthyProvidersServe`,
  `OpenRowsSettle`, `LocksAreReleased`, `ScansEnd`, `AttemptsGetVerdicts`): temporal
  reasoning under fairness is out of the prover's reach, and so is ENABLED, that a step can be
  taken. What these properties rest on besides is proved: who still has to act
  (`OpenRowsHaveAnOwner`, `ActiveWatchesArePolled`, `LocksAreHeld`, `ChainsAreFreed`), and that
  those who act come to an end (`SweepsTerminate`, `RequestsTerminate`, `ScansTerminate`: each
  step uses up something of which there is a finite amount; the lexicographic descent from this is an
  induction, and not stated).

Every invariant, action property and refinement of the passing runs is proved.

## 5. Where the code disagrees with its comments and documents

| Run | What it shows |
|---|---|
| `poller_claim` | a credit between the read and the reset of ClaimPoints is lost; two claims report the same points twice |
| `poller_cutoff` | a payment mined before the last detection but not seen by then is skipped by every later watch |
| `providerset_stuck` | calls cancelled in the rate limiter use up the half-open slots; the provider is never asked again |
| `transfers_unhashed` | a crash between a broadcast and the statement that stores the hash leaves a row the reconciler marks failed, "never broadcast", and a resume may send again |
| `scans_erased` | an address that a provider left out of its answer is stored as "0" over what was known, and is not offered to a sweep any more |

Not runs, but worth knowing. Pending points only grow: rows are inserted with 0 points and
the estimate goes to the account only, so the confirmation subtracts 0 (`poll.go:275`). A mined
BSC transaction is credited at its first block (`bsc.go:190`). Two requests test a half-open
provider although the limit is 1 (`circuit_breaker.go:57`). A sweep started by `ExecuteSend`
does not outlive a graceful shutdown (`main.go:197`), nor does a scan (`main.go:189`): both run
on background contexts that nobody waits for. A client that gets `scan_complete` and asks for
the scan at once may be told it is still running, since the event precedes the removal. The
first tier may begin above 0 (`calculator.go:86` says it does not), and amounts below it get no
points.

An address that the list of a gas pre-seed names twice is paid twice. Neither the handler
(`send.go:864`) nor `Execute` looks for repetitions, and the filter that `gas.go:120` calls
idempotency reads the rows of the sweep before the loop (`gas.go:166`), when it has none. The page that
sends the request lists each address once, so this takes another client; `PaidOncePerEntry` is
therefore stated per entry of the list, not per address.

`StatusMovesForward` and `HistoryFollows` are stated with the exceptions the code has and no
document denies: a dismissal does not stop the goroutine that later overwrites it; a failed
statement is logged and never repeated; a row of a running sweep that the reconciler of the
same process lists may be failed under it; two rows may share a SOL hash. `AttemptsGetVerdicts`
looks at every recorded attempt, a refused one and its retry alike, and allows as many open rows
as there were failed statements and calls: such a row stays open until the next start.

## 6. Plan

1. *Done:* `PollerDB`, `Watcher`, `Poller`, `PaymentLifecycle`; `CircuitBreaker`,
   `ProviderSet`; `TxStateDB`, `Sweep`, `Reconciler`, `SendServer`; `ScanDB`, `ScanProviders`,
   `SSEHub`, `Scanner`; `GasPreSeed`; `Tiers`, `PriceService`, `Console`; the theorems of section 4.
2. *Done:* the proofs of every safety property.
3. *Done:* `TransferLifecycle`, which `SendServer` implements. The gas pre-seed does not: it takes
   no lock, so its abstract specification would be one of nonces and replaced transfers.
4. The composition of gas pre-seed and BSC sweep over one source address, with nonces in both.

## 7. Not modelled

Key derivation, address encodings and transaction serialisation (deterministic functions
without state), HTTP clients and JSON, configuration, logging and the web UI, read-only
listings. In the modelled parts:

- *poller*: the error table, pagination and the limit of 20 SOL signatures, the parsing of
  amounts (any value of `PointValues` stands for the points of one), the configured start
  date of the cutoff (the beginning of time), and chain reorganisations;
- *sweeps*: previews, amounts, fees, nonces and inputs (the history of a BTC transfer, one row per
  input, is one row here, inserted by one statement), the choice among nodes, the SSE events,
  and a server configured without BTC explorers, which takes every BTC transfer for confirmed;
- *gas pre-seed*: balances and the preview, the failures of which turn the request away; the filter of targets that an earlier request paid,
  which never removes one because the handler passes no sweep id;
- *scans*: rate limits and `Retry-After`, the health checks at a start, which only log,
  the empty answer of a SOL token
  fetch that derives no token account (the addresses are the program's own, so each has one);
  `ShouldResume`, which nobody calls. A provider is never shown as "degraded", although the
  statement knows the status: a half-open breaker gets its verdict in the same turn;
- *console*: sessions (a map under one lock), the two watch defaults, the floating-point
  arithmetic of points.
