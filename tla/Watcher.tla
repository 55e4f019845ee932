------------------------------ MODULE Watcher ------------------------------
(***************************************************************************)
(* internal/poller/watcher: CreateWatch, CancelWatch, one runWatch         *)
(* goroutine per watch, Stop and RunRecovery, over the tables of PollerDB. *)
(*                                                                         *)
(* A step is one database statement, or one provider or price call, or one *)
(* critical section of Watcher.mu: between any two of them every other     *)
(* goroutine and HTTP handler may run.  A provider or price call that      *)
(* fails and a database statement that fails (DBFault, at most MaxFaults   *)
(* times) take the error path the code gives them.                         *)
(***************************************************************************)
EXTENDS PollerDB

CONSTANTS
    Chain,              \* [Addresses -> {"BTC", "BSC", "SOL"}]
    Pays,               \* [Hashes -> SUBSET Addresses]: whom a transaction pays
    PointValues,        \* what Calculate may return for a transaction
    MaxActiveWatches,   \* Watcher.maxActiveWatches
    MaxTime,            \* bound on the clock
    MaxFaults,          \* bound on failed database statements
    NoRaw               \* no transaction in hand

ASSUME WatcherAssumption ==
    /\ Chain \in [Addresses -> {"BTC", "BSC", "SOL"}]
    /\ Pays \in [Hashes -> SUBSET Addresses]
    /\ \A h \in Hashes : \A a, b \in Pays[h] : Chain[a] = Chain[b]
    /\ PointValues \subseteq Nat
    /\ MaxActiveWatches \in Nat
    /\ MaxTime \in Nat \ {0}
    /\ MaxFaults \in Nat
    /\ NoRaw \notin [hash : Hashes, confirmed : BOOLEAN, time : Nat]

VARIABLES
    registered,     \* keys of the Watcher.watches map
    ctx,            \* [WatchIDs -> state of the goroutine's context]
    due,            \* [WatchIDs -> BOOLEAN]: time.Now() is after ExpiresAt
    g,              \* [WatchIDs -> locals of the CreateWatch call and goroutine]
    rec,            \* locals of RunRecovery
    onChain,        \* [Hashes -> {"absent", "unconfirmed", "final"}]
    blockTime,      \* [Hashes -> Nat]; 0 until the transaction is in a block
    now,            \* the clock
    faults,         \* database statements that have failed
    credited        \* history: how often a hash was added to unclaimed and total

memVars == <<registered, ctx, due, g, rec>>
envVars == <<onChain, blockTime, now>>
watcherVars == <<dbVars, memVars, envVars, faults, credited>>

Raw == [hash : Hashes, confirmed : BOOLEAN, time : Nat]

CallPC == {"idle", "limit", "dup", "register"}
GoroutinePC == {"start", "loop", "dedup", "insert", "credit", "estimate", "list",
                "confirm", "move", "check", "finish", "remove"}
PC == CallPC \cup GoroutinePC \cup {"done"}
RecPC == {"expire", "list", "confirm", "move", "off"}

Locals == [pc : PC, address : Addresses \cup {NoAddress}, batch : SUBSET Raw,
           todo : SUBSET Hashes, cur : Raw \cup {NoRaw}, old : Nat, pts : Nat,
           cutoff : Nat, newStatus : WatchStatus]
RecLocals == [pc : RecPC, todo : SUBSET Hashes, cur : Raw \cup {NoRaw}, old : Nat,
              pts : Nat]

Idle == [pc |-> "idle", address |-> NoAddress, batch |-> {}, todo |-> {}, cur |-> NoRaw,
         old |-> 0, pts |-> 0, cutoff |-> 0, newStatus |-> "NONE"]
RecIdle == [pc |-> "off", todo |-> {}, cur |-> NoRaw, old |-> 0, pts |-> 0]

Max2(m, n) == IF m > n THEN m ELSE n
RawOf(h) == [hash |-> h, confirmed |-> TRUE, time |-> 0]

WatcherTypeOK ==
    /\ DBTypeOK
    /\ registered \subseteq WatchIDs
    /\ ctx \in [WatchIDs -> {"live", "cancelled", "deadline"}]
    /\ due \in [WatchIDs -> BOOLEAN]
    /\ g \in [WatchIDs -> Locals]
    /\ rec \in RecLocals
    /\ onChain \in [Hashes -> {"absent", "unconfirmed", "final"}]
    /\ blockTime \in [Hashes -> Nat]
    /\ now \in Nat
    /\ faults \in Nat
    /\ credited \in [Hashes -> Nat]

WatcherInit ==
    /\ DBInit
    /\ registered = {}
    /\ ctx = [w \in WatchIDs |-> "live"]
    /\ due = [w \in WatchIDs |-> FALSE]
    /\ g = [w \in WatchIDs |-> Idle]
    /\ rec = [RecIdle EXCEPT !.pc = "expire"]
    /\ onChain = [h \in Hashes |-> "absent"]
    /\ blockTime = [h \in Hashes |-> 0]
    /\ now = 1
    /\ faults = 0
    /\ credited = [h \in Hashes |-> 0]

\* A database statement that fails changes nothing but is counted.
DBFault == faults < MaxFaults /\ faults' = faults + 1 /\ UNCHANGED dbVars
DBRead == UNCHANGED <<dbVars, faults>>

Running(w) == g[w].pc \in GoroutinePC
MapVars == <<registered, ctx, due>>
OnlyG == UNCHANGED <<MapVars, rec, envVars>>

-----------------------------------------------------------------------------
(* CreateWatch: limit check, duplicate check, insert, registration.  Only   *)
(* the map accesses are under Watcher.mu.                                  *)

CheckLimit(w, a) ==
    /\ g[w].pc = "idle"
    /\ Cardinality(registered) < MaxActiveWatches
    /\ g' = [g EXCEPT ![w].pc = "limit", ![w].address = a]
    /\ DBRead /\ OnlyG /\ UNCHANGED credited

\* A duplicate, or a failed read, ends the call with an error.
CheckDuplicate(w) ==
    /\ g[w].pc = "limit"
    /\ \/ /\ ~ HasActiveWatch(g[w].address)
          /\ g' = [g EXCEPT ![w].pc = "dup"]
          /\ DBRead
       \/ /\ HasActiveWatch(g[w].address)
          /\ g' = [g EXCEPT ![w] = Idle]
          /\ DBRead
       \/ /\ DBFault
          /\ g' = [g EXCEPT ![w] = Idle]
    /\ OnlyG /\ UNCHANGED credited

InsertWatch(w) ==
    /\ g[w].pc = "dup"
    /\ \/ /\ CreateWatchRow(w, g[w].address)
          /\ g' = [g EXCEPT ![w].pc = "register"]
          /\ UNCHANGED faults
       \/ /\ DBFault
          /\ g' = [g EXCEPT ![w] = Idle]
    /\ OnlyG /\ UNCHANGED credited

\* context.WithTimeout, the map entry, wg.Add and the go statement.
Register(w) ==
    /\ g[w].pc = "register"
    /\ registered' = registered \cup {w}
    /\ g' = [g EXCEPT ![w].pc = "start"]
    /\ DBRead /\ UNCHANGED <<ctx, due, rec, envVars, credited>>

\* CancelWatch of a registered watch; any other call only reads.
CancelWatch(w) ==
    /\ w \in registered
    /\ ctx[w] = "live"
    /\ ctx' = [ctx EXCEPT ![w] = "cancelled"]
    /\ DBRead /\ UNCHANGED <<registered, due, g, rec, envVars, credited>>

-----------------------------------------------------------------------------
(* What the provider set of an address's chain answers.                    *)

\* Mutant: the status of the chain is not looked at.
RawTxAlwaysConfirmedMutant(a, h) ==
    [hash |-> h, confirmed |-> TRUE, time |-> blockTime[h]]

\* BSC reports every mined transaction as confirmed; BTC and SOL report the
\* state of the chain.
RawTx(a, h) == [hash |-> h,
                confirmed |-> Chain[a] = "BSC" \/ onChain[h] = "final",
                time |-> blockTime[h]]

\* Transactions older than the cutoff are dropped; one without a block time
\* (BTC mempool) never is.
Since(a, cutoff) ==
    {h \in Hashes : /\ a \in Pays[h]
                    /\ onChain[h] # "absent"
                    /\ blockTime[h] = 0 \/ blockTime[h] >= cutoff}

\* SOL skips a signature whose transaction it fails to fetch or parse.
FetchResults(a, cutoff) ==
    LET found == {RawTx(a, h) : h \in Since(a, cutoff)}
    IN  IF Chain[a] = "SOL" THEN SUBSET found ELSE {found}

\* CheckConfirmation: the BSC check needs a block number, and no BSC row has one.
Confirmable(h) ==
    Chain[transactions[h].address] # "BSC" /\ onChain[h] = "final"

-----------------------------------------------------------------------------
(* runWatch *)

\* resolveCutoff: MAX(last detected_at, startDate), startDate being 0 here.
Start(w) ==
    /\ g[w].pc = "start"
    /\ \/ /\ g' = [g EXCEPT ![w].pc = "loop",
                            ![w].cutoff = LastDetectedAt(g[w].address)]
          /\ DBRead
       \/ /\ DBFault
          /\ g' = [g EXCEPT ![w].pc = "loop", ![w].cutoff = 0]
    /\ OnlyG /\ UNCHANGED credited

\* Mutant: the goroutine returns without UpdateWatchStatus.
ContextDoneSilentMutant(w) ==
    /\ g[w].pc = "loop"
    /\ ctx[w] # "live"
    /\ g' = [g EXCEPT ![w].pc = "remove"]
    /\ DBRead /\ OnlyG /\ UNCHANGED credited

\* Mutant: only the deadline is noticed, not CancelWatch.
ContextDoneDeadlineOnlyMutant(w) ==
    /\ g[w].pc = "loop"
    /\ ctx[w] = "deadline"
    /\ g' = [g EXCEPT ![w].pc = "finish", ![w].newStatus = "EXPIRED"]
    /\ DBRead /\ OnlyG /\ UNCHANGED credited

\* select took ctx.Done; the status is that of determineStopStatus.
ContextDone(w) ==
    /\ g[w].pc = "loop"
    /\ ctx[w] # "live"
    /\ g' = [g EXCEPT ![w].pc = "finish",
                      ![w].newStatus = IF ctx[w] = "deadline" THEN "EXPIRED"
                                       ELSE "CANCELLED"]
    /\ DBRead /\ OnlyG /\ UNCHANGED credited

\* select took the ticker: ExecuteFetch.  Under a finished context the fetch
\* fails and the loop continues, which changes nothing.
Tick(w) ==
    /\ g[w].pc = "loop"
    /\ ctx[w] = "live"
    /\ \/ \E batch \in FetchResults(g[w].address, g[w].cutoff) :
             g' = [g EXCEPT ![w].pc = IF batch = {} THEN "list" ELSE "dedup",
                            ![w].batch = batch]
       \/ g' = [g EXCEPT ![w].pc = "list"]              \* fetch_error
    /\ DBRead /\ OnlyG /\ UNCHANGED credited

\* The loop over the batch goes on after r; its block time moves the cutoff
\* only if processTransaction returned no error.
AfterRaw(w, rest, r, ok) ==
    g' = [g EXCEPT ![w].pc = IF rest = {} THEN "list" ELSE "dedup",
                   ![w].batch = rest,
                   ![w].cur = NoRaw,
                   ![w].pts = 0,
                   ![w].cutoff = IF ok THEN Max2(@, r.time) ELSE @]

\* processTransaction: GetByTxHash, then GetOrCreatePoints.
Dedup(w) ==
    /\ g[w].pc = "dedup"
    /\ \E r \in g[w].batch :
          \/ /\ Recorded(r.hash)
             /\ AfterRaw(w, g[w].batch \ {r}, r, TRUE)
             /\ DBRead
          \/ /\ ~ Recorded(r.hash)
             /\ g' = [g EXCEPT ![w].pc = "insert", ![w].cur = r, ![w].batch = @ \ {r}]
             /\ DBRead
          \/ /\ DBFault
             /\ AfterRaw(w, g[w].batch \ {r}, r, FALSE)
    /\ OnlyG /\ UNCHANGED credited

InsertConfirmed(w, r) ==
    /\ r.confirmed
    /\ \E p \in PointValues :
          /\ InsertTransaction(r.hash, w, g[w].address, "CONFIRMED", p, now)
          /\ IF p > 0 THEN g' = [g EXCEPT ![w].pc = "credit", ![w].pts = p]
             ELSE AfterRaw(w, g[w].batch, r, TRUE)

\* GetTokenPrice failed: the transaction is kept PENDING and no estimate made.
InsertUnpriced(w, r) ==
    /\ r.confirmed
    /\ InsertTransaction(r.hash, w, g[w].address, "PENDING", 0, now)
    /\ AfterRaw(w, g[w].batch, r, TRUE)

\* The row keeps 0 points: the estimate is made after the insert.
InsertPending(w, r) ==
    /\ ~ r.confirmed
    /\ InsertTransaction(r.hash, w, g[w].address, "PENDING", 0, now)
    /\ \/ \E p \in PointValues \ {0} :
             g' = [g EXCEPT ![w].pc = "estimate", ![w].pts = p]
       \/ AfterRaw(w, g[w].batch, r, TRUE)

\* The insert fails: the hash was recorded since the dedup read, or a fault.
InsertFails(w, r) ==
    /\ \/ Recorded(r.hash) /\ DBRead
       \/ DBFault
    /\ AfterRaw(w, g[w].batch, r, FALSE)

Insert(w) ==
    /\ g[w].pc = "insert"
    /\ LET r == g[w].cur
       IN  \/ InsertConfirmed(w, r) /\ UNCHANGED faults
           \/ InsertUnpriced(w, r) /\ UNCHANGED faults
           \/ InsertPending(w, r) /\ UNCHANGED faults
           \/ InsertFails(w, r)
    /\ OnlyG /\ UNCHANGED credited

\* AddUnclaimed after a confirmed insert; an error is only logged.
Credit(w) ==
    /\ g[w].pc = "credit"
    /\ \/ /\ AddUnclaimed(g[w].address, g[w].pts)
          /\ credited' = [credited EXCEPT ![g[w].cur.hash] = @ + 1]
          /\ UNCHANGED faults
       \/ DBFault /\ UNCHANGED credited
    /\ AfterRaw(w, g[w].batch, g[w].cur, TRUE)
    /\ OnlyG

\* AddPending of the estimate; an error is only logged.
Estimate(w) ==
    /\ g[w].pc = "estimate"
    /\ \/ AddPending(g[w].address, g[w].pts) /\ UNCHANGED faults
       \/ DBFault
    /\ AfterRaw(w, g[w].batch, g[w].cur, TRUE)
    /\ OnlyG /\ UNCHANGED credited

\* recheckPending, from its list of the watch's own PENDING rows ...
ListPendingOfWatch(w) ==
    /\ g[w].pc = "list"
    /\ LET pending == ListPendingByWatchID(w)
       IN  \/ /\ g' = [g EXCEPT ![w].pc = IF pending = {} THEN "check" ELSE "confirm",
                                ![w].todo = pending]
              /\ DBRead
           \/ /\ DBFault
              /\ g' = [g EXCEPT ![w].pc = "check"]
    /\ OnlyG /\ UNCHANGED credited

NextPending(w, rest) ==
    g' = [g EXCEPT ![w].pc = IF rest = {} THEN "check" ELSE "confirm",
                   ![w].todo = rest, ![w].cur = NoRaw,
                   ![w].old = 0, ![w].pts = 0]

\* ... over ExecuteConfirmation, GetTokenPrice and UpdateToConfirmed ...
Confirm(w) ==
    /\ g[w].pc = "confirm"
    /\ \/ /\ ctx[w] # "live"                    \* return ctx.Err()
          /\ NextPending(w, {})
          /\ DBRead
       \/ /\ ctx[w] = "live"
          /\ \E h \in g[w].todo :
                \/ /\ NextPending(w, g[w].todo \ {h})   \* not confirmed, or an error
                   /\ DBRead
                \/ /\ Confirmable(h)
                   /\ \E p \in PointValues :
                         /\ UpdateToConfirmed(h, p)
                         /\ g' = [g EXCEPT ![w].pc = "move", ![w].todo = @ \ {h},
                                           ![w].cur = RawOf(h), ![w].pts = p,
                                           ![w].old = transactions[h].points]
                   /\ UNCHANGED faults
    /\ OnlyG /\ UNCHANGED credited

\* ... to MovePendingToUnclaimed, whose error is only logged.
Move(w) ==
    /\ g[w].pc = "move"
    /\ LET h == g[w].cur.hash
       IN  \/ /\ MovePendingToUnclaimed(transactions[h].address, g[w].old, g[w].pts)
              /\ credited' = [credited EXCEPT ![h] = @ + 1]
              /\ UNCHANGED faults
           \/ DBFault /\ UNCHANGED credited
    /\ NextPending(w, g[w].todo)
    /\ OnlyG

\* Mutant: the pending count is not looked at.
CheckStopAnyTxMutant(w) ==
    /\ g[w].pc = "check"
    /\ g' = IF TxsOfWatch(w) # {}
            THEN [g EXCEPT ![w].pc = "finish", ![w].newStatus = "COMPLETED"]
            ELSE [g EXCEPT ![w].pc = "loop"]
    /\ DBRead /\ OnlyG /\ UNCHANGED credited

\* checkStopConditions, expiry first.
CheckStop(w) ==
    /\ g[w].pc = "check"
    /\ \/ /\ due[w]
          /\ g' = [g EXCEPT ![w].pc = "finish", ![w].newStatus = "EXPIRED"]
          /\ DBRead
       \/ /\ ~ due[w]
          /\ g' = IF TxsOfWatch(w) # {} /\ ListPendingByWatchID(w) = {}
                  THEN [g EXCEPT ![w].pc = "finish", ![w].newStatus = "COMPLETED"]
                  ELSE [g EXCEPT ![w].pc = "loop"]
          /\ DBRead
       \/ /\ ~ due[w]
          /\ DBFault
          /\ g' = [g EXCEPT ![w].pc = "loop"]
    /\ OnlyG /\ UNCHANGED credited

\* UpdateWatchStatus on either way out of the loop; an error is only logged.
Finish(w) ==
    /\ g[w].pc = "finish"
    /\ \/ UpdateWatchStatus(w, g[w].newStatus) /\ UNCHANGED faults
       \/ DBFault
    /\ g' = [g EXCEPT ![w].pc = "remove"]
    /\ OnlyG /\ UNCHANGED credited

\* The deferred removeWatch and wg.Done.
RemoveWatch(w) ==
    /\ g[w].pc = "remove"
    /\ registered' = registered \ {w}
    /\ ctx' = [ctx EXCEPT ![w] = "live"]
    /\ due' = [due EXCEPT ![w] = FALSE]
    /\ g' = [g EXCEPT ![w] = [Idle EXCEPT !.pc = "done"]]
    /\ DBRead /\ UNCHANGED <<rec, envVars, credited>>

-----------------------------------------------------------------------------
(* Stop *)

\* Every registered context is cancelled under Watcher.mu.
CancelAll ==
    /\ ctx' = [w \in WatchIDs |-> IF w \in registered /\ ctx[w] = "live"
                                  THEN "cancelled" ELSE ctx[w]]
    /\ DBRead /\ UNCHANGED <<registered, due, g, rec, envVars, credited>>

\* wg.Wait returned, or ShutdownTimeout passed; the error is only logged.
StopExpire ==
    /\ \/ ExpireAllActiveWatches /\ UNCHANGED faults
       \/ DBFault
    /\ UNCHANGED <<memVars, envVars, credited>>

-----------------------------------------------------------------------------
(* RunRecovery.  Its retries of one transaction end in a confirmation or in *)
(* giving up; RecoveryTimeout, or an error, ends it early.                 *)

RecoveryFrame == UNCHANGED <<MapVars, g, envVars>>

\* Mutant: recovery starts with the pending transactions.
RecoveryWithoutExpireMutant ==
    /\ rec.pc = "expire"
    /\ rec' = [rec EXCEPT !.pc = "list"]
    /\ DBRead /\ RecoveryFrame /\ UNCHANGED credited

RecoveryExpire ==
    /\ rec.pc = "expire"
    /\ \/ ExpireAllActiveWatches /\ UNCHANGED faults /\ rec' = [rec EXCEPT !.pc = "list"]
       \/ DBFault /\ rec' = RecIdle
    /\ RecoveryFrame /\ UNCHANGED credited

RecoveryTodo(rest) ==
    rec' = IF rest = {} THEN RecIdle
           ELSE [RecIdle EXCEPT !.pc = "confirm", !.todo = rest]

\* Mutant: every transaction is checked again, not only the PENDING ones.
RecoveryListAllMutant ==
    /\ rec.pc = "list"
    /\ RecoveryTodo({h \in Hashes : Recorded(h)})
    /\ DBRead /\ RecoveryFrame /\ UNCHANGED credited

RecoveryList ==
    /\ rec.pc = "list"
    /\ \/ RecoveryTodo(ListPending) /\ DBRead
       \/ RecoveryTodo({}) /\ DBFault
    /\ RecoveryFrame /\ UNCHANGED credited

RecoveryConfirm ==
    /\ rec.pc = "confirm"
    /\ \/ RecoveryTodo({}) /\ DBRead                    \* cancelled by the timeout
       \/ \E h \in rec.todo :
             \/ RecoveryTodo(rec.todo \ {h}) /\ DBRead  \* unresolved after all retries
             \/ /\ Confirmable(h)
                /\ \E p \in PointValues :
                      /\ UpdateToConfirmed(h, p)
                      /\ rec' = [pc |-> "move", todo |-> rec.todo \ {h}, cur |-> RawOf(h),
                                 old |-> transactions[h].points, pts |-> p]
                /\ UNCHANGED faults
    /\ RecoveryFrame /\ UNCHANGED credited

RecoveryMove ==
    /\ rec.pc = "move"
    /\ LET h == rec.cur.hash
       IN  \/ /\ MovePendingToUnclaimed(transactions[h].address, rec.old, rec.pts)
              /\ credited' = [credited EXCEPT ![h] = @ + 1]
              /\ UNCHANGED faults
           \/ DBFault /\ UNCHANGED credited
    /\ RecoveryTodo(rec.todo)
    /\ RecoveryFrame

-----------------------------------------------------------------------------
(* Time and the chains *)

ClockTick ==
    /\ now < MaxTime
    /\ now' = now + 1
    /\ DBRead /\ UNCHANGED <<memVars, onChain, blockTime, credited>>

\* ExpiresAt passes ...
Expire(w) ==
    /\ Running(w) /\ ~ due[w]
    /\ due' = [due EXCEPT ![w] = TRUE]
    /\ DBRead /\ UNCHANGED <<registered, ctx, g, rec, envVars, credited>>

\* ... and WatchContextGracePeriod later the context's deadline does.
Deadline(w) ==
    /\ Running(w) /\ due[w] /\ ctx[w] = "live"
    /\ ctx' = [ctx EXCEPT ![w] = "deadline"]
    /\ DBRead /\ UNCHANGED <<registered, due, g, rec, envVars, credited>>

\* A transaction becomes visible to the explorers: from the mempool on BTC,
\* once in a block on BSC and SOL.
Appear(h) ==
    /\ onChain[h] = "absent"
    /\ onChain' = [onChain EXCEPT ![h] = "unconfirmed"]
    /\ blockTime' = [blockTime EXCEPT ![h] =
           IF \E a \in Pays[h] : Chain[a] = "BTC" THEN 0 ELSE now]
    /\ DBRead /\ UNCHANGED <<memVars, now, credited>>

\* The confirmation threshold of its chain: one block on BTC, 12 on BSC,
\* finalized on SOL.
Finalize(h) ==
    /\ onChain[h] = "unconfirmed"
    /\ onChain' = [onChain EXCEPT ![h] = "final"]
    /\ blockTime' = [blockTime EXCEPT ![h] = IF @ = 0 THEN now ELSE @]
    /\ DBRead /\ UNCHANGED <<memVars, now, credited>>

=============================================================================
