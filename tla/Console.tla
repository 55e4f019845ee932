------------------------------ MODULE Console ------------------------------
(***************************************************************************)
(* The admin API of the poller and the pricing of payments: what the       *)
(* process keeps in memory of a table (the IP allowlist), of a file (the   *)
(* tiers) and of a web service (the prices), and the requests and poll     *)
(* goroutines that use and replace it.                                     *)
(*                                                                         *)
(* A worker serves one request, or prices one payment, at a time; which,   *)
(* it chooses when it begins.  Requests come with a live session: the      *)
(* session store is one map under one lock and is not modelled.            *)
(***************************************************************************)
EXTENDS PriceService, Tiers, FiniteSets

CONSTANTS
    Workers,
    Priced,             \* the coins that payments are made in
    IPs,                \* public addresses of clients
    TierInputs,         \* bodies of PUT /api/admin/tiers
    DefaultTiers,       \* what the first start writes to the tiers file
    PriceRetryCount,
    MaxWork,            \* bound on requests and payments
    MaxTime,            \* bound on the clock
    MaxFaults           \* bound on failed statements, writes and fetches, and on crashes

ASSUME ConsoleAssumption ==
    /\ Priced \subseteq Coins
    /\ TierInputs \subseteq Seq(Tier)
    /\ DefaultTiers \in Seq(Tier) /\ ValidateTiers(DefaultTiers)
    /\ PriceRetryCount \in Nat \ {0}
    /\ MaxWork \in Nat /\ MaxTime \in Nat /\ MaxFaults \in Nat

VARIABLES
    up,         \* is the process serving?
    pc,         \* [Workers -> where it is]
    loc,        \* [Workers -> its locals]
    table,      \* ip_allowlist
    allowlist,  \* the cache of it
    file,       \* tiers.json; empty when it cannot be parsed
    tiers,      \* those of the calculator
    lapsed,     \* history: what was changed twice at once, or only by half, since the start
    now, work, faults

memoryVars == <<allowlist, tiers, lapsed>>
storedVars == <<table, file>>
boundVars == <<now, work, faults>>
vars == <<up, pc, loc, memoryVars, storedVars, priceVars, boundVars>>

PC == {"idle", "refresh list", "replace list", "truncate", "write", "reload",
       "prices", "fetch", "store", "fallback", "pause"}

Locals == [ips : SUBSET IPs, tiers : TierInputs \cup {<<>>}, coin : Coins, attempt : Nat,
           began : Nat, failed : BOOLEAN, answer : Answer, age : Nat]

NoLocals == [ips |-> {}, tiers |-> <<>>, coin |-> CHOOSE c \in Coins : TRUE, attempt |-> 1,
             began |-> 0, failed |-> FALSE, answer |-> NoAnswer, age |-> 0]

TypeOK ==
    /\ up \in BOOLEAN
    /\ pc \in [Workers -> PC]
    /\ loc \in [Workers -> Locals]
    /\ table \subseteq IPs /\ allowlist \subseteq IPs
    /\ file \in TierInputs \cup {DefaultTiers, <<>>}
    /\ ValidateTiers(tiers)
    /\ lapsed \subseteq {"list", "tiers"}
    /\ cache \in Answer /\ cachedAt \in 0 .. now /\ stale \in BOOLEAN
    /\ now \in 0 .. MaxTime /\ work \in 0 .. MaxWork /\ faults \in 0 .. MaxFaults

Init ==
    /\ up = TRUE
    /\ pc = [w \in Workers |-> "idle"] /\ loc = [w \in Workers |-> NoLocals]
    /\ table = {} /\ allowlist = {}
    /\ file = DefaultTiers /\ tiers = DefaultTiers
    /\ lapsed = {}
    /\ NewPriceService
    /\ now = 0 /\ work = 0 /\ faults = 0

Goto(w, next) == pc' = [pc EXCEPT ![w] = next]
GotoWith(w, next, locals) == Goto(w, next) /\ loc' = [loc EXCEPT ![w] = locals]
Done(w) == GotoWith(w, "idle", NoLocals)

Fault == faults < MaxFaults /\ faults' = faults + 1
NewWork == up /\ work < MaxWork /\ work' = work + 1
Others(w, places) == \E v \in Workers \ {w} : pc[v] \in places

-----------------------------------------------------------------------------
(* The allowlist *)

\* Clients of a private network, and those of the cached list, are served.
IsAllowed(ip) == ip = "private" \/ ip \in allowlist

Changing == {"refresh list", "replace list"}

\* An entry is known by its address, of which there is one.  A removal by id may find it or
\* not, whatever was removed and added again before.
AddIP(ip) == ip \notin table /\ table' = table \cup {ip}
RemoveIP(ip) == ip \in table /\ table' = table \ {ip}

\* A handler goes on to refresh the cache; one whose statement fails changes nothing.
Changed(w) ==
    /\ GotoWith(w, "refresh list", NoLocals)
    /\ lapsed' = IF Others(w, Changing) THEN lapsed \cup {"list"} ELSE lapsed
    /\ UNCHANGED <<up, allowlist, file, tiers, priceVars, now, faults>>

AddAllowlist(w) ==
    /\ pc[w] = "idle" /\ NewWork
    /\ \E client \in IPs \cup {"private"} : IsAllowed(client)
    /\ \E ip \in IPs : AddIP(ip)
    /\ Changed(w)

RemoveAllowlist(w) ==
    /\ pc[w] = "idle" /\ NewWork
    /\ \E client \in IPs \cup {"private"} : IsAllowed(client)
    /\ \E ip \in IPs : RemoveIP(ip)
    /\ Changed(w)

\* refreshAllowlistCache: a load that fails leaves the cache as it is.
LoadAllIPs(w) ==
    /\ pc[w] = "refresh list"
    /\ \/ GotoWith(w, "replace list", [loc[w] EXCEPT !.ips = table]) /\ UNCHANGED <<lapsed, faults>>
       \/ Fault /\ Done(w) /\ lapsed' = lapsed \cup {"list"}
    /\ UNCHANGED <<up, allowlist, tiers, storedVars, priceVars, now, work>>

\* Mutant: the new list is added to the cache and does not replace it.
RefreshAddsMutant(w) ==
    /\ pc[w] = "replace list"
    /\ allowlist' = allowlist \cup loc[w].ips
    /\ Done(w)
    /\ UNCHANGED <<up, tiers, lapsed, storedVars, priceVars, boundVars>>

Refresh(w) ==
    /\ pc[w] = "replace list"
    /\ allowlist' = loc[w].ips
    /\ Done(w)
    /\ UNCHANGED <<up, tiers, lapsed, storedVars, priceVars, boundVars>>

-----------------------------------------------------------------------------
(* The tiers *)

Updating == {"truncate", "write", "reload"}

\* UpdateTiersHandler: tiers that are not valid change nothing.
PutTiers(w) ==
    /\ pc[w] = "idle" /\ NewWork
    /\ \E input \in TierInputs :
          IF ValidateTiers(input)
          THEN GotoWith(w, "truncate", [NoLocals EXCEPT !.tiers = input])
          ELSE UNCHANGED <<pc, loc>>
    /\ UNCHANGED <<up, memoryVars, storedVars, priceVars, now, faults>>

\* os.WriteFile empties the file, or fails to open it.
TruncateFile(w) ==
    /\ pc[w] = "truncate"
    /\ \/ file' = <<>> /\ Goto(w, "write") /\ UNCHANGED <<loc, faults>>
       \/ Fault /\ Done(w) /\ UNCHANGED file
    /\ lapsed' = IF Others(w, Updating) THEN lapsed \cup {"tiers"} ELSE lapsed
    /\ UNCHANGED <<up, allowlist, tiers, table, priceVars, now, work>>

\* Mutant: a file that could not be written is logged, as a failed refresh is.
WriteFileIgnoredMutant(w) ==
    /\ pc[w] = "write"
    /\ \/ /\ \/ file' = loc[w].tiers
             \/ file # <<>> /\ file' = <<>>
          /\ Goto(w, "reload") /\ UNCHANGED <<loc, lapsed, faults>>
       \/ Fault /\ Goto(w, "reload") /\ UNCHANGED <<loc, lapsed, file>>
    /\ UNCHANGED <<up, allowlist, tiers, table, priceVars, now, work>>

\* The text goes to the start of the file: over a longer one of another request it makes
\* no sense.  A write that fails leaves the file cut off.
WriteFile(w) ==
    /\ pc[w] = "write"
    /\ \/ /\ \/ file' = loc[w].tiers
             \/ file # <<>> /\ file' = <<>>
          /\ Goto(w, "reload") /\ UNCHANGED <<loc, lapsed, faults>>
       \/ Fault /\ Done(w) /\ file' = <<>> /\ lapsed' = lapsed \cup {"tiers"}
    /\ UNCHANGED <<up, allowlist, tiers, table, priceVars, now, work>>

\* Reload validates the tiers again: they are those that were found valid.
Reload(w) ==
    /\ pc[w] = "reload"
    /\ tiers' = loc[w].tiers
    /\ Done(w)
    /\ UNCHANGED <<up, allowlist, lapsed, storedVars, priceVars, boundVars>>

-----------------------------------------------------------------------------
(* Prices *)

\* GetTokenPrice for a coin; stablecoins have a fixed price and change nothing.
GetTokenPrice(w) ==
    /\ pc[w] = "idle" /\ NewWork
    /\ \E coin \in Priced : GotoWith(w, "prices", [NoLocals EXCEPT !.coin = coin])
    /\ UNCHANGED <<up, memoryVars, storedVars, priceVars, now, faults>>

\* A price that the answer has is used.  One it lacks is asked for again after a pause, up
\* to PriceRetryCount attempts.
Uses(w, answer) ==
    IF loc[w].coin \in answer.coins
    THEN GotoWith(w, "idle", [NoLocals EXCEPT !.age = now - answer.asOf, !.failed = loc[w].failed])
    ELSE IF loc[w].attempt < PriceRetryCount THEN Goto(w, "pause") /\ UNCHANGED loc ELSE Done(w)

ReadCache(w) ==
    /\ pc[w] = "prices"
    /\ IF CacheHit(now) THEN Uses(w, cache)
       ELSE GotoWith(w, "fetch", [loc[w] EXCEPT !.began = now])
    /\ UNCHANGED <<up, memoryVars, storedVars, priceVars, boundVars>>

\* CoinGecko answers, perhaps not for every coin, or the request fails.
FetchPrices(w) ==
    /\ pc[w] = "fetch"
    /\ \/ /\ \E coins \in SUBSET Coins :
                GotoWith(w, "store", [loc[w] EXCEPT !.answer = [coins |-> coins, asOf |-> now]])
          /\ UNCHANGED faults
       \/ Fault /\ GotoWith(w, "fallback", [loc[w] EXCEPT !.failed = TRUE])
    /\ UNCHANGED <<up, memoryVars, storedVars, priceVars, now, work>>

StorePrices(w) ==
    /\ pc[w] = "store"
    /\ Store(loc[w].answer, now)
    /\ Uses(w, loc[w].answer)
    /\ UNCHANGED <<up, memoryVars, storedVars, boundVars>>

FallBack(w) ==
    /\ pc[w] = "fallback"
    /\ IF StaleHit(now) THEN ServeStale /\ Uses(w, cache)
       ELSE Uses(w, NoAnswer) /\ UNCHANGED priceVars
    /\ UNCHANGED <<up, memoryVars, storedVars, boundVars>>

\* The pause ends, or the context of the watch does.
Pause(w) ==
    /\ pc[w] = "pause"
    /\ \/ GotoWith(w, "prices", [loc[w] EXCEPT !.attempt = @ + 1])
       \/ Done(w)
    /\ UNCHANGED <<up, memoryVars, storedVars, priceVars, boundVars>>

-----------------------------------------------------------------------------
(* The process *)

\* A fetch is over before FetchTimeout; what follows it takes no time.
Tick ==
    /\ now < MaxTime
    /\ now' = now + 1
    /\ \A w \in Workers : pc[w] \in {"fetch", "store", "fallback"} => now - loc[w].began < FetchTimeout
    /\ loc' = [w \in Workers |-> IF pc[w] = "idle" THEN NoLocals ELSE loc[w]]
    /\ UNCHANGED <<up, pc, memoryVars, storedVars, priceVars, work, faults>>

Crash ==
    /\ up /\ Fault
    /\ up' = FALSE
    /\ pc' = [w \in Workers |-> "idle"] /\ loc' = [w \in Workers |-> NoLocals]
    /\ cache' = NoAnswer /\ cachedAt' = 0 /\ stale' = FALSE
    /\ UNCHANGED <<memoryVars, storedVars, now, work>>

\* Mutant: the process starts without a look at the tiers.
StartUnvalidatedMutant ==
    /\ ~up
    /\ up' = TRUE
    /\ tiers' = file /\ allowlist' = table /\ lapsed' = {}
    /\ UNCHANGED <<pc, loc, storedVars, priceVars, boundVars>>

LoadTiers == ValidateTiers(file)

\* main up to the server: tiers that cannot be loaded end the process.
Start ==
    /\ ~up
    /\ LoadTiers
    /\ up' = TRUE
    /\ tiers' = file /\ allowlist' = table /\ lapsed' = {}
    /\ UNCHANGED <<pc, loc, storedVars, priceVars, boundVars>>

Next ==
    \/ \E w \in Workers :
          \/ AddAllowlist(w) \/ RemoveAllowlist(w) \/ LoadAllIPs(w) \/ Refresh(w)
          \/ PutTiers(w) \/ TruncateFile(w) \/ WriteFile(w) \/ Reload(w)
          \/ GetTokenPrice(w) \/ ReadCache(w) \/ FetchPrices(w) \/ StorePrices(w)
          \/ FallBack(w) \/ Pause(w)
    \/ Tick \/ Crash \/ Start

Spec == Init /\ [][Next]_vars

-----------------------------------------------------------------------------
(* Properties *)

\* When no change is under way, the list that requests are checked against is the table:
\* an address that was removed is not served any more.  Two changes at once, or a failed
\* load, may break this until the next start, and only they.
AllowlistFollowsTable ==
    up /\ "list" \notin lapsed /\ (\A w \in Workers : pc[w] \notin Changing) => allowlist = table

\* When no update is under way, the next start will load the tiers that points are awarded
\* by: the file is whole and the same.  Two updates at once, or a write that failed, may
\* break this, and only they.
TiersFollowFile ==
    up /\ "tiers" \notin lapsed /\ (\A w \in Workers : pc[w] \notin Updating) => tiers = file

\* Whatever tiers an admin stores or a start loads, an amount from the least one on belongs
\* to exactly one of them: two tiers never dispute it and no hole in between swallows it.
AmountsHaveOneTier ==
    LET bounds == {tiers[i].min : i \in 1 .. Len(tiers)}
        Owners(cents) == {i \in 1 .. Len(tiers) : Matches(tiers[i], cents)}
    IN  \A cents \in UNION {{b - 1, b, b + 1} : b \in bounds} :
           cents >= tiers[1].min => Owners(cents) = {MatchTier(tiers, cents)}

\* A payment is priced by an answer that is recent: less than the tolerance old, and less
\* than the cache duration when no fetch of the worker failed, but for the time a request
\* takes, even when concurrent fetches end out of order.
PricesAreRecent ==
    \A w \in Workers :
        loc[w].age < FetchTimeout + IF loc[w].failed THEN StaleTolerance ELSE CacheDuration

=============================================================================
