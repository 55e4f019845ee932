--------------------------- MODULE ScannerProofs ---------------------------
(***************************************************************************)
(* Proofs about module Scanner, for any chains, providers, batch sizes and *)
(* addresses, any clients and any number of scans, faults, stops, resets   *)
(* and restarts: its types, that a chain has one scan, that the position   *)
(* covers the balances, that clients read the scans in their order, that   *)
(* the health rows agree with the breakers, and that a scan never goes     *)
(* round in circles nor leaves its chain taken.                            *)
(***************************************************************************)
EXTENDS Scanner, FiniteSetTheorems, TLAPS

\* A scan has a goroutine from StartScan on, and the goroutine owns its chain.
ScansOK ==
    /\ cancels \in [Chains -> Scans \cup {NoScan}]
    /\ accepted \in 0 .. MaxScans
    /\ pc \in [Scans -> PC]
    /\ DOMAIN loc = Scans
    /\ \A s \in Scans : pc[s] # "new" => loc[s] \in Locals
    /\ done \subseteq Scans
    /\ \A s \in Scans : pc[s] = "new" <=> s > accepted
    /\ LiveScanOwnsChain

PoolsOK ==
    /\ DOMAIN pools = Chains
    /\ \A c \in Chains :
          /\ DOMAIN pools[c] = {"current", "breakers"}
          /\ pools[c].current \in 1 .. Len(Pools[c])
          /\ pools[c].breakers \in [1 .. Len(Pools[c]) -> Breaker]
    /\ health \in [Providers -> HealthRow]
    /\ unwritten \subseteq Providers
    /\ HealthFollowsBreakers

\* What waits to be read is of scans that are no later than the running one of the chain.
EventsOK ==
    /\ hub \in [Clients -> [in : BOOLEAN, queue : Seq(Event)]]
    /\ \A k \in Clients : Len(hub[k].queue) <= QueueCap
    /\ \A k \in Clients : \A n \in 1 .. Len(hub[k].queue) :
          /\ hub[k].queue[n].scan <= accepted
          /\ \A s \in Scans : pc[s] \in Live /\ loc[s].chain = hub[k].queue[n].chain =>
                hub[k].queue[n].scan <= s
    /\ EventsInScanOrder

\* What PositionCoversBalances asks of one address and asset, and of those below a position.
Assets(c) == {Native} \cup {Tokens[c][k] : k \in 1 .. Len(Tokens[c])}
Covered(c, key) == key \in missed[c] \/ (key \in fresh[c] /\ balances[c][key] # "none")
CoveredBelow(c, n) ==
    \A i \in Index, a \in Assets(c) : i < n /\ i < AddressCount[c] => Covered(c, <<i, a>>)
RowOK(c) ==
    scanState[c].exists /\ scanState[c].status # "failed" => CoveredBelow(c, scanState[c].last)

\* The scan has a result for an address of its batch, or could not get one.
Got(s, i, asset) ==
    \/ <<i, asset>> \in missed[loc[s].chain]
    \/ \E r \in loc[s].results : r.index = i /\ r.asset = asset

\* So it is for every asset before its next token, once the native balances were asked for.
InHand(s) ==
    \A i \in Batch(s) :
        /\ Got(s, i, Native)
        /\ \A m \in 1 .. Len(Tokens[loc[s].chain]) :
              m < loc[s].token => Got(s, i, Tokens[loc[s].chain][m])

InBatch == {"backoff", "load", "native", "token", "store"}

\* The position a scan may still write covers the balances; in a batch it is where the batch
\* begins; and what was fetched so far is in hand.
ScanOK(s) ==
    /\ pc[s] = "begin" => loc[s].at = 0 /\ loc[s].scanned = 0 /\ loc[s].max > 0
    /\ pc[s] \in InBatch \cup {"loop", "report"} \/ (pc[s] = "write" /\ loc[s].status # "failed")
          => CoveredBelow(loc[s].chain, loc[s].scanned)
    /\ pc[s] = "loop" /\ loc[s].at < loc[s].max => loc[s].scanned = loc[s].at
    /\ pc[s] \in InBatch => loc[s].at < loc[s].max /\ loc[s].scanned = loc[s].at
    /\ pc[s] = "report" => loc[s].at < loc[s].max /\ loc[s].scanned = BatchEnd(s)
    /\ pc[s] = "native" => loc[s].token = 1 /\ loc[s].results = {}
    /\ pc[s] = "token" => loc[s].token \in 1 .. Len(Tokens[loc[s].chain])
    /\ pc[s] = "store" => loc[s].token > Len(Tokens[loc[s].chain])
    /\ pc[s] \in {"token", "store"} => InHand(s)
    /\ pc[s] = "announce" => loc[s].event # "none"

PositionOK ==
    /\ balances \in [Chains -> [Key -> StoredAmount]]
    /\ scanState \in [Chains -> ScanRow]
    /\ fresh \in [Chains -> SUBSET Key] /\ missed \in [Chains -> SUBSET Key]
    /\ \A c \in Chains : RowOK(c)
    /\ \A s \in Scans : ScanOK(s)

Inv == ScansOK /\ PoolsOK /\ EventsOK /\ PositionOK

-----------------------------------------------------------------------------
(* Batches *)

\* A set of naturals has a least one, found as the smallest interval 0 .. n, which is finite.
LEMMA LeastNatural ==
  ASSUME NEW S \in SUBSET Nat, S # {}
  PROVE  \E n \in S : \A m \in S : n <= m
<1>. DEFINE R == StrictSubsetOrdering(Nat)
            T == {0 .. n : n \in S}
<1>1. \A n \in S : 0 .. n \in FiniteSubsetsOf(Nat)
  <2>1. \A n \in S : IsFiniteSet(0 .. n)
    BY FS_Interval
  <2> QED  BY <2>1 DEF FiniteSubsetsOf
<1>2. IsWellFoundedOn(R, FiniteSubsetsOf(Nat))
  BY FS_StrictSubsetOrderingWellFounded
<1>3. T \subseteq FiniteSubsetsOf(Nat) /\ T # {}
  BY <1>1
<1>4. \E x \in T : \A y \in T : ~ (<<y, x>> \in R)
  <2>. HIDE DEF T, R
  <2> QED  BY <1>2, <1>3, WFMin
<1>5. PICK n \in S : \A m \in S : <<0 .. m, 0 .. n>> \notin StrictSubsetOrdering(Nat)
  BY <1>4
<1>6. ASSUME NEW m \in S, m < n
      PROVE  FALSE
  <2>. DEFINE a == 0 .. m
              b == 0 .. n
  <2>1. a \subseteq b /\ a \in SUBSET Nat /\ b \in SUBSET Nat /\ n \in b /\ n \notin a
    BY <1>6
  <2>2. <<a, b>> \in StrictSubsetOrdering(Nat)
    <3>. HIDE DEF a, b
    <3> QED  BY <2>1 DEF StrictSubsetOrdering
  <2> QED  BY <1>5, <2>2
<1> QED
  BY <1>6

\* The batch sizes of a pool have a greatest one: the shortest part of the pool without one
\* would have one without its last provider.
LEMMA LargestBatch ==
  ASSUME NEW c \in Chains
  PROVE  MaxBatchSize(c) \in Nat \ {0}
<1>. DEFINE n == Len(Pools[c])
            f(j) == BatchSize[Pools[c][j]]
            Largest(k, j) == j \in 1 .. k /\ \A m \in 1 .. k : f(j) >= f(m)
            K == {k \in 1 .. n : \A j \in 1 .. k : ~Largest(k, j)}
<1>1. n \in Nat /\ n > 0 /\ \A j \in 1 .. n : f(j) \in Nat \ {0}
  BY ScannerAssumption DEF Providers
<1>. HIDE DEF n, f
<1>2. SUFFICES ASSUME K # {}
               PROVE  FALSE
  <2>1. SUFFICES ASSUME K = {}
                 PROVE  MaxBatchSize(c) \in Nat \ {0}
    OBVIOUS
  <2>2. n \in 1 .. n /\ n \notin K
    BY <1>1, <2>1
  <2>3. PICK j \in 1 .. n : Largest(n, j)
    BY <2>2
  <2>. DEFINE sizes == {f(m) : m \in 1 .. n}
              IsMax(size) == \A o \in sizes : size >= o
  <2>4. \E size \in sizes : IsMax(size)
    BY <2>3
  <2>5. MaxBatchSize(c) = CHOOSE size \in sizes : IsMax(size)
    BY DEF MaxBatchSize, n, f
  <2>6. sizes \subseteq Nat \ {0}
    BY <1>1
  <2>. HIDE DEF sizes, IsMax
  <2> QED  BY <2>4, <2>5, <2>6
<1>3. PICK k \in K : \A m \in K : k <= m
  <2>1. K \in SUBSET Nat
    BY <1>1
  <2>. HIDE DEF K
  <2> QED  BY <1>2, <2>1, LeastNatural
<1>4. k \in 1 .. n /\ \A j \in 1 .. k : ~Largest(k, j)
  OBVIOUS
<1>5. CASE k = 1
  <2>1. Largest(k, 1)
    BY <1>1, <1>4, <1>5
  <2> QED  BY <1>4, <1>5, <2>1
<1>6. CASE k > 1
  <2>1. k - 1 \in 1 .. n /\ ~(k <= k - 1)
    BY <1>1, <1>4, <1>6
  <2>2. k - 1 \notin K
    BY <1>3, <2>1
  <2>3. PICK j \in 1 .. k - 1 : Largest(k - 1, j)
    BY <2>1, <2>2
  <2>4. j \in 1 .. n /\ \A m \in 1 .. k : m \in 1 .. k - 1 \/ m = k
    BY <1>1, <1>4, <2>1
  <2>5. CASE f(k) >= f(j)
    <3>1. Largest(k, k)
      BY <1>1, <1>4, <2>3, <2>4, <2>5
    <3> QED  BY <1>4, <3>1
  <2>6. CASE f(j) >= f(k)
    <3>1. Largest(k, j)
      BY <1>1, <1>4, <2>3, <2>4, <2>6
    <3> QED  BY <1>4, <3>1
  <2> QED  BY <1>1, <1>4, <2>4, <2>5, <2>6
<1> QED
  BY <1>1, <1>4, <1>5, <1>6

\* A batch begins before the last address asked for, ends no later, and the next begins where
\* it ends or after them all.
LEMMA BatchBounds ==
  ASSUME NEW s \in Scans, loc[s] \in Locals, loc[s].at < loc[s].max
  PROVE  /\ BatchEnd(s) \in Nat /\ NextAt(s) \in Nat
         /\ loc[s].at < BatchEnd(s) /\ BatchEnd(s) <= loc[s].max
         /\ NextAt(s) < loc[s].max => BatchEnd(s) = NextAt(s)
         /\ \A i \in Index : i \in Batch(s) <=>
               loc[s].at <= i /\ i < BatchEnd(s) /\ i < AddressCount[loc[s].chain]
<1>. DEFINE size == MaxBatchSize(loc[s].chain)
            at == loc[s].at
            max == loc[s].max
            end == BatchEnd(s)
<1>1. size \in Nat \ {0} /\ at \in Nat /\ max \in Nat /\ at < max
  BY LargestBatch DEF Locals
<1>2. end = (IF at + size > max THEN max ELSE at + size) /\ NextAt(s) = at + size
  BY DEF BatchEnd, NextAt
<1>. HIDE DEF size
<1>3. end \in Nat /\ at < end /\ end <= max /\ at + (end - at) = end
  BY <1>1, <1>2
<1>4. Batch(s) = {i \in Index : at <= i /\ i < at + (end - at) /\ i < AddressCount[loc[s].chain]}
  BY DEF Batch, GetAddressesBatch
<1> QED
  BY <1>1, <1>2, <1>3, <1>4

-----------------------------------------------------------------------------
(* Locals *)

\* The types of the locals, one by one.
LEMMA Fields ==
  ASSUME NEW l \in Locals
  PROVE  /\ l.chain \in Chains /\ l.max \in Nat /\ l.at \in Nat /\ l.scanned \in Nat
         /\ l.fails \in Nat /\ l.tries \in Nat /\ l.nativeFailed \in BOOLEAN /\ l.token \in Nat
         /\ l.results \subseteq BalanceResult /\ l.status \in ScanStatus
         /\ l.event \in {"none", "scan_complete", "scan_error"}
BY DEF Locals

\* Fresh locals begin with the first address.
LEMMA NewLocalsOK ==
  ASSUME NEW c \in Chains, NEW max \in Nat
  PROVE  /\ NewLocals(c, max) \in Locals /\ NewLocals(c, max).chain = c
         /\ NewLocals(c, max).at = 0 /\ NewLocals(c, max).scanned = 0
         /\ NewLocals(c, max).max = max
BY DEF NewLocals, Locals, ScanStatus

\* The locals of a scan that ends.
LEMMA EndLocals ==
  ASSUME NEW l \in Locals, NEW status \in ScanStatus,
         NEW event \in {"none", "scan_complete", "scan_error"}
  PROVE  LET u == [l EXCEPT !.status = status, !.event = event, !.results = {}]
         IN  u \in Locals /\ u.chain = l.chain /\ u.scanned = l.scanned /\ u.status = status
BY DEF Locals

\* The locals of one that begins to fetch.
LEMMA LoadLocals ==
  ASSUME NEW l \in Locals
  PROVE  LET u == [l EXCEPT !.tries = 0, !.nativeFailed = FALSE, !.token = 1, !.results = {}]
         IN  /\ u \in Locals /\ u.chain = l.chain /\ u.scanned = l.scanned /\ u.at = l.at
             /\ u.max = l.max /\ u.token = 1 /\ u.results = {}
BY DEF Locals

\* The locals for the next provider.
LEMMA TryLocals ==
  ASSUME NEW l \in Locals
  PROVE  LET u == [l EXCEPT !.tries = @ + 1]
         IN  /\ u \in Locals /\ u.chain = l.chain /\ u.scanned = l.scanned /\ u.at = l.at
             /\ u.max = l.max /\ u.token = l.token /\ u.results = l.results
<1>1. \A n \in Nat : LET u == [l EXCEPT !.tries = n]
                     IN  /\ u \in Locals /\ u.chain = l.chain /\ u.scanned = l.scanned
                         /\ u.at = l.at /\ u.max = l.max /\ u.token = l.token
                         /\ u.results = l.results
  BY DEF Locals
<1>2. l.tries + 1 \in Nat
  BY Fields
<1> QED
  BY <1>1, <1>2

\* The locals after the native balances could not be fetched.
LEMMA NativeFailsLocals ==
  ASSUME NEW l \in Locals
  PROVE  LET u == [l EXCEPT !.fails = @ + 1, !.tries = 0, !.nativeFailed = TRUE]
         IN  /\ u \in Locals /\ u.chain = l.chain /\ u.scanned = l.scanned /\ u.at = l.at
             /\ u.max = l.max /\ u.token = l.token /\ u.results = l.results
<1>1. \A n \in Nat : LET u == [l EXCEPT !.fails = n, !.tries = 0, !.nativeFailed = TRUE]
                     IN  /\ u \in Locals /\ u.chain = l.chain /\ u.scanned = l.scanned
                         /\ u.at = l.at /\ u.max = l.max /\ u.token = l.token
                         /\ u.results = l.results
  BY DEF Locals
<1>2. l.fails + 1 \in Nat
  BY Fields
<1> QED
  BY <1>1, <1>2

\* The locals after a token was fetched.
LEMMA TokenLocals ==
  ASSUME NEW l \in Locals, NEW R \in SUBSET BalanceResult
  PROVE  LET u == [l EXCEPT !.token = @ + 1, !.tries = 0, !.results = @ \cup R]
         IN  /\ u \in Locals /\ u.chain = l.chain /\ u.scanned = l.scanned /\ u.at = l.at
             /\ u.max = l.max /\ u.token = l.token + 1 /\ u.results = l.results \cup R
<1>1. \A n \in Nat, S \in SUBSET BalanceResult :
        LET u == [l EXCEPT !.token = n, !.tries = 0, !.results = S]
        IN  /\ u \in Locals /\ u.chain = l.chain /\ u.scanned = l.scanned
            /\ u.at = l.at /\ u.max = l.max /\ u.token = n /\ u.results = S
  BY DEF Locals
<1>2. l.token + 1 \in Nat /\ l.results \cup R \in SUBSET BalanceResult
  BY Fields
<1>3. PICK n \in Nat, S \in SUBSET BalanceResult : n = l.token + 1 /\ S = l.results \cup R
  BY <1>2
<1>4. LET u == [l EXCEPT !.token = n, !.tries = 0, !.results = S]
      IN  /\ u \in Locals /\ u.chain = l.chain /\ u.scanned = l.scanned
          /\ u.at = l.at /\ u.max = l.max /\ u.token = n /\ u.results = S
  BY <1>1
<1> QED
  BY ONLY <1>3, <1>4, Zenon

\* The locals after a token could not be fetched.
LEMMA TokenFailsLocals ==
  ASSUME NEW l \in Locals
  PROVE  LET u == [l EXCEPT !.token = @ + 1, !.tries = 0, !.fails = @ + 1]
         IN  /\ u \in Locals /\ u.chain = l.chain /\ u.scanned = l.scanned /\ u.at = l.at
             /\ u.max = l.max /\ u.token = l.token + 1 /\ u.results = l.results
<1>1. \A n, k \in Nat :
        LET u == [l EXCEPT !.token = n, !.tries = 0, !.fails = k]
        IN  /\ u \in Locals /\ u.chain = l.chain /\ u.scanned = l.scanned
            /\ u.at = l.at /\ u.max = l.max /\ u.token = n /\ u.results = l.results
  BY DEF Locals
<1>2. l.token + 1 \in Nat /\ l.fails + 1 \in Nat
  BY Fields
<1> QED
  BY <1>1, <1>2

\* The locals at the next batch.
LEMMA AtLocals ==
  ASSUME NEW l \in Locals, NEW next \in Nat
  PROVE  LET u == [l EXCEPT !.at = next]
         IN  /\ u \in Locals /\ u.chain = l.chain /\ u.scanned = l.scanned /\ u.at = next
             /\ u.max = l.max
BY DEF Locals

\* The locals of a scan that was stopped while it fetched a token.
LEMMA DropLocals ==
  ASSUME NEW l \in Locals
  PROVE  LET u == [l EXCEPT !.results = {}]
         IN  u \in Locals /\ u.chain = l.chain
BY DEF Locals

-----------------------------------------------------------------------------
(* Frames *)

\* Everybody but s stays where it is.
Only(s) == \A v \in Scans \ {s} : pc'[v] = pc[v] /\ loc'[v] = loc[v]

\* A step of a goroutine that goes on, with locals of the same chain.
LEMMA GoesOn ==
  ASSUME ScansOK, NEW s \in Scans, pc[s] \in Live, NEW next \in Live, NEW locals \in Locals,
         locals.chain = loc[s].chain, GotoWith(s, next, locals),
         UNCHANGED <<cancels, accepted, done>>
  PROVE  ScansOK' /\ pc'[s] = next /\ loc'[s] = locals /\ Only(s)
<1>1. next \in PC /\ next # "new" /\ pc[s] # "new"
  BY DEF PC, Live
<1>2. /\ pc' \in [Scans -> PC] /\ DOMAIN loc' = Scans
      /\ pc'[s] = next /\ loc'[s] = locals /\ Only(s)
  BY <1>1 DEF ScansOK, GotoWith, Goto, Only
<1>3. \A v \in Scans : pc'[v] # "new" => loc'[v] \in Locals
  BY <1>2 DEF ScansOK, Only
<1>4. \A v \in Scans : pc'[v] = "new" <=> v > accepted'
  BY <1>1, <1>2 DEF ScansOK, Only
<1>5. LiveScanOwnsChain'
  BY <1>2 DEF ScansOK, LiveScanOwnsChain, Only
<1> QED
  BY <1>2, <1>3, <1>4, <1>5 DEF ScansOK

\* The same when the locals stay.
LEMMA GoesOnPlainly ==
  ASSUME ScansOK, NEW s \in Scans, pc[s] \in Live, NEW next \in Live, Goto(s, next),
         UNCHANGED <<cancels, accepted, done, loc>>
  PROVE  ScansOK' /\ pc'[s] = next /\ loc'[s] = loc[s] /\ Only(s)
<1>1. next \in PC /\ next # "new" /\ pc[s] # "new"
  BY DEF PC, Live
<1>2. /\ pc' \in [Scans -> PC] /\ DOMAIN loc' = Scans
      /\ pc'[s] = next /\ loc'[s] = loc[s] /\ Only(s)
  BY <1>1 DEF ScansOK, Goto, Only
<1>3. \A v \in Scans : pc'[v] # "new" => loc'[v] \in Locals
  BY <1>1, <1>2 DEF ScansOK, Only
<1>4. \A v \in Scans : pc'[v] = "new" <=> v > accepted'
  BY <1>1, <1>2 DEF ScansOK, Only
<1>5. LiveScanOwnsChain'
  BY <1>2 DEF ScansOK, LiveScanOwnsChain, Only
<1> QED
  BY <1>2, <1>3, <1>4, <1>5 DEF ScansOK

\* What a live scan has in hand.
LEMMA LiveScan ==
  ASSUME ScansOK, NEW s \in Scans, pc[s] \in Live
  PROVE  /\ loc[s] \in Locals /\ loc[s].chain \in Chains /\ s <= accepted
         /\ \A v \in Scans \ {s} : pc[v] \in Live => loc[v].chain # loc[s].chain
<1>1. pc[s] # "new" /\ loc[s] \in Locals /\ loc[s].chain \in Chains
  BY Fields DEF ScansOK, Live
<1>2. s <= accepted
  BY <1>1 DEF ScansOK, Scans
<1> QED
  BY <1>1, <1>2 DEF ScansOK, LiveScanOwnsChain

\* No new scan, no new event.
LEMMA EventsFrame ==
  ASSUME EventsOK, UNCHANGED <<hub, accepted>>,
         \A v \in Scans : pc'[v] \in Live => pc[v] \in Live /\ loc'[v].chain = loc[v].chain
  PROVE  EventsOK'
BY DEF EventsOK, EventsInScanOrder

\* An event of the running scan of a chain is of the latest one.
LEMMA BroadcastOK ==
  ASSUME ScansOK, EventsOK, NEW s \in Scans, pc[s] \in Live, UNCHANGED accepted,
         NEW type \in EventType,
         hub' = Broadcast(hub, [type |-> type, chain |-> loc[s].chain, scan |-> s]),
         \A v \in Scans : pc'[v] \in Live => pc[v] \in Live /\ loc'[v].chain = loc[v].chain
  PROVE  EventsOK'
<1>. DEFINE event == [type |-> type, chain |-> loc[s].chain, scan |-> s]
<1>1. /\ event \in Event /\ event.chain = loc[s].chain /\ event.scan = s /\ s <= accepted
      /\ \A v \in Scans \ {s} : pc[v] \in Live => loc[v].chain # loc[s].chain
  BY LiveScan DEF Event
<1>2. hub' = Broadcast(hub, event)
  OBVIOUS
<1>. HIDE DEF event
<1>3. QueueCap \in Nat
  BY HubAssumption
<1>4. ASSUME NEW k \in Clients
      PROVE  /\ hub'[k] \in [in : BOOLEAN, queue : Seq(Event)]
             /\ Len(hub'[k].queue) <= QueueCap
             /\ \A n \in 1 .. Len(hub'[k].queue) :
                   \/ n \in 1 .. Len(hub[k].queue) /\ hub'[k].queue[n] = hub[k].queue[n]
                   \/ n = Len(hub[k].queue) + 1 /\ hub'[k].queue[n] = event
  <2>1. hub[k] \in [in : BOOLEAN, queue : Seq(Event)] /\ Len(hub[k].queue) <= QueueCap
    BY DEF EventsOK
  <2>2. CASE hub'[k] = hub[k]
    BY <2>1, <2>2
  <2>3. CASE /\ Len(hub[k].queue) < QueueCap
             /\ hub'[k] = [hub[k] EXCEPT !.queue = Append(hub[k].queue, event)]
    <3>. DEFINE q == hub[k].queue
    <3>1. q \in Seq(Event) /\ Len(q) \in Nat
      BY <2>1
    <3>2. /\ Append(q, event) \in Seq(Event) /\ Len(Append(q, event)) = Len(q) + 1
          /\ \A n \in 1 .. Len(q) : Append(q, event)[n] = q[n]
          /\ Append(q, event)[Len(q) + 1] = event
      BY <1>1, <3>1
    <3>3. /\ hub'[k] \in [in : BOOLEAN, queue : Seq(Event)]
          /\ hub'[k].queue = Append(q, event)
      BY <2>1, <2>3, <3>2
    <3>4. \A n \in 1 .. Len(q) + 1 : n \in 1 .. Len(q) \/ n = Len(q) + 1
      BY <3>1
    <3>5. Len(hub'[k].queue) <= QueueCap
      BY <1>3, <2>3, <3>1, <3>2, <3>3
    <3> QED  BY <3>2, <3>3, <3>4, <3>5
  <2> QED  BY <1>2, <2>2, <2>3 DEF Broadcast
<1>5. hub' \in [Clients -> [in : BOOLEAN, queue : Seq(Event)]]
  BY <1>2, <1>4 DEF Broadcast
<1>6. ASSUME NEW k \in Clients, NEW n \in 1 .. Len(hub[k].queue)
      PROVE  /\ hub[k].queue[n] \in Event /\ hub[k].queue[n].scan \in Nat
             /\ hub[k].queue[n].scan <= accepted
             /\ hub[k].queue[n].chain = loc[s].chain => hub[k].queue[n].scan <= s
  <2>1. hub[k].queue \in Seq(Event)
    BY DEF EventsOK
  <2>2. hub[k].queue[n] \in Event
    BY <2>1
  <2>3. hub[k].queue[n].scan \in Nat
    BY <2>2 DEF Event, Scans
  <2> QED  BY <2>2, <2>3 DEF EventsOK
<1>7. ASSUME NEW k \in Clients, NEW n \in 1 .. Len(hub'[k].queue)
      PROVE  /\ hub'[k].queue[n].scan <= accepted'
             /\ \A v \in Scans : pc'[v] \in Live /\ loc'[v].chain = hub'[k].queue[n].chain =>
                   hub'[k].queue[n].scan <= v
  <2>1. CASE hub'[k].queue[n] = event
    BY <1>1, <2>1 DEF Scans
  <2>2. CASE n \in 1 .. Len(hub[k].queue) /\ hub'[k].queue[n] = hub[k].queue[n]
    BY <2>2 DEF EventsOK
  <2> QED  BY <1>4, <2>1, <2>2
<1>8. EventsInScanOrder'
  <2>1. ASSUME NEW k \in Clients, NEW m \in 1 .. Len(hub'[k].queue), NEW n \in 1 .. Len(hub'[k].queue),
               m < n, hub'[k].queue[m].chain = hub'[k].queue[n].chain
        PROVE  hub'[k].queue[m].scan <= hub'[k].queue[n].scan
    <3>1. Len(hub[k].queue) \in Nat
      BY DEF EventsOK
    <3>2. m \in 1 .. Len(hub[k].queue) /\ hub'[k].queue[m] = hub[k].queue[m]
      BY <1>4, <2>1, <3>1
    <3>3. CASE n \in 1 .. Len(hub[k].queue) /\ hub'[k].queue[n] = hub[k].queue[n]
      BY <2>1, <3>2, <3>3 DEF EventsOK, EventsInScanOrder
    <3>4. CASE hub'[k].queue[n] = event
      BY <1>1, <1>6, <2>1, <3>2, <3>4
    <3> QED  BY <1>4, <3>3, <3>4
  <2> QED  BY <2>1 DEF EventsInScanOrder
<1> QED
  BY <1>4, <1>5, <1>7, <1>8 DEF EventsOK

\* Pools that nobody asks.
LEMMA PoolsFrame ==
  ASSUME PoolsOK, UNCHANGED <<pools, health, unwritten>>
  PROVE  PoolsOK'
BY DEF PoolsOK, HealthFollowsBreakers

\* What is covered stays covered, so what a scan knows stays true while it does not move.
LEMMA KeepsScan ==
  ASSUME NEW s \in Scans, pc'[s] = pc[s], loc'[s] = loc[s], ScanOK(s),
         NEW c, c = loc[s].chain, missed[c] \subseteq missed'[c],
         \A i \in Index, a \in Assets(c) : Covered(c, <<i, a>>) => Covered(c, <<i, a>>)'
  PROVE  ScanOK(s)'
<1>1. \A n : CoveredBelow(c, n) => CoveredBelow(c, n)'
  BY DEF CoveredBelow
<1>2. CoveredBelow(loc[s].chain, loc[s].scanned) => CoveredBelow(loc[s].chain, loc[s].scanned)'
  <2>1. PICK n : n = loc[s].scanned
    OBVIOUS
  <2>2. CoveredBelow(loc[s].chain, loc[s].scanned)' <=> CoveredBelow(c, n)'
    BY <2>1 DEF CoveredBelow, Covered
  <2> QED  BY <1>1, <2>1, <2>2
<1>3. \A i, a : Got(s, i, a) => Got(s, i, a)'
  BY DEF Got
<1>4. Batch(s)' = Batch(s) /\ BatchEnd(s)' = BatchEnd(s)
  BY DEF Batch, BatchEnd
<1> QED
  BY <1>2, <1>3, <1>4 DEF ScanOK, InHand

SameTables(c) ==
    /\ missed'[c] = missed[c] /\ fresh'[c] = fresh[c]
    /\ balances'[c] = balances[c] /\ scanState'[c] = scanState[c]

\* A step of a scan concerns the tables of its chain, where no other scan is.
LEMMA PositionStep ==
  ASSUME ScansOK, PositionOK, NEW s \in Scans, pc[s] \in Live, Only(s),
         \A c \in Chains : c # loc[s].chain => SameTables(c),
         balances' \in [Chains -> [Key -> StoredAmount]], scanState' \in [Chains -> ScanRow],
         fresh' \in [Chains -> SUBSET Key], missed' \in [Chains -> SUBSET Key],
         \A c \in Chains : c = loc[s].chain => RowOK(c)',
         ScanOK(s)'
  PROVE  PositionOK'
<1>1. ASSUME NEW v \in Scans \ {s}
      PROVE  ScanOK(v)'
  <2>1. pc'[v] = pc[v] /\ loc'[v] = loc[v] /\ ScanOK(v)
    BY DEF Only, PositionOK
  <2>2. CASE pc[v] \in Live
    <3>1. PICK c \in Chains : c = loc[v].chain
      BY <2>2, LiveScan
    <3>2. SameTables(c)
      BY <2>2, <3>1, LiveScan
    <3>3. \A i \in Index, a \in Assets(c) : Covered(c, <<i, a>>) => Covered(c, <<i, a>>)'
      BY <3>2 DEF SameTables, Covered
    <3> QED  BY <2>1, <3>1, <3>2, <3>3, KeepsScan DEF SameTables
  <2>3. CASE pc[v] \notin Live
    BY <2>1, <2>3 DEF ScanOK, Live, InBatch
  <2> QED  BY <2>2, <2>3
<1>2. ASSUME NEW c \in Chains, c # loc[s].chain
      PROVE  RowOK(c)'
  <2>1. RowOK(c) /\ SameTables(c)
    BY <1>2 DEF PositionOK
  <2> QED  BY <2>1 DEF RowOK, CoveredBelow, Covered, SameTables
<1> QED
  BY <1>1, <1>2 DEF PositionOK

\* A step that leaves the tables alone.
LEMMA QuietPosition ==
  ASSUME ScansOK, PositionOK, NEW s \in Scans, pc[s] \in Live, Only(s),
         UNCHANGED <<balances, scanState, fresh, missed>>, ScanOK(s)'
  PROVE  PositionOK'
<1>1. \A c \in Chains : SameTables(c) /\ RowOK(c)'
  BY DEF PositionOK, SameTables, RowOK, CoveredBelow, Covered
<1> QED
  BY <1>1, PositionStep DEF PositionOK

-----------------------------------------------------------------------------
(* The steps of a scan *)

\* The first row starts at 0, where there is nothing to cover.
LEMMA BeginInv ==
  ASSUME Inv, NEW s \in Scans, Begin(s)
  PROVE  Inv'
<1>1. /\ pc[s] = "begin" /\ pc[s] \in Live /\ {"loop", "remove"} \subseteq Live
      /\ UNCHANGED <<cancels, accepted, loc, done, pools, balances, health, hub, unwritten>>
  BY DEF Begin, Live
<1>2. PICK c \in Chains : c = loc[s].chain
  BY <1>1, LiveScan DEF Inv
<1>3. loc[s].at = 0 /\ loc[s].scanned = 0 /\ loc[s].max > 0 /\ loc[s].max \in Nat
  BY <1>1, LiveScan, Fields DEF Inv, PositionOK, ScanOK
<1>4. /\ ScansOK' /\ loc'[s] = loc[s] /\ Only(s)
      /\ pc'[s] \in {"loop", "remove"} /\ pc'[s] \in Live
  BY <1>1, GoesOnPlainly DEF Begin, Inv
<1>5. EventsOK' /\ PoolsOK'
  <2>1. \A v \in Scans : pc'[v] \in Live => pc[v] \in Live /\ loc'[v].chain = loc[v].chain
    BY <1>1, <1>4 DEF Only
  <2> QED  BY <1>1, <2>1, EventsFrame, PoolsFrame DEF Inv
<1>6. CASE /\ Writes(s, "scanning", TRUE) /\ Goto(s, "loop")
           /\ fresh' = [fresh EXCEPT ![loc[s].chain] = {}]
           /\ missed' = [missed EXCEPT ![loc[s].chain] = {}]
  <2>. DEFINE row == [exists |-> TRUE, last |-> 0, max |-> loc[s].max, status |-> "scanning"]
  <2>1. row \in ScanRow /\ row.last = 0
    BY <1>3 DEF ScanRow, ScanStatus
  <2>2. scanState' = [scanState EXCEPT ![c] = row]
    BY <1>2, <1>3, <1>6 DEF Writes, UpsertScanState
  <2>. HIDE DEF row
  <2>3. /\ scanState' \in [Chains -> ScanRow] /\ scanState'[c].last = 0
        /\ fresh' \in [Chains -> SUBSET Key] /\ missed' \in [Chains -> SUBSET Key]
        /\ \A d \in Chains : d # c => SameTables(d)
    BY <1>1, <1>2, <1>6, <2>1, <2>2 DEF Inv, PositionOK, SameTables
  <2>4. \A i \in Index : ~(i < 0)
    BY ScanDBAssumption
  <2>5. RowOK(c)'
    BY <2>3, <2>4 DEF RowOK, CoveredBelow
  <2>6. pc'[s] = "loop"
    BY <1>6 DEF Goto, Inv, ScansOK
  <2>7. ScanOK(s)'
    <3>1. CoveredBelow(loc[s].chain, loc[s].scanned)'
      BY <1>3, <1>4, <2>4 DEF CoveredBelow
    <3> QED  BY <1>3, <1>4, <2>6, <3>1 DEF ScanOK, InBatch
  <2>8. PositionOK'
    BY <1>1, <1>2, <1>4, <2>3, <2>5, <2>7, PositionStep DEF Inv, PositionOK
  <2> QED  BY <1>4, <1>5, <2>8 DEF Inv
<1>7. CASE Writes(s, "scanning", FALSE) /\ Goto(s, "remove") /\ UNCHANGED <<fresh, missed>>
  <2>1. scanState' = scanState /\ pc'[s] = "remove"
    BY <1>7 DEF Writes, Goto, Inv, ScansOK
  <2>2. ScanOK(s)'
    BY <2>1 DEF ScanOK, InBatch
  <2> QED  BY <1>1, <1>4, <1>5, <1>7, <2>1, <2>2, QuietPosition DEF Inv
<1> QED
  BY <1>6, <1>7 DEF Begin

\* A scan that ends, without a new row or event yet: what it will write is covered.
LEMMA EndsInv ==
  ASSUME Inv, NEW s \in Scans, pc[s] \in Live,
         NEW status \in ScanStatus, NEW event \in {"none", "scan_complete", "scan_error"},
         Ends(s, loc[s], status, event),
         UNCHANGED <<cancels, accepted, done, balances, scanState, hub, fresh, missed>>,
         PoolsOK', status # "failed" => CoveredBelow(loc[s].chain, loc[s].scanned)
  PROVE  Inv'
<1>. DEFINE u == [loc[s] EXCEPT !.status = status, !.event = event, !.results = {}]
<1>1. /\ u \in Locals /\ u.chain = loc[s].chain /\ u.scanned = loc[s].scanned
      /\ u.status = status
  <2>1. loc[s] \in Locals
    BY LiveScan DEF Inv
  <2> QED  BY <2>1, EndLocals
<1>2. GotoWith(s, "write", u) /\ "write" \in Live
  BY DEF Ends, Live
<1>. HIDE DEF u
<1>3. ScansOK' /\ pc'[s] = "write" /\ loc'[s] = u /\ Only(s)
  BY <1>1, <1>2, GoesOn DEF Inv
<1>4. EventsOK'
  BY <1>1, <1>3, EventsFrame DEF Inv, Only
<1>5. ScanOK(s)'
  <2>1. status # "failed" => CoveredBelow(loc[s].chain, loc[s].scanned)'
    BY <1>1, <1>3 DEF CoveredBelow, Covered
  <2> QED  BY <1>1, <1>3, <2>1 DEF ScanOK, InBatch
<1> QED
  BY <1>3, <1>4, <1>5, QuietPosition DEF Inv

\* The head of the loop ends the scan or goes into the next batch.
LEMMA LoopHeadInv ==
  ASSUME Inv, NEW s \in Scans, LoopHead(s)
  PROVE  Inv'
<1>1. /\ pc[s] = "loop" /\ pc[s] \in Live /\ {"backoff", "load"} \subseteq Live
      /\ UNCHANGED <<cancels, accepted, done, pools, balances, scanState, health, hub,
                     fresh, missed, unwritten>>
  BY DEF LoopHead, Live, tableVars, ghostVars
<1>2. /\ CoveredBelow(loc[s].chain, loc[s].scanned)
      /\ loc[s].at < loc[s].max => loc[s].scanned = loc[s].at
  BY <1>1 DEF Inv, PositionOK, ScanOK
<1>3. PoolsOK'
  BY <1>1, PoolsFrame DEF Inv
<1>4. CASE \/ Ends(s, loc[s], "completed", "scan_complete")
           \/ Ends(s, loc[s], "scanning", "scan_error")
  <2>1. {"completed", "scanning"} \subseteq ScanStatus
    BY DEF ScanStatus
  <2> QED  BY <1>1, <1>2, <1>3, <1>4, <2>1, EndsInv
<1>5. CASE /\ loc[s].at < loc[s].max /\ UNCHANGED loc
           /\ \E next \in {"backoff", "load"} : Goto(s, next)
  <2>1. ScansOK' /\ pc'[s] \in {"backoff", "load"} /\ loc'[s] = loc[s] /\ Only(s)
    BY <1>1, <1>5, GoesOnPlainly DEF Inv
  <2>2. EventsOK'
    BY <1>1, <2>1, EventsFrame DEF Inv, Only
  <2>3. ScanOK(s)'
    <3>1. CoveredBelow(loc[s].chain, loc[s].scanned)'
      BY <1>1, <1>2, <2>1 DEF CoveredBelow, Covered
    <3> QED  BY <1>2, <1>5, <2>1, <3>1 DEF ScanOK, InBatch
  <2> QED  BY <1>1, <1>3, <2>1, <2>2, <2>3, QuietPosition DEF Inv
<1> QED
  BY <1>4, <1>5 DEF LoopHead

\* The backoff ends in a stop or in the next batch.
LEMMA BackoffInv ==
  ASSUME Inv, NEW s \in Scans, Backoff(s)
  PROVE  Inv'
<1>1. /\ pc[s] = "backoff" /\ pc[s] \in Live /\ "load" \in Live
      /\ UNCHANGED <<cancels, accepted, done, pools, balances, scanState, health, hub,
                     fresh, missed, unwritten>>
  BY DEF Backoff, Live, tableVars, ghostVars
<1>2. /\ CoveredBelow(loc[s].chain, loc[s].scanned)
      /\ loc[s].at < loc[s].max /\ loc[s].scanned = loc[s].at
  BY <1>1 DEF Inv, PositionOK, ScanOK, InBatch
<1>3. PoolsOK'
  BY <1>1, PoolsFrame DEF Inv
<1>4. CASE Ends(s, loc[s], "scanning", "none")
  <2>1. "scanning" \in ScanStatus
    BY DEF ScanStatus
  <2> QED  BY <1>1, <1>2, <1>3, <1>4, <2>1, EndsInv
<1>5. CASE Goto(s, "load") /\ UNCHANGED loc
  <2>1. ScansOK' /\ pc'[s] = "load" /\ loc'[s] = loc[s] /\ Only(s)
    BY <1>1, <1>5, GoesOnPlainly DEF Inv
  <2>2. EventsOK'
    BY <1>1, <2>1, EventsFrame DEF Inv, Only
  <2>3. ScanOK(s)'
    <3>1. CoveredBelow(loc[s].chain, loc[s].scanned)'
      BY <1>1, <1>2, <2>1 DEF CoveredBelow, Covered
    <3> QED  BY <1>2, <2>1, <3>1 DEF ScanOK, InBatch
  <2> QED  BY <1>1, <1>3, <2>1, <2>2, <2>3, QuietPosition DEF Inv
<1> QED
  BY <1>4, <1>5 DEF Backoff

\* A batch without addresses has nothing to cover.
LEMMA LoadInv ==
  ASSUME Inv, NEW s \in Scans, Load(s)
  PROVE  Inv'
<1>1. /\ pc[s] = "load" /\ pc[s] \in Live /\ {"loop", "native"} \subseteq Live
      /\ UNCHANGED <<cancels, accepted, done, pools, balances, scanState, health, hub,
                     fresh, missed, unwritten>>
  BY DEF Load, Live, tableVars, ghostVars
<1>2. /\ CoveredBelow(loc[s].chain, loc[s].scanned)
      /\ loc[s].at < loc[s].max /\ loc[s].scanned = loc[s].at
  BY <1>1 DEF Inv, PositionOK, ScanOK, InBatch
<1>3. PoolsOK'
  BY <1>1, PoolsFrame DEF Inv
<1>4. loc[s] \in Locals /\ loc[s].at \in Nat
  BY <1>1, LiveScan, Fields DEF Inv
<1>5. CASE Ends(s, loc[s], "failed", "scan_error")
  <2>1. "failed" \in ScanStatus
    BY DEF ScanStatus
  <2> QED  BY <1>1, <1>3, <1>5, <2>1, EndsInv
<1>6. CASE /\ Batch(s) = {}
           /\ GotoWith(s, "loop", [loc[s] EXCEPT !.scanned = BatchEnd(s), !.at = NextAt(s)])
  <2>. DEFINE end == BatchEnd(s)
              next == NextAt(s)
              u == [loc[s] EXCEPT !.scanned = end, !.at = next]
  <2>1. /\ BatchEnd(s) \in Nat /\ NextAt(s) \in Nat /\ loc[s].at < BatchEnd(s)
        /\ NextAt(s) < loc[s].max => BatchEnd(s) = NextAt(s)
        /\ \A i \in Index : i < BatchEnd(s) /\ i < AddressCount[loc[s].chain] => ~(loc[s].at <= i)
    BY <1>2, <1>4, <1>6, BatchBounds
  <2>2. /\ u \in Locals /\ u.chain = loc[s].chain /\ u.scanned = BatchEnd(s)
        /\ u.at = NextAt(s) /\ u.max = loc[s].max
    <3>1. end \in Nat /\ next \in Nat
      BY <2>1
    <3>. HIDE DEF end, next
    <3>2. /\ u \in Locals /\ u.chain = loc[s].chain /\ u.scanned = end /\ u.at = next
          /\ u.max = loc[s].max
      BY <1>4, <3>1 DEF Locals
    <3> QED  BY <3>2 DEF end, next
  <2>3. GotoWith(s, "loop", u)
    BY <1>6
  <2>. HIDE DEF u
  <2>4. ScansOK' /\ pc'[s] = "loop" /\ loc'[s] = u /\ Only(s)
    BY <1>1, <2>2, <2>3, GoesOn DEF Inv
  <2>5. EventsOK'
    BY <1>1, <2>2, <2>4, EventsFrame DEF Inv, Only
  <2>6. CoveredBelow(loc[s].chain, BatchEnd(s))
    <3>1. ASSUME NEW i \in Index, i < BatchEnd(s), i < AddressCount[loc[s].chain]
          PROVE  i < loc[s].scanned
      BY <1>2, <1>4, <2>1, <3>1, ScanDBAssumption
    <3> QED  BY <1>2, <3>1 DEF CoveredBelow
  <2>7. ScanOK(s)'
    <3>1. CoveredBelow(loc[s].chain, loc[s].scanned)'
      BY <1>1, <2>2, <2>4, <2>6 DEF CoveredBelow, Covered
    <3> QED  BY <2>1, <2>2, <2>4, <3>1 DEF ScanOK, InBatch
  <2> QED  BY <1>1, <1>3, <2>4, <2>5, <2>7, QuietPosition DEF Inv
<1>7. CASE GotoWith(s, "native", [loc[s] EXCEPT !.tries = 0, !.nativeFailed = FALSE,
                                                !.token = 1, !.results = {}])
  <2>. DEFINE u == [loc[s] EXCEPT !.tries = 0, !.nativeFailed = FALSE, !.token = 1,
                                  !.results = {}]
  <2>1. /\ u \in Locals /\ u.chain = loc[s].chain /\ u.scanned = loc[s].scanned
        /\ u.at = loc[s].at /\ u.max = loc[s].max /\ u.token = 1 /\ u.results = {}
    BY <1>4, LoadLocals
  <2>2. GotoWith(s, "native", u)
    BY <1>7
  <2>. HIDE DEF u
  <2>3. ScansOK' /\ pc'[s] = "native" /\ loc'[s] = u /\ Only(s)
    BY <1>1, <2>1, <2>2, GoesOn DEF Inv
  <2>4. EventsOK'
    BY <1>1, <2>1, <2>3, EventsFrame DEF Inv, Only
  <2>5. ScanOK(s)'
    <3>1. CoveredBelow(loc[s].chain, loc[s].scanned)'
      BY <1>1, <1>2, <2>1, <2>3 DEF CoveredBelow, Covered
    <3> QED  BY <1>2, <2>1, <2>3, <3>1 DEF ScanOK, InBatch
  <2> QED  BY <1>1, <1>3, <2>3, <2>4, <2>5, QuietPosition DEF Inv
<1> QED
  BY <1>5, <1>6, <1>7 DEF Load

-----------------------------------------------------------------------------
(* A turn of a provider *)

\* A breaker that lets a request through counts no failure for that.
LEMMA AllowedBreaker ==
  ASSUME NEW cb \in Breaker, Allows(cb)
  PROVE  AfterAllow(cb) \in Breaker /\ AfterAllow(cb).fails = cb.fails
<1>1. HalfOpenMax \in Nat \ {0}
  BY BreakerAssumption
<1>2. CASE cb.state = "open"
  <2>1. AfterAllow(cb) = [cb EXCEPT !.state = "half_open", !.halfOpenCount = 0]
    BY <1>2 DEF AfterAllow
  <2>2. "half_open" \in BreakerState /\ 0 \in 0 .. HalfOpenMax
    BY <1>1 DEF BreakerState
  <2> QED  BY <2>1, <2>2 DEF Breaker
<1>3. CASE cb.state = "half_open"
  <2>1. cb.halfOpenCount + 1 \in 0 .. HalfOpenMax
    BY <1>1, <1>3 DEF Allows, Breaker
  <2>2. PICK n \in 0 .. HalfOpenMax : n = cb.halfOpenCount + 1
    BY <2>1
  <2>3. AfterAllow(cb) = [cb EXCEPT !.halfOpenCount = n]
    BY <1>3, <2>2 DEF AfterAllow
  <2> QED  BY <2>3 DEF Breaker
<1>4. CASE cb.state = "closed"
  BY <1>4 DEF AfterAllow
<1> QED
  BY <1>2, <1>3, <1>4 DEF Breaker, BreakerState

\* The breaker after a success, and after a failure.
LEMMA AnsweredBreaker ==
  ASSUME NEW cb \in Breaker
  PROVE  /\ AfterSuccess(cb) \in Breaker
         /\ AfterSuccess(cb).state = "closed" /\ AfterSuccess(cb).fails = 0
         /\ AfterFailure(cb) \in Breaker
         /\ AfterFailure(cb).fails = IF cb.fails < Threshold THEN cb.fails + 1 ELSE cb.fails
<1>1. Threshold \in Nat \ {0} /\ HalfOpenMax \in Nat \ {0}
  BY BreakerAssumption
<1>2. /\ cb.state \in BreakerState /\ cb.fails \in 0 .. Threshold
      /\ cb.halfOpenCount \in 0 .. HalfOpenMax /\ cb.cooled \in BOOLEAN
  BY DEF Breaker
<1>3. /\ AfterSuccess(cb) \in Breaker
      /\ AfterSuccess(cb).state = "closed" /\ AfterSuccess(cb).fails = 0
  BY <1>1, <1>2 DEF AfterSuccess, Breaker, BreakerState
<1>. DEFINE fails == IF cb.fails < Threshold THEN cb.fails + 1 ELSE cb.fails
            trips == cb.state = "half_open" \/ fails = Threshold
            state == IF trips THEN "open" ELSE cb.state
            count == IF trips THEN 0 ELSE cb.halfOpenCount
<1>4. fails \in 0 .. Threshold
  BY <1>1, <1>2
<1>5. state \in BreakerState /\ count \in 0 .. HalfOpenMax
  BY <1>1, <1>2 DEF BreakerState
<1>6. AfterFailure(cb) = [state |-> state, fails |-> fails, halfOpenCount |-> count,
                          cooled |-> FALSE]
  BY DEF AfterFailure
<1>. HIDE DEF fails, state, count
<1>7. AfterFailure(cb) \in Breaker /\ AfterFailure(cb).fails = fails
  BY <1>4, <1>5, <1>6 DEF Breaker
<1> QED
  BY <1>3, <1>7 DEF fails

\* What HealthFollowsBreakers asks of one row and one breaker.
Agrees(row, cb) == row.circuit = cb.state /\ row.fails = cb.fails /\ row.status = StatusOf(cb.state)

\* A health row after a turn; it agrees with the breaker when no statement is lost.
LEMMA HealthRows ==
  ASSUME NEW row \in HealthRow, NEW cb \in Breaker, NEW after \in Breaker, NEW answer,
         NEW lost \in SUBSET {1, 2},
         answer.err = "none" => after.state = "closed" /\ after.fails = 0,
         answer.err # "none" =>
             after.fails = IF cb.fails < Threshold THEN cb.fails + 1 ELSE cb.fails
  PROVE  /\ HealthAfter(row, answer, after, lost) \in HealthRow
         /\ lost = {} /\ (answer.err = "none" \/ Agrees(row, cb)) =>
               Agrees(HealthAfter(row, answer, after, lost), after)
<1>1. Threshold \in Nat \ {0}
  BY BreakerAssumption
<1>2. row.fails \in 0 .. Threshold /\ row.status \in ProviderStatus /\ row.circuit \in BreakerState
  BY DEF HealthRow
<1>3. after.state \in BreakerState
  BY DEF Breaker
<1>4. \A state \in BreakerState : StatusOf(state) \in ProviderStatus
  BY DEF StatusOf, BreakerState, ProviderStatus
<1>. DEFINE counted == IF 1 \in lost THEN row ELSE RecordProviderFailure(row)
            updated == UpdateProviderCircuitState(counted, after.state)
            n == IF row.fails < Threshold THEN row.fails + 1 ELSE row.fails
<1>5. n \in 0 .. Threshold
  BY <1>1, <1>2
<1>6. RecordProviderFailure(row) \in HealthRow /\ RecordProviderFailure(row).fails = n
  <2>1. RecordProviderFailure(row) = [row EXCEPT !.fails = n]
    BY DEF RecordProviderFailure
  <2>. HIDE DEF n
  <2> QED  BY <1>5, <2>1 DEF HealthRow
<1>7. counted \in HealthRow /\ (lost = {} => counted.fails = n)
  BY <1>6
<1>8. /\ updated \in HealthRow /\ updated.fails = counted.fails
      /\ updated.circuit = after.state /\ updated.status = StatusOf(after.state)
  <2>. DEFINE status == StatusOf(after.state)
  <2>1. updated = [counted EXCEPT !.circuit = after.state, !.status = status]
    BY DEF UpdateProviderCircuitState
  <2>2. status \in ProviderStatus
    BY <1>3, <1>4
  <2>. HIDE DEF counted, status, updated
  <2>3. /\ updated \in HealthRow /\ updated.fails = counted.fails
        /\ updated.circuit = after.state /\ updated.status = status
    BY <1>3, <1>7, <2>1, <2>2 DEF HealthRow
  <2> QED  BY <2>3 DEF status
<1>9. CASE answer.err = "none"
  <2>1. RecordProviderSuccess(row) \in HealthRow
    BY <1>1 DEF RecordProviderSuccess, HealthRow, ProviderStatus, BreakerState
  <2>2. HealthAfter(row, answer, after, lost) = IF 1 \in lost THEN row
                                                ELSE RecordProviderSuccess(row)
    BY <1>9 DEF HealthAfter
  <2> QED  BY <1>9, <2>1, <2>2 DEF Agrees, RecordProviderSuccess, StatusOf
<1>10. CASE answer.err # "none" /\ 2 \in lost
  <2>1. HealthAfter(row, answer, after, lost) = counted
    BY <1>10 DEF HealthAfter
  <2> QED  BY <1>7, <1>10, <2>1
<1>11. CASE answer.err # "none" /\ 2 \notin lost
  <2>1. HealthAfter(row, answer, after, lost) = updated
    BY <1>11 DEF HealthAfter
  <2> QED  BY <1>7, <1>8, <1>11, <2>1 DEF Agrees
<1> QED
  BY <1>9, <1>10, <1>11

\* A turn leaves the pools sound, and an answer that counts as a success covers the batch.
LEMMA TurnPools ==
  ASSUME ScansOK, PoolsOK, NEW s \in Scans, pc[s] \in Live, NEW asset \in Asset,
         asset # Native => Tokens[loc[s].chain] # <<>>,
         NEW t \in Turns(s, asset), TakesTurn(s, t)
  PROVE  /\ PoolsOK'
         /\ t.answer.err = "none" =>
              /\ t.answer.results \subseteq BalanceResult
              /\ \A i \in Batch(s) : \E r \in t.answer.results : r.index = i /\ r.asset = asset
<1>1. PICK c \in Chains : c = loc[s].chain
  BY LiveScan
<1>. DEFINE pool == pools[c]
            j == pool.current
            provider == CurrentProvider(c)
            cb == CurrentBreaker(c)
            row == health[provider]
<1>2. /\ j \in 1 .. Len(Pools[c]) /\ pool.breakers \in [1 .. Len(Pools[c]) -> Breaker]
      /\ DOMAIN pools = Chains /\ cb \in Breaker
      /\ provider = Pools[c][j] /\ cb = pool.breakers[j]
  BY DEF PoolsOK, CurrentProvider, CurrentBreaker
<1>3. provider \in Providers /\ row \in HealthRow
  BY <1>2 DEF PoolsOK, Providers
<1>4. Refuses.err = "retriable" /\ "retriable" # "none"
  BY DEF Refuses
<1>5. /\ t.breaker \in Breaker /\ t.row \in HealthRow
      /\ t.lost = {} /\ (t.answer.err = "none" \/ Agrees(row, cb)) => Agrees(t.row, t.breaker)
      /\ t.answer = Refuses \/ t.answer \in AnswersNow(s, provider, asset)
  <2>1. CASE ~Allows(cb)
    <3>1. t = [answer |-> Refuses, breaker |-> cb, row |-> row, lost |-> {}, faults |-> 0]
      BY <1>1, <2>1 DEF Turns
    <3> QED  BY <1>2, <1>3, <1>4, <3>1
  <2>2. CASE Allows(cb)
    <3>1. PICK answer \in AnswersNow(s, provider, asset), lost \in SUBSET {1, 2} :
             t = Turn(s, asset, answer, lost)
      BY <1>1, <2>2 DEF Turns
    <3>. DEFINE after == AfterRequest(cb, answer)
    <3>2. /\ after \in Breaker
          /\ answer.err = "none" => after.state = "closed" /\ after.fails = 0
          /\ answer.err # "none" => after.fails =
                 IF cb.fails < Threshold THEN cb.fails + 1 ELSE cb.fails
      BY <1>2, <2>2, AllowedBreaker, AnsweredBreaker DEF AfterRequest
    <3>3. /\ HealthAfter(row, answer, after, lost) \in HealthRow
          /\ lost = {} /\ (answer.err = "none" \/ Agrees(row, cb)) =>
                Agrees(HealthAfter(row, answer, after, lost), after)
      <4>. HIDE DEF row, cb, after
      <4>1. after \in Breaker
        BY <3>2
      <4>2. row \in HealthRow /\ cb \in Breaker
        BY <1>2, <1>3
      <4> QED  BY <3>2, <4>1, <4>2, HealthRows
    <3>4. /\ t.answer = answer /\ t.breaker = after /\ t.lost = lost
          /\ t.row = HealthAfter(row, answer, after, lost)
      BY <1>1, <3>1 DEF Turn
    <3>. HIDE DEF row, cb, after
    <3> QED  BY <3>2, <3>3, <3>4
  <2> QED  BY <2>1, <2>2
<1>6. PoolsOK'
  <2>. DEFINE newPool == [current |-> NextIndex(pool, Len(Pools[c])),
                          breakers |-> [pool.breakers EXCEPT ![j] = t.breaker]]
  <2>1. /\ pools' = [pools EXCEPT ![c] = newPool]
        /\ health' = [health EXCEPT ![provider] = t.row]
        /\ unwritten' = CASE t.lost # {} -> unwritten \cup {provider}
                          [] t.lost = {} /\ t.answer.err = "none" -> unwritten \ {provider}
                          [] OTHER -> unwritten
    BY <1>1 DEF TakesTurn
  <2>2. NextIndex(pool, Len(Pools[c])) \in 1 .. Len(Pools[c])
    <3>1. Len(Pools[c]) \in Nat \ {0}
      BY ScannerAssumption
    <3>2. \A k \in Nat, n \in Nat \ {0} : (k % n) + 1 \in 1 .. n
      OBVIOUS
    <3> QED  BY <1>2, <3>1, <3>2 DEF NextIndex
  <2>3. /\ newPool.current \in 1 .. Len(Pools[c])
        /\ newPool.breakers \in [1 .. Len(Pools[c]) -> Breaker]
        /\ newPool.breakers[j] = t.breaker /\ DOMAIN newPool = {"current", "breakers"}
        /\ \A k \in 1 .. Len(Pools[c]) : k # j => newPool.breakers[k] = pool.breakers[k]
    BY <1>2, <1>5, <2>2
  <2>. HIDE DEF newPool
  <2>4. /\ DOMAIN pools' = Chains
        /\ \A d \in Chains :
              /\ DOMAIN pools'[d] = {"current", "breakers"}
              /\ pools'[d].current \in 1 .. Len(Pools[d])
              /\ pools'[d].breakers \in [1 .. Len(Pools[d]) -> Breaker]
    BY <2>1, <2>3 DEF PoolsOK
  <2>5. health' \in [Providers -> HealthRow] /\ unwritten' \subseteq Providers
    BY <1>3, <1>5, <2>1 DEF PoolsOK
  <2>6. ASSUME NEW d \in Chains, NEW k \in 1 .. Len(Pools[d]), Pools[d][k] \notin unwritten'
        PROVE  Agrees(health'[Pools[d][k]], pools'[d].breakers[k])
    <3>1. Pools[d][k] \in Providers
      BY DEF Providers
    <3>2. Pools[d][k] \notin unwritten => Agrees(health[Pools[d][k]], pools[d].breakers[k])
      BY DEF PoolsOK, HealthFollowsBreakers, Agrees
    <3>3. CASE d = c /\ k = j
      <4>1. t.lost = {} /\ (t.answer.err = "none" \/ provider \notin unwritten)
        BY <1>2, <2>1, <2>6, <3>3
      <4>2. Agrees(t.row, t.breaker)
        BY <1>2, <1>5, <3>2, <3>3, <4>1
      <4>3. health'[provider] = t.row /\ pools'[c].breakers[j] = t.breaker
        BY <1>2, <1>3, <2>1, <2>3 DEF PoolsOK
      <4> QED  BY <1>2, <3>3, <4>2, <4>3
    <3>4. CASE ~(d = c /\ k = j)
      <4>1. Pools[d][k] # provider
        BY <1>2, <3>4, ScannerAssumption
      <4>2. Pools[d][k] \notin unwritten /\ health'[Pools[d][k]] = health[Pools[d][k]]
        BY <2>1, <2>6, <3>1, <4>1 DEF PoolsOK
      <4>3. pools'[d].breakers[k] = pools[d].breakers[k]
        BY <1>2, <2>1, <2>3, <3>4
      <4> QED  BY <3>2, <4>2, <4>3
    <3> QED  BY <3>3, <3>4
  <2>7. HealthFollowsBreakers'
    BY <2>6 DEF HealthFollowsBreakers, Agrees
  <2> QED  BY <2>4, <2>5, <2>7 DEF PoolsOK
<1>7. ASSUME t.answer.err = "none"
      PROVE  /\ t.answer.results \subseteq BalanceResult
             /\ \A i \in Batch(s) : \E r \in t.answer.results : r.index = i /\ r.asset = asset
  <2>. DEFINE onChain == OnChainNow(c, asset)
              batch == Batch(s)
              answer == t.answer
  <2>1. batch \in SUBSET Index /\ onChain \in [Index -> Amount]
    BY DEF Batch, GetAddressesBatch, OnChainNow, Amount
  <2>2. provider \in {"Blockstream", "Mempool"} => asset = Native
    BY <1>1, <1>2, ScannerAssumption
  <2>3. answer \in Answers(provider, asset, batch, onChain) \cup {Breaks, Refuses}
    BY <1>1, <1>5 DEF AnswersNow
  <2>. HIDE DEF onChain, batch, answer, provider
  <2>4. answer.err = "none"
    BY <1>7 DEF answer
  <2>5. \E unread \in SUBSET batch : answer = Reads(asset, batch, onChain, unread)
    <3>1. answer # Breaks /\ answer # Refuses
      BY <2>4 DEF Breaks, Refuses
    <3>2. \/ answer \in AllAtOnce(asset, batch, onChain)
          \/ answer \in OneByOne(asset, batch, onChain)
      BY <2>2, <2>3, <3>1 DEF Answers, BlockstreamNative, MempoolNative, BscScanNative,
           BscScanToken, BSCRPCNative, BSCRPCToken, SolanaNative, SolanaToken
    <3> QED  BY <3>1, <3>2 DEF AllAtOnce, OneByOne
  <2>6. PICK unread \in SUBSET batch : answer = Reads(asset, batch, onChain, unread)
    BY <2>5
  <2>. DEFINE Result(i) == [index |-> i, asset |-> asset,
                            balance |-> IF i \in unread THEN "0" ELSE onChain[i],
                            reliable |-> i \notin unread]
  <2>7. answer.results = {Result(i) : i \in batch}
    BY <2>6 DEF Reads
  <2>8. \A i \in batch : /\ Result(i) \in BalanceResult
                         /\ Result(i).index = i /\ Result(i).asset = asset
    <3>1. \A i \in batch : (IF i \in unread THEN "0" ELSE onChain[i]) \in Amount
      BY <2>1 DEF Amount
    <3> QED  BY <2>1, <3>1 DEF BalanceResult
  <2>. HIDE DEF Result
  <2>9. /\ answer.results \subseteq BalanceResult
        /\ \A i \in batch : \E r \in answer.results : r.index = i /\ r.asset = asset
    BY <2>7, <2>8
  <2> QED  BY <2>9 DEF answer, batch
<1> QED
  BY <1>6, <1>7

\* A batch is where its scan is.
LEMMA SameBatch ==
  ASSUME NEW s \in Scans, loc'[s].chain = loc[s].chain, loc'[s].at = loc[s].at,
         loc'[s].max = loc[s].max
  PROVE  Batch(s)' = Batch(s) /\ BatchEnd(s)' = BatchEnd(s)
BY DEF Batch, BatchEnd

\* A scan that goes on with its batch, where it may have missed an asset.
LEMMA MovesOn ==
  ASSUME Inv, NEW s \in Scans, pc[s] \in {"native", "token"},
         NEW next \in {"native", "token", "store"}, NEW u \in Locals,
         u.chain = loc[s].chain, u.scanned = loc[s].scanned, u.at = loc[s].at,
         u.max = loc[s].max, GotoWith(s, next, u),
         UNCHANGED <<cancels, accepted, done, balances, scanState, fresh>>, PoolsOK', EventsOK',
         missed' = missed \/ \E asset \in Asset : Misses(s, asset),
         next = "native" => u.token = 1 /\ u.results = {},
         next = "token" => u.token \in 1 .. Len(Tokens[u.chain]),
         next = "store" => u.token > Len(Tokens[u.chain]),
         next \in {"token", "store"} => InHand(s)'
  PROVE  Inv'
<1>1. pc[s] \in Live /\ next \in Live
  BY DEF Live
<1>2. /\ CoveredBelow(loc[s].chain, loc[s].scanned)
      /\ loc[s].at < loc[s].max /\ loc[s].scanned = loc[s].at
  BY DEF Inv, PositionOK, ScanOK, InBatch
<1>3. ScansOK' /\ pc'[s] = next /\ loc'[s] = u /\ Only(s)
  BY <1>1, GoesOn DEF Inv
<1>4. PICK c \in Chains : c = loc[s].chain
  BY <1>1, LiveScan DEF Inv
<1>5. /\ missed' \in [Chains -> SUBSET Key] /\ missed[c] \subseteq missed'[c]
      /\ \A d \in Chains : d # c => missed'[d] = missed[d]
  <2>1. missed \in [Chains -> SUBSET Key]
    BY DEF Inv, PositionOK
  <2>2. CASE missed' = missed
    BY <2>1, <2>2
  <2>3. ASSUME NEW asset \in Asset, Misses(s, asset)
        PROVE  /\ missed' \in [Chains -> SUBSET Key] /\ missed[c] \subseteq missed'[c]
               /\ \A d \in Chains : d # c => missed'[d] = missed[d]
    <3>1. Batch(s) \X {asset} \subseteq Key
      BY DEF Batch, GetAddressesBatch, Key
    <3>2. missed' = [missed EXCEPT ![c] = missed[c] \cup (Batch(s) \X {asset})]
      BY <1>4, <2>3 DEF Misses
    <3> QED  BY <2>1, <3>1, <3>2
  <2> QED  BY <2>2, <2>3
<1>6. \A n : CoveredBelow(c, n) => CoveredBelow(c, n)'
  BY <1>5 DEF CoveredBelow, Covered
<1>7. RowOK(c)'
  <2>1. RowOK(c)
    BY DEF Inv, PositionOK
  <2>2. PICK n : n = scanState[c].last
    OBVIOUS
  <2>3. RowOK(c)' <=> (scanState[c].exists /\ scanState[c].status # "failed" => CoveredBelow(c, n)')
    BY <2>2 DEF RowOK, CoveredBelow, Covered
  <2> QED  BY <1>6, <2>1, <2>2, <2>3 DEF RowOK
<1>8. ScanOK(s)'
  <2>1. CoveredBelow(loc[s].chain, loc[s].scanned)'
    <3>1. PICK n : n = loc[s].scanned
      OBVIOUS
    <3>2. CoveredBelow(loc[s].chain, loc[s].scanned)' <=> CoveredBelow(c, n)'
      BY <1>3, <1>4, <3>1 DEF CoveredBelow, Covered
    <3> QED  BY <1>2, <1>4, <1>6, <3>1, <3>2
  <2> QED  BY <1>2, <1>3, <2>1 DEF ScanOK, InBatch
<1>9. \A d \in Chains : d # loc[s].chain => SameTables(d)
  BY <1>4, <1>5 DEF SameTables
<1>10. PositionOK'
  <2>1. /\ balances' \in [Chains -> [Key -> StoredAmount]] /\ scanState' \in [Chains -> ScanRow]
        /\ fresh' \in [Chains -> SUBSET Key]
    BY DEF Inv, PositionOK
  <2> QED  BY <1>1, <1>3, <1>4, <1>5, <1>7, <1>8, <1>9, <2>1, PositionStep DEF Inv
<1> QED
  BY <1>3, <1>10 DEF Inv

\* A turn for the native balances: afterwards every address of the batch has one or is missed.
LEMMA FetchNativeInv ==
  ASSUME Inv, NEW s \in Scans, FetchNativeBalances(s)
  PROVE  Inv'
<1>1. /\ pc[s] = "native" /\ pc[s] \in Live
      /\ UNCHANGED <<cancels, accepted, done, balances, scanState, hub, fresh>>
  BY DEF FetchNativeBalances, Live
<1>2. /\ CoveredBelow(loc[s].chain, loc[s].scanned)
      /\ loc[s].token = 1 /\ loc[s].results = {} /\ loc[s].at < loc[s].max
  BY <1>1 DEF Inv, PositionOK, ScanOK, InBatch
<1>3. PICK t \in Turns(s, Native) :
        /\ TakesTurn(s, t)
        /\ \/ /\ t.answer.err = "none"
              /\ GotoWith(s, AfterFetch(s, 1),
                          [loc[s] EXCEPT !.fails = 0, !.tries = 0, !.results = t.answer.results])
              /\ UNCHANGED missed
           \/ /\ GotoWith(s, "native", [loc[s] EXCEPT !.tries = @ + 1])
              /\ UNCHANGED missed
           \/ /\ Ends(s, loc[s], "scanning", "none")
              /\ UNCHANGED missed
           \/ /\ GotoWith(s, AfterFetch(s, 1),
                          [loc[s] EXCEPT !.fails = @ + 1, !.tries = 0, !.nativeFailed = TRUE])
              /\ Misses(s, Native)
  BY DEF FetchNativeBalances
<1>4. Native \in Asset
  BY DEF Asset
<1>5. /\ PoolsOK'
      /\ t.answer.err = "none" =>
            /\ t.answer.results \subseteq BalanceResult
            /\ \A i \in Batch(s) : \E r \in t.answer.results : r.index = i /\ r.asset = Native
  BY <1>1, <1>3, <1>4, TurnPools DEF Inv
<1>6. PICK c \in Chains : c = loc[s].chain
  BY <1>1, LiveScan DEF Inv
<1>7. loc[s] \in Locals
  BY <1>1, LiveScan DEF Inv
<1>8. /\ AfterFetch(s, 1) \in {"token", "store"}
      /\ AfterFetch(s, 1) = "token" => 1 \in 1 .. Len(Tokens[c])
      /\ AfterFetch(s, 1) = "store" => 1 > Len(Tokens[c])
  <2>1. Len(Tokens[c]) \in Nat
    BY ScanDBAssumption
  <2> QED  BY <1>6, <2>1 DEF AfterFetch
<1>9. \A next, u : GotoWith(s, next, u) => loc'[s] = u /\ Only(s)
  BY DEF GotoWith, Goto, Only, Inv, ScansOK
<1>10. {"native", "token", "store"} \subseteq Live
  BY DEF Live
<1>11. ASSUME NEW next \in {"native", "token", "store"}, NEW u \in Locals, u.chain = loc[s].chain,
              GotoWith(s, next, u)
       PROVE  EventsOK'
  <2>1. \A v \in Scans : pc'[v] \in Live => pc[v] \in Live /\ loc'[v].chain = loc[v].chain
    BY <1>1, <1>9, <1>11 DEF Only
  <2> QED  BY <1>1, <2>1, EventsFrame DEF Inv
<1>12. CASE /\ t.answer.err = "none"
            /\ GotoWith(s, AfterFetch(s, 1),
                        [loc[s] EXCEPT !.fails = 0, !.tries = 0, !.results = t.answer.results])
            /\ UNCHANGED missed
  <2>. DEFINE R == t.answer.results
              u == [loc[s] EXCEPT !.fails = 0, !.tries = 0, !.results = R]
  <2>1. GotoWith(s, AfterFetch(s, 1), u) /\ R \in SUBSET BalanceResult
    BY <1>5, <1>12
  <2>2. /\ u \in Locals /\ u.chain = loc[s].chain /\ u.scanned = loc[s].scanned
        /\ u.at = loc[s].at /\ u.max = loc[s].max /\ u.token = loc[s].token /\ u.results = R
    <3>. HIDE DEF R
    <3> QED  BY <1>7, <2>1 DEF Locals
  <2>. HIDE DEF u
  <2>3. InHand(s)'
    <3>1. loc'[s] = u /\ Batch(s)' = Batch(s)
      BY <1>9, <2>1, <2>2, SameBatch
    <3>2. \A i \in Batch(s) : Got(s, i, Native)'
      BY <1>5, <1>12, <2>2, <3>1 DEF Got
    <3>3. \A m \in 1 .. Len(Tokens[c]) : ~(m < 1)
      OBVIOUS
    <3> QED  BY <1>2, <1>6, <2>2, <3>1, <3>2, <3>3 DEF InHand
  <2>4. EventsOK'
    BY <1>8, <1>11, <2>1, <2>2
  <2> QED  BY <1>1, <1>2, <1>5, <1>6, <1>8, <1>12, <2>1, <2>2, <2>3, <2>4, MovesOn
<1>13. CASE GotoWith(s, "native", [loc[s] EXCEPT !.tries = @ + 1]) /\ UNCHANGED missed
  <2>. DEFINE u == [loc[s] EXCEPT !.tries = @ + 1]
  <2>1. /\ u \in Locals /\ u.chain = loc[s].chain /\ u.scanned = loc[s].scanned
        /\ u.at = loc[s].at /\ u.max = loc[s].max /\ u.token = loc[s].token
        /\ u.results = loc[s].results
    BY <1>7, TryLocals
  <2>2. GotoWith(s, "native", u)
    BY <1>13
  <2>. HIDE DEF u
  <2>3. EventsOK'
    BY <1>11, <2>1, <2>2
  <2> QED  BY <1>1, <1>2, <1>5, <1>13, <2>1, <2>2, <2>3, MovesOn
<1>14. CASE Ends(s, loc[s], "scanning", "none") /\ UNCHANGED missed
  <2>1. "scanning" \in ScanStatus
    BY DEF ScanStatus
  <2> QED  BY <1>1, <1>2, <1>5, <1>14, <2>1, EndsInv
<1>15. CASE /\ GotoWith(s, AfterFetch(s, 1),
                        [loc[s] EXCEPT !.fails = @ + 1, !.tries = 0, !.nativeFailed = TRUE])
            /\ Misses(s, Native)
  <2>. DEFINE u == [loc[s] EXCEPT !.fails = @ + 1, !.tries = 0, !.nativeFailed = TRUE]
  <2>1. /\ u \in Locals /\ u.chain = loc[s].chain /\ u.scanned = loc[s].scanned
        /\ u.at = loc[s].at /\ u.max = loc[s].max /\ u.token = loc[s].token
        /\ u.results = loc[s].results
    BY <1>7, NativeFailsLocals
  <2>2. GotoWith(s, AfterFetch(s, 1), u)
    BY <1>15
  <2>. HIDE DEF u
  <2>3. InHand(s)'
    <3>1. loc'[s] = u /\ Batch(s)' = Batch(s)
      BY <1>9, <2>1, <2>2, SameBatch
    <3>2. \A i \in Batch(s) : <<i, Native>> \in missed'[c]
      BY <1>6, <1>15 DEF Misses, Inv, PositionOK
    <3>3. \A i \in Batch(s) : Got(s, i, Native)'
      BY <1>6, <2>1, <3>1, <3>2 DEF Got
    <3>4. \A m \in 1 .. Len(Tokens[c]) : ~(m < 1)
      OBVIOUS
    <3> QED  BY <1>2, <1>6, <2>1, <3>1, <3>3, <3>4 DEF InHand
  <2>4. EventsOK'
    BY <1>8, <1>11, <2>1, <2>2
  <2> QED  BY <1>1, <1>2, <1>4, <1>5, <1>6, <1>8, <1>15, <2>1, <2>2, <2>3, <2>4, MovesOn
<1> QED
  BY <1>3, <1>12, <1>13, <1>14, <1>15

\* A turn for a token: the same for one more asset, or the scan is gone.
LEMMA FetchTokenInv ==
  ASSUME Inv, NEW s \in Scans, FetchTokenBalances(s)
  PROVE  Inv'
<1>. DEFINE tok == loc[s].token
            asset == Tokens[loc[s].chain][tok]
<1>1. /\ pc[s] = "token" /\ pc[s] \in Live
      /\ UNCHANGED <<cancels, accepted, done, balances, scanState, fresh>>
  BY DEF FetchTokenBalances, Live
<1>2. /\ tok \in 1 .. Len(Tokens[loc[s].chain]) /\ InHand(s)
      /\ loc[s].at < loc[s].max
  BY <1>1 DEF Inv, PositionOK, ScanOK, InBatch
<1>3. PICK t \in Turns(s, asset) :
        /\ TakesTurn(s, t)
        /\ \/ /\ t.answer.err = "none"
              /\ GotoWith(s, AfterFetch(s, tok + 1),
                          [loc[s] EXCEPT !.token = @ + 1, !.tries = 0,
                                         !.results = @ \cup t.answer.results])
              /\ UNCHANGED <<hub, missed>>
           \/ /\ GotoWith(s, "token", [loc[s] EXCEPT !.tries = @ + 1])
              /\ UNCHANGED <<hub, missed>>
           \/ /\ GotoWith(s, "remove", [loc[s] EXCEPT !.results = {}])
              /\ UNCHANGED <<hub, missed>>
           \/ /\ GotoWith(s, AfterFetch(s, tok + 1),
                          [loc[s] EXCEPT !.token = @ + 1, !.tries = 0, !.fails = @ + 1])
              /\ hub' = Broadcast(hub, [type |-> "scan_token_error", chain |-> loc[s].chain,
                                        scan |-> s])
              /\ Misses(s, asset)
  BY DEF FetchTokenBalances
<1>4. PICK c \in Chains : c = loc[s].chain
  BY <1>1, LiveScan DEF Inv
<1>5. loc[s] \in Locals
  BY <1>1, LiveScan DEF Inv
<1>6. Len(Tokens[c]) \in Nat /\ tok \in Nat /\ asset \in Asset /\ Tokens[c] # <<>>
  <2>1. Tokens[c] \in Seq(STRING) /\ tok \in 1 .. Len(Tokens[c])
    BY <1>2, <1>4, ScanDBAssumption
  <2>2. Len(Tokens[c]) \in Nat /\ tok \in Nat /\ Tokens[c] # <<>>
    BY <2>1
  <2>3. Tokens[c][tok] \in UNION {{Tokens[d][k] : k \in 1 .. Len(Tokens[d])} : d \in Chains}
    BY <2>1
  <2> QED  BY <1>4, <2>2, <2>3 DEF Asset
<1>7. /\ PoolsOK'
      /\ t.answer.err = "none" =>
            /\ t.answer.results \subseteq BalanceResult
            /\ \A i \in Batch(s) : \E r \in t.answer.results : r.index = i /\ r.asset = asset
  <2>. HIDE DEF asset
  <2> QED  BY <1>1, <1>3, <1>4, <1>6, TurnPools DEF Inv
<1>. DEFINE next == AfterFetch(s, tok + 1)
<1>8. /\ next \in {"token", "store"}
      /\ next = "token" => tok + 1 \in 1 .. Len(Tokens[c])
      /\ next = "store" => tok + 1 > Len(Tokens[c])
  BY <1>4, <1>6 DEF AfterFetch
<1>. HIDE DEF next
<1>9. PICK a \in Asset : a = asset
  BY <1>6
<1>10. \A m \in 1 .. Len(Tokens[c]) : m < tok + 1 => m < tok \/ Tokens[c][m] = a
  BY <1>4, <1>6, <1>9
<1>11. \A to, u : GotoWith(s, to, u) => loc'[s] = u /\ Only(s)
  BY DEF GotoWith, Goto, Only, Inv, ScansOK
<1>12. {"native", "token", "store", "remove"} \subseteq Live
  BY DEF Live
<1>13. ASSUME NEW to, NEW u, u.chain = loc[s].chain, GotoWith(s, to, u)
       PROVE  \A v \in Scans : pc'[v] \in Live => pc[v] \in Live /\ loc'[v].chain = loc[v].chain
  BY <1>1, <1>11, <1>13 DEF Only
<1>14. CASE /\ t.answer.err = "none"
            /\ GotoWith(s, AfterFetch(s, tok + 1),
                        [loc[s] EXCEPT !.token = @ + 1, !.tries = 0,
                                       !.results = @ \cup t.answer.results])
            /\ UNCHANGED <<hub, missed>>
  <2>. DEFINE R == t.answer.results
              u == [loc[s] EXCEPT !.token = @ + 1, !.tries = 0, !.results = @ \cup R]
  <2>1. GotoWith(s, next, u) /\ R \in SUBSET BalanceResult
    BY <1>7, <1>14 DEF next
  <2>2. /\ u \in Locals /\ u.chain = loc[s].chain /\ u.scanned = loc[s].scanned
        /\ u.at = loc[s].at /\ u.max = loc[s].max /\ u.token = tok + 1
        /\ u.results = loc[s].results \cup R
    <3>1. \A l \in Locals, S \in SUBSET BalanceResult :
            LET v == [l EXCEPT !.token = @ + 1, !.tries = 0, !.results = @ \cup S]
            IN  /\ v \in Locals /\ v.chain = l.chain /\ v.scanned = l.scanned
                /\ v.at = l.at /\ v.max = l.max /\ v.token = l.token + 1
                /\ v.results = l.results \cup S
      BY TokenLocals
    <3>2. PICK l \in Locals, S \in SUBSET BalanceResult : l = loc[s] /\ S = R
      BY <1>5, <2>1
    <3>. HIDE DEF R
    <3> QED  BY <3>1, <3>2, Zenon
  <2>. HIDE DEF u
  <2>3. InHand(s)'
    <3>1. loc'[s] = u /\ Batch(s)' = Batch(s)
      BY <1>11, <2>1, <2>2, SameBatch
    <3>2. \A i, b : Got(s, i, b) => Got(s, i, b)'
      BY <1>14, <2>2, <3>1 DEF Got
    <3>3. \A i \in Batch(s) : Got(s, i, a)'
      BY <1>7, <1>9, <1>14, <2>2, <3>1 DEF Got
    <3>4. ASSUME NEW i \in Batch(s)
          PROVE  /\ Got(s, i, Native)'
                 /\ \A m \in 1 .. Len(Tokens[c]) : m < tok + 1 => Got(s, i, Tokens[c][m])'
      BY <1>2, <1>4, <1>10, <3>2, <3>3 DEF InHand
    <3> QED  BY <1>4, <2>2, <3>1, <3>4 DEF InHand
  <2>4. EventsOK'
    BY <1>1, <1>13, <1>14, <2>1, <2>2, EventsFrame DEF Inv
  <2> QED  BY <1>1, <1>4, <1>7, <1>8, <1>14, <2>1, <2>2, <2>3, <2>4, MovesOn
<1>15. CASE GotoWith(s, "token", [loc[s] EXCEPT !.tries = @ + 1]) /\ UNCHANGED <<hub, missed>>
  <2>. DEFINE u == [loc[s] EXCEPT !.tries = @ + 1]
  <2>1. /\ u \in Locals /\ u.chain = loc[s].chain /\ u.scanned = loc[s].scanned
        /\ u.at = loc[s].at /\ u.max = loc[s].max /\ u.token = tok
        /\ u.results = loc[s].results
    BY <1>5, TryLocals
  <2>2. GotoWith(s, "token", u)
    BY <1>15
  <2>. HIDE DEF u
  <2>3. InHand(s)'
    <3>1. loc'[s] = u /\ Batch(s)' = Batch(s)
      BY <1>11, <2>1, <2>2, SameBatch
    <3>2. \A i, b : Got(s, i, b) => Got(s, i, b)'
      BY <1>15, <2>1, <3>1 DEF Got
    <3> QED  BY <1>2, <2>1, <3>1, <3>2 DEF InHand
  <2>4. EventsOK'
    BY <1>1, <1>13, <1>15, <2>1, <2>2, EventsFrame DEF Inv
  <2> QED  BY <1>1, <1>2, <1>7, <1>15, <2>1, <2>2, <2>3, <2>4, MovesOn
<1>16. CASE GotoWith(s, "remove", [loc[s] EXCEPT !.results = {}]) /\ UNCHANGED <<hub, missed>>
  <2>. DEFINE u == [loc[s] EXCEPT !.results = {}]
  <2>1. u \in Locals /\ u.chain = loc[s].chain
    BY <1>5, DropLocals
  <2>2. GotoWith(s, "remove", u)
    BY <1>16
  <2>. HIDE DEF u
  <2>3. ScansOK' /\ pc'[s] = "remove" /\ loc'[s] = u /\ Only(s)
    BY <1>1, <1>12, <2>1, <2>2, GoesOn DEF Inv
  <2>4. EventsOK'
    BY <1>1, <1>13, <1>16, <2>1, <2>2, EventsFrame DEF Inv
  <2>5. ScanOK(s)'
    BY <2>3 DEF ScanOK, InBatch
  <2> QED  BY <1>1, <1>7, <1>16, <2>3, <2>4, <2>5, QuietPosition DEF Inv
<1>17. CASE /\ GotoWith(s, AfterFetch(s, tok + 1),
                        [loc[s] EXCEPT !.token = @ + 1, !.tries = 0, !.fails = @ + 1])
            /\ hub' = Broadcast(hub, [type |-> "scan_token_error", chain |-> loc[s].chain,
                                      scan |-> s])
            /\ Misses(s, asset)
  <2>. DEFINE u == [loc[s] EXCEPT !.token = @ + 1, !.tries = 0, !.fails = @ + 1]
  <2>1. /\ u \in Locals /\ u.chain = loc[s].chain /\ u.scanned = loc[s].scanned
        /\ u.at = loc[s].at /\ u.max = loc[s].max /\ u.token = tok + 1
        /\ u.results = loc[s].results
    BY <1>5, TokenFailsLocals
  <2>2. GotoWith(s, next, u)
    BY <1>17 DEF next
  <2>. HIDE DEF u
  <2>3. InHand(s)'
    <3>1. loc'[s] = u /\ Batch(s)' = Batch(s)
      BY <1>11, <2>1, <2>2, SameBatch
    <3>2. missed' = [missed EXCEPT ![c] = missed[c] \cup (Batch(s) \X {asset})]
      BY <1>4, <1>17 DEF Misses
    <3>3. missed[c] \subseteq missed'[c] /\ \A i \in Batch(s) : <<i, asset>> \in missed'[c]
      BY <3>2 DEF Inv, PositionOK
    <3>4. \A i, b : Got(s, i, b) => Got(s, i, b)'
      BY <1>4, <2>1, <3>1, <3>3 DEF Got
    <3>5. \A i \in Batch(s) : Got(s, i, a)'
      BY <1>4, <1>9, <2>1, <3>1, <3>3 DEF Got
    <3>6. ASSUME NEW i \in Batch(s)
          PROVE  /\ Got(s, i, Native)'
                 /\ \A m \in 1 .. Len(Tokens[c]) : m < tok + 1 => Got(s, i, Tokens[c][m])'
      BY <1>2, <1>4, <1>10, <3>4, <3>5 DEF InHand
    <3> QED  BY <1>4, <2>1, <3>1, <3>6 DEF InHand
  <2>4. EventsOK'
    <3>1. "scan_token_error" \in EventType
      BY DEF EventType
    <3> QED  BY <1>1, <1>13, <1>17, <2>1, <2>2, <3>1, BroadcastOK DEF Inv
  <2> QED  BY <1>1, <1>4, <1>6, <1>7, <1>8, <1>17, <2>1, <2>2, <2>3, <2>4, MovesOn
<1> QED
  BY <1>3, <1>14, <1>15, <1>16, <1>17

-----------------------------------------------------------------------------
(* The end of a batch and of a scan *)

\* The upsert leaves no result without a row, and deletes none.
LEMMA UpsertedRows ==
  ASSUME NEW table \in [Chains -> [Key -> StoredAmount]], NEW c \in Chains,
         NEW R \in SUBSET BalanceResult
  PROVE  /\ UpsertBalanceBatch(table, c, R) \in [Chains -> [Key -> StoredAmount]]
         /\ \A d \in Chains : d # c => UpsertBalanceBatch(table, c, R)[d] = table[d]
         /\ \A key \in Key : table[c][key] # "none" => UpsertBalanceBatch(table, c, R)[c][key] # "none"
         /\ \A r \in R : UpsertBalanceBatch(table, c, R)[c][<<r.index, r.asset>>] # "none"
<1>. DEFINE Written(key) == {r \in R : r.index = key[1] /\ r.asset = key[2]}
            cell(key) == IF Written(key) = {} THEN table[c][key]
                         ELSE (CHOOSE r \in Written(key) : TRUE).balance
            after == UpsertBalanceBatch(table, c, R)
<1>1. after = [table EXCEPT ![c] = [key \in Key |-> cell(key)]]
  BY DEF UpsertBalanceBatch, Key
<1>2. ASSUME NEW key \in Key
      PROVE  /\ Written(key) = {} => cell(key) = table[c][key]
             /\ Written(key) # {} => cell(key) \in Amount
  <2>1. CASE Written(key) # {}
    <3>. DEFINE r == CHOOSE r \in Written(key) : TRUE
    <3>1. r \in Written(key)
      <4>. HIDE DEF Written
      <4> QED  BY <2>1
    <3>2. r \in BalanceResult
      BY <3>1
    <3>3. cell(key) = r.balance
      BY <2>1
    <3>. HIDE DEF r, cell, Written
    <3> QED  BY <2>1, <3>2, <3>3 DEF BalanceResult
  <2> QED  BY <2>1
<1>3. \A key \in Key : cell(key) \in StoredAmount
  BY <1>2 DEF StoredAmount
<1>4. \A r \in R : <<r.index, r.asset>> \in Key /\ r \in Written(<<r.index, r.asset>>)
  BY DEF BalanceResult, Key
<1>5. "none" \notin Amount
  BY DEF Amount
<1>. HIDE DEF cell, after, Written
<1>6. /\ after \in [Chains -> [Key -> StoredAmount]]
      /\ \A d \in Chains : d # c => after[d] = table[d]
      /\ \A key \in Key : after[c][key] = cell(key)
  BY <1>1, <1>3
<1> QED
  BY <1>2, <1>4, <1>5, <1>6 DEF after

\* With the transaction the position moves to the end of the batch and covers it: every
\* address of the batch has its results, which are stored now, or is missed.
LEMMA StoreBatchInv ==
  ASSUME Inv, NEW s \in Scans, StoreBatch(s)
  PROVE  Inv'
<1>1. /\ pc[s] = "store" /\ pc[s] \in Live /\ {"report", "write"} \subseteq Live
      /\ UNCHANGED <<cancels, accepted, done, pools, health, hub, missed, unwritten>>
  BY DEF StoreBatch, Live
<1>2. /\ CoveredBelow(loc[s].chain, loc[s].scanned) /\ InHand(s)
      /\ loc[s].at < loc[s].max /\ loc[s].scanned = loc[s].at
      /\ loc[s].token > Len(Tokens[loc[s].chain])
  BY <1>1 DEF Inv, PositionOK, ScanOK, InBatch
<1>3. loc[s] \in Locals /\ loc[s].results \subseteq BalanceResult /\ loc[s].at \in Nat
      /\ loc[s].token \in Nat /\ loc[s].max \in Nat
  BY <1>1, LiveScan, Fields DEF Inv
<1>4. PICK c \in Chains : c = loc[s].chain
  BY <1>1, LiveScan DEF Inv
<1>5. PICK end \in Nat : /\ end = BatchEnd(s) /\ loc[s].at < end
                         /\ \A i \in Index : i \in Batch(s) <=>
                               loc[s].at <= i /\ i < end /\ i < AddressCount[c]
  BY <1>2, <1>3, <1>4, BatchBounds
<1>6. PoolsOK'
  BY <1>1, PoolsFrame DEF Inv
<1>. DEFINE stored == [loc[s] EXCEPT !.scanned = BatchEnd(s), !.results = {}]
            ended == [stored EXCEPT !.status = "failed", !.event = "scan_error", !.results = {}]
<1>7. /\ stored \in Locals /\ stored.chain = c /\ stored.scanned = end
      /\ stored.at = loc[s].at /\ stored.max = loc[s].max
  <2>1. stored = [loc[s] EXCEPT !.scanned = end, !.results = {}]
    BY <1>5
  <2> QED  BY <1>3, <1>4, <2>1 DEF Locals
<1>8. ASSUME NEW i \in Index, NEW a \in Assets(c), i < end, i < AddressCount[c]
      PROVE  Covered(c, <<i, a>>) \/ Got(s, i, a)
  <2>1. CASE i < loc[s].at
    BY <1>2, <1>4, <1>8, <2>1 DEF CoveredBelow
  <2>2. CASE loc[s].at <= i
    <3>1. i \in Batch(s)
      BY <1>5, <1>8, <2>2
    <3>2. \A m \in 1 .. Len(Tokens[c]) : m < loc[s].token
      <4>1. Len(Tokens[c]) \in Nat
        BY ScanDBAssumption
      <4> QED  BY <1>2, <1>3, <1>4, <4>1
    <3> QED  BY <1>2, <1>4, <3>1, <3>2 DEF InHand, Assets
  <2> QED  BY <1>3, <2>1, <2>2, ScanDBAssumption
<1>9. \A to, u : GotoWith(s, to, u) => loc'[s] = u /\ Only(s)
  BY DEF GotoWith, Goto, Only, Inv, ScansOK
<1>10. ASSUME NEW to \in Live, NEW u \in Locals, u.chain = c, GotoWith(s, to, u)
       PROVE  ScansOK' /\ EventsOK' /\ pc'[s] = to /\ loc'[s] = u /\ Only(s)
  <2>1. ScansOK' /\ pc'[s] = to /\ loc'[s] = u /\ Only(s)
    BY <1>1, <1>4, <1>10, GoesOn DEF Inv
  <2>2. \A v \in Scans : pc'[v] \in Live => pc[v] \in Live /\ loc'[v].chain = loc[v].chain
    BY <1>1, <1>4, <1>10, <2>1 DEF Only
  <2> QED  BY <1>1, <2>1, <2>2, EventsFrame DEF Inv
<1>11. ASSUME NEW u \in Locals, u = stored, GotoWith(s, "report", u), CoveredBelow(c, end)'
       PROVE  ScanOK(s)'
  <2>1. pc'[s] = "report" /\ loc'[s] = u
    BY <1>1, <1>7, <1>10, <1>11
  <2>2. BatchEnd(s)' = end
    BY <1>4, <1>5, <1>7, <1>11, <2>1, SameBatch
  <2>3. CoveredBelow(loc[s].chain, loc[s].scanned)'
    BY <1>7, <1>11, <2>1 DEF CoveredBelow, Covered
  <2>. HIDE DEF stored
  <2> QED  BY <1>2, <1>7, <1>11, <2>1, <2>2, <2>3 DEF ScanOK, InBatch
<1>12. CASE GotoWith(s, "report", stored) /\ Commits(s, c)
  <2>1. PICK u \in Locals : u = stored
    BY <1>7
  <2>2. ScansOK' /\ EventsOK' /\ Only(s)
    BY <1>1, <1>7, <1>10, <1>12, <2>1
  <2>. DEFINE row == [exists |-> TRUE, last |-> end, max |-> loc[s].max, status |-> "scanning"]
  <2>3. /\ balances' = UpsertBalanceBatch(balances, c, loc[s].results)
        /\ fresh' = [fresh EXCEPT ![c] = fresh[c] \cup StoredKeys(loc[s].results)]
        /\ scanState' = [scanState EXCEPT ![c] = row]
    BY <1>5, <1>12 DEF Commits, UpsertScanState
  <2>4. /\ balances' \in [Chains -> [Key -> StoredAmount]]
        /\ \A d \in Chains : d # c => balances'[d] = balances[d]
        /\ \A key \in Key : balances[c][key] # "none" => balances'[c][key] # "none"
        /\ \A r \in loc[s].results : balances'[c][<<r.index, r.asset>>] # "none"
    <3>1. PICK table \in [Chains -> [Key -> StoredAmount]], R \in SUBSET BalanceResult :
             table = balances /\ R = loc[s].results
      BY <1>3 DEF Inv, PositionOK
    <3> QED  BY <2>3, <3>1, UpsertedRows
  <2>5. /\ StoredKeys(loc[s].results) \subseteq Key
        /\ \A r \in loc[s].results : <<r.index, r.asset>> \in StoredKeys(loc[s].results)
    BY <1>3 DEF StoredKeys, BalanceResult, Key
  <2>6. row \in ScanRow /\ row.last = end
    BY <1>3 DEF ScanRow, ScanStatus
  <2>. HIDE DEF row
  <2>7. /\ scanState' \in [Chains -> ScanRow] /\ scanState'[c].last = end
        /\ fresh' \in [Chains -> SUBSET Key] /\ fresh'[c] = fresh[c] \cup StoredKeys(loc[s].results)
        /\ \A d \in Chains : d # c => SameTables(d)
    BY <1>1, <2>3, <2>4, <2>5, <2>6 DEF Inv, PositionOK, SameTables
  <2>8. \A i \in Index, a \in Assets(c) : <<i, a>> \in Key
    BY DEF Assets, Asset, Key
  <2>9. CoveredBelow(c, end)'
    <3>1. ASSUME NEW i \in Index, NEW a \in Assets(c), i < end, i < AddressCount[c]
          PROVE  Covered(c, <<i, a>>)'
      <4>1. CASE Covered(c, <<i, a>>)
        BY <1>1, <2>4, <2>7, <2>8, <4>1 DEF Covered
      <4>2. CASE Got(s, i, a)
        BY <1>1, <1>4, <2>4, <2>5, <2>7, <4>2 DEF Covered, Got
      <4> QED  BY <1>8, <3>1, <4>1, <4>2
    <3> QED  BY <3>1 DEF CoveredBelow
  <2>10. RowOK(c)'
    BY <2>7, <2>9 DEF RowOK, CoveredBelow, Covered
  <2>11. ScanOK(s)'
    BY <1>11, <1>12, <2>1, <2>9
  <2>12. missed' \in [Chains -> SUBSET Key]
    BY <1>1 DEF Inv, PositionOK
  <2>13. PositionOK'
    BY <1>1, <1>4, <2>2, <2>4, <2>7, <2>10, <2>11, <2>12, PositionStep DEF Inv
  <2> QED  BY <1>6, <2>2, <2>13 DEF Inv
<1>13. CASE /\ loc[s].results = {}
            /\ GotoWith(s, "report", stored)
            /\ UNCHANGED <<balances, scanState, fresh>>
  <2>1. PICK u \in Locals : u = stored
    BY <1>7
  <2>2. ScansOK' /\ EventsOK' /\ Only(s)
    BY <1>1, <1>7, <1>10, <1>13, <2>1
  <2>3. CoveredBelow(c, end)'
    BY <1>1, <1>4, <1>8, <1>13 DEF CoveredBelow, Covered, Got
  <2>4. ScanOK(s)'
    BY <1>11, <1>13, <2>1, <2>3
  <2> QED  BY <1>1, <1>6, <1>13, <2>2, <2>4, QuietPosition DEF Inv
<1>14. CASE Ends(s, stored, "failed", "scan_error") /\ UNCHANGED <<balances, scanState, fresh>>
  <2>1. ended \in Locals /\ ended.chain = c /\ ended.status = "failed"
    <3>. HIDE DEF stored
    <3>1. stored \in Locals /\ stored.chain = c /\ "failed" \in ScanStatus
      BY <1>7 DEF ScanStatus
    <3> QED  BY <3>1, EndLocals
  <2>2. GotoWith(s, "write", ended)
    BY <1>14 DEF Ends
  <2>. HIDE DEF ended, stored
  <2>3. ScansOK' /\ EventsOK' /\ Only(s) /\ pc'[s] = "write" /\ loc'[s] = ended
    BY <1>1, <1>10, <2>1, <2>2
  <2>4. ScanOK(s)'
    BY <2>1, <2>3 DEF ScanOK, InBatch
  <2> QED  BY <1>1, <1>6, <1>14, <2>3, <2>4, QuietPosition DEF Inv
<1> QED
  BY <1>4, <1>12, <1>13, <1>14 DEF StoreBatch

\* The next batch begins where this one ended, or the loop is over.
LEMMA ReportInv ==
  ASSUME Inv, NEW s \in Scans, Report(s)
  PROVE  Inv'
<1>1. /\ pc[s] = "report" /\ pc[s] \in Live /\ "loop" \in Live
      /\ UNCHANGED <<cancels, accepted, done, pools, balances, scanState, health,
                     fresh, missed, unwritten>>
  BY DEF Report, Live, tableVars, ghostVars
<1>2. /\ CoveredBelow(loc[s].chain, loc[s].scanned)
      /\ loc[s].at < loc[s].max /\ loc[s].scanned = BatchEnd(s)
  BY <1>1 DEF Inv, PositionOK, ScanOK, InBatch
<1>3. PoolsOK'
  BY <1>1, PoolsFrame DEF Inv
<1>4. loc[s] \in Locals
  BY <1>1, LiveScan DEF Inv
<1>5. CASE Ends(s, loc[s], "failed", "scan_error") /\ UNCHANGED hub
  <2>1. "failed" \in ScanStatus
    BY DEF ScanStatus
  <2> QED  BY <1>1, <1>3, <1>5, <2>1, EndsInv
<1>6. CASE /\ hub' = Broadcast(hub, [type |-> "scan_progress", chain |-> loc[s].chain, scan |-> s])
           /\ GotoWith(s, "loop", [loc[s] EXCEPT !.at = NextAt(s)])
  <2>1. PICK next \in Nat : next = NextAt(s) /\ (next < loc[s].max => BatchEnd(s) = next)
    BY <1>2, <1>4, BatchBounds
  <2>. DEFINE u == [loc[s] EXCEPT !.at = next]
  <2>2. /\ u \in Locals /\ u.chain = loc[s].chain /\ u.scanned = loc[s].scanned
        /\ u.at = next /\ u.max = loc[s].max
    BY <1>4, AtLocals
  <2>3. GotoWith(s, "loop", u)
    BY <1>6, <2>1
  <2>. HIDE DEF u
  <2>4. ScansOK' /\ pc'[s] = "loop" /\ loc'[s] = u /\ Only(s)
    BY <1>1, <2>2, <2>3, GoesOn DEF Inv
  <2>5. EventsOK'
    <3>1. "scan_progress" \in EventType
      BY DEF EventType
    <3>2. \A v \in Scans : pc'[v] \in Live => pc[v] \in Live /\ loc'[v].chain = loc[v].chain
      BY <1>1, <2>2, <2>4 DEF Only
    <3> QED  BY <1>1, <1>6, <3>1, <3>2, BroadcastOK DEF Inv
  <2>6. ScanOK(s)'
    <3>1. CoveredBelow(loc[s].chain, loc[s].scanned)'
      BY <1>1, <1>2, <2>2, <2>4 DEF CoveredBelow, Covered
    <3> QED  BY <1>2, <2>1, <2>2, <2>4, <3>1 DEF ScanOK, InBatch
  <2> QED  BY <1>1, <1>3, <2>4, <2>5, <2>6, QuietPosition DEF Inv
<1> QED
  BY <1>5, <1>6 DEF Report

\* The last row a scan writes says what it covered.
LEMMA WriteFinalInv ==
  ASSUME Inv, NEW s \in Scans, WriteFinal(s)
  PROVE  Inv'
<1>1. /\ pc[s] = "write" /\ pc[s] \in Live /\ {"remove", "announce"} \subseteq Live
      /\ UNCHANGED <<cancels, accepted, loc, done, pools, balances, health, hub, fresh, missed,
                     unwritten>>
  BY DEF WriteFinal, Live, ghostVars
<1>2. PICK c \in Chains : c = loc[s].chain
  BY <1>1, LiveScan DEF Inv
<1>3. PICK n \in Nat, max \in Nat, status \in ScanStatus :
        n = loc[s].scanned /\ max = loc[s].max /\ status = loc[s].status
  BY <1>1, LiveScan, Fields DEF Inv
<1>4. status # "failed" => CoveredBelow(c, n)
  BY <1>1, <1>2, <1>3 DEF Inv, PositionOK, ScanOK
<1>5. PICK next \in {"remove", "announce"} :
        Goto(s, next) /\ (next = "announce" => loc[s].event # "none")
  BY DEF WriteFinal
<1>6. ScansOK' /\ pc'[s] = next /\ loc'[s] = loc[s] /\ Only(s)
  BY <1>1, <1>5, GoesOnPlainly DEF Inv
<1>7. EventsOK' /\ PoolsOK'
  <2>1. \A v \in Scans : pc'[v] \in Live => pc[v] \in Live /\ loc'[v].chain = loc[v].chain
    BY <1>1, <1>6 DEF Only
  <2> QED  BY <1>1, <2>1, EventsFrame, PoolsFrame DEF Inv
<1>8. ScanOK(s)'
  BY <1>5, <1>6 DEF ScanOK, InBatch
<1>9. CASE Writes(s, loc[s].status, TRUE)
  <2>. DEFINE row == [exists |-> TRUE, last |-> n, max |-> max, status |-> status]
  <2>1. row \in ScanRow /\ row.last = n /\ row.status = status
    BY DEF ScanRow
  <2>2. scanState' = [scanState EXCEPT ![c] = row]
    BY <1>2, <1>3, <1>9 DEF Writes, UpsertScanState
  <2>. HIDE DEF row
  <2>3. /\ scanState' \in [Chains -> ScanRow] /\ scanState'[c] = row
        /\ \A d \in Chains : d # c => SameTables(d)
    BY <1>1, <2>1, <2>2 DEF Inv, PositionOK, SameTables
  <2>4. RowOK(c)'
    BY <1>1, <1>4, <2>1, <2>3 DEF RowOK, CoveredBelow, Covered
  <2>5. /\ balances' \in [Chains -> [Key -> StoredAmount]]
        /\ fresh' \in [Chains -> SUBSET Key] /\ missed' \in [Chains -> SUBSET Key]
    BY <1>1 DEF Inv, PositionOK
  <2>6. PositionOK'
    BY <1>1, <1>2, <1>6, <1>8, <2>3, <2>4, <2>5, PositionStep DEF Inv
  <2> QED  BY <1>6, <1>7, <2>6 DEF Inv
<1>10. CASE Writes(s, loc[s].status, FALSE)
  <2>1. scanState' = scanState
    BY <1>10 DEF Writes
  <2> QED  BY <1>1, <1>6, <1>7, <1>8, <2>1, QuietPosition DEF Inv
<1> QED
  BY <1>9, <1>10 DEF WriteFinal

\* The end is announced while the scan is still the one of its chain.
LEMMA AnnounceInv ==
  ASSUME Inv, NEW s \in Scans, Announce(s)
  PROVE  Inv'
<1>1. /\ pc[s] = "announce" /\ pc[s] \in Live /\ "remove" \in Live /\ Goto(s, "remove")
      /\ UNCHANGED <<cancels, accepted, loc, done, pools, balances, scanState, health,
                     fresh, missed, unwritten>>
  BY DEF Announce, Live, tableVars, ghostVars
<1>2. ScansOK' /\ pc'[s] = "remove" /\ loc'[s] = loc[s] /\ Only(s)
  BY <1>1, GoesOnPlainly DEF Inv
<1>3. EventsOK'
  <2>1. loc[s].event \in EventType
    <3>1. loc[s] \in Locals /\ loc[s].event # "none"
      BY <1>1, LiveScan DEF Inv, PositionOK, ScanOK
    <3> QED  BY <3>1, Fields DEF EventType
  <2>2. \A v \in Scans : pc'[v] \in Live => pc[v] \in Live /\ loc'[v].chain = loc[v].chain
    BY <1>1, <1>2 DEF Only
  <2>3. PICK type \in EventType : type = loc[s].event
    BY <2>1
  <2>4. hub' = Broadcast(hub, [type |-> type, chain |-> loc[s].chain, scan |-> s])
    BY <2>3 DEF Announce
  <2> QED  BY <1>1, <2>2, <2>4, BroadcastOK DEF Inv
<1>4. PoolsOK'
  BY <1>1, PoolsFrame DEF Inv
<1>5. ScanOK(s)'
  BY <1>2 DEF ScanOK, InBatch
<1> QED
  BY <1>1, <1>2, <1>3, <1>4, <1>5, QuietPosition DEF Inv

\* What removeScan takes out of the map is the scan itself: no other is on its chain.
LEMMA RemoveScanInv ==
  ASSUME Inv, NEW s \in Scans, RemoveScan(s)
  PROVE  Inv'
<1>1. /\ pc[s] = "remove" /\ pc[s] \in Live /\ "over" \in PC /\ "over" \notin Live
      /\ UNCHANGED <<accepted, pools, balances, scanState, health, hub, fresh, missed, unwritten>>
  BY DEF RemoveScan, Live, PC, tableVars, ghostVars
<1>2. PICK c \in Chains : c = loc[s].chain
  BY <1>1, LiveScan DEF Inv
<1>3. /\ cancels' = [cancels EXCEPT ![c] = NoScan] /\ done' = done \ {s}
      /\ pc' = [pc EXCEPT ![s] = "over"]
      /\ loc' = [loc EXCEPT ![s] = NewLocals(c, 0)]
  BY <1>2 DEF RemoveScan, GotoWith, Goto
<1>4. pc'[s] = "over" /\ loc'[s] = NewLocals(c, 0) /\ Only(s)
  BY <1>3 DEF Inv, ScansOK, Only
<1>5. ScansOK'
  <2>1. NewLocals(c, 0) \in Locals
    BY NewLocalsOK
  <2>2. \A v \in Scans : pc'[v] # "new" => loc'[v] \in Locals
    BY <1>4, <2>1 DEF Inv, ScansOK, Only
  <2>3. \A v \in Scans : pc'[v] = "new" <=> v > accepted'
    BY <1>1, <1>4 DEF Inv, ScansOK, Only
  <2>4. LiveScanOwnsChain'
    <3>1. ASSUME NEW v \in Scans, pc'[v] \in Live
          PROVE  cancels'[loc'[v].chain] = v
      <4>1. v # s /\ pc'[v] = pc[v] /\ loc'[v] = loc[v]
        BY <1>1, <1>4, <3>1 DEF Only
      <4>2. loc[v].chain \in Chains /\ loc[v].chain # c /\ cancels[loc[v].chain] = v
        BY <1>1, <1>2, <3>1, <4>1, LiveScan DEF Inv, ScansOK, LiveScanOwnsChain
      <4> QED  BY <1>3, <4>1, <4>2 DEF Inv, ScansOK
    <3> QED  BY <3>1 DEF LiveScanOwnsChain
  <2>5. /\ cancels' \in [Chains -> Scans \cup {NoScan}] /\ done' \subseteq Scans
        /\ pc' \in [Scans -> PC] /\ DOMAIN loc' = Scans /\ accepted' \in 0 .. MaxScans
    BY <1>1, <1>3 DEF Inv, ScansOK
  <2> QED  BY <2>2, <2>3, <2>4, <2>5 DEF ScansOK
<1>6. EventsOK' /\ PoolsOK'
  <2>1. \A v \in Scans : pc'[v] \in Live => pc[v] \in Live /\ loc'[v].chain = loc[v].chain
    BY <1>1, <1>4 DEF Only
  <2> QED  BY <1>1, <2>1, EventsFrame, PoolsFrame DEF Inv
<1>7. ScanOK(s)'
  BY <1>4 DEF ScanOK, InBatch
<1> QED
  BY <1>1, <1>4, <1>5, <1>6, <1>7, QuietPosition DEF Inv

-----------------------------------------------------------------------------
(* Requests, the clock, clients and the process *)

\* Tables that stay, and scans that stay or hold nothing yet.
LEMMA PositionFrame ==
  ASSUME PositionOK, UNCHANGED <<balances, scanState, fresh, missed>>,
         \A v \in Scans : (pc'[v] = pc[v] /\ loc'[v] = loc[v]) \/ ScanOK(v)'
  PROVE  PositionOK'
<1>1. ASSUME NEW v \in Scans
      PROVE  ScanOK(v)'
  <2>1. CASE pc'[v] = pc[v] /\ loc'[v] = loc[v]
    <3>1. PICK c : c = loc[v].chain
      OBVIOUS
    <3>2. \A i \in Index, a \in Assets(c) : Covered(c, <<i, a>>) => Covered(c, <<i, a>>)'
      BY DEF Covered
    <3>3. ScanOK(v) /\ missed[c] \subseteq missed'[c]
      BY DEF PositionOK
    <3> QED  BY <2>1, <3>1, <3>2, <3>3, KeepsScan
  <2> QED  BY <2>1
<1>2. \A c \in Chains : RowOK(c)'
  BY DEF PositionOK, RowOK, CoveredBelow, Covered
<1> QED
  BY <1>1, <1>2 DEF PositionOK

\* A chain whose map entry is free has no live scan.
LEMMA StartScanInv ==
  ASSUME Inv, NEW c \in Chains, NEW max \in MaxIDs, StartScan(c, max)
  PROVE  Inv'
<1>0. PICK s \in Scans : s = accepted + 1
  BY ScannerAssumption DEF Inv, ScansOK, StartScan, Scans
<1>1. /\ s \in Nat /\ s > accepted /\ accepted' = s /\ accepted \in Nat
      /\ s \in 0 .. MaxScans /\ cancels[c] = NoScan
      /\ UNCHANGED <<done, pools, balances, scanState, health, hub, used, fresh, missed, unwritten>>
  BY <1>0, ScannerAssumption DEF Inv, ScansOK, StartScan, Scans, tableVars, ghostVars
<1>2. pc[s] = "new" /\ "begin" \in PC /\ "begin" \in Live /\ "new" \notin Live
  BY <1>1 DEF Inv, ScansOK, PC, Live
<1>3. /\ NewLocals(c, max) \in Locals /\ NewLocals(c, max).chain = c
      /\ NewLocals(c, max).at = 0 /\ NewLocals(c, max).scanned = 0
      /\ NewLocals(c, max).max > 0
  <2>1. max \in Nat /\ max > 0
    BY ScannerAssumption
  <2> QED  BY <2>1, NewLocalsOK
<1>4. /\ cancels' = [cancels EXCEPT ![c] = s] /\ pc' = [pc EXCEPT ![s] = "begin"]
      /\ loc' = [loc EXCEPT ![s] = NewLocals(c, max)]
  BY <1>0 DEF StartScan, GotoWith, Goto
<1>5. pc'[s] = "begin" /\ loc'[s] = NewLocals(c, max) /\ Only(s)
  BY <1>1, <1>4 DEF Inv, ScansOK, Only
<1>6. ScansOK'
  <2>1. \A v \in Scans : pc'[v] # "new" => loc'[v] \in Locals
    BY <1>3, <1>5 DEF Inv, ScansOK, Only
  <2>2. \A v \in Scans : pc'[v] = "new" <=> v > accepted'
    <3>1. ASSUME NEW v \in Scans, v # s
          PROVE  v > s <=> v > accepted
      BY <1>0, <1>1, <3>1 DEF Scans
    <3>2. ~(s > s)
      BY <1>1
    <3> QED  BY <1>1, <1>5, <3>1, <3>2 DEF Inv, ScansOK, Only
  <2>3. LiveScanOwnsChain'
    <3>1. ASSUME NEW v \in Scans, pc'[v] \in Live
          PROVE  cancels'[loc'[v].chain] = v
      <4>1. CASE v = s
        BY <1>3, <1>4, <1>5, <4>1 DEF Inv, ScansOK
      <4>2. CASE v # s
        <5>1. pc'[v] = pc[v] /\ loc'[v] = loc[v]
          BY <1>5, <4>2 DEF Only
        <5>2. loc[v].chain \in Chains /\ cancels[loc[v].chain] = v /\ v # NoScan
          BY <3>1, <5>1, LiveScan DEF Inv, ScansOK, LiveScanOwnsChain, Scans, NoScan
        <5> QED  BY <1>1, <1>4, <5>1, <5>2 DEF Inv, ScansOK
      <4> QED  BY <4>1, <4>2
    <3> QED  BY <3>1 DEF LiveScanOwnsChain
  <2>4. /\ cancels' \in [Chains -> Scans \cup {NoScan}] /\ done' \subseteq Scans
        /\ pc' \in [Scans -> PC] /\ DOMAIN loc' = Scans /\ accepted' \in 0 .. MaxScans
    BY <1>1, <1>2, <1>4 DEF Inv, ScansOK
  <2> QED  BY <2>1, <2>2, <2>3, <2>4 DEF ScansOK
<1>7. EventsOK'
  <2>1. ASSUME NEW k \in Clients, NEW n \in 1 .. Len(hub[k].queue)
        PROVE  /\ hub[k].queue[n].scan <= accepted'
               /\ \A v \in Scans : pc'[v] \in Live /\ loc'[v].chain = hub[k].queue[n].chain =>
                     hub[k].queue[n].scan <= v
    <3>1. hub[k].queue[n].scan \in Nat
      <4>1. hub[k].queue \in Seq(Event)
        BY DEF Inv, EventsOK
      <4>2. hub[k].queue[n] \in Event
        BY <4>1
      <4> QED  BY <4>2 DEF Event, Scans
    <3>2. hub[k].queue[n].scan <= accepted
      BY DEF Inv, EventsOK
    <3>3. hub[k].queue[n].scan <= s
      BY <1>1, <3>1, <3>2
    <3>4. ASSUME NEW v \in Scans \ {s}, pc'[v] \in Live, loc'[v].chain = hub[k].queue[n].chain
          PROVE  hub[k].queue[n].scan <= v
      <4>1. pc[v] \in Live /\ loc[v].chain = hub[k].queue[n].chain
        BY <1>5, <3>4 DEF Only
      <4> QED  BY <4>1 DEF Inv, EventsOK
    <3> QED  BY <1>1, <3>3, <3>4
  <2>2. hub' = hub
    BY <1>1
  <2> QED  BY <2>1, <2>2 DEF Inv, EventsOK, EventsInScanOrder
<1>8. ScanOK(s)'
  BY <1>3, <1>5 DEF ScanOK, InBatch
<1>9. PositionOK'
  BY <1>1, <1>5, <1>8, PositionFrame DEF Inv, Only
<1> QED
  BY <1>1, <1>6, <1>7, <1>9, PoolsFrame DEF Inv

\* A step that moves no scan and leaves the map of scans alone.
LEMMA ScansFrame ==
  ASSUME ScansOK, UNCHANGED <<cancels, accepted, pc, loc>>, done' \subseteq Scans
  PROVE  ScansOK'
BY DEF ScansOK, LiveScanOwnsChain

\* A stop is for a scan.
LEMMA StopScanInv ==
  ASSUME Inv, NEW c \in Chains, StopScan(c)
  PROVE  Inv'
<1>1. /\ done' \subseteq Scans
      /\ UNCHANGED <<cancels, accepted, pc, loc, pools, balances, scanState, health, hub,
                     fresh, missed, unwritten>>
  BY DEF StopScan, Inv, ScansOK, tableVars, ghostVars
<1> QED
  BY <1>1, ScansFrame, PoolsFrame, EventsFrame, PositionFrame DEF Inv

\* What a reset deletes counts as missed.
LEMMA ResetBalancesInv ==
  ASSUME Inv, ResetBalancesHandler
  PROVE  Inv'
<1>1. /\ UNCHANGED <<cancels, accepted, pc, loc, done, pools, health, hub, unwritten>>
      /\ balances' = ResetBalances /\ scanState' = ResetScanStates
      /\ missed' = [c \in Chains |-> missed[c] \cup fresh[c]]
      /\ fresh' = [c \in Chains |-> {}]
  BY DEF ResetBalancesHandler, scanVars
<1>2. ScansOK' /\ PoolsOK' /\ EventsOK'
  BY <1>1, ScansFrame, PoolsFrame, EventsFrame DEF Inv, ScansOK
<1>3. /\ balances' \in [Chains -> [Key -> StoredAmount]]
      /\ fresh' \in [Chains -> SUBSET Key] /\ missed' \in [Chains -> SUBSET Key]
  BY <1>1 DEF Inv, PositionOK, ResetBalances, NoBalances, Key, StoredAmount
<1>4. \A c \in Chains : scanState'[c] = NoScanRow
  BY <1>1 DEF ResetScanStates
<1>5. NoScanRow \in ScanRow /\ ~NoScanRow.exists
  BY DEF NoScanRow, ScanRow, ScanStatus
<1>6. scanState' \in [Chains -> ScanRow]
  BY <1>1, <1>5 DEF ResetScanStates
<1>7. \A c \in Chains : RowOK(c)'
  BY <1>4, <1>5 DEF RowOK
<1>8. ASSUME NEW v \in Scans
      PROVE  ScanOK(v)'
  <2>1. pc'[v] = pc[v] /\ loc'[v] = loc[v] /\ ScanOK(v)
    BY <1>1 DEF Inv, PositionOK
  <2>2. CASE pc[v] \in Live
    <3>1. PICK c \in Chains : c = loc[v].chain
      BY <2>2, LiveScan DEF Inv
    <3>2. missed[c] \subseteq missed'[c] /\ fresh[c] \subseteq missed'[c]
      BY <1>1
    <3>3. \A i \in Index, a \in Assets(c) : Covered(c, <<i, a>>) => Covered(c, <<i, a>>)'
      BY <3>2 DEF Covered
    <3> QED  BY <2>1, <3>1, <3>2, <3>3, KeepsScan
  <2>3. CASE pc[v] \notin Live
    BY <2>1, <2>3 DEF ScanOK, Live, InBatch
  <2> QED  BY <2>2, <2>3
<1> QED
  BY <1>2, <1>3, <1>6, <1>7, <1>8 DEF Inv, PositionOK

\* The cooldown changes neither the state nor the counter of a breaker.
LEMMA CooldownPassesInv ==
  ASSUME Inv, NEW c \in Chains, NEW j \in 1 .. Len(Pools[c]), CooldownPasses(c, j)
  PROVE  Inv'
<1>1. /\ UNCHANGED <<cancels, accepted, pc, loc, done, balances, scanState, health, hub,
                     fresh, missed, unwritten>>
      /\ pools' = [pools EXCEPT ![c].breakers[j] = AfterCooldown(@)]
  BY DEF CooldownPasses, scanVars, tableVars, ghostVars
<1>2. ScansOK' /\ EventsOK' /\ PositionOK'
  BY <1>1, ScansFrame, EventsFrame, PositionFrame DEF Inv, ScansOK
<1>. DEFINE cb == pools[c].breakers[j]
            cooled == AfterCooldown(cb)
            breakers == [pools[c].breakers EXCEPT ![j] = cooled]
            pool == [pools[c] EXCEPT !.breakers = breakers]
<1>3. /\ DOMAIN pools = Chains /\ pools[c].breakers \in [1 .. Len(Pools[c]) -> Breaker]
      /\ DOMAIN pools[c] = {"current", "breakers"} /\ cb \in Breaker
  BY DEF Inv, PoolsOK
<1>4. cooled \in Breaker /\ cooled.state = cb.state /\ cooled.fails = cb.fails
  <2>. HIDE DEF cb
  <2> QED  BY <1>3 DEF AfterCooldown, Breaker
<1>5. pools' = [pools EXCEPT ![c] = pool]
  BY <1>1
<1>6. /\ DOMAIN pool = {"current", "breakers"} /\ pool.current = pools[c].current
      /\ pool.breakers = breakers
  BY <1>3
<1>7. /\ breakers \in [1 .. Len(Pools[c]) -> Breaker] /\ breakers[j] = cooled
      /\ \A k \in 1 .. Len(Pools[c]) : k # j => breakers[k] = pools[c].breakers[k]
  <2>. HIDE DEF cooled
  <2> QED  BY <1>3, <1>4
<1>. HIDE DEF pool, breakers, cooled
<1>8. /\ DOMAIN pools' = Chains /\ pools'[c] = pool
      /\ \A d \in Chains : d # c => pools'[d] = pools[d]
  BY <1>3, <1>5
<1>9. \A d \in Chains : \A k \in 1 .. Len(Pools[d]) :
        /\ pools'[d].breakers[k].state = pools[d].breakers[k].state
        /\ pools'[d].breakers[k].fails = pools[d].breakers[k].fails
  BY <1>4, <1>6, <1>7, <1>8
<1>10. HealthFollowsBreakers'
  BY <1>1, <1>9 DEF HealthFollowsBreakers, Inv, PoolsOK
<1>11. \A d \in Chains : /\ DOMAIN pools'[d] = {"current", "breakers"}
                         /\ pools'[d].current \in 1 .. Len(Pools[d])
                         /\ pools'[d].breakers \in [1 .. Len(Pools[d]) -> Breaker]
  BY <1>6, <1>7, <1>8 DEF Inv, PoolsOK
<1>12. PoolsOK'
  BY <1>1, <1>8, <1>10, <1>11 DEF Inv, PoolsOK
<1> QED
  BY <1>2, <1>12 DEF Inv

\* Clients that have read from the front of their queues, or lost them.
LEMMA EventsRead ==
  ASSUME EventsOK, UNCHANGED <<accepted, pc, loc>>,
         hub' \in [Clients -> [in : BOOLEAN, queue : Seq(Event)]],
         \A k \in Clients : \E d \in Nat :
            /\ Len(hub'[k].queue) <= QueueCap
            /\ \A n \in 1 .. Len(hub'[k].queue) : /\ n + d \in 1 .. Len(hub[k].queue)
                                                  /\ hub'[k].queue[n] = hub[k].queue[n + d]
  PROVE  EventsOK'
<1>1. ASSUME NEW k \in Clients, NEW n \in 1 .. Len(hub'[k].queue)
      PROVE  /\ hub'[k].queue[n].scan <= accepted'
             /\ \A s \in Scans : pc'[s] \in Live /\ loc'[s].chain = hub'[k].queue[n].chain =>
                   hub'[k].queue[n].scan <= s
  <2>1. PICK d \in Nat : /\ n + d \in 1 .. Len(hub[k].queue)
                         /\ hub'[k].queue[n] = hub[k].queue[n + d]
    BY <1>1
  <2>2. PICK i \in 1 .. Len(hub[k].queue) : hub'[k].queue[n] = hub[k].queue[i]
    BY <2>1
  <2> QED  BY <2>2 DEF EventsOK
<1>2. ASSUME NEW k \in Clients, NEW m \in 1 .. Len(hub'[k].queue), NEW n \in 1 .. Len(hub'[k].queue),
             m < n, hub'[k].queue[m].chain = hub'[k].queue[n].chain
      PROVE  hub'[k].queue[m].scan <= hub'[k].queue[n].scan
  <2>1. PICK d \in Nat : \A i \in 1 .. Len(hub'[k].queue) :
           /\ i + d \in 1 .. Len(hub[k].queue) /\ hub'[k].queue[i] = hub[k].queue[i + d]
    OBVIOUS
  <2>2. Len(hub'[k].queue) \in Nat
    OBVIOUS
  <2>3. m + d < n + d
    BY <1>2, <2>2
  <2>4. PICK i \in 1 .. Len(hub[k].queue), j \in 1 .. Len(hub[k].queue) :
           i < j /\ hub'[k].queue[m] = hub[k].queue[i] /\ hub'[k].queue[n] = hub[k].queue[j]
    BY <2>1, <2>3
  <2> QED  BY <1>2, <2>4 DEF EventsOK, EventsInScanOrder
<1> QED
  BY <1>1, <1>2 DEF EventsOK, EventsInScanOrder

\* Clients come, read, go and are closed.
LEMMA ClientsInv ==
  ASSUME Inv, \/ \E k \in Clients : Connect(k) \/ Deliver(k) \/ Disconnect(k)
              \/ HubStops
  PROVE  Inv'
<1>1. UNCHANGED <<cancels, accepted, pc, loc, done, pools, balances, scanState, health,
                  fresh, missed, unwritten>>
  BY DEF Connect, Deliver, Disconnect, HubStops, scanVars, tableVars, ghostVars
<1>2. ScansOK' /\ PoolsOK' /\ PositionOK'
  BY <1>1, ScansFrame, PoolsFrame, PositionFrame DEF Inv, ScansOK
<1>3. hub \in [Clients -> [in : BOOLEAN, queue : Seq(Event)]]
  BY DEF Inv, EventsOK
<1>4. \A k \in Clients : Len(hub[k].queue) <= QueueCap /\ Len(hub[k].queue) \in Nat
  BY <1>3 DEF Inv, EventsOK
<1>5. QueueCap \in Nat
  BY HubAssumption
<1>6. /\ <<>> \in Seq(Event) /\ Len(<<>>) = 0
      /\ \A b \in BOOLEAN : [in |-> b, queue |-> <<>>] \in [in : BOOLEAN, queue : Seq(Event)]
  OBVIOUS
<1>7. ASSUME HubStops
      PROVE  EventsOK'
  <2>1. hub' = [k \in Clients |-> [hub[k] EXCEPT !.in = FALSE]]
    BY <1>7 DEF HubStops, CloseAll
  <2>2. hub' \in [Clients -> [in : BOOLEAN, queue : Seq(Event)]]
    BY <1>3, <2>1
  <2>3. \A i \in Clients : hub'[i].queue = hub[i].queue
    BY <1>3, <2>1
  <2>4. ASSUME NEW i \in Clients
        PROVE  \E d \in Nat :
                  /\ Len(hub'[i].queue) <= QueueCap
                  /\ \A n \in 1 .. Len(hub'[i].queue) : /\ n + d \in 1 .. Len(hub[i].queue)
                                                        /\ hub'[i].queue[n] = hub[i].queue[n + d]
    <3>1. \A n \in 1 .. Len(hub[i].queue) : n + 0 = n
      BY <1>4
    <3> QED  BY <1>4, <2>3, <3>1
  <2> QED  BY <1>1, <2>2, <2>4, EventsRead DEF Inv
<1>8. ASSUME NEW k \in Clients, Deliver(k)
      PROVE  EventsOK'
  <2>1. hub' = [hub EXCEPT ![k].queue = Tail(hub[k].queue)] /\ hub[k].queue # <<>>
    BY <1>8 DEF Deliver, Receive
  <2>2. PICK q \in Seq(Event) : q = hub[k].queue /\ q # <<>>
    BY <1>3, <2>1
  <2>3. /\ Tail(q) \in Seq(Event) /\ Len(Tail(q)) = Len(q) - 1 /\ Len(q) \in Nat
        /\ \A n \in 1 .. Len(Tail(q)) : n + 1 \in 1 .. Len(q) /\ Tail(q)[n] = q[n + 1]
    BY <2>2
  <2>4. /\ hub' \in [Clients -> [in : BOOLEAN, queue : Seq(Event)]]
        /\ hub'[k].queue = Tail(q)
        /\ \A i \in Clients : i # k => hub'[i] = hub[i]
    BY <1>3, <2>1, <2>2, <2>3
  <2>5. ASSUME NEW i \in Clients
        PROVE  \E d \in Nat :
                  /\ Len(hub'[i].queue) <= QueueCap
                  /\ \A n \in 1 .. Len(hub'[i].queue) : /\ n + d \in 1 .. Len(hub[i].queue)
                                                        /\ hub'[i].queue[n] = hub[i].queue[n + d]
    <3>1. CASE i = k
      <4>1. Len(Tail(q)) <= QueueCap
        BY <1>4, <1>5, <2>2, <2>3
      <4>2. /\ Len(hub'[i].queue) <= QueueCap
            /\ \A n \in 1 .. Len(hub'[i].queue) : /\ n + 1 \in 1 .. Len(hub[i].queue)
                                                  /\ hub'[i].queue[n] = hub[i].queue[n + 1]
        BY <2>2, <2>3, <2>4, <3>1, <4>1
      <4> QED  BY <4>2
    <3>2. CASE i # k
      <4>1. \A n \in 1 .. Len(hub[i].queue) : n + 0 = n
        BY <1>4
      <4> QED  BY <1>4, <2>4, <3>2, <4>1
    <3> QED  BY <3>1, <3>2
  <2> QED  BY <1>1, <2>4, <2>5, EventsRead DEF Inv
<1>9. ASSUME NEW k \in Clients, Connect(k) \/ Disconnect(k)
      PROVE  EventsOK'
  <2>1. PICK b \in BOOLEAN : hub' = [hub EXCEPT ![k] = [in |-> b, queue |-> <<>>]]
    BY <1>9 DEF Connect, Subscribe, Disconnect, Unsubscribe
  <2>2. /\ hub' \in [Clients -> [in : BOOLEAN, queue : Seq(Event)]]
        /\ hub'[k].queue = <<>> /\ \A i \in Clients : i # k => hub'[i] = hub[i]
    BY <1>3, <1>6, <2>1
  <2>3. ASSUME NEW i \in Clients
        PROVE  \E d \in Nat :
                  /\ Len(hub'[i].queue) <= QueueCap
                  /\ \A n \in 1 .. Len(hub'[i].queue) : /\ n + d \in 1 .. Len(hub[i].queue)
                                                        /\ hub'[i].queue[n] = hub[i].queue[n + d]
    <3>1. CASE i = k
      <4>1. Len(hub'[i].queue) = 0
        BY <1>6, <2>2, <3>1
      <4>2. \A n \in 1 .. 0 : FALSE
        OBVIOUS
      <4> QED  BY <1>5, <4>1, <4>2
    <3>2. CASE i # k
      <4>1. \A n \in 1 .. Len(hub[i].queue) : n + 0 = n
        BY <1>4
      <4> QED  BY <1>4, <2>2, <3>2, <4>1
    <3> QED  BY <3>1, <3>2
  <2> QED  BY <1>1, <2>2, <2>3, EventsRead DEF Inv
<1> QED
  BY <1>2, <1>7, <1>8, <1>9 DEF Inv

\* The pool that the server starts with: every breaker agrees with the first row.
LEMMA NewPoolOK ==
  ASSUME NEW c \in Chains
  PROVE  /\ DOMAIN NewPool(c) = {"current", "breakers"}
         /\ NewPool(c).current \in 1 .. Len(Pools[c])
         /\ NewPool(c).breakers \in [1 .. Len(Pools[c]) -> Breaker]
         /\ \A j \in 1 .. Len(Pools[c]) : Agrees(InitialHealth, NewPool(c).breakers[j])
<1>1. NewBreaker \in Breaker /\ Agrees(InitialHealth, NewBreaker)
  BY BreakerAssumption DEF NewBreaker, Breaker, BreakerState, Agrees, InitialHealth, StatusOf
<1>2. Len(Pools[c]) \in Nat /\ Len(Pools[c]) > 0
  BY ScannerAssumption
<1> QED
  BY <1>1, <1>2 DEF NewPool

\* InitialHealth is a row.
LEMMA InitialHealthOK == InitialHealth \in HealthRow
BY BreakerAssumption DEF InitialHealth, HealthRow, ProviderStatus, BreakerState

\* A restart forgets the scans and what waits to be read, and keeps the tables.
LEMMA RestartInv ==
  ASSUME Inv, Restart
  PROVE  Inv'
<1>1. /\ UNCHANGED <<accepted, balances, scanState, fresh, missed>>
      /\ pc' = [s \in Scans |-> IF pc[s] = "new" THEN "new" ELSE "over"]
      /\ cancels' = [c \in Chains |-> NoScan] /\ done' = {}
      /\ pools' = [c \in Chains |-> NewPool(c)] /\ hub' = NoClients
      /\ loc' = [s \in Scans |-> NewLocals(loc[s].chain, 0)]
  BY DEF Restart
<1>2. {"new", "over"} \subseteq PC /\ {"new", "over"} \cap Live = {}
  BY DEF PC, Live
<1>3. \A s \in Scans : pc'[s] \notin Live /\ (pc'[s] = "new" <=> pc[s] = "new")
  BY <1>1, <1>2
<1>4. ScansOK'
  <2>1. \A s \in Scans : pc'[s] # "new" => loc'[s] \in Locals
    BY <1>1, <1>3, Fields, NewLocalsOK DEF Inv, ScansOK
  <2>2. LiveScanOwnsChain'
    BY <1>3 DEF LiveScanOwnsChain
  <2>3. /\ cancels' \in [Chains -> Scans \cup {NoScan}] /\ done' \subseteq Scans
        /\ pc' \in [Scans -> PC] /\ DOMAIN loc' = Scans /\ accepted' \in 0 .. MaxScans
    BY <1>1, <1>2 DEF Inv, ScansOK
  <2> QED  BY <1>1, <1>3, <2>1, <2>2, <2>3 DEF Inv, ScansOK
<1>5. PoolsOK'
  <2>1. PICK lost \in SUBSET Providers :
          /\ health' = [p \in Providers |-> IF p \in lost THEN health[p] ELSE InitialHealth]
          /\ unwritten' = lost
    BY DEF Restart
  <2>2. health' \in [Providers -> HealthRow]
    BY <2>1, InitialHealthOK DEF Inv, PoolsOK
  <2>3. ASSUME NEW c \in Chains, NEW j \in 1 .. Len(Pools[c]), Pools[c][j] \notin unwritten'
        PROVE  Agrees(health'[Pools[c][j]], pools'[c].breakers[j])
    <3>1. health'[Pools[c][j]] = InitialHealth
      BY <2>1, <2>3 DEF Providers
    <3> QED  BY <1>1, <3>1, NewPoolOK
  <2>4. HealthFollowsBreakers'
    BY <2>3 DEF HealthFollowsBreakers, Agrees
  <2> QED  BY <1>1, <2>1, <2>2, <2>4, NewPoolOK DEF PoolsOK
<1>6. EventsOK'
  <2>1. hub' = [k \in Clients |-> [in |-> FALSE, queue |-> <<>>]]
    BY <1>1 DEF NoClients
  <2>2. <<>> \in Seq(Event) /\ Len(<<>>) = 0 /\ QueueCap \in Nat
    BY HubAssumption
  <2>3. /\ hub' \in [Clients -> [in : BOOLEAN, queue : Seq(Event)]]
        /\ \A k \in Clients : Len(hub'[k].queue) = 0
    BY <2>1, <2>2
  <2> QED  BY <2>2, <2>3 DEF EventsOK, EventsInScanOrder
<1>7. PositionOK'
  <2>1. \A v \in Scans : ScanOK(v)'
    BY <1>1 DEF ScanOK, InBatch
  <2> QED  BY <1>1, <2>1, PositionFrame DEF Inv
<1> QED
  BY <1>4, <1>5, <1>6, <1>7 DEF Inv

-----------------------------------------------------------------------------
(* The invariant and what it gives *)

\* Nothing runs and nothing is stored when the server starts for the first time.
LEMMA InitInv == Init => Inv
<1>. SUFFICES ASSUME Init
              PROVE  Inv
  OBVIOUS
<1>1. \A s \in Scans : pc[s] = "new"
  BY DEF Init
<1>2. "new" \in PC /\ "new" \notin Live
  BY DEF PC, Live
<1>3. ScansOK
  <2>1. MaxScans \in Nat
    BY ScannerAssumption
  <2>2. \A s \in Scans : s > 0
    BY DEF Scans
  <2> QED  BY <1>1, <1>2, <2>1, <2>2 DEF Init, ScansOK, LiveScanOwnsChain
<1>4. PoolsOK
  <2>1. ASSUME NEW c \in Chains, NEW j \in 1 .. Len(Pools[c])
        PROVE  Agrees(health[Pools[c][j]], pools[c].breakers[j])
    BY NewPoolOK DEF Init, Providers
  <2>2. HealthFollowsBreakers
    BY <2>1 DEF HealthFollowsBreakers, Agrees
  <2> QED  BY <2>2, InitialHealthOK, NewPoolOK DEF PoolsOK, Init
<1>5. EventsOK
  <2>1. hub = [k \in Clients |-> [in |-> FALSE, queue |-> <<>>]]
    BY DEF Init, NoClients
  <2>2. <<>> \in Seq(Event) /\ Len(<<>>) = 0 /\ QueueCap \in Nat
    BY HubAssumption
  <2>3. /\ hub \in [Clients -> [in : BOOLEAN, queue : Seq(Event)]]
        /\ \A k \in Clients : Len(hub[k].queue) = 0
    BY <2>1, <2>2
  <2> QED  BY <2>2, <2>3 DEF EventsOK, EventsInScanOrder
<1>6. PositionOK
  <2>1. balances \in [Chains -> [Key -> StoredAmount]]
    BY DEF Init, ResetBalances, NoBalances, Key, StoredAmount
  <2>2. NoScanRow \in ScanRow /\ ~NoScanRow.exists
    BY DEF NoScanRow, ScanRow, ScanStatus
  <2>3. scanState \in [Chains -> ScanRow] /\ \A c \in Chains : RowOK(c)
    BY <2>2 DEF Init, ResetScanStates, RowOK
  <2>4. \A s \in Scans : ScanOK(s)
    BY <1>1 DEF ScanOK, InBatch
  <2> QED  BY <2>1, <2>3, <2>4 DEF Init, PositionOK
<1> QED
  BY <1>3, <1>4, <1>5, <1>6 DEF Inv

\* Every step keeps the invariant.
LEMMA NextInv == Inv /\ [Next]_vars => Inv'
<1>. SUFFICES ASSUME Inv, [Next]_vars
              PROVE  Inv'
  OBVIOUS
<1>1. ASSUME NEW s \in Scans, ScanStep(s)
      PROVE  Inv'
  BY <1>1, BeginInv, LoopHeadInv, BackoffInv, LoadInv, FetchNativeInv, FetchTokenInv,
     StoreBatchInv, ReportInv, WriteFinalInv, AnnounceInv, RemoveScanInv DEF ScanStep
<1>2. ASSUME NEW c \in Chains, NEW max \in MaxIDs, StartScan(c, max)
      PROVE  Inv'
  BY <1>2, StartScanInv
<1>3. ASSUME NEW c \in Chains, StopScan(c)
      PROVE  Inv'
  BY <1>3, StopScanInv
<1>4. ASSUME NEW c \in Chains, NEW j \in 1 .. Len(Pools[c]), CooldownPasses(c, j)
      PROVE  Inv'
  BY <1>4, CooldownPassesInv
<1>5. CASE ResetBalancesHandler
  BY <1>5, ResetBalancesInv
<1>6. CASE HubStops \/ \E k \in Clients : Connect(k) \/ Deliver(k) \/ Disconnect(k)
  BY <1>6, ClientsInv
<1>7. CASE Restart
  BY <1>7, RestartInv
<1>8. CASE UNCHANGED vars
  <2>1. UNCHANGED <<cancels, accepted, pc, loc, done, pools, balances, scanState, health, hub,
                    fresh, missed, unwritten>>
    BY <1>8 DEF vars, scanVars, tableVars, ghostVars
  <2> QED  BY <2>1, ScansFrame, PoolsFrame, EventsFrame, PositionFrame DEF Inv, ScansOK
<1> QED
  BY <1>1, <1>2, <1>3, <1>4, <1>5, <1>6, <1>7, <1>8 DEF Next

\* The invariant holds in every reachable state.
LEMMA InvHolds == Spec => []Inv
BY InitInv, NextInv, PTL DEF Spec

\* The types of the tables, of the goroutines' variables, of the pools and of the clients'
\* queues, which never hold more than their capacity.
THEOREM TypeCorrect == Spec => []TypeOK
<1>1. Inv => TypeOK
  BY DEF Inv, ScansOK, PoolsOK, EventsOK, PositionOK, TypeOK
<1> QED
  BY <1>1, InvHolds, PTL

\* A goroutine that is alive is the one registered for its chain: a chain never has two scans,
\* a stop reaches the one it has, and removeScan removes no other.
THEOREM LiveScanOwnsItsChain == Spec => []LiveScanOwnsChain
<1>1. Inv => LiveScanOwnsChain
  BY DEF Inv, ScansOK
<1> QED
  BY <1>1, InvHolds, PTL

\* The stored position never runs ahead of the stored balances.
THEOREM PositionIsCovered == Spec => []PositionCoversBalances
<1>1. Inv => PositionCoversBalances
  BY DEF Inv, PositionOK, RowOK, CoveredBelow, Covered, Assets, PositionCoversBalances
<1> QED
  BY <1>1, InvHolds, PTL

\* A client never reads an event of an earlier scan of a chain after one of a later scan.
THEOREM EventsStayInOrder == Spec => []EventsInScanOrder
<1>1. Inv => EventsInScanOrder
  BY DEF Inv, EventsOK
<1> QED
  BY <1>1, InvHolds, PTL

\* The provider_health rows say what the breakers say, unless a statement of theirs failed.
THEOREM HealthIsTrue == Spec => []HealthFollowsBreakers
<1>1. Inv => HealthFollowsBreakers
  BY DEF Inv, PoolsOK
<1> QED
  BY <1>1, InvHolds, PTL

-----------------------------------------------------------------------------
(* A scan comes to its end *)

\* Where a goroutine is on its way out.
Phase(p) ==
    CASE p = "new" -> 0 [] p = "begin" -> 1 [] p = "write" -> 3 [] p = "announce" -> 4
      [] p = "remove" -> 5 [] p = "over" -> 6 [] OTHER -> 2

\* Where it is in a batch.
Stage(p) ==
    CASE p = "loop" -> 0 [] p = "backoff" -> 1 [] p = "load" -> 2 [] p = "native" -> 3
      [] p = "token" -> 4 [] p = "store" -> 5 [] p = "report" -> 6 [] OTHER -> 7

\* A scan is further on its way out; or it begins a batch further up, having been below its last
\* address; or, in the same batch, it is further on, at the next token, or tries
\* one of the providers that are left.
Advances(s) ==
    \/ Phase(pc'[s]) > Phase(pc[s])
    \/ /\ Phase(pc[s]) = 2 /\ Phase(pc'[s]) = 2
       /\ loc'[s].chain = loc[s].chain /\ loc'[s].max = loc[s].max
       /\ \/ loc[s].at < loc[s].max /\ loc[s].at < loc'[s].at
          \/ /\ loc'[s].at = loc[s].at
             /\ \/ Stage(pc'[s]) > Stage(pc[s])
                \/ /\ pc[s] = "token" /\ pc'[s] = "token"
                   /\ loc[s].token < loc'[s].token
                   /\ loc'[s].token <= Len(Tokens[loc[s].chain])
                \/ /\ pc'[s] = pc[s] /\ loc'[s].token = loc[s].token
                   /\ loc[s].tries < loc'[s].tries
                   /\ loc'[s].tries < Len(Pools[loc[s].chain])

\* A scan that a step is not about.
Rests(s) == pc'[s] = pc[s] /\ loc'[s] = loc[s]

\* Every scan in s.cancels has a goroutine that will take it out.
Registered ==
    \A c \in Chains : cancels[c] # NoScan =>
        pc[cancels[c]] \in Live /\ loc[cancels[c]].chain = c

\* A step of a goroutine that stays alive: it keeps its chain and what it has done.
GoesOnWith(s) ==
    /\ Only(s) /\ Advances(s) /\ cancels' = cancels
    /\ pc'[s] \in Live /\ loc'[s].chain = loc[s].chain

\* A scan that leaves its batches writes its last row, or is removed at once.
LEMMA ScanEnds ==
  ASSUME ScansOK, NEW s \in Scans, pc[s] \in Live, cancels' = cancels,
         \/ \E l \in Locals : \E status, event :
               l.chain = loc[s].chain /\ Ends(s, l, status, event) /\ Phase(pc[s]) < 3
         \/ \E l \in Locals, next \in {"announce", "remove"} :
               /\ l.chain = loc[s].chain /\ Phase(pc[s]) < Phase(next)
               /\ GotoWith(s, next, l) \/ (Goto(s, next) /\ UNCHANGED loc)
  PROVE  GoesOnWith(s)
<1>1. ASSUME NEW l, NEW next \in {"write", "announce", "remove"},
             l.chain = loc[s].chain, Phase(pc[s]) < Phase(next),
             GotoWith(s, next, l) \/ (Goto(s, next) /\ UNCHANGED loc)
      PROVE  GoesOnWith(s)
  <2>1. /\ pc'[s] = next /\ Only(s) /\ loc'[s].chain = loc[s].chain
    BY <1>1 DEF ScansOK, GotoWith, Goto, Only
  <2> QED  BY <1>1, <2>1 DEF GoesOnWith, Advances, Live
<1>2. ASSUME NEW l \in Locals, NEW status, NEW event,
             l.chain = loc[s].chain, Ends(s, l, status, event), Phase(pc[s]) < 3
      PROVE  GoesOnWith(s)
  <2>. DEFINE u == [l EXCEPT !.status = status, !.event = event, !.results = {}]
  <2>1. u.chain = loc[s].chain /\ GotoWith(s, "write", u)
    BY <1>2 DEF Ends, Locals
  <2>. HIDE DEF u
  <2>2. Phase("write") = 3
    BY DEF Phase
  <2> QED  BY <1>1, <1>2, <2>1, <2>2
<1> QED
  BY <1>1, <1>2

\* A scan that goes on in its batch.
LEMMA BatchGoesOn ==
  ASSUME ScansOK, NEW s \in Scans, pc[s] \in Live, cancels' = cancels, Phase(pc[s]) <= 2,
         NEW l, NEW next \in InBatch \cup {"loop", "report"},
         l.chain = loc[s].chain, l.max = loc[s].max,
         GotoWith(s, next, l) \/ (Goto(s, next) /\ UNCHANGED loc /\ l = loc[s]),
         \/ pc[s] = "begin"
         \/ loc[s].at < loc[s].max /\ loc[s].at < l.at
         \/ /\ l.at = loc[s].at
            /\ \/ Stage(next) > Stage(pc[s])
               \/ /\ pc[s] = "token" /\ next = "token" /\ loc[s].token < l.token
                  /\ l.token <= Len(Tokens[loc[s].chain])
               \/ /\ next = pc[s] /\ l.token = loc[s].token
                  /\ loc[s].tries < l.tries /\ l.tries < Len(Pools[loc[s].chain])
  PROVE  GoesOnWith(s)
<1>1. pc'[s] = next /\ Only(s) /\ loc'[s] = l
  BY DEF ScansOK, GotoWith, Goto, Only
<1>2. Phase(next) = 2 /\ next \in Live
  BY DEF Phase, Live, InBatch
<1>3. pc[s] # "begin" => Phase(pc[s]) = 2
  BY DEF Phase, Live
<1>4. pc[s] = "begin" => Phase(pc[s]) = 1
  BY DEF Phase
<1> QED
  BY <1>1, <1>2, <1>3, <1>4 DEF GoesOnWith, Advances

\* The locals that steps of a batch leave alone.
LEMMA SameInBatch ==
  ASSUME NEW l \in Locals
  PROVE  /\ [l EXCEPT !.tries = @ + 1].tries = l.tries + 1
         /\ \A R : LET u == [l EXCEPT !.fails = 0, !.tries = 0, !.results = R]
                   IN  u.chain = l.chain /\ u.max = l.max /\ u.at = l.at
         /\ LET u == [l EXCEPT !.fails = @ + 1, !.tries = 0, !.nativeFailed = TRUE]
            IN  u.chain = l.chain /\ u.max = l.max /\ u.at = l.at
         /\ \A R : LET u == [l EXCEPT !.token = @ + 1, !.tries = 0, !.results = @ \cup R]
                   IN  u.chain = l.chain /\ u.max = l.max /\ u.at = l.at /\ u.token = l.token + 1
         /\ \A e : LET u == [l EXCEPT !.scanned = e, !.results = {}]
                   IN  u.chain = l.chain /\ u.max = l.max /\ u.at = l.at
BY DEF Locals

\* Whatever a provider answers, the fetch of a batch goes on to one that was not tried yet, or to
\* the next asset.
LEMMA FetchGoesOn ==
  ASSUME Inv, NEW s \in Scans, FetchNativeBalances(s) \/ FetchTokenBalances(s)
  PROVE  GoesOnWith(s)
<1>. DEFINE c == loc[s].chain
            k == loc[s].token
<1>1. /\ ScansOK /\ cancels' = cancels /\ pc[s] \in {"native", "token"} /\ pc[s] \in Live
      /\ Phase(pc[s]) = 2 /\ loc[s] \in Locals /\ loc[s].tries \in Nat /\ k \in Nat /\ c \in Chains
  <2>1. /\ ScansOK /\ cancels' = cancels /\ pc[s] \in {"native", "token"} /\ pc[s] \in Live
        /\ Phase(pc[s]) = 2
    BY DEF Inv, FetchNativeBalances, FetchTokenBalances, Live, Phase
  <2> QED  BY <2>1, LiveScan, Fields
<1>2. ASSUME NEW t, TriesNext(s, t), GotoWith(s, pc[s], [loc[s] EXCEPT !.tries = @ + 1])
      PROVE  GoesOnWith(s)
  <2>. DEFINE u == [loc[s] EXCEPT !.tries = @ + 1]
  <2>1. /\ u.chain = c /\ u.max = loc[s].max /\ u.at = loc[s].at /\ u.token = k /\ u.tries = loc[s].tries + 1
    BY <1>1, TryLocals, SameInBatch
  <2>2. GotoWith(s, pc[s], u) /\ u.tries < Len(Pools[c])
    BY <1>2, <2>1 DEF TriesNext
  <2>3. pc[s] \in InBatch
    BY <1>1 DEF InBatch
  <2>. HIDE DEF u, c, k
  <2>4. loc[s].tries < u.tries
    BY <1>1, <2>1
  <2> QED  BY <1>1, <2>1, <2>2, <2>3, <2>4, BatchGoesOn DEF c, k
<1>3. CASE FetchNativeBalances(s)
  <2>1. pc[s] = "native"
    BY <1>3 DEF FetchNativeBalances
  <2>2. ASSUME NEW l, l.chain = c, l.max = loc[s].max, l.at = loc[s].at, GotoWith(s, AfterFetch(s, 1), l)
        PROVE  GoesOnWith(s)
    <3>1. /\ AfterFetch(s, 1) \in {"store", "token"} /\ {"store", "token"} \subseteq InBatch
          /\ Stage(AfterFetch(s, 1)) > Stage(pc[s])
      BY <2>1 DEF AfterFetch, InBatch, Stage
    <3> QED  BY <1>1, <2>2, <3>1, BatchGoesOn
  <2>3. ASSUME NEW R, GotoWith(s, AfterFetch(s, 1),
                               [loc[s] EXCEPT !.fails = 0, !.tries = 0, !.results = R])
        PROVE  GoesOnWith(s)
    BY <1>1, <2>2, <2>3, SameInBatch
  <2>4. CASE GotoWith(s, AfterFetch(s, 1),
                      [loc[s] EXCEPT !.fails = @ + 1, !.tries = 0, !.nativeFailed = TRUE])
    BY <1>1, <2>2, <2>4, SameInBatch
  <2>5. CASE Ends(s, loc[s], "scanning", "none")
    BY <1>1, <2>5, ScanEnds
  <2> QED  BY <1>2, <1>3, <2>1, <2>3, <2>4, <2>5 DEF FetchNativeBalances
<1>4. CASE FetchTokenBalances(s)
  <2>1. pc[s] = "token"
    BY <1>4 DEF FetchTokenBalances
  <2>2. ASSUME NEW l, l.chain = c, l.max = loc[s].max, l.at = loc[s].at, l.token = k + 1,
               GotoWith(s, AfterFetch(s, k + 1), l)
        PROVE  GoesOnWith(s)
    <3>1. CASE AfterFetch(s, k + 1) = "store"
      BY <1>1, <2>1, <2>2, <3>1, BatchGoesOn DEF InBatch, Stage
    <3>2. CASE AfterFetch(s, k + 1) = "token" /\ ~(k + 1 > Len(Tokens[c]))
      <4>1. Len(Tokens[c]) \in Nat
        BY <1>1, ScanDBAssumption
      <4>2. k < k + 1 /\ k + 1 <= Len(Tokens[c])
        BY <1>1, <3>2, <4>1
      <4> QED  BY <1>1, <2>1, <2>2, <3>2, <4>2, BatchGoesOn DEF InBatch
    <3> QED  BY <3>1, <3>2 DEF AfterFetch
  <2>3. ASSUME NEW R, GotoWith(s, AfterFetch(s, k + 1),
                               [loc[s] EXCEPT !.token = @ + 1, !.tries = 0, !.results = @ \cup R])
        PROVE  GoesOnWith(s)
    <3>. DEFINE u == [loc[s] EXCEPT !.token = @ + 1, !.tries = 0, !.results = @ \cup R]
    <3>1. u.chain = c /\ u.max = loc[s].max /\ u.at = loc[s].at /\ u.token = k + 1
      BY <1>1, SameInBatch
    <3>2. GotoWith(s, AfterFetch(s, k + 1), u)
      BY <2>3
    <3>. HIDE DEF u
    <3> QED  BY <2>2, <3>1, <3>2
  <2>4. CASE GotoWith(s, AfterFetch(s, k + 1),
                      [loc[s] EXCEPT !.token = @ + 1, !.tries = 0, !.fails = @ + 1])
    BY <1>1, <2>2, <2>4, TokenFailsLocals
  <2>5. CASE GotoWith(s, "remove", [loc[s] EXCEPT !.results = {}])
    <3>. DEFINE u == [loc[s] EXCEPT !.results = {}]
    <3>1. u \in Locals /\ u.chain = c /\ GotoWith(s, "remove", u)
      BY <1>1, <2>5, DropLocals
    <3>. HIDE DEF u
    <3> QED  BY <1>1, <3>1, ScanEnds DEF Phase
  <2> QED  BY <1>2, <1>4, <2>1, <2>3, <2>4, <2>5 DEF FetchTokenBalances
<1> QED
  BY <1>3, <1>4

\* A goroutine ends its scan or goes on, and when it returns, the chain is free.
LEMMA ScanGoesOn ==
  ASSUME Inv, NEW s \in Scans, ScanStep(s), pc[s] # "remove"
  PROVE  GoesOnWith(s)
<1>1. ScansOK /\ pc[s] \in Live /\ loc[s] \in Locals /\ cancels' = cancels
  <2>1. ScansOK /\ pc[s] \in Live /\ cancels' = cancels
    BY DEF Inv, ScanStep, Begin, LoopHead, Backoff, Load, FetchNativeBalances,
           FetchTokenBalances, StoreBatch, Report, WriteFinal, Announce, RemoveScan, Live
  <2> QED  BY <2>1, LiveScan
<1>2. ASSUME NEW status, NEW event, Ends(s, loc[s], status, event), Phase(pc[s]) < 3
      PROVE  GoesOnWith(s)
  BY <1>1, <1>2, ScanEnds
<1>3. ASSUME NEW next \in InBatch \cup {"loop", "report"}, Goto(s, next), UNCHANGED loc,
             \/ pc[s] = "begin"
             \/ Phase(pc[s]) = 2 /\ Stage(next) > Stage(pc[s])
      PROVE  GoesOnWith(s)
  <2>1. Phase(pc[s]) <= 2
    BY <1>3 DEF Phase
  <2> QED  BY <1>1, <1>3, <2>1, BatchGoesOn
<1>4. CASE Begin(s)
  <2>1. CASE Goto(s, "loop")
    BY <1>3, <1>4, <2>1 DEF Begin
  <2>2. CASE Goto(s, "remove")
    BY <1>1, <1>4, <2>2, ScanEnds DEF Begin, Phase
  <2> QED  BY <1>4, <2>1, <2>2 DEF Begin
<1>5. CASE LoopHead(s)
  BY <1>2, <1>3, <1>5 DEF LoopHead, Phase, Stage, InBatch
<1>6. CASE Backoff(s)
  BY <1>2, <1>3, <1>6 DEF Backoff, Phase, Stage, InBatch
<1>7. ASSUME NEW l, l.chain = loc[s].chain, l.max = loc[s].max, l.at = NextAt(s),
             GotoWith(s, "loop", l),
             pc[s] \in {"load", "report"}
      PROVE  GoesOnWith(s)
  <2>1. loc[s].at < loc[s].max
    BY <1>7 DEF Inv, PositionOK, ScanOK, InBatch
  <2>2. loc[s].at < NextAt(s)
    <3>1. LET size == MaxBatchSize(loc[s].chain) IN size \in Nat \ {0} /\ loc[s].at \in Nat
      BY <1>1, Fields, LargestBatch
    <3> QED  BY <3>1 DEF NextAt
  <2>3. Phase(pc[s]) <= 2
    BY <1>7 DEF Phase
  <2> QED  BY <1>1, <1>7, <2>1, <2>2, <2>3, BatchGoesOn
<1>8. CASE Load(s)
  <2>1. CASE Ends(s, loc[s], "failed", "scan_error")
    BY <1>2, <1>8, <2>1 DEF Load, Phase
  <2>2. CASE GotoWith(s, "loop", [loc[s] EXCEPT !.scanned = BatchEnd(s), !.at = NextAt(s)])
    BY <1>1, <1>7, <1>8, <2>2 DEF Load, Locals
  <2>3. CASE GotoWith(s, "native", [loc[s] EXCEPT !.tries = 0, !.nativeFailed = FALSE,
                                                  !.token = 1, !.results = {}])
    <3>. DEFINE u == [loc[s] EXCEPT !.tries = 0, !.nativeFailed = FALSE, !.token = 1, !.results = {}]
    <3>1. /\ u.chain = loc[s].chain /\ u.max = loc[s].max /\ u.at = loc[s].at
          /\ GotoWith(s, "native", u) /\ pc[s] = "load"
      BY <1>1, <1>8, <2>3, LoadLocals DEF Load
    <3>. HIDE DEF u
    <3> QED  BY <1>1, <3>1, BatchGoesOn DEF Phase, Stage, InBatch
  <2> QED  BY <1>8, <2>1, <2>2, <2>3 DEF Load
<1>9. CASE FetchNativeBalances(s) \/ FetchTokenBalances(s)
  BY <1>9, FetchGoesOn
<1>10. CASE StoreBatch(s)
  <2>. DEFINE u == [loc[s] EXCEPT !.scanned = BatchEnd(s), !.results = {}]
  <2>1. /\ u.chain = loc[s].chain /\ u.max = loc[s].max /\ u.at = loc[s].at
        /\ pc[s] = "store"
    BY <1>1, <1>10, SameInBatch DEF StoreBatch
  <2>2. GotoWith(s, "report", u) \/ Ends(s, u, "failed", "scan_error")
    BY <1>10 DEF StoreBatch
  <2>3. u \in Locals
    <3>1. loc[s].at < loc[s].max
      BY <2>1 DEF Inv, PositionOK, ScanOK, InBatch
    <3>2. PICK end \in Nat : end = BatchEnd(s)
      BY <1>1, <3>1, BatchBounds
    <3> QED  BY <1>1, <3>2 DEF Locals
  <2>. HIDE DEF u
  <2>4. Phase(pc[s]) = 2 /\ Stage("report") > Stage(pc[s])
    BY <2>1 DEF Phase, Stage
  <2> QED  BY <1>1, <2>1, <2>2, <2>3, <2>4, ScanEnds, BatchGoesOn
<1>11. CASE Report(s)
  <2>1. CASE Ends(s, loc[s], "failed", "scan_error")
    BY <1>2, <1>11, <2>1 DEF Report, Phase
  <2>2. CASE GotoWith(s, "loop", [loc[s] EXCEPT !.at = NextAt(s)])
    BY <1>1, <1>7, <1>11, <2>2 DEF Report, Locals
  <2> QED  BY <1>11, <2>1, <2>2 DEF Report
<1>12. CASE WriteFinal(s) \/ Announce(s)
  <2>1. PICK next \in {"announce", "remove"} :
          Goto(s, next) /\ loc' = loc /\ pc[s] \in {"write", "announce"}
                        /\ (pc[s] = "announce" => next = "remove")
    BY <1>12 DEF WriteFinal, Announce
  <2>2. Phase(pc[s]) < Phase(next)
    BY <2>1 DEF Phase
  <2> QED  BY <1>1, <2>1, <2>2, ScanEnds
<1> QED
  BY <1>4, <1>5, <1>6, <1>8, <1>9, <1>10, <1>11, <1>12 DEF ScanStep, RemoveScan

\* Whatever the step, a scan with a goroutine goes on by it or is not concerned, and no chain stays
\* taken without one.
LEMMA ScansGoOn ==
  ASSUME Inv, Registered, [Next]_vars
  PROVE  Registered' /\ \A s \in Scans : pc[s] \in Live => Rests(s) \/ Advances(s)
<1>. DEFINE Goal == Registered' /\ \A s \in Scans : pc[s] \in Live => Rests(s) \/ Advances(s)
<1>. SUFFICES Goal
  OBVIOUS
<1>1. /\ ScansOK /\ cancels \in [Chains -> Scans \cup {NoScan}] /\ NoScan \notin Scans
      /\ pc \in [Scans -> PC] /\ DOMAIN loc = Scans
  BY DEF Inv, ScansOK, Scans, NoScan
<1>2. ASSUME NEW s \in Scans, ScanStep(s), pc[s] # "remove"
      PROVE  Goal
  <2>1. GoesOnWith(s)
    BY <1>2, ScanGoesOn
  <2>2. Registered'
    BY <1>1, <2>1 DEF Registered, GoesOnWith, Only
  <2> QED  BY <2>1, <2>2 DEF GoesOnWith, Only, Rests
<1>3. ASSUME NEW s \in Scans, RemoveScan(s)
      PROVE  Goal
  <2>1. /\ pc[s] = "remove" /\ pc'[s] = "over" /\ Only(s)
        /\ cancels' = [cancels EXCEPT ![loc[s].chain] = NoScan]
    BY <1>1, <1>3 DEF RemoveScan, GotoWith, Goto, Only
  <2>2. \A c \in Chains : cancels[c] = s => c = loc[s].chain
    BY <1>1 DEF Registered
  <2>3. Registered'
    BY <1>1, <2>1, <2>2 DEF Registered, Only
  <2>4. Advances(s)
    BY <2>1 DEF Advances, Phase
  <2> QED  BY <2>1, <2>3, <2>4 DEF Only, Rests
<1>4. ASSUME NEW c \in Chains, NEW max \in MaxIDs, StartScan(c, max)
      PROVE  Goal
  <2>1. PICK s \in Scans : s = accepted + 1 /\ pc[s] = "new"
    BY <1>4, ScannerAssumption DEF StartScan, Scans, Inv, ScansOK
  <2>2. /\ pc'[s] = "begin" /\ loc'[s] = NewLocals(c, max) /\ Only(s)
        /\ cancels' = [cancels EXCEPT ![c] = s]
    BY <1>1, <1>4, <2>1 DEF StartScan, GotoWith, Goto, Only
  <2>3. loc'[s].chain = c
    BY <2>2 DEF NewLocals
  <2>4. \A d \in Chains : cancels[d] # s
    BY <1>1, <2>1 DEF Registered, Live
  <2>5. Registered'
    BY <1>1, <2>2, <2>3, <2>4 DEF Registered, Only, Live
  <2> QED  BY <2>1, <2>2, <2>5 DEF Only, Rests, Live
<1>5. CASE Restart
  <2>1. Registered'
    BY <1>5 DEF Restart, Registered
  <2>2. ASSUME NEW s \in Scans, pc[s] \in Live
        PROVE  Advances(s)
    BY <1>1, <1>5, <2>2 DEF Restart, Advances, Phase, Live
  <2> QED  BY <2>1, <2>2
<1>6. CASE UNCHANGED <<cancels, pc, loc>>
  BY <1>6 DEF Registered, Rests
<1>7. ASSUME NEW c \in Chains, StopScan(c) \/ \E j \in 1 .. Len(Pools[c]) : CooldownPasses(c, j)
      PROVE  Goal
  BY <1>6, <1>7 DEF StopScan, CooldownPasses, scanVars
<1>8. CASE \/ ResetBalancesHandler \/ HubStops \/ UNCHANGED vars
           \/ \E k \in Clients : Connect(k) \/ Deliver(k) \/ Disconnect(k)
  BY <1>6, <1>8 DEF ResetBalancesHandler, HubStops, Connect, Deliver, Disconnect, vars, scanVars
<1>9. ASSUME NEW s \in Scans, ScanStep(s), pc[s] = "remove"
      PROVE  RemoveScan(s)
  BY <1>9 DEF ScanStep, Begin, LoopHead, Backoff, Load, FetchNativeBalances, FetchTokenBalances,
              StoreBatch, Report, WriteFinal, Announce
<1>. HIDE DEF Goal
<1>10. ASSUME NEW s \in Scans, ScanStep(s)
       PROVE  Goal
  BY <1>2, <1>3, <1>9, <1>10
<1>11. ASSUME NEW c \in Chains,
              \/ \E max \in MaxIDs : StartScan(c, max)
              \/ StopScan(c)
              \/ \E j \in 1 .. Len(Pools[c]) : CooldownPasses(c, j)
       PROVE  Goal
  BY <1>4, <1>7, <1>11
<1> QED
  BY <1>5, <1>8, <1>10, <1>11 DEF Next

\* What ScansEnd rests on besides the fairness of its steps: a chain is taken in s.cancels only by
\* a scan whose goroutine is alive and has still to remove it, so a stop finds somebody to stop.
THEOREM ChainsAreFreed == Spec => []Registered
<1>1. Init => Registered
  BY DEF Init, Registered
<1>2. Inv /\ Registered /\ [Next]_vars => Registered'
  BY ScansGoOn
<1> QED
  BY <1>1, <1>2, InvHolds, PTL DEF Spec

\* And that goroutine does not go round in circles, whatever the providers answer: every step
\* of it uses up addresses, tokens or providers, or is one further on the way out.
ScansAdvance == [][\A s \in Scans : pc[s] \in Live => Rests(s) \/ Advances(s)]_vars

\* The rounds over the providers, the tokens and the batches end, empty batches included.
THEOREM ScansTerminate == Spec => ScansAdvance
<1>1. Inv /\ Registered /\ [Next]_vars
        => [\A s \in Scans : pc[s] \in Live => Rests(s) \/ Advances(s)]_vars
  BY ScansGoOn
<1> QED
  BY <1>1, InvHolds, ChainsAreFreed, PTL DEF Spec, ScansAdvance

=============================================================================
