-------------------------- MODULE PollerRefinement --------------------------
(***************************************************************************)
(* The Poller implements PaymentLifecycle.  The five writes that move a    *)
(* payment - two inserts, the confirmation, the two credits - map to the   *)
(* five abstract steps; every other step stutters, since it writes neither *)
(* a transaction nor a total.  From the refinement follows the ledger: a   *)
(* total is the sum of the payments credited to its address, for any set   *)
(* of transactions.                                                        *)
(***************************************************************************)
EXTENDS PollerProofs, FiniteSetTheorems

AbstractStep == [Lifecycle!Next]_(Lifecycle!vars)

LEMMA Stutters ==
  ASSUME UNCHANGED <<transactions, credited>>,
         \A a \in Addresses : points'[a].total = points[a].total
  PROVE  AbstractStep
<1>1. \A h \in Hashes : StageOf(h)' = StageOf(h)
  BY DEF StageOf
<1>. QED  BY <1>1 DEF AbstractStep, Lifecycle!vars

(* A row that is not written keeps its stage. *)
LEMMA OtherStage ==
  ASSUME Inv, NEW k \in Hashes, transactions'[k] = transactions[k],
         credited'[k] = credited[k]
  PROVE  StageOf(k)' = StageOf(k)
<1>1. transactions[k].status \in {"NONE", "PENDING", "CONFIRMED"}
  BY RowTypes DEF Inv, TypeOK, TxStatus
<1>. QED  BY <1>1 DEF StageOf

(* The insert of a row maps to See, or to SeeConfirmed. *)
LEMMA InsertIsSee ==
  ASSUME Inv, Inv', NEW h \in Hashes, NEW w \in WatchIDs, NEW a \in Addresses,
         InsertTransaction(h, w, a, "PENDING", 0, now), UNCHANGED credited
  PROVE  AbstractStep
<1>1. /\ transactions[h].status = "NONE" /\ transactions[h].points = 0 /\ credited[h] = 0
      /\ transactions \in [Hashes -> TxRow]
  BY DEF InsertTransaction, Recorded, Inv, RowsOK, RowOK, TypeOK, WatcherTypeOK, DBTypeOK
<1>2. /\ transactions'[h].status = "PENDING" /\ transactions'[h].points = 0
      /\ transactions'[h].address = a
      /\ \A k \in Hashes \ {h} : transactions'[k] = transactions[k]
  BY <1>1 DEF InsertTransaction
<1>3. StageOf(h) = "unseen" /\ StageOf(h)' = "pending"
  BY <1>1, <1>2 DEF StageOf
<1>4. \A k \in Hashes \ {h} : StageOf(k)' = StageOf(k)
  BY <1>2, OtherStage
<1>5. points' = points
  BY DEF InsertTransaction
<1>6. Lifecycle!See(h, a)
  BY <1>1, <1>2, <1>3, <1>4, <1>5 DEF Lifecycle!See
<1>. QED  BY <1>6 DEF AbstractStep, Lifecycle!Next

LEMMA InsertIsSeeConfirmed ==
  ASSUME Inv, Inv', NEW h \in Hashes, NEW w \in WatchIDs, NEW a \in Addresses,
         NEW p \in PointValues,
         InsertTransaction(h, w, a, "CONFIRMED", p, now), UNCHANGED credited
  PROVE  AbstractStep
<1>1. /\ transactions[h].status = "NONE" /\ credited[h] = 0
      /\ transactions \in [Hashes -> TxRow]
  BY DEF InsertTransaction, Recorded, Inv, RowsOK, RowOK, TypeOK, WatcherTypeOK, DBTypeOK
<1>2. /\ transactions'[h].status = "CONFIRMED" /\ transactions'[h].points = p
      /\ transactions'[h].address = a
      /\ \A k \in Hashes \ {h} : transactions'[k] = transactions[k]
  BY <1>1 DEF InsertTransaction
<1>3. StageOf(h) = "unseen" /\ StageOf(h)' = "confirmed"
  BY <1>1, <1>2 DEF StageOf
<1>4. \A k \in Hashes \ {h} : StageOf(k)' = StageOf(k)
  BY <1>2, OtherStage
<1>5. points' = points
  BY DEF InsertTransaction
<1>6. Lifecycle!SeeConfirmed(h, a, p)
  BY <1>1, <1>2, <1>3, <1>4, <1>5 DEF Lifecycle!SeeConfirmed
<1>. QED  BY <1>6 DEF AbstractStep, Lifecycle!Next

LEMMA UpdateIsConfirm ==
  ASSUME Inv, NEW h \in Hashes, NEW p \in PointValues, transactions[h].status = "PENDING",
         UpdateToConfirmed(h, p), UNCHANGED credited
  PROVE  AbstractStep
<1>1. credited[h] = 0 /\ transactions \in [Hashes -> TxRow]
  BY DEF Inv, RowsOK, RowOK, TypeOK, WatcherTypeOK, DBTypeOK
<1>2. /\ transactions'[h] = [transactions[h] EXCEPT !.status = "CONFIRMED", !.points = p]
      /\ \A k \in Hashes \ {h} : transactions'[k] = transactions[k]
  BY <1>1 DEF UpdateToConfirmed
<1>3. /\ transactions'[h].status = "CONFIRMED" /\ transactions'[h].points = p
      /\ transactions'[h].address = transactions[h].address
  BY <1>1, <1>2 DEF TxRow
<1>4. StageOf(h) = "pending" /\ StageOf(h)' = "confirmed"
  BY <1>1, <1>3 DEF StageOf
<1>5. \A k \in Hashes \ {h} : StageOf(k)' = StageOf(k)
  BY <1>2, OtherStage
<1>6. points' = points
  BY DEF UpdateToConfirmed
<1>7. Lifecycle!Confirm(h, p)
  BY <1>2, <1>3, <1>4, <1>5, <1>6 DEF Lifecycle!Confirm
<1>. QED  BY <1>7 DEF AbstractStep, Lifecycle!Next

(* AddUnclaimed and MovePendingToUnclaimed of a payment that is owed. *)
LEMMA CreditIsCredit ==
  ASSUME Inv, NEW h \in Hashes, NEW p \in Nat, Owed(h, p), UNCHANGED transactions,
         credited' = [credited EXCEPT ![h] = @ + 1],
         LET a == transactions[h].address IN
         \/ AddUnclaimed(a, p)
         \/ \E q \in Nat : MovePendingToUnclaimed(a, q, p)
  PROVE  AbstractStep
<1>. DEFINE a == transactions[h].address
<1>1. /\ a \in Addresses /\ transactions[h].points = p /\ credited[h] = 0
      /\ credited \in [Hashes -> Nat] /\ points \in [Addresses -> PointsRow]
      /\ transactions[h].status = "CONFIRMED"
  BY DEF Owed, Inv, RowsOK, RowOK, TypeOK, WatcherTypeOK, DBTypeOK
<1>2. /\ credited'[h] = 1
      /\ \A k \in Hashes \ {h} : credited'[k] = credited[k]
  BY <1>1
<1>3. /\ points'[a].total = points[a].total + p
      /\ \A b \in Addresses \ {a} : points'[b] = points[b]
  <2>. HIDE DEF a
  <2>1. CASE AddUnclaimed(a, p)
    <3>. DEFINE row == [points[a] EXCEPT !.unclaimed = @ + p, !.total = @ + p]
    <3>1. points' = [points EXCEPT ![a] = row]
      BY <2>1 DEF AddUnclaimed
    <3>2. row.total = points[a].total + p
      BY <1>1 DEF PointsRow
    <3>. QED  BY <1>1, <3>1, <3>2
  <2>2. ASSUME NEW q \in Nat, MovePendingToUnclaimed(a, q, p)
        PROVE  /\ points'[a].total = points[a].total + p
               /\ \A b \in Addresses \ {a} : points'[b] = points[b]
    <3>. DEFINE row == [points[a] EXCEPT !.pending = @ - q, !.unclaimed = @ + p,
                                         !.total = @ + p]
    <3>1. points' = [points EXCEPT ![a] = row]
      BY <2>2 DEF MovePendingToUnclaimed
    <3>2. row.total = points[a].total + p
      BY <1>1 DEF PointsRow
    <3>. QED  BY <1>1, <3>1, <3>2
  <2>. QED  BY <2>1, <2>2 DEF a
<1>4. StageOf(h) = "confirmed" /\ StageOf(h)' = "credited"
  BY <1>1, <1>2 DEF StageOf
<1>5. \A k \in Hashes \ {h} : StageOf(k)' = StageOf(k)
  BY <1>2, OtherStage
<1>6. Lifecycle!Credit(h)
  BY <1>1, <1>3, <1>4, <1>5 DEF Lifecycle!Credit
<1>. QED  BY <1>6 DEF AbstractStep, Lifecycle!Next

-----------------------------------------------------------------------------
(* Step by step.                                                           *)

LEMMA TotalsKept ==
  ASSUME DBTypeOK, NEW a, NEW p \in Nat, AddPending(a, p) \/ ResetUnclaimed(a)
  PROVE  \A b \in Addresses : points'[b].total = points[b].total
  BY DEF DBTypeOK, PointsRow, AddPending, ResetUnclaimed

LEMMA CallStutters ==
  ASSUME Inv, NEW w \in WatchIDs, CreateWatch(w) \/ CancelWatch(w)
  PROVE  AbstractStep
<1>1. UNCHANGED <<transactions, points, credited>>
  BY DEF CreateWatch, CheckLimit, CheckDuplicate, InsertWatch, CreateWatchRow, Register,
         CancelWatch, DBRead, DBFault, dbVars
<1>. QED  BY <1>1, Stutters

LEMMA QuietStutters ==
  ASSUME Inv, NEW w \in WatchIDs,
         \/ Start(w) \/ ContextDone(w) \/ Tick(w) \/ Dedup(w) \/ ListPendingOfWatch(w)
         \/ CheckStop(w) \/ Finish(w) \/ RemoveWatch(w)
  PROVE  AbstractStep
<1>1. UNCHANGED <<transactions, points, credited>>
  BY DEF Start, ContextDone, Tick, Dedup, ListPendingOfWatch, CheckStop, Finish,
         UpdateWatchStatus, RemoveWatch, DBRead, DBFault, dbVars
<1>. QED  BY <1>1, Stutters

LEMMA EstimateStutters == ASSUME Inv, NEW w \in WatchIDs, Estimate(w) PROVE AbstractStep
<1>1. g[w].pts \in Nat /\ DBTypeOK
  BY FieldTypes DEF Inv, TypeOK, WatcherTypeOK
<1>2. UNCHANGED <<transactions, credited>>
  BY DEF Estimate, AddPending, DBFault, dbVars
<1>3. \A b \in Addresses : points'[b].total = points[b].total
  BY <1>1, TotalsKept DEF Estimate, DBFault, dbVars
<1>. QED  BY <1>2, <1>3, Stutters

LEMMA InsertRefines == ASSUME Inv, Inv', NEW w \in WatchIDs, Insert(w) PROVE AbstractStep
<1>. DEFINE r == g[w].cur
<1>1. g[w].pc = "insert" /\ UNCHANGED credited
  BY DEF Insert
<1>2. r.hash \in Hashes /\ g[w].address \in Addresses
  BY <1>1, Busy, RawType DEF LocalOK
<1>3. CASE InsertConfirmed(w, r)
  BY <1>1, <1>2, <1>3, InsertIsSeeConfirmed DEF InsertConfirmed
<1>4. CASE InsertUnpriced(w, r) \/ InsertPending(w, r)
  BY <1>1, <1>2, <1>4, InsertIsSee DEF InsertUnpriced, InsertPending
<1>5. CASE InsertFails(w, r)
  <2>1. UNCHANGED <<transactions, points>>
    BY <1>5 DEF InsertFails, DBRead, DBFault, dbVars
  <2>. QED  BY <1>1, <2>1, Stutters
<1>. QED  BY <1>3, <1>4, <1>5 DEF Insert

LEMMA CreditRefines == ASSUME Inv, NEW w \in WatchIDs, Credit(w) PROVE AbstractStep
<1>1. g[w].pc = "credit"
  BY DEF Credit
<1>2. /\ g[w].cur.hash \in Hashes /\ g[w].pts \in Nat
      /\ Owed(g[w].cur.hash, g[w].pts)
      /\ transactions[g[w].cur.hash].address = g[w].address
  BY <1>1, Busy, RawType, FieldTypes DEF LocalOK
<1>3. CASE /\ AddUnclaimed(g[w].address, g[w].pts)
           /\ credited' = [credited EXCEPT ![g[w].cur.hash] = @ + 1]
  BY <1>2, <1>3, CreditIsCredit DEF AddUnclaimed
<1>4. CASE DBFault /\ UNCHANGED credited
  BY <1>4, Stutters DEF DBFault, dbVars
<1>. QED  BY <1>3, <1>4 DEF Credit

LEMMA ConfirmRefines == ASSUME Inv, NEW w \in WatchIDs, Confirm(w) PROVE AbstractStep
<1>1. g[w].pc = "confirm" /\ UNCHANGED credited
  BY DEF Confirm
<1>2. \A h \in g[w].todo : h \in Hashes /\ transactions[h].status = "PENDING"
  BY <1>1, Busy, FieldTypes DEF LocalOK
<1>3. \/ DBRead
      \/ \E h \in g[w].todo : \E p \in PointValues : UpdateToConfirmed(h, p)
  BY DEF Confirm
<1>4. CASE DBRead
  BY <1>1, <1>4, Stutters DEF DBRead, dbVars
<1>. QED  BY <1>1, <1>2, <1>3, <1>4, UpdateIsConfirm

LEMMA MoveRefines == ASSUME Inv, NEW w \in WatchIDs, Move(w) PROVE AbstractStep
<1>1. g[w].pc = "move"
  BY DEF Move
<1>2. /\ g[w].cur.hash \in Hashes /\ g[w].pts \in Nat /\ g[w].old \in Nat
      /\ Owed(g[w].cur.hash, g[w].pts)
  BY <1>1, Busy, RawType, FieldTypes DEF LocalOK
<1>. DEFINE h == g[w].cur.hash
<1>3. CASE /\ MovePendingToUnclaimed(transactions[h].address, g[w].old, g[w].pts)
           /\ credited' = [credited EXCEPT ![h] = @ + 1]
  BY <1>2, <1>3, CreditIsCredit DEF MovePendingToUnclaimed
<1>4. CASE DBFault /\ UNCHANGED credited
  BY <1>4, Stutters DEF DBFault, dbVars
<1>. QED  BY <1>3, <1>4 DEF Move

LEMMA RecoveryRefines == ASSUME Inv, RunRecovery PROVE AbstractStep
<1>1. CASE RecoveryExpire \/ RecoveryList
  <2>1. UNCHANGED <<transactions, points, credited>>
    BY <1>1 DEF RecoveryExpire, RecoveryList, ExpireAllActiveWatches, DBRead, DBFault, dbVars
  <2>. QED  BY <2>1, Stutters
<1>2. CASE RecoveryConfirm
  <2>1. \A h \in rec.todo : h \in Hashes /\ transactions[h].status = "PENDING"
    BY <1>2, RecFieldTypes DEF RecoveryConfirm, Inv, TypeOK, RecOK
  <2>2. \/ DBRead
        \/ \E h \in rec.todo : \E p \in PointValues : UpdateToConfirmed(h, p)
    BY <1>2 DEF RecoveryConfirm
  <2>3. UNCHANGED credited
    BY <1>2 DEF RecoveryConfirm
  <2>4. CASE DBRead
    BY <2>3, <2>4, Stutters DEF DBRead, dbVars
  <2>. QED  BY <2>1, <2>2, <2>3, <2>4, UpdateIsConfirm
<1>3. CASE RecoveryMove
  <2>. DEFINE h == rec.cur.hash
  <2>1. h \in Hashes /\ rec.pts \in Nat /\ rec.old \in Nat /\ Owed(h, rec.pts)
    BY <1>3, RecFieldTypes, RawType DEF RecoveryMove, Inv, TypeOK, RecOK
  <2>2. CASE /\ MovePendingToUnclaimed(transactions[h].address, rec.old, rec.pts)
             /\ credited' = [credited EXCEPT ![h] = @ + 1]
    BY <2>1, <2>2, CreditIsCredit DEF MovePendingToUnclaimed
  <2>3. CASE DBFault /\ UNCHANGED credited
    BY <2>3, Stutters DEF DBFault, dbVars
  <2>. QED  BY <1>3, <2>2, <2>3 DEF RecoveryMove
<1>. QED  BY <1>1, <1>2, <1>3 DEF RunRecovery

LEMMA EnvironmentStutters ==
  ASSUME Inv,
         \/ ClockTick
         \/ \E w \in WatchIDs : Expire(w) \/ Deadline(w)
         \/ \E h \in Hashes : Appear(h) \/ Finalize(h)
  PROVE  AbstractStep
<1>1. UNCHANGED <<transactions, points, credited>>
  BY DEF ClockTick, Expire, Deadline, Appear, Finalize, DBRead, dbVars
<1>. QED  BY <1>1, Stutters

LEMMA ClaimStutters ==
  ASSUME Inv, NEW c \in Claimers, ClaimRead(c) \/ ClaimReset(c)
  PROVE  AbstractStep
<1>1. UNCHANGED <<transactions, credited>>
  BY DEF ClaimRead, ClaimReset, ResetUnclaimed, DBFault, watcherVars, dbVars
<1>2. DBTypeOK /\ 0 \in Nat
  BY DEF Inv, TypeOK, WatcherTypeOK
<1>3. \A b \in Addresses : points'[b].total = points[b].total
  BY <1>2, TotalsKept DEF ClaimRead, ClaimReset, DBFault, watcherVars, dbVars
<1>. QED  BY <1>1, <1>3, Stutters

LEMMA ProcessStutters == ASSUME Inv, ProcessStep PROVE AbstractStep
<1>1. UNCHANGED <<transactions, points, credited>>
  BY DEF ProcessStep, Serve, BeginStop, CancelAll, FinishStop, StopExpire,
         ExpireAllActiveWatches, Exit, Crash, EndProcess, Restart, DBRead, DBFault,
         watcherVars, dbVars
<1>. QED  BY <1>1, Stutters

LEMMA NextRefines == Inv /\ Inv' /\ [Next]_vars => AbstractStep
<1>. SUFFICES ASSUME Inv, Inv', [Next]_vars PROVE AbstractStep
  OBVIOUS
<1>1. ASSUME NEW w \in WatchIDs, CreateWatch(w) \/ CancelWatch(w) \/ RunWatch(w)
      PROVE  AbstractStep
  BY <1>1, CallStutters, QuietStutters, EstimateStutters, InsertRefines, CreditRefines,
     ConfirmRefines, MoveRefines DEF RunWatch
<1>2. CASE WatcherStep
  BY <1>1, <1>2, RecoveryRefines, EnvironmentStutters DEF WatcherStep
<1>3. CASE UNCHANGED vars
  BY <1>3, Stutters DEF vars, watcherVars, dbVars
<1>. QED  BY <1>2, <1>3, ClaimStutters, ProcessStutters DEF Next

LEMMA InitRefines == Init => Lifecycle!Init
  BY DEF Init, WatcherInit, DBInit, Lifecycle!Init, StageOf

(* Every payment is confirmed once, its award fixed then, and credited at    *)
(* most once to the address it was recorded for, whatever goroutine, retry,  *)
(* recovery or crash handles it; nothing else moves a total.                 *)
THEOREM RefinesPaymentLifecycle == Spec => ImplementsLifecycle
<1>1. Inv /\ Inv' /\ [Next]_vars => [Lifecycle!Next]_(Lifecycle!vars)
  BY NextRefines DEF AbstractStep
<1>. QED  BY <1>1, InitRefines, InvHolds, PTL DEF Spec, ImplementsLifecycle, Lifecycle!Spec

-----------------------------------------------------------------------------
(* Sums over finite sets.  SumOf takes the elements in an order that CHOOSE *)
(* fixes; what is used of it is that the order does not matter.             *)

\* A nonempty set of subsets of a finite set has a smallest one.
LEMMA SmallestSubset ==
  ASSUME NEW S, IsFiniteSet(S), NEW B \in SUBSET (SUBSET S), B # {}
  PROVE  \E T \in B : \A U \in SUBSET T : U # T => U \notin B
<1>. DEFINE R == StrictSubsetOrdering(S)
<1>1. IsWellFoundedOn(R, FiniteSubsetsOf(S)) /\ FiniteSubsetsOf(S) = SUBSET S
  BY FS_StrictSubsetOrderingWellFounded, FS_FiniteSubsetsOfFinite
<1>2. PICK T \in B : \A U \in B : ~ (<<U, T>> \in R)
  <2>. HIDE DEF R
  <2>. QED  BY <1>1, WFMin
<1>3. ASSUME NEW U \in SUBSET T, U # T
      PROVE  U \notin B
  <2>1. U \in SUBSET S /\ T \in SUBSET S /\ U \subseteq T
    OBVIOUS
  <2>2. <<U, T>> \in R
    BY <1>3, <2>1 DEF StrictSubsetOrdering
  <2>. QED  BY <1>2, <2>2
<1>. QED  BY <1>3

Any(T) == CHOOSE x \in T : TRUE

\* F is the table of the sums of f over the subsets of S.
SumTable(f, S, F) ==
    F = [T \in SUBSET S |-> IF T = {} THEN 0 ELSE f[Any(T)] + F[T \ {Any(T)}]]

\* SumOf reads the sum of S from its table.
LEMMA SumFromTable ==
  ASSUME NEW f, NEW S
  PROVE  SumOf(f, S) = (CHOOSE F : SumTable(f, S, F))[S]
  BY DEF SumOf, FoldSet, MapThenFoldSet, SumTable, Any

\* Two tables agree where both are defined.
LEMMA SumTablesAgree ==
  ASSUME NEW f, NEW S, IsFiniteSet(S), NEW T \in SUBSET S,
         NEW F, SumTable(f, S, F), NEW G, SumTable(f, T, G)
  PROVE  F[T] = G[T]
<1>. DEFINE Bad == {U \in SUBSET T : F[U] # G[U]}
<1>1. ASSUME Bad # {}
      PROVE  FALSE
  <2>1. IsFiniteSet(T)
    BY FS_Subset
  <2>2. PICK U \in Bad : \A V \in SUBSET U : V # U => V \notin Bad
    <3>1. Bad \in SUBSET (SUBSET T)
      OBVIOUS
    <3>. HIDE DEF Bad
    <3>. QED  BY <1>1, <2>1, <3>1, SmallestSubset
  <2>3. U \in SUBSET S /\ U \in SUBSET T /\ F[U] # G[U]
    OBVIOUS
  <2>4. /\ F[U] = IF U = {} THEN 0 ELSE f[Any(U)] + F[U \ {Any(U)}]
        /\ G[U] = IF U = {} THEN 0 ELSE f[Any(U)] + G[U \ {Any(U)}]
    BY <2>3 DEF SumTable
  <2>5. U # {}
    BY <2>3, <2>4
  <2>6. Any(U) \in U
    BY <2>5 DEF Any
  <2>7. U \ {Any(U)} \notin Bad
    BY <2>2, <2>6
  <2>8. F[U \ {Any(U)}] = G[U \ {Any(U)}]
    BY <2>3, <2>7
  <2>. QED  BY <2>3, <2>4, <2>5, <2>8
<1>. QED  BY <1>1

\* A finite set has a table: a smallest set without one would have the table
\* put together from those of its subsets.
LEMMA SumTableExists ==
  ASSUME NEW f, NEW S, IsFiniteSet(S)
  PROVE  \E F : SumTable(f, S, F)
<1>. DEFINE Bad == {T \in SUBSET S : ~ \E F : SumTable(f, T, F)}
<1>1. ASSUME Bad # {}
      PROVE  FALSE
  <2>1. PICK T \in Bad : \A U \in SUBSET T : U # T => U \notin Bad
    <3>1. Bad \in SUBSET (SUBSET S)
      OBVIOUS
    <3>. HIDE DEF Bad
    <3>. QED  BY <1>1, <3>1, SmallestSubset
  <2>. DEFINE Table(U) == CHOOSE F : SumTable(f, U, F)
              G == [U \in SUBSET T |-> IF U = {} THEN 0
                       ELSE f[Any(U)] + Table(U \ {Any(U)})[U \ {Any(U)}]]
  <2>2. \A U \in SUBSET T : U # T => SumTable(f, U, Table(U))
    <3>1. \A U \in SUBSET T : U # T => \E F : SumTable(f, U, F)
      BY <2>1
    <3>. QED  BY <3>1
  <2>3. \A U \in SUBSET T : U # {} =>
            /\ Any(U) \in U
            /\ U \ {Any(U)} \in SUBSET T /\ U \ {Any(U)} # T
    BY DEF Any
  <2>4. ASSUME NEW U \in SUBSET T, U # T
        PROVE  G[U] = Table(U)[U]
    <3>1. SumTable(f, U, Table(U))
      BY <2>2, <2>4
    <3>2. Table(U)[U] = IF U = {} THEN 0 ELSE f[Any(U)] + Table(U)[U \ {Any(U)}]
      <4>. DEFINE F == Table(U)
      <4>1. SumTable(f, U, F)
        BY <3>1
      <4>. HIDE DEF F
      <4>2. F[U] = IF U = {} THEN 0 ELSE f[Any(U)] + F[U \ {Any(U)}]
        BY <4>1 DEF SumTable
      <4>. QED  BY <4>2 DEF F
    <3>3. CASE U = {}
      BY <3>2, <3>3
    <3>4. CASE U # {}
      <4>. DEFINE V == U \ {Any(U)}
      <4>1. V \in SUBSET U /\ V \in SUBSET T /\ V # T
        BY <2>3, <3>4
      <4>2. SumTable(f, V, Table(V))
        BY <2>2, <4>1
      <4>3. IsFiniteSet(U)
        BY FS_Subset
      <4>4. Table(U)[V] = Table(V)[V]
        <5>. HIDE DEF V, Table
        <5>. QED  BY <3>1, <4>1, <4>2, <4>3, SumTablesAgree
      <4>. QED  BY <3>2, <3>4, <4>4
    <3>. QED  BY <3>3, <3>4
  <2>5. \A U \in SUBSET T : U # {} =>
            G[U \ {Any(U)}] = Table(U \ {Any(U)})[U \ {Any(U)}]
    <3>. HIDE DEF G, Table
    <3>. QED  BY <2>3, <2>4
  <2>6. \A U \in SUBSET T : G[U] = IF U = {} THEN 0 ELSE f[Any(U)] + G[U \ {Any(U)}]
    <3>1. \A U \in SUBSET T :
            G[U] = IF U = {} THEN 0 ELSE f[Any(U)] + Table(U \ {Any(U)})[U \ {Any(U)}]
      OBVIOUS
    <3>. HIDE DEF G, Table
    <3>. QED  BY <2>5, <3>1
  <2>7. G = [U \in SUBSET T |-> G[U]]
    OBVIOUS
  <2>. HIDE DEF G
  <2>8. SumTable(f, T, G)
    BY <2>6, <2>7 DEF SumTable
  <2>. QED  BY <2>1, <2>8
<1>. QED  BY <1>1

\* The equation of the sum, of which everything else follows.
LEMMA SumEquation ==
  ASSUME NEW f, NEW S, IsFiniteSet(S)
  PROVE  SumOf(f, S) = IF S = {} THEN 0 ELSE f[Any(S)] + SumOf(f, S \ {Any(S)})
<1>. DEFINE Table(U) == CHOOSE F : SumTable(f, U, F)
<1>1. \A U \in SUBSET S : SumTable(f, U, Table(U)) /\ SumOf(f, U) = Table(U)[U]
  <2>. SUFFICES ASSUME NEW U \in SUBSET S
                PROVE  SumTable(f, U, Table(U)) /\ SumOf(f, U) = Table(U)[U]
    OBVIOUS
  <2>1. IsFiniteSet(U)
    BY FS_Subset
  <2>. QED  BY <2>1, SumTableExists, SumFromTable
<1>. HIDE DEF Table
<1>2. PICK F : F = Table(S)
  OBVIOUS
<1>3. SumTable(f, S, F) /\ SumOf(f, S) = F[S]
  BY <1>1, <1>2
<1>4. F[S] = IF S = {} THEN 0 ELSE f[Any(S)] + F[S \ {Any(S)}]
  BY <1>3 DEF SumTable
<1>5. PICK T : T = S \ {Any(S)}
  OBVIOUS
<1>6. T \in SUBSET S
  BY <1>5
<1>7. SumTable(f, T, Table(T)) /\ SumOf(f, T) = Table(T)[T]
  BY <1>1, <1>6
<1>8. F[T] = Table(T)[T]
  BY <1>3, <1>6, <1>7, SumTablesAgree
<1>. QED  BY <1>3, <1>4, <1>5, <1>7, <1>8

\* Nothing sums to zero.
LEMMA SumEmpty == ASSUME NEW f PROVE SumOf(f, {}) = 0
  BY SumEquation, FS_EmptySet

\* A sum of natural numbers is one.
LEMMA SumNatural ==
  ASSUME NEW f, NEW S, IsFiniteSet(S), \A x \in S : f[x] \in Nat
  PROVE  SumOf(f, S) \in Nat
<1>. DEFINE Bad == {T \in SUBSET S : SumOf(f, T) \notin Nat}
<1>1. ASSUME Bad # {}
      PROVE  FALSE
  <2>1. PICK T \in Bad : \A U \in SUBSET T : U # T => U \notin Bad
    <3>1. Bad \in SUBSET (SUBSET S)
      OBVIOUS
    <3>. HIDE DEF Bad
    <3>. QED  BY <1>1, <3>1, SmallestSubset
  <2>2. IsFiniteSet(T)
    BY FS_Subset
  <2>3. T # {}
    BY SumEmpty
  <2>4. Any(T) \in T
    BY <2>3 DEF Any
  <2>5. SumOf(f, T \ {Any(T)}) \in Nat
    BY <2>1, <2>4
  <2>6. SumOf(f, T) = f[Any(T)] + SumOf(f, T \ {Any(T)})
    BY <2>2, <2>3, SumEquation
  <2>. QED  BY <2>4, <2>5, <2>6
<1>2. S \in SUBSET S
  OBVIOUS
<1>. QED  BY <1>1, <1>2

\* Any element may be taken first.
LEMMA SumRemove ==
  ASSUME NEW f, NEW S, IsFiniteSet(S), \A y \in S : f[y] \in Nat, NEW x \in S
  PROVE  SumOf(f, S) = f[x] + SumOf(f, S \ {x})
<1>. DEFINE Bad == {T \in SUBSET S : \E y \in T : SumOf(f, T) # f[y] + SumOf(f, T \ {y})}
<1>1. ASSUME Bad # {}
      PROVE  FALSE
  <2>1. PICK T \in Bad : \A U \in SUBSET T : U # T => U \notin Bad
    <3>1. Bad \in SUBSET (SUBSET S)
      OBVIOUS
    <3>. HIDE DEF Bad
    <3>. QED  BY <1>1, <3>1, SmallestSubset
  <2>2. PICK y \in T : SumOf(f, T) # f[y] + SumOf(f, T \ {y})
    OBVIOUS
  <2>3. PICK z \in T : SumOf(f, T) = f[z] + SumOf(f, T \ {z})
    <3>1. IsFiniteSet(T)
      BY FS_Subset
    <3>2. Any(T) \in T
      BY DEF Any
    <3>. QED  BY <3>1, <3>2, SumEquation
  <2>4. y # z
    BY <2>2, <2>3
  <2>5. /\ T \ {y} \notin Bad /\ T \ {z} \notin Bad
        /\ T \ {y} \in SUBSET S /\ T \ {z} \in SUBSET S
    BY <2>1
  <2>6. /\ SumOf(f, T \ {z}) = f[y] + SumOf(f, (T \ {z}) \ {y})
        /\ SumOf(f, T \ {y}) = f[z] + SumOf(f, (T \ {y}) \ {z})
    BY <2>4, <2>5
  <2>7. (T \ {z}) \ {y} = (T \ {y}) \ {z}
    OBVIOUS
  <2>8. SumOf(f, (T \ {y}) \ {z}) \in Nat /\ f[y] \in Nat /\ f[z] \in Nat
    <3>1. IsFiniteSet((T \ {y}) \ {z})
      BY FS_Subset
    <3>. QED  BY <3>1, SumNatural
  <2>. QED  BY <2>2, <2>3, <2>6, <2>7, <2>8
<1>2. S \in SUBSET S
  OBVIOUS
<1>. QED  BY <1>1, <1>2

\* A new element adds its value.
LEMMA SumAdd ==
  ASSUME NEW f, NEW S, IsFiniteSet(S), NEW x, x \notin S,
         \A y \in S \cup {x} : f[y] \in Nat
  PROVE  SumOf(f, S \cup {x}) = f[x] + SumOf(f, S)
<1>1. IsFiniteSet(S \cup {x}) /\ (S \cup {x}) \ {x} = S
  BY FS_AddElement
<1>. QED  BY <1>1, SumRemove

\* The sum depends on the values at the elements only.
LEMMA SumSame ==
  ASSUME NEW f, NEW k, NEW S, IsFiniteSet(S), \A x \in S : f[x] = k[x]
  PROVE  SumOf(f, S) = SumOf(k, S)
<1>. DEFINE Bad == {T \in SUBSET S : SumOf(f, T) # SumOf(k, T)}
<1>1. ASSUME Bad # {}
      PROVE  FALSE
  <2>1. PICK T \in Bad : \A U \in SUBSET T : U # T => U \notin Bad
    <3>1. Bad \in SUBSET (SUBSET S)
      OBVIOUS
    <3>. HIDE DEF Bad
    <3>. QED  BY <1>1, <3>1, SmallestSubset
  <2>2. IsFiniteSet(T)
    BY FS_Subset
  <2>3. T # {}
    BY SumEmpty
  <2>4. Any(T) \in T
    BY <2>3 DEF Any
  <2>5. SumOf(f, T \ {Any(T)}) = SumOf(k, T \ {Any(T)})
    BY <2>1, <2>4
  <2>. QED  BY <2>2, <2>3, <2>4, <2>5, SumEquation
<1>2. S \in SUBSET S
  OBVIOUS
<1>. QED  BY <1>1, <1>2

\* The sum over a set is that over a part of it and that over the rest.
LEMMA SumSplit ==
  ASSUME NEW f, NEW S, IsFiniteSet(S), \A x \in S : f[x] \in Nat, NEW T \in SUBSET S
  PROVE  SumOf(f, S) = SumOf(f, T) + SumOf(f, S \ T)
<1>. DEFINE Bad == {U \in SUBSET T : SumOf(f, S) # SumOf(f, U) + SumOf(f, S \ U)}
<1>0. IsFiniteSet(T)
  BY FS_Subset
<1>1. ASSUME Bad # {}
      PROVE  FALSE
  <2>1. PICK U \in Bad : \A V \in SUBSET U : V # U => V \notin Bad
    <3>1. Bad \in SUBSET (SUBSET T)
      OBVIOUS
    <3>. HIDE DEF Bad
    <3>. QED  BY <1>0, <1>1, <3>1, SmallestSubset
  <2>2. IsFiniteSet(U) /\ IsFiniteSet(S \ U) /\ SumOf(f, S) \in Nat
    BY FS_Subset, SumNatural
  <2>3. U # {}
    <3>1. S \ {} = S
      OBVIOUS
    <3>. QED  BY <2>2, <3>1, SumEmpty
  <2>4. PICK x \in U : TRUE
    BY <2>3
  <2>. DEFINE V == U \ {x}
  <2>5. SumOf(f, S) = SumOf(f, V) + SumOf(f, S \ V)
    BY <2>1
  <2>6. S \ V = (S \ U) \cup {x} /\ x \notin S \ U /\ x \in S
    OBVIOUS
  <2>7. SumOf(f, S \ V) = f[x] + SumOf(f, S \ U)
    BY <2>2, <2>6, SumAdd
  <2>8. SumOf(f, U) = f[x] + SumOf(f, V)
    BY <2>2, SumRemove
  <2>9. SumOf(f, V) \in Nat /\ SumOf(f, S \ U) \in Nat /\ f[x] \in Nat
    <3>1. IsFiniteSet(V)
      BY <2>2, FS_Subset
    <3>. QED  BY <2>2, <3>1, SumNatural
  <2>10. SumOf(f, S) # SumOf(f, U) + SumOf(f, S \ U)
    OBVIOUS
  <2>. HIDE DEF V
  <2>. QED  BY <2>5, <2>7, <2>8, <2>9, <2>10
<1>2. T \in SUBSET T
  OBVIOUS
<1>. QED  BY <1>1, <1>2

\* Zeros sum to zero.
LEMMA SumZeros ==
  ASSUME NEW f, NEW S, IsFiniteSet(S), \A x \in S : f[x] = 0
  PROVE  SumOf(f, S) = 0
<1>. DEFINE Bad == {T \in SUBSET S : SumOf(f, T) # 0}
<1>1. ASSUME Bad # {}
      PROVE  FALSE
  <2>1. PICK T \in Bad : \A U \in SUBSET T : U # T => U \notin Bad
    <3>1. Bad \in SUBSET (SUBSET S)
      OBVIOUS
    <3>. HIDE DEF Bad
    <3>. QED  BY <1>1, <3>1, SmallestSubset
  <2>2. IsFiniteSet(T)
    BY FS_Subset
  <2>3. T # {}
    BY SumEmpty
  <2>4. Any(T) \in T
    BY <2>3 DEF Any
  <2>5. SumOf(f, T \ {Any(T)}) = 0
    BY <2>1, <2>4
  <2>. QED  BY <2>2, <2>3, <2>4, <2>5, SumEquation
<1>2. S \in SUBSET S
  OBVIOUS
<1>. QED  BY <1>1, <1>2

\* A sum may be taken over other names of the same elements.
LEMMA SumImage ==
  ASSUME NEW f, NEW k, NEW S, NEW name, IsFiniteSet(S),
         \A x \in S : f[x] = k[name[x]] /\ f[x] \in Nat,
         \A x, y \in S : name[x] = name[y] => x = y
  PROVE  IsFiniteSet({name[x] : x \in S}) /\ SumOf(f, S) = SumOf(k, {name[x] : x \in S})
<1>. DEFINE Image(T) == {name[x] : x \in T}
            Bad == {T \in SUBSET S : ~ (IsFiniteSet(Image(T)) /\ SumOf(f, T) = SumOf(k, Image(T)))}
<1>1. ASSUME Bad # {}
      PROVE  FALSE
  <2>1. PICK T \in Bad : \A U \in SUBSET T : U # T => U \notin Bad
    <3>1. Bad \in SUBSET (SUBSET S)
      OBVIOUS
    <3>. HIDE DEF Bad
    <3>. QED  BY <1>1, <3>1, SmallestSubset
  <2>2. IsFiniteSet(T) /\ T \in SUBSET S
    BY FS_Subset
  <2>3. CASE T = {}
    <3>1. Image(T) = {}
      BY <2>3
    <3>. QED  BY <2>3, <3>1, SumEmpty, FS_EmptySet
  <2>4. CASE T # {}
    <3>1. PICK x \in T : TRUE
      BY <2>4
    <3>. DEFINE U == T \ {x}
    <3>2. IsFiniteSet(Image(U)) /\ SumOf(f, U) = SumOf(k, Image(U))
      BY <2>1
    <3>3. Image(T) = Image(U) \cup {name[x]} /\ name[x] \notin Image(U)
      BY <2>2
    <3>4. IsFiniteSet(Image(T))
      BY <3>2, <3>3, FS_AddElement
    <3>5. \A z \in Image(U) \cup {name[x]} : k[z] \in Nat
      BY <2>2, <3>3
    <3>6. SumOf(k, Image(T)) = k[name[x]] + SumOf(k, Image(U))
      <4>. HIDE DEF Image
      <4>. QED  BY <3>2, <3>3, <3>5, SumAdd
    <3>7. SumOf(f, T) = f[x] + SumOf(f, U)
      BY <2>2, SumRemove
    <3>8. f[x] = k[name[x]]
      BY <2>2
    <3>9. T \in Bad
      OBVIOUS
    <3>. QED  BY <3>2, <3>4, <3>6, <3>7, <3>8, <3>9
  <2>. QED  BY <2>3, <2>4
<1>2. S \in SUBSET S
  OBVIOUS
<1>. QED  BY <1>1, <1>2

-----------------------------------------------------------------------------
(* The ledger: what a total is the sum of.                                  *)

PointsOf == [h \in Hashes |-> transactions[h].points]
SeenHashes == {h \in Hashes : StageOf(h) # "unseen"}
CreditedTo(a) == {h \in Hashes : StageOf(h) = "credited" /\ transactions[h].address = a}

\* A total is the sum of the payments credited to its address.
Ledger ==
    /\ IsFiniteSet(SeenHashes)
    /\ \A a \in Addresses : points[a].total = SumOf(PointsOf, CreditedTo(a))

\* The empty database: nothing credited, totals of zero.
LEMMA InitLedger == Init => Ledger
<1>. SUFFICES ASSUME Init PROVE Ledger
  OBVIOUS
<1>1. \A h \in Hashes : StageOf(h) = "unseen"
  BY DEF Init, WatcherInit, DBInit, StageOf
<1>2. SeenHashes = {} /\ \A a \in Addresses : CreditedTo(a) = {}
  BY <1>1 DEF SeenHashes, CreditedTo
<1>3. \A a \in Addresses : points[a].total = 0
  BY DEF Init, WatcherInit, DBInit
<1>. QED  BY <1>2, <1>3, SumEmpty, FS_EmptySet DEF Ledger

\* Every transaction is worth a natural number of points.
LEMMA PointsAreNatural ==
  ASSUME Inv
  PROVE  \A h \in Hashes : PointsOf[h] \in Nat
<1>1. \A h \in Hashes : transactions[h] \in TxRow
  BY DEF Inv, TypeOK, WatcherTypeOK, DBTypeOK
<1>. QED  BY <1>1 DEF PointsOf, TxRow

\* What is credited to an address is in the ledger, finitely many rows.
LEMMA CreditedAreSeen ==
  ASSUME Ledger, NEW a \in Addresses
  PROVE  IsFiniteSet(CreditedTo(a))
<1>1. CreditedTo(a) \in SUBSET SeenHashes
  BY DEF CreditedTo, SeenHashes
<1>. QED  BY <1>1, FS_Subset DEF Ledger

\* A step that credits nothing and sees at most one new payment.
LEMMA LedgerKept ==
  ASSUME Ledger, NEW h \in Hashes,
         \A k \in Hashes \ {h} : /\ StageOf(k)' = StageOf(k)
                                 /\ transactions'[k].address = transactions[k].address
                                 /\ transactions'[k].points = transactions[k].points,
         \/ StageOf(h) # "credited" /\ StageOf(h)' # "credited"
         \/ /\ StageOf(h)' = StageOf(h)
            /\ transactions'[h].address = transactions[h].address
            /\ transactions'[h].points = transactions[h].points,
         \A a \in Addresses : points'[a].total = points[a].total
  PROVE  Ledger'
<1>1. IsFiniteSet(SeenHashes')
  <2>1. IsFiniteSet(SeenHashes \cup {h})
    BY FS_AddElement DEF Ledger
  <2>2. SeenHashes' \in SUBSET (SeenHashes \cup {h})
    BY DEF SeenHashes
  <2>. QED  BY <2>1, <2>2, FS_Subset
<1>2. ASSUME NEW a \in Addresses
      PROVE  points'[a].total = SumOf(PointsOf', CreditedTo(a)')
  <2>1. CreditedTo(a)' = CreditedTo(a)
    BY DEF CreditedTo
  <2>2. \A k \in CreditedTo(a) : PointsOf'[k] = PointsOf[k]
    BY DEF CreditedTo, PointsOf
  <2>3. SumOf(PointsOf', CreditedTo(a)) = SumOf(PointsOf, CreditedTo(a))
    BY <2>2, CreditedAreSeen, SumSame
  <2>. QED  BY <2>1, <2>3 DEF Ledger
<1>. QED  BY <1>1, <1>2 DEF Ledger

\* The step that credits h: one more payment, and its points.
LEMMA LedgerCredits ==
  ASSUME Inv, Ledger, NEW h \in Hashes, NEW a \in Addresses,
         transactions[h].address = a, StageOf(h) = "confirmed", StageOf(h)' = "credited",
         \A k \in Hashes \ {h} : StageOf(k)' = StageOf(k),
         \A k \in Hashes : /\ transactions'[k].address = transactions[k].address
                           /\ transactions'[k].points = transactions[k].points,
         \A b \in Addresses : points'[b].total =
              IF b = a THEN points[a].total + transactions[h].points ELSE points[b].total
  PROVE  Ledger'
<1>1. IsFiniteSet(SeenHashes')
  <2>1. SeenHashes' = SeenHashes
    BY DEF SeenHashes
  <2>. QED  BY <2>1 DEF Ledger
<1>2. ASSUME NEW b \in Addresses
      PROVE  points'[b].total = SumOf(PointsOf', CreditedTo(b)')
  <2>0. \A k \in Hashes : PointsOf'[k] = PointsOf[k] /\ PointsOf[k] \in Nat
    BY PointsAreNatural DEF PointsOf
  <2>1. CASE b = a
    <3>1. CreditedTo(b)' = CreditedTo(b) \cup {h} /\ h \notin CreditedTo(b)
      BY <2>1 DEF CreditedTo
    <3>2. IsFiniteSet(CreditedTo(b)) /\ IsFiniteSet(CreditedTo(b) \cup {h})
      BY CreditedAreSeen, FS_AddElement
    <3>3. CreditedTo(b) \subseteq Hashes
      BY DEF CreditedTo
    <3>4. SumOf(PointsOf, CreditedTo(b) \cup {h}) = PointsOf[h] + SumOf(PointsOf, CreditedTo(b))
      BY <2>0, <3>1, <3>2, <3>3, SumAdd
    <3>5. SumOf(PointsOf', CreditedTo(b) \cup {h}) = SumOf(PointsOf, CreditedTo(b) \cup {h})
      BY <2>0, <3>2, <3>3, SumSame
    <3>6. SumOf(PointsOf, CreditedTo(b)) \in Nat
      BY <2>0, <3>2, <3>3, SumNatural
    <3>7. PointsOf[h] = transactions[h].points
      BY DEF PointsOf
    <3>. QED  BY <2>0, <2>1, <3>1, <3>4, <3>5, <3>6, <3>7 DEF Ledger
  <2>2. CASE b # a
    <3>1. CreditedTo(b)' = CreditedTo(b)
      BY <2>2 DEF CreditedTo
    <3>2. CreditedTo(b) \subseteq Hashes
      BY DEF CreditedTo
    <3>3. SumOf(PointsOf', CreditedTo(b)) = SumOf(PointsOf, CreditedTo(b))
      BY <2>0, <3>2, CreditedAreSeen, SumSame
    <3>. QED  BY <2>2, <3>1, <3>3 DEF Ledger
  <2>. QED  BY <2>1, <2>2
<1>. QED  BY <1>1, <1>2 DEF Ledger

\* The ledger is kept by every step of the abstract specification, so by every
\* step of the poller.
LEMMA StepLedger == Inv /\ Ledger /\ AbstractStep => Ledger'
<1>. SUFFICES ASSUME Inv, Ledger, AbstractStep PROVE Ledger'
  OBVIOUS
<1>0. \A h \in Hashes : transactions[h].address \in Addresses \/ StageOf(h) \in {"unseen", "credited"}
  BY DEF Inv, RowsOK, RowOK, StageOf
<1>1. ASSUME NEW h \in Hashes,
             \/ \E a \in Addresses : Lifecycle!See(h, a)
             \/ \E a \in Addresses : \E p \in PointValues : Lifecycle!SeeConfirmed(h, a, p)
             \/ \E p \in PointValues : Lifecycle!Confirm(h, p)
      PROVE  Ledger'
  <2>1. /\ \A k \in Hashes \ {h} : /\ StageOf(k)' = StageOf(k)
                                   /\ transactions'[k].address = transactions[k].address
                                   /\ transactions'[k].points = transactions[k].points
        /\ StageOf(h) # "credited" /\ StageOf(h)' # "credited"
        /\ \A b \in Addresses : points'[b].total = points[b].total
    BY <1>1 DEF Lifecycle!See, Lifecycle!SeeConfirmed, Lifecycle!Confirm
  <2>. QED  BY <2>1, LedgerKept
<1>2. ASSUME NEW h \in Hashes, Lifecycle!Credit(h)
      PROVE  Ledger'
  <2>1. /\ StageOf(h) = "confirmed" /\ StageOf(h)' = "credited"
        /\ \A k \in Hashes \ {h} : StageOf(k)' = StageOf(k)
        /\ \A k \in Hashes : /\ transactions'[k].address = transactions[k].address
                             /\ transactions'[k].points = transactions[k].points
    BY <1>2 DEF Lifecycle!Credit
  <2>2. PICK a \in Addresses : transactions[h].address = a
    BY <1>0, <2>1
  <2>3. \A b \in Addresses : points'[b].total =
              IF b = a THEN points[a].total + transactions[h].points ELSE points[b].total
    BY <1>2, <2>2 DEF Lifecycle!Credit
  <2>. QED  BY <2>1, <2>2, <2>3, LedgerCredits
<1>3. ASSUME UNCHANGED Lifecycle!vars
      PROVE  Ledger'
  <2>1. \A k \in Hashes : /\ StageOf(k)' = StageOf(k)
                          /\ transactions'[k].address = transactions[k].address
                          /\ transactions'[k].points = transactions[k].points
    BY <1>3 DEF Lifecycle!vars
  <2>2. \A b \in Addresses : points'[b].total = points[b].total
    BY <1>3 DEF Lifecycle!vars
  <2>3. CASE Hashes = {}
    <3>1. SeenHashes' = SeenHashes /\ \A a \in Addresses : CreditedTo(a)' = {} /\ CreditedTo(a) = {}
      BY <2>3 DEF SeenHashes, CreditedTo
    <3>. QED  BY <2>2, <3>1, SumEmpty DEF Ledger
  <2>4. CASE Hashes # {}
    <3>1. PICK h \in Hashes : TRUE
      BY <2>4
    <3>. QED  BY <2>1, <2>2, <3>1, LedgerKept
  <2>. QED  BY <2>3, <2>4
<1>4. CASE Lifecycle!Next
  <2>1. PICK h \in Hashes :
            \/ \E a \in Addresses : Lifecycle!See(h, a)
            \/ \E a \in Addresses : \E p \in PointValues : Lifecycle!SeeConfirmed(h, a, p)
            \/ \E p \in PointValues : Lifecycle!Confirm(h, p)
            \/ Lifecycle!Credit(h)
    BY <1>4 DEF Lifecycle!Next
  <2>. QED  BY <1>1, <1>2, <2>1
<1>. QED  BY <1>3, <1>4 DEF AbstractStep

\* What is credited, and what is in the ledger but not credited yet.
LEMMA ConfirmedIsLedgered ==
  ASSUME Inv, Ledger, NEW a \in Addresses
  PROVE  LET confirmed == {h \in Hashes : /\ transactions[h].status = "CONFIRMED"
                                          /\ transactions[h].address = a}
         IN  /\ IsFiniteSet(confirmed) /\ CreditedTo(a) \in SUBSET confirmed
             /\ \A h \in confirmed : PointsOf[h] \in Nat
             /\ ConfirmedPoints(a) = SumOf(PointsOf, confirmed)
<1>. DEFINE confirmed == {h \in Hashes : /\ transactions[h].status = "CONFIRMED"
                                         /\ transactions[h].address = a}
<1>1. confirmed \in SUBSET SeenHashes
  BY DEF SeenHashes, StageOf
<1>2. IsFiniteSet(confirmed)
  <2>. HIDE DEF confirmed
  <2>. QED  BY <1>1, FS_Subset DEF Ledger
<1>3. CreditedTo(a) \in SUBSET confirmed
  <2>1. ASSUME NEW h \in Hashes, StageOf(h) = "credited"
        PROVE  transactions[h].status = "CONFIRMED"
    <3>1. transactions[h].status \in {"NONE", "PENDING", "CONFIRMED"}
      BY RowTypes DEF Inv, TypeOK, TxStatus
    <3>. QED  BY <2>1, <3>1 DEF StageOf, Inv, RowsOK, RowOK
  <2>. QED  BY <2>1 DEF CreditedTo
<1>4. \A h \in confirmed : PointsOf[h] \in Nat
  BY PointsAreNatural
<1>. QED  BY <1>2, <1>3, <1>4 DEF ConfirmedPoints, PointsOf

\* Credited transactions are confirmed: their sum is within the confirmed one.
LEMMA LedgerBounds == Inv /\ Ledger => NeverOverCredited
<1>. SUFFICES ASSUME Inv, Ledger, NEW a \in Addresses
              PROVE  points[a].total <= ConfirmedPoints(a)
  BY DEF NeverOverCredited
<1>1. PICK confirmed \in SUBSET Hashes :
        /\ IsFiniteSet(confirmed) /\ CreditedTo(a) \in SUBSET confirmed
        /\ \A h \in confirmed : PointsOf[h] \in Nat
        /\ ConfirmedPoints(a) = SumOf(PointsOf, confirmed)
  BY ConfirmedIsLedgered
<1>2. SumOf(PointsOf, confirmed)
        = SumOf(PointsOf, CreditedTo(a)) + SumOf(PointsOf, confirmed \ CreditedTo(a))
  BY <1>1, SumSplit
<1>3. SumOf(PointsOf, CreditedTo(a)) \in Nat /\ SumOf(PointsOf, confirmed \ CreditedTo(a)) \in Nat
  <2>1. IsFiniteSet(CreditedTo(a)) /\ IsFiniteSet(confirmed \ CreditedTo(a))
    BY <1>1, FS_Subset
  <2>. QED  BY <1>1, <2>1, SumNatural
<1>4. points[a].total = SumOf(PointsOf, CreditedTo(a))
  BY DEF Ledger
<1>. QED  BY <1>1, <1>2, <1>3, <1>4

\* A total is exactly the sum of the payments credited to its address, after
\* any number of credits, crashes and failed statements: the steps of the
\* poller are those of the abstract specification.
THEOREM LedgerHolds == Spec => []Ledger
<1>1. Inv /\ Inv' /\ Ledger /\ [Next]_vars => Ledger'
  BY NextRefines, StepLedger
<1>. QED  BY <1>1, InitLedger, InvHolds, PTL DEF Spec

\* A total is never more than the confirmed transactions of the address are
\* worth together, whatever was confirmed, credited, lost or done again by
\* AddUnclaimed, MovePendingToUnclaimed, a failed statement or a restart.
THEOREM TotalsAreCovered == Spec => []NeverOverCredited
<1>. QED  BY LedgerBounds, LedgerHolds, InvHolds, PTL

=============================================================================
