---------------------------- MODULE PollerProofs ----------------------------
(***************************************************************************)
(* Type correctness of the Poller and the refinement of PaymentLifecycle,  *)
(* for any watches, addresses, hashes, prices, claimers, faults and        *)
(* restarts.                                                               *)
(***************************************************************************)
EXTENDS Poller, TLAPS

-----------------------------------------------------------------------------
(* Every statement of PollerDB leaves well-typed tables.                    *)

LEMMA DBInitType == DBInit => DBTypeOK
  BY DEF DBInit, DBTypeOK, WatchRow, TxRow, PointsRow, WatchStatus, TerminalStatus, TxStatus

LEMMA CreateWatchRowType ==
  ASSUME DBTypeOK, NEW w \in WatchIDs, NEW a \in Addresses, CreateWatchRow(w, a)
  PROVE  DBTypeOK'
  BY DEF DBTypeOK, CreateWatchRow, WatchRow, WatchStatus

LEMMA UpdateWatchStatusType ==
  ASSUME DBTypeOK, NEW w \in WatchIDs, NEW s \in WatchStatus, UpdateWatchStatus(w, s)
  PROVE  DBTypeOK'
  BY DEF DBTypeOK, UpdateWatchStatus, WatchRow

LEMMA ExpireAllActiveWatchesType ==
  ASSUME DBTypeOK, ExpireAllActiveWatches
  PROVE  DBTypeOK'
  BY DEF DBTypeOK, ExpireAllActiveWatches, WatchRow, WatchStatus, TerminalStatus

LEMMA InsertTransactionType ==
  ASSUME DBTypeOK, NEW h \in Hashes, NEW w \in WatchIDs, NEW a \in Addresses,
         NEW s \in TxStatus, NEW p \in Nat, NEW t \in Nat,
         InsertTransaction(h, w, a, s, p, t)
  PROVE  DBTypeOK'
  BY DEF DBTypeOK, InsertTransaction, TxRow

LEMMA UpdateToConfirmedType ==
  ASSUME DBTypeOK, NEW h \in Hashes, NEW p \in Nat, UpdateToConfirmed(h, p)
  PROVE  DBTypeOK'
<1>. DEFINE row == [transactions[h] EXCEPT !.status = "CONFIRMED", !.points = p]
<1>1. "CONFIRMED" \in TxStatus
  BY DEF TxStatus
<1>2. row \in TxRow
  BY <1>1 DEF DBTypeOK, TxRow
<1>3. transactions' = [transactions EXCEPT ![h] = row]
  BY DEF UpdateToConfirmed
<1>. QED  BY <1>2, <1>3 DEF DBTypeOK, UpdateToConfirmed

LEMMA AddUnclaimedType ==
  ASSUME DBTypeOK, NEW a \in Addresses, NEW p \in Nat, AddUnclaimed(a, p)
  PROVE  DBTypeOK'
<1>. DEFINE row == [points[a] EXCEPT !.unclaimed = @ + p, !.total = @ + p]
<1>1. points[a].unclaimed + p \in Nat /\ points[a].total + p \in Nat
  BY DEF DBTypeOK, PointsRow
<1>2. row \in PointsRow
  BY <1>1 DEF DBTypeOK, PointsRow
<1>3. points' = [points EXCEPT ![a] = row]
  BY DEF AddUnclaimed
<1>. QED  BY <1>2, <1>3 DEF DBTypeOK, AddUnclaimed

LEMMA AddPendingType ==
  ASSUME DBTypeOK, NEW a \in Addresses, NEW p \in Nat, AddPending(a, p)
  PROVE  DBTypeOK'
  BY DEF DBTypeOK, AddPending, PointsRow

LEMMA MovePendingToUnclaimedType ==
  ASSUME DBTypeOK, NEW a \in Addresses, NEW p \in Nat, NEW q \in Nat,
         MovePendingToUnclaimed(a, p, q)
  PROVE  DBTypeOK'
<1>. DEFINE row == [points[a] EXCEPT !.pending = @ - p, !.unclaimed = @ + q, !.total = @ + q]
<1>1. /\ points[a].pending - p \in Int
      /\ points[a].unclaimed + q \in Nat
      /\ points[a].total + q \in Nat
  BY DEF DBTypeOK, PointsRow
<1>2. row \in PointsRow
  BY <1>1 DEF DBTypeOK, PointsRow
<1>3. points' = [points EXCEPT ![a] = row]
  BY DEF MovePendingToUnclaimed
<1>. QED  BY <1>2, <1>3 DEF DBTypeOK, MovePendingToUnclaimed

LEMMA ResetUnclaimedType ==
  ASSUME DBTypeOK, NEW a \in Addresses, ResetUnclaimed(a)
  PROVE  DBTypeOK'
  BY DEF DBTypeOK, ResetUnclaimed, PointsRow

LEMMA LastDetectedAtType ==
  ASSUME DBTypeOK, NEW a
  PROVE  LastDetectedAt(a) \in Nat
<1>. DEFINE times == {transactions[h].detectedAt :
                         h \in {x \in Hashes : transactions[x].address = a}}
            latest == {t \in times : \A u \in times : u <= t}
<1>1. times \subseteq Nat
  BY DEF DBTypeOK, TxRow
<1>2. latest \subseteq Nat
  BY <1>1
<1>3. CASE latest = {}
  BY <1>3 DEF LastDetectedAt
<1>4. CASE latest # {}
  <2>1. PICK t \in latest : t = CHOOSE u \in latest : TRUE
    BY <1>4
  <2>2. LastDetectedAt(a) = t
    BY <1>4, <2>1 DEF LastDetectedAt
  <2>. QED  BY <1>2, <2>1, <2>2
<1>. QED  BY <1>3, <1>4

-----------------------------------------------------------------------------
(* The inductive invariant.  A payment is owed between its confirmation and  *)
(* its credit; only the goroutine of the watch that recorded it, or recovery *)
(* while no goroutine runs, holds it then.                                   *)

Owed(h, p) ==
    /\ transactions[h].status = "CONFIRMED"
    /\ transactions[h].points = p
    /\ credited[h] = 0

RowOK(h) ==
    /\ transactions[h].status \in {"NONE", "PENDING"} => transactions[h].points = 0
    /\ transactions[h].status # "NONE" => transactions[h].address \in Addresses
    /\ credited[h] \in {0, 1}
    /\ credited[h] = 1 => transactions[h].status = "CONFIRMED"

LocalOK(w) ==
    /\ g[w].pc \notin {"idle", "done"} => g[w].address \in Addresses
    /\ g[w].pc \in {"insert", "credit", "estimate", "move"} => g[w].cur \in Raw
    /\ g[w].pc \in {"credit", "move"} =>
         /\ Owed(g[w].cur.hash, g[w].pts)
         /\ transactions[g[w].cur.hash].watch = w
    /\ g[w].pc = "credit" => transactions[g[w].cur.hash].address = g[w].address
    /\ g[w].pc \in {"confirm", "move"} => \A h \in g[w].todo :
         transactions[h].status = "PENDING" /\ transactions[h].watch = w

RecOK ==
    /\ rec.pc = "move" => rec.cur \in Raw /\ Owed(rec.cur.hash, rec.pts)
    /\ rec.pc \in {"confirm", "move"} =>
         \A h \in rec.todo : transactions[h].status = "PENDING"

PhaseOK ==
    /\ rec.pc # "off" => phase = "recovery"
    /\ phase \in {"recovery", "down"} => \A w \in WatchIDs : g[w].pc \in {"idle", "done"}

RowsOK == \A h \in Hashes : RowOK(h)
LocalsOK == \A w \in WatchIDs : LocalOK(w)

Inv == TypeOK /\ RowsOK /\ LocalsOK /\ RecOK /\ PhaseOK

-----------------------------------------------------------------------------
(* Types                                                                   *)

LEMMA FieldTypes ==
  ASSUME WatcherTypeOK, NEW w \in WatchIDs
  PROVE  /\ g[w] \in Locals
         /\ g[w].pc \in PC
         /\ g[w].address \in Addresses \cup {NoAddress}
         /\ g[w].batch \in SUBSET Raw
         /\ g[w].todo \in SUBSET Hashes
         /\ g[w].cur \in Raw \cup {NoRaw}
         /\ g[w].old \in Nat
         /\ g[w].pts \in Nat
         /\ g[w].cutoff \in Nat
         /\ g[w].newStatus \in WatchStatus
  BY DEF WatcherTypeOK, Locals

LEMMA IdleType == Idle \in Locals /\ [Idle EXCEPT !.pc = "done"] \in Locals
<1>1. /\ {"idle", "done"} \subseteq PC
      /\ "NONE" \in WatchStatus
      /\ 0 \in Nat
  BY DEF PC, CallPC, WatchStatus
<1>2. Idle \in Locals
  BY <1>1 DEF Idle, Locals
<1>. QED  BY <1>1, <1>2 DEF Locals

LEMMA RecFieldTypes ==
  ASSUME WatcherTypeOK
  PROVE  /\ rec \in RecLocals
         /\ rec.todo \in SUBSET Hashes
         /\ rec.cur \in Raw \cup {NoRaw}
         /\ rec.old \in Nat
         /\ rec.pts \in Nat
  BY DEF WatcherTypeOK, RecLocals

LEMMA RawType ==
  ASSUME NEW r \in Raw
  PROVE  r.hash \in Hashes /\ r.confirmed \in BOOLEAN /\ r.time \in Nat
  BY DEF Raw

LEMMA RawOfType ==
  ASSUME NEW h \in Hashes
  PROVE  RawOf(h) \in Raw /\ RawOf(h).hash = h
  BY DEF Raw, RawOf

LEMMA RowTypes ==
  ASSUME WatcherTypeOK, NEW h \in Hashes
  PROVE  /\ transactions[h].status \in TxStatus
         /\ transactions[h].watch \in WatchIDs \cup {NoWatch}
         /\ transactions[h].address \in Addresses \cup {NoAddress}
         /\ transactions[h].points \in Nat
  BY DEF WatcherTypeOK, DBTypeOK, TxRow

(* What DBRead and DBFault leave behind. *)
LEMMA DBReadType ==
  ASSUME WatcherTypeOK, DBRead \/ DBFault
  PROVE  DBTypeOK' /\ faults' \in Nat
  BY DEF WatcherTypeOK, DBTypeOK, DBRead, DBFault, dbVars

(* What a step of one goroutine, or of one CreateWatch call, may do to the   *)
(* rest of the process's memory.                                             *)
MapStep ==
    /\ UNCHANGED <<rec, envVars>>
    /\ \/ UNCHANGED MapVars
       \/ /\ registered' \subseteq WatchIDs
          /\ ctx' \in [WatchIDs -> {"live", "cancelled", "deadline"}]
          /\ due' \in [WatchIDs -> BOOLEAN]

LEMMA LocalStepType ==
  ASSUME WatcherTypeOK, NEW w \in WatchIDs, NEW x \in Locals, g' = [g EXCEPT ![w] = x],
         DBTypeOK', faults' \in Nat, credited' \in [Hashes -> Nat], MapStep
  PROVE  WatcherTypeOK'
  BY DEF WatcherTypeOK, MapStep, MapVars, envVars

LEMMA AfterRawType ==
  ASSUME WatcherTypeOK, NEW w \in WatchIDs, NEW rest \in SUBSET Raw, NEW r \in Raw,
         NEW ok \in BOOLEAN, AfterRaw(w, rest, r, ok)
  PROVE  \E x \in Locals :
            /\ g' = [g EXCEPT ![w] = x]
            /\ x.pc \in {"list", "dedup"}
            /\ x.address = g[w].address
            /\ x.batch = rest
            /\ x.pts = 0
<1>. DEFINE pc == IF rest = {} THEN "list" ELSE "dedup"
            cutoff == IF ok THEN Max2(g[w].cutoff, r.time) ELSE g[w].cutoff
            x == [g[w] EXCEPT !.pc = pc, !.batch = rest, !.cur = NoRaw, !.pts = 0,
                              !.cutoff = cutoff]
<1>1. pc \in PC /\ pc \in {"list", "dedup"}
  BY DEF PC, GoroutinePC
<1>2. cutoff \in Nat
  BY FieldTypes, RawType DEF Max2
<1>3. g' = [g EXCEPT ![w] = x]
  BY DEF AfterRaw
<1>. HIDE DEF pc, cutoff
<1>4. 0 \in Nat /\ NoRaw \in Raw \cup {NoRaw}
  OBVIOUS
<1>5. x \in Locals
  BY <1>1, <1>2, <1>4, FieldTypes DEF Locals
<1>6. x.pc = pc /\ x.address = g[w].address /\ x.batch = rest /\ x.pts = 0
  BY FieldTypes DEF Locals
<1>. QED  BY <1>1, <1>3, <1>5, <1>6

LEMMA NextPendingType ==
  ASSUME WatcherTypeOK, NEW w \in WatchIDs, NEW rest \in SUBSET Hashes,
         NextPending(w, rest)
  PROVE  \E x \in Locals :
            /\ g' = [g EXCEPT ![w] = x]
            /\ x.pc \in {"check", "confirm"}
            /\ x.address = g[w].address
            /\ x.todo = rest
<1>. DEFINE pc == IF rest = {} THEN "check" ELSE "confirm"
            x == [g[w] EXCEPT !.pc = pc, !.todo = rest, !.cur = NoRaw, !.old = 0,
                              !.pts = 0]
<1>1. pc \in PC /\ pc \in {"check", "confirm"}
  BY DEF PC, GoroutinePC
<1>2. g' = [g EXCEPT ![w] = x]
  BY DEF NextPending
<1>. HIDE DEF pc
<1>3. 0 \in Nat /\ NoRaw \in Raw \cup {NoRaw}
  OBVIOUS
<1>4. x \in Locals
  BY <1>1, <1>3, FieldTypes DEF Locals
<1>5. x.pc = pc /\ x.address = g[w].address /\ x.todo = rest
  BY FieldTypes DEF Locals
<1>. QED  BY <1>1, <1>2, <1>4, <1>5

-----------------------------------------------------------------------------
(* The invariant, step by step.                                            *)

LEMMA InitInv == Init => Inv
<1>. SUFFICES ASSUME Init PROVE Inv
  OBVIOUS
<1>. USE DEF Init, WatcherInit
<1>1. WatcherTypeOK
  <2>1. DBTypeOK
    BY DBInitType
  <2>2. g \in [WatchIDs -> Locals]
    BY IdleType
  <2>3. rec \in RecLocals
    BY DEF RecLocals, RecPC, RecIdle
  <2>4. /\ registered \subseteq WatchIDs
        /\ ctx \in [WatchIDs -> {"live", "cancelled", "deadline"}]
        /\ due \in [WatchIDs -> BOOLEAN]
        /\ onChain \in [Hashes -> {"absent", "unconfirmed", "final"}]
        /\ blockTime \in [Hashes -> Nat]
        /\ now \in Nat /\ faults \in Nat
        /\ credited \in [Hashes -> Nat]
    OBVIOUS
  <2>. QED  BY <2>1, <2>2, <2>3, <2>4 DEF WatcherTypeOK
<1>2. TypeOK
  BY <1>1 DEF TypeOK, Phase, NoClaim
<1>3. RowsOK
  BY DEF RowsOK, RowOK, DBInit
<1>4. LocalsOK
  BY DEF LocalsOK, LocalOK, Idle
<1>5. RecOK
  BY DEF RecOK, RecIdle
<1>6. PhaseOK
  BY DEF PhaseOK, Idle
<1>. QED  BY <1>2, <1>3, <1>4, <1>5, <1>6 DEF Inv

(* A step of w's goroutine that writes only rows that are new or w's own. *)
LEMMA GoroutineStep ==
  ASSUME Inv, NEW w \in WatchIDs, NEW x \in Locals, g' = [g EXCEPT ![w] = x],
         MapStep, UNCHANGED procVars,
         DBTypeOK', faults' \in Nat, credited' \in [Hashes -> Nat],
         phase \notin {"recovery", "down"},
         NEW S \in SUBSET Hashes,
         \A k \in Hashes \ S : /\ transactions'[k] = transactions[k]
                               /\ credited'[k] = credited[k],
         \A k \in S : transactions[k].status = "NONE" \/ transactions[k].watch = w,
         \A k \in S : RowOK(k)',
         LocalOK(w)'
  PROVE  Inv'
<1>. USE DEF Inv
<1>1. TypeOK'
  BY LocalStepType DEF TypeOK, procVars
<1>2. RowsOK'
  BY DEF RowsOK, RowOK
<1>3. LocalsOK'
  <2>. SUFFICES ASSUME NEW v \in WatchIDs, v # w PROVE LocalOK(v)'
    BY DEF LocalsOK
  <2>0. WatcherTypeOK /\ LocalOK(v)
    BY DEF TypeOK, LocalsOK
  <2>1. g'[v] = g[v]
    BY <2>0 DEF WatcherTypeOK
  <2>2. \A k \in Hashes : transactions[k].watch = v /\ transactions[k].status # "NONE"
          => transactions'[k] = transactions[k] /\ credited'[k] = credited[k]
    OBVIOUS
  <2>3. g[v].pc \in {"credit", "move"} =>
          /\ g[v].cur.hash \in Hashes
          /\ transactions'[g[v].cur.hash] = transactions[g[v].cur.hash]
          /\ credited'[g[v].cur.hash] = credited[g[v].cur.hash]
    BY <2>0, <2>2, RawType DEF LocalOK, Owed
  <2>4. g[v].pc \in {"confirm", "move"} => \A h \in g[v].todo :
          transactions'[h] = transactions[h]
    BY <2>0, <2>2, FieldTypes DEF LocalOK
  <2>. QED  BY <2>0, <2>1, <2>3, <2>4 DEF LocalOK, Owed
<1>4. rec.pc = "off" /\ rec' = rec /\ phase' = phase
  <2>1. rec.pc = "off"
    BY DEF PhaseOK
  <2>. QED  BY <2>1 DEF MapStep, procVars
<1>5. RecOK' /\ PhaseOK'
  BY <1>4 DEF RecOK, PhaseOK
<1>. QED  BY <1>1, <1>2, <1>3, <1>5

(* A step of w's goroutine that writes no transaction and credits nothing. *)
LEMMA QuietStep ==
  ASSUME Inv, NEW w \in WatchIDs, NEW x \in Locals, g' = [g EXCEPT ![w] = x],
         MapStep, UNCHANGED procVars, UNCHANGED <<transactions, credited>>,
         DBTypeOK', faults' \in Nat,
         phase \notin {"recovery", "down"},
         x.pc \notin {"idle", "done"} => x.address \in Addresses,
         x.pc \notin {"credit", "move"},
         x.pc \in {"insert", "estimate"} => x.cur \in Raw,
         x.pc = "confirm" => \A h \in x.todo :
           transactions[h].status = "PENDING" /\ transactions[h].watch = w
  PROVE  Inv'
<1>1. g'[w] = x
  BY DEF Inv, TypeOK, WatcherTypeOK
<1>2. LocalOK(w)'
  BY <1>1 DEF LocalOK
<1>3. credited' \in [Hashes -> Nat]
  BY DEF Inv, TypeOK, WatcherTypeOK
<1>4. /\ {} \in SUBSET Hashes
      /\ \A k \in Hashes \ {} : transactions'[k] = transactions[k] /\ credited'[k] = credited[k]
      /\ \A k \in {} : transactions[k].status = "NONE" \/ transactions[k].watch = w
      /\ \A k \in {} : RowOK(k)'
  OBVIOUS
<1>. HIDE DEF MapStep, procVars
<1>. QED  BY <1>2, <1>3, <1>4, GoroutineStep

(* What a call or goroutine under way may rely on. *)
LEMMA Busy ==
  ASSUME Inv, NEW w \in WatchIDs, g[w].pc \notin {"idle", "done"}
  PROVE  /\ WatcherTypeOK /\ DBTypeOK
         /\ phase \notin {"recovery", "down"}
         /\ g[w].address \in Addresses
         /\ LocalOK(w)
  BY DEF Inv, TypeOK, WatcherTypeOK, PhaseOK, LocalsOK, LocalOK

LEMMA PCs ==
  /\ {"idle", "limit", "dup", "register", "start", "loop", "dedup", "insert", "credit",
      "estimate", "list", "confirm", "move", "check", "finish", "remove", "done"} \subseteq PC
  /\ {"EXPIRED", "CANCELLED", "COMPLETED"} \subseteq WatchStatus
  BY DEF PC, CallPC, GoroutinePC, WatchStatus, TerminalStatus

LEMMA CheckLimitInv ==
  ASSUME Inv, UNCHANGED procVars, NEW w \in WatchIDs, NEW a \in Addresses, ApiUp,
         CheckLimit(w, a)
  PROVE  Inv'
<1>. DEFINE x == [g[w] EXCEPT !.pc = "limit", !.address = a]
<1>1. WatcherTypeOK
  BY DEF Inv, TypeOK
<1>2. x \in Locals /\ x.pc = "limit" /\ x.address = a
  BY <1>1, FieldTypes, PCs DEF Locals
<1>3. g' = [g EXCEPT ![w] = x]
  BY DEF CheckLimit
<1>4. phase \notin {"recovery", "down"}
  BY DEF ApiUp
<1>5. MapStep /\ UNCHANGED <<transactions, credited>> /\ DBTypeOK' /\ faults' \in Nat
  BY <1>1, DBReadType DEF CheckLimit, DBRead, dbVars, MapStep, OnlyG
<1>. HIDE DEF x
<1>. QED  BY <1>2, <1>3, <1>4, <1>5, QuietStep

LEMMA CheckDuplicateInv ==
  ASSUME Inv, UNCHANGED procVars, NEW w \in WatchIDs, CheckDuplicate(w)
  PROVE  Inv'
<1>1. g[w].pc = "limit"
  BY DEF CheckDuplicate
<1>2. WatcherTypeOK /\ phase \notin {"recovery", "down"} /\ g[w].address \in Addresses
  BY <1>1, Busy
<1>3. MapStep /\ UNCHANGED <<transactions, credited>> /\ DBTypeOK' /\ faults' \in Nat
  BY <1>2, DBReadType DEF CheckDuplicate, DBRead, DBFault, dbVars, MapStep, OnlyG
<1>4. CASE g' = [g EXCEPT ![w].pc = "dup"]
  <2>. DEFINE x == [g[w] EXCEPT !.pc = "dup"]
  <2>1. x \in Locals /\ x.pc = "dup" /\ x.address = g[w].address
    BY <1>2, FieldTypes, PCs DEF Locals
  <2>2. g' = [g EXCEPT ![w] = x]
    BY <1>4
  <2>. HIDE DEF x
  <2>. QED  BY <1>2, <1>3, <2>1, <2>2, QuietStep
<1>5. CASE g' = [g EXCEPT ![w] = Idle]
  <2>1. Idle \in Locals /\ Idle.pc = "idle"
    BY IdleType DEF Idle
  <2>. QED  BY <1>2, <1>3, <1>5, <2>1, QuietStep
<1>. QED  BY <1>4, <1>5 DEF CheckDuplicate

LEMMA InsertWatchInv ==
  ASSUME Inv, UNCHANGED procVars, NEW w \in WatchIDs, InsertWatch(w)
  PROVE  Inv'
<1>1. g[w].pc = "dup"
  BY DEF InsertWatch
<1>2. WatcherTypeOK /\ DBTypeOK /\ phase \notin {"recovery", "down"} /\ g[w].address \in Addresses
  BY <1>1, Busy
<1>3. MapStep /\ UNCHANGED <<transactions, credited>>
  BY DEF InsertWatch, CreateWatchRow, DBFault, dbVars, MapStep, OnlyG
<1>4. CASE CreateWatchRow(w, g[w].address) /\ g' = [g EXCEPT ![w].pc = "register"]
           /\ UNCHANGED faults
  <2>. DEFINE x == [g[w] EXCEPT !.pc = "register"]
  <2>1. x \in Locals /\ x.pc = "register" /\ x.address = g[w].address
    BY <1>2, FieldTypes, PCs DEF Locals
  <2>2. g' = [g EXCEPT ![w] = x]
    BY <1>4
  <2>3. DBTypeOK' /\ faults' \in Nat
    BY <1>2, <1>4, CreateWatchRowType DEF WatcherTypeOK
  <2>. HIDE DEF x
  <2>. QED  BY <1>2, <1>3, <2>1, <2>2, <2>3, QuietStep
<1>5. CASE DBFault /\ g' = [g EXCEPT ![w] = Idle]
  <2>1. Idle \in Locals /\ Idle.pc = "idle"
    BY IdleType DEF Idle
  <2>2. DBTypeOK' /\ faults' \in Nat
    BY <1>2, <1>5, DBReadType
  <2>. QED  BY <1>2, <1>3, <1>5, <2>1, <2>2, QuietStep
<1>. QED  BY <1>4, <1>5 DEF InsertWatch

LEMMA RegisterInv ==
  ASSUME Inv, UNCHANGED procVars, NEW w \in WatchIDs, Register(w)
  PROVE  Inv'
<1>. DEFINE x == [g[w] EXCEPT !.pc = "start"]
<1>1. g[w].pc = "register"
  BY DEF Register
<1>2. WatcherTypeOK /\ phase \notin {"recovery", "down"} /\ g[w].address \in Addresses
  BY <1>1, Busy
<1>3. x \in Locals /\ x.pc = "start" /\ x.address = g[w].address
  BY <1>2, FieldTypes, PCs DEF Locals
<1>4. g' = [g EXCEPT ![w] = x]
  BY DEF Register
<1>5. MapStep /\ UNCHANGED <<transactions, credited>> /\ DBTypeOK' /\ faults' \in Nat
  BY <1>2, DBReadType DEF Register, DBRead, dbVars, MapStep, WatcherTypeOK
<1>. HIDE DEF x
<1>. QED  BY <1>2, <1>3, <1>4, <1>5, QuietStep

(* A step that leaves every goroutine, recovery and row alone. *)
LEMMA OutsideStep ==
  ASSUME Inv, WatcherTypeOK', UNCHANGED <<g, rec, transactions, credited>>,
         UNCHANGED procVars
  PROVE  Inv'
<1>1. TypeOK'
  BY DEF Inv, TypeOK, procVars
<1>2. RowsOK' /\ LocalsOK' /\ RecOK' /\ PhaseOK'
  BY DEF Inv, RowsOK, RowOK, LocalsOK, LocalOK, Owed, RecOK, PhaseOK, procVars
<1>. QED  BY <1>1, <1>2 DEF Inv

LEMMA CancelWatchInv ==
  ASSUME Inv, UNCHANGED procVars, NEW w \in WatchIDs, CancelWatch(w)
  PROVE  Inv'
<1>1. WatcherTypeOK'
  BY DBReadType DEF Inv, TypeOK, CancelWatch, WatcherTypeOK, envVars
<1>. QED  BY <1>1, OutsideStep DEF CancelWatch, DBRead, dbVars

LEMMA StartInv ==
  ASSUME Inv, UNCHANGED procVars, NEW w \in WatchIDs, Start(w)
  PROVE  Inv'
<1>1. g[w].pc = "start"
  BY DEF Start
<1>2. WatcherTypeOK /\ DBTypeOK /\ phase \notin {"recovery", "down"} /\ g[w].address \in Addresses
  BY <1>1, Busy
<1>3. PICK c \in Nat : g' = [g EXCEPT ![w].pc = "loop", ![w].cutoff = c]
  BY <1>2, LastDetectedAtType DEF Start
<1>. DEFINE x == [g[w] EXCEPT !.pc = "loop", !.cutoff = c]
<1>4. x \in Locals /\ x.pc = "loop" /\ x.address = g[w].address
  BY <1>2, FieldTypes, PCs DEF Locals
<1>5. g' = [g EXCEPT ![w] = x]
  BY <1>3
<1>6. MapStep /\ UNCHANGED <<transactions, credited>> /\ DBTypeOK' /\ faults' \in Nat
  BY <1>2, DBReadType DEF Start, DBRead, DBFault, dbVars, MapStep, OnlyG
<1>. HIDE DEF x
<1>. QED  BY <1>2, <1>4, <1>5, <1>6, QuietStep

LEMMA ContextDoneInv ==
  ASSUME Inv, UNCHANGED procVars, NEW w \in WatchIDs, ContextDone(w)
  PROVE  Inv'
<1>. DEFINE s == IF ctx[w] = "deadline" THEN "EXPIRED" ELSE "CANCELLED"
            x == [g[w] EXCEPT !.pc = "finish", !.newStatus = s]
<1>1. g[w].pc = "loop"
  BY DEF ContextDone
<1>2. WatcherTypeOK /\ phase \notin {"recovery", "down"} /\ g[w].address \in Addresses
  BY <1>1, Busy
<1>3. g' = [g EXCEPT ![w] = x]
  BY DEF ContextDone
<1>4. s \in WatchStatus
  BY PCs
<1>. HIDE DEF s
<1>5. x \in Locals /\ x.pc = "finish" /\ x.address = g[w].address
  BY <1>2, <1>4, FieldTypes, PCs DEF Locals
<1>6. MapStep /\ UNCHANGED <<transactions, credited>> /\ DBTypeOK' /\ faults' \in Nat
  BY <1>2, DBReadType DEF ContextDone, DBRead, dbVars, MapStep, OnlyG
<1>. HIDE DEF x
<1>. QED  BY <1>2, <1>3, <1>5, <1>6, QuietStep

LEMMA FetchResultsType ==
  ASSUME WatcherTypeOK, NEW a \in Addresses, NEW c \in Nat, NEW batch \in FetchResults(a, c)
  PROVE  batch \in SUBSET Raw
<1>1. \A h \in Hashes : RawTx(a, h) \in Raw
  BY DEF RawTx, Raw, WatcherTypeOK
<1>2. {RawTx(a, h) : h \in Since(a, c)} \subseteq Raw
  BY <1>1 DEF Since
<1>. QED  BY <1>2 DEF FetchResults

LEMMA TickInv ==
  ASSUME Inv, UNCHANGED procVars, NEW w \in WatchIDs, Tick(w)
  PROVE  Inv'
<1>1. g[w].pc = "loop"
  BY DEF Tick
<1>2. WatcherTypeOK /\ phase \notin {"recovery", "down"} /\ g[w].address \in Addresses
  BY <1>1, Busy
<1>3. MapStep /\ UNCHANGED <<transactions, credited>> /\ DBTypeOK' /\ faults' \in Nat
  BY <1>2, DBReadType DEF Tick, DBRead, dbVars, MapStep, OnlyG
<1>4. CASE g' = [g EXCEPT ![w].pc = "list"]
  <2>. DEFINE x == [g[w] EXCEPT !.pc = "list"]
  <2>1. x \in Locals /\ x.pc = "list" /\ x.address = g[w].address
    BY <1>2, FieldTypes, PCs DEF Locals
  <2>2. g' = [g EXCEPT ![w] = x]
    BY <1>4
  <2>. HIDE DEF x
  <2>. QED  BY <1>2, <1>3, <2>1, <2>2, QuietStep
<1>5. ASSUME NEW batch \in FetchResults(g[w].address, g[w].cutoff),
             g' = [g EXCEPT ![w].pc = IF batch = {} THEN "list" ELSE "dedup",
                            ![w].batch = batch]
      PROVE  Inv'
  <2>. DEFINE pc == IF batch = {} THEN "list" ELSE "dedup"
              x == [g[w] EXCEPT !.pc = pc, !.batch = batch]
  <2>1. batch \in SUBSET Raw
    BY <1>2, FieldTypes, FetchResultsType
  <2>2. g' = [g EXCEPT ![w] = x]
    BY <1>5
  <2>3. pc \in PC /\ pc \in {"list", "dedup"}
    BY PCs
  <2>. HIDE DEF pc
  <2>4. x \in Locals /\ x.pc = pc /\ x.address = g[w].address
    BY <1>2, <2>1, <2>3, FieldTypes DEF Locals
  <2>. HIDE DEF x
  <2>. QED  BY <1>2, <1>3, <2>2, <2>3, <2>4, QuietStep
<1>. QED  BY <1>4, <1>5 DEF Tick

LEMMA DedupInv ==
  ASSUME Inv, UNCHANGED procVars, NEW w \in WatchIDs, Dedup(w)
  PROVE  Inv'
<1>1. g[w].pc = "dedup"
  BY DEF Dedup
<1>2. WatcherTypeOK /\ phase \notin {"recovery", "down"} /\ g[w].address \in Addresses
  BY <1>1, Busy
<1>3. MapStep /\ UNCHANGED <<transactions, credited>> /\ DBTypeOK' /\ faults' \in Nat
  BY <1>2, DBReadType DEF Dedup, DBRead, DBFault, dbVars, MapStep, OnlyG
<1>4. PICK r \in g[w].batch :
         \/ \E ok \in BOOLEAN : AfterRaw(w, g[w].batch \ {r}, r, ok)
         \/ g' = [g EXCEPT ![w].pc = "insert", ![w].cur = r, ![w].batch = @ \ {r}]
  BY DEF Dedup
<1>5. r \in Raw /\ g[w].batch \ {r} \in SUBSET Raw
  BY <1>2, FieldTypes
<1>6. ASSUME NEW ok \in BOOLEAN, AfterRaw(w, g[w].batch \ {r}, r, ok)
      PROVE  Inv'
  <2>1. PICK x \in Locals : /\ g' = [g EXCEPT ![w] = x]
                            /\ x.pc \in {"list", "dedup"}
                            /\ x.address = g[w].address
    BY <1>2, <1>5, <1>6, AfterRawType
  <2>. QED  BY <1>2, <1>3, <2>1, QuietStep
<1>7. CASE g' = [g EXCEPT ![w].pc = "insert", ![w].cur = r, ![w].batch = @ \ {r}]
  <2>. DEFINE x == [g[w] EXCEPT !.pc = "insert", !.cur = r, !.batch = @ \ {r}]
  <2>1. x \in Locals /\ x.pc = "insert" /\ x.address = g[w].address /\ x.cur = r
    BY <1>2, <1>5, FieldTypes, PCs DEF Locals
  <2>2. g' = [g EXCEPT ![w] = x]
    BY <1>7
  <2>. HIDE DEF x
  <2>. QED  BY <1>2, <1>3, <1>5, <2>1, <2>2, QuietStep
<1>. QED  BY <1>4, <1>6, <1>7

(* The step of Insert, Credit, Estimate or a fault that ends with AfterRaw. *)
LEMMA AfterRawQuiet ==
  ASSUME Inv, NEW w \in WatchIDs, NEW r \in Raw, NEW ok \in BOOLEAN,
         g[w].pc \notin {"idle", "done"},
         AfterRaw(w, g[w].batch, r, ok),
         MapStep, UNCHANGED procVars, UNCHANGED <<transactions, credited>>,
         DBTypeOK', faults' \in Nat
  PROVE  Inv'
<1>1. WatcherTypeOK /\ phase \notin {"recovery", "down"} /\ g[w].address \in Addresses
  BY Busy
<1>2. g[w].batch \in SUBSET Raw
  BY <1>1, FieldTypes
<1>3. PICK x \in Locals : /\ g' = [g EXCEPT ![w] = x]
                          /\ x.pc \in {"list", "dedup"}
                          /\ x.address = g[w].address
  BY <1>1, <1>2, AfterRawType
<1>. QED  BY <1>1, <1>3, QuietStep

LEMMA EstimateInv ==
  ASSUME Inv, UNCHANGED procVars, NEW w \in WatchIDs, Estimate(w)
  PROVE  Inv'
<1>1. g[w].pc = "estimate"
  BY DEF Estimate
<1>2. /\ WatcherTypeOK /\ DBTypeOK /\ g[w].address \in Addresses
      /\ g[w].cur \in Raw /\ g[w].pts \in Nat
  BY <1>1, Busy, FieldTypes DEF LocalOK
<1>3. DBTypeOK' /\ faults' \in Nat
  BY <1>2, AddPendingType, DBReadType DEF Estimate, WatcherTypeOK
<1>4. MapStep /\ UNCHANGED <<transactions, credited>>
  BY DEF Estimate, AddPending, DBFault, dbVars, MapStep, OnlyG
<1>5. AfterRaw(w, g[w].batch, g[w].cur, TRUE)
  BY DEF Estimate
<1>. QED  BY <1>1, <1>2, <1>3, <1>4, <1>5, AfterRawQuiet

LEMMA ListPendingOfWatchInv ==
  ASSUME Inv, UNCHANGED procVars, NEW w \in WatchIDs, ListPendingOfWatch(w)
  PROVE  Inv'
<1>1. g[w].pc = "list"
  BY DEF ListPendingOfWatch
<1>2. WatcherTypeOK /\ phase \notin {"recovery", "down"} /\ g[w].address \in Addresses
  BY <1>1, Busy
<1>3. MapStep /\ UNCHANGED <<transactions, credited>> /\ DBTypeOK' /\ faults' \in Nat
  BY <1>2, DBReadType DEF ListPendingOfWatch, DBRead, DBFault, dbVars, MapStep, OnlyG
<1>. DEFINE pending == ListPendingByWatchID(w)
            pc == IF pending = {} THEN "check" ELSE "confirm"
<1>4. CASE g' = [g EXCEPT ![w].pc = pc, ![w].todo = pending]
  <2>. DEFINE x == [g[w] EXCEPT !.pc = pc, !.todo = pending]
  <2>1. g' = [g EXCEPT ![w] = x]
    BY <1>4
  <2>2. pc \in PC /\ pc \in {"check", "confirm"}
    BY PCs
  <2>3. /\ pending \in SUBSET Hashes
        /\ \A h \in pending : transactions[h].status = "PENDING" /\ transactions[h].watch = w
    BY DEF ListPendingByWatchID, ListPending
  <2>. HIDE DEF pending, pc
  <2>4. x \in Locals /\ x.pc = pc /\ x.address = g[w].address /\ x.todo = pending
    BY <1>2, <2>2, <2>3, FieldTypes DEF Locals
  <2>. HIDE DEF x
  <2>. QED  BY <1>2, <1>3, <2>1, <2>2, <2>3, <2>4, QuietStep
<1>5. CASE g' = [g EXCEPT ![w].pc = "check"]
  <2>. DEFINE x == [g[w] EXCEPT !.pc = "check"]
  <2>1. x \in Locals /\ x.pc = "check" /\ x.address = g[w].address
    BY <1>2, FieldTypes, PCs DEF Locals
  <2>2. g' = [g EXCEPT ![w] = x]
    BY <1>5
  <2>. HIDE DEF x
  <2>. QED  BY <1>2, <1>3, <2>1, <2>2, QuietStep
<1>. QED  BY <1>4, <1>5 DEF ListPendingOfWatch

LEMMA CheckStopInv ==
  ASSUME Inv, UNCHANGED procVars, NEW w \in WatchIDs, CheckStop(w)
  PROVE  Inv'
<1>1. g[w].pc = "check"
  BY DEF CheckStop
<1>2. WatcherTypeOK /\ phase \notin {"recovery", "down"} /\ g[w].address \in Addresses
  BY <1>1, Busy
<1>3. MapStep /\ UNCHANGED <<transactions, credited>> /\ DBTypeOK' /\ faults' \in Nat
  BY <1>2, DBReadType DEF CheckStop, DBRead, DBFault, dbVars, MapStep, OnlyG
<1>4. CASE g' = [g EXCEPT ![w].pc = "loop"]
  <2>. DEFINE x == [g[w] EXCEPT !.pc = "loop"]
  <2>1. x \in Locals /\ x.pc = "loop" /\ x.address = g[w].address
    BY <1>2, FieldTypes, PCs DEF Locals
  <2>2. g' = [g EXCEPT ![w] = x]
    BY <1>4
  <2>. HIDE DEF x
  <2>. QED  BY <1>2, <1>3, <2>1, <2>2, QuietStep
<1>5. ASSUME NEW s \in {"EXPIRED", "COMPLETED"},
             g' = [g EXCEPT ![w].pc = "finish", ![w].newStatus = s]
      PROVE  Inv'
  <2>. DEFINE x == [g[w] EXCEPT !.pc = "finish", !.newStatus = s]
  <2>1. x \in Locals /\ x.pc = "finish" /\ x.address = g[w].address
    BY <1>2, FieldTypes, PCs DEF Locals
  <2>2. g' = [g EXCEPT ![w] = x]
    BY <1>5
  <2>. HIDE DEF x
  <2>. QED  BY <1>2, <1>3, <2>1, <2>2, QuietStep
<1>. QED  BY <1>4, <1>5 DEF CheckStop

LEMMA FinishInv ==
  ASSUME Inv, UNCHANGED procVars, NEW w \in WatchIDs, Finish(w)
  PROVE  Inv'
<1>. DEFINE x == [g[w] EXCEPT !.pc = "remove"]
<1>1. g[w].pc = "finish"
  BY DEF Finish
<1>2. /\ WatcherTypeOK /\ DBTypeOK /\ phase \notin {"recovery", "down"}
      /\ g[w].address \in Addresses
  BY <1>1, Busy
<1>3. x \in Locals /\ x.pc = "remove" /\ x.address = g[w].address
  BY <1>2, FieldTypes, PCs DEF Locals
<1>4. g' = [g EXCEPT ![w] = x]
  BY DEF Finish
<1>5. MapStep /\ UNCHANGED <<transactions, credited>>
  BY DEF Finish, UpdateWatchStatus, DBFault, dbVars, MapStep, OnlyG
<1>6. g[w].newStatus \in WatchStatus
  BY <1>2, FieldTypes
<1>7. DBTypeOK' /\ faults' \in Nat
  BY <1>2, <1>6, UpdateWatchStatusType, DBReadType DEF Finish, WatcherTypeOK
<1>. HIDE DEF x
<1>. QED  BY <1>2, <1>3, <1>4, <1>5, <1>7, QuietStep

LEMMA RemoveWatchInv ==
  ASSUME Inv, UNCHANGED procVars, NEW w \in WatchIDs, RemoveWatch(w)
  PROVE  Inv'
<1>. DEFINE x == [Idle EXCEPT !.pc = "done"]
<1>1. g[w].pc = "remove"
  BY DEF RemoveWatch
<1>2. WatcherTypeOK /\ phase \notin {"recovery", "down"}
  BY <1>1, Busy
<1>3. x \in Locals /\ x.pc = "done"
  BY IdleType DEF Idle
<1>4. g' = [g EXCEPT ![w] = x]
  BY DEF RemoveWatch
<1>5. MapStep /\ UNCHANGED <<transactions, credited>> /\ DBTypeOK' /\ faults' \in Nat
  BY <1>2, DBReadType DEF RemoveWatch, DBRead, dbVars, MapStep, WatcherTypeOK
<1>. HIDE DEF x
<1>. QED  BY <1>2, <1>3, <1>4, <1>5, QuietStep

-----------------------------------------------------------------------------
(* The steps that write a transaction or credit one.                       *)

LEMMA InsertStep ==
  ASSUME Inv, UNCHANGED procVars, NEW w \in WatchIDs, g[w].pc = "insert",
         NEW s \in {"PENDING", "CONFIRMED"}, NEW p \in Nat, s = "PENDING" => p = 0,
         InsertTransaction(g[w].cur.hash, w, g[w].address, s, p, now),
         MapStep, UNCHANGED <<faults, credited>>,
         NEW x \in Locals, g' = [g EXCEPT ![w] = x],
         x.pc \in {"list", "dedup", "estimate", "credit"},
         x.address = g[w].address,
         x.pc \in {"estimate", "credit"} => x.cur = g[w].cur,
         x.pc = "credit" => s = "CONFIRMED" /\ x.pts = p
  PROVE  Inv'
<1>. DEFINE row == [status |-> s, watch |-> w, address |-> g[w].address, points |-> p,
                    detectedAt |-> now]
<1>1. /\ WatcherTypeOK /\ DBTypeOK /\ phase \notin {"recovery", "down"}
      /\ g[w].address \in Addresses /\ g[w].cur \in Raw
  BY Busy DEF LocalOK
<1>2. PICK h \in Hashes : h = g[w].cur.hash
  BY <1>1, RawType
<1>3. s \in TxStatus
  BY DEF TxStatus
<1>4. DBTypeOK' /\ faults' \in Nat /\ credited' \in [Hashes -> Nat]
  <2>1. now \in Nat
    BY <1>1 DEF WatcherTypeOK
  <2>. QED  BY <1>1, <1>2, <1>3, <2>1, InsertTransactionType DEF WatcherTypeOK
<1>5. transactions[h].status = "NONE"
  BY <1>2 DEF InsertTransaction, Recorded
<1>6. credited[h] = 0
  <2>1. RowOK(h)
    BY <1>2 DEF Inv, RowsOK
  <2>. QED  BY <1>5, <2>1 DEF RowOK
<1>7. transactions' = [transactions EXCEPT ![h] = row]
  BY <1>2 DEF InsertTransaction
<1>8. transactions'[h] = row /\ \A k \in Hashes \ {h} : transactions'[k] = transactions[k]
  BY <1>1, <1>2, <1>7 DEF DBTypeOK
<1>9. RowOK(h)'
  BY <1>1, <1>6, <1>8 DEF RowOK
<1>10. g'[w] = x
  BY <1>1 DEF WatcherTypeOK
<1>11. LocalOK(w)'
  <2>1. x.pc \in {"estimate", "credit"} => x.cur \in Raw /\ x.cur.hash = h
    BY <1>1, <1>2
  <2>2. x.pc = "credit" =>
          /\ Owed(x.cur.hash, x.pts)'
          /\ transactions'[x.cur.hash].watch = w
          /\ transactions'[x.cur.hash].address = x.address
    BY <1>6, <1>8, <2>1 DEF Owed
  <2>. QED  BY <1>1, <1>10, <2>1, <2>2 DEF LocalOK, Owed
<1>12. /\ {h} \in SUBSET Hashes
       /\ \A k \in Hashes \ {h} : transactions'[k] = transactions[k] /\ credited'[k] = credited[k]
       /\ \A k \in {h} : transactions[k].status = "NONE" \/ transactions[k].watch = w
       /\ \A k \in {h} : RowOK(k)'
  BY <1>2, <1>5, <1>8, <1>9
<1>. QED  BY <1>1, <1>4, <1>11, <1>12, GoroutineStep

LEMMA InsertInv ==
  ASSUME Inv, UNCHANGED procVars, NEW w \in WatchIDs, Insert(w)
  PROVE  Inv'
<1>. DEFINE r == g[w].cur
<1>1. g[w].pc = "insert" /\ UNCHANGED credited /\ OnlyG
  BY DEF Insert
<1>2. /\ WatcherTypeOK /\ phase \notin {"recovery", "down"} /\ g[w].address \in Addresses
      /\ r \in Raw /\ g[w].batch \in SUBSET Raw
  BY <1>1, Busy, FieldTypes DEF LocalOK
<1>3. MapStep
  BY <1>1 DEF MapStep, OnlyG
<1>. HIDE DEF OnlyG, MapStep, procVars
<1>4. ASSUME NEW s \in {"PENDING", "CONFIRMED"}, NEW p \in Nat, s = "PENDING" => p = 0,
             InsertTransaction(r.hash, w, g[w].address, s, p, now),
             UNCHANGED faults, AfterRaw(w, g[w].batch, r, TRUE)
      PROVE  Inv'
  <2>1. PICK x \in Locals : /\ g' = [g EXCEPT ![w] = x]
                            /\ x.pc \in {"list", "dedup"}
                            /\ x.address = g[w].address
    BY <1>2, <1>4, AfterRawType
  <2>. QED  BY <1>1, <1>3, <1>4, <2>1, InsertStep
<1>5. CASE InsertConfirmed(w, r) /\ UNCHANGED faults
  <2>1. PICK p \in PointValues :
          /\ InsertTransaction(r.hash, w, g[w].address, "CONFIRMED", p, now)
          /\ IF p > 0 THEN g' = [g EXCEPT ![w].pc = "credit", ![w].pts = p]
             ELSE AfterRaw(w, g[w].batch, r, TRUE)
    BY <1>5 DEF InsertConfirmed
  <2>2. p \in Nat
    BY WatcherAssumption
  <2>3. CASE p > 0
    <3>. DEFINE x == [g[w] EXCEPT !.pc = "credit", !.pts = p]
    <3>1. /\ x \in Locals /\ x.pc = "credit" /\ x.address = g[w].address /\ x.pts = p
          /\ x.cur = g[w].cur
      BY <1>2, <2>2, FieldTypes, PCs DEF Locals
    <3>2. g' = [g EXCEPT ![w] = x]
      BY <2>1, <2>3
    <3>. HIDE DEF x
    <3>. QED  BY <1>1, <1>3, <1>5, <2>1, <2>2, <3>1, <3>2, InsertStep
  <2>4. CASE ~ (p > 0)
    BY <1>4, <1>5, <2>1, <2>2, <2>4
  <2>. QED  BY <2>3, <2>4
<1>6. CASE InsertUnpriced(w, r) /\ UNCHANGED faults
  BY <1>4, <1>6 DEF InsertUnpriced
<1>7. CASE InsertPending(w, r) /\ UNCHANGED faults
  <2>1. CASE AfterRaw(w, g[w].batch, r, TRUE)
    BY <1>4, <1>7, <2>1 DEF InsertPending
  <2>2. CASE \E p \in PointValues \ {0} :
               g' = [g EXCEPT ![w].pc = "estimate", ![w].pts = p]
    <3>1. PICK p \in PointValues : g' = [g EXCEPT ![w].pc = "estimate", ![w].pts = p]
      BY <2>2
    <3>. DEFINE x == [g[w] EXCEPT !.pc = "estimate", !.pts = p]
    <3>2. p \in Nat
      BY WatcherAssumption
    <3>3. /\ x \in Locals /\ x.pc = "estimate" /\ x.address = g[w].address
          /\ x.cur = g[w].cur
      BY <1>2, <3>2, FieldTypes, PCs DEF Locals
    <3>4. g' = [g EXCEPT ![w] = x]
      BY <3>1
    <3>5. InsertTransaction(r.hash, w, g[w].address, "PENDING", 0, now)
      BY <1>7 DEF InsertPending
    <3>. HIDE DEF x
    <3>. QED  BY <1>1, <1>3, <1>7, <3>3, <3>4, <3>5, InsertStep
  <2>. QED  BY <1>7, <2>1, <2>2 DEF InsertPending
<1>8. CASE InsertFails(w, r)
  <2>1. UNCHANGED transactions /\ DBTypeOK' /\ faults' \in Nat
    BY <1>2, <1>8, DBReadType DEF InsertFails, DBRead, DBFault, dbVars
  <2>. QED  BY <1>1, <1>2, <1>3, <1>8, <2>1, AfterRawQuiet DEF InsertFails
<1>. QED  BY <1>5, <1>6, <1>7, <1>8 DEF Insert

(* A goroutine credits the payment it holds and lets go of it. *)
LEMMA CreditStep ==
  ASSUME Inv, UNCHANGED procVars, NEW w \in WatchIDs, g[w].pc \in {"credit", "move"},
         credited' = [credited EXCEPT ![g[w].cur.hash] = @ + 1],
         UNCHANGED transactions, DBTypeOK', faults' \in Nat, MapStep,
         NEW x \in Locals, g' = [g EXCEPT ![w] = x],
         x.pc \in {"list", "dedup", "check", "confirm"},
         x.address = g[w].address,
         x.pc = "confirm" => g[w].pc = "move" /\ x.todo = g[w].todo
  PROVE  Inv'
<1>1. /\ WatcherTypeOK /\ phase \notin {"recovery", "down"} /\ LocalOK(w)
      /\ g[w].address \in Addresses /\ g[w].cur \in Raw
  BY Busy DEF LocalOK
<1>2. PICK h \in Hashes : h = g[w].cur.hash
  BY <1>1, RawType
<1>3. /\ transactions[h].status = "CONFIRMED" /\ transactions[h].watch = w
      /\ credited[h] = 0
  BY <1>1, <1>2 DEF LocalOK, Owed
<1>4. /\ credited' \in [Hashes -> Nat]
      /\ credited'[h] = 1
      /\ \A k \in Hashes \ {h} : credited'[k] = credited[k]
  BY <1>1, <1>2, <1>3 DEF WatcherTypeOK
<1>5. RowOK(h)'
  BY <1>3, <1>4 DEF Inv, RowsOK, RowOK
<1>6. g'[w] = x
  BY <1>1 DEF WatcherTypeOK
<1>7. LocalOK(w)'
  BY <1>1, <1>6 DEF LocalOK
<1>8. /\ {h} \in SUBSET Hashes
      /\ \A k \in Hashes \ {h} : transactions'[k] = transactions[k] /\ credited'[k] = credited[k]
      /\ \A k \in {h} : transactions[k].status = "NONE" \/ transactions[k].watch = w
      /\ \A k \in {h} : RowOK(k)'
  BY <1>3, <1>4, <1>5
<1>. QED  BY <1>1, <1>4, <1>7, <1>8, GoroutineStep

LEMMA CreditInv ==
  ASSUME Inv, UNCHANGED procVars, NEW w \in WatchIDs, Credit(w)
  PROVE  Inv'
<1>1. g[w].pc = "credit" /\ AfterRaw(w, g[w].batch, g[w].cur, TRUE)
  BY DEF Credit
<1>2. /\ WatcherTypeOK /\ DBTypeOK /\ g[w].address \in Addresses
      /\ g[w].cur \in Raw /\ g[w].pts \in Nat /\ g[w].batch \in SUBSET Raw
  BY <1>1, Busy, FieldTypes DEF LocalOK
<1>3. MapStep
  BY DEF Credit, MapStep, OnlyG
<1>4. CASE /\ AddUnclaimed(g[w].address, g[w].pts)
           /\ credited' = [credited EXCEPT ![g[w].cur.hash] = @ + 1]
           /\ UNCHANGED faults
  <2>1. PICK x \in Locals : /\ g' = [g EXCEPT ![w] = x]
                            /\ x.pc \in {"list", "dedup"}
                            /\ x.address = g[w].address
    BY <1>1, <1>2, AfterRawType
  <2>2. DBTypeOK' /\ faults' \in Nat /\ UNCHANGED transactions
    BY <1>2, <1>4, AddUnclaimedType DEF WatcherTypeOK, AddUnclaimed
  <2>. QED  BY <1>1, <1>3, <1>4, <2>1, <2>2, CreditStep
<1>5. CASE DBFault /\ UNCHANGED credited
  <2>1. DBTypeOK' /\ faults' \in Nat /\ UNCHANGED transactions
    BY <1>2, <1>5, DBReadType DEF DBFault, dbVars
  <2>. QED  BY <1>1, <1>2, <1>3, <1>5, <2>1, AfterRawQuiet
<1>. QED  BY <1>4, <1>5 DEF Credit

LEMMA MoveInv ==
  ASSUME Inv, UNCHANGED procVars, NEW w \in WatchIDs, Move(w)
  PROVE  Inv'
<1>1. g[w].pc = "move" /\ NextPending(w, g[w].todo)
  BY DEF Move
<1>2. /\ WatcherTypeOK /\ DBTypeOK /\ phase \notin {"recovery", "down"}
      /\ g[w].address \in Addresses /\ LocalOK(w)
      /\ g[w].cur \in Raw /\ g[w].pts \in Nat /\ g[w].old \in Nat
      /\ g[w].todo \in SUBSET Hashes
  BY <1>1, Busy, FieldTypes DEF LocalOK
<1>3. MapStep
  BY DEF Move, MapStep, OnlyG
<1>4. PICK x \in Locals : /\ g' = [g EXCEPT ![w] = x]
                          /\ x.pc \in {"check", "confirm"}
                          /\ x.address = g[w].address
                          /\ x.todo = g[w].todo
  BY <1>1, <1>2, NextPendingType
<1>5. PICK h \in Hashes : h = g[w].cur.hash
  BY <1>2, RawType
<1>6. CASE /\ MovePendingToUnclaimed(transactions[h].address, g[w].old, g[w].pts)
           /\ credited' = [credited EXCEPT ![h] = @ + 1]
           /\ UNCHANGED faults
  <2>1. transactions[h].address \in Addresses
    BY <1>1, <1>2, <1>5 DEF LocalOK, Owed, Inv, RowsOK, RowOK
  <2>2. DBTypeOK' /\ faults' \in Nat /\ UNCHANGED transactions
    BY <1>2, <1>6, <2>1, MovePendingToUnclaimedType DEF WatcherTypeOK, MovePendingToUnclaimed
  <2>. QED  BY <1>1, <1>3, <1>4, <1>5, <1>6, <2>2, CreditStep
<1>7. CASE DBFault /\ UNCHANGED credited
  <2>1. DBTypeOK' /\ faults' \in Nat /\ UNCHANGED transactions
    BY <1>2, <1>7, DBReadType DEF DBFault, dbVars
  <2>2. \A k \in x.todo : transactions[k].status = "PENDING" /\ transactions[k].watch = w
    BY <1>1, <1>2, <1>4 DEF LocalOK
  <2>. QED  BY <1>2, <1>3, <1>4, <1>7, <2>1, <2>2, QuietStep
<1>. QED  BY <1>5, <1>6, <1>7 DEF Move

LEMMA ConfirmInv ==
  ASSUME Inv, UNCHANGED procVars, NEW w \in WatchIDs, Confirm(w)
  PROVE  Inv'
<1>1. g[w].pc = "confirm" /\ UNCHANGED credited
  BY DEF Confirm
<1>2. /\ WatcherTypeOK /\ DBTypeOK /\ phase \notin {"recovery", "down"}
      /\ g[w].address \in Addresses /\ g[w].todo \in SUBSET Hashes
      /\ \A h \in g[w].todo : transactions[h].status = "PENDING" /\ transactions[h].watch = w
  BY <1>1, Busy, FieldTypes DEF LocalOK
<1>3. MapStep
  BY DEF Confirm, MapStep, OnlyG
<1>4. ASSUME NEW rest \in SUBSET g[w].todo, NextPending(w, rest), DBRead
      PROVE  Inv'
  <2>1. PICK x \in Locals : /\ g' = [g EXCEPT ![w] = x]
                            /\ x.pc \in {"check", "confirm"}
                            /\ x.address = g[w].address
                            /\ x.todo = rest
    BY <1>2, <1>4, NextPendingType
  <2>2. DBTypeOK' /\ faults' \in Nat /\ UNCHANGED transactions
    BY <1>2, <1>4, DBReadType DEF DBRead, dbVars
  <2>. QED  BY <1>1, <1>2, <1>3, <2>1, <2>2, QuietStep
<1>5. ASSUME NEW h \in g[w].todo, NEW p \in PointValues, UpdateToConfirmed(h, p),
             g' = [g EXCEPT ![w].pc = "move", ![w].todo = @ \ {h},
                            ![w].cur = RawOf(h), ![w].pts = p,
                            ![w].old = transactions[h].points],
             UNCHANGED faults
      PROVE  Inv'
  <2>. DEFINE rest == g[w].todo \ {h}
              cur == RawOf(h)
              old == transactions[h].points
              x == [g[w] EXCEPT !.pc = "move", !.todo = rest, !.cur = cur, !.pts = p,
                                !.old = old]
  <2>1. g' = [g EXCEPT ![w] = x]
    BY <1>5
  <2>2. /\ h \in Hashes /\ p \in Nat /\ rest \in SUBSET Hashes /\ old \in Nat
        /\ cur \in Raw /\ cur.hash = h
    BY <1>2, RawOfType, RowTypes, WatcherAssumption
  <2>3. /\ DBTypeOK' /\ faults' \in Nat /\ credited' \in [Hashes -> Nat]
    BY <1>1, <1>2, <1>5, <2>2, UpdateToConfirmedType DEF WatcherTypeOK
  <2>4. /\ transactions[h].status = "PENDING" /\ transactions[h].watch = w
        /\ transactions[h].address \in Addresses /\ credited[h] = 0
    BY <1>2, <2>2 DEF Inv, RowsOK, RowOK
  <2>5. /\ transactions'[h] = [transactions[h] EXCEPT !.status = "CONFIRMED", !.points = p]
        /\ \A k \in Hashes \ {h} : transactions'[k] = transactions[k]
    BY <1>2, <1>5, <2>2 DEF UpdateToConfirmed, DBTypeOK
  <2>6. /\ transactions'[h].status = "CONFIRMED" /\ transactions'[h].points = p
        /\ transactions'[h].watch = w /\ transactions'[h].address = transactions[h].address
    BY <1>2, <2>2, <2>4, <2>5 DEF DBTypeOK, TxRow
  <2>7. RowOK(h)'
    BY <1>1, <2>4, <2>6 DEF RowOK
  <2>. HIDE DEF rest, cur, old
  <2>8. /\ x \in Locals /\ x.pc = "move" /\ x.address = g[w].address /\ x.todo = rest
        /\ x.cur = cur /\ x.pts = p
    BY <1>2, <2>2, FieldTypes, PCs DEF Locals
  <2>. HIDE DEF x
  <2>9. g'[w] = x
    BY <1>2, <2>1 DEF WatcherTypeOK
  <2>10. rest = g[w].todo \ {h}
    BY DEF rest
  <2>11. LocalOK(w)'
    <3>1. /\ transactions'[x.cur.hash].status = "CONFIRMED"
          /\ transactions'[x.cur.hash].points = x.pts
          /\ transactions'[x.cur.hash].watch = w
          /\ credited'[x.cur.hash] = 0
      BY <1>1, <2>2, <2>4, <2>6, <2>8
    <3>2. \A k \in x.todo : transactions'[k].status = "PENDING" /\ transactions'[k].watch = w
      BY <1>2, <2>2, <2>5, <2>8, <2>10
    <3>3. /\ g'[w].pc = "move" /\ g'[w].address = g[w].address /\ g'[w].todo = x.todo
          /\ g'[w].cur = x.cur /\ g'[w].pts = x.pts /\ x.cur \in Raw
      BY <2>2, <2>8, <2>9
    <3>. QED  BY <1>2, <3>1, <3>2, <3>3 DEF LocalOK, Owed
  <2>12. /\ {h} \in SUBSET Hashes
         /\ \A k \in Hashes \ {h} : transactions'[k] = transactions[k] /\ credited'[k] = credited[k]
         /\ \A k \in {h} : transactions[k].status = "NONE" \/ transactions[k].watch = w
         /\ \A k \in {h} : RowOK(k)'
    BY <1>1, <2>2, <2>4, <2>5, <2>7
  <2>. QED  BY <1>2, <1>3, <2>1, <2>3, <2>8, <2>11, <2>12, GoroutineStep
<1>6. {} \in SUBSET g[w].todo /\ \A h \in g[w].todo : g[w].todo \ {h} \in SUBSET g[w].todo
  OBVIOUS
<1>. QED  BY <1>4, <1>5, <1>6 DEF Confirm

-----------------------------------------------------------------------------
(* Recovery, which no goroutine runs beside.                               *)

LEMMA RecoveryStep ==
  ASSUME Inv, UNCHANGED procVars, rec.pc # "off", RecoveryFrame,
         DBTypeOK', faults' \in Nat, credited' \in [Hashes -> Nat],
         rec' \in RecLocals, RowsOK', RecOK'
  PROVE  Inv'
<1>1. phase = "recovery" /\ \A w \in WatchIDs : g[w].pc \in {"idle", "done"}
  BY DEF Inv, PhaseOK
<1>2. g' = g /\ phase' = "recovery"
  BY <1>1 DEF RecoveryFrame, procVars
<1>3. TypeOK'
  BY DEF Inv, TypeOK, WatcherTypeOK, RecoveryFrame, MapVars, envVars, procVars
<1>4. LocalsOK'
  BY <1>1, <1>2 DEF LocalsOK, LocalOK
<1>5. PhaseOK'
  BY <1>1, <1>2 DEF PhaseOK
<1>. QED  BY <1>3, <1>4, <1>5 DEF Inv

LEMMA RecoveryTodoType ==
  ASSUME NEW rest \in SUBSET Hashes, RecoveryTodo(rest)
  PROVE  /\ rec' \in RecLocals
         /\ rec'.pc \in {"off", "confirm"}
         /\ rec'.pc = "confirm" => rec'.todo = rest
<1>1. CASE rest = {}
  BY <1>1 DEF RecoveryTodo, RecIdle, RecLocals, RecPC
<1>2. CASE rest # {}
  <2>. DEFINE x == [pc |-> "confirm", todo |-> rest, cur |-> NoRaw, old |-> 0, pts |-> 0]
  <2>1. rec' = x
    BY <1>2 DEF RecoveryTodo, RecIdle
  <2>2. x \in RecLocals /\ x.pc = "confirm" /\ x.todo = rest
    BY DEF RecLocals, RecPC
  <2>. QED  BY <2>1, <2>2
<1>. QED  BY <1>1, <1>2

(* Recovery goes on to rest, or ends, without writing a row. *)
LEMMA RecoveryQuiet ==
  ASSUME Inv, UNCHANGED procVars, rec.pc # "off", RecoveryFrame,
         UNCHANGED <<transactions, credited>>, DBTypeOK', faults' \in Nat,
         NEW rest \in SUBSET Hashes, RecoveryTodo(rest),
         \A h \in rest : transactions[h].status = "PENDING"
  PROVE  Inv'
<1>1. /\ rec' \in RecLocals
      /\ rec'.pc \in {"off", "confirm"}
      /\ rec'.pc = "confirm" => rec'.todo = rest
  BY RecoveryTodoType
<1>2. RecOK'
  BY <1>1 DEF RecOK
<1>3. RowsOK' /\ credited' \in [Hashes -> Nat]
  BY DEF Inv, RowsOK, RowOK, TypeOK, WatcherTypeOK
<1>. QED  BY <1>1, <1>2, <1>3, RecoveryStep

LEMMA RecoveryExpireInv ==
  ASSUME Inv, UNCHANGED procVars, RecoveryExpire
  PROVE  Inv'
<1>1. /\ WatcherTypeOK /\ DBTypeOK
      /\ rec.pc # "off" /\ RecoveryFrame /\ UNCHANGED <<transactions, credited>>
  BY DEF Inv, TypeOK, WatcherTypeOK, RecoveryExpire, ExpireAllActiveWatches, DBFault, dbVars
<1>2. DBTypeOK' /\ faults' \in Nat
  BY <1>1, ExpireAllActiveWatchesType, DBReadType DEF RecoveryExpire, WatcherTypeOK
<1>3. rec' = [rec EXCEPT !.pc = "list"] \/ rec' = RecIdle
  BY DEF RecoveryExpire
<1>4. rec' \in RecLocals /\ rec'.pc \notin {"confirm", "move"}
  <2>1. CASE rec' = [rec EXCEPT !.pc = "list"]
    BY <1>1, <2>1 DEF WatcherTypeOK, RecLocals, RecPC
  <2>2. CASE rec' = RecIdle
    BY <2>2 DEF RecIdle, RecLocals, RecPC
  <2>. QED  BY <1>3, <2>1, <2>2
<1>5. RecOK'
  BY <1>4 DEF RecOK
<1>6. RowsOK' /\ credited' \in [Hashes -> Nat]
  BY <1>1 DEF Inv, RowsOK, RowOK, WatcherTypeOK
<1>. QED  BY <1>1, <1>2, <1>4, <1>5, <1>6, RecoveryStep

LEMMA RecoveryListInv ==
  ASSUME Inv, UNCHANGED procVars, RecoveryList
  PROVE  Inv'
<1>1. /\ WatcherTypeOK /\ rec.pc # "off" /\ RecoveryFrame
      /\ UNCHANGED <<transactions, credited>>
  BY DEF Inv, TypeOK, RecoveryList, DBRead, DBFault, dbVars
<1>2. DBTypeOK' /\ faults' \in Nat
  BY <1>1, DBReadType DEF RecoveryList
<1>3. PICK rest \in SUBSET ListPending : RecoveryTodo(rest)
  BY DEF RecoveryList
<1>4. rest \in SUBSET Hashes /\ \A h \in rest : transactions[h].status = "PENDING"
  BY <1>3 DEF ListPending
<1>. QED  BY <1>1, <1>2, <1>3, <1>4, RecoveryQuiet

LEMMA RecoveryConfirmInv ==
  ASSUME Inv, UNCHANGED procVars, RecoveryConfirm
  PROVE  Inv'
<1>1. rec.pc = "confirm" /\ RecoveryFrame /\ UNCHANGED credited
  BY DEF RecoveryConfirm
<1>2. /\ WatcherTypeOK /\ DBTypeOK /\ rec.todo \in SUBSET Hashes
      /\ \A h \in rec.todo : transactions[h].status = "PENDING"
  BY <1>1, RecFieldTypes DEF Inv, TypeOK, RecOK, WatcherTypeOK
<1>3. ASSUME NEW rest \in SUBSET rec.todo, RecoveryTodo(rest), DBRead
      PROVE  Inv'
  <2>1. DBTypeOK' /\ faults' \in Nat /\ UNCHANGED transactions
    BY <1>2, <1>3, DBReadType DEF DBRead, dbVars
  <2>2. rest \in SUBSET Hashes /\ \A h \in rest : transactions[h].status = "PENDING"
    BY <1>2
  <2>. QED  BY <1>1, <1>3, <2>1, <2>2, RecoveryQuiet
<1>4. ASSUME NEW h \in rec.todo, NEW p \in PointValues, UpdateToConfirmed(h, p),
             rec' = [pc |-> "move", todo |-> rec.todo \ {h}, cur |-> RawOf(h),
                     old |-> transactions[h].points, pts |-> p],
             UNCHANGED faults
      PROVE  Inv'
  <2>1. /\ h \in Hashes /\ p \in Nat /\ transactions[h].points \in Nat
        /\ RawOf(h) \in Raw /\ RawOf(h).hash = h
    BY <1>2, RawOfType, RowTypes, WatcherAssumption
  <2>2. /\ DBTypeOK' /\ faults' \in Nat /\ credited' \in [Hashes -> Nat]
    BY <1>1, <1>2, <1>4, <2>1, UpdateToConfirmedType DEF WatcherTypeOK
  <2>3. /\ transactions[h].status = "PENDING" /\ transactions[h].address \in Addresses
        /\ credited[h] = 0
    BY <1>2, <2>1 DEF Inv, RowsOK, RowOK
  <2>4. /\ transactions'[h] = [transactions[h] EXCEPT !.status = "CONFIRMED", !.points = p]
        /\ \A k \in Hashes \ {h} : transactions'[k] = transactions[k]
    BY <1>2, <1>4, <2>1 DEF UpdateToConfirmed, DBTypeOK
  <2>5. /\ transactions'[h].status = "CONFIRMED" /\ transactions'[h].points = p
        /\ transactions'[h].address = transactions[h].address
    BY <1>2, <2>1, <2>4 DEF DBTypeOK, TxRow
  <2>6. RowsOK'
    <3>1. RowOK(h)'
      BY <1>1, <2>3, <2>5 DEF RowOK
    <3>2. ASSUME NEW k \in Hashes \ {h} PROVE RowOK(k)'
      BY <1>1, <2>4 DEF Inv, RowsOK, RowOK
    <3>. QED  BY <3>1, <3>2 DEF RowsOK
  <2>7. rec' \in RecLocals
    BY <1>2, <1>4, <2>1 DEF RecLocals, RecPC
  <2>8. RecOK'
    <3>1. /\ rec'.pc = "move" /\ rec'.cur = RawOf(h) /\ rec'.pts = p
          /\ rec'.todo = rec.todo \ {h}
      BY <1>4
    <3>2. \A k \in rec.todo \ {h} : transactions'[k].status = "PENDING"
      BY <1>2, <2>4
    <3>. QED  BY <1>1, <2>1, <2>3, <2>5, <3>1, <3>2 DEF RecOK, Owed
  <2>. QED  BY <1>1, <2>2, <2>6, <2>7, <2>8, RecoveryStep
<1>5. {} \in SUBSET rec.todo /\ \A h \in rec.todo : rec.todo \ {h} \in SUBSET rec.todo
  OBVIOUS
<1>. QED  BY <1>3, <1>4, <1>5 DEF RecoveryConfirm

LEMMA RecoveryMoveInv ==
  ASSUME Inv, UNCHANGED procVars, RecoveryMove
  PROVE  Inv'
<1>1. rec.pc = "move" /\ RecoveryFrame /\ RecoveryTodo(rec.todo)
  BY DEF RecoveryMove
<1>2. /\ WatcherTypeOK /\ DBTypeOK /\ rec.todo \in SUBSET Hashes
      /\ rec.old \in Nat /\ rec.pts \in Nat /\ rec.cur \in Raw
      /\ Owed(rec.cur.hash, rec.pts)
      /\ \A h \in rec.todo : transactions[h].status = "PENDING"
  BY <1>1, RecFieldTypes DEF Inv, TypeOK, RecOK, WatcherTypeOK
<1>3. PICK h \in Hashes : h = rec.cur.hash
  BY <1>2, RawType
<1>4. /\ transactions[h].status = "CONFIRMED" /\ credited[h] = 0
      /\ transactions[h].address \in Addresses
  BY <1>2, <1>3 DEF Owed, Inv, RowsOK, RowOK
<1>5. CASE /\ MovePendingToUnclaimed(transactions[h].address, rec.old, rec.pts)
           /\ credited' = [credited EXCEPT ![h] = @ + 1]
           /\ UNCHANGED faults
  <2>1. DBTypeOK' /\ faults' \in Nat /\ UNCHANGED transactions
    BY <1>2, <1>4, <1>5, MovePendingToUnclaimedType DEF WatcherTypeOK, MovePendingToUnclaimed
  <2>2. /\ credited' \in [Hashes -> Nat]
        /\ credited'[h] = 1
        /\ \A k \in Hashes \ {h} : credited'[k] = credited[k]
    BY <1>2, <1>4, <1>5 DEF WatcherTypeOK
  <2>3. RowsOK'
    <3>1. RowOK(h)'
      BY <1>4, <2>1, <2>2 DEF RowOK
    <3>2. ASSUME NEW k \in Hashes \ {h} PROVE RowOK(k)'
      BY <2>1, <2>2 DEF Inv, RowsOK, RowOK
    <3>. QED  BY <3>1, <3>2 DEF RowsOK
  <2>4. /\ rec' \in RecLocals
        /\ rec'.pc \in {"off", "confirm"}
        /\ rec'.pc = "confirm" => rec'.todo = rec.todo
    BY <1>1, <1>2, RecoveryTodoType
  <2>5. RecOK'
    BY <1>2, <2>1, <2>4 DEF RecOK
  <2>. QED  BY <1>1, <2>1, <2>2, <2>3, <2>4, <2>5, RecoveryStep
<1>6. CASE DBFault /\ UNCHANGED credited
  <2>1. DBTypeOK' /\ faults' \in Nat /\ UNCHANGED transactions
    BY <1>2, <1>6, DBReadType DEF DBFault, dbVars
  <2>. QED  BY <1>1, <1>2, <1>6, <2>1, RecoveryQuiet
<1>. QED  BY <1>3, <1>5, <1>6 DEF RecoveryMove

-----------------------------------------------------------------------------
(* Time, the chains, claims and the process.                               *)

LEMMA EnvironmentInv ==
  ASSUME Inv, UNCHANGED procVars,
         \/ ClockTick
         \/ \E w \in WatchIDs : Expire(w) \/ Deadline(w)
         \/ \E h \in Hashes : Appear(h) \/ Finalize(h)
  PROVE  Inv'
<1>1. WatcherTypeOK
  BY DEF Inv, TypeOK
<1>2. CASE ClockTick
  <2>1. WatcherTypeOK' /\ UNCHANGED <<g, rec, transactions, credited>>
    BY <1>1, <1>2, DBReadType DEF ClockTick, DBRead, dbVars, memVars, WatcherTypeOK
  <2>. QED  BY <2>1, OutsideStep
<1>3. ASSUME NEW w \in WatchIDs, Expire(w)
      PROVE  Inv'
  <2>1. WatcherTypeOK' /\ UNCHANGED <<g, rec, transactions, credited>>
    BY <1>1, <1>3, DBReadType DEF Expire, DBRead, dbVars, envVars, WatcherTypeOK
  <2>. QED  BY <2>1, OutsideStep
<1>4. ASSUME NEW w \in WatchIDs, Deadline(w)
      PROVE  Inv'
  <2>1. WatcherTypeOK' /\ UNCHANGED <<g, rec, transactions, credited>>
    BY <1>1, <1>4, DBReadType DEF Deadline, DBRead, dbVars, envVars, WatcherTypeOK
  <2>. QED  BY <2>1, OutsideStep
<1>5. ASSUME NEW h \in Hashes, Appear(h)
      PROVE  Inv'
  <2>1. WatcherTypeOK' /\ UNCHANGED <<g, rec, transactions, credited>>
    BY <1>1, <1>5, DBReadType DEF Appear, DBRead, dbVars, memVars, WatcherTypeOK
  <2>. QED  BY <2>1, OutsideStep
<1>6. ASSUME NEW h \in Hashes, Finalize(h)
      PROVE  Inv'
  <2>1. WatcherTypeOK' /\ UNCHANGED <<g, rec, transactions, credited>>
    BY <1>1, <1>6, DBReadType DEF Finalize, DBRead, dbVars, memVars, WatcherTypeOK
  <2>. QED  BY <2>1, OutsideStep
<1>. QED  BY <1>2, <1>3, <1>4, <1>5, <1>6

(* A claim, or a step of main, that leaves the goroutines and rows alone. *)
LEMMA ProcessQuiet ==
  ASSUME Inv, TypeOK', PhaseOK', UNCHANGED <<g, rec, transactions, credited>>
  PROVE  Inv'
  BY DEF Inv, RowsOK, RowOK, LocalsOK, LocalOK, Owed, RecOK

LEMMA ClaimInv ==
  ASSUME Inv, NEW c \in Claimers, ClaimRead(c) \/ ClaimReset(c)
  PROVE  Inv'
<1>. DEFINE Claim == [address : Addresses \cup {NoAddress}, amount : Nat]
<1>1. /\ WatcherTypeOK /\ DBTypeOK /\ claim \in [Claimers -> Claim]
      /\ paid \in [Addresses -> Nat] /\ phase \in Phase /\ restarts \in Nat
  BY DEF Inv, TypeOK, WatcherTypeOK
<1>2. NoClaim \in Claim
  BY DEF NoClaim
<1>3. CASE ClaimRead(c)
  <2>1. PICK a \in Addresses :
          claim' = [claim EXCEPT ![c] = [address |-> a, amount |-> points[a].unclaimed]]
    BY <1>3 DEF ClaimRead
  <2>2. points[a].unclaimed \in Nat
    BY <1>1 DEF DBTypeOK, PointsRow
  <2>3. [address |-> a, amount |-> points[a].unclaimed] \in Claim
    BY <2>2
  <2>4. claim' \in [Claimers -> Claim]
    BY <1>1, <2>1, <2>3
  <2>5. UNCHANGED <<watcherVars, phase, restarts, paid>>
    BY <1>3 DEF ClaimRead
  <2>6. TypeOK'
    BY <1>1, <2>4, <2>5 DEF TypeOK, WatcherTypeOK, DBTypeOK, watcherVars, dbVars, memVars,
                            envVars
  <2>7. PhaseOK' /\ UNCHANGED <<g, rec, transactions, credited>>
    BY <2>5 DEF Inv, PhaseOK, watcherVars, dbVars, memVars
  <2>. QED  BY <2>6, <2>7, ProcessQuiet
<1>4. CASE ClaimReset(c)
  <2>1. /\ claim[c] # NoClaim
        /\ claim' = [claim EXCEPT ![c] = NoClaim]
        /\ UNCHANGED <<memVars, envVars, credited, phase, restarts>>
    BY <1>4 DEF ClaimReset
  <2>2. claim' \in [Claimers -> Claim]
    BY <1>1, <1>2, <2>1
  <2>3. claim[c] \in Claim /\ claim[c].amount \in Nat
    BY <1>1
  <2>4. CASE /\ claim[c].address \in Addresses
             /\ ResetUnclaimed(claim[c].address)
             /\ paid' = [paid EXCEPT ![claim[c].address] = @ + claim[c].amount]
             /\ UNCHANGED faults
    <3>1. DBTypeOK' /\ UNCHANGED transactions
      BY <1>1, <2>4, ResetUnclaimedType DEF ResetUnclaimed
    <3>2. paid' \in [Addresses -> Nat]
      BY <1>1, <2>3, <2>4
    <3>3. TypeOK'
      BY <1>1, <2>1, <2>2, <2>4, <3>1, <3>2 DEF TypeOK, WatcherTypeOK, memVars, envVars
    <3>4. PhaseOK' /\ UNCHANGED <<g, rec, transactions, credited>>
      BY <2>1, <3>1 DEF Inv, PhaseOK, memVars
    <3>. QED  BY <3>3, <3>4, ProcessQuiet
  <2>5. CASE /\ claim[c].address \notin Addresses
             /\ ResetUnclaimed(claim[c].address)
             /\ paid' = [paid EXCEPT ![claim[c].address] = @ + claim[c].amount]
             /\ UNCHANGED faults
    <3>1. points' = points /\ UNCHANGED <<watches, transactions>>
      BY <1>1, <2>5 DEF ResetUnclaimed, DBTypeOK
    <3>2. paid' \in [Addresses -> Nat]
      BY <1>1, <2>3, <2>5
    <3>3. TypeOK'
      BY <1>1, <2>1, <2>2, <2>5, <3>1, <3>2 DEF TypeOK, WatcherTypeOK, DBTypeOK, memVars,
                                               envVars
    <3>4. PhaseOK' /\ UNCHANGED <<g, rec, transactions, credited>>
      BY <2>1, <3>1 DEF Inv, PhaseOK, memVars
    <3>. QED  BY <3>3, <3>4, ProcessQuiet
  <2>6. CASE DBFault /\ UNCHANGED paid
    <3>1. DBTypeOK' /\ faults' \in Nat /\ UNCHANGED transactions
      BY <1>1, <2>6, DBReadType DEF DBFault, dbVars
    <3>2. TypeOK'
      BY <1>1, <2>1, <2>2, <2>6, <3>1 DEF TypeOK, WatcherTypeOK, memVars, envVars
    <3>3. PhaseOK' /\ UNCHANGED <<g, rec, transactions, credited>>
      BY <2>1, <3>1 DEF Inv, PhaseOK, memVars
    <3>. QED  BY <3>2, <3>3, ProcessQuiet
  <2>. QED  BY <1>4, <2>4, <2>5, <2>6 DEF ClaimReset
<1>. QED  BY <1>3, <1>4

LEMMA ServeInv == ASSUME Inv, Serve PROVE Inv'
<1>1. TypeOK'
  BY DEF Inv, Serve, TypeOK, WatcherTypeOK, DBTypeOK, Phase, watcherVars, dbVars, memVars,
         envVars
<1>2. PhaseOK' /\ UNCHANGED <<g, rec, transactions, credited>>
  BY DEF Inv, Serve, PhaseOK, watcherVars, dbVars, memVars
<1>. QED  BY <1>1, <1>2, ProcessQuiet

LEMMA BeginStopInv == ASSUME Inv, BeginStop PROVE Inv'
<1>1. WatcherTypeOK
  BY DEF Inv, TypeOK
<1>2. DBTypeOK' /\ faults' \in Nat /\ UNCHANGED transactions
  BY <1>1, DBReadType DEF BeginStop, CancelAll, DBRead, dbVars
<1>3. ctx' \in [WatchIDs -> {"live", "cancelled", "deadline"}]
  BY <1>1 DEF BeginStop, CancelAll, WatcherTypeOK
<1>4. TypeOK'
  BY <1>1, <1>2, <1>3 DEF Inv, BeginStop, CancelAll, TypeOK, WatcherTypeOK, Phase, envVars
<1>5. PhaseOK' /\ UNCHANGED <<g, rec, transactions, credited>>
  BY <1>2 DEF Inv, BeginStop, CancelAll, PhaseOK
<1>. QED  BY <1>4, <1>5, ProcessQuiet

LEMMA FinishStopInv == ASSUME Inv, FinishStop PROVE Inv'
<1>1. WatcherTypeOK /\ DBTypeOK
  BY DEF Inv, TypeOK, WatcherTypeOK
<1>2. DBTypeOK' /\ faults' \in Nat
  BY <1>1, ExpireAllActiveWatchesType, DBReadType DEF FinishStop, StopExpire, WatcherTypeOK
<1>3. UNCHANGED transactions
  BY DEF FinishStop, StopExpire, ExpireAllActiveWatches, DBFault, dbVars
<1>4. TypeOK'
  BY <1>1, <1>2 DEF Inv, FinishStop, StopExpire, TypeOK, WatcherTypeOK, Phase, memVars,
                    envVars
<1>5. PhaseOK' /\ UNCHANGED <<g, rec, transactions, credited>>
  BY <1>3 DEF Inv, FinishStop, StopExpire, PhaseOK, memVars
<1>. QED  BY <1>4, <1>5, ProcessQuiet

LEMMA EndProcessInv == ASSUME Inv, EndProcess PROVE Inv'
<1>1. WatcherTypeOK
  BY DEF Inv, TypeOK
<1>2. \A w \in WatchIDs : g'[w] \in Locals /\ g'[w].pc \in {"idle", "done"}
  <2>1. Idle.pc = "idle" /\ [Idle EXCEPT !.pc = "done"].pc = "done"
    BY DEF Idle
  <2>. QED  BY <2>1, IdleType DEF EndProcess
<1>3. g' \in [WatchIDs -> Locals]
  BY <1>2 DEF EndProcess
<1>4. rec' \in RecLocals /\ rec'.pc = "off"
  BY DEF EndProcess, RecIdle, RecLocals, RecPC
<1>5. TypeOK'
  BY <1>1, <1>3, <1>4 DEF Inv, EndProcess, TypeOK, WatcherTypeOK, DBTypeOK, Phase, NoClaim,
                          dbVars, envVars
<1>6. RowsOK'
  BY DEF Inv, EndProcess, RowsOK, RowOK, dbVars
<1>7. LocalsOK'
  BY <1>2 DEF LocalsOK, LocalOK
<1>8. RecOK' /\ PhaseOK'
  BY <1>2, <1>4 DEF RecOK, PhaseOK
<1>. QED  BY <1>5, <1>6, <1>7, <1>8 DEF Inv

LEMMA RestartInv == ASSUME Inv, Restart PROVE Inv'
<1>1. WatcherTypeOK
  BY DEF Inv, TypeOK
<1>2. DBTypeOK' /\ faults' \in Nat /\ UNCHANGED <<transactions, g, credited>>
  BY <1>1, DBReadType DEF Restart, DBRead, dbVars
<1>3. rec' \in RecLocals /\ rec'.pc = "expire"
  BY DEF Restart, RecIdle, RecLocals, RecPC
<1>4. TypeOK'
  BY <1>1, <1>2, <1>3 DEF Inv, Restart, TypeOK, WatcherTypeOK, Phase, MapVars, envVars
<1>5. RowsOK' /\ LocalsOK'
  BY <1>2 DEF Inv, RowsOK, RowOK, LocalsOK, LocalOK, Owed
<1>6. RecOK'
  BY <1>3 DEF RecOK
<1>7. PhaseOK'
  BY <1>2, <1>3 DEF Inv, Restart, PhaseOK
<1>. QED  BY <1>4, <1>5, <1>6, <1>7 DEF Inv

LEMMA ProcessStepInv == ASSUME Inv, ProcessStep PROVE Inv'
  BY ServeInv, BeginStopInv, FinishStopInv, EndProcessInv, RestartInv
     DEF ProcessStep, Exit, Crash

LEMMA StutterInv == ASSUME Inv, UNCHANGED vars PROVE Inv'
<1>1. TypeOK'
  BY DEF Inv, vars, TypeOK, WatcherTypeOK, DBTypeOK, watcherVars, dbVars, memVars, envVars
<1>2. PhaseOK' /\ UNCHANGED <<g, rec, transactions, credited>>
  BY DEF Inv, PhaseOK, vars, watcherVars, dbVars, memVars
<1>. QED  BY <1>1, <1>2, ProcessQuiet

-----------------------------------------------------------------------------

LEMMA WatchStepInv ==
  ASSUME Inv, UNCHANGED procVars, NEW w \in WatchIDs,
         \/ CreateWatch(w)
         \/ ApiUp /\ CancelWatch(w)
         \/ RunWatch(w)
  PROVE  Inv'
<1>1. CASE CreateWatch(w)
  BY <1>1, CheckLimitInv, CheckDuplicateInv, InsertWatchInv, RegisterInv DEF CreateWatch
<1>2. CASE CancelWatch(w)
  BY <1>2, CancelWatchInv
<1>3. CASE RunWatch(w)
  BY <1>3, StartInv, ContextDoneInv, TickInv, DedupInv, InsertInv, CreditInv, EstimateInv,
     ListPendingOfWatchInv, ConfirmInv, MoveInv, CheckStopInv, FinishInv, RemoveWatchInv
     DEF RunWatch
<1>. QED  BY <1>1, <1>2, <1>3

LEMMA WatcherStepInv == ASSUME Inv, UNCHANGED procVars, WatcherStep PROVE Inv'
  BY WatchStepInv, EnvironmentInv, RecoveryExpireInv, RecoveryListInv, RecoveryConfirmInv,
     RecoveryMoveInv DEF WatcherStep, RunRecovery

LEMMA NextInv == Inv /\ [Next]_vars => Inv'
<1>. SUFFICES ASSUME Inv, [Next]_vars PROVE Inv'
  OBVIOUS
<1>. QED  BY WatcherStepInv, ClaimInv, ProcessStepInv, StutterInv DEF Next

(* In every reachable state the rows, the locals of every goroutine and of   *)
(* recovery, and the phase agree: in particular at most one of them holds a  *)
(* payment that is confirmed but not yet credited.                           *)
THEOREM InvHolds == Spec => []Inv
<1>. QED  BY InitInv, NextInv, PTL DEF Spec

(* Every table, map and local variable of the Poller keeps its type, for any *)
(* number of watches, addresses, transactions, claims, faults and restarts.  *)
THEOREM TypeCorrect == Spec => []TypeOK
<1>1. Inv => TypeOK
  BY DEF Inv
<1>. QED  BY <1>1, InvHolds, PTL

=============================================================================
