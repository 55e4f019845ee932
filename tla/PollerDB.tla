------------------------------ MODULE PollerDB ------------------------------
(***************************************************************************)
(* The three tables of the Poller's SQLite file that carry its business    *)
(* state - watches, transactions, points - and the statements that change  *)
(* them.  pollerdb.New opens the database with SetMaxOpenConns(1), so one  *)
(* statement runs at a time and each is atomic; no operation groups two of *)
(* them in a SQL transaction, so what happens between two statements of    *)
(* one Go function is left to the modules that use this one.               *)
(*                                                                         *)
(* A points row that does not exist yet is a row of zeros: every caller    *)
(* runs GetOrCreatePoints before it writes to one.                         *)
(***************************************************************************)
EXTENDS Integers, FiniteSets

CONSTANTS
    WatchIDs,       \* identifiers handed out by uuid.New
    Addresses,      \* watched addresses; each belongs to one chain
    Hashes,         \* transaction hashes (SOL: "signature:TOKEN")
    NoWatch,        \* the watch_id of a row that does not exist
    NoAddress       \* the address of a row that does not exist

ASSUME SentinelAssumption ==
    /\ NoWatch \notin WatchIDs
    /\ NoAddress \notin Addresses

VARIABLES
    watches,        \* [WatchIDs -> row of the watches table]
    transactions,   \* [Hashes -> row of the transactions table]
    points          \* [Addresses -> row of the points table]

dbVars == <<watches, transactions, points>>

TerminalStatus == {"COMPLETED", "EXPIRED", "CANCELLED"}
WatchStatus == {"NONE", "ACTIVE"} \cup TerminalStatus
TxStatus == {"NONE", "PENDING", "CONFIRMED"}

WatchRow == [status : WatchStatus, address : Addresses \cup {NoAddress}]
TxRow == [status : TxStatus, watch : WatchIDs \cup {NoWatch},
          address : Addresses \cup {NoAddress}, points : Nat, detectedAt : Nat]
PointsRow == [unclaimed : Nat, pending : Int, total : Nat]

DBTypeOK ==
    /\ watches \in [WatchIDs -> WatchRow]
    /\ transactions \in [Hashes -> TxRow]
    /\ points \in [Addresses -> PointsRow]

DBInit ==
    /\ watches = [w \in WatchIDs |-> [status |-> "NONE", address |-> NoAddress]]
    /\ transactions = [h \in Hashes |->
           [status |-> "NONE", watch |-> NoWatch, address |-> NoAddress,
            points |-> 0, detectedAt |-> 0]]
    /\ points = [a \in Addresses |-> [unclaimed |-> 0, pending |-> 0, total |-> 0]]

-----------------------------------------------------------------------------
(* watches *)

CreateWatchRow(w, a) ==
    /\ watches' = [watches EXCEPT ![w] = [status |-> "ACTIVE", address |-> a]]
    /\ UNCHANGED <<transactions, points>>

\* UPDATE ... WHERE id = ?: the statement does not look at the old status.
UpdateWatchStatus(w, s) ==
    /\ watches' = [watches EXCEPT ![w].status = s]
    /\ UNCHANGED <<transactions, points>>

\* Mutant: without WHERE status = 'ACTIVE'.
ExpireAllWatchesMutant ==
    /\ watches' = [w \in WatchIDs |->
           IF watches[w].status # "NONE"
           THEN [watches[w] EXCEPT !.status = "EXPIRED"] ELSE watches[w]]
    /\ UNCHANGED <<transactions, points>>

ExpireAllActiveWatches ==
    /\ watches' = [w \in WatchIDs |->
           IF watches[w].status = "ACTIVE"
           THEN [watches[w] EXCEPT !.status = "EXPIRED"] ELSE watches[w]]
    /\ UNCHANGED <<transactions, points>>

HasActiveWatch(a) ==
    \E w \in WatchIDs : watches[w].status = "ACTIVE" /\ watches[w].address = a

-----------------------------------------------------------------------------
(* transactions *)

Recorded(h) == transactions[h].status # "NONE"

\* Mutant: INSERT OR REPLACE, or no UNIQUE on tx_hash.
InsertOrReplaceMutant(h, w, a, status, p, at) ==
    /\ transactions' = [transactions EXCEPT ![h] =
           [status |-> status, watch |-> w, address |-> a, points |-> p,
            detectedAt |-> at]]
    /\ UNCHANGED <<watches, points>>

\* tx_hash is UNIQUE: of a recorded hash the insert is an error, left to the caller.
InsertTransaction(h, w, a, status, p, at) ==
    /\ ~ Recorded(h)
    /\ transactions' = [transactions EXCEPT ![h] =
           [status |-> status, watch |-> w, address |-> a, points |-> p,
            detectedAt |-> at]]
    /\ UNCHANGED <<watches, points>>

\* UPDATE ... WHERE tx_hash = ?: the statement does not look at the old status.
UpdateToConfirmed(h, p) ==
    /\ transactions' = [transactions EXCEPT ![h].status = "CONFIRMED",
                                            ![h].points = p]
    /\ UNCHANGED <<watches, points>>

ListPending == {h \in Hashes : transactions[h].status = "PENDING"}

\* Mutant: without the watch_id condition.
ListPendingOfAnyWatchMutant(w) == ListPending

ListPendingByWatchID(w) == {h \in ListPending : transactions[h].watch = w}

TxsOfWatch(w) == {h \in Hashes : Recorded(h) /\ transactions[h].watch = w}

\* MAX(detected_at) over the rows of an address; 0 when it has none.
LastDetectedAt(a) ==
    LET times == {transactions[h].detectedAt :
                     h \in {x \in Hashes : transactions[x].address = a}}
        latest == {t \in times : \A u \in times : u <= t}
    IN  IF latest = {} THEN 0 ELSE CHOOSE t \in latest : TRUE

-----------------------------------------------------------------------------
(* points *)

AddUnclaimed(a, p) ==
    /\ points' = [points EXCEPT ![a].unclaimed = @ + p, ![a].total = @ + p]
    /\ UNCHANGED <<watches, transactions>>

AddPending(a, p) ==
    /\ points' = [points EXCEPT ![a].pending = @ + p]
    /\ UNCHANGED <<watches, transactions>>

MovePendingToUnclaimed(a, pendingPoints, confirmedPoints) ==
    /\ points' = [points EXCEPT ![a].pending = @ - pendingPoints,
                                ![a].unclaimed = @ + confirmedPoints,
                                ![a].total = @ + confirmedPoints]
    /\ UNCHANGED <<watches, transactions>>

\* Mutant: subtracts the wrong column.
ResetByTotalMutant(a) ==
    /\ points' = [points EXCEPT ![a].unclaimed = @ - points[a].total]
    /\ UNCHANGED <<watches, transactions>>

\* The second statement of ClaimPoints.
ResetUnclaimed(a) ==
    /\ points' = [points EXCEPT ![a].unclaimed = 0]
    /\ UNCHANGED <<watches, transactions>>

=============================================================================
