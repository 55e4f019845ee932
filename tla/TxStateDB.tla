----------------------------- MODULE TxStateDB -----------------------------
(***************************************************************************)
(* The two tables of the HDPay database that follow a transfer: tx_state,  *)
(* one row per attempt, and transactions, the history shown to the user.   *)
(* The database has one open connection, so a statement is atomic, and no  *)
(* operation groups two of them.                                           *)
(*                                                                         *)
(* A request creates at most one tx_state row per wallet address, so a row *)
(* is named by the two; its id (a fresh UUID) and its sweep_id, that of    *)
(* the request, are not modelled apart.  A BTC row is one for all inputs,  *)
(* with address_index 0.  The hash of a transfer is named by the row that  *)
(* first sent it.                                                          *)
(***************************************************************************)
EXTENDS Naturals

CONSTANTS
    Requests,   \* POST /api/send/execute and /api/send/resume, one sweep each
    Wallets,    \* addresses of the wallet, on every chain
    NoHash,     \* the tx_hash of a row that has none
    MaxFaults   \* bound on failed statements

ASSUME TxStateAssumption ==
    /\ Requests # {}
    /\ NoHash \notin Requests \X Wallets
    /\ MaxFaults \in Nat

VARIABLES
    txState,        \* [Rows -> row of tx_state]
    transactions,   \* [Hashes -> statuses of the rows of transactions with it]
    faults          \* statements that have failed

tableVars == <<txState, transactions, faults>>

Chains == {"BTC", "BSC", "SOL"}
Tokens == {"NATIVE", "TOKEN"}
Rows == Requests \X Wallets
Hashes == Rows

Open == {"pending", "broadcasting", "confirming"}
Verdicts == {"confirmed", "failed", "uncertain"}
Closed == Verdicts \cup {"dismissed"}

TxStateRow == [status : {"absent"} \cup Open \cup Closed,
               chain : Chains, token : Tokens, hash : Hashes \cup {NoHash}]

TablesTypeOK ==
    /\ txState \in [Rows -> TxStateRow]
    /\ transactions \in [Hashes -> SUBSET ({"pending"} \cup Verdicts)]
    /\ faults \in Nat

TablesInit ==
    /\ txState = [r \in Rows |->
           [status |-> "absent", chain |-> "BTC", token |-> "NATIVE", hash |-> NoHash]]
    /\ transactions = [h \in Hashes |-> {}]
    /\ faults = 0

\* Every writer logs the error of a statement and goes on as if it had run.
DBFault ==
    /\ faults < MaxFaults
    /\ faults' = faults + 1
    /\ UNCHANGED <<txState, transactions>>

Exec(Statement) == (Statement /\ UNCHANGED faults) \/ DBFault

CreateTxState(r, c, t) ==
    /\ txState' = [txState EXCEPT ![r] =
           [status |-> "pending", chain |-> c, token |-> t, hash |-> NoHash]]
    /\ UNCHANGED transactions

\* Mutant: tx_hash = ? instead of COALESCE(NULLIF(?, ''), tx_hash).
UpdateTxStatusClearsHashMutant(r, status, h) ==
    /\ txState' = IF txState[r].status = "absent" THEN txState
                  ELSE [txState EXCEPT ![r].status = status, ![r].hash = h]
    /\ UNCHANGED transactions

\* An empty hash keeps the one of the row; a row that was never inserted
\* stays absent.  The old status is not looked at.
UpdateTxStatus(r, status, h) ==
    /\ txState' = IF txState[r].status = "absent" THEN txState
                  ELSE [txState EXCEPT ![r].status = status,
                                       ![r].hash = IF h = NoHash THEN @ ELSE h]
    /\ UNCHANGED transactions

\* Mutant: the status of the result, not that of the transaction.
InsertTransactionSuccessMutant(h) ==
    /\ transactions' = [transactions EXCEPT ![h] = @ \cup {"success"}]
    /\ UNCHANGED txState

InsertTransaction(h) ==
    /\ transactions' = [transactions EXCEPT ![h] = @ \cup {"pending"}]
    /\ UNCHANGED txState

UpdateTransactionStatusByHash(h, status) ==
    /\ transactions' = [transactions EXCEPT ![h] = IF @ = {} THEN {} ELSE {status}]
    /\ UNCHANGED txState

\* Mutant: the broadcasting rows are left out.
GetAllPendingWithoutBroadcastingMutant ==
    {r \in Rows : txState[r].status \in {"pending", "confirming", "uncertain"}}

\* Mutant: the failed rows are checked again too.
GetAllPendingWithFailedMutant ==
    {r \in Rows : txState[r].status \in Open \cup {"uncertain", "failed"}}

GetAllPendingTxStates ==
    {r \in Rows : txState[r].status \in Open \cup {"uncertain"}}

GetRetryableTxStates(sweep) ==
    {r \in Rows : r[1] = sweep /\ txState[r].status \in {"failed", "uncertain"}}

\* The rows that GetSweepMeta reads the chain and the token of a sweep from.
SweepRows(sweep) == {r \in Rows : r[1] = sweep /\ txState[r].status # "absent"}

=============================================================================
