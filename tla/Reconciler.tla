----------------------------- MODULE Reconciler -----------------------------
(***************************************************************************)
(* The reconciler: one goroutine, started with the server, that settles    *)
(* the tx_state rows of earlier processes.  It lists the open rows once    *)
(* and then walks its copy, while requests are already being served.  The  *)
(* order of the walk, by created_at, is left open.                         *)
(***************************************************************************)
EXTENDS Sweep

VARIABLE rec    \* [pc, rows to visit, row and verdict to mark, history: raced]

Listed == [row : Rows, hash : Hashes \cup {NoHash}]
NoListed == [row |-> <<CHOOSE q \in Requests : TRUE, First>>, hash |-> NoHash]

RecTypeOK ==
    rec \in [pc : {"idle", "list", "rows", "mark"}, rows : SUBSET Listed,
             at : Listed, status : {"confirming"} \cup Verdicts, raced : SUBSET Rows]

RecInit ==
    rec = [pc |-> "list", rows |-> {}, at |-> NoListed,
           status |-> "confirming", raced |-> {}]

\* A goroutine of this process has the row in hand.
InUse(r) ==
    \/ poll[r]["sweep"].pc # "idle"
    \/ req[r[1]].from = r[2]
       /\ req[r[1]].pc \in {"check", "build", "send", "refused", "sent", "record"}

Idle == [rec EXCEPT !.pc = "idle", !.rows = {}, !.at = NoListed, !.status = "confirming"]

\* The copy keeps the hash each row has now.
ReconcileList ==
    /\ rec.pc = "list"
    /\ \/ /\ rec' = [rec EXCEPT !.pc = "rows",
                        !.rows = {[row |-> r, hash |-> txState[r].hash] :
                                     r \in GetAllPendingTxStates},
                        !.raced = @ \cup {r \in GetAllPendingTxStates : InUse(r)}]
          /\ UNCHANGED tableVars
       \/ DBFault /\ rec' = Idle
    /\ UNCHANGED sendVars

\* The end of the list or, with a cancelled context, before it.
ReconcileStops ==
    /\ rec.pc = "rows"
    /\ rec' = Idle
    /\ UNCHANGED <<tableVars, sendVars>>

ReconcileUnhashed ==
    /\ rec.pc = "rows"
    /\ \E x \in rec.rows :
          /\ x.hash = NoHash
          /\ Exec(UpdateTxStatus(x.row, "failed", NoHash))
          /\ rec' = [rec EXCEPT !.rows = @ \ {x}]
    /\ UNCHANGED sendVars

\* An old row, or one whose created_at is not understood, is uncertain when
\* the chain gives no verdict.
CheckOnChain(c, fate) ==
    {"uncertain"} \cup IF fate = "mined" THEN {"confirmed"}
                       ELSE IF fate = "reverted" /\ c # "BTC" THEN {"failed"} ELSE {}

ReconcileCheck ==
    /\ rec.pc = "rows"
    /\ \E x \in rec.rows :
          /\ x.hash # NoHash
          /\ \E s \in CheckOnChain(txState[x.row].chain, onChain[x.hash]) :
                /\ Exec(UpdateTxStatus(x.row, s, x.hash))
                /\ rec' = [rec EXCEPT !.pc = "mark", !.rows = @ \ {x},
                                      !.at = x, !.status = s]
    /\ UNCHANGED sendVars

ReconcileMark ==
    /\ rec.pc = "mark"
    /\ Exec(UpdateTransactionStatusByHash(rec.at.hash, rec.status))
    /\ rec' = [rec EXCEPT !.pc = "rows", !.at = NoListed, !.status = "confirming"]
    /\ UNCHANGED sendVars

\* A failed check, or no verdict yet, for a row less than an hour old.
LaunchPolling ==
    /\ rec.pc = "rows"
    /\ \E x \in rec.rows :
          /\ x.hash # NoHash
          /\ Waits("reconciler", x.row, x.hash)
          /\ rec' = [rec EXCEPT !.rows = @ \ {x}]
    /\ UNCHANGED <<tableVars, lock, req, onChain, lost>>

ReconcilePending ==
    ReconcileList \/ ReconcileUnhashed \/ ReconcileCheck \/ ReconcileMark \/ LaunchPolling

=============================================================================
