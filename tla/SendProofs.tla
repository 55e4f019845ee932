----------------------------- MODULE SendProofs -----------------------------
(***************************************************************************)
(* What holds of the transfers for any sets of requests and addresses and  *)
(* any number of restarts.  Whatever statements fail: types, one sweep per *)
(* chain, and that what is called confirmed was mined.  Until one fails:   *)
(* every open row has an owner, rows move forward, the history follows,    *)
(* and what was sent is recorded.  Last: locks are held by sweeps that     *)
(* advance, and the server implements TransferLifecycle.                   *)
(***************************************************************************)
EXTENDS SendServer, TLAPS

-----------------------------------------------------------------------------
(* The inductive invariant *)

\* Whoever sweeps a chain holds its lock.
Locked == \A q \in Requests : req[q].pc \in Active => lock[req[q].chain] = q

\* What a request has not sent yet is not on the chain, so that its broadcast
\* is the first of its own hash.
FreshLocals(q, x) ==
    /\ x.pc \in {"new", "retry", "begin"} => \A w \in Wallets : onChain[<<q, w>>] = "unsent"
    /\ \A w \in x.todo : onChain[<<q, w>>] = "unsent"
    /\ x.pc \in {"check", "build", "send"} =>
          onChain[<<q, x.from>>] = "unsent" /\ x.from \notin x.todo
    /\ x.pc \in {"sent", "record"} => x.hash \in Hashes

Fresh == \A q \in Requests : FreshLocals(q, req[q])

\* A verdict on its way to the history is one, and a true one if it says
\* confirmed.
VerdictOf(status, h) == status \in Verdicts /\ (status = "confirmed" => onChain[h] = "mined")

Polls ==
    \A r \in Rows, p \in Pollers :
        /\ poll[r][p].pc # "idle" => poll[r][p].hash \in Hashes
        /\ poll[r][p].pc = "mark" => VerdictOf(poll[r][p].status, poll[r][p].hash)

Marks == rec.pc = "mark" => rec.at.hash \in Hashes /\ VerdictOf(rec.status, rec.at.hash)

Inv == TypeOK /\ Locked /\ Fresh /\ Polls /\ Marks /\ ConfirmedIsMined

-----------------------------------------------------------------------------
(* The statements.  Quiet: nothing is called confirmed that was not before. *)

Quiet ==
    /\ \A r \in Rows : txState'[r].status = "confirmed" => txState'[r] = txState[r]
    /\ \A h \in Hashes : "confirmed" \in transactions'[h] => "confirmed" \in transactions[h]

LEMMA FaultFacts ==
  ASSUME TablesTypeOK, DBFault
  PROVE  TablesTypeOK' /\ Quiet
  BY DEF TablesTypeOK, DBFault, Quiet

LEMMA NoStatement ==
  ASSUME TablesTypeOK, UNCHANGED tableVars
  PROVE  TablesTypeOK' /\ Quiet
  BY DEF TablesTypeOK, tableVars, Quiet

\* A status, with or without a hash, keeps the table a table; one that is not
\* "confirmed" confirms nothing.
LEMMA UpdateFacts ==
  ASSUME TablesTypeOK, NEW r \in Rows, NEW status \in Open \cup Closed,
         NEW h \in Hashes \cup {NoHash}, UpdateTxStatus(r, status, h)
  PROVE  /\ txState' \in [Rows -> TxStateRow]
         /\ transactions' = transactions
         /\ \A s \in Rows : s # r => txState'[s] = txState[s]
         /\ \/ txState'[r] = txState[r]
            \/ txState'[r].status = status
               /\ txState'[r].hash = IF h = NoHash THEN txState[r].hash ELSE h
<1>1. CASE txState[r].status = "absent"
  BY <1>1 DEF TablesTypeOK, UpdateTxStatus
<1>2. CASE txState[r].status # "absent"
  <2>. DEFINE row == [txState[r] EXCEPT !.status = status,
                                        !.hash = IF h = NoHash THEN @ ELSE h]
  <2>1. txState' = [txState EXCEPT ![r] = row] /\ transactions' = transactions
    BY <1>2 DEF UpdateTxStatus
  <2>2. txState[r] \in TxStateRow /\ txState \in [Rows -> TxStateRow]
    BY DEF TablesTypeOK
  <2>3. row \in TxStateRow /\ row.status = status
        /\ row.hash = IF h = NoHash THEN txState[r].hash ELSE h
    BY <2>2 DEF TxStateRow
  <2>. HIDE DEF row
  <2>. QED  BY <2>1, <2>2, <2>3
<1>. QED  BY <1>1, <1>2

LEMMA QuietUpdate ==
  ASSUME TablesTypeOK, NEW r \in Rows, NEW status \in Open \cup Closed,
         status # "confirmed", NEW h \in Hashes \cup {NoHash},
         Exec(UpdateTxStatus(r, status, h))
  PROVE  TablesTypeOK' /\ Quiet
<1>1. CASE DBFault
  BY <1>1, FaultFacts
<1>2. CASE UpdateTxStatus(r, status, h) /\ UNCHANGED faults
  BY <1>2, UpdateFacts DEF TablesTypeOK, Quiet
<1>. QED  BY <1>1, <1>2 DEF Exec

\* A verdict may be "confirmed", of the hash it is written with.
LEMMA VerdictUpdate ==
  ASSUME TablesTypeOK, NEW r \in Rows, NEW status \in Verdicts, NEW h \in Hashes,
         Exec(UpdateTxStatus(r, status, h))
  PROVE  /\ TablesTypeOK'
         /\ transactions' = transactions
         /\ \A s \in Rows : txState'[s].status = "confirmed" =>
               \/ txState'[s] = txState[s]
               \/ status = "confirmed" /\ txState'[s].hash = h
<1>1. CASE DBFault
  BY <1>1, FaultFacts DEF DBFault
<1>2. CASE UpdateTxStatus(r, status, h) /\ UNCHANGED faults
  <2>1. h # NoHash /\ status \in Open \cup Closed
    BY TxStateAssumption DEF Hashes, Rows, Verdicts, Closed
  <2>. QED  BY <1>2, <2>1, UpdateFacts DEF TablesTypeOK
<1>. QED  BY <1>1, <1>2 DEF Exec

LEMMA CreateFacts ==
  ASSUME TablesTypeOK, NEW r \in Rows, NEW c \in Chains, NEW t \in Tokens,
         Exec(CreateTxState(r, c, t))
  PROVE  TablesTypeOK' /\ Quiet
<1>1. CASE DBFault
  BY <1>1, FaultFacts
<1>2. CASE CreateTxState(r, c, t) /\ UNCHANGED faults
  <2>. DEFINE row == [status |-> "pending", chain |-> c, token |-> t, hash |-> NoHash]
  <2>1. row \in TxStateRow /\ row.status = "pending"
    BY DEF TxStateRow, Open
  <2>2. txState' = [txState EXCEPT ![r] = row] /\ UNCHANGED <<transactions, faults>>
    BY <1>2 DEF CreateTxState
  <2>. HIDE DEF row
  <2>. QED  BY <2>1, <2>2 DEF TablesTypeOK, Quiet
<1>. QED  BY <1>1, <1>2 DEF Exec

LEMMA InsertFacts ==
  ASSUME TablesTypeOK, NEW h \in Hashes, Exec(InsertTransaction(h))
  PROVE  TablesTypeOK' /\ Quiet
<1>1. CASE DBFault
  BY <1>1, FaultFacts
<1>2. CASE InsertTransaction(h) /\ UNCHANGED faults
  <2>1. UNCHANGED <<txState, faults>>
        /\ transactions' = [transactions EXCEPT ![h] = @ \cup {"pending"}]
    BY <1>2 DEF InsertTransaction
  <2>. QED  BY <2>1 DEF TablesTypeOK, Quiet
<1>. QED  BY <1>1, <1>2 DEF Exec

LEMMA MarkFacts ==
  ASSUME TablesTypeOK, NEW h \in Hashes, NEW status \in Verdicts,
         Exec(UpdateTransactionStatusByHash(h, status))
  PROVE  /\ TablesTypeOK' /\ txState' = txState
         /\ \A g \in Hashes : "confirmed" \in transactions'[g] =>
               "confirmed" \in transactions[g] \/ (g = h /\ status = "confirmed")
<1>1. CASE DBFault
  BY <1>1, FaultFacts DEF DBFault
<1>2. CASE UpdateTransactionStatusByHash(h, status) /\ UNCHANGED faults
  <2>1. UNCHANGED <<txState, faults>>
        /\ transactions' = [transactions EXCEPT ![h] = IF @ = {} THEN {} ELSE {status}]
    BY <1>2 DEF UpdateTransactionStatusByHash
  <2>. QED  BY <2>1 DEF TablesTypeOK
<1>. QED  BY <1>1, <1>2 DEF Exec

\* Nothing new is confirmed where nothing that was mined is unmined.
LEMMA QuietConfirmed ==
  ASSUME TypeOK, ConfirmedIsMined, Quiet,
         \A h \in Hashes : onChain[h] = "mined" => onChain'[h] = "mined"
  PROVE  ConfirmedIsMined'
<1>1. \A r \in Rows : txState[r] \in TxStateRow
  BY DEF TypeOK, TablesTypeOK
<1>2. \A r \in Rows : txState[r].hash \in Hashes \cup {NoHash}
  BY <1>1 DEF TxStateRow
<1>. QED  BY <1>2 DEF ConfirmedIsMined, Quiet

-----------------------------------------------------------------------------
(* A step of a request that leaves the chain alone is given by its new       *)
(* locals x.                                                                *)

LEMMA RequestFrame ==
  ASSUME Inv, NEW q \in Requests, NEW x \in Request,
         TablesTypeOK', Quiet, UNCHANGED <<onChain, lost, rec, phase, restarts>>,
         lock' \in [Chains -> Requests \cup {NoRequest}],
         req' = [req EXCEPT ![q] = x],
         poll' \in [Rows -> [Pollers -> Poll]], Polls',
         \A p \in Requests \ {q} :
             req[p].pc \in Active => lock'[req[p].chain] = lock[req[p].chain],
         x.pc \in Active => lock'[x.chain] = q,
         FreshLocals(q, x)
  PROVE  Inv'
<1>1. TypeOK'
  BY DEF Inv, TypeOK, SendTypeOK, RecTypeOK
<1>2. req'[q] = x /\ \A p \in Requests \ {q} : req'[p] = req[p]
  BY DEF Inv, TypeOK, SendTypeOK
<1>3. Locked'
  BY <1>2 DEF Inv, Locked
<1>4. Fresh'
  <2>. SUFFICES ASSUME NEW p \in Requests PROVE FreshLocals(p, req[p])'
    BY DEF Fresh
  <2>1. CASE p = q
    BY <1>2, <2>1 DEF FreshLocals
  <2>2. CASE p # q
    BY <1>2, <2>2 DEF Inv, Fresh, FreshLocals
  <2>. QED  BY <2>1, <2>2
<1>5. Marks'
  BY DEF Inv, Marks, VerdictOf
<1>6. ConfirmedIsMined'
  BY QuietConfirmed DEF Inv
<1>. QED  BY <1>1, <1>3, <1>4, <1>5, <1>6 DEF Inv

LEMMA PollsKept ==
  ASSUME Polls, UNCHANGED <<poll, onChain>>
  PROVE  Polls'
  BY DEF Polls, VerdictOf

\* The common case: only the program counter and the database move.
LEMMA GotoFrame ==
  ASSUME Inv, NEW q \in Requests, NEW pc \in ReqPC, Goto(q, pc),
         TablesTypeOK', Quiet, UNCHANGED <<onChain, lost, rec, phase, restarts, lock, poll>>,
         req[q].pc \in Active,
         pc \notin {"new", "retry", "begin", "check"},
         pc \in {"build", "send"} => req[q].pc \in {"check", "build"},
         pc \in {"sent", "record"} => req[q].pc = "sent"
  PROVE  Inv'
<1>. DEFINE x == [req[q] EXCEPT !.pc = pc]
<1>1. req[q] \in Request /\ req \in [Requests -> Request]
  BY DEF Inv, TypeOK, SendTypeOK
<1>2. x \in Request
  BY <1>1 DEF Request
<1>3. x.pc = pc /\ x.chain = req[q].chain /\ x.todo = req[q].todo
      /\ x.from = req[q].from /\ x.hash = req[q].hash
  BY <1>1 DEF Request
<1>4. req' = [req EXCEPT ![q] = x]
  BY DEF Goto
<1>. HIDE DEF x
<1>5. FreshLocals(q, req[q])
  BY DEF Inv, Fresh
<1>6. FreshLocals(q, x)
  BY <1>3, <1>5 DEF FreshLocals
<1>7. lock[req[q].chain] = q
  BY DEF Inv, Locked
<1>8. Polls'
  BY PollsKept DEF Inv
<1>9. lock' \in [Chains -> Requests \cup {NoRequest}] /\ poll' \in [Rows -> [Pollers -> Poll]]
  BY DEF Inv, TypeOK, SendTypeOK
<1>. QED  BY <1>2, <1>3, <1>4, <1>6, <1>7, <1>8, <1>9, RequestFrame

-----------------------------------------------------------------------------
(* The handlers *)

LEMMA ExecuteSendKeeps ==
  ASSUME Inv, NEW q \in Requests, ExecuteSend(q), UNCHANGED <<rec, serverVars>>
  PROVE  Inv'
<1>1. PICK c \in Chains, t \in Tokens, funded \in SUBSET Wallets :
        /\ lock[c] = NoRequest
        /\ lock' = [lock EXCEPT ![c] = q]
        /\ req' = [req EXCEPT ![q].pc = "begin", ![q].chain = c,
                              ![q].token = t, ![q].todo = funded]
  BY DEF ExecuteSend
<1>. DEFINE x == [req[q] EXCEPT !.pc = "begin", !.chain = c, !.token = t, !.todo = funded]
<1>2. /\ req[q] \in Request /\ req \in [Requests -> Request]
      /\ lock \in [Chains -> Requests \cup {NoRequest}]
      /\ poll \in [Rows -> [Pollers -> Poll]]
  BY DEF Inv, TypeOK, SendTypeOK
<1>3. x \in Request
  BY <1>2 DEF Request, ReqPC
<1>4. x.pc = "begin" /\ x.chain = c /\ x.todo = funded
  BY <1>2 DEF Request
<1>5. req' = [req EXCEPT ![q] = x]
  BY <1>1
<1>. HIDE DEF x
<1>6. UNCHANGED <<tableVars, poll, onChain, lost, rec, phase, restarts>> /\ req[q].pc = "new"
  BY DEF ExecuteSend, serverVars
<1>7. FreshLocals(q, x)
  BY <1>4, <1>6 DEF Inv, Fresh, FreshLocals
<1>8. \A p \in Requests \ {q} :
        req[p].pc \in Active => lock'[req[p].chain] = lock[req[p].chain]
  BY <1>1, <1>2, SweepAssumption DEF Inv, Locked
<1>9. TablesTypeOK' /\ Quiet
  BY <1>6, NoStatement DEF Inv, TypeOK
<1>10. Polls' /\ poll' \in [Rows -> [Pollers -> Poll]]
  BY <1>2, <1>6, PollsKept DEF Inv
<1>11. lock' \in [Chains -> Requests \cup {NoRequest}] /\ lock'[x.chain] = q
  BY <1>1, <1>2, <1>4
<1>. QED  BY <1>3, <1>5, <1>6, <1>7, <1>8, <1>9, <1>10, <1>11, RequestFrame

LEMMA ResumeReadKeeps ==
  ASSUME Inv, NEW q \in Requests, ResumeRead(q), UNCHANGED <<rec, serverVars>>
  PROVE  Inv'
<1>0. PICK s \in Requests : \E meta \in SweepRows(s) :
        req' = [req EXCEPT ![q].pc = "retry", ![q].resume = TRUE,
                            ![q].chain = txState[meta].chain,
                            ![q].token = txState[meta].token,
                            ![q].todo = {r[2] : r \in GetRetryableTxStates(s)}]
  BY DEF ResumeRead
<1>1. PICK meta \in SweepRows(s) :
        req' = [req EXCEPT ![q].pc = "retry", ![q].resume = TRUE,
                            ![q].chain = txState[meta].chain,
                            ![q].token = txState[meta].token,
                            ![q].todo = {r[2] : r \in GetRetryableTxStates(s)}]
  BY <1>0
<1>. DEFINE todo == {r[2] : r \in GetRetryableTxStates(s)}
            x == [req[q] EXCEPT !.pc = "retry", !.resume = TRUE, !.chain = txState[meta].chain,
                                !.token = txState[meta].token, !.todo = todo]
<1>2. /\ req[q] \in Request /\ req \in [Requests -> Request]
      /\ lock \in [Chains -> Requests \cup {NoRequest}]
      /\ poll \in [Rows -> [Pollers -> Poll]]
  BY DEF Inv, TypeOK, SendTypeOK
<1>3. todo \subseteq Wallets
  BY DEF GetRetryableTxStates, Rows
<1>4. txState[meta] \in TxStateRow
  BY <1>1 DEF SweepRows, Inv, TypeOK, TablesTypeOK
<1>5. txState[meta].chain \in Chains /\ txState[meta].token \in Tokens
  BY <1>4 DEF TxStateRow
<1>. HIDE DEF todo
<1>6. x \in Request
  BY <1>2, <1>3, <1>5 DEF Request, ReqPC
<1>7. x.pc = "retry" /\ x.todo = todo
  BY <1>2 DEF Request
<1>8. req' = [req EXCEPT ![q] = x]
  BY <1>1 DEF todo
<1>. HIDE DEF x
<1>9. UNCHANGED <<tableVars, lock, poll, onChain, lost, rec, phase, restarts>> /\ req[q].pc = "new"
  BY DEF ResumeRead, serverVars
<1>10. FreshLocals(q, x) /\ x.pc \notin Active
  BY <1>3, <1>7, <1>9 DEF Inv, Fresh, FreshLocals, Active
<1>11. TablesTypeOK' /\ Quiet
  BY <1>9, NoStatement DEF Inv, TypeOK
<1>12. Polls' /\ poll' \in [Rows -> [Pollers -> Poll]]
  BY <1>2, <1>9, PollsKept DEF Inv
<1>. QED  BY <1>2, <1>6, <1>8, <1>9, <1>10, <1>11, <1>12, RequestFrame

LEMMA ResumeLockKeeps ==
  ASSUME Inv, NEW q \in Requests, ResumeLock(q), UNCHANGED <<rec, serverVars>>
  PROVE  Inv'
<1>1. /\ req[q] \in Request /\ req \in [Requests -> Request]
      /\ lock \in [Chains -> Requests \cup {NoRequest}]
      /\ poll \in [Rows -> [Pollers -> Poll]]
  BY DEF Inv, TypeOK, SendTypeOK
<1>2. UNCHANGED <<tableVars, poll, onChain, lost, rec, phase, restarts>> /\ req[q].pc = "retry"
  BY DEF ResumeLock, serverVars
<1>3. TablesTypeOK' /\ Quiet
  BY <1>2, NoStatement DEF Inv, TypeOK
<1>4. Polls' /\ poll' \in [Rows -> [Pollers -> Poll]]
  BY <1>1, <1>2, PollsKept DEF Inv
<1>5. ASSUME lock[req[q].chain] = NoRequest, lock' = [lock EXCEPT ![req[q].chain] = q],
             NEW funded \in SUBSET req[q].todo,
             req' = [req EXCEPT ![q].pc = "begin", ![q].todo = funded]
      PROVE  Inv'
  <2>. DEFINE x == [req[q] EXCEPT !.pc = "begin", !.todo = funded]
  <2>1. x \in Request
    BY <1>1 DEF Request, ReqPC
  <2>2. x.pc = "begin" /\ x.chain = req[q].chain /\ x.todo = funded
    BY <1>1 DEF Request
  <2>3. req' = [req EXCEPT ![q] = x]
    BY <1>5
  <2>. HIDE DEF x
  <2>4. FreshLocals(q, x)
    BY <1>1, <1>2, <2>2 DEF Inv, Fresh, FreshLocals
  <2>5. req[q].chain \in Chains
    BY <1>1 DEF Request
  <2>6. \A p \in Requests \ {q} :
          req[p].pc \in Active => lock'[req[p].chain] = lock[req[p].chain]
    BY <1>1, <1>5, SweepAssumption DEF Inv, Locked
  <2>7. lock' \in [Chains -> Requests \cup {NoRequest}] /\ lock'[x.chain] = q
    BY <1>1, <1>5, <2>2, <2>5
  <2>. QED  BY <1>2, <1>3, <1>4, <2>1, <2>3, <2>4, <2>6, <2>7, RequestFrame
<1>6. ASSUME Goto(q, "done"), UNCHANGED lock
      PROVE  Inv'
  <2>. DEFINE x == [req[q] EXCEPT !.pc = "done"]
  <2>1. x \in Request
    BY <1>1 DEF Request, ReqPC
  <2>2. x.pc = "done" /\ x.todo = req[q].todo
    BY <1>1 DEF Request
  <2>3. req' = [req EXCEPT ![q] = x]
    BY <1>6 DEF Goto
  <2>. HIDE DEF x
  <2>4. FreshLocals(q, x) /\ x.pc \notin Active
    BY <2>2 DEF Inv, Fresh, FreshLocals, Active
  <2>. QED  BY <1>1, <1>2, <1>3, <1>4, <1>6, <2>1, <2>3, <2>4, RequestFrame
<1>. QED  BY <1>5, <1>6 DEF ResumeLock

LEMMA UnlockKeeps ==
  ASSUME Inv, NEW q \in Requests, Unlock(q), UNCHANGED <<rec, serverVars>>
  PROVE  Inv'
<1>. DEFINE x == [req[q] EXCEPT !.pc = "done"]
<1>1. /\ req[q] \in Request /\ req \in [Requests -> Request]
      /\ lock \in [Chains -> Requests \cup {NoRequest}]
      /\ poll \in [Rows -> [Pollers -> Poll]]
  BY DEF Inv, TypeOK, SendTypeOK
<1>2. /\ UNCHANGED <<tableVars, poll, onChain, lost, rec, phase, restarts>>
      /\ req[q].pc = "unlock" /\ lock' = [lock EXCEPT ![req[q].chain] = NoRequest]
  BY DEF Unlock, serverVars
<1>3. x \in Request
  BY <1>1 DEF Request, ReqPC
<1>4. x.pc = "done" /\ x.todo = req[q].todo
  BY <1>1 DEF Request
<1>5. req' = [req EXCEPT ![q] = x]
  BY DEF Unlock, Goto
<1>. HIDE DEF x
<1>6. FreshLocals(q, x) /\ x.pc \notin Active
  BY <1>4 DEF Inv, Fresh, FreshLocals, Active
<1>7. lock[req[q].chain] = q
  BY <1>2 DEF Inv, Locked, Active, ReqPC
<1>8. \A p \in Requests \ {q} :
        req[p].pc \in Active => lock'[req[p].chain] = lock[req[p].chain]
  BY <1>1, <1>2, <1>7 DEF Inv, Locked
<1>9. lock' \in [Chains -> Requests \cup {NoRequest}]
  BY <1>1, <1>2
<1>10. TablesTypeOK' /\ Quiet
  BY <1>2, NoStatement DEF Inv, TypeOK
<1>11. Polls' /\ poll' \in [Rows -> [Pollers -> Poll]]
  BY <1>1, <1>2, PollsKept DEF Inv
<1>. QED  BY <1>2, <1>3, <1>5, <1>6, <1>8, <1>9, <1>10, <1>11, RequestFrame

LEMMA DismissKeeps ==
  ASSUME Inv, NEW r \in Rows, DismissTxState(r), UNCHANGED <<rec, serverVars>>
  PROVE  Inv'
<1>1. UNCHANGED <<faults, lock, req, poll, onChain, lost, rec, phase, restarts>>
      /\ UpdateTxStatus(r, "dismissed", NoHash)
  BY DEF DismissTxState, sendVars, serverVars
<1>2. TablesTypeOK' /\ Quiet
  BY <1>1, QuietUpdate DEF Inv, TypeOK, Closed, Exec
<1>3. TypeOK'
  BY <1>1, <1>2 DEF Inv, TypeOK, SendTypeOK, RecTypeOK
<1>4. Locked' /\ Fresh' /\ Marks'
  BY <1>1 DEF Inv, Locked, Fresh, FreshLocals, Marks, VerdictOf
<1>5. Polls'
  BY <1>1, PollsKept DEF Inv
<1>6. ConfirmedIsMined'
  BY <1>1, <1>2, QuietConfirmed DEF Inv
<1>. QED  BY <1>3, <1>4, <1>5, <1>6 DEF Inv

-----------------------------------------------------------------------------
(* The steps of a sweep *)

LEMMA LoopKeeps ==
  ASSUME Inv, NEW q \in Requests, GivesUp(q) \/ EntersLoop(q) \/ LeavesLoop(q),
         UNCHANGED <<rec, serverVars>>
  PROVE  Inv'
<1>1. /\ UNCHANGED <<tableVars, lock, poll, onChain, lost, rec, phase, restarts>>
      /\ req[q].pc \in {"begin", "next"}
  BY DEF GivesUp, EntersLoop, LeavesLoop, serverVars
<1>2. TablesTypeOK' /\ Quiet
  BY <1>1, NoStatement DEF Inv, TypeOK
<1>3. PICK pc \in {"next", "unlock"} : Goto(q, pc)
  BY DEF GivesUp, EntersLoop, LeavesLoop
<1>4. pc \in ReqPC /\ req[q].pc \in Active
  BY <1>1 DEF ReqPC, Active
<1>. QED  BY <1>1, <1>2, <1>3, <1>4, GotoFrame

LEMMA SkipsAddressKeeps ==
  ASSUME Inv, NEW q \in Requests, SkipsAddress(q), UNCHANGED <<rec, serverVars>>
  PROVE  Inv'
<1>1. PICK w \in req[q].todo : req' = [req EXCEPT ![q].todo = @ \ {w}]
  BY DEF SkipsAddress
<1>. DEFINE x == [req[q] EXCEPT !.todo = @ \ {w}]
<1>2. /\ req[q] \in Request /\ req \in [Requests -> Request]
      /\ lock \in [Chains -> Requests \cup {NoRequest}]
      /\ poll \in [Rows -> [Pollers -> Poll]]
  BY DEF Inv, TypeOK, SendTypeOK
<1>3. /\ UNCHANGED <<tableVars, lock, poll, onChain, lost, rec, phase, restarts>>
      /\ req[q].pc = "next"
  BY DEF SkipsAddress, serverVars
<1>4. x \in Request
  BY <1>2 DEF Request
<1>5. x.pc = "next" /\ x.chain = req[q].chain /\ x.todo = req[q].todo \ {w}
  BY <1>2, <1>3 DEF Request
<1>6. req' = [req EXCEPT ![q] = x]
  BY <1>1
<1>. HIDE DEF x
<1>7. FreshLocals(q, x)
  BY <1>5 DEF Inv, Fresh, FreshLocals
<1>8. lock[x.chain] = q
  BY <1>3, <1>5 DEF Inv, Locked, Active, ReqPC
<1>9. TablesTypeOK' /\ Quiet
  BY <1>3, NoStatement DEF Inv, TypeOK
<1>10. Polls' /\ poll' \in [Rows -> [Pollers -> Poll]]
  BY <1>2, <1>3, PollsKept DEF Inv
<1>. QED  BY <1>2, <1>3, <1>4, <1>6, <1>7, <1>8, <1>9, <1>10, RequestFrame

LEMMA CreatesRowKeeps ==
  ASSUME Inv, NEW q \in Requests, NEW w \in Wallets, CreatesRow(q, w),
         req[q].pc \in {"begin", "next"}, onChain[<<q, w>>] = "unsent",
         UNCHANGED <<rec, serverVars>>
  PROVE  Inv'
<1>. DEFINE x == [req[q] EXCEPT !.pc = "check", !.from = w, !.todo = @ \ {w}]
<1>1. /\ req[q] \in Request /\ req \in [Requests -> Request]
      /\ lock \in [Chains -> Requests \cup {NoRequest}]
      /\ poll \in [Rows -> [Pollers -> Poll]]
  BY DEF Inv, TypeOK, SendTypeOK
<1>2. UNCHANGED <<lock, poll, onChain, lost, rec, phase, restarts>>
  BY DEF CreatesRow, serverVars
<1>3. x \in Request
  BY <1>1 DEF Request, ReqPC
<1>4. x.pc = "check" /\ x.chain = req[q].chain /\ x.from = w /\ x.todo = req[q].todo \ {w}
  BY <1>1 DEF Request
<1>5. req' = [req EXCEPT ![q] = x]
  BY DEF CreatesRow
<1>. HIDE DEF x
<1>6. FreshLocals(q, x)
  BY <1>4 DEF Inv, Fresh, FreshLocals
<1>7. lock[x.chain] = q
  BY <1>4 DEF Inv, Locked, Active, ReqPC
<1>8. <<q, w>> \in Rows /\ req[q].chain \in Chains /\ req[q].token \in Tokens
  BY <1>1 DEF Request, Rows
<1>9. TablesTypeOK' /\ Quiet
  BY <1>8, CreateFacts DEF Inv, TypeOK, CreatesRow
<1>10. Polls' /\ poll' \in [Rows -> [Pollers -> Poll]]
  BY <1>1, <1>2, PollsKept DEF Inv
<1>. QED  BY <1>1, <1>2, <1>3, <1>5, <1>6, <1>7, <1>9, <1>10, RequestFrame

LEMMA TakesAddressKeeps ==
  ASSUME Inv, NEW q \in Requests, TakesAddress(q), UNCHANGED <<rec, serverVars>>
  PROVE  Inv'
<1>1. PICK w \in req[q].todo : CreatesRow(q, w)
  BY DEF TakesAddress
<1>2. req[q] \in Request
  BY DEF Inv, TypeOK, SendTypeOK
<1>3. w \in Wallets
  BY <1>2 DEF Request
<1>4. onChain[<<q, w>>] = "unsent"
  BY DEF Inv, Fresh, FreshLocals
<1>. QED  BY <1>1, <1>3, <1>4, CreatesRowKeeps DEF TakesAddress

LEMMA RowIsARow ==
  ASSUME Inv, NEW q \in Requests
  PROVE  Row(q) \in Rows /\ Row(q) \in Hashes
<1>1. req[q] \in Request
  BY DEF Inv, TypeOK, SendTypeOK
<1>. QED  BY <1>1 DEF Request, Row, Rows, Hashes

\* A status that is not "confirmed", written for the row in hand.
LEMMA StatusKeeps ==
  ASSUME Inv, NEW q \in Requests, NEW status \in Open \cup Closed, status # "confirmed",
         NEW h \in Hashes \cup {NoHash}, Exec(UpdateTxStatus(Row(q), status, h)),
         NEW pc \in ReqPC, Goto(q, pc),
         UNCHANGED <<lock, poll, onChain, lost, rec, serverVars>>,
         req[q].pc \in Active, pc \notin {"new", "retry", "begin", "check"},
         pc \in {"build", "send"} => req[q].pc \in {"check", "build"},
         pc \in {"sent", "record"} => req[q].pc = "sent"
  PROVE  Inv'
<1>1. TablesTypeOK' /\ Quiet
  BY RowIsARow, QuietUpdate DEF Inv, TypeOK
<1>2. UNCHANGED <<onChain, lost, rec, phase, restarts, lock, poll>>
  BY DEF serverVars
<1>. QED  BY <1>1, <1>2, GotoFrame

LEMMA FailsRowKeeps ==
  ASSUME Inv, NEW q \in Requests, NEW pcs \in SUBSET Active, FailsRow(q, pcs),
         UNCHANGED <<rec, serverVars>>
  PROVE  Inv'
<1>1. AfterRow(q) \in {"unlock", "next"}
  BY DEF AfterRow
<1>2. req[q].pc \in Active /\ AfterRow(q) \in ReqPC /\ "failed" \in Open \cup Closed
  BY <1>1 DEF FailsRow, ReqPC, Closed, Verdicts
<1>. QED  BY <1>1, <1>2, StatusKeeps DEF FailsRow

LEMMA BroadcastingKeeps ==
  ASSUME Inv, NEW q \in Requests, NEW pc \in {"check", "build"}, Broadcasting(q, pc),
         UNCHANGED <<rec, serverVars>>
  PROVE  Inv'
<1>1. req[q].pc \in Active /\ "send" \in ReqPC /\ "broadcasting" \in Open \cup Closed
  BY DEF Broadcasting, Active, ReqPC, Open
<1>. QED  BY <1>1, StatusKeeps DEF Broadcasting

LEMMA ConfirmingKeeps ==
  ASSUME Inv, NEW q \in Requests, Confirming(q), UNCHANGED <<rec, serverVars>>
  PROVE  Inv'
<1>1. req[q].pc \in Active /\ "record" \in ReqPC /\ "confirming" \in Open \cup Closed
  BY DEF Confirming, Active, ReqPC, Open
<1>2. req[q].hash \in Hashes
  BY DEF Confirming, Inv, Fresh, FreshLocals
<1>. QED  BY <1>1, <1>2, StatusKeeps DEF Confirming

LEMMA RecordsKeeps ==
  ASSUME Inv, NEW q \in Requests, Records(q), UNCHANGED <<rec, serverVars>>
  PROVE  Inv'
<1>. DEFINE pc == AfterRow(q)
            x == [req[q] EXCEPT !.pc = pc]
            wait == [NoPoll EXCEPT !.pc = "wait", !.hash = req[q].hash]
<1>1. /\ req[q] \in Request /\ req \in [Requests -> Request]
      /\ lock \in [Chains -> Requests \cup {NoRequest}]
      /\ poll \in [Rows -> [Pollers -> Poll]]
  BY DEF Inv, TypeOK, SendTypeOK
<1>2. UNCHANGED <<lock, onChain, lost, rec, phase, restarts>> /\ req[q].pc = "record"
  BY DEF Records, serverVars
<1>3. pc \in {"unlock", "next"}
  BY DEF AfterRow
<1>4. req[q].hash \in Hashes
  BY <1>2 DEF Inv, Fresh, FreshLocals
<1>5. req' = [req EXCEPT ![q] = x]
  BY DEF Records, Goto
<1>6. poll' = [poll EXCEPT ![Row(q)]["sweep"] = wait]
  BY DEF Records, Waits
<1>7. wait \in Poll /\ wait.pc = "wait" /\ wait.hash = req[q].hash
  BY <1>4 DEF Poll, NoPoll
<1>. HIDE DEF wait, pc
<1>8. x \in Request
  BY <1>1, <1>3 DEF Request, ReqPC
<1>9. x.pc = pc /\ x.chain = req[q].chain /\ x.todo = req[q].todo
  BY <1>1 DEF Request
<1>. HIDE DEF x
<1>10. FreshLocals(q, x)
  BY <1>3, <1>9 DEF Inv, Fresh, FreshLocals
<1>11. lock[x.chain] = q
  BY <1>2, <1>9 DEF Inv, Locked, Active, ReqPC
<1>12. TablesTypeOK' /\ Quiet
  BY <1>4, InsertFacts DEF Inv, TypeOK, Records
<1>13. poll' \in [Rows -> [Pollers -> Poll]]
  BY <1>1, <1>6, <1>7, RowIsARow DEF Pollers
<1>14. Polls'
  BY <1>1, <1>2, <1>4, <1>6, <1>7, RowIsARow DEF Inv, Polls, VerdictOf, Pollers
<1>. QED  BY <1>1, <1>2, <1>5, <1>8, <1>10, <1>11, <1>12, <1>13, <1>14, RequestFrame

-----------------------------------------------------------------------------
(* The steps that change what is on the chains *)

\* What was mined stays so, and what a request has not sent stays unsent.
ChainGrows(q) ==
    /\ onChain' \in [Hashes -> Fate]
    /\ \A h \in Hashes : onChain[h] = "mined" => onChain'[h] = "mined"
    /\ \A h \in Hashes : onChain[h] = "unsent" => onChain'[h] = "unsent" \/ h = Row(q)

LEMMA SentFrame ==
  ASSUME Inv, NEW q \in Requests, NEW x \in Request, ChainGrows(q),
         req[q].pc = "send", req' = [req EXCEPT ![q] = x], lost' \in BOOLEAN,
         UNCHANGED <<tableVars, lock, poll, rec, phase, restarts>>,
         x.pc \in {"refused", "sent"}, x.chain = req[q].chain, x.todo = req[q].todo,
         x.pc = "sent" => x.hash \in Hashes
  PROVE  Inv'
<1>1. req'[q] = x /\ \A p \in Requests \ {q} : req'[p] = req[p]
  BY DEF Inv, TypeOK, SendTypeOK
<1>2. TablesTypeOK' /\ Quiet
  BY NoStatement DEF Inv, TypeOK
<1>3. TypeOK'
  BY <1>2 DEF Inv, TypeOK, SendTypeOK, RecTypeOK, ChainGrows
<1>4. Locked'
  BY <1>1 DEF Inv, Locked, Active, ReqPC
<1>5. \A p \in Requests, w \in Wallets :
        onChain[<<p, w>>] = "unsent" =>
            onChain'[<<p, w>>] = "unsent" \/ (p = q /\ w = req[q].from)
  BY DEF ChainGrows, Row, Hashes, Rows
<1>6. Fresh'
  <2>. SUFFICES ASSUME NEW p \in Requests PROVE FreshLocals(p, req[p])'
    BY DEF Fresh
  <2>0. req[p] \in Request
    BY DEF Inv, TypeOK, SendTypeOK
  <2>1. FreshLocals(p, req[p])
    BY DEF Inv, Fresh
  <2>2. CASE p = q
    BY <1>1, <1>5, <2>0, <2>1, <2>2 DEF FreshLocals, Request
  <2>3. CASE p # q
    BY <1>1, <1>5, <2>0, <2>1, <2>3 DEF FreshLocals, Request
  <2>. QED  BY <2>2, <2>3
<1>7. Polls' /\ Marks'
  BY DEF Inv, Polls, Marks, VerdictOf, ChainGrows
<1>8. ConfirmedIsMined'
  BY <1>2, QuietConfirmed DEF Inv, ChainGrows
<1>. QED  BY <1>3, <1>4, <1>6, <1>7, <1>8 DEF Inv

LEMMA SendTransactionKeeps ==
  ASSUME Inv, NEW q \in Requests, SendTransaction(q), UNCHANGED <<rec, serverVars>>
  PROVE  Inv'
<1>1. /\ req[q] \in Request /\ req \in [Requests -> Request]
      /\ onChain \in [Hashes -> Fate] /\ lost \in BOOLEAN
  BY DEF Inv, TypeOK, SendTypeOK
<1>2. UNCHANGED <<tableVars, lock, poll, rec, phase, restarts>> /\ req[q].pc = "send"
  BY DEF SendTransaction, serverVars
<1>3. onChain[Row(q)] = "unsent"
  BY <1>2 DEF Inv, Fresh, FreshLocals, Row
<1>4. ASSUME NEW h \in Hashes, onChain[h] = "mempool" \/ h = Row(q),
             onChain' = [onChain EXCEPT ![h] = "mempool"]
      PROVE  ChainGrows(q)
  BY <1>1, <1>3, <1>4 DEF ChainGrows, Fate
<1>5. ASSUME Accepted(q)
      PROVE  Inv'
  <2>1. PICK h \in Signed(q) :
          /\ onChain' = [onChain EXCEPT ![h] = "mempool"]
          /\ req' = [req EXCEPT ![q].pc = "sent", ![q].hash = h]
    BY <1>5 DEF Accepted
  <2>2. h \in Hashes /\ (onChain[h] = "mempool" \/ h = Row(q))
    BY RowIsARow DEF Signed
  <2>. DEFINE x == [req[q] EXCEPT !.pc = "sent", !.hash = h]
  <2>3. x \in Request
    BY <1>1, <2>2 DEF Request, ReqPC
  <2>4. x.pc = "sent" /\ x.hash = h /\ x.chain = req[q].chain /\ x.todo = req[q].todo
    BY <1>1 DEF Request
  <2>5. req' = [req EXCEPT ![q] = x]
    BY <2>1
  <2>. HIDE DEF x
  <2>6. ChainGrows(q) /\ lost' \in BOOLEAN
    BY <1>1, <1>4, <1>5, <2>1, <2>2 DEF Accepted
  <2>. QED  BY <1>2, <2>2, <2>3, <2>4, <2>5, <2>6, SentFrame
<1>. DEFINE y == [req[q] EXCEPT !.pc = "refused"]
<1>6. y \in Request
  BY <1>1 DEF Request, ReqPC
<1>7. y.pc = "refused" /\ y.chain = req[q].chain /\ y.todo = req[q].todo
  BY <1>1 DEF Request
<1>8. ASSUME Refused(q)
      PROVE  Inv'
  <2>1. req' = [req EXCEPT ![q] = y]
    BY <1>8 DEF Refused, Goto
  <2>. HIDE DEF y
  <2>2. ChainGrows(q) /\ lost' \in BOOLEAN
    BY <1>1, <1>8 DEF Refused, ChainGrows
  <2>. QED  BY <1>2, <1>6, <1>7, <2>1, <2>2, SentFrame
<1>9. ASSUME AnswerLost(q)
      PROVE  Inv'
  <2>1. req' = [req EXCEPT ![q] = y]
    BY <1>9 DEF AnswerLost, Goto
  <2>. HIDE DEF y
  <2>2. ChainGrows(q) /\ lost' \in BOOLEAN
    BY <1>4, <1>9, RowIsARow DEF AnswerLost
  <2>. QED  BY <1>2, <1>6, <1>7, <2>1, <2>2, SentFrame
<1>. QED  BY <1>5, <1>8, <1>9 DEF SendTransaction

LEMMA MineKeeps ==
  ASSUME Inv, NEW h \in Rows, Mine(h), UNCHANGED <<rec, serverVars>>
  PROVE  Inv'
<1>1. UNCHANGED <<tableVars, lock, req, poll, lost, rec, phase, restarts>>
  BY DEF Mine, serverVars
<1>2. PICK fate \in {"mined", "reverted"} : onChain' = [onChain EXCEPT ![h] = fate]
  BY DEF Mine
<1>3. onChain[h] = "mempool" /\ h \in Hashes /\ onChain \in [Hashes -> Fate]
  BY DEF Mine, Hashes, Inv, TypeOK, SendTypeOK
<1>4. /\ onChain' \in [Hashes -> Fate]
      /\ \A g \in Hashes : onChain[g] \in {"mined", "unsent"} => onChain'[g] = onChain[g]
  BY <1>2, <1>3 DEF Fate
<1>5. TablesTypeOK' /\ Quiet
  BY <1>1, NoStatement DEF Inv, TypeOK
<1>6. TypeOK'
  BY <1>1, <1>4, <1>5 DEF Inv, TypeOK, SendTypeOK, RecTypeOK
<1>7. Locked'
  BY <1>1 DEF Inv, Locked
<1>8. Fresh'
  <2>. SUFFICES ASSUME NEW p \in Requests PROVE FreshLocals(p, req[p])'
    BY DEF Fresh
  <2>1. FreshLocals(p, req[p]) /\ req[p] \in Request
    BY DEF Inv, Fresh, TypeOK, SendTypeOK
  <2>2. \A w \in Wallets : onChain[<<p, w>>] = "unsent" => onChain'[<<p, w>>] = "unsent"
    BY <1>4 DEF Hashes, Rows
  <2>. QED  BY <1>1, <2>1, <2>2 DEF FreshLocals, Request
<1>9. Polls' /\ Marks'
  BY <1>1, <1>4 DEF Inv, Polls, Marks, VerdictOf
<1>10. ConfirmedIsMined'
  BY <1>4, <1>5, QuietConfirmed DEF Inv
<1>. QED  BY <1>6, <1>7, <1>8, <1>9, <1>10 DEF Inv

-----------------------------------------------------------------------------
(* The steps of the confirmation goroutines and the reconciler: the requests *)
(* and the chains stay as they are.                                         *)

LEMMA SettlesFrame ==
  ASSUME Inv, UNCHANGED <<lock, req, onChain, lost, phase, restarts>>,
         TablesTypeOK', poll' \in [Rows -> [Pollers -> Poll]], RecTypeOK',
         Polls', Marks', ConfirmedIsMined'
  PROVE  Inv'
<1>1. TypeOK'
  BY DEF Inv, TypeOK, SendTypeOK
<1>2. Locked' /\ Fresh'
  BY DEF Inv, Locked, Fresh, FreshLocals
<1>. QED  BY <1>1, <1>2 DEF Inv

\* A verdict read from the chain may be written, under its hash.
LEMMA VerdictConfirmed ==
  ASSUME Inv, NEW r \in Rows, NEW status \in Verdicts, NEW h \in Hashes,
         Exec(UpdateTxStatus(r, status, h)), UNCHANGED onChain, VerdictOf(status, h)
  PROVE  TablesTypeOK' /\ ConfirmedIsMined'
<1>1. TablesTypeOK
  BY DEF Inv, TypeOK
<1>2. /\ TablesTypeOK'
      /\ transactions' = transactions
      /\ \A s \in Rows : txState'[s].status = "confirmed" =>
            \/ txState'[s] = txState[s]
            \/ status = "confirmed" /\ txState'[s].hash = h
  BY <1>1, VerdictUpdate
<1>3. h # NoHash
  BY TxStateAssumption DEF Hashes, Rows
<1>. QED  BY <1>2, <1>3 DEF Inv, ConfirmedIsMined, VerdictOf

\* ... and be handed to the history, under the same hash.
LEMMA MarkConfirmed ==
  ASSUME Inv, NEW status \in Verdicts, NEW h \in Hashes,
         Exec(UpdateTransactionStatusByHash(h, status)), UNCHANGED onChain,
         VerdictOf(status, h)
  PROVE  TablesTypeOK' /\ ConfirmedIsMined'
<1>1. TablesTypeOK
  BY DEF Inv, TypeOK
<1>2. /\ TablesTypeOK' /\ txState' = txState
      /\ \A g \in Hashes : "confirmed" \in transactions'[g] =>
            "confirmed" \in transactions[g] \/ (g = h /\ status = "confirmed")
  BY <1>1, MarkFacts
<1>. QED  BY <1>2 DEF Inv, ConfirmedIsMined, VerdictOf

LEMMA PollFrame ==
  ASSUME Inv, NEW r \in Rows, NEW p \in Pollers, NEW x \in Poll,
         poll' = [poll EXCEPT ![r][p] = x], UNCHANGED onChain,
         x.pc # "idle" => x.hash \in Hashes,
         x.pc = "mark" => VerdictOf(x.status, x.hash)
  PROVE  poll' \in [Rows -> [Pollers -> Poll]] /\ Polls'
<1>1. poll \in [Rows -> [Pollers -> Poll]]
  BY DEF Inv, TypeOK, SendTypeOK
<1>2. poll' \in [Rows -> [Pollers -> Poll]]
  BY <1>1
<1>3. \A s \in Rows, o \in Pollers :
        poll'[s][o] = IF s = r /\ o = p THEN x ELSE poll[s][o]
  BY <1>1
<1>. QED  BY <1>2, <1>3 DEF Inv, Polls, VerdictOf

LEMMA RecKept ==
  ASSUME Inv, UNCHANGED <<rec, onChain>>
  PROVE  RecTypeOK' /\ Marks'
  BY DEF Inv, TypeOK, RecTypeOK, Marks, VerdictOf

LEMMA NoPollFacts == NoPoll \in Poll /\ NoPoll.pc = "idle"
<1>. NoPoll = [pc |-> "idle", hash |-> NoHash, status |-> "confirming"]
  BY DEF NoPoll
<1>. QED  BY DEF Poll

\* Whoever asks, "confirmed" is only said of what was mined.
LEMMA VerdictFacts ==
  ASSUME NEW c \in Chains, NEW fate \in Fate, NEW s,
         s \in SweepVerdict(c, fate) \/ s \in ReconcilerVerdict(c, fate)
  PROVE  s \in Verdicts /\ (s = "confirmed" => fate = "mined")
  BY DEF Chains, SweepVerdict, ReconcilerVerdict, Verdicts, WaitForReceipt,
         WaitForBTCConfirmation, WaitForSOLConfirmation

LEMMA PollEndsKeeps ==
  ASSUME Inv, NEW r \in Rows, NEW p \in Pollers, PollEnds(r, p), UNCHANGED <<rec, serverVars>>
  PROVE  Inv'
<1>. DEFINE h == poll[r][p].hash
            c == req[r[1]].chain
<1>1. UNCHANGED <<lock, req, onChain, lost, rec, phase, restarts>> /\ poll[r][p].pc = "wait"
  BY DEF PollEnds, serverVars
<1>2. h \in Hashes /\ onChain[h] \in Fate
  BY <1>1 DEF Inv, Polls, TypeOK, SendTypeOK
<1>3. r[1] \in Requests
  BY DEF Rows
<1>4. req[r[1]] \in Request
  BY <1>3 DEF Inv, TypeOK, SendTypeOK
<1>5. c \in Chains
  BY <1>4 DEF Request
<1>6. PICK s \in IF p = "sweep" THEN SweepVerdict(c, onChain[h])
                                ELSE ReconcilerVerdict(c, onChain[h]) :
        /\ Exec(UpdateTxStatus(r, s, h))
        /\ poll' = [poll EXCEPT ![r][p] =
               IF p = "reconciler" \/ s \in {"confirmed", "failed"}
               THEN [pc |-> "mark", hash |-> h, status |-> s] ELSE NoPoll]
  BY DEF PollEnds
<1>. HIDE DEF h, c
<1>7. s \in Verdicts /\ VerdictOf(s, h)
  BY <1>2, <1>5, VerdictFacts DEF VerdictOf
<1>. DEFINE x == IF p = "reconciler" \/ s \in {"confirmed", "failed"}
                 THEN [pc |-> "mark", hash |-> h, status |-> s] ELSE NoPoll
<1>8. /\ x \in Poll
      /\ x.pc # "idle" => x.hash = h
      /\ x.pc = "mark" => x.status = s /\ x.hash = h
  BY <1>2, <1>7, NoPollFacts DEF Poll
<1>9. poll' = [poll EXCEPT ![r][p] = x]
  BY <1>6
<1>. HIDE DEF x
<1>10. poll' \in [Rows -> [Pollers -> Poll]] /\ Polls'
  BY <1>1, <1>2, <1>7, <1>8, <1>9, PollFrame
<1>11. TablesTypeOK' /\ ConfirmedIsMined'
  BY <1>1, <1>2, <1>6, <1>7, VerdictConfirmed
<1>. QED  BY <1>1, <1>10, <1>11, RecKept, SettlesFrame

LEMMA PollMarksKeeps ==
  ASSUME Inv, NEW r \in Rows, NEW p \in Pollers, PollMarks(r, p), UNCHANGED <<rec, serverVars>>
  PROVE  Inv'
<1>. DEFINE h == poll[r][p].hash
            s == poll[r][p].status
<1>1. /\ UNCHANGED <<lock, req, onChain, lost, rec, phase, restarts>>
      /\ poll[r][p].pc = "mark"
      /\ Exec(UpdateTransactionStatusByHash(h, s))
      /\ poll' = [poll EXCEPT ![r][p] = NoPoll]
  BY DEF PollMarks, serverVars
<1>2. h \in Hashes /\ VerdictOf(s, h)
  BY <1>1 DEF Inv, Polls
<1>. HIDE DEF h, s
<1>3. poll' \in [Rows -> [Pollers -> Poll]] /\ Polls'
  BY <1>1, NoPollFacts, PollFrame
<1>4. TablesTypeOK' /\ ConfirmedIsMined'
  BY <1>1, <1>2, MarkConfirmed DEF VerdictOf
<1>. QED  BY <1>1, <1>3, <1>4, RecKept, SettlesFrame

LEMMA ListedFacts ==
  ASSUME Inv
  PROVE  /\ rec.pc \in {"idle", "list", "rows", "mark"} /\ rec.rows \in SUBSET Listed
         /\ rec.at \in Listed /\ rec.status \in {"confirming"} \cup Verdicts
         /\ rec.raced \in SUBSET Rows /\ NoListed \in Listed
<1>1. rec \in [pc : {"idle", "list", "rows", "mark"}, rows : SUBSET Listed,
               at : Listed, status : {"confirming"} \cup Verdicts, raced : SUBSET Rows]
  BY DEF Inv, TypeOK, RecTypeOK
<1>2. <<CHOOSE q \in Requests : TRUE, First>> \in Rows
  <2>1. (CHOOSE q \in Requests : TRUE) \in Requests
    BY TxStateAssumption
  <2>. QED  BY <2>1, SweepAssumption DEF Rows
<1>3. NoListed \in Listed
  BY <1>2 DEF NoListed, Listed
<1>. QED  BY <1>1, <1>3

\* The reconciler idle again, whatever it left.
LEMMA IdleFacts ==
  ASSUME Inv, rec' = Idle
  PROVE  RecTypeOK' /\ Marks'
<1>1. /\ Idle.pc = "idle"
      /\ Idle \in [pc : {"idle", "list", "rows", "mark"}, rows : SUBSET Listed,
                   at : Listed, status : {"confirming"} \cup Verdicts, raced : SUBSET Rows]
  <2>1. rec \in [pc : {"idle", "list", "rows", "mark"}, rows : SUBSET Listed,
                 at : Listed, status : {"confirming"} \cup Verdicts, raced : SUBSET Rows]
    BY DEF Inv, TypeOK, RecTypeOK
  <2>. QED  BY <2>1, ListedFacts DEF Idle
<1>. QED  BY <1>1 DEF RecTypeOK, Marks

LEMMA ReconcileListKeeps ==
  ASSUME Inv, ReconcileList, UNCHANGED serverVars
  PROVE  Inv'
<1>1. UNCHANGED <<lock, req, onChain, lost, phase, restarts, poll>>
  BY DEF ReconcileList, sendVars, serverVars
<1>2. Polls' /\ poll' \in [Rows -> [Pollers -> Poll]]
  BY <1>1, PollsKept DEF Inv, TypeOK, SendTypeOK
<1>3. TablesTypeOK' /\ Quiet
  BY FaultFacts, NoStatement DEF Inv, TypeOK, ReconcileList
<1>4. ConfirmedIsMined'
  BY <1>1, <1>3, QuietConfirmed DEF Inv
<1>5. CASE rec' = Idle
  BY <1>1, <1>2, <1>3, <1>4, <1>5, IdleFacts, SettlesFrame
<1>6. CASE rec' # Idle
  <2>. DEFINE rows == {[row |-> r, hash |-> txState[r].hash] : r \in GetAllPendingTxStates}
              raced == rec.raced \cup {r \in GetAllPendingTxStates : InUse(r)}
              x == [rec EXCEPT !.pc = "rows", !.rows = rows, !.raced = raced]
  <2>1. \A r \in Rows : txState[r] \in TxStateRow
    BY DEF Inv, TypeOK, TablesTypeOK
  <2>2. rows \in SUBSET Listed
    BY <2>1 DEF GetAllPendingTxStates, Listed, TxStateRow
  <2>3. raced \in SUBSET Rows
    BY ListedFacts DEF GetAllPendingTxStates
  <2>4. rec' = x
    BY <1>6 DEF ReconcileList
  <2>. HIDE DEF rows, raced
  <2>5. rec \in [pc : {"idle", "list", "rows", "mark"}, rows : SUBSET Listed,
                 at : Listed, status : {"confirming"} \cup Verdicts, raced : SUBSET Rows]
    BY DEF Inv, TypeOK, RecTypeOK
  <2>6. /\ x.pc = "rows"
        /\ x \in [pc : {"idle", "list", "rows", "mark"}, rows : SUBSET Listed,
                  at : Listed, status : {"confirming"} \cup Verdicts, raced : SUBSET Rows]
    BY <2>2, <2>3, <2>5
  <2>. HIDE DEF x
  <2>7. RecTypeOK' /\ Marks'
    BY <2>4, <2>6 DEF RecTypeOK, Marks
  <2>. QED  BY <1>1, <1>2, <1>3, <1>4, <2>7, SettlesFrame
<1>. QED  BY <1>5, <1>6

LEMMA ReconcileStopsKeeps ==
  ASSUME Inv, ReconcileStops, UNCHANGED serverVars
  PROVE  Inv'
<1>1. UNCHANGED <<tableVars, lock, req, onChain, lost, phase, restarts, poll>> /\ rec' = Idle
  BY DEF ReconcileStops, sendVars, serverVars
<1>2. Polls' /\ poll' \in [Rows -> [Pollers -> Poll]]
  BY <1>1, PollsKept DEF Inv, TypeOK, SendTypeOK
<1>3. TablesTypeOK' /\ Quiet
  BY <1>1, NoStatement DEF Inv, TypeOK
<1>4. ConfirmedIsMined'
  BY <1>1, <1>3, QuietConfirmed DEF Inv
<1>. QED  BY <1>1, <1>2, <1>3, <1>4, IdleFacts, SettlesFrame

\* One row less to visit.
LEMMA VisitFacts ==
  ASSUME Inv, rec.pc = "rows", NEW x, rec' = [rec EXCEPT !.rows = @ \ {x}]
  PROVE  RecTypeOK' /\ Marks'
<1>. DEFINE y == [rec EXCEPT !.rows = @ \ {x}]
<1>1. rec \in [pc : {"idle", "list", "rows", "mark"}, rows : SUBSET Listed,
               at : Listed, status : {"confirming"} \cup Verdicts, raced : SUBSET Rows]
  BY DEF Inv, TypeOK, RecTypeOK
<1>2. /\ y.pc = "rows"
      /\ y \in [pc : {"idle", "list", "rows", "mark"}, rows : SUBSET Listed,
                at : Listed, status : {"confirming"} \cup Verdicts, raced : SUBSET Rows]
  BY <1>1
<1>. QED  BY <1>2 DEF RecTypeOK, Marks

LEMMA ReconcileUnhashedKeeps ==
  ASSUME Inv, ReconcileUnhashed, UNCHANGED serverVars
  PROVE  Inv'
<1>1. PICK x \in rec.rows : /\ Exec(UpdateTxStatus(x.row, "failed", NoHash))
                            /\ rec' = [rec EXCEPT !.rows = @ \ {x}]
  BY DEF ReconcileUnhashed
<1>2. UNCHANGED <<lock, req, onChain, lost, phase, restarts, poll>> /\ rec.pc = "rows"
  BY DEF ReconcileUnhashed, sendVars, serverVars
<1>3. x \in Listed
  BY <1>1, ListedFacts
<1>4. x.row \in Rows
  BY <1>3 DEF Listed
<1>5. TablesTypeOK' /\ Quiet
  BY <1>1, <1>4, QuietUpdate DEF Inv, TypeOK, Closed, Verdicts
<1>6. Polls' /\ poll' \in [Rows -> [Pollers -> Poll]]
  BY <1>2, PollsKept DEF Inv, TypeOK, SendTypeOK
<1>7. ConfirmedIsMined'
  BY <1>2, <1>5, QuietConfirmed DEF Inv
<1>. QED  BY <1>1, <1>2, <1>5, <1>6, <1>7, VisitFacts, SettlesFrame

LEMMA ReconcileCheckKeeps ==
  ASSUME Inv, ReconcileCheck, UNCHANGED serverVars
  PROVE  Inv'
<1>1. PICK x \in rec.rows :
        /\ x.hash # NoHash
        /\ \E s \in CheckOnChain(txState[x.row].chain, onChain[x.hash]) :
              /\ Exec(UpdateTxStatus(x.row, s, x.hash))
              /\ rec' = [rec EXCEPT !.pc = "mark", !.rows = @ \ {x},
                                    !.at = x, !.status = s]
  BY DEF ReconcileCheck
<1>2. PICK s \in CheckOnChain(txState[x.row].chain, onChain[x.hash]) :
        /\ Exec(UpdateTxStatus(x.row, s, x.hash))
        /\ rec' = [rec EXCEPT !.pc = "mark", !.rows = @ \ {x}, !.at = x, !.status = s]
  BY <1>1
<1>3. UNCHANGED <<lock, req, onChain, lost, phase, restarts, poll>> /\ rec.pc = "rows"
  BY DEF ReconcileCheck, sendVars, serverVars
<1>4. x \in Listed
  BY <1>1, ListedFacts
<1>5. x.row \in Rows /\ x.hash \in Hashes
  BY <1>1, <1>4 DEF Listed
<1>6. s \in Verdicts /\ VerdictOf(s, x.hash)
  BY <1>2 DEF CheckOnChain, Verdicts, VerdictOf
<1>7. TablesTypeOK' /\ ConfirmedIsMined'
  BY <1>2, <1>3, <1>5, <1>6, VerdictConfirmed
<1>8. Polls' /\ poll' \in [Rows -> [Pollers -> Poll]]
  BY <1>3, PollsKept DEF Inv, TypeOK, SendTypeOK
<1>. DEFINE y == [rec EXCEPT !.pc = "mark", !.rows = @ \ {x}, !.at = x, !.status = s]
<1>9. rec \in [pc : {"idle", "list", "rows", "mark"}, rows : SUBSET Listed,
               at : Listed, status : {"confirming"} \cup Verdicts, raced : SUBSET Rows]
  BY DEF Inv, TypeOK, RecTypeOK
<1>10. /\ y.at = x /\ y.status = s
       /\ y \in [pc : {"idle", "list", "rows", "mark"}, rows : SUBSET Listed,
                 at : Listed, status : {"confirming"} \cup Verdicts, raced : SUBSET Rows]
  BY <1>4, <1>6, <1>9
<1>11. rec' = y
  BY <1>2
<1>. HIDE DEF y
<1>12. RecTypeOK' /\ Marks'
  BY <1>3, <1>5, <1>6, <1>10, <1>11 DEF RecTypeOK, Marks, VerdictOf
<1>. QED  BY <1>3, <1>7, <1>8, <1>12, SettlesFrame

LEMMA ReconcileMarkKeeps ==
  ASSUME Inv, ReconcileMark, UNCHANGED serverVars
  PROVE  Inv'
<1>1. /\ UNCHANGED <<lock, req, onChain, lost, phase, restarts, poll>>
      /\ rec.pc = "mark"
      /\ Exec(UpdateTransactionStatusByHash(rec.at.hash, rec.status))
      /\ rec' = [rec EXCEPT !.pc = "rows", !.at = NoListed, !.status = "confirming"]
  BY DEF ReconcileMark, sendVars, serverVars
<1>2. rec.at.hash \in Hashes /\ VerdictOf(rec.status, rec.at.hash)
  BY <1>1 DEF Inv, Marks
<1>3. TablesTypeOK' /\ ConfirmedIsMined'
  BY <1>1, <1>2, MarkConfirmed DEF VerdictOf
<1>4. Polls' /\ poll' \in [Rows -> [Pollers -> Poll]]
  BY <1>1, PollsKept DEF Inv, TypeOK, SendTypeOK
<1>. DEFINE y == [rec EXCEPT !.pc = "rows", !.at = NoListed, !.status = "confirming"]
<1>5. rec \in [pc : {"idle", "list", "rows", "mark"}, rows : SUBSET Listed,
               at : Listed, status : {"confirming"} \cup Verdicts, raced : SUBSET Rows]
  BY DEF Inv, TypeOK, RecTypeOK
<1>6. /\ y.pc = "rows"
      /\ y \in [pc : {"idle", "list", "rows", "mark"}, rows : SUBSET Listed,
                at : Listed, status : {"confirming"} \cup Verdicts, raced : SUBSET Rows]
  BY <1>5, ListedFacts
<1>7. rec' = y
  BY <1>1
<1>. HIDE DEF y
<1>8. RecTypeOK' /\ Marks'
  BY <1>6, <1>7 DEF RecTypeOK, Marks
<1>. QED  BY <1>1, <1>3, <1>4, <1>8, SettlesFrame

LEMMA LaunchPollingKeeps ==
  ASSUME Inv, LaunchPolling, UNCHANGED serverVars
  PROVE  Inv'
<1>1. PICK x \in rec.rows : /\ x.hash # NoHash
                            /\ Waits("reconciler", x.row, x.hash)
                            /\ rec' = [rec EXCEPT !.rows = @ \ {x}]
  BY DEF LaunchPolling
<1>2. UNCHANGED <<tableVars, lock, req, onChain, lost, phase, restarts>> /\ rec.pc = "rows"
  BY DEF LaunchPolling, serverVars
<1>3. x \in Listed
  BY <1>1, ListedFacts
<1>4. x.row \in Rows /\ x.hash \in Hashes
  BY <1>1, <1>3 DEF Listed
<1>. DEFINE wait == [NoPoll EXCEPT !.pc = "wait", !.hash = x.hash]
<1>5. wait \in Poll /\ wait.pc = "wait" /\ wait.hash = x.hash
  BY <1>4 DEF Poll, NoPoll
<1>6. poll' = [poll EXCEPT ![x.row]["reconciler"] = wait]
  BY <1>1 DEF Waits
<1>. HIDE DEF wait
<1>7. "reconciler" \in Pollers
  BY DEF Pollers
<1>8. poll' \in [Rows -> [Pollers -> Poll]] /\ Polls'
  BY <1>2, <1>4, <1>5, <1>6, <1>7, PollFrame
<1>9. TablesTypeOK' /\ Quiet
  BY <1>2, NoStatement DEF Inv, TypeOK
<1>10. ConfirmedIsMined'
  BY <1>2, <1>9, QuietConfirmed DEF Inv
<1>. QED  BY <1>1, <1>2, <1>8, <1>9, <1>10, VisitFacts, SettlesFrame

-----------------------------------------------------------------------------
(* The engines *)

LEMMA TransfersKeeps ==
  ASSUME Inv, NEW q \in Requests, Transfers(q), UNCHANGED <<rec, serverVars>>
  PROVE  Inv'
  BY SendTransactionKeeps, ConfirmingKeeps, RecordsKeeps DEF Transfers

LEMMA BTCExecuteKeeps ==
  ASSUME Inv, NEW q \in Requests, BTCExecute(q), UNCHANGED <<rec, serverVars>>
  PROVE  Inv'
<1>1. ASSUME req[q].pc = "begin", CreatesRow(q, First)
      PROVE  Inv'
  <2>1. onChain[<<q, First>>] = "unsent" /\ First \in Wallets
    BY <1>1, SweepAssumption DEF Inv, Fresh, FreshLocals
  <2>. QED  BY <1>1, <2>1, CreatesRowKeeps
<1>2. ASSUME FailsRow(q, {"check", "build", "refused"})
      PROVE  Inv'
  <2>1. {"check", "build", "refused"} \in SUBSET Active
    BY DEF Active, ReqPC
  <2>. QED  BY <1>2, <2>1, FailsRowKeeps
<1>3. ASSUME req[q].pc = "check",
             Exec(UpdateTxStatus(Row(q), "pending", NoHash)), Goto(q, "build"),
             UNCHANGED <<lock, poll, onChain, lost>>
      PROVE  Inv'
  <2>1. req[q].pc \in Active /\ "build" \in ReqPC /\ "pending" \in Open \cup Closed
    BY <1>3 DEF Active, ReqPC, Open
  <2>. QED  BY <1>3, <2>1, StatusKeeps
<1>4. ASSUME Broadcasting(q, "build")
      PROVE  Inv'
  BY <1>4, BroadcastingKeeps
<1>. QED  BY <1>1, <1>2, <1>3, <1>4, LoopKeeps, TransfersKeeps DEF BTCExecute

LEMMA AccountEngineKeeps ==
  ASSUME Inv, NEW q \in Requests,
         \/ GivesUp(q) \/ EntersLoop(q) \/ LeavesLoop(q) \/ SkipsAddress(q)
         \/ TakesAddress(q) \/ FailsRow(q, {"check", "refused"})
         \/ Broadcasting(q, "check") \/ Transfers(q),
         UNCHANGED <<rec, serverVars>>
  PROVE  Inv'
<1>1. ASSUME FailsRow(q, {"check", "refused"})
      PROVE  Inv'
  <2>1. {"check", "refused"} \in SUBSET Active
    BY DEF Active, ReqPC
  <2>. QED  BY <1>1, <2>1, FailsRowKeeps
<1>2. ASSUME Broadcasting(q, "check")
      PROVE  Inv'
  BY <1>2, BroadcastingKeeps
<1>. QED  BY <1>1, <1>2, LoopKeeps, SkipsAddressKeeps, TakesAddressKeeps, TransfersKeeps

LEMMA ExecuteSweepBgKeeps ==
  ASSUME Inv, NEW q \in Requests, ExecuteSweepBg(q), UNCHANGED <<rec, serverVars>>
  PROVE  Inv'
<1>1. CASE BTCExecute(q)
  BY <1>1, BTCExecuteKeeps
<1>2. CASE \/ BSCExecuteNativeSweep(q) \/ BSCSweepNativeAddress(q)
           \/ BSCExecuteTokenSweep(q) \/ BSCChecksTokenAddress(q)
           \/ BSCSweepTokenAddress(q)
  BY <1>2, AccountEngineKeeps
     DEF BSCExecuteNativeSweep, BSCSweepNativeAddress, BSCExecuteTokenSweep,
         BSCChecksTokenAddress, BSCSweepTokenAddress
<1>3. CASE \/ SOLExecuteNativeSweep(q) \/ SOLSweepNativeAddress(q)
           \/ SOLExecuteTokenSweep(q) \/ SOLSweepTokenAddress(q)
  BY <1>3, AccountEngineKeeps
     DEF SOLExecuteNativeSweep, SOLSweepNativeAddress, SOLExecuteTokenSweep,
         SOLSweepTokenAddress
<1>. QED  BY <1>1, <1>2, <1>3 DEF ExecuteSweepBg

-----------------------------------------------------------------------------
(* The process *)

\* Memory is gone, the tables and the chains stay.
LEMMA EndProcessKeeps ==
  ASSUME Inv, EndProcess, phase' \in {"stopped", "crashed"}
  PROVE  Inv'
<1>1. UNCHANGED <<tableVars, onChain, lost, restarts>> /\ rec' = Idle
  BY DEF EndProcess
<1>2. \A q \in Requests : req[q] \in Request
  BY DEF Inv, TypeOK, SendTypeOK
<1>. DEFINE x(q) == [req[q] EXCEPT !.pc = "done", !.todo = {}]
<1>3. \A q \in Requests : /\ x(q) \in Request
                          /\ x(q).pc = "done" /\ x(q).todo = {}
  BY <1>2 DEF Request, ReqPC
<1>4. req' = [q \in Requests |-> IF req[q].pc = "new" THEN req[q] ELSE x(q)]
  BY DEF EndProcess
<1>. HIDE DEF x
<1>5. req' \in [Requests -> Request]
  BY <1>2, <1>3, <1>4
<1>6. poll' = [r \in Rows |-> [p \in Pollers |-> NoPoll]]
      /\ lock' = [c \in Chains |-> NoRequest]
  BY DEF EndProcess
<1>7. TablesTypeOK' /\ Quiet
  BY <1>1, NoStatement DEF Inv, TypeOK
<1>8. RecTypeOK' /\ Marks'
  BY <1>1, IdleFacts
<1>9. TypeOK'
  BY <1>1, <1>5, <1>6, <1>7, <1>8, NoPollFacts DEF Inv, TypeOK, SendTypeOK
<1>10. \A q \in Requests : req'[q].pc \notin Active
  BY <1>3, <1>4 DEF Active
<1>11. Locked'
  BY <1>10 DEF Locked
<1>12. Fresh'
  <2>. SUFFICES ASSUME NEW q \in Requests PROVE FreshLocals(q, req[q])'
    BY DEF Fresh
  <2>1. req'[q] = IF req[q].pc = "new" THEN req[q] ELSE x(q)
    BY <1>4
  <2>2. CASE req[q].pc = "new"
    BY <1>1, <2>1, <2>2 DEF Inv, Fresh, FreshLocals
  <2>3. CASE req[q].pc # "new"
    BY <1>3, <2>1, <2>3 DEF FreshLocals
  <2>. QED  BY <2>2, <2>3
<1>13. Polls'
  BY <1>6, NoPollFacts DEF Polls
<1>14. ConfirmedIsMined'
  BY <1>1, <1>7, QuietConfirmed DEF Inv
<1>. QED  BY <1>8, <1>9, <1>11, <1>12, <1>13, <1>14 DEF Inv

LEMMA PhaseKeeps ==
  ASSUME Inv, UNCHANGED <<tableVars, sendVars>>, RecTypeOK', Marks',
         phase' \in {"serving", "stopping"}, restarts' \in Nat
  PROVE  Inv'
<1>1. UNCHANGED <<lock, req, poll, onChain, lost>>
  BY DEF sendVars
<1>2. TablesTypeOK' /\ Quiet
  BY NoStatement DEF Inv, TypeOK
<1>3. TypeOK'
  BY <1>1, <1>2 DEF Inv, TypeOK, SendTypeOK
<1>4. Locked' /\ Fresh'
  BY <1>1 DEF Inv, Locked, Fresh, FreshLocals
<1>5. Polls'
  BY <1>1, PollsKept DEF Inv
<1>6. ConfirmedIsMined'
  BY <1>1, <1>2, QuietConfirmed DEF Inv
<1>. QED  BY <1>3, <1>4, <1>5, <1>6 DEF Inv

LEMMA ShutdownKeeps ==
  ASSUME Inv, Shutdown
  PROVE  Inv'
<1>1. restarts \in Nat
  BY DEF Inv, TypeOK
<1>2. UNCHANGED <<rec, onChain>>
  BY DEF Shutdown, sendVars
<1>. QED  BY <1>1, <1>2, RecKept, PhaseKeeps DEF Shutdown

LEMMA RestartKeeps ==
  ASSUME Inv, Restart
  PROVE  Inv'
<1>1. restarts' \in Nat
  BY DEF Inv, TypeOK, Restart
<1>. DEFINE y == [rec EXCEPT !.pc = "list"]
<1>2. rec \in [pc : {"idle", "list", "rows", "mark"}, rows : SUBSET Listed,
               at : Listed, status : {"confirming"} \cup Verdicts, raced : SUBSET Rows]
  BY DEF Inv, TypeOK, RecTypeOK
<1>3. /\ y.pc = "list"
      /\ y \in [pc : {"idle", "list", "rows", "mark"}, rows : SUBSET Listed,
                at : Listed, status : {"confirming"} \cup Verdicts, raced : SUBSET Rows]
  BY <1>2
<1>4. rec' = y
  BY DEF Restart
<1>. HIDE DEF y
<1>5. RecTypeOK' /\ Marks'
  BY <1>3, <1>4 DEF RecTypeOK, Marks
<1>. QED  BY <1>1, <1>5, PhaseKeeps DEF Restart

-----------------------------------------------------------------------------
(* The invariant *)

LEMMA InitInv == Init => Inv
<1>. SUFFICES ASSUME Init PROVE Inv
  OBVIOUS
<1>1. TablesTypeOK
  <2>1. [status |-> "absent", chain |-> "BTC", token |-> "NATIVE", hash |-> NoHash]
            \in TxStateRow
    BY DEF TxStateRow, Chains, Tokens
  <2>. QED  BY <2>1 DEF Init, TablesInit, TablesTypeOK
<1>2. \A q \in Requests : req[q].pc = "new" /\ req[q].todo = {} /\ req[q] \in Request
  <2>. DEFINE x == [pc |-> "new", resume |-> FALSE, chain |-> "BTC", token |-> "NATIVE",
                    todo |-> {}, from |-> First, hash |-> NoHash]
  <2>1. x \in Request /\ x.pc = "new" /\ x.todo = {}
    BY SweepAssumption DEF Request, ReqPC, Chains, Tokens
  <2>2. \A q \in Requests : req[q] = x
    BY DEF Init, SendInit
  <2>. HIDE DEF x
  <2>. QED  BY <2>1, <2>2
<1>4. SendTypeOK
  BY <1>2, NoPollFacts DEF Init, SendInit, SendTypeOK, Fate
<1>5. RecTypeOK
  <2>1. <<CHOOSE q \in Requests : TRUE, First>> \in Rows
    <3>1. (CHOOSE q \in Requests : TRUE) \in Requests
      BY TxStateAssumption
    <3>. QED  BY <3>1, SweepAssumption DEF Rows
  <2>2. NoListed \in Listed
    BY <2>1 DEF NoListed, Listed
  <2>. QED  BY <2>2 DEF Init, RecInit, RecTypeOK
<1>6. TypeOK
  BY <1>1, <1>4, <1>5 DEF Init, TypeOK
<1>7. Locked /\ Fresh
  BY <1>2 DEF Locked, Active, Fresh, FreshLocals, Init, SendInit, Hashes, Rows
<1>8. Polls /\ Marks
  BY NoPollFacts DEF Init, SendInit, RecInit, Polls, Marks
<1>9. ConfirmedIsMined
  BY DEF Init, TablesInit, ConfirmedIsMined
<1>. QED  BY <1>6, <1>7, <1>8, <1>9 DEF Inv

LEMMA NextInv == Inv /\ [Next]_vars => Inv'
<1>. SUFFICES ASSUME Inv, [Next]_vars PROVE Inv'
  OBVIOUS
<1>1. ASSUME NEW q \in Requests, Accepts(q)
      PROVE  Inv'
  BY <1>1, ExecuteSendKeeps, ResumeReadKeeps DEF Accepts
<1>2. ASSUME NEW q \in Requests, RunsSweep(q)
      PROVE  Inv'
  BY <1>2, ResumeLockKeeps, ExecuteSweepBgKeeps, UnlockKeeps DEF RunsSweep
<1>3. ASSUME NEW r \in Rows, Dismisses(r)
      PROVE  Inv'
  BY <1>3, DismissKeeps DEF Dismisses
<1>4. ASSUME NEW h \in Rows, Mines(h)
      PROVE  Inv'
  BY <1>4, MineKeeps DEF Mines
<1>5. ASSUME NEW r \in Rows, NEW p \in Pollers, Confirms(r, p)
      PROVE  Inv'
  BY <1>5, PollEndsKeeps, PollMarksKeeps DEF Confirms
<1>6. CASE Reconciles
  BY <1>6, ReconcileListKeeps, ReconcileMarkKeeps, ReconcileUnhashedKeeps,
     ReconcileCheckKeeps, LaunchPollingKeeps, ReconcileStopsKeeps DEF Reconciles
<1>7. CASE Shutdown
  BY <1>7, ShutdownKeeps
<1>8. CASE ShutdownReturns \/ Crash
  BY <1>8, EndProcessKeeps DEF ShutdownReturns, Crash
<1>9. CASE Restart
  BY <1>9, RestartKeeps
<1>10. CASE UNCHANGED vars
  <2>1. UNCHANGED <<tableVars, sendVars, rec, phase, restarts>>
    BY <1>10 DEF vars, serverVars
  <2>2. UNCHANGED <<lock, req, poll, onChain, lost>>
    BY <2>1 DEF sendVars
  <2>3. TablesTypeOK' /\ Quiet
    BY <2>1, NoStatement DEF Inv, TypeOK
  <2>4. Polls' /\ poll' \in [Rows -> [Pollers -> Poll]]
    BY <2>2, PollsKept DEF Inv, TypeOK, SendTypeOK
  <2>5. ConfirmedIsMined'
    BY <2>2, <2>3, QuietConfirmed DEF Inv
  <2>6. RecTypeOK' /\ Marks'
    BY <2>1, <2>2, RecKept
  <2>. QED  BY <2>1, <2>2, <2>3, <2>4, <2>5, <2>6, SettlesFrame
<1>. QED  BY <1>1, <1>2, <1>3, <1>4, <1>5, <1>6, <1>7, <1>8, <1>9, <1>10 DEF Next

\* The invariant of every run of the server: what a sweep, a confirmation
\* goroutine and the reconciler may assume when they write.
THEOREM SendInvariant == Spec => []Inv
<1>. QED  BY InitInv, NextInv, PTL DEF Spec

\* The tables, the locks, the goroutines and the reconciler keep their types.
THEOREM SendTypesCorrect == Spec => []TypeOK
<1>1. Inv => TypeOK
  BY DEF Inv
<1>. QED  BY <1>1, SendInvariant, PTL

\* Two sweeps of a chain never run at once, whatever sends and resumes came
\* in and however often the process ended.
THEOREM SweepsAreExclusive == Spec => []OneSweepPerChain
<1>1. Inv => OneSweepPerChain
  BY DEF Inv, Locked, OneSweepPerChain
<1>. QED  BY <1>1, SendInvariant, PTL

\* A transfer shown as confirmed, in either table, was mined, through every
\* race of goroutines, failed statement and restart.
THEOREM ConfirmedTransfersAreMined == Spec => []ConfirmedIsMined
<1>1. Inv => ConfirmedIsMined
  BY DEF Inv
<1>. QED  BY <1>1, SendInvariant, PTL

-----------------------------------------------------------------------------
(* The tale of a row: who has it, with which hash, the statuses it may have *)
(* then, and what the history may say of its transfer.  All of it while no  *)
(* statement has failed.                                                    *)

\* The steps in which a sweep has its row in hand.
Holding == {"check", "build", "send", "refused", "sent", "record"}

\* What the sweep, and what the reconciler, is doing with the row.
InHand(r) == req[r[1]].from = r[2] /\ req[r[1]].pc \in Holding
Hand(r) == IF InHand(r) THEN req[r[1]].pc ELSE "none"
Copies(r) == {x \in rec.rows : x.row = r}
Marking(r) == rec.pc = "mark" /\ rec.at.row = r
Reconciled(r) == Copies(r) # {} \/ Marking(r) \/ poll[r]["reconciler"].pc # "idle"
Ended == restarts > 0 \/ ~Running

\* What the process and the requests of it have in memory.
Memory ==
    /\ ~Running => /\ rec.pc = "idle"
                   /\ \A q \in Requests : req[q].pc \in {"new", "done"}
                   /\ \A r \in Rows, p \in Pollers : poll[r][p].pc = "idle"
    /\ rec.pc \in {"idle", "list"} => rec.rows = {}
    /\ rec.pc = "list" => \A r \in Rows : poll[r]["reconciler"].pc = "idle"

\* Rows are created once.
Untouched ==
    \A q \in Requests, w \in Wallets :
        req[q].pc \in {"new", "retry", "begin"} \/ w \in req[q].todo =>
            txState[<<q, w>>].status = "absent"

\* The history has only transfers of a row.
Known == \A h \in Hashes : transactions[h] # {} => \E r \in Rows : txState[r].hash = h

\* Each goroutine has the hash of the row, and the reconciler has it once.
Tracked(r) ==
    /\ txState[r].status = "absent" => txState[r].hash = NoHash /\ ~InUse(r) /\ ~Reconciled(r)
    /\ InHand(r) => poll[r]["sweep"].pc = "idle"
    /\ \A x, y \in Copies(r) : x = y
    /\ Copies(r) # {} => ~Marking(r)
    /\ Copies(r) # {} \/ Marking(r) => poll[r]["reconciler"].pc = "idle"
    /\ InHand(r) => txState[r].hash = IF req[r[1]].pc = "record" THEN req[r[1]].hash ELSE NoHash
    /\ \A p \in Pollers : poll[r][p].pc # "idle" => poll[r][p].hash = txState[r].hash
    /\ \A x \in Copies(r) : x.hash # NoHash => x.hash = txState[r].hash
    /\ Marking(r) => rec.at.hash = txState[r].hash

\* The statuses the row may have by who has it.
Staged(r) ==
    LET may(statuses) == txState[r].status \in statuses \cup {"dismissed"} IN
    /\ ~ (InUse(r) /\ Reconciled(r))
    /\ txState[r].hash = NoHash => may({"absent", "pending", "broadcasting", "failed"})
    /\ txState[r].hash # NoHash => may({"confirming"} \cup Verdicts)
    /\ Hand(r) \in {"check", "build"} => may({"pending"})
    /\ Hand(r) \in {"send", "refused", "sent"} => may({"broadcasting"})
    /\ Hand(r) = "record" \/ poll[r]["sweep"].pc = "wait" => may({"confirming"})
    /\ \A p \in Pollers : poll[r][p].pc = "mark" => may({poll[r][p].status})
    /\ Marking(r) => may({rec.status})
    /\ poll[r]["reconciler"].pc = "wait" => may({"confirming", "uncertain"})
    /\ \A x \in Copies(r) : IF x.hash = NoHash
                            THEN txState[r].hash = NoHash /\ may({"pending", "broadcasting"})
                            ELSE may({"confirming", "uncertain"})

\* What the history may say of its transfer.
Told(r) ==
    LET status == txState[r].status
        history == transactions[txState[r].hash]
    IN  txState[r].hash # NoHash /\ ~Shares(r) =>
        /\ status \in Open \cup {"uncertain"} \/ InUse(r) \/ Reconciled(r) =>
              history \subseteq {"pending", "uncertain"}
        /\ status \in {"confirmed", "failed"} /\ Settled(r) =>
              history = {status} \/ (Ended /\ history \subseteq {"pending", "uncertain"})
        /\ history = {} => Ended \/ Hand(r) = "record"

\* A row that was listed while a sweep had it has two owners, and may tell
\* anything.
Calm(r) == r \notin rec.raced => Staged(r) /\ Told(r)

\* Open rows: who will settle them.
Watched(r) ==
    phase = "serving" /\ txState[r].status \in Open =>
        \/ InHand(r) \/ poll[r]["sweep"].pc = "wait" \/ poll[r]["reconciler"].pc = "wait"
        \/ rec.pc = "list" \/ Copies(r) # {}

\* What the steps keep while no statement fails.
Tale ==
    /\ Memory /\ Untouched /\ Known
    /\ \A r \in Rows : Tracked(r) /\ Calm(r) /\ Watched(r)

\* What a step leaves of a row that it does not touch ...
Same(s) ==
    /\ txState'[s] = txState[s] /\ poll'[s] = poll[s]
    /\ InHand(s)' <=> InHand(s)
    /\ InHand(s) => req'[s[1]].pc = req[s[1]].pc /\ req'[s[1]].hash = req[s[1]].hash
    /\ Copies(s)' = Copies(s)
    /\ Marking(s)' <=> Marking(s)
    /\ Marking(s) => rec'.at = rec.at /\ rec'.status = rec.status

\* ... and of all rows: hashes, and what is past.
Onward ==
    /\ \A s \in Rows : txState[s].hash # NoHash => txState'[s].hash = txState[s].hash
    /\ rec.raced \subseteq rec'.raced
    /\ Ended => Ended'

\* The history is written for a transfer of the row r, if at all.
Tells(r) == \A h \in Hashes : transactions'[h] = transactions[h] \/ txState'[r].hash = h

\* What is told of a row that the step does not touch stays true: the history
\* of its transfer is written by the row r only if the two share the hash.
LEMMA OtherRow ==
  ASSUME Inv, NEW s \in Rows, Tracked(s), Calm(s), Same(s), Onward,
         NEW r \in Rows, Tells(r), r # s \/ UNCHANGED transactions
  PROVE  Tracked(s)' /\ Calm(s)'
<1>1. InUse(s)' <=> InUse(s)
  BY DEF Same, InUse, InHand, Holding
<1>2. Reconciled(s)' <=> Reconciled(s)
  BY DEF Same, Reconciled
<1>3. Tracked(s)'
  BY <1>1, <1>2 DEF Same, Tracked
<1>4. Staged(s) => Staged(s)'
  BY <1>1, <1>2 DEF Same, Staged, Hand
<1>5. ASSUME Told(s) PROVE Told(s)'
  <2>. SUFFICES ASSUME txState'[s].hash # NoHash, ~ Shares(s)'
                PROVE  Told(s)'
    BY DEF Told
  <2>1. txState[s].hash \in Hashes
    <3>1. txState[s] \in TxStateRow
      BY DEF Inv, TypeOK, TablesTypeOK
    <3>. QED  BY <3>1 DEF Same, TxStateRow
  <2>2. ~ Shares(s)
    BY DEF Shares, Onward, Same
  <2>3. transactions'[txState[s].hash] = transactions[txState[s].hash]
    BY <2>1 DEF Shares, Tells, Same
  <2>4. Settled(s)' <=> Settled(s)
    BY DEF Settled, Same, Marking
  <2>. QED  BY <1>1, <1>2, <1>5, <2>2, <2>3, <2>4 DEF Told, Same, Onward, Hand
<1>. QED  BY <1>3, <1>4, <1>5 DEF Calm, Onward

\* The phases and the list of the reconciler do not go back within a process.
SameProcess ==
    /\ phase' = "serving" => phase = "serving"
    /\ rec.pc = "list" => rec'.pc = "list"

\* A row nobody touched is still watched by whoever watched it.
LEMMA StillWatched ==
  ASSUME NEW s \in Rows, Watched(s), Same(s), SameProcess
  PROVE  Watched(s)'
  BY DEF Watched, Same, SameProcess

\* A step that touches the row r at most.
LEMMA OneRow ==
  ASSUME Inv, Tale, NEW r \in Rows, \A s \in Rows \ {r} : Same(s), Onward, SameProcess,
         Tells(r), Memory', Untouched', Tracked(r)', Calm(r)', Watched(r)'
  PROVE  Tale'
<1>1. ASSUME NEW s \in Rows
      PROVE  Tracked(s)' /\ Calm(s)' /\ Watched(s)'
  <2>1. CASE s = r
    BY <2>1
  <2>2. CASE s # r
    BY <2>2, OtherRow, StillWatched DEF Tale
  <2>. QED  BY <2>1, <2>2
<1>2. Known'
  <2>. SUFFICES ASSUME NEW h \in Hashes, transactions'[h] # {}
                PROVE  \E s \in Rows : txState'[s].hash = h
    BY DEF Known
  <2>1. CASE txState'[r].hash = h
    BY <2>1
  <2>2. CASE transactions'[h] = transactions[h]
    <3>1. PICK s \in Rows : txState[s].hash = h
      BY <2>2 DEF Tale, Known
    <3>2. h # NoHash
      BY TxStateAssumption DEF Hashes, Rows
    <3>. QED  BY <3>1, <3>2 DEF Onward
  <2>. QED  BY <2>1, <2>2 DEF Tells
<1>. QED  BY <1>1, <1>2 DEF Tale

\* A step that touches no row.
LEMMA NoRow ==
  ASSUME Inv, Tale, \A s \in Rows : Same(s), Onward, SameProcess, UNCHANGED transactions,
         Memory', Untouched'
  PROVE  Tale'
<1>1. ASSUME NEW s \in Rows
      PROVE  Tracked(s)' /\ Calm(s)' /\ Watched(s)' /\ (txState'[s].hash = txState[s].hash)
  <2>1. Tells(s)
    BY DEF Tells
  <2>. QED  BY <2>1, OtherRow, StillWatched DEF Tale, Same
<1>2. Known'
  BY <1>1 DEF Tale, Known
<1>. QED  BY <1>1, <1>2 DEF Tale

-----------------------------------------------------------------------------
(* The steps of a request, with its new locals x.                           *)

\* Away from the rows: no row is in hand before or after.
LEMMA BetweenRows ==
  ASSUME Inv, Tale, Running, NEW q \in Requests, NEW x \in Request,
         req' = [req EXCEPT ![q] = x], UNCHANGED <<tableVars, poll, rec, phase, restarts>>,
         req[q].pc \notin Holding, x.pc \notin Holding,
         x.pc \in {"new", "retry", "begin"} => req[q].pc \in {"new", "retry", "begin"},
         \A w \in x.todo : w \in req[q].todo \/ req[q].pc \in {"new", "retry", "begin"}
  PROVE  Tale'
<1>1. req'[q] = x /\ \A p \in Requests \ {q} : req'[p] = req[p]
  BY DEF Inv, TypeOK, SendTypeOK
<1>2. UNCHANGED <<txState, transactions, faults>> /\ UNCHANGED <<poll, rec, phase, restarts>>
  BY DEF tableVars
<1>3. ASSUME NEW s \in Rows
      PROVE  Same(s)
  <2>1. s[1] \in Requests
    BY DEF Rows
  <2>. QED  BY <1>1, <1>2, <2>1 DEF Same, InHand, Copies, Marking
<1>4. Onward /\ SameProcess
  BY <1>2 DEF Onward, SameProcess, Ended, Running
<1>5. Memory'
  BY <1>2 DEF Tale, Memory, Running
<1>6. Untouched'
  <2>1. \A w \in x.todo : w \in Wallets
    BY DEF Request
  <2>. QED  BY <1>1, <1>2, <2>1 DEF Tale, Untouched
<1>. QED  BY <1>2, <1>3, <1>4, <1>5, <1>6, NoRow

\* With the row in hand.
LEMMA WithRow ==
  ASSUME Inv, Tale, Running, NEW q \in Requests, NEW x \in Request,
         req' = [req EXCEPT ![q] = x], x.from = req[q].from, x.todo = req[q].todo,
         req[q].pc \in Holding, x.pc \notin {"new", "retry", "begin"},
         NEW r \in Rows, r = <<q, req[q].from>>,
         UNCHANGED <<rec, phase, restarts>>,
         \A s \in Rows \ {r} : txState'[s] = txState[s] /\ poll'[s] = poll[s],
         poll'[r]["reconciler"] = poll[r]["reconciler"],
         txState[r].hash # NoHash => txState'[r].hash = txState[r].hash, Tells(r),
         Tracked(r)', Calm(r)', Watched(r)'
  PROVE  Tale'
<1>1. req'[q] = x /\ \A p \in Requests \ {q} : req'[p] = req[p]
  BY DEF Inv, TypeOK, SendTypeOK
<1>2. ASSUME NEW s \in Rows \ {r}
      PROVE  Same(s)
  <2>1. s[1] \in Requests /\ s = <<s[1], s[2]>>
    BY DEF Rows
  <2>. QED  BY <1>1, <2>1 DEF Same, InHand, Copies, Marking
<1>3. Onward /\ SameProcess
  BY DEF Onward, SameProcess, Ended, Running
<1>4. Memory'
  BY DEF Tale, Memory, Running
<1>5. txState[r].status # "absent"
  BY DEF Tale, Tracked, InUse, InHand, Holding
<1>6. Untouched'
  <2>. SUFFICES ASSUME NEW p \in Requests, NEW w \in Wallets,
                       req'[p].pc \in {"new", "retry", "begin"} \/ w \in req'[p].todo
                PROVE  txState'[<<p, w>>].status = "absent"
    BY DEF Untouched
  <2>1. txState[<<p, w>>].status = "absent"
    BY <1>1 DEF Tale, Untouched
  <2>2. <<p, w>> \in Rows
    BY DEF Rows
  <2>. QED  BY <1>5, <2>1, <2>2
<1>. QED  BY <1>2, <1>3, <1>4, <1>6, OneRow

\* A status written without a fault, for a row that is there.
LEMMA WriteFacts ==
  ASSUME Inv, faults' = 0, NEW r \in Rows, txState[r].status # "absent",
         NEW status \in Open \cup Closed, NEW h \in Hashes \cup {NoHash},
         Exec(UpdateTxStatus(r, status, h))
  PROVE  /\ transactions' = transactions
         /\ \A s \in Rows : s # r => txState'[s] = txState[s]
         /\ txState'[r].status = status
         /\ txState'[r].hash = IF h = NoHash THEN txState[r].hash ELSE h
<1>1. UpdateTxStatus(r, status, h)
  BY DEF Exec, DBFault, Inv, TypeOK, TablesTypeOK
<1>2. txState \in [Rows -> TxStateRow]
  BY DEF Inv, TypeOK, TablesTypeOK
<1>. DEFINE row == [txState[r] EXCEPT !.status = status,
                                      !.hash = IF h = NoHash THEN @ ELSE h]
<1>3. row.status = status /\ row.hash = IF h = NoHash THEN txState[r].hash ELSE h
  BY <1>2 DEF TxStateRow
<1>4. txState' = [txState EXCEPT ![r] = row] /\ transactions' = transactions
  BY <1>1 DEF UpdateTxStatus
<1>. HIDE DEF row
<1>. QED  BY <1>2, <1>3, <1>4

\* The row in hand is there.
LEMMA InHandFacts ==
  ASSUME Inv, Tale, NEW q \in Requests, req[q].pc \in Holding
  PROVE  /\ Row(q) \in Rows /\ Row(q) = <<q, req[q].from>> /\ InHand(Row(q)) /\ InUse(Row(q))
         /\ txState[Row(q)].status # "absent"
         /\ poll[Row(q)]["sweep"].pc = "idle"
         /\ Hand(Row(q)) = req[q].pc
<1>1. Row(q) \in Rows /\ Row(q) = <<q, req[q].from>>
  BY RowIsARow DEF Row
<1>2. InHand(Row(q)) /\ InUse(Row(q)) /\ Hand(Row(q)) = req[q].pc
  BY <1>1 DEF InHand, InUse, Holding, Hand
<1>. QED  BY <1>1, <1>2 DEF Tale, Tracked

\* The locals after a jump: the pc, and the rest as it was.
LEMMA GotoFacts ==
  ASSUME Inv, NEW q \in Requests, NEW pc \in ReqPC, Goto(q, pc)
  PROVE  \E x \in Request : /\ req' = [req EXCEPT ![q] = x] /\ req'[q] = x
                            /\ x.pc = pc /\ x.from = req[q].from /\ x.todo = req[q].todo
                            /\ x.hash = req[q].hash
<1>. DEFINE x == [req[q] EXCEPT !.pc = pc]
<1>1. req[q] \in Request /\ req \in [Requests -> Request]
  BY DEF Inv, TypeOK, SendTypeOK
<1>2. x \in Request
  BY <1>1 DEF Request
<1>3. x.pc = pc /\ x.from = req[q].from /\ x.todo = req[q].todo /\ x.hash = req[q].hash
  BY <1>1 DEF Request
<1>4. req' = [req EXCEPT ![q] = x]
  BY DEF Goto
<1>. HIDE DEF x
<1>5. req'[q] = x
  BY <1>1, <1>4
<1>. QED  BY <1>2, <1>3, <1>4, <1>5

\* A status written by the sweep before it has a hash for the row.
LEMMA StatusTells ==
  ASSUME Inv, Tale, Running, faults' = 0, NEW q \in Requests,
         req[q].pc \in Holding \ {"sent", "record"}, NEW pc \in ReqPC, Goto(q, pc),
         NEW status \in {"pending", "broadcasting", "failed"},
         Exec(UpdateTxStatus(Row(q), status, NoHash)),
         UNCHANGED <<lock, poll, onChain, lost, rec, phase, restarts>>,
         \/ status = "pending" /\ pc = "build"
         \/ status = "broadcasting" /\ pc = "send"
         \/ status = "failed" /\ pc \in {"unlock", "next"}
  PROVE  Tale'
<1>1. PICK r \in Rows :
        /\ r = Row(q) /\ r = <<q, req[q].from>> /\ InHand(r) /\ InUse(r)
        /\ txState[r].status # "absent" /\ poll[r]["sweep"].pc = "idle" /\ Hand(r) = req[q].pc
  BY InHandFacts
<1>2. PICK x \in Request : /\ req' = [req EXCEPT ![q] = x] /\ req'[q] = x
                           /\ x.pc = pc /\ x.from = req[q].from /\ x.todo = req[q].todo
  BY GotoFacts
<1>3. /\ transactions' = transactions
      /\ \A s \in Rows : s # r => txState'[s] = txState[s]
      /\ txState'[r].status = status /\ txState'[r].hash = txState[r].hash
  BY <1>1, WriteFacts DEF Open, Closed, Verdicts
<1>4. txState[r].hash = NoHash
  BY <1>1 DEF Tale, Tracked
<1>5. InHand(r)' <=> pc # "unlock" /\ pc # "next"
  BY <1>1, <1>2 DEF InHand, Holding
<1>6. InUse(r)' => InUse(r)
  BY <1>1
<1>7. (Reconciled(r)' <=> Reconciled(r)) /\ Copies(r)' = Copies(r) /\ (Marking(r)' <=> Marking(r))
  BY DEF Reconciled, Copies, Marking
<1>8. Tracked(r) /\ Calm(r)
  BY <1>1 DEF Tale
<1>9. req'[r[1]].pc = pc /\ Hand(r)' = IF pc \in {"unlock", "next"} THEN "none" ELSE pc
  BY <1>1, <1>2, <1>5 DEF Hand
<1>10. Tracked(r)'
  BY <1>1, <1>3, <1>4, <1>5, <1>7, <1>8, <1>9 DEF Tracked
<1>11. Calm(r)'
  <2>. SUFFICES ASSUME r \notin rec.raced
                PROVE  Staged(r)' /\ Told(r)'
    BY DEF Calm
  <2>1. ~ Reconciled(r)
    BY <1>1, <1>8 DEF Calm, Staged
  <2>2. Staged(r)'
    BY <1>1, <1>3, <1>4, <1>7, <1>9, <2>1 DEF Staged, Reconciled, Pollers
  <2>. QED  BY <1>3, <1>4, <2>2 DEF Told
<1>12. Watched(r)'
  BY <1>3, <1>5 DEF Watched, Open
<1>13. Tells(r)
  BY <1>3 DEF Tells
<1>. QED  BY <1>1, <1>2, <1>3, <1>10, <1>11, <1>12, <1>13, WithRow DEF Holding

\* The broadcast touches no table: the row stays broadcasting, in hand.
LEMMA SendTells ==
  ASSUME Inv, Tale, Running, NEW q \in Requests, SendTransaction(q), UNCHANGED <<rec, serverVars>>
  PROVE  Tale'
<1>1. PICK r \in Rows :
        /\ r = Row(q) /\ r = <<q, req[q].from>> /\ InHand(r) /\ InUse(r)
        /\ txState[r].status # "absent" /\ poll[r]["sweep"].pc = "idle" /\ Hand(r) = "send"
  BY InHandFacts DEF SendTransaction, Holding
<1>2. /\ req[q] \in Request /\ req \in [Requests -> Request]
  BY DEF Inv, TypeOK, SendTypeOK
<1>3. UNCHANGED <<txState, transactions, poll, rec, phase, restarts>> /\ req[q].pc = "send"
  BY DEF SendTransaction, serverVars, tableVars
<1>4. PICK pc \in {"sent", "refused"}, h \in Hashes \cup {NoHash} :
        req' = [req EXCEPT ![q].pc = pc, ![q].hash = h]
  <2>1. CASE Accepted(q)
    BY <2>1, RowIsARow DEF Accepted, Signed
  <2>2. CASE Refused(q) \/ AnswerLost(q)
    <3>1. req' = [req EXCEPT ![q].pc = "refused"]
      BY <2>2 DEF Refused, AnswerLost, Goto
    <3>2. req[q].hash \in Hashes \cup {NoHash}
      BY <1>2 DEF Request
    <3>3. req' = [req EXCEPT ![q].pc = "refused", ![q].hash = req[q].hash]
      BY <1>2, <3>1 DEF Request
    <3>. QED  BY <3>2, <3>3
  <2>. QED  BY <2>1, <2>2 DEF SendTransaction
<1>. DEFINE x == [req[q] EXCEPT !.pc = pc, !.hash = h]
<1>5. x \in Request
  BY <1>2 DEF Request, ReqPC
<1>6. x.pc = pc /\ x.from = req[q].from /\ x.todo = req[q].todo
  BY <1>2 DEF Request
<1>7. req' = [req EXCEPT ![q] = x]
  BY <1>4
<1>. HIDE DEF x
<1>8. req'[q] = x
  BY <1>2, <1>7
<1>9. InHand(r)' /\ Hand(r)' = pc /\ req'[r[1]].pc = pc
  BY <1>1, <1>6, <1>8 DEF InHand, Holding, Hand
<1>10. (Reconciled(r)' <=> Reconciled(r)) /\ Copies(r)' = Copies(r)
       /\ (Marking(r)' <=> Marking(r)) /\ (InUse(r)' => InUse(r))
  BY <1>1, <1>3 DEF Reconciled, Copies, Marking
<1>11. Tracked(r) /\ Calm(r) /\ txState[r].hash = NoHash
  BY <1>1, <1>3 DEF Tale, Tracked
<1>12. Tracked(r)'
  BY <1>1, <1>3, <1>9, <1>10, <1>11 DEF Tracked
<1>13. Calm(r)'
  <2>. SUFFICES ASSUME r \notin rec.raced
                PROVE  Staged(r)' /\ Told(r)'
    BY <1>3 DEF Calm
  <2>1. ~ Reconciled(r)
    BY <1>1, <1>11 DEF Calm, Staged
  <2>2. Staged(r)'
    BY <1>1, <1>3, <1>9, <1>10, <1>11, <2>1 DEF Calm, Staged, Reconciled, Pollers
  <2>. QED  BY <1>3, <1>11, <2>2 DEF Told
<1>14. Watched(r)' /\ Tells(r)
  BY <1>3, <1>9 DEF Watched, Tells
<1>. QED  BY <1>1, <1>3, <1>5, <1>6, <1>7, <1>12, <1>13, <1>14, WithRow DEF Holding

\* The row has its hash: no goroutine had one for it, nor had the history.
LEMMA ConfirmingTells ==
  ASSUME Inv, Tale, Running, faults' = 0, NEW q \in Requests, Confirming(q),
         UNCHANGED <<rec, serverVars>>
  PROVE  Tale'
<1>1. PICK r \in Rows :
        /\ r = Row(q) /\ r = <<q, req[q].from>> /\ InHand(r) /\ InUse(r)
        /\ txState[r].status # "absent" /\ poll[r]["sweep"].pc = "idle" /\ Hand(r) = "sent"
  BY InHandFacts DEF Confirming, Holding
<1>2. PICK h \in Hashes : h = req[q].hash /\ h # NoHash
  BY TxStateAssumption DEF Confirming, Inv, Fresh, FreshLocals, Hashes, Rows
<1>3. /\ UNCHANGED <<poll, rec, phase, restarts>> /\ req[q].pc = "sent"
      /\ Exec(UpdateTxStatus(r, "confirming", h)) /\ Goto(q, "record")
  BY <1>1, <1>2 DEF Confirming, serverVars
<1>4. /\ transactions' = transactions
      /\ \A s \in Rows : s # r => txState'[s] = txState[s]
      /\ txState'[r].status = "confirming" /\ txState'[r].hash = h
  BY <1>1, <1>2, <1>3, WriteFacts DEF Open
<1>5. PICK x \in Request : /\ req' = [req EXCEPT ![q] = x] /\ req'[q] = x
                           /\ x.pc = "record" /\ x.from = req[q].from /\ x.todo = req[q].todo
                           /\ x.hash = h
  BY <1>2, <1>3, GotoFacts DEF ReqPC
<1>6. Tracked(r) /\ Calm(r) /\ txState[r].hash = NoHash
  BY <1>1, <1>3 DEF Tale, Tracked
<1>7. InHand(r)' /\ Hand(r)' = "record" /\ req'[r[1]].pc = "record" /\ req'[r[1]].hash = h
  BY <1>1, <1>5 DEF InHand, Holding, Hand
<1>8. \A p \in Pollers : poll[r][p].pc = "idle"
  BY <1>6, TxStateAssumption DEF Tracked, Inv, Polls, Hashes, Rows
<1>9. ~ Marking(r)
  BY <1>6, TxStateAssumption DEF Tracked, Inv, Marks, Marking, Hashes, Rows
<1>10. \A y \in Copies(r) : y.hash = NoHash
  BY <1>6 DEF Tracked
<1>11. Copies(r)' = Copies(r) /\ ~ Marking(r)'
  BY <1>3, <1>9 DEF Copies, Marking
<1>12. Tracked(r)'
  BY <1>2, <1>3, <1>4, <1>6, <1>7, <1>8, <1>10, <1>11 DEF Tracked, Pollers
<1>13. Calm(r)'
  <2>. SUFFICES ASSUME r \notin rec.raced
                PROVE  Staged(r)' /\ Told(r)'
    BY <1>3 DEF Calm
  <2>1. Copies(r) = {}
    BY <1>1, <1>6 DEF Calm, Staged, Reconciled
  <2>2. Staged(r)'
    BY <1>2, <1>3, <1>4, <1>7, <1>8, <1>11, <2>1 DEF Staged, Reconciled, Pollers
  <2>3. ASSUME ~ Shares(r)'
        PROVE  transactions[h] = {}
    BY <1>2, <1>4, <1>6, <2>3 DEF Tale, Known, Shares
  <2>4. Told(r)'
    BY <1>4, <1>7, <2>3 DEF Told
  <2>. QED  BY <2>2, <2>4
<1>14. Watched(r)' /\ Tells(r)
  BY <1>4, <1>7 DEF Watched, Tells
<1>. QED  BY <1>1, <1>3, <1>4, <1>5, <1>6, <1>12, <1>13, <1>14, WithRow DEF Holding

\* The history has its first row, and the transfer its goroutine.
LEMMA RecordsTells ==
  ASSUME Inv, Tale, Running, faults' = 0, NEW q \in Requests, Records(q),
         UNCHANGED <<rec, serverVars>>
  PROVE  Tale'
<1>1. PICK r \in Rows :
        /\ r = Row(q) /\ r = <<q, req[q].from>> /\ InHand(r) /\ InUse(r)
        /\ txState[r].status # "absent" /\ poll[r]["sweep"].pc = "idle" /\ Hand(r) = "record"
  BY InHandFacts DEF Records, Holding
<1>2. PICK h \in Hashes : h = req[q].hash /\ h # NoHash
  BY TxStateAssumption DEF Records, Inv, Fresh, FreshLocals, Hashes, Rows
<1>3. PICK pc \in {"unlock", "next"} : pc = AfterRow(q)
  BY DEF AfterRow
<1>4. /\ UNCHANGED <<rec, phase, restarts>> /\ req[q].pc = "record"
      /\ Exec(InsertTransaction(h)) /\ Goto(q, pc) /\ Waits("sweep", r, h)
  BY <1>1, <1>2, <1>3 DEF Records, serverVars
<1>5. /\ transactions \in [Hashes -> SUBSET ({"pending"} \cup Verdicts)]
      /\ poll \in [Rows -> [Pollers -> Poll]]
  BY DEF Inv, TypeOK, SendTypeOK, TablesTypeOK
<1>6. /\ txState' = txState
      /\ transactions' = [transactions EXCEPT ![h] = @ \cup {"pending"}]
  BY <1>4 DEF Exec, DBFault, InsertTransaction, Inv, TypeOK, TablesTypeOK
<1>7. PICK x \in Request : /\ req' = [req EXCEPT ![q] = x] /\ req'[q] = x
                           /\ x.pc = pc /\ x.from = req[q].from /\ x.todo = req[q].todo
  BY <1>4, GotoFacts DEF ReqPC
<1>8. /\ poll'[r]["sweep"].pc = "wait" /\ poll'[r]["sweep"].hash = h
      /\ poll'[r]["reconciler"] = poll[r]["reconciler"]
      /\ \A s \in Rows \ {r} : poll'[s] = poll[s]
  <2>. DEFINE wait == [NoPoll EXCEPT !.pc = "wait", !.hash = h]
  <2>1. wait.pc = "wait" /\ wait.hash = h
    BY DEF NoPoll
  <2>2. poll' = [poll EXCEPT ![r]["sweep"] = wait]
    BY <1>4 DEF Waits
  <2>. HIDE DEF wait
  <2>. QED  BY <1>5, <2>1, <2>2 DEF Pollers
<1>9. Tracked(r) /\ Calm(r) /\ txState[r].hash = h
  BY <1>1, <1>2, <1>4 DEF Tale, Tracked
<1>10. ~ InHand(r)' /\ Hand(r)' = "none"
  BY <1>1, <1>7 DEF InHand, Holding, Hand
<1>11. (Reconciled(r)' <=> Reconciled(r)) /\ Copies(r)' = Copies(r) /\ (Marking(r)' <=> Marking(r))
  BY <1>4, <1>8 DEF Reconciled, Copies, Marking
<1>12. Tracked(r)'
  BY <1>1, <1>4, <1>6, <1>8, <1>9, <1>10, <1>11 DEF Tracked, Pollers
<1>13. Calm(r)'
  <2>. SUFFICES ASSUME r \notin rec.raced
                PROVE  Staged(r)' /\ Told(r)'
    BY <1>4 DEF Calm
  <2>1. ~ Reconciled(r) /\ Staged(r) /\ Told(r)
    BY <1>1, <1>9 DEF Calm, Staged
  <2>2. txState[r].status \in {"confirming", "dismissed"}
    BY <1>1, <2>1 DEF Staged
  <2>3. Staged(r)'
    BY <1>2, <1>4, <1>6, <1>8, <1>9, <1>10, <1>11, <2>1, <2>2
       DEF Staged, Reconciled, Pollers
  <2>4. Told(r)'
    <3>. SUFFICES ASSUME ~ Shares(r)'
                  PROVE  /\ transactions'[h] \subseteq {"pending", "uncertain"}
                         /\ transactions'[h] # {}
      BY <1>6, <1>9, <2>2 DEF Told
    <3>1. ~ Shares(r)
      BY <1>6 DEF Shares
    <3>2. transactions[h] \subseteq {"pending", "uncertain"}
      BY <1>1, <1>2, <1>9, <2>1, <3>1 DEF Told
    <3>. QED  BY <1>5, <1>6, <3>2
  <2>. QED  BY <2>3, <2>4
<1>14. Watched(r)'
  BY <1>8 DEF Watched
<1>15. Tells(r)
  BY <1>5, <1>6, <1>9 DEF Tells
<1>. QED  BY <1>1, <1>4, <1>6, <1>7, <1>8, <1>12, <1>13, <1>14, <1>15, WithRow DEF Holding

\* A row is created: nobody had it, and it was absent.
LEMMA CreatesRowTells ==
  ASSUME Inv, Tale, Running, faults' = 0, NEW q \in Requests, NEW w \in Wallets,
         CreatesRow(q, w), req[q].pc = "begin" \/ (req[q].pc = "next" /\ w \in req[q].todo),
         UNCHANGED <<rec, serverVars>>
  PROVE  Tale'
<1>1. PICK r \in Rows : r = <<q, w>>
  BY DEF Rows
<1>2. /\ req[q] \in Request /\ req \in [Requests -> Request]
      /\ txState \in [Rows -> TxStateRow]
  BY DEF Inv, TypeOK, SendTypeOK, TablesTypeOK
<1>. DEFINE x == [req[q] EXCEPT !.pc = "check", !.from = w, !.todo = @ \ {w}]
            row == [status |-> "pending", chain |-> req[q].chain, token |-> req[q].token,
                    hash |-> NoHash]
<1>3. x.pc = "check" /\ x.from = w /\ x.todo = req[q].todo \ {w}
  BY <1>2 DEF Request
<1>4. req' = [req EXCEPT ![q] = x]
  BY DEF CreatesRow
<1>5. row.status = "pending" /\ row.hash = NoHash
  OBVIOUS
<1>6. UNCHANGED <<transactions, poll, rec, phase, restarts>>
      /\ txState' = [txState EXCEPT ![r] = row]
  BY <1>1 DEF CreatesRow, CreateTxState, Exec, DBFault, serverVars, Inv, TypeOK, TablesTypeOK
<1>. HIDE DEF x, row
<1>7. req'[q] = x /\ \A p \in Requests \ {q} : req'[p] = req[p]
  BY <1>2, <1>4
<1>8. txState'[r] = row /\ \A s \in Rows \ {r} : txState'[s] = txState[s]
  BY <1>2, <1>6
<1>9. txState[r].status = "absent" /\ Tracked(r)
  BY <1>1 DEF Tale, Untouched
<1>10. /\ txState[r].hash = NoHash /\ Copies(r) = {} /\ ~ Marking(r)
       /\ \A p \in Pollers : poll[r][p].pc = "idle"
  BY <1>9 DEF Tracked, InUse, Reconciled, Pollers
<1>11. InHand(r)' /\ Hand(r)' = "check"
  BY <1>1, <1>3, <1>7 DEF InHand, Holding, Hand
<1>12. Copies(r)' = {} /\ ~ Marking(r)'
  BY <1>6, <1>10 DEF Copies, Marking
<1>13. Tracked(r)'
  BY <1>1, <1>3, <1>5, <1>6, <1>7, <1>8, <1>10, <1>11, <1>12 DEF Tracked, Pollers
<1>14. Staged(r)'
  BY <1>5, <1>6, <1>8, <1>10, <1>11, <1>12 DEF Staged, Reconciled, Pollers
<1>15. Calm(r)' /\ Watched(r)' /\ Tells(r)
  BY <1>5, <1>6, <1>8, <1>11, <1>14 DEF Calm, Told, Watched, Tells
<1>16. ASSUME NEW s \in Rows \ {r}
       PROVE  Same(s)
  <2>1. s[1] \in Requests /\ s = <<s[1], s[2]>>
    BY DEF Rows
  <2>. QED  BY <1>1, <1>3, <1>6, <1>7, <1>8, <2>1 DEF Same, InHand, Holding, Copies, Marking
<1>17. Onward /\ SameProcess /\ Memory'
  BY <1>6, <1>8, <1>10 DEF Onward, SameProcess, Ended, Running, Tale, Memory
<1>18. Untouched'
  <2>. SUFFICES ASSUME NEW p \in Requests, NEW v \in Wallets,
                       req'[p].pc \in {"new", "retry", "begin"} \/ v \in req'[p].todo
                PROVE  txState'[<<p, v>>].status = "absent"
    BY DEF Untouched
  <2>1. <<p, v>> \in Rows \ {r}
    BY <1>1, <1>3, <1>7 DEF Rows
  <2>. QED  BY <1>3, <1>7, <1>8, <2>1 DEF Tale, Untouched
<1>. QED  BY <1>13, <1>15, <1>16, <1>17, <1>18, OneRow

\* A send, or a resume that has read its rows, has no row in hand yet.
LEMMA AcceptsTells ==
  ASSUME Inv, Tale, NEW q \in Requests, Accepts(q)
  PROVE  Tale'
<1>1. /\ req[q] \in Request /\ req \in [Requests -> Request]
      /\ \A r \in Rows : txState[r] \in TxStateRow
  BY DEF Inv, TypeOK, SendTypeOK, TablesTypeOK
<1>2. UNCHANGED <<tableVars, poll, rec, phase, restarts>> /\ req[q].pc = "new" /\ Running
  BY DEF Accepts, ExecuteSend, ResumeRead, serverVars, Running
<1>3. PICK pc \in {"begin", "retry"}, resume \in BOOLEAN, c \in Chains, t \in Tokens,
           todo \in SUBSET Wallets :
        req' = [req EXCEPT ![q].pc = pc, ![q].resume = resume, ![q].chain = c,
                           ![q].token = t, ![q].todo = todo]
  <2>1. CASE ExecuteSend(q)
    <3>1. PICK c \in Chains, t \in Tokens, todo \in SUBSET Wallets :
            req' = [req EXCEPT ![q].pc = "begin", ![q].chain = c, ![q].token = t,
                               ![q].todo = todo]
      BY <2>1 DEF ExecuteSend
    <3>2. req' = [req EXCEPT ![q].pc = "begin", ![q].resume = req[q].resume, ![q].chain = c,
                             ![q].token = t, ![q].todo = todo]
      BY <1>1, <3>1 DEF Request
    <3>. QED  BY <1>1, <3>2 DEF Request
  <2>2. CASE ResumeRead(q)
    <3>1. PICK s \in Requests :
            \E meta \in SweepRows(s) :
               req' = [req EXCEPT ![q].pc = "retry", ![q].resume = TRUE,
                            ![q].chain = txState[meta].chain,
                            ![q].token = txState[meta].token,
                            ![q].todo = {r[2] : r \in GetRetryableTxStates(s)}]
      BY <2>2 DEF ResumeRead
    <3>2. PICK meta \in SweepRows(s) :
               req' = [req EXCEPT ![q].pc = "retry", ![q].resume = TRUE,
                            ![q].chain = txState[meta].chain,
                            ![q].token = txState[meta].token,
                            ![q].todo = {r[2] : r \in GetRetryableTxStates(s)}]
      BY <3>1
    <3>3. txState[meta].chain \in Chains /\ txState[meta].token \in Tokens
      BY <1>1 DEF SweepRows, TxStateRow
    <3>4. {r[2] : r \in GetRetryableTxStates(s)} \in SUBSET Wallets
      BY DEF GetRetryableTxStates, Rows
    <3>. QED  BY <3>2, <3>3, <3>4
  <2>. QED  BY <2>1, <2>2 DEF Accepts
<1>. DEFINE x == [req[q] EXCEPT !.pc = pc, !.resume = resume, !.chain = c, !.token = t,
                                !.todo = todo]
<1>4. x \in Request
  BY <1>1 DEF Request, ReqPC
<1>5. x.pc = pc
  BY <1>1 DEF Request
<1>6. req' = [req EXCEPT ![q] = x]
  BY <1>3
<1>. HIDE DEF x
<1>. QED  BY <1>2, <1>4, <1>5, <1>6, BetweenRows DEF Holding

\* Jumps between rows, and out of the sweep.
LEMMA GotoTells ==
  ASSUME Inv, Tale, Running, NEW q \in Requests, NEW pc \in {"next", "unlock", "done"},
         Goto(q, pc), req[q].pc \in {"retry", "begin", "next", "unlock"},
         UNCHANGED <<tableVars, poll, rec, serverVars>>
  PROVE  Tale'
<1>1. PICK x \in Request : /\ req' = [req EXCEPT ![q] = x]
                           /\ x.pc = pc /\ x.todo = req[q].todo
  BY GotoFacts DEF ReqPC
<1>. QED  BY <1>1, BetweenRows DEF Holding, serverVars

\* A resume takes the lock, or is answered 409.
LEMMA ResumeLockTells ==
  ASSUME Inv, Tale, Running, NEW q \in Requests, ResumeLock(q), UNCHANGED <<rec, serverVars>>
  PROVE  Tale'
<1>1. req[q] \in Request
  BY DEF Inv, TypeOK, SendTypeOK
<1>2. CASE Goto(q, "done")
  BY <1>2, GotoTells DEF ResumeLock
<1>3. ASSUME NEW funded \in SUBSET req[q].todo,
             req' = [req EXCEPT ![q].pc = "begin", ![q].todo = funded]
      PROVE  Tale'
  <2>. DEFINE x == [req[q] EXCEPT !.pc = "begin", !.todo = funded]
  <2>1. x \in Request
    BY <1>1 DEF Request, ReqPC
  <2>2. x.pc = "begin" /\ x.todo = funded
    BY <1>1 DEF Request
  <2>3. req' = [req EXCEPT ![q] = x]
    BY <1>3
  <2>. HIDE DEF x
  <2>. QED  BY <2>1, <2>2, <2>3, BetweenRows DEF ResumeLock, Holding, serverVars
<1>. QED  BY <1>2, <1>3 DEF ResumeLock

\* A skipped address never gets a row from this request.
LEMMA SkipsAddressTells ==
  ASSUME Inv, Tale, Running, NEW q \in Requests, SkipsAddress(q), UNCHANGED <<rec, serverVars>>
  PROVE  Tale'
<1>1. req[q] \in Request
  BY DEF Inv, TypeOK, SendTypeOK
<1>2. PICK w \in req[q].todo : req' = [req EXCEPT ![q].todo = @ \ {w}]
  BY DEF SkipsAddress
<1>. DEFINE x == [req[q] EXCEPT !.todo = @ \ {w}]
<1>3. x \in Request
  BY <1>1 DEF Request
<1>4. x.pc = req[q].pc /\ x.todo = req[q].todo \ {w}
  BY <1>1 DEF Request
<1>5. req' = [req EXCEPT ![q] = x]
  BY <1>2
<1>. HIDE DEF x
<1>. QED  BY <1>3, <1>4, <1>5, BetweenRows DEF SkipsAddress, Holding, serverVars

\* The row is failed, and nobody has it any more.
LEMMA FailsRowTells ==
  ASSUME Inv, Tale, Running, faults' = 0, NEW q \in Requests,
         FailsRow(q, {"check", "build", "refused"}) \/ FailsRow(q, {"check", "refused"}),
         UNCHANGED <<rec, serverVars>>
  PROVE  Tale'
<1>1. PICK pc \in {"unlock", "next"} : pc = AfterRow(q)
  BY DEF AfterRow
<1>2. /\ req[q].pc \in Holding \ {"sent", "record"} /\ pc \in ReqPC
      /\ Exec(UpdateTxStatus(Row(q), "failed", NoHash)) /\ Goto(q, pc)
      /\ UNCHANGED <<lock, poll, onChain, lost, rec, phase, restarts>>
  BY <1>1 DEF FailsRow, Holding, ReqPC, serverVars
<1>. QED  BY <1>2, StatusTells

\* The row says broadcasting before its transfer is sent.
LEMMA BroadcastingTells ==
  ASSUME Inv, Tale, Running, faults' = 0, NEW q \in Requests,
         Broadcasting(q, "check") \/ Broadcasting(q, "build"), UNCHANGED <<rec, serverVars>>
  PROVE  Tale'
<1>1. /\ req[q].pc \in Holding \ {"sent", "record"} /\ "send" \in ReqPC
      /\ Exec(UpdateTxStatus(Row(q), "broadcasting", NoHash)) /\ Goto(q, "send")
      /\ UNCHANGED <<lock, poll, onChain, lost, rec, phase, restarts>>
  BY DEF Broadcasting, Holding, ReqPC, serverVars
<1>. QED  BY <1>1, StatusTells

\* The broadcast and the two statements after it.
LEMMA TransfersTells ==
  ASSUME Inv, Tale, Running, faults' = 0, NEW q \in Requests, Transfers(q),
         UNCHANGED <<rec, serverVars>>
  PROVE  Tale'
  BY SendTells, ConfirmingTells, RecordsTells DEF Transfers

\* The steps of the BTC engine.
LEMMA BTCExecuteTells ==
  ASSUME Inv, Tale, Running, faults' = 0, NEW q \in Requests, BTCExecute(q),
         UNCHANGED <<rec, serverVars>>
  PROVE  Tale'
<1>1. CASE req[q].pc = "begin" /\ CreatesRow(q, First)
  BY <1>1, SweepAssumption, CreatesRowTells
<1>2. ASSUME req[q].pc = "check",
             Exec(UpdateTxStatus(Row(q), "pending", NoHash)), Goto(q, "build"),
             UNCHANGED <<lock, poll, onChain, lost>>
      PROVE  Tale'
  BY <1>2, StatusTells DEF Holding, ReqPC, serverVars
<1>3. CASE GivesUp(q)
  BY <1>3, GotoTells DEF GivesUp
<1>. QED  BY <1>1, <1>2, <1>3, FailsRowTells, BroadcastingTells, TransfersTells DEF BTCExecute

\* The steps the BSC and SOL engines have in common.
LEMMA AccountEngineTells ==
  ASSUME Inv, Tale, Running, faults' = 0, NEW q \in Requests,
         \/ GivesUp(q) \/ EntersLoop(q) \/ LeavesLoop(q) \/ SkipsAddress(q)
         \/ TakesAddress(q) \/ FailsRow(q, {"check", "refused"})
         \/ Broadcasting(q, "check") \/ Transfers(q),
         UNCHANGED <<rec, serverVars>>
  PROVE  Tale'
<1>1. CASE GivesUp(q) \/ EntersLoop(q) \/ LeavesLoop(q)
  BY <1>1, GotoTells DEF GivesUp, EntersLoop, LeavesLoop
<1>2. CASE TakesAddress(q)
  <2>1. PICK w \in req[q].todo : CreatesRow(q, w)
    BY <1>2 DEF TakesAddress
  <2>2. req[q] \in Request
    BY DEF Inv, TypeOK, SendTypeOK
  <2>3. w \in Wallets
    BY <2>2 DEF Request
  <2>. QED  BY <1>2, <2>1, <2>3, CreatesRowTells DEF TakesAddress
<1>. QED  BY <1>1, <1>2, SkipsAddressTells, FailsRowTells, BroadcastingTells, TransfersTells

\* Every step of a sweep, whichever engine it is of.
LEMMA RunsSweepTells ==
  ASSUME Inv, Tale, faults' = 0, NEW q \in Requests, RunsSweep(q)
  PROVE  Tale'
<1>1. Running /\ UNCHANGED <<rec, serverVars>>
  BY DEF RunsSweep
<1>2. CASE ResumeLock(q)
  BY <1>1, <1>2, ResumeLockTells
<1>3. CASE Unlock(q)
  BY <1>1, <1>3, GotoTells DEF Unlock
<1>4. CASE BTCExecute(q)
  BY <1>1, <1>4, BTCExecuteTells
<1>5. CASE \/ BSCExecuteNativeSweep(q) \/ BSCSweepNativeAddress(q)
           \/ BSCExecuteTokenSweep(q) \/ BSCChecksTokenAddress(q)
           \/ BSCSweepTokenAddress(q)
  BY <1>1, <1>5, AccountEngineTells
     DEF BSCExecuteNativeSweep, BSCSweepNativeAddress, BSCExecuteTokenSweep,
         BSCChecksTokenAddress, BSCSweepTokenAddress
<1>6. CASE \/ SOLExecuteNativeSweep(q) \/ SOLSweepNativeAddress(q)
           \/ SOLExecuteTokenSweep(q) \/ SOLSweepTokenAddress(q)
  BY <1>1, <1>6, AccountEngineTells
     DEF SOLExecuteNativeSweep, SOLSweepNativeAddress, SOLExecuteTokenSweep,
         SOLSweepTokenAddress
<1>. QED  BY <1>2, <1>3, <1>4, <1>5, <1>6 DEF RunsSweep, ExecuteSweepBg

-----------------------------------------------------------------------------
(* The confirmation goroutines, the user and the reconciler.                *)

\* A step of theirs, for a row that is there.
LEMMA Settling ==
  ASSUME Inv, Tale, Running, UNCHANGED <<req, phase, restarts>>,
         NEW r \in Rows, txState[r].status # "absent",
         \A s \in Rows \ {r} : /\ txState'[s] = txState[s] /\ poll'[s] = poll[s]
                               /\ Copies(s)' = Copies(s) /\ (Marking(s)' <=> Marking(s))
                               /\ Marking(s) => rec'.at = rec.at /\ rec'.status = rec.status,
         txState'[r].hash = txState[r].hash, Tells(r),
         rec' = rec \/ (rec.pc \in {"rows", "mark"} /\ rec'.pc \in {"rows", "mark"}),
         rec'.raced = rec.raced,
         poll'[r]["reconciler"].pc # "idle" =>
             poll[r]["reconciler"].pc # "idle" \/ rec.pc = "rows",
         Tracked(r)', Calm(r)', Watched(r)'
  PROVE  Tale'
<1>1. ASSUME NEW s \in Rows \ {r}
      PROVE  Same(s)
  BY DEF Same, InHand
<1>2. Onward /\ SameProcess
  BY DEF Onward, SameProcess, Ended, Running
<1>3. Memory'
  BY DEF Tale, Memory, Running
<1>4. Untouched'
  <2>. SUFFICES ASSUME NEW p \in Requests, NEW w \in Wallets,
                       req[p].pc \in {"new", "retry", "begin"} \/ w \in req[p].todo
                PROVE  txState'[<<p, w>>].status = "absent"
    BY DEF Untouched
  <2>1. <<p, w>> \in Rows /\ txState[<<p, w>>].status = "absent"
    BY DEF Tale, Untouched, Rows
  <2>. QED  BY <2>1
<1>. QED  BY <1>1, <1>2, <1>3, <1>4, OneRow

\* A dismissed row keeps its hash and those who have it: the tale allows that
\* status beside any other.
LEMMA DismissTells ==
  ASSUME Inv, Tale, NEW r \in Rows, Dismisses(r)
  PROVE  Tale'
<1>1. /\ UNCHANGED <<faults, req, poll, rec, phase, restarts>> /\ Running
      /\ txState[r].status # "absent" /\ UpdateTxStatus(r, "dismissed", NoHash)
  BY DEF Dismisses, DismissTxState, sendVars, serverVars, Running
<1>2. txState \in [Rows -> TxStateRow]
  BY DEF Inv, TypeOK, TablesTypeOK
<1>3. /\ transactions' = transactions
      /\ \A s \in Rows : s # r => txState'[s] = txState[s]
      /\ txState'[r].status = "dismissed" /\ txState'[r].hash = txState[r].hash
  BY <1>1, <1>2 DEF UpdateTxStatus, TxStateRow
<1>4. /\ InHand(r)' <=> InHand(r)
      /\ InUse(r)' <=> InUse(r)
      /\ Reconciled(r)' <=> Reconciled(r)
      /\ Copies(r)' = Copies(r)
      /\ Marking(r)' <=> Marking(r)
  BY <1>1 DEF InHand, InUse, Reconciled, Copies, Marking
<1>5. Tracked(r) /\ Calm(r)
  BY DEF Tale
<1>6. Tracked(r)'
  BY <1>1, <1>3, <1>4, <1>5 DEF Tracked
<1>7. Staged(r) => Staged(r)'
  BY <1>1, <1>3, <1>4 DEF Staged, Hand
<1>8. Shares(r)' <=> Shares(r)
  BY <1>3 DEF Shares
<1>9. Told(r) => Told(r)'
  BY <1>1, <1>3, <1>4, <1>8 DEF Told, Ended, Running, Hand, Open
<1>10. Calm(r)' /\ Watched(r)' /\ Tells(r)
  BY <1>1, <1>3, <1>5, <1>7, <1>9 DEF Calm, Watched, Tells, Open
<1>. QED  BY <1>1, <1>3, <1>6, <1>10, Settling DEF Copies, Marking

\* The verdict of a wait: in tx_state now, on its way to the history if it is
\* one to tell.
LEMMA PollEndsTells ==
  ASSUME Inv, Tale, Running, faults' = 0, NEW r \in Rows, NEW p \in Pollers, PollEnds(r, p),
         UNCHANGED <<rec, serverVars>>
  PROVE  Tale'
<1>. DEFINE h == poll[r][p].hash
            c == req[r[1]].chain
<1>1. UNCHANGED <<req, onChain, rec, phase, restarts>> /\ poll[r][p].pc = "wait"
  BY DEF PollEnds, serverVars
<1>2. h \in Hashes /\ onChain[h] \in Fate /\ h # NoHash
  BY <1>1, TxStateAssumption DEF Inv, Polls, TypeOK, SendTypeOK, Hashes, Rows
<1>3. c \in Chains
  <2>1. r[1] \in Requests
    BY DEF Rows
  <2>2. req[r[1]] \in Request
    BY <2>1 DEF Inv, TypeOK, SendTypeOK
  <2>. QED  BY <2>2 DEF Request
<1>4. PICK s \in IF p = "sweep" THEN SweepVerdict(c, onChain[h])
                                ELSE ReconcilerVerdict(c, onChain[h]) :
        /\ Exec(UpdateTxStatus(r, s, h))
        /\ poll' = [poll EXCEPT ![r][p] =
               IF p = "reconciler" \/ s \in {"confirmed", "failed"}
               THEN [pc |-> "mark", hash |-> h, status |-> s] ELSE NoPoll]
  BY DEF PollEnds
<1>5. s \in Verdicts
  BY <1>2, <1>3, <1>4, VerdictFacts
<1>6. Tracked(r) /\ Calm(r) /\ txState[r].hash = h /\ txState[r].status # "absent"
  BY <1>1 DEF Tale, Tracked, InUse, Reconciled, Pollers
<1>7. /\ transactions' = transactions
      /\ \A t \in Rows : t # r => txState'[t] = txState[t]
      /\ txState'[r].status = s /\ txState'[r].hash = txState[r].hash
  BY <1>2, <1>4, <1>5, <1>6, WriteFacts DEF Closed
<1>8. /\ \A t \in Rows \ {r} : poll'[t] = poll[t]
      /\ \A o \in Pollers \ {p} : poll'[r][o] = poll[r][o]
      /\ \/ poll'[r][p] = [pc |-> "mark", hash |-> h, status |-> s]
         \/ poll'[r][p] = NoPoll /\ p = "sweep" /\ s = "uncertain"
  BY <1>4, <1>5 DEF Inv, TypeOK, SendTypeOK, Verdicts, Pollers
<1>. HIDE DEF c
<1>9. PICK hash \in Hashes : hash = h
  BY <1>2
<1>. HIDE DEF h
<1>10. /\ poll'[r][p].pc = "mark" => poll'[r][p].hash = hash /\ poll'[r][p].status = s
       /\ poll'[r][p].pc = "mark" \/ (poll'[r][p].pc = "idle" /\ s = "uncertain")
  BY <1>8, <1>9, NoPollFacts
<1>11. /\ InHand(r)' <=> InHand(r)
       /\ InUse(r)' => InUse(r)
       /\ Reconciled(r)' => Reconciled(r)
       /\ Copies(r)' = Copies(r)
       /\ Marking(r)' <=> Marking(r)
  BY <1>1, <1>8 DEF InHand, InUse, Reconciled, Copies, Marking, Pollers
<1>12. Tracked(r)'
  BY <1>1, <1>5, <1>6, <1>7, <1>8, <1>9, <1>10, <1>11 DEF Tracked, Pollers, Verdicts
<1>13. Calm(r)'
  <2>. SUFFICES ASSUME r \notin rec.raced
                PROVE  Staged(r)' /\ Told(r)'
    BY <1>1 DEF Calm
  <2>1. Staged(r) /\ Told(r)
    BY <1>6 DEF Calm
  <2>2. /\ ~ InHand(r)
        /\ Copies(r) = {} /\ ~ Marking(r)
        /\ \A o \in Pollers \ {p} : poll[r][o].pc = "idle"
    BY <1>1, <1>6, <2>1 DEF Staged, Tracked, InUse, InHand, Holding, Reconciled, Pollers
  <2>3. Staged(r)'
    BY <1>2, <1>5, <1>6, <1>7, <1>8, <1>9, <1>10, <1>11, <2>1, <2>2
       DEF Staged, Hand, Pollers, Reconciled
  <2>4. Shares(r)' <=> Shares(r)
    BY <1>7 DEF Shares
  <2>5. InUse(r) \/ Reconciled(r)
    BY <1>1 DEF InUse, Reconciled, Pollers
  <2>6. s \in {"confirmed", "failed"} => ~ Settled(r)'
    BY <1>10 DEF Settled
  <2>7. Told(r)'
    BY <1>1, <1>5, <1>7, <1>11, <2>1, <2>4, <2>5, <2>6
       DEF Told, Ended, Running, Hand, Verdicts, Open
  <2>. QED  BY <2>3, <2>7
<1>14. Watched(r)' /\ Tells(r)
  BY <1>5, <1>7 DEF Watched, Tells, Open, Verdicts
<1>15. poll'[r]["reconciler"].pc # "idle" => poll[r]["reconciler"].pc # "idle"
  BY <1>1, <1>8 DEF Pollers
<1>. QED  BY <1>1, <1>6, <1>7, <1>8, <1>12, <1>13, <1>14, <1>15, Settling DEF Copies, Marking

\* A verdict written to the history.
LEMMA TellFacts ==
  ASSUME Inv, faults' = 0, NEW h \in Hashes, NEW status \in Verdicts,
         Exec(UpdateTransactionStatusByHash(h, status))
  PROVE  /\ txState' = txState
         /\ \A k \in Hashes : k # h => transactions'[k] = transactions[k]
         /\ transactions'[h] = IF transactions[h] = {} THEN {} ELSE {status}
<1>1. transactions \in [Hashes -> SUBSET ({"pending"} \cup Verdicts)]
  BY DEF Inv, TypeOK, TablesTypeOK
<1>2. txState' = txState
      /\ transactions' = [transactions EXCEPT ![h] = IF @ = {} THEN {} ELSE {status}]
  BY DEF Exec, DBFault, UpdateTransactionStatusByHash, Inv, TypeOK, TablesTypeOK
<1>. QED  BY <1>1, <1>2

\* The owner of the row tells its verdict and has done with it: what is left
\* to show of the row, when nobody else has it.
LEMMA Verdict ==
  ASSUME Inv, NEW r \in Rows, NEW h \in Hashes, NEW status \in Verdicts,
         txState[r].hash = h, txState' = txState,
         transactions'[h] = IF transactions[h] = {} THEN {} ELSE {status},
         txState[r].status \in {status, "dismissed"},
         Told(r), ~ InHand(r), ~ InHand(r)', ~ InUse(r)', ~ Reconciled(r)', Ended => Ended'
  PROVE  Told(r)'
<1>. SUFFICES ASSUME ~ Shares(r)'
              PROVE  Told(r)'
  BY DEF Told
<1>1. ~ Shares(r) /\ h # NoHash
  BY TxStateAssumption DEF Shares, Hashes, Rows
<1>2. transactions[h] = {} => Ended
  BY <1>1 DEF Told, Hand
<1>3. status \notin Open
  BY DEF Verdicts, Open
<1>. QED  BY <1>1, <1>2, <1>3 DEF Told, Verdicts, Open

\* A confirmation goroutine tells the history its verdict, and ends.
LEMMA PollMarksTells ==
  ASSUME Inv, Tale, Running, faults' = 0, NEW r \in Rows, NEW p \in Pollers, PollMarks(r, p),
         UNCHANGED <<rec, serverVars>>
  PROVE  Tale'
<1>1. PICK h \in Hashes, s \in Verdicts :
        /\ poll[r][p].pc = "mark" /\ h = poll[r][p].hash /\ s = poll[r][p].status
        /\ Exec(UpdateTransactionStatusByHash(h, s))
        /\ poll' = [poll EXCEPT ![r][p] = NoPoll]
  BY DEF PollMarks, Inv, Polls, VerdictOf
<1>2. UNCHANGED <<req, rec, phase, restarts>>
  BY DEF PollMarks, serverVars
<1>3. /\ txState' = txState
      /\ \A k \in Hashes : k # h => transactions'[k] = transactions[k]
      /\ transactions'[h] = IF transactions[h] = {} THEN {} ELSE {s}
  BY <1>1, TellFacts
<1>4. Tracked(r) /\ Calm(r) /\ txState[r].hash = h /\ txState[r].status # "absent"
  BY <1>1 DEF Tale, Tracked, InUse, Reconciled, Pollers
<1>5. /\ \A t \in Rows \ {r} : poll'[t] = poll[t]
      /\ \A o \in Pollers \ {p} : poll'[r][o] = poll[r][o]
      /\ poll'[r][p].pc = "idle"
  BY <1>1, NoPollFacts DEF Inv, TypeOK, SendTypeOK
<1>6. /\ InHand(r)' <=> InHand(r)
      /\ InUse(r)' => InUse(r)
      /\ Reconciled(r)' => Reconciled(r)
      /\ Copies(r)' = Copies(r)
      /\ Marking(r)' <=> Marking(r)
  BY <1>2, <1>5 DEF InHand, InUse, Reconciled, Copies, Marking, Pollers
<1>7. Tracked(r)'
  BY <1>2, <1>3, <1>4, <1>5, <1>6 DEF Tracked, Pollers
<1>8. Calm(r)'
  <2>. SUFFICES ASSUME r \notin rec.raced
                PROVE  Staged(r)' /\ Told(r)'
    BY <1>2 DEF Calm
  <2>1. Staged(r) /\ Told(r)
    BY <1>4 DEF Calm
  <2>2. /\ ~ InHand(r)
        /\ Copies(r) = {} /\ ~ Marking(r)
        /\ \A o \in Pollers \ {p} : poll[r][o].pc = "idle"
    BY <1>1, <1>4, <2>1 DEF Staged, Tracked, InUse, InHand, Holding, Reconciled, Pollers
  <2>3. ~ InHand(r)' /\ ~ InUse(r)' /\ ~ Reconciled(r)'
    BY <1>5, <1>6, <2>2 DEF InHand, InUse, Holding, Reconciled, Pollers
  <2>4. Staged(r)'
    BY <1>2, <1>3, <1>5, <2>1, <2>3 DEF Staged, Hand, Pollers, Reconciled
  <2>5. txState[r].status \in {s, "dismissed"}
    BY <1>1, <2>1 DEF Staged
  <2>6. Told(r)'
    BY <1>2, <1>3, <1>4, <2>1, <2>2, <2>3, <2>5, Verdict DEF Ended, Running
  <2>. QED  BY <2>4, <2>6
<1>9. Watched(r)'
  <2>1. poll[r][p].pc # "wait" /\ Watched(r)
    BY <1>1 DEF Tale
  <2>. QED  BY <1>2, <1>3, <1>5, <1>6, <2>1 DEF Watched, Pollers
<1>10. Tells(r)
  BY <1>3, <1>4 DEF Tells
<1>11. poll'[r]["reconciler"].pc # "idle" => poll[r]["reconciler"].pc # "idle"
  BY <1>5 DEF Pollers
<1>. QED  BY <1>2, <1>3, <1>4, <1>5, <1>7, <1>8, <1>9, <1>10, <1>11, Settling DEF Copies, Marking

\* The reconciler marks in the same way.
LEMMA ReconcileMarkTells ==
  ASSUME Inv, Tale, Running, faults' = 0, ReconcileMark, UNCHANGED serverVars
  PROVE  Tale'
<1>1. PICK r \in Rows, h \in Hashes, s \in Verdicts :
        /\ rec.pc = "mark" /\ r = rec.at.row /\ h = rec.at.hash /\ s = rec.status
        /\ Exec(UpdateTransactionStatusByHash(h, s))
        /\ rec' = [rec EXCEPT !.pc = "rows", !.at = NoListed, !.status = "confirming"]
  BY ListedFacts DEF ReconcileMark, Inv, Marks, VerdictOf, Listed
<1>2. UNCHANGED <<req, poll, phase, restarts>>
  BY DEF ReconcileMark, sendVars, serverVars
<1>3. /\ txState' = txState
      /\ \A k \in Hashes : k # h => transactions'[k] = transactions[k]
      /\ transactions'[h] = IF transactions[h] = {} THEN {} ELSE {s}
  BY <1>1, TellFacts
<1>4. rec'.pc = "rows" /\ rec'.rows = rec.rows /\ rec'.raced = rec.raced
  BY <1>1 DEF Inv, TypeOK, RecTypeOK
<1>5. Marking(r) /\ Tracked(r) /\ Calm(r) /\ txState[r].hash = h /\ txState[r].status # "absent"
  BY <1>1 DEF Tale, Tracked, Reconciled, Marking
<1>6. /\ \A t \in Rows \ {r} : ~ Marking(t)
      /\ \A t \in Rows : ~ Marking(t)' /\ Copies(t)' = Copies(t)
      /\ InHand(r)' <=> InHand(r)
      /\ InUse(r)' <=> InUse(r)
      /\ Reconciled(r)' => Reconciled(r)
  BY <1>1, <1>2, <1>4, <1>5 DEF InHand, InUse, Reconciled, Copies, Marking
<1>7. Tracked(r)'
  BY <1>2, <1>3, <1>5, <1>6 DEF Tracked
<1>8. Calm(r)'
  <2>. SUFFICES ASSUME r \notin rec.raced
                PROVE  Staged(r)' /\ Told(r)'
    BY <1>4 DEF Calm
  <2>1. Staged(r) /\ Told(r)
    BY <1>5 DEF Calm
  <2>2. ~ InUse(r) /\ ~ InHand(r) /\ Copies(r) = {} /\ poll[r]["reconciler"].pc = "idle"
    BY <1>5, <2>1 DEF Staged, Tracked, InUse, InHand, Holding, Reconciled
  <2>3. ~ InHand(r)' /\ ~ InUse(r)' /\ ~ Reconciled(r)'
    BY <1>2, <1>6, <2>2 DEF Reconciled
  <2>4. Staged(r)'
    BY <1>2, <1>3, <1>6, <2>1, <2>3 DEF Staged, Hand, Reconciled
  <2>5. txState[r].status \in {s, "dismissed"}
    BY <1>1, <1>5, <2>1 DEF Staged
  <2>6. Told(r)'
    BY <1>2, <1>3, <1>5, <2>1, <2>2, <2>3, <2>5, Verdict DEF Ended, Running
  <2>. QED  BY <2>4, <2>6
<1>9. Watched(r)'
  BY <1>1, <1>2, <1>3, <1>6 DEF Tale, Watched
<1>10. Tells(r)
  BY <1>3, <1>5 DEF Tells
<1>. QED  BY <1>1, <1>2, <1>3, <1>4, <1>5, <1>6, <1>7, <1>8, <1>9, <1>10, Settling

\* The reconciler takes its copy x of a row.
LEMMA VisitTells ==
  ASSUME Inv, Tale, NEW x \in rec.rows, rec.pc = "rows",
         rec'.rows = rec.rows \ {x}, rec'.pc \in {"rows", "mark"},
         rec'.pc = "mark" => rec'.at = x, UNCHANGED req
  PROVE  /\ x.row \in Rows /\ x.hash \in Hashes \cup {NoHash} /\ x \in Copies(x.row)
         /\ txState[x.row].status # "absent"
         /\ Tracked(x.row) /\ Calm(x.row) /\ Copies(x.row)' = {}
         /\ poll[x.row]["reconciler"].pc = "idle" /\ ~ Marking(x.row)
         /\ (InHand(x.row)' <=> InHand(x.row))
         /\ \A s \in Rows \ {x.row} : Copies(s)' = Copies(s) /\ ~ Marking(s) /\ ~ Marking(s)'
<1>1. x \in Listed
  BY ListedFacts
<1>2. x.row \in Rows /\ x.hash \in Hashes \cup {NoHash}
  BY <1>1 DEF Listed
<1>3. x \in Copies(x.row)
  BY DEF Copies
<1>4. Tracked(x.row) /\ Calm(x.row)
  BY <1>2 DEF Tale
<1>5. Copies(x.row) = {x}
  BY <1>3, <1>4 DEF Tracked
<1>6. PICK r \in Rows : r = x.row
  BY <1>2
<1>7. Copies(r)' = {}
  BY <1>5, <1>6 DEF Copies
<1>8. InHand(r)' <=> InHand(r)
  BY DEF InHand
<1>9. \A s \in Rows \ {r} : Copies(s)' = Copies(s) /\ ~ Marking(s) /\ ~ Marking(s)'
  BY <1>6 DEF Copies, Marking
<1>. QED  BY <1>2, <1>3, <1>4, <1>5, <1>6, <1>7, <1>8, <1>9 DEF Tracked, Reconciled, Marking

\* A row without a hash is failed: no process sent its transfer.
LEMMA ReconcileUnhashedTells ==
  ASSUME Inv, Tale, Running, faults' = 0, ReconcileUnhashed, UNCHANGED serverVars
  PROVE  Tale'
<1>1. PICK x \in rec.rows : /\ x.hash = NoHash
                            /\ Exec(UpdateTxStatus(x.row, "failed", NoHash))
                            /\ rec' = [rec EXCEPT !.rows = @ \ {x}]
  BY DEF ReconcileUnhashed
<1>2. UNCHANGED <<req, poll, phase, restarts>> /\ rec.pc = "rows"
  BY DEF ReconcileUnhashed, sendVars, serverVars
<1>3. rec'.rows = rec.rows \ {x} /\ rec'.pc = "rows" /\ rec'.raced = rec.raced
  BY <1>1, <1>2 DEF Inv, TypeOK, RecTypeOK
<1>4. PICK r \in Rows :
        /\ r = x.row /\ x \in Copies(r)
        /\ txState[r].status # "absent" /\ Tracked(r) /\ Calm(r) /\ Copies(r)' = {}
        /\ poll[r]["reconciler"].pc = "idle" /\ ~ Marking(r) /\ (InHand(r)' <=> InHand(r))
        /\ \A s \in Rows \ {r} : Copies(s)' = Copies(s) /\ ~ Marking(s) /\ ~ Marking(s)'
  BY <1>2, <1>3, VisitTells
<1>5. /\ transactions' = transactions
      /\ \A s \in Rows : s # r => txState'[s] = txState[s]
      /\ txState'[r].status = "failed" /\ txState'[r].hash = txState[r].hash
  BY <1>1, <1>4, WriteFacts DEF Closed, Verdicts
<1>6. ~ Marking(r)' /\ ~ Reconciled(r)' /\ Reconciled(r)
  BY <1>2, <1>3, <1>4 DEF Marking, Reconciled
<1>7. Tracked(r)'
  BY <1>2, <1>4, <1>5, <1>6 DEF Tracked
<1>8. Calm(r)'
  <2>. SUFFICES ASSUME r \notin rec.raced
                PROVE  Staged(r)' /\ Told(r)'
    BY <1>3 DEF Calm
  <2>1. Staged(r)
    BY <1>4 DEF Calm
  <2>2. txState[r].hash = NoHash
    BY <1>1, <1>4, <2>1 DEF Staged
  <2>3. ~ InHand(r) /\ poll[r]["sweep"].pc = "idle"
    BY <1>6, <2>1 DEF Staged, InUse, InHand, Holding
  <2>4. Staged(r)'
    BY <1>2, <1>4, <1>5, <1>6, <2>2, <2>3 DEF Staged, Hand, Reconciled, Pollers
  <2>. QED  BY <1>5, <2>2, <2>4 DEF Told
<1>9. Watched(r)' /\ Tells(r)
  BY <1>5 DEF Watched, Tells, Open
<1>. QED  BY <1>2, <1>3, <1>4, <1>5, <1>7, <1>8, <1>9, Settling

\* A row whose transfer is looked up has its verdict, on its way to the history.
LEMMA ReconcileCheckTells ==
  ASSUME Inv, Tale, Running, faults' = 0, ReconcileCheck, UNCHANGED serverVars
  PROVE  Tale'
<1>1. PICK x \in rec.rows :
        /\ x.hash # NoHash
        /\ \E s \in CheckOnChain(txState[x.row].chain, onChain[x.hash]) :
              /\ Exec(UpdateTxStatus(x.row, s, x.hash))
              /\ rec' = [rec EXCEPT !.pc = "mark", !.rows = @ \ {x},
                                    !.at = x, !.status = s]
  BY DEF ReconcileCheck
<1>2. PICK s \in Verdicts :
        /\ Exec(UpdateTxStatus(x.row, s, x.hash))
        /\ rec' = [rec EXCEPT !.pc = "mark", !.rows = @ \ {x}, !.at = x, !.status = s]
  BY <1>1 DEF CheckOnChain, Verdicts
<1>3. UNCHANGED <<req, poll, phase, restarts>> /\ rec.pc = "rows"
  BY DEF ReconcileCheck, sendVars, serverVars
<1>4. /\ rec'.rows = rec.rows \ {x} /\ rec'.pc = "mark" /\ rec'.raced = rec.raced
      /\ rec'.at = x /\ rec'.status = s
  BY <1>2 DEF Inv, TypeOK, RecTypeOK
<1>5. PICK r \in Rows, h \in Hashes :
        /\ r = x.row /\ h = x.hash /\ x \in Copies(r)
        /\ txState[r].status # "absent" /\ Tracked(r) /\ Calm(r) /\ Copies(r)' = {}
        /\ poll[r]["reconciler"].pc = "idle" /\ ~ Marking(r) /\ (InHand(r)' <=> InHand(r))
        /\ \A t \in Rows \ {r} : Copies(t)' = Copies(t) /\ ~ Marking(t) /\ ~ Marking(t)'
  BY <1>1, <1>3, <1>4, VisitTells
<1>6. txState[r].hash = h /\ h # NoHash
  BY <1>1, <1>5 DEF Tracked
<1>7. /\ transactions' = transactions
      /\ \A t \in Rows : t # r => txState'[t] = txState[t]
      /\ txState'[r].status = s /\ txState'[r].hash = txState[r].hash
  BY <1>2, <1>5, <1>6, WriteFacts DEF Closed
<1>8. Marking(r)' /\ Reconciled(r)
  BY <1>4, <1>5 DEF Marking, Reconciled
<1>9. Tracked(r)'
  BY <1>2, <1>3, <1>4, <1>5, <1>6, <1>7, <1>8 DEF Tracked, Verdicts
<1>10. Calm(r)'
  <2>. SUFFICES ASSUME r \notin rec.raced
                PROVE  Staged(r)' /\ Told(r)'
    BY <1>4 DEF Calm
  <2>1. Staged(r) /\ Told(r)
    BY <1>5 DEF Calm
  <2>2. ~ InUse(r) /\ ~ InHand(r) /\ poll[r]["sweep"].pc = "idle"
    BY <1>8, <2>1 DEF Staged, InUse, InHand, Holding
  <2>3. ~ InUse(r)'
    BY <1>3, <2>2 DEF InUse
  <2>4. Staged(r)'
    BY <1>3, <1>4, <1>5, <1>6, <1>7, <2>2, <2>3 DEF Staged, Hand, Reconciled, Pollers
  <2>5. Shares(r)' <=> Shares(r)
    BY <1>7 DEF Shares
  <2>6. ~ Settled(r)'
    BY <1>4, <1>5 DEF Settled
  <2>7. Told(r)'
    BY <1>3, <1>5, <1>7, <1>8, <2>1, <2>2, <2>5, <2>6 DEF Told, Ended, Running, Hand
  <2>. QED  BY <2>4, <2>7
<1>11. Watched(r)' /\ Tells(r)
  BY <1>2, <1>7 DEF Watched, Tells, Open, Verdicts
<1>. QED  BY <1>3, <1>4, <1>5, <1>7, <1>9, <1>10, <1>11, Settling

\* A row without a verdict yet goes from the list to a goroutine.
LEMMA LaunchPollingTells ==
  ASSUME Inv, Tale, Running, LaunchPolling, UNCHANGED serverVars
  PROVE  Tale'
<1>1. PICK x \in rec.rows : /\ x.hash # NoHash
                            /\ Waits("reconciler", x.row, x.hash)
                            /\ rec' = [rec EXCEPT !.rows = @ \ {x}]
  BY DEF LaunchPolling
<1>2. UNCHANGED <<txState, transactions, req, phase, restarts>> /\ rec.pc = "rows"
  BY DEF LaunchPolling, serverVars, tableVars
<1>3. rec'.rows = rec.rows \ {x} /\ rec'.pc = "rows" /\ rec'.raced = rec.raced
  BY <1>1, <1>2 DEF Inv, TypeOK, RecTypeOK
<1>4. PICK r \in Rows, h \in Hashes :
        /\ r = x.row /\ h = x.hash /\ x \in Copies(r)
        /\ txState[r].status # "absent" /\ Tracked(r) /\ Calm(r) /\ Copies(r)' = {}
        /\ poll[r]["reconciler"].pc = "idle" /\ ~ Marking(r) /\ (InHand(r)' <=> InHand(r))
        /\ \A t \in Rows \ {r} : Copies(t)' = Copies(t) /\ ~ Marking(t) /\ ~ Marking(t)'
  BY <1>1, <1>2, <1>3, VisitTells
<1>5. txState[r].hash = h /\ h # NoHash
  BY <1>1, <1>4 DEF Tracked
<1>6. /\ poll'[r]["reconciler"].pc = "wait" /\ poll'[r]["reconciler"].hash = h
      /\ poll'[r]["sweep"] = poll[r]["sweep"]
      /\ \A t \in Rows \ {r} : poll'[t] = poll[t]
  <2>. DEFINE wait == [NoPoll EXCEPT !.pc = "wait", !.hash = h]
  <2>1. wait.pc = "wait" /\ wait.hash = h
    BY DEF NoPoll
  <2>2. poll' = [poll EXCEPT ![r]["reconciler"] = wait]
    BY <1>1, <1>4 DEF Waits
  <2>3. poll \in [Rows -> [Pollers -> Poll]]
    BY DEF Inv, TypeOK, SendTypeOK
  <2>. HIDE DEF wait
  <2>. QED  BY <2>1, <2>2, <2>3 DEF Pollers
<1>7. ~ Marking(r)' /\ Reconciled(r)
  BY <1>3, <1>4 DEF Marking, Reconciled
<1>8. Tracked(r)'
  BY <1>2, <1>4, <1>5, <1>6, <1>7 DEF Tracked, Pollers
<1>9. Calm(r)'
  <2>. SUFFICES ASSUME r \notin rec.raced
                PROVE  Staged(r)' /\ Told(r)'
    BY <1>3 DEF Calm
  <2>1. Staged(r) /\ Told(r)
    BY <1>4 DEF Calm
  <2>2. ~ InUse(r) /\ ~ InHand(r) /\ poll[r]["sweep"].pc = "idle"
    BY <1>7, <2>1 DEF Staged, InUse, InHand, Holding
  <2>3. ~ InUse(r)'
    BY <1>2, <1>6, <2>2 DEF InUse, InHand
  <2>4. Staged(r)'
    BY <1>1, <1>2, <1>4, <1>5, <1>6, <1>7, <2>1, <2>2, <2>3 DEF Staged, Hand, Pollers
  <2>5. Shares(r)' <=> Shares(r)
    BY <1>2 DEF Shares
  <2>6. txState[r].status \notin {"confirmed", "failed"}
    BY <1>1, <1>4, <2>1 DEF Staged
  <2>7. Told(r)'
    BY <1>2, <1>4, <1>7, <2>1, <2>2, <2>5, <2>6 DEF Told, Ended, Running, Hand
  <2>. QED  BY <2>4, <2>7
<1>10. Watched(r)' /\ Tells(r)
  BY <1>2, <1>6 DEF Watched, Tells
<1>. QED  BY <1>2, <1>3, <1>4, <1>6, <1>8, <1>9, <1>10, Settling

\* The rows that are open are listed; those in use are raced from here on.
LEMMA ReconcileListTells ==
  ASSUME Inv, Tale, Running, faults' = 0, ReconcileList, UNCHANGED serverVars
  PROVE  Tale'
<1>. DEFINE rows == {[row |-> r, hash |-> txState[r].hash] : r \in GetAllPendingTxStates}
            raced == rec.raced \cup {r \in GetAllPendingTxStates : InUse(r)}
<1>1. /\ rec.pc = "list"
      /\ rec' = [rec EXCEPT !.pc = "rows", !.rows = rows, !.raced = raced]
      /\ UNCHANGED <<txState, transactions, req, poll, phase, restarts>>
  BY DEF ReconcileList, DBFault, tableVars, sendVars, serverVars, Inv, TypeOK, TablesTypeOK
<1>. HIDE DEF rows, raced
<1>2. rec'.pc = "rows" /\ rec'.rows = rows /\ rec'.raced = raced
  BY <1>1 DEF Inv, TypeOK, RecTypeOK
<1>3. Memory'
  BY <1>1, <1>2 DEF Tale, Memory, Running
<1>4. Untouched' /\ Known'
  BY <1>1 DEF Tale, Untouched, Known
<1>5. ASSUME NEW r \in Rows
      PROVE  Tracked(r)' /\ Calm(r)' /\ Watched(r)'
  <2>. DEFINE copy == [row |-> r, hash |-> txState[r].hash]
  <2>1. Copies(r)' = IF r \in GetAllPendingTxStates THEN {copy} ELSE {}
    BY <1>2 DEF Copies, rows
  <2>2. copy.hash = txState[r].hash
    OBVIOUS
  <2>. HIDE DEF copy
  <2>3. Copies(r) = {} /\ ~ Marking(r) /\ ~ Marking(r)' /\ poll[r]["reconciler"].pc = "idle"
    BY <1>1, <1>2 DEF Tale, Memory, Copies, Marking
  <2>4. (InHand(r)' <=> InHand(r)) /\ (InUse(r)' <=> InUse(r)) /\ Hand(r)' = Hand(r)
    BY <1>1 DEF InHand, InUse, Hand
  <2>5. Tracked(r) /\ Calm(r)
    BY DEF Tale
  <2>6. r \in GetAllPendingTxStates => txState[r].status \in Open \cup {"uncertain"}
    BY DEF GetAllPendingTxStates
  <2>7. Tracked(r)'
    BY <1>1, <2>1, <2>2, <2>3, <2>4, <2>5, <2>6 DEF Tracked, Reconciled, Open
  <2>8. Calm(r)'
    <3>. SUFFICES ASSUME r \notin raced
                  PROVE  Staged(r)' /\ Told(r)'
      BY <1>2 DEF Calm
    <3>1. Staged(r) /\ Told(r) /\ (r \in GetAllPendingTxStates => ~ InUse(r))
      BY <2>5 DEF Calm, raced
    <3>2. Staged(r)'
      BY <1>1, <2>1, <2>2, <2>3, <2>4, <2>6, <3>1 DEF Staged, Reconciled, Pollers, Open, Verdicts
    <3>3. Shares(r)' <=> Shares(r)
      BY <1>1 DEF Shares
    <3>4. Settled(r)' <=> Settled(r)
      BY <1>1, <1>2 DEF Settled
    <3>5. Told(r)'
      BY <1>1, <2>1, <2>3, <2>4, <2>6, <3>1, <3>3, <3>4
         DEF Told, Reconciled, Ended, Running
    <3>. QED  BY <3>2, <3>5
  <2>9. Watched(r)'
    BY <1>1, <2>1 DEF Watched, GetAllPendingTxStates
  <2>. QED  BY <2>7, <2>8, <2>9
<1>. QED  BY <1>3, <1>4, <1>5 DEF Tale

\* The reconciler is idle: the rows it had not come to are nobody's.
LEMMA ReconcileStopsTells ==
  ASSUME Inv, Tale, Running, ReconcileStops, rec.rows = {} \/ phase = "stopping",
         UNCHANGED serverVars
  PROVE  Tale'
<1>1. /\ rec.pc = "rows" /\ rec'.pc = "idle" /\ rec'.rows = {} /\ rec'.raced = rec.raced
      /\ UNCHANGED <<txState, transactions, req, poll, phase, restarts>>
  BY DEF ReconcileStops, Idle, tableVars, sendVars, serverVars, Inv, TypeOK, RecTypeOK
<1>2. Memory'
  BY <1>1 DEF Tale, Memory, Running
<1>3. Untouched' /\ Known'
  BY <1>1 DEF Tale, Untouched, Known
<1>4. ASSUME NEW r \in Rows
      PROVE  Tracked(r)' /\ Calm(r)' /\ Watched(r)'
  <2>1. Copies(r)' = {} /\ ~ Marking(r) /\ ~ Marking(r)'
    BY <1>1 DEF Copies, Marking
  <2>2. /\ InHand(r)' <=> InHand(r)
        /\ InUse(r)' <=> InUse(r)
        /\ Hand(r)' = Hand(r)
        /\ Reconciled(r)' => Reconciled(r)
    BY <1>1, <2>1 DEF InHand, InUse, Hand, Reconciled
  <2>3. Tracked(r) /\ Calm(r) /\ Watched(r)
    BY DEF Tale
  <2>4. Tracked(r)'
    BY <1>1, <2>1, <2>2, <2>3 DEF Tracked
  <2>5. Staged(r) => Staged(r)'
    BY <1>1, <2>1, <2>2 DEF Staged
  <2>6. (Shares(r)' <=> Shares(r)) /\ (Settled(r)' <=> Settled(r))
    BY <1>1 DEF Shares, Settled
  <2>7. Told(r) => Told(r)'
    BY <1>1, <2>2, <2>6 DEF Told, Ended, Running
  <2>8. Calm(r)'
    BY <1>1, <2>3, <2>5, <2>7 DEF Calm
  <2>9. Watched(r)'
    BY <1>1, <2>2, <2>3 DEF Watched, Copies
  <2>. QED  BY <2>4, <2>8, <2>9
<1>. QED  BY <1>2, <1>3, <1>4 DEF Tale

\* Nobody has any row when the process ends, and the history of a row may
\* have missed its verdict.
LEMMA EndProcessTells ==
  ASSUME Inv, Tale, EndProcess, phase' \in {"stopped", "crashed"}
  PROVE  Tale'
<1>1. /\ UNCHANGED <<txState, transactions>> /\ ~ Running'
      /\ rec'.pc = "idle" /\ rec'.rows = {} /\ rec'.raced = rec.raced
  BY DEF EndProcess, Idle, tableVars, Running, Inv, TypeOK, RecTypeOK
<1>2. ASSUME NEW q \in Requests
      PROVE  \/ req'[q] = req[q] /\ req[q].pc = "new"
             \/ req'[q].pc = "done" /\ req'[q].todo = {}
  <2>1. req[q] \in Request
    BY DEF Inv, TypeOK, SendTypeOK
  <2>2. req'[q] = IF req[q].pc = "new" THEN req[q]
                  ELSE [req[q] EXCEPT !.pc = "done", !.todo = {}]
    BY DEF EndProcess
  <2>. QED  BY <2>1, <2>2 DEF Request
<1>3. \A r \in Rows, p \in Pollers : poll'[r][p].pc = "idle"
  BY NoPollFacts DEF EndProcess
<1>4. Memory'
  BY <1>1, <1>2, <1>3 DEF Memory
<1>5. Untouched' /\ Known'
  <2>1. \A q \in Requests : /\ req'[q].pc \in {"new", "retry", "begin"} => req[q].pc = "new"
                            /\ \A w \in req'[q].todo : w \in req[q].todo
    BY <1>2
  <2>. QED  BY <1>1, <2>1 DEF Tale, Untouched, Known
<1>6. ASSUME NEW r \in Rows
      PROVE  Tracked(r)' /\ Calm(r)' /\ Watched(r)'
  <2>1. ~ InHand(r)' /\ Hand(r)' = "none"
    <3>1. r[1] \in Requests
      BY DEF Rows
    <3>. QED  BY <1>2, <3>1 DEF InHand, Holding, Hand
  <2>2. Copies(r)' = {} /\ ~ Marking(r)' /\ ~ InUse(r)' /\ ~ Reconciled(r)' /\ Settled(r)'
    BY <1>1, <1>3, <2>1
       DEF Copies, Marking, InUse, InHand, Holding, Reconciled, Settled, Pollers
  <2>3. Tracked(r) /\ Calm(r)
    BY DEF Tale
  <2>4. Tracked(r)'
    BY <1>1, <1>3, <2>1, <2>2, <2>3 DEF Tracked
  <2>5. Staged(r) => Staged(r)'
    BY <1>1, <1>3, <2>1, <2>2 DEF Staged, Pollers
  <2>6. ASSUME Staged(r), Told(r), ~ Shares(r)', txState[r].hash # NoHash,
               txState[r].status \in {"confirmed", "failed"}, ~ Settled(r)
        PROVE  transactions[txState[r].hash] \subseteq {"pending", "uncertain"}
    <3>1. ~ Shares(r)
      BY <1>1, <2>6 DEF Shares
    <3>2. InUse(r) \/ Reconciled(r)
      BY <2>6 DEF Settled, InUse, Reconciled, Marking, Pollers
    <3>. QED  BY <2>6, <3>1, <3>2 DEF Told
  <2>7. Shares(r)' <=> Shares(r)
    BY <1>1 DEF Shares
  <2>8. Staged(r) /\ Told(r) => Told(r)'
    BY <1>1, <2>1, <2>2, <2>6, <2>7 DEF Told, Ended
  <2>9. Calm(r)' /\ Watched(r)'
    BY <1>1, <2>3, <2>5, <2>8 DEF Calm, Watched, Running
  <2>. QED  BY <2>4, <2>9
<1>. QED  BY <1>4, <1>5, <1>6 DEF Tale

\* The new process is about to list every open row.
LEMMA RestartTells ==
  ASSUME Inv, Tale, Restart
  PROVE  Tale'
<1>1. /\ UNCHANGED <<txState, transactions, req, poll>> /\ ~ Running /\ restarts' > 0
      /\ rec'.pc = "list" /\ rec'.rows = rec.rows /\ rec'.raced = rec.raced /\ Running'
  BY DEF Restart, tableVars, sendVars, Running, Inv, TypeOK, RecTypeOK
<1>2. /\ rec.pc = "idle" /\ rec.rows = {}
      /\ \A r \in Rows, p \in Pollers : poll[r][p].pc = "idle"
      /\ \A q \in Requests : req[q].pc \in {"new", "done"}
  BY <1>1 DEF Tale, Memory
<1>3. Memory'
  BY <1>1, <1>2 DEF Memory, Pollers
<1>4. Untouched' /\ Known'
  BY <1>1 DEF Tale, Untouched, Known
<1>5. ASSUME NEW r \in Rows
      PROVE  Tracked(r)' /\ Calm(r)' /\ Watched(r)'
  <2>1. Same(r) /\ Onward
    BY <1>1, <1>2 DEF Same, InHand, Copies, Marking, Onward, Ended
  <2>2. Tells(r)
    BY <1>1 DEF Tells
  <2>. QED  BY <1>1, <2>1, <2>2, OtherRow DEF Tale, Watched
<1>. QED  BY <1>3, <1>4, <1>5 DEF Tale

\* The chains, the signal to stop, and a step of another process.
LEMMA AsideTells ==
  ASSUME Inv, Tale, UNCHANGED <<txState, transactions, req, poll, rec, restarts>>,
         phase' = phase \/ (phase = "serving" /\ phase' = "stopping")
  PROVE  Tale'
<1>1. /\ \A r \in Rows : Same(r)
      /\ Onward /\ SameProcess
  BY DEF Same, InHand, Copies, Marking, Onward, SameProcess, Ended, Running
<1>2. Memory' /\ Untouched'
  BY DEF Tale, Memory, Untouched, Running
<1>. QED  BY <1>1, <1>2, NoRow

\* There is no row before the first request.
LEMMA InitTale == Init => Tale
<1>. SUFFICES ASSUME Init PROVE Tale
  OBVIOUS
<1>1. \A r \in Rows : txState[r].status = "absent" /\ txState[r].hash = NoHash
  BY DEF Init, TablesInit
<1>2. \A r \in Rows : \A p \in Pollers : poll[r][p].pc = "idle"
  BY NoPollFacts DEF Init, SendInit
<1>3. \A q \in Requests : req[q].pc = "new" /\ req[q].todo = {}
  BY DEF Init, SendInit
<1>4. rec.pc = "list" /\ rec.rows = {} /\ phase = "serving"
  BY DEF Init, RecInit
<1>5. Memory /\ Untouched /\ Known
  <2>1. Untouched
    BY <1>1 DEF Untouched, Rows
  <2>. QED  BY <1>2, <1>4, <2>1 DEF Memory, Running, Known, Init, TablesInit, Pollers
<1>6. ASSUME NEW r \in Rows
      PROVE  Tracked(r) /\ Calm(r) /\ Watched(r)
  <2>1. r[1] \in Requests
    BY DEF Rows
  <2>2. ~ InHand(r) /\ Copies(r) = {} /\ ~ Marking(r) /\ ~ InUse(r) /\ ~ Reconciled(r)
    BY <1>2, <1>3, <1>4, <2>1
       DEF InHand, Holding, Copies, Marking, InUse, Reconciled, Pollers
  <2>3. Tracked(r)
    BY <1>1, <1>2, <2>2 DEF Tracked
  <2>4. Staged(r)
    BY <1>1, <1>2, <2>2 DEF Staged, Hand, Pollers
  <2>. QED  BY <1>1, <2>3, <2>4 DEF Calm, Told, Watched, Open
<1>. QED  BY <1>5, <1>6 DEF Tale

-----------------------------------------------------------------------------
(* Who writes what                                                          *)

\* A status of the row, and a hash with it, come from whoever has the row.
Writes(r, status, h) ==
    \/ status = "dismissed" /\ h = NoHash
    \/ Hand(r) = "check" /\ status = "pending" /\ h = NoHash
    \/ Hand(r) \in {"check", "build"} /\ status = "broadcasting" /\ h = NoHash
    \/ Hand(r) \in {"check", "build", "refused"} /\ status = "failed" /\ h = NoHash
    \/ Hand(r) = "sent" /\ status = "confirming" /\ h = req[r[1]].hash
    \/ \E p \in Pollers : poll[r][p].pc = "wait" /\ status \in Verdicts /\ h = poll[r][p].hash
    \/ \E x \in Copies(r) : h = x.hash /\ IF h = NoHash THEN status = "failed"
                                                       ELSE status \in Verdicts

\* The statement of a step, which may fail.
Statement ==
    \/ UNCHANGED tableVars
    \/ DBFault
    \/ \E q \in Requests, w \in Wallets :
          /\ Exec(CreateTxState(<<q, w>>, req[q].chain, req[q].token))
          /\ req[q].pc = "begin" \/ w \in req[q].todo
    \/ \E r \in Rows, status \in Open \cup Closed, h \in Hashes \cup {NoHash} :
          Exec(UpdateTxStatus(r, status, h)) /\ Writes(r, status, h)
    \/ \E h \in Hashes : Exec(InsertTransaction(h))
    \/ \E h \in Hashes, status \in Verdicts : Exec(UpdateTransactionStatusByHash(h, status))

\* A status written by a sweep is for the row it has in hand.
LEMMA SweepStatement ==
  ASSUME Inv, NEW q \in Requests, req[q].pc \in Holding,
         NEW status \in {"pending", "broadcasting", "failed", "confirming"},
         NEW h \in Hashes \cup {NoHash},
         Exec(UpdateTxStatus(Row(q), status, h)),
         \/ req[q].pc = "check" /\ status = "pending" /\ h = NoHash
         \/ req[q].pc \in {"check", "build"} /\ status = "broadcasting" /\ h = NoHash
         \/ req[q].pc \in {"check", "build", "refused"} /\ status = "failed" /\ h = NoHash
         \/ req[q].pc = "sent" /\ status = "confirming" /\ h = req[q].hash
  PROVE  Statement
<1>1. PICK r \in Rows : r = Row(q)
  BY RowIsARow
<1>2. Hand(r) = req[q].pc /\ r[1] = q
  BY <1>1 DEF Hand, InHand, Row
<1>3. Writes(r, status, h)
  BY <1>2 DEF Writes
<1>4. status \in Open \cup Closed
  BY DEF Open, Closed, Verdicts
<1>. QED  BY <1>1, <1>3, <1>4 DEF Statement

\* The statements of the handlers and of the sweeps.
LEMMA RequestStatement ==
  ASSUME Inv, NEW q \in Requests, Accepts(q) \/ RunsSweep(q)
  PROVE  Statement
<1>1. CASE UNCHANGED tableVars
  BY <1>1 DEF Statement
<1>2. req[q] \in Request
  BY DEF Inv, TypeOK, SendTypeOK
<1>3. CASE req[q].pc = "begin" /\ CreatesRow(q, First)
  BY <1>3, SweepAssumption DEF CreatesRow, Statement
<1>4. CASE TakesAddress(q)
  BY <1>2, <1>4 DEF TakesAddress, CreatesRow, Statement, Request
<1>5. CASE req[q].pc = "check" /\ Exec(UpdateTxStatus(Row(q), "pending", NoHash))
  BY <1>5, SweepStatement DEF Holding
<1>6. CASE Confirming(q)
  BY <1>6, SweepStatement DEF Confirming, Holding, Inv, Fresh, FreshLocals
<1>7. CASE Records(q)
  BY <1>7 DEF Records, Statement, Inv, Fresh, FreshLocals
<1>8. CASE Broadcasting(q, "check") \/ Broadcasting(q, "build")
  BY <1>8, SweepStatement DEF Broadcasting, Holding
<1>9. CASE FailsRow(q, {"check", "build", "refused"}) \/ FailsRow(q, {"check", "refused"})
  BY <1>9, SweepStatement DEF FailsRow, Holding
<1>10. CASE Accepts(q) \/ ResumeLock(q) \/ Unlock(q)
  BY <1>1, <1>10 DEF Accepts, ExecuteSend, ResumeRead, ResumeLock, Unlock
<1>11. CASE GivesUp(q) \/ EntersLoop(q) \/ LeavesLoop(q) \/ SkipsAddress(q)
            \/ SendTransaction(q)
  BY <1>1, <1>11 DEF GivesUp, EntersLoop, LeavesLoop, SkipsAddress, SendTransaction
<1>12. CASE BTCExecute(q)
  BY <1>3, <1>5, <1>6, <1>7, <1>8, <1>9, <1>11, <1>12 DEF BTCExecute, Transfers
<1>13. CASE \/ BSCExecuteNativeSweep(q) \/ BSCSweepNativeAddress(q)
            \/ BSCExecuteTokenSweep(q) \/ BSCChecksTokenAddress(q)
            \/ BSCSweepTokenAddress(q)
  BY <1>4, <1>6, <1>7, <1>8, <1>9, <1>11, <1>13
     DEF BSCExecuteNativeSweep, BSCSweepNativeAddress, BSCExecuteTokenSweep,
         BSCChecksTokenAddress, BSCSweepTokenAddress, Transfers
<1>14. CASE \/ SOLExecuteNativeSweep(q) \/ SOLSweepNativeAddress(q)
            \/ SOLExecuteTokenSweep(q) \/ SOLSweepTokenAddress(q)
  BY <1>4, <1>6, <1>7, <1>8, <1>9, <1>11, <1>14
     DEF SOLExecuteNativeSweep, SOLSweepNativeAddress, SOLExecuteTokenSweep,
         SOLSweepTokenAddress, Transfers
<1>. QED  BY <1>10, <1>12, <1>13, <1>14 DEF RunsSweep, ExecuteSweepBg

\* The statements of the confirmation goroutines.
LEMMA SettlingStatement ==
  ASSUME Inv, NEW r \in Rows, NEW p \in Pollers, Confirms(r, p)
  PROVE  Statement
<1>1. CASE PollMarks(r, p)
  BY <1>1 DEF PollMarks, Statement, Inv, Polls, VerdictOf
<1>2. CASE PollEnds(r, p)
  <2>. DEFINE h == poll[r][p].hash
              c == req[r[1]].chain
  <2>1. poll[r][p].pc = "wait" /\ h \in Hashes /\ onChain[h] \in Fate
    BY <1>2 DEF PollEnds, Inv, Polls, TypeOK, SendTypeOK
  <2>2. c \in Chains
    <3>1. r[1] \in Requests
      BY DEF Rows
    <3>2. req[r[1]] \in Request
      BY <3>1 DEF Inv, TypeOK, SendTypeOK
    <3>. QED  BY <3>2 DEF Request
  <2>3. PICK s \in IF p = "sweep" THEN SweepVerdict(c, onChain[h])
                                  ELSE ReconcilerVerdict(c, onChain[h]) :
          Exec(UpdateTxStatus(r, s, h))
    BY <1>2 DEF PollEnds
  <2>4. s \in Verdicts /\ s \in Open \cup Closed
    BY <2>1, <2>2, <2>3, VerdictFacts DEF Closed
  <2>5. Writes(r, s, h)
    BY <2>1, <2>4 DEF Writes
  <2>. QED  BY <2>1, <2>3, <2>4, <2>5 DEF Statement
<1>. QED  BY <1>1, <1>2 DEF Confirms

\* The statements of the reconciler.
LEMMA ReconcilerStatement ==
  ASSUME Inv, Reconciles
  PROVE  Statement
<1>1. CASE ReconcileList
  BY <1>1 DEF ReconcileList, Statement
<1>2. CASE ReconcileMark
  BY <1>2 DEF ReconcileMark, Statement, Inv, Marks, VerdictOf
<1>3. CASE LaunchPolling \/ ReconcileStops
  BY <1>3 DEF LaunchPolling, ReconcileStops, Statement
<1>4. ASSUME NEW x \in rec.rows, NEW s \in Verdicts, Exec(UpdateTxStatus(x.row, s, x.hash)),
             x.hash = NoHash => s = "failed"
      PROVE  Statement
  <2>1. x \in Listed
    BY ListedFacts
  <2>2. x.row \in Rows /\ x.hash \in Hashes \cup {NoHash}
    BY <2>1 DEF Listed
  <2>3. Writes(x.row, s, x.hash) /\ s \in Open \cup Closed
    BY <1>4 DEF Writes, Copies, Closed
  <2>. QED  BY <1>4, <2>2, <2>3 DEF Statement
<1>5. CASE ReconcileUnhashed
  BY <1>4, <1>5 DEF ReconcileUnhashed, Verdicts
<1>6. CASE ReconcileCheck
  <2>1. PICK x \in rec.rows : x.hash # NoHash
          /\ \E s \in CheckOnChain(txState[x.row].chain, onChain[x.hash]) :
                Exec(UpdateTxStatus(x.row, s, x.hash))
    BY <1>6 DEF ReconcileCheck
  <2>2. PICK s \in Verdicts : Exec(UpdateTxStatus(x.row, s, x.hash))
    BY <2>1 DEF CheckOnChain, Verdicts
  <2>. QED  BY <1>4, <2>1, <2>2
<1>. QED  BY <1>1, <1>2, <1>3, <1>5, <1>6 DEF Reconciles

\* Every step has one statement at most, and these are all there are.
LEMMA NextStatement ==
  ASSUME Inv, [Next]_vars
  PROVE  Statement
<1>1. CASE UNCHANGED tableVars
  BY <1>1 DEF Statement
<1>2. ASSUME NEW r \in Rows, Dismisses(r)
      PROVE  Statement
  <2>1. Exec(UpdateTxStatus(r, "dismissed", NoHash))
    BY <1>2 DEF Dismisses, DismissTxState, Exec
  <2>2. Writes(r, "dismissed", NoHash) /\ "dismissed" \in Open \cup Closed
    BY DEF Writes, Closed
  <2>. QED  BY <2>1, <2>2 DEF Statement
<1>3. ASSUME NEW h \in Rows, Mines(h)
      PROVE  Statement
  BY <1>1, <1>3 DEF Mines, Mine
<1>4. CASE Shutdown \/ ShutdownReturns \/ Crash \/ Restart \/ UNCHANGED vars
  BY <1>1, <1>4 DEF Shutdown, ShutdownReturns, Crash, Restart, EndProcess, vars
<1>. QED  BY <1>2, <1>3, <1>4, RequestStatement, SettlingStatement, ReconcilerStatement DEF Next

\* Failed statements are counted, and not forgotten.
LEMMA NextFaults ==
  ASSUME Inv, [Next]_vars
  PROVE  faults' = faults \/ faults' = faults + 1
<1>1. Statement
  BY NextStatement
<1>. QED  BY <1>1 DEF Statement, Exec, DBFault, tableVars

\* The tale of every row goes on, whoever makes the step.
LEMMA NextTale ==
  ASSUME Inv, Tale, [Next]_vars, faults' = 0
  PROVE  Tale'
<1>1. ASSUME NEW q \in Requests, Accepts(q) \/ RunsSweep(q)
      PROVE  Tale'
  BY <1>1, AcceptsTells, RunsSweepTells
<1>2. ASSUME NEW r \in Rows, Dismisses(r)
      PROVE  Tale'
  BY <1>2, DismissTells
<1>3. ASSUME NEW h \in Rows, Mines(h)
      PROVE  Tale'
  BY <1>3, AsideTells DEF Mines, Mine, tableVars, serverVars
<1>4. ASSUME NEW r \in Rows, NEW p \in Pollers, Confirms(r, p)
      PROVE  Tale'
  BY <1>4, PollEndsTells, PollMarksTells DEF Confirms
<1>5. CASE Reconciles
  <2>1. UNCHANGED serverVars
    BY <1>5 DEF Reconciles
  <2>2. CASE Running /\ (ReconcileList \/ ReconcileMark)
    BY <2>1, <2>2, ReconcileListTells, ReconcileMarkTells
  <2>3. CASE phase = "serving" /\ (ReconcileUnhashed \/ ReconcileCheck \/ LaunchPolling)
    BY <2>1, <2>3, ReconcileUnhashedTells, ReconcileCheckTells, LaunchPollingTells DEF Running
  <2>4. CASE (rec.rows = {} \/ phase = "stopping") /\ ReconcileStops
    <3>1. Running
      BY <2>4 DEF ReconcileStops, Tale, Memory
    <3>. QED  BY <2>1, <2>4, <3>1, ReconcileStopsTells
  <2>. QED  BY <1>5, <2>2, <2>3, <2>4 DEF Reconciles
<1>6. CASE Shutdown
  BY <1>6, AsideTells DEF Shutdown, tableVars, sendVars
<1>7. CASE ShutdownReturns \/ Crash
  BY <1>7, EndProcessTells DEF ShutdownReturns, Crash
<1>8. CASE Restart
  BY <1>8, RestartTells
<1>9. CASE UNCHANGED vars
  BY <1>9, AsideTells DEF vars, tableVars, sendVars, serverVars
<1>. QED  BY <1>1, <1>2, <1>3, <1>4, <1>5, <1>6, <1>7, <1>8, <1>9 DEF Next

\* A failed statement leaves a row behind its goroutine, for good.
TaleInv == faults = 0 => Tale

\* The tale is true until a statement fails.
LEMMA TaleHolds == Spec => []TaleInv
<1>1. Init => TaleInv
  BY InitTale DEF TaleInv
<1>2. Inv /\ TaleInv /\ [Next]_vars => TaleInv'
  BY NextTale, NextFaults DEF TaleInv, Inv, TypeOK, TablesTypeOK
<1>. QED  BY <1>1, <1>2, InitInv, NextInv, PTL DEF Spec

\* While the database answers, an open row of a serving process is in the hands
\* of a sweep or of a confirmation goroutine, or the reconciler has it or will
\* list it: no crash, shutdown or restart leaves one behind.
THEOREM OpenRowsHaveAnOwner == Spec => []OpenRowsAreWatched
<1>1. TaleInv => OpenRowsAreWatched
  BY DEF TaleInv, Tale, Watched, OpenRowsAreWatched, InUse, InHand, Holding, Copies
<1>. QED  BY <1>1, TaleHolds, PTL

\* While the database answers, the history shows the verdict of tx_state as
\* soon as the goroutine that reached it has told it, and never the opposite
\* one; only the end of a process between the two statements leaves the older.
THEOREM HistoryTellsTheVerdict == Spec => []HistoryFollows
<1>1. TaleInv => HistoryFollows
  BY DEF TaleInv, Tale, Calm, Told, HistoryFollows, Ended
<1>. QED  BY <1>1, TaleHolds, PTL

-----------------------------------------------------------------------------
(* Forward only                                                             *)

\* What a write may make of a row that is not raced.
Forward(r) ==
    LET old == txState[r].status
        new == txState'[r].status
    IN  old = new \/ "dismissed" \in {old, new} \/ <<old, new>> \in Legal

\* What a statement, failed or not, makes of the statuses.
LEMMA Written ==
  ASSUME NEW r \in Rows, NEW status, NEW h, txState \in [Rows -> TxStateRow],
         Exec(UpdateTxStatus(r, status, h))
  PROVE  /\ \A s \in Rows \ {r} : txState'[s] = txState[s]
         /\ txState'[r].status \in {txState[r].status, status}
<1>1. CASE DBFault \/ txState' = txState
  BY <1>1 DEF DBFault
<1>2. CASE txState' = [txState EXCEPT ![r].status = status,
                                      ![r].hash = IF h = NoHash THEN @ ELSE h]
  BY <1>2 DEF TxStateRow
<1>. QED  BY <1>1, <1>2 DEF Exec, UpdateTxStatus

\* A row that was listed in use stays known as raced.
LEMMA RacedGrows ==
  ASSUME Inv, [Next]_vars
  PROVE  rec.raced \subseteq rec'.raced
<1>1. rec \in [pc : {"idle", "list", "rows", "mark"}, rows : SUBSET Listed,
               at : Listed, status : {"confirming"} \cup Verdicts, raced : SUBSET Rows]
  BY DEF Inv, TypeOK, RecTypeOK
<1>2. CASE UNCHANGED rec
  BY <1>2
<1>3. CASE rec' = Idle
  BY <1>1, <1>3 DEF Idle
<1>4. CASE Reconciles
  <2>1. CASE ReconcileList
    BY <1>1, <1>3, <2>1 DEF ReconcileList
  <2>2. CASE ReconcileUnhashed \/ ReconcileMark \/ LaunchPolling
    BY <1>1, <2>2 DEF ReconcileUnhashed, ReconcileMark, LaunchPolling
  <2>3. CASE ReconcileCheck
    BY <1>1, <2>3 DEF ReconcileCheck
  <2>. QED  BY <1>3, <1>4, <2>1, <2>2, <2>3 DEF Reconciles, ReconcileStops
<1>5. CASE Restart
  BY <1>1, <1>5 DEF Restart
<1>. QED  BY <1>2, <1>3, <1>4, <1>5
          DEF Next, Accepts, RunsSweep, Dismisses, Mines, Confirms, Shutdown,
              ShutdownReturns, Crash, EndProcess, vars

\* Whoever writes a status finds the one that comes before it.
LEMMA ForwardStep ==
  ASSUME Inv, faults = 0, Tale, [Next]_vars
  PROVE  \A r \in Rows \ rec'.raced : Forward(r)
<1>. SUFFICES ASSUME NEW s \in Rows, s \notin rec'.raced, txState'[s] # txState[s]
              PROVE  Forward(s)
  BY DEF Forward
<1>1. Staged(s)
  BY RacedGrows DEF Tale, Calm
<1>2. txState \in [Rows -> TxStateRow]
  BY DEF Inv, TypeOK, TablesTypeOK
<1>3. ASSUME NEW q \in Requests, NEW w \in Wallets,
             Exec(CreateTxState(<<q, w>>, req[q].chain, req[q].token)),
             req[q].pc = "begin" \/ w \in req[q].todo
      PROVE  Forward(s)
  <2>1. s = <<q, w>> /\ txState'[s].status = "pending"
    BY <1>2, <1>3 DEF Exec, DBFault, CreateTxState
  <2>2. txState[s].status = "absent"
    BY <1>3, <2>1 DEF Tale, Untouched
  <2>. QED  BY <2>1, <2>2 DEF Forward, Legal
<1>4. ASSUME NEW r \in Rows, NEW status \in Open \cup Closed, NEW h \in Hashes \cup {NoHash},
             Exec(UpdateTxStatus(r, status, h)), Writes(r, status, h)
      PROVE  Forward(s)
  <2>1. s = r /\ txState'[s].status \in {txState[s].status, status}
    BY <1>2, <1>4, Written
  <2>. SUFFICES ASSUME txState[s].status # status, "dismissed" \notin {txState[s].status, status}
                PROVE  <<txState[s].status, status>> \in Legal
    BY <2>1 DEF Forward
  <2>2. CASE \/ Hand(s) = "check" /\ status = "pending"
             \/ Hand(s) \in {"check", "build"} /\ status = "broadcasting"
             \/ Hand(s) \in {"check", "build", "refused"} /\ status = "failed"
             \/ Hand(s) = "sent" /\ status = "confirming"
    BY <1>1, <2>2 DEF Staged, Legal
  <2>3. CASE \E p \in Pollers : poll[s][p].pc = "wait" /\ status \in Verdicts
    BY <1>1, <2>1, <2>3 DEF Staged, Legal, Pollers, Verdicts
  <2>4. CASE \E x \in Copies(s) : IF x.hash = NoHash THEN status = "failed"
                                                     ELSE status \in Verdicts
    BY <1>1, <2>1, <2>4 DEF Staged, Legal, Verdicts
  <2>. QED  BY <1>4, <2>1, <2>2, <2>3, <2>4 DEF Writes
<1>5. Statement
  BY NextStatement
<1>. QED  BY <1>3, <1>4, <1>5
          DEF Statement, tableVars, Exec, DBFault, InsertTransaction,
              UpdateTransactionStatusByHash

\* While the database answers, no writer takes a row back, whichever goroutine
\* or process it is of: a verdict is not reopened, a failed transfer not
\* confirmed.
THEOREM RowsMoveForward == Spec => StatusMovesForward
<1>1. Inv /\ TaleInv /\ [Next]_vars =>
        [faults = 0 =>
            \A r \in Rows \ rec'.raced :
                LET old == txState[r].status
                    new == txState'[r].status
                IN  old = new \/ "dismissed" \in {old, new} \/ <<old, new>> \in Legal]_vars
  BY ForwardStep DEF TaleInv, Forward
<1>. QED  BY <1>1, TaleHolds, SendInvariant, PTL DEF Spec, StatusMovesForward

-----------------------------------------------------------------------------
(* What was sent stays found                                                *)

\* The hash of a row is written once, and a transfer of the history stays.
LEMMA RecordsStay ==
  ASSUME Inv, Tale, [Next]_vars
  PROVE  /\ \A r \in Rows : txState[r].hash # NoHash => txState'[r].hash = txState[r].hash
         /\ \A h \in Hashes : transactions[h] # {} => transactions'[h] # {}
<1>1. /\ txState \in [Rows -> TxStateRow]
      /\ transactions \in [Hashes -> SUBSET ({"pending"} \cup Verdicts)]
  BY DEF Inv, TypeOK, TablesTypeOK
<1>2. CASE UNCHANGED <<txState, transactions>>
  BY <1>2
<1>3. ASSUME NEW q \in Requests, NEW w \in Wallets,
             CreateTxState(<<q, w>>, req[q].chain, req[q].token),
             req[q].pc = "begin" \/ w \in req[q].todo
      PROVE  /\ UNCHANGED transactions
             /\ \A r \in Rows : txState[r].hash # NoHash => txState'[r].hash = txState[r].hash
  <2>1. <<q, w>> \in Rows
    BY DEF Rows
  <2>2. txState[<<q, w>>].hash = NoHash
    BY <1>3, <2>1 DEF Tale, Untouched, Tracked
  <2>. QED  BY <1>1, <1>3, <2>2 DEF CreateTxState
<1>4. ASSUME NEW r \in Rows, NEW status \in Open \cup Closed, NEW h \in Hashes \cup {NoHash},
             UpdateTxStatus(r, status, h), Writes(r, status, h)
      PROVE  /\ UNCHANGED transactions
             /\ \A s \in Rows : txState[s].hash # NoHash => txState'[s].hash = txState[s].hash
  <2>1. Tracked(r) /\ TablesTypeOK
    BY DEF Tale, Inv, TypeOK
  <2>2. h = NoHash \/ txState[r].hash \in {NoHash, h}
    BY <1>4, <2>1 DEF Writes, Tracked, Hand
  <2>. QED  BY <1>4, <2>1, <2>2, UpdateFacts
<1>5. CASE \E h \in Hashes : InsertTransaction(h)
  BY <1>1, <1>5 DEF InsertTransaction
<1>6. CASE \E h \in Hashes, status \in Verdicts : UpdateTransactionStatusByHash(h, status)
  BY <1>1, <1>6 DEF UpdateTransactionStatusByHash
<1>7. Statement
  BY NextStatement
<1>. QED  BY <1>2, <1>3, <1>4, <1>5, <1>6, <1>7 DEF Statement, Exec, DBFault, tableVars

\* A request that has sent goes on to its two statements, whatever the engine.
LEMMA SweepSends ==
  ASSUME Inv, NEW q \in Requests, Accepts(q) \/ RunsSweep(q)
  PROVE  /\ \A p \in Requests \ {q} : req'[p] = req[p]
         /\ req[q].pc = "sent" => Confirming(q)
         /\ req[q].pc = "record" => Records(q)
         /\ SendTransaction(q) \/ UNCHANGED <<onChain, lost>>
<1>. DEFINE Sends == /\ \A p \in Requests \ {q} : req'[p] = req[p]
                     /\ req[q].pc = "sent" => Confirming(q)
                     /\ req[q].pc = "record" => Records(q)
                     /\ SendTransaction(q) \/ UNCHANGED <<onChain, lost>>
<1>1. req \in [Requests -> Request]
  BY DEF Inv, TypeOK, SendTypeOK
<1>2. CASE ExecuteSend(q) \/ ResumeRead(q)
  <2>1. CASE ExecuteSend(q)
    BY <1>1, <2>1 DEF ExecuteSend
  <2>2. CASE ResumeRead(q)
    BY <1>1, <2>2 DEF ResumeRead
  <2>. QED  BY <1>2, <2>1, <2>2
<1>3. CASE ResumeLock(q)
  BY <1>1, <1>3 DEF ResumeLock, Goto
<1>4. CASE Unlock(q)
  BY <1>1, <1>4 DEF Unlock, Goto
<1>5. CASE GivesUp(q) \/ EntersLoop(q) \/ LeavesLoop(q)
  BY <1>1, <1>5 DEF GivesUp, EntersLoop, LeavesLoop, Goto
<1>6. CASE SkipsAddress(q)
  BY <1>1, <1>6 DEF SkipsAddress
<1>7. ASSUME NEW w, CreatesRow(q, w), req[q].pc \in {"begin", "next"}
      PROVE  Sends
  BY <1>1, <1>7 DEF CreatesRow
<1>8. CASE FailsRow(q, {"check", "build", "refused"}) \/ FailsRow(q, {"check", "refused"})
  BY <1>1, <1>8 DEF FailsRow, Goto
<1>9. CASE Broadcasting(q, "check") \/ Broadcasting(q, "build")
  BY <1>1, <1>9 DEF Broadcasting, Goto
<1>10. CASE SendTransaction(q)
  BY <1>1, <1>10 DEF SendTransaction, Accepted, Refused, AnswerLost, Goto
<1>11. CASE Confirming(q)
  BY <1>1, <1>11 DEF Confirming, Goto
<1>12. CASE Records(q)
  BY <1>1, <1>12 DEF Records, Goto
<1>13. CASE BTCExecute(q)
  <2>1. CASE req[q].pc = "check" /\ Goto(q, "build") /\ UNCHANGED <<onChain, lost>>
    BY <1>1, <2>1 DEF Goto
  <2>. QED  BY <1>5, <1>7, <1>8, <1>9, <1>10, <1>11, <1>12, <1>13, <2>1 DEF BTCExecute, Transfers
<1>14. CASE TakesAddress(q)
  BY <1>7, <1>14 DEF TakesAddress
<1>15. CASE \/ BSCExecuteNativeSweep(q) \/ BSCSweepNativeAddress(q)
            \/ BSCExecuteTokenSweep(q) \/ BSCChecksTokenAddress(q)
            \/ BSCSweepTokenAddress(q)
  BY <1>5, <1>6, <1>8, <1>9, <1>10, <1>11, <1>12, <1>14, <1>15
     DEF BSCExecuteNativeSweep, BSCSweepNativeAddress, BSCExecuteTokenSweep,
         BSCChecksTokenAddress, BSCSweepTokenAddress, Transfers
<1>16. CASE \/ SOLExecuteNativeSweep(q) \/ SOLSweepNativeAddress(q)
            \/ SOLExecuteTokenSweep(q) \/ SOLSweepTokenAddress(q)
  BY <1>5, <1>6, <1>8, <1>9, <1>10, <1>11, <1>12, <1>14, <1>16
     DEF SOLExecuteNativeSweep, SOLSweepNativeAddress, SOLExecuteTokenSweep,
         SOLSweepTokenAddress, Transfers
<1>. QED  BY <1>2, <1>3, <1>4, <1>13, <1>15, <1>16 DEF Accepts, RunsSweep, ExecuteSweepBg

\* Where a transfer is found that was sent.
Found(h) == transactions[h] # {} /\ \E r \in Rows : txState[r].hash = h
Carried(q, h) == req[q].pc \in {"sent", "record"} /\ req[q].hash = h

\* A transfer of the history and of a row stays one.
LEMMA FoundStays ==
  ASSUME Inv, Tale, [Next]_vars, NEW h \in Hashes, Found(h)
  PROVE  Found(h)'
<1>1. PICK r \in Rows : txState[r].hash = h
  BY DEF Found
<1>2. h # NoHash
  BY TxStateAssumption DEF Hashes, Rows
<1>. QED  BY <1>1, <1>2, RecordsStay DEF Found

\* The request that has sent a transfer has it until it is found.
LEMMA CarriedIsFound ==
  ASSUME Inv, Tale, faults = 0, faults' = 0, NEW q \in Requests, NEW h \in Hashes, Carried(q, h),
         Accepts(q) \/ RunsSweep(q)
  PROVE  Carried(q, h)' \/ Found(h)'
<1>1. req \in [Requests -> Request]
  BY DEF Inv, TypeOK, SendTypeOK
<1>2. CASE req[q].pc = "sent"
  <2>1. Goto(q, "record")
    BY <1>2, SweepSends DEF Confirming
  <2>2. req'[q].pc = "record" /\ req'[q].hash = h
    BY <1>1, <2>1 DEF Goto, Request, Carried
  <2>. QED  BY <2>2 DEF Carried
<1>3. CASE req[q].pc = "record"
  <2>1. Exec(InsertTransaction(h))
    BY <1>3, SweepSends DEF Records, Carried
  <2>2. txState' = txState /\ transactions' = [transactions EXCEPT ![h] = @ \cup {"pending"}]
    BY <2>1 DEF Exec, DBFault, InsertTransaction
  <2>3. "pending" \in transactions'[h]
    BY <2>2 DEF Inv, TypeOK, TablesTypeOK
  <2>4. PICK r \in Rows : r = Row(q)
    BY RowIsARow
  <2>5. InHand(r) /\ r[1] = q
    BY <1>3, <2>4 DEF InHand, Row, Holding
  <2>6. txState[r].hash = h
    BY <1>3, <2>5 DEF Tale, Tracked, Carried
  <2>. QED  BY <2>2, <2>3, <2>6 DEF Found
<1>. QED  BY <1>2, <1>3 DEF Carried

\* The request of a row reads and writes nothing of another.
LEMMA OthersCarry ==
  ASSUME Inv, [Next]_vars, Running, Running', NEW q \in Requests, NEW h \in Hashes,
         Carried(q, h), ~ (Accepts(q) \/ RunsSweep(q))
  PROVE  Carried(q, h)'
<1>1. ASSUME NEW p \in Requests, Accepts(p) \/ RunsSweep(p)
      PROVE  req'[q] = req[q]
  BY <1>1, SweepSends
<1>2. CASE UNCHANGED req
  BY <1>2 DEF Carried
<1>3. CASE ShutdownReturns \/ Crash
  BY <1>3 DEF ShutdownReturns, Crash, Running
<1>4. CASE Reconciles
  BY <1>2, <1>4 DEF Reconciles, ReconcileList, ReconcileMark, ReconcileUnhashed,
                    ReconcileCheck, LaunchPolling, ReconcileStops, sendVars
<1>. QED  BY <1>1, <1>2, <1>3, <1>4
          DEF Next, Dismisses, DismissTxState, Mines, Mine, Confirms, PollEnds, PollMarks,
              Shutdown, Restart, sendVars, vars, Carried

\* What is sent anew has been sent by a request, which carries it.
LEMMA SentAnew ==
  ASSUME Inv, [Next]_vars, NEW h \in Hashes, onChain[h] = "unsent", onChain'[h] # "unsent", ~ lost'
  PROVE  \E q \in Requests : Carried(q, h)'
<1>1. onChain \in [Hashes -> Fate] /\ req \in [Requests -> Request]
  BY DEF Inv, TypeOK, SendTypeOK
<1>2. ASSUME NEW q \in Requests, SendTransaction(q)
      PROVE  Carried(q, h)'
  <2>1. CASE Accepted(q)
    <3>1. PICK g \in Signed(q) : /\ onChain' = [onChain EXCEPT ![g] = "mempool"]
                                 /\ req' = [req EXCEPT ![q].pc = "sent", ![q].hash = g]
      BY <2>1 DEF Accepted
    <3>2. g = h
      BY <1>1, <3>1
    <3>3. req'[q].pc = "sent" /\ req'[q].hash = h
      BY <1>1, <3>1, <3>2 DEF Request
    <3>. QED  BY <3>3 DEF Carried
  <2>2. ~ AnswerLost(q) /\ ~ Refused(q)
    BY DEF AnswerLost, Refused
  <2>. QED  BY <1>2, <2>1, <2>2 DEF SendTransaction
<1>3. CASE UNCHANGED onChain
  BY <1>3
<1>4. ASSUME NEW g \in Rows, Mines(g)
      PROVE  FALSE
  BY <1>1, <1>4 DEF Mines, Mine
<1>5. CASE Reconciles
  BY <1>3, <1>5 DEF Reconciles, ReconcileList, ReconcileMark, ReconcileUnhashed,
                    ReconcileCheck, LaunchPolling, ReconcileStops, sendVars
<1>. QED  BY <1>2, <1>3, <1>4, <1>5, SweepSends
          DEF Next, Dismisses, DismissTxState, Confirms, PollEnds, PollMarks,
              Shutdown, ShutdownReturns, Crash, EndProcess, Restart, sendVars, vars

\* The first process is the one that runs without a restart, and a lost
\* answer is not forgotten.
LEMMA FirstProcess ==
  ASSUME Inv, [Next]_vars
  PROVE  /\ restarts' = 0 /\ Running' => restarts = 0 /\ Running
         /\ lost => lost'
<1>1. restarts \in Nat
  BY DEF Inv, TypeOK
<1>2. Restart => restarts' # 0 /\ lost' = lost
  BY <1>1 DEF Restart, sendVars
<1>3. ASSUME NEW q \in Requests, Accepts(q) \/ RunsSweep(q)
      PROVE  UNCHANGED serverVars /\ (lost' = lost \/ lost' = TRUE)
  <2>1. UNCHANGED serverVars
    BY <1>3 DEF Accepts, RunsSweep
  <2>2. CASE UNCHANGED <<onChain, lost>>
    BY <2>1, <2>2
  <2>3. CASE SendTransaction(q)
    BY <2>1, <2>3 DEF SendTransaction, Accepted, Refused, AnswerLost
  <2>. QED  BY <1>3, <2>2, <2>3, SweepSends
<1>4. Reconciles => UNCHANGED <<lost, serverVars>>
  BY DEF Reconciles, ReconcileList, ReconcileMark, ReconcileUnhashed, ReconcileCheck,
         LaunchPolling, ReconcileStops, sendVars
<1>5. ASSUME NEW r \in Rows,
             Dismisses(r) \/ Mines(r) \/ \E p \in Pollers : Confirms(r, p)
      PROVE  UNCHANGED <<lost, serverVars>>
  BY <1>5 DEF Dismisses, DismissTxState, Mines, Mine, Confirms, PollEnds, PollMarks, sendVars
<1>6. Shutdown \/ ShutdownReturns \/ Crash \/ UNCHANGED vars =>
        lost' = lost /\ (Running' => Running) /\ restarts' = restarts
  BY DEF Shutdown, ShutdownReturns, Crash, EndProcess, Running, sendVars, serverVars, vars
<1>7. lost' = lost \/ lost' = TRUE
  BY <1>2, <1>3, <1>4, <1>5, <1>6 DEF Next
<1>8. Restart \/ UNCHANGED serverVars \/ ((Running' => Running) /\ restarts' = restarts)
  BY <1>3, <1>4, <1>5, <1>6 DEF Next
<1>9. restarts' = 0 /\ Running' => restarts = 0 /\ Running
  BY <1>2, <1>8 DEF serverVars, Running
<1>10. lost => lost'
  BY <1>7, Zenon
<1>. QED  BY <1>9, <1>10

\* Each step leaves what was sent with its request, or found.
LEMMA SentStep ==
  ASSUME Inv, TaleInv, SentIsRecorded, [Next]_vars
  PROVE  SentIsRecorded'
<1>1. SentIsRecorded' <=> (restarts' = 0 /\ Running' /\ faults' = 0 /\ ~ lost' =>
        \A h \in Hashes : onChain'[h] # "unsent" =>
            (\E q \in Requests : Carried(q, h)') \/ Found(h)')
  BY DEF SentIsRecorded, Carried, Found
<1>. SUFFICES ASSUME restarts' = 0, Running', faults' = 0, ~ lost',
                     NEW h \in Hashes, onChain'[h] # "unsent"
              PROVE  (\E q \in Requests : Carried(q, h)') \/ Found(h)'
  BY <1>1
<1>2. faults = 0 /\ Tale
  BY NextFaults DEF TaleInv, Inv, TypeOK, TablesTypeOK
<1>3. restarts = 0 /\ Running /\ ~ lost
  BY FirstProcess
<1>4. CASE onChain[h] = "unsent"
  BY <1>4, SentAnew
<1>5. CASE Found(h)
  BY <1>2, <1>5, FoundStays
<1>6. ASSUME NEW q \in Requests, Carried(q, h)
      PROVE  Carried(q, h)' \/ Found(h)'
  BY <1>2, <1>3, <1>6, CarriedIsFound, OthersCarry
<1>7. (\E q \in Requests : Carried(q, h)) \/ Found(h) \/ onChain[h] = "unsent"
  BY <1>2, <1>3 DEF SentIsRecorded, Carried, Found
<1>. QED  BY <1>4, <1>5, <1>6, <1>7

\* A transfer that a provider took is not forgotten while the first process
\* runs on a database that answers: its request still has the hash, or a row
\* and the history have it, for good.
THEOREM SentTransfersAreRecorded == Spec => []SentIsRecorded
<1>1. Init => SentIsRecorded
  BY DEF Init, SendInit, SentIsRecorded
<1>2. Inv /\ TaleInv /\ SentIsRecorded /\ [Next]_vars => SentIsRecorded'
  BY SentStep
<1>. QED  BY <1>1, <1>2, TaleHolds, SendInvariant, PTL DEF Spec

-----------------------------------------------------------------------------
(* A sweep comes to its end                                                 *)

\* How far a request is, among those with the same addresses left.
Stage(pc) ==
    CASE pc = "new" -> 0 [] pc = "retry" -> 1 [] pc = "begin" -> 2 [] pc = "check" -> 3
      [] pc = "build" -> 4 [] pc = "send" -> 5 [] pc = "refused" -> 6 [] pc = "sent" -> 6
      [] pc = "record" -> 7 [] pc = "next" -> 8 [] pc = "unlock" -> 9 [] pc = "done" -> 10

\* A request has fewer addresses left or, with the same, is further on.
Advances(q) ==
    /\ req'[q].todo \subseteq req[q].todo
    /\ req'[q].todo # req[q].todo \/ Stage(req'[q].pc) > Stage(req[q].pc)

\* A step of a sweep between its lock and its unlock: it keeps the lock and the
\* chain, and advances.
LEMMA SweepGoesOn ==
  ASSUME Inv, NEW q \in Requests, ExecuteSweepBg(q)
  PROVE  /\ \A p \in Requests \ {q} : req'[p] = req[p]
         /\ req[q].pc \in Active /\ req'[q].pc \in Active
         /\ req'[q].chain = req[q].chain /\ lock' = lock
         /\ Advances(q)
<1>. DEFINE On == /\ \A p \in Requests \ {q} : req'[p] = req[p]
                  /\ req[q].pc \in Active /\ req'[q].pc \in Active
                  /\ req'[q].chain = req[q].chain /\ lock' = lock
                  /\ Advances(q)
<1>1. req \in [Requests -> Request]
  BY DEF Inv, TypeOK, SendTypeOK
<1>2. ASSUME NEW pc \in {"next", "unlock", "build", "send", "refused", "record"}, Goto(q, pc),
             Stage(pc) > Stage(req[q].pc), req[q].pc \in Active, lock' = lock
      PROVE  On
  BY <1>1, <1>2 DEF Goto, Request, Active, ReqPC, Advances
<1>3. PICK pc \in {"next", "unlock"} : pc = AfterRow(q)
  BY DEF AfterRow
<1>4. CASE GivesUp(q) \/ EntersLoop(q) \/ LeavesLoop(q)
  BY <1>2, <1>4 DEF GivesUp, EntersLoop, LeavesLoop, Active, ReqPC, Stage
<1>5. CASE SkipsAddress(q)
  BY <1>1, <1>5 DEF SkipsAddress, Request, Active, ReqPC, Advances
<1>6. ASSUME NEW w \in Wallets, CreatesRow(q, w),
             req[q].pc = "begin" \/ (req[q].pc = "next" /\ w \in req[q].todo)
      PROVE  On
  <2>1. /\ \A p \in Requests \ {q} : req'[p] = req[p]
        /\ req'[q].pc = "check" /\ req'[q].chain = req[q].chain
        /\ req'[q].todo = req[q].todo \ {w} /\ lock' = lock
    BY <1>1, <1>6 DEF CreatesRow, Request
  <2>. QED  BY <1>6, <2>1 DEF Active, ReqPC, Advances, Stage
<1>7. CASE FailsRow(q, {"check", "build", "refused"}) \/ FailsRow(q, {"check", "refused"})
  BY <1>2, <1>3, <1>7 DEF FailsRow, Active, ReqPC, Stage
<1>8. CASE Broadcasting(q, "check") \/ Broadcasting(q, "build")
  BY <1>2, <1>8 DEF Broadcasting, Active, ReqPC, Stage
<1>9. CASE Confirming(q) \/ Records(q)
  BY <1>2, <1>3, <1>9 DEF Confirming, Records, Active, ReqPC, Stage
<1>10. CASE SendTransaction(q)
  <2>1. CASE Goto(q, "refused")
    BY <1>2, <1>10, <2>1 DEF SendTransaction, Active, ReqPC, Stage
  <2>2. ASSUME NEW h, req' = [req EXCEPT ![q].pc = "sent", ![q].hash = h]
        PROVE  On
    <3>1. /\ \A p \in Requests \ {q} : req'[p] = req[p]
          /\ req'[q].pc = "sent" /\ req'[q].chain = req[q].chain
          /\ req'[q].todo = req[q].todo
      BY <1>1, <2>2 DEF Request
    <3>. QED  BY <1>10, <3>1 DEF SendTransaction, Active, ReqPC, Advances, Stage
  <2>. QED  BY <1>10, <2>1, <2>2 DEF SendTransaction, Accepted, Refused, AnswerLost
<1>11. CASE BTCExecute(q)
  <2>1. CASE req[q].pc = "check" /\ Goto(q, "build") /\ lock' = lock
    BY <1>2, <2>1 DEF Active, ReqPC, Stage
  <2>. QED  BY <1>4, <1>6, <1>7, <1>8, <1>9, <1>10, <1>11, <2>1, SweepAssumption
            DEF BTCExecute, Transfers
<1>12. CASE TakesAddress(q)
  BY <1>1, <1>6, <1>12 DEF TakesAddress, Request
<1>13. CASE \/ BSCExecuteNativeSweep(q) \/ BSCSweepNativeAddress(q)
            \/ BSCExecuteTokenSweep(q) \/ BSCChecksTokenAddress(q)
            \/ BSCSweepTokenAddress(q)
  BY <1>4, <1>5, <1>7, <1>8, <1>9, <1>10, <1>12, <1>13
     DEF BSCExecuteNativeSweep, BSCSweepNativeAddress, BSCExecuteTokenSweep,
         BSCChecksTokenAddress, BSCSweepTokenAddress, Transfers
<1>14. CASE \/ SOLExecuteNativeSweep(q) \/ SOLSweepNativeAddress(q)
            \/ SOLExecuteTokenSweep(q) \/ SOLSweepTokenAddress(q)
  BY <1>4, <1>5, <1>7, <1>8, <1>9, <1>10, <1>12, <1>14
     DEF SOLExecuteNativeSweep, SOLSweepNativeAddress, SOLExecuteTokenSweep,
         SOLSweepTokenAddress, Transfers
<1>. QED  BY <1>11, <1>13, <1>14 DEF ExecuteSweepBg

\* Who changes the requests and the locks.
LEMMA RequestSteps ==
  ASSUME [Next]_vars
  PROVE  \/ \E q \in Requests : Accepts(q) \/ RunsSweep(q)
         \/ EndProcess
         \/ UNCHANGED <<req, lock>>
<1>1. ASSUME NEW r \in Rows, Dismisses(r) \/ Mines(r) \/ \E p \in Pollers : Confirms(r, p)
      PROVE  UNCHANGED <<req, lock>>
  BY <1>1 DEF Dismisses, DismissTxState, Mines, Mine, Confirms, PollEnds, PollMarks, sendVars
<1>2. Reconciles => UNCHANGED <<req, lock>>
  BY DEF Reconciles, ReconcileList, ReconcileMark, ReconcileUnhashed, ReconcileCheck,
         LaunchPolling, ReconcileStops, sendVars
<1>3. Shutdown \/ Restart \/ UNCHANGED vars => UNCHANGED <<req, lock>>
  BY DEF Shutdown, Restart, sendVars, vars
<1>. QED  BY <1>1, <1>2, <1>3 DEF Next, ShutdownReturns, Crash

\* Every lock is held by a sweep of its chain that has not ended: no early
\* return of an engine, no crash and no lost request leaves one behind.
Held ==
    \A c \in Chains : lock[c] # NoRequest =>
        req[lock[c]].pc \in Active /\ req[lock[c]].chain = c

\* A request that takes the lock of c, or none.
LEMMA TakesLock ==
  ASSUME Inv, Held, NEW q \in Requests, NEW c \in Chains, req[q].pc \in {"new", "retry"},
         \A p \in Requests \ {q} : req'[p] = req[p],
         \/ lock' = [lock EXCEPT ![c] = q] /\ req'[q].pc = "begin" /\ req'[q].chain = c
         \/ lock' = lock
  PROVE  Held'
<1>1. lock \in [Chains -> Requests \cup {NoRequest}]
  BY DEF Inv, TypeOK, SendTypeOK
<1>2. \A d \in Chains : lock[d] # q
  BY SweepAssumption DEF Held, Active
<1>. QED  BY <1>1, <1>2 DEF Held, Active, ReqPC

\* Every way into a sweep takes the lock, every way out gives it back.
LEMMA HeldStep ==
  ASSUME Inv, Held, [Next]_vars
  PROVE  Held'
<1>1. /\ req \in [Requests -> Request]
      /\ lock \in [Chains -> Requests \cup {NoRequest}]
  BY DEF Inv, TypeOK, SendTypeOK
<1>2. ASSUME NEW q \in Requests, ExecuteSend(q)
      PROVE  Held'
  <2>1. PICK c \in Chains, t \in Tokens, todo \in SUBSET Wallets :
          /\ lock' = [lock EXCEPT ![c] = q]
          /\ req' = [req EXCEPT ![q].pc = "begin", ![q].chain = c, ![q].token = t,
                                ![q].todo = todo]
    BY <1>2 DEF ExecuteSend
  <2>2. /\ req'[q].pc = "begin" /\ req'[q].chain = c
        /\ \A p \in Requests \ {q} : req'[p] = req[p]
    BY <1>1, <2>1 DEF Request
  <2>. QED  BY <1>2, <2>1, <2>2, TakesLock DEF ExecuteSend
<1>3. ASSUME NEW q \in Requests, ResumeRead(q)
      PROVE  Held'
  <2>1. PICK c \in Chains : TRUE
    BY DEF Chains
  <2>. QED  BY <1>1, <1>3, <2>1, TakesLock DEF ResumeRead
<1>4. ASSUME NEW q \in Requests, ResumeLock(q)
      PROVE  Held'
  <2>1. PICK c \in Chains : c = req[q].chain
    BY <1>1 DEF Request
  <2>2. ASSUME NEW funded, req' = [req EXCEPT ![q].pc = "begin", ![q].todo = funded]
        PROVE  /\ req'[q].pc = "begin" /\ req'[q].chain = c
               /\ \A p \in Requests \ {q} : req'[p] = req[p]
    BY <1>1, <2>1, <2>2 DEF Request
  <2>3. CASE Goto(q, "done") /\ lock' = lock
    BY <1>1, <1>4, <2>1, <2>3, TakesLock DEF ResumeLock, Goto
  <2>. QED  BY <1>4, <2>1, <2>2, <2>3, TakesLock DEF ResumeLock
<1>5. ASSUME NEW q \in Requests, Unlock(q)
      PROVE  Held'
  <2>1. PICK c \in Chains : c = req[q].chain /\ lock' = [lock EXCEPT ![c] = NoRequest]
    BY <1>1, <1>5 DEF Unlock, Request
  <2>2. \A p \in Requests \ {q} : req'[p] = req[p]
    BY <1>1, <1>5 DEF Unlock, Goto
  <2>3. \A d \in Chains : lock[d] = q => d = c
    BY <2>1, SweepAssumption DEF Held
  <2>. QED  BY <1>1, <2>1, <2>2, <2>3 DEF Held
<1>6. ASSUME NEW q \in Requests, ExecuteSweepBg(q)
      PROVE  Held'
  <2>1. \A p \in Requests : /\ req'[p].chain = req[p].chain
                            /\ req[p].pc \in Active => req'[p].pc \in Active
    BY <1>6, SweepGoesOn
  <2>. QED  BY <1>1, <1>6, <2>1, SweepGoesOn DEF Held
<1>7. CASE EndProcess
  BY <1>7 DEF EndProcess, Held
<1>8. CASE UNCHANGED <<req, lock>>
  BY <1>8 DEF Held
<1>. QED  BY <1>2, <1>3, <1>4, <1>5, <1>6, <1>7, <1>8, RequestSteps DEF Accepts, RunsSweep

\* What LocksAreReleased rests on: a chain is locked only while a sweep of it
\* is still to reach its unlock.
THEOREM LocksAreHeld == Spec => []Held
<1>1. Init => Held
  BY DEF Init, SendInit, Held
<1>2. Inv /\ Held /\ [Next]_vars => Held'
  BY HeldStep
<1>. QED  BY <1>1, <1>2, SendInvariant, PTL DEF Spec

\* A request that a step is not about.
Rests(q) == req'[q].pc = req[q].pc /\ req'[q].todo = req[q].todo

\* Whatever the step, a request that was accepted advances by it or is not
\* concerned.
LEMMA RequestsAdvance ==
  ASSUME Inv, [Next]_vars, NEW q \in Requests, req[q].pc # "new"
  PROVE  Rests(q) \/ Advances(q)
<1>1. req \in [Requests -> Request]
  BY DEF Inv, TypeOK, SendTypeOK
<1>2. ASSUME NEW p \in Requests, Accepts(p) \/ RunsSweep(p), p # q
      PROVE  req'[q] = req[q]
  BY <1>2, SweepSends
<1>9. req'[q] = req[q] => Rests(q)
  BY DEF Rests
<1>3. CASE Accepts(q)
  BY <1>3 DEF Accepts, ExecuteSend, ResumeRead
<1>4. CASE ResumeLock(q)
  <2>1. CASE Goto(q, "done")
    <3>1. req'[q].pc = "done" /\ req'[q].todo = req[q].todo
      BY <1>1, <2>1 DEF Goto, Request
    <3>. QED  BY <1>4, <3>1 DEF ResumeLock, Advances, Stage
  <2>2. ASSUME NEW funded \in SUBSET req[q].todo,
               req' = [req EXCEPT ![q].pc = "begin", ![q].todo = funded]
        PROVE  Advances(q)
    <3>1. req'[q].pc = "begin" /\ req'[q].todo = funded
      BY <1>1, <2>2 DEF Request
    <3>. QED  BY <1>4, <3>1 DEF ResumeLock, Advances, Stage
  <2>. QED  BY <1>4, <2>1, <2>2 DEF ResumeLock
<1>5. CASE Unlock(q)
  <2>1. req'[q].pc = "done" /\ req'[q].todo = req[q].todo
    BY <1>1, <1>5 DEF Unlock, Goto, Request
  <2>. QED  BY <1>5, <2>1 DEF Unlock, Advances, Stage
<1>6. CASE ExecuteSweepBg(q)
  BY <1>6, SweepGoesOn
<1>7. CASE EndProcess
  <2>1. req'[q] = [req[q] EXCEPT !.pc = "done", !.todo = {}]
    BY <1>7 DEF EndProcess
  <2>2. req[q] \in Request
    BY <1>1
  <2>3. req'[q].pc = "done" /\ req'[q].todo = {}
    BY <2>1, <2>2 DEF Request
  <2>4. CASE req[q].pc = "done" /\ req[q].todo = {}
    BY <2>3, <2>4 DEF Rests
  <2>5. CASE req[q].pc # "done"
    <3>1. req[q].pc \in ReqPC
      BY <2>2 DEF Request
    <3>. QED  BY <2>3, <2>5, <3>1 DEF Advances, Stage, ReqPC
  <2>. QED  BY <2>3, <2>4, <2>5 DEF Advances
<1>8. CASE UNCHANGED req
  BY <1>8 DEF Rests
<1>. QED  BY <1>2, <1>9, <1>3, <1>4, <1>5, <1>6, <1>7, <1>8, RequestSteps DEF RunsSweep

\* An accepted request never goes round in circles: every step of it uses up
\* an address or takes the one in hand further, so that a sweep of finitely
\* many addresses has finitely many steps.
SweepsAdvance == [][\A q \in Requests : req[q].pc # "new" => Rests(q) \/ Advances(q)]_vars

\* No engine, on any of its error paths, comes back to an address it has done.
THEOREM SweepsTerminate == Spec => SweepsAdvance
<1>1. Inv /\ [Next]_vars =>
        [\A q \in Requests : req[q].pc # "new" => Rests(q) \/ Advances(q)]_vars
  BY RequestsAdvance
<1>. QED  BY <1>1, SendInvariant, PTL DEF Spec, SweepsAdvance

-----------------------------------------------------------------------------
(* The server implements TransferLifecycle: a lock taken, a lock given back, *)
(* a broadcast, a mined or reverted transfer and the end of the process are *)
(* its steps; all else reports verdicts or stutters.                        *)

AbstractStep == [Lifecycle!Next]_(Lifecycle!vars)

\* A step that leaves the sweeps and the chains alone may only report: what is
\* called confirmed after it is what was mined before it.
LEMMA Reports ==
  ASSUME Inv', UNCHANGED onChain, \A c \in Chains : SweptBy(c)' = SweptBy(c)
  PROVE  AbstractStep
<1>1. ASSUME NEW h \in Hashes, h \in Called'
      PROVE  onChain[h] = "mined"
  BY <1>1 DEF Called, Inv, ConfirmedIsMined
<1>2. Called' \subseteq Hashes
  BY DEF Called
<1>3. Lifecycle!Report
  BY <1>1, <1>2 DEF Lifecycle!Report, Lifecycle!Transfers, Hashes, Rows
<1>. QED  BY <1>3 DEF AbstractStep, Lifecycle!Next

\* The requests that sweep, when one request makes a step.
LEMMA SweptFacts ==
  ASSUME Inv, NEW q \in Requests, \A p \in Requests \ {q} : req'[p] = req[p], NEW c \in Chains
  PROVE  SweptBy(c)' = IF req'[q].pc \in Active /\ req'[q].chain = c
                       THEN SweptBy(c) \cup {q} ELSE SweptBy(c) \ {q}
  BY DEF SweptBy

\* A request that goes on with its sweep.
LEMMA SweepsOn ==
  ASSUME Inv, NEW q \in Requests, \A p \in Requests \ {q} : req'[p] = req[p],
         req'[q].chain = req[q].chain, req'[q].pc \in Active <=> req[q].pc \in Active
  PROVE  \A c \in Chains : SweptBy(c)' = SweptBy(c)
<1>1. \A p \in Requests : /\ req'[p].chain = req[p].chain
                          /\ req'[p].pc \in Active <=> req[p].pc \in Active
  OBVIOUS
<1>. QED  BY <1>1 DEF SweptBy

\* Whoever takes the lock of a chain finds no sweep of it, and has sent nothing.
LEMMA Begins ==
  ASSUME Inv, NEW q \in Requests, NEW c \in Chains, lock[c] = NoRequest,
         req[q].pc \in {"new", "retry"}, \A p \in Requests \ {q} : req'[p] = req[p],
         req'[q].pc = "begin", req'[q].chain = c, UNCHANGED <<tableVars, onChain>>
  PROVE  AbstractStep
<1>1. SweptBy(c) = {}
  BY SweepAssumption DEF Inv, Locked, SweptBy
<1>2. \A d \in Chains : q \notin SweptBy(d)
  BY DEF SweptBy, Active
<1>3. \A d \in Chains : SweptBy(d)' = IF d = c THEN {q} ELSE SweptBy(d)
  BY <1>1, <1>2, SweptFacts DEF Active, ReqPC
<1>4. \A w \in Wallets : onChain[<<q, w>>] = "unsent"
  BY DEF Inv, Fresh, FreshLocals
<1>5. Called' = Called
  BY DEF Called, tableVars
<1>6. Lifecycle!Begin(q, c)
  BY <1>1, <1>3, <1>4, <1>5 DEF Lifecycle!Begin
<1>. QED  BY <1>6 DEF AbstractStep, Lifecycle!Next

\* The handlers: a send that finds the lock free begins a sweep.
LEMMA AcceptsRefines ==
  ASSUME Inv, Inv', NEW q \in Requests, Accepts(q)
  PROVE  AbstractStep
<1>1. req \in [Requests -> Request] /\ onChain' = onChain
  BY DEF Inv, TypeOK, SendTypeOK, Accepts, ExecuteSend, ResumeRead
<1>2. CASE ExecuteSend(q)
  <2>1. PICK c \in Chains, t \in Tokens, todo \in SUBSET Wallets :
          /\ lock[c] = NoRequest
          /\ req' = [req EXCEPT ![q].pc = "begin", ![q].chain = c, ![q].token = t,
                                ![q].todo = todo]
    BY <1>2 DEF ExecuteSend
  <2>2. /\ req'[q].pc = "begin" /\ req'[q].chain = c
        /\ \A p \in Requests \ {q} : req'[p] = req[p]
    BY <1>1, <2>1 DEF Request
  <2>. QED  BY <1>1, <1>2, <2>1, <2>2, Begins DEF ExecuteSend
<1>3. CASE ResumeRead(q)
  <2>1. /\ req[q].pc = "new" /\ req'[q].pc = "retry"
        /\ \A p \in Requests \ {q} : req'[p] = req[p]
    BY <1>1, <1>3 DEF ResumeRead, Request
  <2>2. \A c \in Chains : SweptBy(c)' = SweptBy(c) \ {q} /\ q \notin SweptBy(c)
    BY <2>1, SweptFacts DEF Active, SweptBy
  <2>. QED  BY <1>1, <2>2, Reports
<1>. QED  BY <1>2, <1>3 DEF Accepts

\* A resume that finds the lock free begins, the other is answered 409.
LEMMA ResumeLockRefines ==
  ASSUME Inv, Inv', NEW q \in Requests, ResumeLock(q)
  PROVE  AbstractStep
<1>1. req \in [Requests -> Request] /\ UNCHANGED <<tableVars, onChain>> /\ req[q].pc = "retry"
  BY DEF Inv, TypeOK, SendTypeOK, ResumeLock
<1>2. req[q].chain \in Chains
  BY <1>1 DEF Request
<1>3. ASSUME NEW funded \in SUBSET req[q].todo, lock[req[q].chain] = NoRequest,
             req' = [req EXCEPT ![q].pc = "begin", ![q].todo = funded]
      PROVE  AbstractStep
  <2>1. /\ req'[q].pc = "begin" /\ req'[q].chain = req[q].chain
        /\ \A p \in Requests \ {q} : req'[p] = req[p]
    BY <1>1, <1>3 DEF Request
  <2>. QED  BY <1>1, <1>2, <1>3, <2>1, Begins
<1>4. CASE Goto(q, "done")
  <2>1. /\ req'[q].pc = "done" /\ req'[q].chain = req[q].chain
        /\ \A p \in Requests \ {q} : req'[p] = req[p]
    BY <1>1, <1>4 DEF Goto, Request
  <2>. QED  BY <1>1, <2>1, SweepsOn, Reports DEF Active
<1>. QED  BY <1>3, <1>4 DEF ResumeLock

\* The lock is given back: the sweep that ends is the only one of the chain.
LEMMA UnlockRefines ==
  ASSUME Inv, NEW q \in Requests, Unlock(q)
  PROVE  AbstractStep
<1>1. req \in [Requests -> Request] /\ UNCHANGED <<tableVars, onChain>> /\ req[q].pc = "unlock"
  BY DEF Inv, TypeOK, SendTypeOK, Unlock
<1>2. PICK c \in Chains : c = req[q].chain
  BY <1>1 DEF Request
<1>3. req'[q].pc = "done" /\ \A p \in Requests \ {q} : req'[p] = req[p]
  BY <1>1 DEF Unlock, Goto, Request
<1>4. SweptBy(c) = {q} /\ \A d \in Chains \ {c} : q \notin SweptBy(d)
  BY <1>1, <1>2 DEF SweptBy, Active, ReqPC, Inv, Locked
<1>5. \A d \in Chains : SweptBy(d)' = IF d = c THEN {} ELSE SweptBy(d)
  BY <1>3, <1>4, SweptFacts DEF Active
<1>6. Called' = Called
  BY <1>1 DEF Called, tableVars
<1>7. Lifecycle!End(q, c)
  BY <1>1, <1>4, <1>5, <1>6 DEF Lifecycle!End
<1>. QED  BY <1>7 DEF AbstractStep, Lifecycle!Next

\* A broadcast that reaches a provider sends the transfer of the row, for the
\* first time, or finds the one it repeats in the mempool.
LEMMA SendRefines ==
  ASSUME Inv, Inv', NEW q \in Requests, SendTransaction(q)
  PROVE  AbstractStep
<1>1. /\ req \in [Requests -> Request] /\ onChain \in [Hashes -> Fate]
      /\ req[q].pc = "send" /\ UNCHANGED tableVars
  BY DEF Inv, TypeOK, SendTypeOK, SendTransaction
<1>2. /\ req'[q].chain = req[q].chain /\ req'[q].pc \in {"sent", "refused"}
      /\ \A p \in Requests \ {q} : req'[p] = req[p]
  BY <1>1 DEF SendTransaction, Accepted, Refused, AnswerLost, Goto, Request
<1>3. \A c \in Chains : SweptBy(c)' = SweptBy(c)
  BY <1>1, <1>2, SweepsOn DEF Active, ReqPC
<1>4. PICK c \in Chains, w \in Wallets : c = req[q].chain /\ w = req[q].from
  BY <1>1 DEF Request
<1>5. q \in SweptBy(c) /\ Row(q) = <<q, w>> /\ onChain[<<q, w>>] = "unsent"
  BY <1>1, <1>4 DEF SweptBy, Active, ReqPC, Row, Inv, Fresh, FreshLocals
<1>6. CASE onChain' = [onChain EXCEPT ![Row(q)] = "mempool"]
  <2>1. Called' = Called
    BY <1>1 DEF Called, tableVars
  <2>2. Lifecycle!Send(q, c, w)
    BY <1>3, <1>5, <1>6, <2>1 DEF Lifecycle!Send
  <2>. QED  BY <2>2 DEF AbstractStep, Lifecycle!Next
<1>7. CASE onChain' = onChain
  BY <1>3, <1>7, Reports
<1>8. ASSUME NEW h \in Signed(q), onChain' = [onChain EXCEPT ![h] = "mempool"]
      PROVE  AbstractStep
  <2>1. CASE h = Row(q)
    BY <1>6, <1>8, <2>1
  <2>2. CASE onChain[h] = "mempool"
    BY <1>1, <1>7, <1>8, <2>2
  <2>. QED  BY <1>8, <2>1, <2>2 DEF Signed
<1>. QED  BY <1>6, <1>7, <1>8 DEF SendTransaction, Accepted, Refused, AnswerLost

\* A step of a sweep between its lock and its unlock: a broadcast, or none
\* that the abstract specification tells apart.
LEMMA SweepRefines ==
  ASSUME Inv, Inv', NEW q \in Requests, ExecuteSweepBg(q), RunsSweep(q)
  PROVE  AbstractStep
<1>1. CASE SendTransaction(q)
  BY <1>1, SendRefines
<1>2. CASE UNCHANGED onChain
  BY <1>2, SweepGoesOn, SweepsOn, Reports
<1>. QED  BY <1>1, <1>2, SweepSends

\* The end of a process ends its sweeps, wherever they were.
LEMMA EndProcessRefines ==
  ASSUME Inv, EndProcess
  PROVE  AbstractStep
<1>1. req \in [Requests -> Request]
  BY DEF Inv, TypeOK, SendTypeOK
<1>2. \A q \in Requests : req'[q].pc \notin Active
  BY <1>1 DEF EndProcess, Active, Request
<1>3. \A c \in Chains : SweptBy(c)' = {}
  BY <1>2 DEF SweptBy
<1>4. Called' = Called /\ onChain' = onChain
  BY DEF EndProcess, Called, tableVars
<1>5. Lifecycle!Abort
  BY <1>3, <1>4 DEF Lifecycle!Abort
<1>. QED  BY <1>5 DEF AbstractStep, Lifecycle!Next

\* What the chain makes of a transfer, it makes of one in its mempool.
LEMMA MineRefines ==
  ASSUME Inv, NEW h \in Rows, Mines(h)
  PROVE  AbstractStep
<1>1. \A c \in Chains : SweptBy(c)' = SweptBy(c)
  BY DEF Mines, Mine, SweptBy
<1>2. Called' = Called
  BY DEF Mines, Mine, Called, tableVars
<1>3. Lifecycle!Settle(h)
  BY <1>1, <1>2 DEF Mines, Mine, Lifecycle!Settle
<1>. QED  BY <1>3 DEF AbstractStep, Lifecycle!Next, Lifecycle!Transfers, Rows

\* Every step of the server is one of the abstract specification, or none.
LEMMA NextRefines ==
  ASSUME Inv, Inv', [Next]_vars
  PROVE  AbstractStep
<1>1. ASSUME UNCHANGED <<req, onChain>>
      PROVE  AbstractStep
  BY <1>1, Reports DEF SweptBy
<1>2. ASSUME NEW q \in Requests, RunsSweep(q)
      PROVE  AbstractStep
  BY <1>2, ResumeLockRefines, SweepRefines, UnlockRefines DEF RunsSweep
<1>3. ASSUME NEW r \in Rows, Dismisses(r) \/ \E p \in Pollers : Confirms(r, p)
      PROVE  AbstractStep
  BY <1>1, <1>3 DEF Dismisses, DismissTxState, Confirms, PollEnds, PollMarks, sendVars
<1>4. CASE Reconciles
  BY <1>1, <1>4 DEF Reconciles, ReconcileList, ReconcileMark, ReconcileUnhashed,
                    ReconcileCheck, LaunchPolling, ReconcileStops, sendVars
<1>5. CASE Shutdown \/ Restart \/ UNCHANGED vars
  BY <1>1, <1>5 DEF Shutdown, Restart, sendVars, vars
<1>6. CASE ShutdownReturns \/ Crash
  BY <1>6, EndProcessRefines DEF ShutdownReturns, Crash
<1>. QED  BY <1>2, <1>3, <1>4, <1>5, <1>6, AcceptsRefines, MineRefines DEF Next

\* The server implements its promise: one sweep of a chain at a time, each
\* transfer sent once and by its own sweep, fates that are final, and nothing
\* called confirmed that was not mined - for any requests and addresses, any
\* faults, lost answers, crashes and restarts.
THEOREM RefinesTransferLifecycle == Spec => ImplementsTransferLifecycle
<1>1. Init => Lifecycle!Init
  <2>. SUFFICES ASSUME Init PROVE Lifecycle!Init
    OBVIOUS
  <2>1. \A c \in Chains : SweptBy(c) = {}
    BY DEF Init, SendInit, SweptBy, Active
  <2>2. Called = {}
    BY DEF Init, TablesInit, Called
  <2>. QED  BY <2>1, <2>2 DEF Lifecycle!Init, Lifecycle!Transfers, Init, SendInit, Hashes, Rows
<1>2. Inv /\ Inv' /\ [Next]_vars => [Lifecycle!Next]_(Lifecycle!vars)
  BY NextRefines DEF AbstractStep
<1>. QED  BY <1>1, <1>2, SendInvariant, PTL DEF Spec, ImplementsTransferLifecycle, Lifecycle!Spec

=============================================================================
