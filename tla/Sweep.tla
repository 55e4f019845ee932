------------------------------- MODULE Sweep -------------------------------
(***************************************************************************)
(* The send handlers and the engines that move the funds of the wallet:    *)
(* one goroutine per request under the lock of its chain, and one more per *)
(* transfer that waits for its confirmation.                               *)
(*                                                                         *)
(* A step is one database statement or one broadcast, with the reads that  *)
(* precede it: they change nothing, and what they may answer is a choice.  *)
(* A wait and the statement that records its verdict are one step too,     *)
(* because a verdict that was possible stays possible: a timeout always    *)
(* is, and a transfer that was mined or reverted stays so.                 *)
(***************************************************************************)
EXTENDS TxStateDB

CONSTANTS
    First,      \* the wallet address with index 0
    NoRequest   \* the holder of a free lock

ASSUME SweepAssumption ==
    /\ First \in Wallets
    /\ NoRequest \notin Requests

VARIABLES
    lock,       \* [Chains -> Requests \cup {NoRequest}]: SendDeps.ChainLocks
    req,        \* [Requests -> locals of the handler and of its sweep]
    poll,       \* [Rows -> [Pollers -> a confirmation goroutine of the row]]
    onChain,    \* [Hashes -> what the chain made of the transfer]
    lost        \* history: a broadcast was accepted and reported as an error

sendVars == <<lock, req, poll, onChain, lost>>

ReqPC == {"new", "retry", "begin", "next", "check", "build", "send", "refused",
          "sent", "record", "unlock", "done"}
Request == [pc : ReqPC, resume : BOOLEAN, chain : Chains, token : Tokens,
            todo : SUBSET Wallets, from : Wallets, hash : Hashes \cup {NoHash}]
Pollers == {"sweep", "reconciler"}
Poll == [pc : {"idle", "wait", "mark"}, hash : Hashes \cup {NoHash},
         status : {"confirming"} \cup Verdicts]
NoPoll == [pc |-> "idle", hash |-> NoHash, status |-> "confirming"]
Fate == {"unsent", "mempool", "mined", "reverted"}

SendTypeOK ==
    /\ lock \in [Chains -> Requests \cup {NoRequest}]
    /\ req \in [Requests -> Request]
    /\ poll \in [Rows -> [Pollers -> Poll]]
    /\ onChain \in [Hashes -> Fate]
    /\ lost \in BOOLEAN

SendInit ==
    /\ lock = [c \in Chains |-> NoRequest]
    /\ req = [q \in Requests |-> [pc |-> "new", resume |-> FALSE, chain |-> "BTC",
                token |-> "NATIVE", todo |-> {}, from |-> First, hash |-> NoHash]]
    /\ poll = [r \in Rows |-> [p \in Pollers |-> NoPoll]]
    /\ onChain = [h \in Hashes |-> "unsent"]
    /\ lost = FALSE

Row(q) == <<q, req[q].from>>
Sweeps(q, c, t) == req[q].chain = c /\ req[q].token = t

\* BTC sends one transfer for all addresses and returns after it.
AfterRow(q) == IF req[q].chain = "BTC" THEN "unlock" ELSE "next"

Goto(q, pc) == req' = [req EXCEPT ![q].pc = pc]

-----------------------------------------------------------------------------
(* The handlers *)

\* A request that finds the lock taken is answered 409 and changes nothing.
ExecuteSend(q) ==
    /\ req[q].pc = "new"
    /\ \E c \in Chains, t \in Tokens, funded \in SUBSET Wallets \ {{}} :
          /\ c = "BTC" => t = "NATIVE"
          /\ lock[c] = NoRequest
          /\ lock' = [lock EXCEPT ![c] = q]
          /\ req' = [req EXCEPT ![q].pc = "begin", ![q].chain = c,
                                ![q].token = t, ![q].todo = funded]
    /\ UNCHANGED <<tableVars, poll, onChain, lost>>

\* The rows to retry are read before the lock is taken ...
ResumeRead(q) ==
    /\ req[q].pc = "new"
    /\ \E s \in Requests :
          /\ GetRetryableTxStates(s) # {}
          /\ \E meta \in SweepRows(s) :
                req' = [req EXCEPT ![q].pc = "retry", ![q].resume = TRUE,
                            ![q].chain = txState[meta].chain,
                            ![q].token = txState[meta].token,
                            ![q].todo = {r[2] : r \in GetRetryableTxStates(s)}]
    /\ UNCHANGED <<tableVars, lock, poll, onChain, lost>>

\* Mutant: the lock is taken without looking.
ResumeLockUnheldMutant(q) ==
    /\ req[q].pc = "retry"
    /\ lock' = [lock EXCEPT ![req[q].chain] = q]
    /\ \E funded \in SUBSET req[q].todo :
          req' = [req EXCEPT ![q].pc = "begin", ![q].todo = funded]
    /\ UNCHANGED <<tableVars, poll, onChain, lost>>

\* ... and of their addresses those still funded are swept again.
ResumeLock(q) ==
    /\ req[q].pc = "retry"
    /\ LET c == req[q].chain IN
       \/ /\ lock[c] = NoRequest
          /\ lock' = [lock EXCEPT ![c] = q]
          /\ \E funded \in SUBSET req[q].todo :
                req' = [req EXCEPT ![q].pc = "begin", ![q].todo = funded]
       \/ /\ lock[c] # NoRequest
          /\ Goto(q, "done")
          /\ UNCHANGED lock
    /\ UNCHANGED <<tableVars, poll, onChain, lost>>

\* The deferred mu.Unlock, on every way out of the sweep.
Unlock(q) ==
    /\ req[q].pc = "unlock"
    /\ lock' = [lock EXCEPT ![req[q].chain] = NoRequest]
    /\ Goto(q, "done")
    /\ UNCHANGED <<tableVars, poll, onChain, lost>>

DismissTxState(r) ==
    /\ txState[r].status # "absent"
    /\ UpdateTxStatus(r, "dismissed", NoHash)
    /\ UNCHANGED <<faults, sendVars>>

-----------------------------------------------------------------------------
(* Steps that every engine has *)

\* Mutant: an early return that skips the unlock.
GivesUpLockedMutant(q) ==
    /\ req[q].pc = "begin"
    /\ Goto(q, "done")
    /\ UNCHANGED <<tableVars, lock, poll, onChain, lost>>

\* An engine that fails before its loop, or a resume whose addresses cannot be read:
\* nothing was written.
GivesUp(q) ==
    /\ req[q].pc = "begin"
    /\ Goto(q, "unlock")
    /\ UNCHANGED <<tableVars, lock, poll, onChain, lost>>

EntersLoop(q) ==
    /\ req[q].pc = "begin"
    /\ Goto(q, "next")
    /\ UNCHANGED <<tableVars, lock, poll, onChain, lost>>

\* The loop ends with its addresses, or when the context of a resume request
\* is cancelled; the one of a background sweep never is.
LeavesLoop(q) ==
    /\ req[q].pc = "next"
    /\ req[q].todo = {} \/ req[q].resume
    /\ Goto(q, "unlock")
    /\ UNCHANGED <<tableVars, lock, poll, onChain, lost>>

\* An address that fails before a row is created for it.
SkipsAddress(q) ==
    /\ req[q].pc = "next"
    /\ \E w \in req[q].todo : req' = [req EXCEPT ![q].todo = @ \ {w}]
    /\ UNCHANGED <<tableVars, lock, poll, onChain, lost>>

CreatesRow(q, w) ==
    /\ Exec(CreateTxState(<<q, w>>, req[q].chain, req[q].token))
    /\ req' = [req EXCEPT ![q].pc = "check", ![q].from = w, ![q].todo = @ \ {w}]
    /\ UNCHANGED <<lock, poll, onChain, lost>>

TakesAddress(q) ==
    /\ req[q].pc = "next"
    /\ \E w \in req[q].todo : CreatesRow(q, w)

\* A balance, key, nonce, blockhash, fee or signature that fails.
FailsRow(q, pcs) ==
    /\ req[q].pc \in pcs
    /\ Exec(UpdateTxStatus(Row(q), "failed", NoHash))
    /\ Goto(q, AfterRow(q))
    /\ UNCHANGED <<lock, poll, onChain, lost>>

Broadcasting(q, pc) ==
    /\ req[q].pc = pc
    /\ Exec(UpdateTxStatus(Row(q), "broadcasting", NoHash))
    /\ Goto(q, "send")
    /\ UNCHANGED <<lock, poll, onChain, lost>>

\* The hashes a transfer may have: its own, and on SOL, where the blockhash is
\* cached, that of the same transfer sent a moment ago.
Signed(q) ==
    {Row(q)} \cup
    {h \in Hashes : /\ req[q].chain = "SOL" /\ h[2] = req[q].from
                    /\ Sweeps(h[1], "SOL", req[q].token) /\ onChain[h] = "mempool"}

Accepted(q) ==
    /\ \E h \in Signed(q) :
          /\ onChain' = [onChain EXCEPT ![h] = "mempool"]
          /\ req' = [req EXCEPT ![q].pc = "sent", ![q].hash = h]
    /\ UNCHANGED lost

\* Every provider, or both RPC nodes, answered with an error ...
Refused(q) == Goto(q, "refused") /\ UNCHANGED <<onChain, lost>>

\* ... and an error may be a lost answer of one that took the transfer.
AnswerLost(q) ==
    /\ onChain' = [onChain EXCEPT ![Row(q)] = "mempool"]
    /\ lost' = TRUE
    /\ Goto(q, "refused")

SendTransaction(q) ==
    /\ req[q].pc = "send"
    /\ Accepted(q) \/ Refused(q) \/ AnswerLost(q)
    /\ UNCHANGED <<tableVars, lock, poll>>

Confirming(q) ==
    /\ req[q].pc = "sent"
    /\ Exec(UpdateTxStatus(Row(q), "confirming", req[q].hash))
    /\ Goto(q, "record")
    /\ UNCHANGED <<lock, poll, onChain, lost>>

Waits(p, r, h) ==
    poll' = [poll EXCEPT ![r][p] = [NoPoll EXCEPT !.pc = "wait", !.hash = h]]

\* The history row, then the goroutine that waits for the confirmation.
Records(q) ==
    /\ req[q].pc = "record"
    /\ Exec(InsertTransaction(req[q].hash))
    /\ Waits("sweep", Row(q), req[q].hash)
    /\ Goto(q, AfterRow(q))
    /\ UNCHANGED <<lock, onChain, lost>>

Transfers(q) == SendTransaction(q) \/ Confirming(q) \/ Records(q)

-----------------------------------------------------------------------------
(* The engines *)

\* The row comes before anything that can fail, once a resume has its addresses.
BTCExecute(q) ==
    /\ Sweeps(q, "BTC", "NATIVE")
    /\ \/ req[q].pc = "begin" /\ CreatesRow(q, First)
       \/ req[q].resume /\ GivesUp(q)
       \/ FailsRow(q, {"check", "build", "refused"})
       \/ /\ req[q].pc = "check"
          /\ Exec(UpdateTxStatus(Row(q), "pending", NoHash))
          /\ Goto(q, "build")
          /\ UNCHANGED <<lock, poll, onChain, lost>>
       \/ Broadcasting(q, "build")
       \/ Transfers(q)

BSCExecuteNativeSweep(q) ==
    Sweeps(q, "BSC", "NATIVE") /\ (GivesUp(q) \/ EntersLoop(q) \/ LeavesLoop(q))

BSCSweepNativeAddress(q) ==
    /\ Sweeps(q, "BSC", "NATIVE")
    /\ \/ TakesAddress(q) \/ FailsRow(q, {"check", "refused"})
       \/ Broadcasting(q, "check") \/ Transfers(q)

BSCExecuteTokenSweep(q) ==
    Sweeps(q, "BSC", "TOKEN") /\ (GivesUp(q) \/ EntersLoop(q) \/ LeavesLoop(q))

\* The token and gas balances are checked before the row is created.
BSCChecksTokenAddress(q) ==
    Sweeps(q, "BSC", "TOKEN") /\ (SkipsAddress(q) \/ TakesAddress(q))

BSCSweepTokenAddress(q) ==
    /\ Sweeps(q, "BSC", "TOKEN")
    /\ FailsRow(q, {"check", "refused"}) \/ Broadcasting(q, "check") \/ Transfers(q)

SOLExecuteNativeSweep(q) ==
    Sweeps(q, "SOL", "NATIVE") /\ (GivesUp(q) \/ EntersLoop(q) \/ LeavesLoop(q))

SOLSweepNativeAddress(q) ==
    /\ Sweeps(q, "SOL", "NATIVE")
    /\ \/ TakesAddress(q) \/ FailsRow(q, {"check", "refused"})
       \/ Broadcasting(q, "check") \/ Transfers(q)

\* Addresses without tokens, or without SOL for the fee, are skipped.
SOLExecuteTokenSweep(q) ==
    /\ Sweeps(q, "SOL", "TOKEN")
    /\ GivesUp(q) \/ EntersLoop(q) \/ LeavesLoop(q) \/ SkipsAddress(q)

SOLSweepTokenAddress(q) ==
    /\ Sweeps(q, "SOL", "TOKEN")
    /\ \/ TakesAddress(q) \/ FailsRow(q, {"check", "refused"})
       \/ Broadcasting(q, "check") \/ Transfers(q)

ExecuteSweepBg(q) ==
    \/ BTCExecute(q)
    \/ BSCExecuteNativeSweep(q) \/ BSCSweepNativeAddress(q)
    \/ BSCExecuteTokenSweep(q) \/ BSCChecksTokenAddress(q) \/ BSCSweepTokenAddress(q)
    \/ SOLExecuteNativeSweep(q) \/ SOLSweepNativeAddress(q)
    \/ SOLExecuteTokenSweep(q) \/ SOLSweepTokenAddress(q)

-----------------------------------------------------------------------------
(* Confirmation *)

\* Mutant: a reverted transfer is a receipt like any other.
WaitForReceiptIgnoresRevertMutant(fate) ==
    {"failed"} \cup IF fate \in {"mined", "reverted"} THEN {"confirmed"} ELSE {}

\* Timeout, revert and a failed query are one error, and FAILED.
WaitForReceipt(fate) == {"failed"} \cup IF fate = "mined" THEN {"confirmed"} ELSE {}

\* Mutant: no timeout.
WaitForBTCConfirmationForeverMutant(fate) == IF fate = "mined" THEN {"confirmed"} ELSE {}

WaitForBTCConfirmation(fate) ==
    {"uncertain"} \cup IF fate = "mined" THEN {"confirmed"} ELSE {}

\* Three failed queries in a row are uncertain, a timeout and a revert FAILED.
WaitForSOLConfirmation(fate) ==
    {"uncertain", "failed"} \cup IF fate = "mined" THEN {"confirmed"} ELSE {}

SweepVerdict(c, fate) ==
    CASE c = "BTC" -> WaitForBTCConfirmation(fate)
      [] c = "BSC" -> WaitForReceipt(fate)
      [] c = "SOL" -> WaitForSOLConfirmation(fate)

\* For the reconciler every SOL error is uncertain.
ReconcilerVerdict(c, fate) ==
    CASE c = "BTC" -> WaitForBTCConfirmation(fate)
      [] c = "BSC" -> WaitForReceipt(fate)
      [] c = "SOL" -> {IF s = "failed" THEN "uncertain" ELSE s :
                          s \in WaitForSOLConfirmation(fate)}

\* Mutant: a failure is not told to the history.
PollEndsConfirmedOnlyMutant(r, p) ==
    /\ poll[r][p].pc = "wait"
    /\ LET h == poll[r][p].hash
           fate == onChain[h]
           c == req[r[1]].chain
       IN \E s \in IF p = "sweep" THEN SweepVerdict(c, fate) ELSE ReconcilerVerdict(c, fate) :
             /\ Exec(UpdateTxStatus(r, s, h))
             /\ poll' = [poll EXCEPT ![r][p] =
                    IF p = "reconciler" \/ s = "confirmed"
                    THEN [pc |-> "mark", hash |-> h, status |-> s] ELSE NoPoll]
    /\ UNCHANGED <<lock, req, onChain, lost>>

\* The three updateTxState: terminal verdicts also go to the history.  The
\* reconciler's updateBothTables sends every verdict there.
PollEnds(r, p) ==
    /\ poll[r][p].pc = "wait"
    /\ LET h == poll[r][p].hash
           fate == onChain[h]
           c == req[r[1]].chain
       IN \E s \in IF p = "sweep" THEN SweepVerdict(c, fate) ELSE ReconcilerVerdict(c, fate) :
             /\ Exec(UpdateTxStatus(r, s, h))
             /\ poll' = [poll EXCEPT ![r][p] =
                    IF p = "reconciler" \/ s \in {"confirmed", "failed"}
                    THEN [pc |-> "mark", hash |-> h, status |-> s] ELSE NoPoll]
    /\ UNCHANGED <<lock, req, onChain, lost>>

PollMarks(r, p) ==
    /\ poll[r][p].pc = "mark"
    /\ Exec(UpdateTransactionStatusByHash(poll[r][p].hash, poll[r][p].status))
    /\ poll' = [poll EXCEPT ![r][p] = NoPoll]
    /\ UNCHANGED <<lock, req, onChain, lost>>

-----------------------------------------------------------------------------
(* The chains: a broadcast transfer may stay in the mempool for ever. *)

Mine(h) ==
    /\ onChain[h] = "mempool"
    /\ \E fate \in {"mined", "reverted"} :
          /\ fate = "reverted" => req[h[1]].chain # "BTC"
          /\ onChain' = [onChain EXCEPT ![h] = fate]
    /\ UNCHANGED <<tableVars, lock, req, poll, lost>>

=============================================================================
