----------------------------- MODULE GasPreSeed -----------------------------
(***************************************************************************)
(* POST /api/send/gas-preseed (internal/tx/gas.go): BNB for gas is sent    *)
(* from one source address to a list of targets, one transfer after the    *)
(* other, inside the HTTP request.  No lock is taken: two requests, or a   *)
(* request and a sweep of the source address (here: another request), use  *)
(* the same nonces.                                                        *)
(*                                                                         *)
(* A transfer is identified by its nonce, target and gas price, of which   *)
(* its hash is a function.  The chain keeps one transfer per nonce of the  *)
(* source, and mines them in order.  Balances are not modelled: the source *)
(* holds enough, or the request is turned away before it changes anything. *)
(*                                                                         *)
(* Execute is called without a sweep id, so every request has one of its   *)
(* own, no earlier row carries it, and the filter of confirmed targets     *)
(* lets every target pass.                                                 *)
(*                                                                         *)
(* A crash is not an action of its own: to the chain and the tables it is  *)
(* a request that takes no further step.  The rows it leaves open are      *)
(* among those that module Reconciler settles at the next start.           *)
(***************************************************************************)
EXTENDS Naturals, FiniteSets, Sequences

CONSTANTS
    Requests,
    Targets,        \* [Requests -> sequence of target addresses, with or without repetition]
    Prices,         \* gas prices SuggestGasPrice may answer
    MaxFaults       \* bound on failed statements, calls and cancelled requests

Target == UNION {{Targets[q][k] : k \in 1 .. Len(Targets[q])} : q \in Requests}

\* An entry of the list of a request.  A list may name an address in several.
Entry == UNION {{<<q, k>> : k \in 1 .. Len(Targets[q])} : q \in Requests}

Nonce == 0 .. Cardinality(Entry)

ASSUME GasAssumption ==
    /\ IsFiniteSet(Requests)
    /\ \A q \in Requests : Targets[q] \in Seq(STRING)
    /\ Prices \subseteq Nat \ {0} /\ Prices # {}
    /\ MaxFaults \in Nat

VARIABLES
    pc,         \* [Requests -> where its handler is]
    loc,        \* [Requests -> locals of Execute and sendGasPreSeed]
    gone,       \* the requests whose context is done: the client has left
    rows,       \* tx_state: [Requests -> [index of the target -> [attempt -> row]]]
    history,    \* transactions: set of <<hash, status>>
    slots,      \* the chain: per nonce of the source, the transfer that holds it
    mined,      \* how many of them are mined
    reverted,   \* nonces of those that were mined and failed
    faults

requestVars == <<pc, loc, gone>>
tableVars == <<rows, history>>
chainVars == <<slots, mined, reverted>>
vars == <<requestVars, tableVars, chainVars, faults>>

Hash == [nonce : Nonce, target : Target, price : Prices]
NoHash == [nonce |-> 0, target |-> "none", price |-> 0]

\* by: history, the entry for which the transfer that holds the nonce was broadcast.
Slot == [hash : Hash, by : Entry]
Free == [hash |-> NoHash, by |-> <<"none", 0>>]

Statuses == {"absent", "pending", "broadcasting", "confirming", "confirmed", "failed"}
Row == [status : Statuses, hash : Hash \cup {NoHash}]
NoRow == [status |-> "absent", hash |-> NoHash]

PC == {"new", "execute", "target", "create", "mark", "send", "refused", "refetch", "sent",
       "wait", "verdict", "record", "done"}
Locals == [nonce : Nat, price : Prices, at : Nat, attempt : {1, 2},
           hash : Hash \cup {NoHash}, tooLow : BOOLEAN, verdict : {"none", "confirmed", "failed"}]

NewLocals(nonce, price) ==
    [nonce |-> nonce, price |-> price, at |-> 1, attempt |-> 1, hash |-> NoHash,
     tooLow |-> FALSE, verdict |-> "none"]

\* Of a request that is not running.
NoLocals == NewLocals(0, CHOOSE p \in Prices : TRUE)

TypeOK ==
    /\ pc \in [Requests -> PC]
    /\ loc \in [Requests -> Locals]
    /\ gone \subseteq Requests
    /\ DOMAIN rows = Requests
    /\ \A q \in Requests : rows[q] \in [1 .. Len(Targets[q]) -> [{1, 2} -> Row]]
    /\ history \subseteq Hash \X {"pending", "confirmed"}
    /\ slots \in [Nonce -> Slot \cup {Free}]
    /\ mined \in Nat /\ reverted \subseteq 0 .. mined
    /\ faults \in 0 .. MaxFaults

Init ==
    /\ pc = [q \in Requests |-> "new"]
    /\ loc = [q \in Requests |-> NoLocals]
    /\ gone = {}
    /\ rows = [q \in Requests |-> [k \in 1 .. Len(Targets[q]) |-> [a \in {1, 2} |-> NoRow]]]
    /\ history = {}
    /\ slots = [n \in Nonce |-> Free]
    /\ mined = 0
    /\ reverted = {}
    /\ faults = 0

Goto(q, next) == pc' = [pc EXCEPT ![q] = next]
GotoWith(q, next, locals) == Goto(q, next) /\ loc' = [loc EXCEPT ![q] = locals]

Fault == faults < MaxFaults /\ faults' = faults + 1

-----------------------------------------------------------------------------
(* The chain, and what the RPC nodes say of it *)

Held(n) == slots[n] # Free

\* What PendingNonceAt answers of an up-to-date node: the first free nonce.
PendingNonce == CHOOSE n \in Nonce : ~Held(n) /\ \A m \in Nonce : m < n => Held(m)

\* A node that lags behind the others does not know the latest transfers.
LaggingNonces == mined .. PendingNonce

\* A nonce is taken by the first transfer, or by one with a higher price until it is mined.
\* Otherwise nodes answer "nonce too low", "already known" or "replacement transaction
\* underpriced".
CanEnter(hash) ==
    /\ hash.nonce >= mined
    /\ Held(hash.nonce) => hash.price > slots[hash.nonce].hash.price

Enters(q, hash) ==
    slots' = [slots EXCEPT ![hash.nonce] = [hash |-> hash, by |-> <<q, loc[q].at>>]]

Mine ==
    /\ mined \in Nonce /\ Held(mined)
    /\ mined' = mined + 1
    /\ reverted' \in {reverted, reverted \cup {mined}}
    /\ UNCHANGED <<requestVars, tableVars, slots, faults>>

IsMined(hash) == hash.nonce < mined /\ slots[hash.nonce].hash = hash

-----------------------------------------------------------------------------
(* Execute *)

\* The handler up to Execute: a bad target, a failed Preview or a balance that is too low
\* turns the request away.
Handler(q) ==
    /\ pc[q] = "new"
    /\ \/ Goto(q, "execute") /\ UNCHANGED faults
       \/ Goto(q, "done") /\ Fault
    /\ UNCHANGED <<loc, gone, tableVars, chainVars>>

\* Execute up to its loop.  One gas price and one nonce are fetched for all targets.
Start(q) ==
    /\ pc[q] = "execute"
    /\ \/ /\ q \notin gone
          /\ \E price \in Prices :
                \/ GotoWith(q, "target", NewLocals(PendingNonce, price)) /\ UNCHANGED faults
                \/ /\ Fault
                   /\ \E n \in LaggingNonces : GotoWith(q, "target", NewLocals(n, price))
       \/ Goto(q, "done") /\ Fault /\ UNCHANGED loc
       \/ Goto(q, "done") /\ q \in gone /\ UNCHANGED <<loc, faults>>
    /\ UNCHANGED <<gone, tableVars, chainVars>>

\* The head of the loop over the targets.
NextTarget(q) ==
    /\ pc[q] = "target"
    /\ IF loc[q].at > Len(Targets[q]) \/ q \in gone
       THEN GotoWith(q, "done", NoLocals)
       ELSE Goto(q, "create") /\ UNCHANGED loc
    /\ UNCHANGED <<gone, tableVars, chainVars, faults>>

\* A failed statement is logged and the transfer goes on.
Writes(q, status, hash) ==
    \/ /\ rows' = [rows EXCEPT ![q][loc[q].at][loc[q].attempt] =
                     IF @.status = "absent" /\ status # "pending" THEN @
                     ELSE [status |-> status, hash |-> IF hash = NoHash THEN @.hash ELSE hash]]
       /\ UNCHANGED faults
    \/ Fault /\ UNCHANGED rows

\* An attempt begins with a fresh row.
CreateTxState(q) ==
    /\ pc[q] = "create"
    /\ Writes(q, "pending", NoHash)
    /\ GotoWith(q, "mark", [loc[q] EXCEPT !.hash = NoHash, !.tooLow = FALSE])
    /\ UNCHANGED <<gone, history, chainVars>>

MarkBroadcasting(q) ==
    /\ pc[q] = "mark"
    /\ Writes(q, "broadcasting", NoHash)
    /\ Goto(q, "send")
    /\ UNCHANGED <<loc, gone, history, chainVars>>

\* The transfer cannot be signed: the attempt ends before anything is sent.
SignFails(q) ==
    /\ pc[q] = "mark" /\ Fault
    /\ Goto(q, "refused")
    /\ UNCHANGED <<loc, gone, tableVars, chainVars>>

Signed(q) == [nonce |-> loc[q].nonce, target |-> Targets[q][loc[q].at], price |-> loc[q].price]

\* SendTransaction: accepted; refused for its nonce; failed for another reason, a done
\* context included; or accepted by a node whose answer is lost.
SendTransaction(q) ==
    /\ pc[q] = "send"
    /\ \/ /\ CanEnter(Signed(q)) /\ q \notin gone
          /\ Enters(q, Signed(q))
          /\ GotoWith(q, "sent", [loc[q] EXCEPT !.hash = Signed(q)])
          /\ UNCHANGED faults
       \/ /\ ~CanEnter(Signed(q)) /\ q \notin gone
          /\ GotoWith(q, "refused", [loc[q] EXCEPT !.tooLow = TRUE])
          /\ UNCHANGED <<slots, faults>>
       \/ /\ q \in gone
          /\ Goto(q, "refused")
          /\ UNCHANGED <<slots, faults, loc>>
       \/ /\ Fault
          /\ Goto(q, "refused")
          /\ \/ CanEnter(Signed(q)) /\ Enters(q, Signed(q))
             \/ UNCHANGED slots
          /\ UNCHANGED loc
    /\ UNCHANGED <<gone, tableVars, mined, reverted>>

\* Mutant: the retry is not confined to a nonce that was refused.
RefusedRetriesAllMutant(q) ==
    /\ pc[q] = "refused"
    /\ Writes(q, "failed", NoHash)
    /\ IF loc[q].attempt = 1 THEN Goto(q, "refetch") /\ UNCHANGED loc
       ELSE GotoWith(q, "target", [loc[q] EXCEPT !.at = @ + 1, !.attempt = 1])
    /\ UNCHANGED <<gone, history, chainVars>>

\* Mutant: the nonce advances for a transfer that was not broadcast, too.
RefusedAdvancesMutant(q) ==
    /\ pc[q] = "refused"
    /\ Writes(q, "failed", NoHash)
    /\ IF loc[q].tooLow /\ loc[q].attempt = 1 THEN Goto(q, "refetch") /\ UNCHANGED loc
       ELSE GotoWith(q, "target", [loc[q] EXCEPT !.at = @ + 1, !.attempt = 1, !.nonce = @ + 1])
    /\ UNCHANGED <<gone, history, chainVars>>

\* A refused nonce is fetched again, once per target; any other error leaves the target.
Refused(q) ==
    /\ pc[q] = "refused"
    /\ Writes(q, "failed", NoHash)
    /\ IF loc[q].tooLow /\ loc[q].attempt = 1 THEN Goto(q, "refetch") /\ UNCHANGED loc
       ELSE GotoWith(q, "target", [loc[q] EXCEPT !.at = @ + 1, !.attempt = 1])
    /\ UNCHANGED <<gone, history, chainVars>>

\* Only a nonce above the one that was refused is tried; without one, or without an answer,
\* the target is left.
RefetchNonce(q) ==
    /\ pc[q] = "refetch"
    /\ LET Retries(n) == GotoWith(q, "create", [loc[q] EXCEPT !.nonce = n, !.attempt = 2])
           GivesUp == GotoWith(q, "target", [loc[q] EXCEPT !.at = @ + 1, !.attempt = 1])
       IN  \/ /\ q \notin gone
              /\ IF PendingNonce > loc[q].nonce THEN Retries(PendingNonce) ELSE GivesUp
              /\ UNCHANGED faults
           \/ /\ q \notin gone /\ Fault
              /\ \/ \E n \in LaggingNonces : n > loc[q].nonce /\ Retries(n)
                 \/ GivesUp
           \/ q \in gone /\ GivesUp /\ UNCHANGED faults
    /\ UNCHANGED <<gone, tableVars, chainVars>>

MarkConfirming(q) ==
    /\ pc[q] = "sent"
    /\ Writes(q, "confirming", loc[q].hash)
    /\ Goto(q, "wait")
    /\ UNCHANGED <<loc, gone, history, chainVars>>

\* Mutant: the receipt of the nonce, not that of the hash.
ReceiptOfNonceMutant(hash) == hash.nonce < mined /\ hash.nonce \notin reverted

\* The receipt of a transfer that succeeded.
Receipt(hash) == IsMined(hash) /\ hash.nonce \notin reverted

\* Mutant: a transfer that is not mined in time is "uncertain", as it is in a sweep.
WaitForReceiptUncertainMutant(q) ==
    /\ pc[q] = "wait"
    /\ \/ Receipt(loc[q].hash) /\ GotoWith(q, "verdict", [loc[q] EXCEPT !.verdict = "confirmed"])
       \/ GotoWith(q, "verdict", [loc[q] EXCEPT !.verdict = "uncertain"])
    /\ UNCHANGED <<gone, tableVars, chainVars, faults>>

\* WaitForReceipt gives up on a revert, a timeout, a failed query or a done context.
WaitForReceipt(q) ==
    /\ pc[q] = "wait"
    /\ \/ Receipt(loc[q].hash) /\ GotoWith(q, "verdict", [loc[q] EXCEPT !.verdict = "confirmed"])
       \/ GotoWith(q, "verdict", [loc[q] EXCEPT !.verdict = "failed"])
    /\ UNCHANGED <<gone, tableVars, chainVars, faults>>

\* Mutant: the verdict goes to the row of the first attempt, whichever was sent.
MarkVerdictOfFirstMutant(q) ==
    /\ pc[q] = "verdict"
    /\ \/ rows' = [rows EXCEPT ![q][loc[q].at][1] =
                        [status |-> loc[q].verdict, hash |-> loc[q].hash]] /\ UNCHANGED faults
       \/ Fault /\ UNCHANGED rows
    /\ Goto(q, "record")
    /\ UNCHANGED <<loc, gone, history, chainVars>>

MarkVerdict(q) ==
    /\ pc[q] = "verdict"
    /\ Writes(q, loc[q].verdict, loc[q].hash)
    /\ Goto(q, "record")
    /\ UNCHANGED <<loc, gone, history, chainVars>>

\* The nonce advances past a transfer that was broadcast.
NextNonce(q) == loc[q].nonce + 1

\* recordGasPreSeedTx, and the end of the loop's body for a transfer that has a hash.
RecordTransaction(q) ==
    /\ pc[q] = "record"
    /\ \/ /\ history' = history \cup
                {<<loc[q].hash, IF loc[q].verdict = "confirmed" THEN "confirmed" ELSE "pending">>}
          /\ UNCHANGED faults
       \/ Fault /\ UNCHANGED history
    /\ GotoWith(q, "target", [NewLocals(NextNonce(q), loc[q].price) EXCEPT !.at = loc[q].at + 1])
    /\ UNCHANGED <<gone, rows, chainVars>>

RequestStep(q) ==
    \/ Start(q) \/ NextTarget(q) \/ CreateTxState(q) \/ MarkBroadcasting(q) \/ SignFails(q)
    \/ SendTransaction(q) \/ Refused(q) \/ RefetchNonce(q) \/ MarkConfirming(q) \/ WaitForReceipt(q)
    \/ MarkVerdict(q) \/ RecordTransaction(q)

\* The client leaves: r.Context() is done.
ClientLeaves(q) ==
    /\ pc[q] \notin {"new", "done"} /\ q \notin gone
    /\ Fault
    /\ gone' = gone \cup {q}
    /\ UNCHANGED <<pc, loc, tableVars, chainVars>>

Next ==
    \/ \E q \in Requests : Handler(q) \/ RequestStep(q) \/ ClientLeaves(q)
    \/ Mine

\* A handler that can take a step takes one: calls and waits have timeouts.
Fairness == \A q \in Requests : WF_vars(RequestStep(q))

Spec == Init /\ [][Next]_vars /\ Fairness

-----------------------------------------------------------------------------
(* Properties *)

\* The chain took this very transfer, and it did not fail.
Succeeded(hash) == IsMined(hash) /\ hash.nonce \notin reverted

\* A pre-seed that is called confirmed, in tx_state or in the history, put the BNB on its
\* target: its own transfer was mined and did not fail, whatever other request used or
\* replaced its nonce.
ConfirmedIsPaid ==
    /\ \A q \in Requests : \A k \in 1 .. Len(Targets[q]), a \in {1, 2} :
          rows[q][k][a].status = "confirmed" =>
              Succeeded(rows[q][k][a].hash) /\ rows[q][k][a].hash.target = Targets[q][k]
    /\ \A h \in Hash : <<h, "confirmed">> \in history => Succeeded(h)

\* No transfer waits for a nonce that nobody sends: below every nonce in use, all are in use,
\* whatever was refused, lost, retried or sent by a concurrent request.  A gap would block
\* every later transfer of the source address, its sweeps included.
NoNonceGap == \A n, m \in Nonce : Held(n) /\ m < n => Held(m)

\* An entry of a request's list is paid at most once, the retry with a fresh nonce included:
\* only a transfer that no node took is sent again.  An address that a list names twice is two
\* entries and is paid twice, by one sweep: neither the handler nor Execute looks for
\* repetitions, and the rows of confirmed targets are read before the loop only.
PaidOncePerEntry ==
    \A n, m \in Nonce : n # m /\ Held(n) /\ Held(m) => slots[n].by # slots[m].by

\* The attempts whose rows are left without a verdict.
OpenAttempts(q) ==
    {e \in (1 .. Len(Targets[q])) \X {1, 2} :
        rows[q][e[1]][e[2]].status \in {"pending", "broadcasting", "confirming"}}

\* A request comes to its end, and then every attempt that was recorded has its verdict, the
\* refused first ones and their retries alike, but for one per statement that failed.  Where
\* nothing failed and nobody left, each entry has an attempt.
AttemptsGetVerdicts ==
    \A q \in Requests : (pc[q] # "new") ~>
        /\ pc[q] = "done"
        /\ Cardinality(OpenAttempts(q)) <= faults
        /\ faults = 0 => \A k \in 1 .. Len(Targets[q]) : rows[q][k][1].status # "absent"

=============================================================================
