----------------------------- MODULE SendServer -----------------------------
(***************************************************************************)
(* The HDPay server as a process around the send handlers, the sweeps and  *)
(* the reconciler: it starts, is shut down or crashes, and starts again on *)
(* the database it left.                                                   *)
(***************************************************************************)
EXTENDS Reconciler

CONSTANT MaxRestarts    \* bound on the restarts

ASSUME RestartsAssumption == MaxRestarts \in Nat

VARIABLES
    phase,      \* of the process
    restarts

serverVars == <<phase, restarts>>
vars == <<tableVars, sendVars, rec, serverVars>>

TypeOK ==
    /\ TablesTypeOK /\ SendTypeOK /\ RecTypeOK
    /\ phase \in {"serving", "stopping", "stopped", "crashed"}
    /\ restarts \in Nat

Init ==
    /\ TablesInit /\ SendInit /\ RecInit
    /\ phase = "serving"
    /\ restarts = 0

Running == phase \in {"serving", "stopping"}

\* What is only in memory: locks, requests, confirmation goroutines.
EndProcess ==
    /\ lock' = [c \in Chains |-> NoRequest]
    /\ req' = [q \in Requests |-> IF req[q].pc = "new" THEN req[q]
                                  ELSE [req[q] EXCEPT !.pc = "done", !.todo = {}]]
    /\ poll' = [r \in Rows |-> [p \in Pollers |-> NoPoll]]
    /\ rec' = Idle
    /\ UNCHANGED <<tableVars, onChain, lost, restarts>>

\* SIGTERM: the context of the reconciler is cancelled, the listener closed.
Shutdown ==
    /\ phase = "serving"
    /\ restarts < MaxRestarts
    /\ phase' = "stopping"
    /\ UNCHANGED <<tableVars, sendVars, rec, restarts>>

InHandler(q) == req[q].resume /\ req[q].pc \notin {"new", "done"}

\* srv.Shutdown returns when the handlers have.  A sweep of ExecuteSend is
\* not one: its handler answered 202 when the goroutine started.
ShutdownReturns ==
    /\ phase = "stopping"
    /\ \A q \in Requests : ~InHandler(q)
    /\ phase' = "stopped"
    /\ EndProcess

\* Also a shutdown that times out on a handler.
Crash ==
    /\ Running
    /\ restarts < MaxRestarts
    /\ phase' = "crashed"
    /\ EndProcess

Restart ==
    /\ ~Running
    /\ phase' = "serving"
    /\ restarts' = restarts + 1
    /\ rec' = [rec EXCEPT !.pc = "list"]
    /\ UNCHANGED <<tableVars, sendVars>>

-----------------------------------------------------------------------------

Accepts(q) ==
    /\ phase = "serving"
    /\ ExecuteSend(q) \/ ResumeRead(q)
    /\ UNCHANGED <<rec, serverVars>>

RunsSweep(q) ==
    /\ Running
    /\ ResumeLock(q) \/ ExecuteSweepBg(q) \/ Unlock(q)
    /\ UNCHANGED <<rec, serverVars>>

Confirms(r, p) ==
    /\ Running
    /\ PollEnds(r, p) \/ PollMarks(r, p)
    /\ UNCHANGED <<rec, serverVars>>

Dismisses(r) ==
    /\ phase = "serving"
    /\ DismissTxState(r)
    /\ UNCHANGED <<rec, serverVars>>

\* A cancelled context ends the walk before its next row.
Reconciles ==
    /\ \/ Running /\ (ReconcileList \/ ReconcileMark)
       \/ phase = "serving" /\ (ReconcileUnhashed \/ ReconcileCheck \/ LaunchPolling)
       \/ (rec.rows = {} \/ phase = "stopping") /\ ReconcileStops
    /\ UNCHANGED serverVars

Mines(h) == Mine(h) /\ UNCHANGED <<rec, serverVars>>

Next ==
    \/ \E q \in Requests : Accepts(q) \/ RunsSweep(q)
    \/ \E r \in Rows : Dismisses(r) \/ Mines(r) \/ \E p \in Pollers : Confirms(r, p)
    \/ Reconciles
    \/ Shutdown \/ ShutdownReturns \/ Crash \/ Restart

\* Every goroutine runs on and the providers answer or fail; nothing is
\* assumed of requests, users, the chains, or when the process ends.
Fairness ==
    /\ \A q \in Requests : WF_vars(RunsSweep(q))
    /\ \A r \in Rows, p \in Pollers : WF_vars(Confirms(r, p))
    /\ WF_vars(Reconciles) /\ WF_vars(ShutdownReturns) /\ WF_vars(Restart)

Spec == Init /\ [][Next]_vars /\ Fairness

-----------------------------------------------------------------------------
(* Properties *)

\* "Confirmed" is never wrong, in either table: the transfer with the hash of
\* the row was mined and not reverted.
ConfirmedIsMined ==
    /\ \A r \in Rows : txState[r].status = "confirmed" =>
          txState[r].hash # NoHash /\ onChain[txState[r].hash] = "mined"
    /\ \A h \in Hashes : "confirmed" \in transactions[h] => onChain[h] = "mined"

Active == ReqPC \ {"new", "retry", "done"}

\* Two sweeps of a chain never run at once, whatever sends and resumes came
\* in: they read the nonces and the outputs they spend under its lock.
OneSweepPerChain ==
    \A p, q \in Requests :
        p # q /\ req[p].pc \in Active /\ req[q].pc \in Active => req[p].chain # req[q].chain

\* No row is forgotten by a server that runs on a healthy database: whatever
\* crash left it open, a sweep, a confirmation goroutine or the reconciler
\* has it or will list it.
OpenRowsAreWatched ==
    phase = "serving" /\ faults = 0 =>
        \A r \in Rows : txState[r].status \in Open =>
            \/ InUse(r) \/ poll[r]["reconciler"].pc = "wait"
            \/ rec.pc = "list" \/ \E x \in rec.rows : x.row = r

Settled(r) ==
    /\ \A p \in Pollers : poll[r][p].pc # "mark"
    /\ rec.pc = "mark" => rec.at.row # r

Shares(r) == \E s \in Rows \ {r} : txState[s].hash = txState[r].hash

\* The history tells the verdict of tx_state, and at worst, when the process
\* ended between the two statements, none or an undecided one: what one calls
\* confirmed the other never calls failed.
HistoryFollows ==
    faults = 0 =>
        \A r \in Rows \ rec.raced :
            LET status == txState[r].status
                history == transactions[txState[r].hash]
            IN  status \in {"confirmed", "failed"} /\ txState[r].hash # NoHash
                    /\ Settled(r) /\ ~Shares(r) =>
                \/ history = {status}
                \/ (restarts > 0 \/ ~Running) /\ history \subseteq {"pending", "uncertain"}

\* Unless the process ended, a statement failed or the provider hid it, a
\* transfer that was sent is found under its hash, for good: in the row of an
\* attempt and in the history, once the sweep has gone past it.
SentIsRecorded ==
    restarts = 0 /\ Running /\ faults = 0 /\ ~lost =>
        \A h \in Hashes : onChain[h] # "unsent" =>
            \/ \E q \in Requests : req[q].pc \in {"sent", "record"} /\ req[q].hash = h
            \/ transactions[h] # {} /\ \E r \in Rows : txState[r].hash = h

Legal ==
    {<<"absent", "pending">>, <<"pending", "broadcasting">>, <<"broadcasting", "confirming">>}
    \cup {"pending", "broadcasting"} \X {"failed"}
    \cup {"confirming", "uncertain"} \X {"confirmed", "failed", "uncertain"}

\* A row moves forward only, whichever goroutines and processes write it: a
\* verdict is not reopened and a failed transfer is not confirmed.  Not so
\* after a dismissal, which does not stop the confirmation goroutine, after a
\* failed statement, or for a row the reconciler took from a running sweep.
StatusMovesForward ==
    [][faults = 0 =>
        \A r \in Rows \ rec'.raced :
            LET old == txState[r].status
                new == txState'[r].status
            IN  old = new \/ "dismissed" \in {old, new} \/ <<old, new>> \in Legal]_vars

\* Every attempt comes to a verdict, through crashes and restarts.
OpenRowsSettle ==
    \A r \in Rows : (txState[r].status \in Open) ~> (txState[r].status \in Closed \/ faults > 0)

\* Every way out of a sweep gives the chain back.
LocksAreReleased ==
    \A c \in Chains : (lock[c] # NoRequest) ~> (lock[c] = NoRequest)

\* What the reconciler takes for granted when it calls a row of an earlier
\* process failed.
UnhashedNeverBroadcast ==
    \A x \in rec.rows :
        x.hash = NoHash /\ x.row \notin rec.raced => onChain[x.row] = "unsent"

\* The transfers that either table calls confirmed.
Called ==
    {h \in Hashes :
        \/ "confirmed" \in transactions[h]
        \/ \E r \in Rows : txState[r].status = "confirmed" /\ txState[r].hash = h}

SweptBy(c) == {q \in Requests : req[q].pc \in Active /\ req[q].chain = c}

Lifecycle == INSTANCE TransferLifecycle WITH
    Sources <- Wallets,
    sweeping <- [c \in Chains |-> SweptBy(c)],
    fate <- onChain,
    confirmed <- Called

\* A chain is swept by one request at a time, that sends each of its transfers
\* once, through crashes, lost answers, resumes and resent SOL transfers; what
\* was mined stays so, and nothing else is ever called confirmed.
ImplementsTransferLifecycle == Lifecycle!Spec

=============================================================================
