------------------------------- MODULE Poller -------------------------------
(***************************************************************************)
(* The Poller process (cmd/poller): the watcher of module Watcher, the     *)
(* claim handler of the points API, and the process's own life - recovery, *)
(* serving, Stop, exit, crash, restart.  Only the database and the chains  *)
(* survive the end of a process.                                           *)
(***************************************************************************)
EXTENDS Watcher, FiniteSetsExt

CONSTANTS
    Claimers,       \* claim requests in progress at once
    MaxRestarts     \* bound on the number of processes after the first

ASSUME PollerAssumption == MaxRestarts \in Nat

VARIABLES
    phase,          \* where main is
    restarts,       \* processes started after the first
    claim,          \* [Claimers -> locals of db.ClaimPoints]
    paid            \* history: [Addresses -> points reported to claimers]

vars == <<watcherVars, phase, restarts, claim, paid>>

Phase == {"recovery", "serving", "stopping", "stopped", "down"}
NoClaim == [address |-> NoAddress, amount |-> 0]

TypeOK ==
    /\ WatcherTypeOK
    /\ phase \in Phase
    /\ restarts \in Nat
    /\ claim \in [Claimers -> [address : Addresses \cup {NoAddress}, amount : Nat]]
    /\ paid \in [Addresses -> Nat]

Init ==
    /\ WatcherInit
    /\ phase = "recovery"
    /\ restarts = 0
    /\ claim = [c \in Claimers |-> NoClaim]
    /\ paid = [a \in Addresses |-> 0]

procVars == <<phase, restarts, claim, paid>>

\* The HTTP server is up from the end of recovery to the end of the process:
\* main calls watcher.Stop before srv.Shutdown.
ApiUp == phase \in {"serving", "stopping", "stopped"}

-----------------------------------------------------------------------------
(* POST /api/points/claim: db.ClaimPoints reads unclaimed, then zeroes it.  *)

ClaimRead(c) ==
    /\ ApiUp
    /\ claim[c] = NoClaim
    /\ \E a \in Addresses :
          /\ points[a].unclaimed # 0
          /\ claim' = [claim EXCEPT ![c] =
                 [address |-> a, amount |-> points[a].unclaimed]]
    /\ UNCHANGED <<watcherVars, phase, restarts, paid>>

\* Mutant: the amount is reported although the reset failed.
ClaimDespiteFaultMutant(c) ==
    /\ claim[c] # NoClaim
    /\ claim' = [claim EXCEPT ![c] = NoClaim]
    /\ paid' = [paid EXCEPT ![claim[c].address] = @ + claim[c].amount]
    /\ \/ ResetUnclaimed(claim[c].address) /\ UNCHANGED faults
       \/ DBFault
    /\ UNCHANGED <<memVars, envVars, credited, phase, restarts>>

ClaimReset(c) ==
    /\ claim[c] # NoClaim
    /\ claim' = [claim EXCEPT ![c] = NoClaim]
    /\ \/ /\ ResetUnclaimed(claim[c].address)
          /\ paid' = [paid EXCEPT ![claim[c].address] = @ + claim[c].amount]
          /\ UNCHANGED faults
       \/ DBFault /\ UNCHANGED paid
    /\ UNCHANGED <<memVars, envVars, credited, phase, restarts>>

-----------------------------------------------------------------------------
(* main *)

Serve ==
    /\ phase = "recovery" /\ rec.pc = "off"
    /\ phase' = "serving"
    /\ UNCHANGED <<watcherVars, restarts, claim, paid>>

BeginStop ==
    /\ phase = "serving"
    /\ phase' = "stopping"
    /\ CancelAll
    /\ UNCHANGED <<restarts, claim, paid>>

FinishStop ==
    /\ phase = "stopping"
    /\ phase' = "stopped"
    /\ StopExpire
    /\ UNCHANGED <<restarts, claim, paid>>

\* What a process leaves behind: every goroutine and handler is gone.
EndProcess ==
    /\ phase' = "down"
    /\ registered' = {}
    /\ ctx' = [w \in WatchIDs |-> "live"]
    /\ due' = [w \in WatchIDs |-> FALSE]
    /\ g' = [w \in WatchIDs |-> IF watches[w].status = "NONE" THEN Idle
                                ELSE [Idle EXCEPT !.pc = "done"]]
    /\ rec' = RecIdle
    /\ claim' = [c \in Claimers |-> NoClaim]
    /\ UNCHANGED <<dbVars, envVars, faults, credited, restarts, paid>>

\* main returns after Stop and srv.Shutdown, whatever is still running.
Exit == phase = "stopped" /\ EndProcess

Crash == phase \in {"recovery", "serving", "stopping"} /\ EndProcess

Restart ==
    /\ phase = "down"
    /\ restarts < MaxRestarts
    /\ phase' = "recovery"
    /\ restarts' = restarts + 1
    /\ rec' = [RecIdle EXCEPT !.pc = "expire"]
    /\ DBRead /\ UNCHANGED <<MapVars, g, envVars, credited, claim, paid>>

-----------------------------------------------------------------------------

CreateWatch(w) ==
    \/ ApiUp /\ \E a \in Addresses : CheckLimit(w, a)
    \/ CheckDuplicate(w)
    \/ InsertWatch(w)
    \/ Register(w)

RunWatch(w) ==
    \/ Start(w) \/ ContextDone(w) \/ Tick(w)
    \/ Dedup(w) \/ Insert(w) \/ Credit(w) \/ Estimate(w)
    \/ ListPendingOfWatch(w) \/ Confirm(w) \/ Move(w)
    \/ CheckStop(w) \/ Finish(w) \/ RemoveWatch(w)

RunRecovery == RecoveryExpire \/ RecoveryList \/ RecoveryConfirm \/ RecoveryMove

WatcherStep ==
    \/ \E w \in WatchIDs :
          \/ CreateWatch(w)
          \/ ApiUp /\ CancelWatch(w)
          \/ RunWatch(w)
          \/ Expire(w) \/ Deadline(w)
    \/ RunRecovery
    \/ ClockTick
    \/ \E h \in Hashes : Appear(h) \/ Finalize(h)

ProcessStep == Serve \/ BeginStop \/ FinishStop \/ Exit \/ Crash \/ Restart

Next ==
    \/ WatcherStep /\ UNCHANGED procVars
    \/ \E c \in Claimers : ClaimRead(c) \/ ClaimReset(c)
    \/ ProcessStep

Spec == Init /\ [][Next]_vars

\* The Go scheduler runs every goroutine, timers fire, and neither a provider
\* call nor Stop takes for ever; nothing is assumed of the chains, of
\* requests, of shutdowns or of crashes.
Fairness ==
    /\ \A w \in WatchIDs :
          /\ WF_vars((CheckDuplicate(w) \/ InsertWatch(w) \/ Register(w) \/ RunWatch(w))
                     /\ UNCHANGED procVars)
          /\ WF_vars((Expire(w) \/ Deadline(w)) /\ UNCHANGED procVars)
    /\ WF_vars(RunRecovery /\ UNCHANGED procVars)
    /\ WF_vars(Serve)
    /\ WF_vars(FinishStop \/ Exit)
    /\ WF_vars(Restart)

FairSpec == Spec /\ Fairness

-----------------------------------------------------------------------------
(* Properties *)

\* The points confirmed for the address and not yet in its total, though some
\* goroutine is about to put them there.
InFlight(a) ==
    {w \in WatchIDs : /\ g[w].pc \in {"credit", "move"}
                      /\ transactions[g[w].cur.hash].address = a}

SumOf(f, S) == FoldSet(LAMBDA x, acc : f[x] + acc, 0, S)

ConfirmedPoints(a) ==
    SumOf([h \in Hashes |-> transactions[h].points],
          {h \in Hashes : /\ transactions[h].status = "CONFIRMED"
                          /\ transactions[h].address = a})

Failed == faults > 0 \/ restarts > 0 \/ phase = "down"

(* As long as no statement failed and the process did not end, the check     *)
(* CheckPointsMismatch of the errors page can differ from the stored total   *)
(* only by credits still in flight: the two statements that confirm and      *)
(* credit a transaction never lose or double a credit by interleaving.       *)
MismatchOnlyInFlight ==
    ~ Failed => \A a \in Addresses :
        ConfirmedPoints(a) =
            points[a].total + SumOf([w \in WatchIDs |-> g[w].pts], InFlight(a))

(* With failures too, an address is never credited more than the sum of its  *)
(* confirmed transactions.                                                   *)
NeverOverCredited ==
    \A a \in Addresses : points[a].total <= ConfirmedPoints(a)

(* With one claim request at a time, the claimers are told of no more points *)
(* than were awarded, however the credits of the watch goroutines fall       *)
(* between the read and the reset of ClaimPoints.                            *)
ClaimedWithinAwarded ==
    \A a \in Addresses : paid[a] + points[a].unclaimed <= points[a].total

(* A watch reported COMPLETED has at least one transaction, none of them is  *)
(* still PENDING and, if nothing failed, the points of each are in the total *)
(* (checkStopConditions, "all confirmed").                                   *)
CompletedMeansSettled ==
    \A w \in WatchIDs : watches[w].status = "COMPLETED" =>
        /\ TxsOfWatch(w) # {}
        /\ \A h \in TxsOfWatch(w) :
              /\ transactions[h].status = "CONFIRMED"
              /\ ~ Failed /\ transactions[h].points > 0 => credited[h] = 1

(* No address stays blocked by a watch nobody polls: without a failed        *)
(* statement, an ACTIVE row has a goroutine, or a CreateWatch call about to  *)
(* start it, until the process ends and recovery expires the row.            *)
ActiveIsPolled ==
    faults = 0 /\ phase # "down" /\ rec.pc # "expire" =>
        \A w \in WatchIDs : watches[w].status = "ACTIVE" =>
            g[w].pc \in (GoroutinePC \ {"remove"}) \cup {"register"}

(* A terminal status is final, except for a goroutine that outlives Stop:    *)
(* it overwrites the EXPIRED that Stop wrote with its own verdict.           *)
TerminalStatusIsFinal ==
    [][\A w \in WatchIDs :
         watches[w].status \in TerminalStatus /\ watches'[w].status # watches[w].status
         => phase = "stopped" /\ watches[w].status = "EXPIRED"]_vars

(* Off BSC, points are only ever confirmed for a transaction that has its    *)
(* chain's confirmation threshold, although the goroutine acts on what an    *)
(* earlier provider call said.                                               *)
ConfirmedMeansFinal ==
    \A h \in Hashes :
        /\ transactions[h].status = "CONFIRMED"
        /\ Chain[transactions[h].address] # "BSC"
        => onChain[h] = "final"

(* "Returns the amount claimed": a claim reports exactly the points it takes *)
(* out of the unclaimed balance.                                             *)
ClaimReturnsWhatItResets ==
    [][\A a \in Addresses :
         paid'[a] # paid[a] => paid'[a] - paid[a] = points[a].unclaimed]_vars

(* "Subsequent watches skip already-seen transactions": the cutoff a watch   *)
(* polls with never hides a payment that was not recorded.                   *)
CutoffHidesOnlySeen ==
    \A w \in WatchIDs : g[w].pc = "loop" =>
        \A h \in Hashes :
            /\ g[w].address \in Pays[h]
            /\ onChain[h] # "absent"
            /\ ~ Recorded(h)
            => h \in Since(g[w].address, g[w].cutoff)

(* Every ACTIVE watch ends - completed, expired or cancelled - and after a   *)
(* crash the next process ends it; its address can then be watched again.    *)
EveryWatchEnds ==
    \A w \in WatchIDs :
        watches[w].status = "ACTIVE" ~> watches[w].status # "ACTIVE" \/ phase = "down"

(* A watch whose context is done, by CancelWatch, by Stop or by its deadline, *)
(* leaves the map, so it stops counting against MaxActiveWatches.            *)
DoneContextLeavesMap ==
    \A w \in WatchIDs : ctx[w] # "live" ~> w \notin registered

StageOf(h) ==
    IF credited[h] > 0 THEN "credited"
    ELSE CASE transactions[h].status = "CONFIRMED" -> "confirmed"
           [] transactions[h].status = "PENDING" -> "pending"
           [] transactions[h].status = "NONE" -> "unseen"

Lifecycle == INSTANCE PaymentLifecycle WITH
    Payments <- Hashes,
    Payees <- Addresses,
    NoPayee <- NoAddress,
    Awards <- PointValues,
    stage <- [h \in Hashes |-> StageOf(h)],
    payee <- [h \in Hashes |-> transactions[h].address],
    award <- [h \in Hashes |-> transactions[h].points],
    total <- [a \in Addresses |-> points[a].total]

(* Every payment is confirmed once and credited at most once, to the address *)
(* it was recorded for, through goroutines, recovery, crashes and failed     *)
(* statements alike.                                                         *)
ImplementsLifecycle == Lifecycle!Spec

=============================================================================
