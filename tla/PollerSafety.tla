---------------------------- MODULE PollerSafety ----------------------------
(***************************************************************************)
(* More safety of the Poller from the invariant of PollerProofs: what a    *)
(* watch's status says about its goroutine, that points are confirmed for  *)
(* final transactions only, and that no credit is missing but those in     *)
(* flight.                                                                 *)
(***************************************************************************)
EXTENDS PollerRefinement

-----------------------------------------------------------------------------
(* What the steps of one watch do to its program counter.                  *)

Owning == (GoroutinePC \ {"remove"}) \cup {"register"}

(* A step of the goroutine of w keeps it under way and leaves the watches    *)
(* table alone, but for the two that end it.                                 *)
LEMMA RunShape ==
  ASSUME Inv, NEW w \in WatchIDs, RunWatch(w)
  PROVE  /\ g[w].pc \in GoroutinePC
         /\ \A v \in WatchIDs \ {w} : g'[v] = g[v]
         /\ \/ /\ g[w].pc \in Owning /\ g'[w].pc \in Owning /\ UNCHANGED watches
               /\ g'[w].pc = "finish" => /\ g'[w].newStatus \in TerminalStatus
                                         /\ g[w].pc \in {"loop", "check"}
            \/ Finish(w)
            \/ RemoveWatch(w)
<1>. DEFINE Goal == /\ g[w].pc \in GoroutinePC
                    /\ \A v \in WatchIDs \ {w} : g'[v] = g[v]
                    /\ g[w].pc \in Owning /\ g'[w].pc \in Owning /\ UNCHANGED watches
                    /\ g'[w].pc = "finish" => /\ g'[w].newStatus \in TerminalStatus
                                              /\ g[w].pc \in {"loop", "check"}
<1>1. WatcherTypeOK /\ g \in [WatchIDs -> Locals]
  BY DEF Inv, TypeOK, WatcherTypeOK
<1>2. CASE Start(w)
  <2>1. PICK c : g' = [g EXCEPT ![w] = [g[w] EXCEPT !.pc = "loop", !.cutoff = c]]
    BY <1>2 DEF Start
  <2>. QED  BY <1>1, <1>2, <2>1 DEF Start, Owning, GoroutinePC, Locals, DBRead, DBFault, dbVars
<1>3. CASE ContextDone(w)
  BY <1>1, <1>3 DEF ContextDone, Owning, GoroutinePC, Locals, DBRead, dbVars, TerminalStatus
<1>4. CASE Tick(w)
  BY <1>1, <1>4 DEF Tick, Owning, GoroutinePC, Locals, DBRead, dbVars
<1>5. ASSUME NEW rest \in SUBSET Raw, NEW r \in Raw, NEW ok \in BOOLEAN,
             AfterRaw(w, rest, r, ok), UNCHANGED watches,
             g[w].pc \in {"dedup", "insert", "credit", "estimate"}
      PROVE  Goal
  <2>1. PICK x \in Locals : g' = [g EXCEPT ![w] = x] /\ x.pc \in {"list", "dedup"}
    BY <1>1, <1>5, AfterRawType
  <2>. QED  BY <1>1, <1>5, <2>1 DEF Owning, GoroutinePC
<1>6. ASSUME NEW rest \in SUBSET Hashes, NextPending(w, rest), UNCHANGED watches,
             g[w].pc \in {"confirm", "move"}
      PROVE  Goal
  <2>1. PICK x \in Locals : g' = [g EXCEPT ![w] = x] /\ x.pc \in {"check", "confirm"}
    BY <1>1, <1>6, NextPendingType
  <2>. QED  BY <1>1, <1>6, <2>1 DEF Owning, GoroutinePC
<1>7. /\ g[w].batch \in SUBSET Raw /\ g[w].todo \in SUBSET Hashes
      /\ g[w].pc \in {"insert", "credit", "estimate"} => g[w].cur \in Raw
  BY <1>1, FieldTypes DEF Inv, LocalsOK, LocalOK
<1>8. CASE Dedup(w)
  <2>1. g[w].pc = "dedup" /\ UNCHANGED watches
    BY <1>8 DEF Dedup, DBRead, DBFault, dbVars
  <2>2. PICK r \in g[w].batch :
          \/ \E ok \in BOOLEAN : AfterRaw(w, g[w].batch \ {r}, r, ok)
          \/ g' = [g EXCEPT ![w] = [g[w] EXCEPT !.pc = "insert", !.cur = r,
                                                !.batch = @ \ {r}]]
    BY <1>8 DEF Dedup
  <2>3. CASE \E ok \in BOOLEAN : AfterRaw(w, g[w].batch \ {r}, r, ok)
    BY <1>5, <1>7, <2>1, <2>3
  <2>4. CASE g' = [g EXCEPT ![w] = [g[w] EXCEPT !.pc = "insert", !.cur = r,
                                                !.batch = @ \ {r}]]
    BY <1>1, <2>1, <2>4 DEF Owning, GoroutinePC, Locals
  <2>. QED  BY <2>2, <2>3, <2>4
<1>9. CASE Insert(w)
  <2>1. g[w].pc = "insert" /\ UNCHANGED watches
    BY <1>9 DEF Insert, InsertConfirmed, InsertUnpriced, InsertPending, InsertFails,
                InsertTransaction, DBRead, DBFault, dbVars
  <2>2. \/ \E ok \in BOOLEAN : AfterRaw(w, g[w].batch, g[w].cur, ok)
        \/ \E pc \in {"credit", "estimate"}, p \in PointValues :
              g' = [g EXCEPT ![w] = [g[w] EXCEPT !.pc = pc, !.pts = p]]
    BY <1>9 DEF Insert, InsertConfirmed, InsertUnpriced, InsertPending, InsertFails
  <2>3. CASE \E ok \in BOOLEAN : AfterRaw(w, g[w].batch, g[w].cur, ok)
    BY <1>5, <1>7, <2>1, <2>3
  <2>4. ASSUME NEW pc \in {"credit", "estimate"}, NEW p \in PointValues,
               g' = [g EXCEPT ![w] = [g[w] EXCEPT !.pc = pc, !.pts = p]]
        PROVE  Goal
    BY <1>1, <2>1, <2>4 DEF Owning, GoroutinePC, Locals
  <2>. QED  BY <2>2, <2>3, <2>4
<1>10. CASE Credit(w) \/ Estimate(w)
  <2>1. g[w].pc \in {"credit", "estimate"} /\ UNCHANGED watches
    BY <1>10 DEF Credit, Estimate, AddUnclaimed, AddPending, DBFault, dbVars
  <2>2. AfterRaw(w, g[w].batch, g[w].cur, TRUE)
    BY <1>10 DEF Credit, Estimate
  <2>. QED  BY <1>5, <1>7, <2>1, <2>2
<1>11. CASE ListPendingOfWatch(w)
  <2>1. g[w].pc = "list" /\ UNCHANGED watches
    BY <1>11 DEF ListPendingOfWatch, DBRead, DBFault, dbVars
  <2>2. PICK pc \in {"check", "confirm"}, todo \in SUBSET Hashes :
          \/ g' = [g EXCEPT ![w] = [g[w] EXCEPT !.pc = pc, !.todo = todo]]
          \/ g' = [g EXCEPT ![w] = [g[w] EXCEPT !.pc = pc]]
    BY <1>11 DEF ListPendingOfWatch, ListPendingByWatchID, ListPending
  <2>. QED  BY <1>1, <2>1, <2>2 DEF Owning, GoroutinePC, Locals
<1>12. CASE Confirm(w)
  <2>1. g[w].pc = "confirm" /\ UNCHANGED watches
    BY <1>12 DEF Confirm, UpdateToConfirmed, DBRead, dbVars
  <2>2. ASSUME NEW rest \in SUBSET g[w].todo, NextPending(w, rest)
        PROVE  Goal
    BY <1>6, <1>7, <2>1, <2>2
  <2>3. ASSUME NEW h \in g[w].todo, NEW p \in PointValues,
               g' = [g EXCEPT ![w].pc = "move", ![w].todo = @ \ {h},
                              ![w].cur = RawOf(h), ![w].pts = p,
                              ![w].old = transactions[h].points]
        PROVE  Goal
    <3>. DEFINE x == [g[w] EXCEPT !.pc = "move", !.todo = @ \ {h}, !.cur = RawOf(h),
                                  !.pts = p, !.old = transactions[h].points]
    <3>1. g' = [g EXCEPT ![w] = x]
      BY <2>3
    <3>2. x.pc = "move"
      BY <1>1 DEF Locals
    <3>. HIDE DEF x
    <3>. QED  BY <1>1, <2>1, <3>1, <3>2 DEF Owning, GoroutinePC
  <2>4. {} \in SUBSET g[w].todo /\ \A h \in g[w].todo : g[w].todo \ {h} \in SUBSET g[w].todo
    OBVIOUS
  <2>5. Goal
    <3>. HIDE DEF Goal
    <3>. QED  BY <1>12, <2>2, <2>3, <2>4 DEF Confirm
  <2>. QED  BY <2>5
<1>13. CASE Move(w)
  <2>1. g[w].pc = "move" /\ UNCHANGED watches /\ NextPending(w, g[w].todo)
    BY <1>13 DEF Move, MovePendingToUnclaimed, DBFault, dbVars
  <2>. QED  BY <1>6, <1>7, <2>1
<1>14. CASE CheckStop(w)
  <2>1. g[w].pc = "check" /\ UNCHANGED watches
    BY <1>14 DEF CheckStop, DBRead, DBFault, dbVars
  <2>2. \/ g' = [g EXCEPT ![w] = [g[w] EXCEPT !.pc = "loop"]]
        \/ \E s \in {"EXPIRED", "COMPLETED"} :
              g' = [g EXCEPT ![w] = [g[w] EXCEPT !.pc = "finish", !.newStatus = s]]
    BY <1>14 DEF CheckStop
  <2>3. CASE g' = [g EXCEPT ![w] = [g[w] EXCEPT !.pc = "loop"]]
    BY <1>1, <2>1, <2>3 DEF Owning, GoroutinePC, Locals
  <2>4. ASSUME NEW s \in {"EXPIRED", "COMPLETED"},
               g' = [g EXCEPT ![w] = [g[w] EXCEPT !.pc = "finish", !.newStatus = s]]
        PROVE  Goal
    BY <1>1, <2>1, <2>4 DEF Owning, GoroutinePC, Locals, TerminalStatus
  <2>. QED  BY <2>2, <2>3, <2>4
<1>15. CASE Finish(w) \/ RemoveWatch(w)
  BY <1>1, <1>15 DEF Finish, RemoveWatch, GoroutinePC
<1>. QED  BY <1>2, <1>3, <1>4, <1>8, <1>9, <1>10, <1>11, <1>12, <1>13, <1>14, <1>15
          DEF RunWatch

-----------------------------------------------------------------------------
(* The status of a watch                                                   *)

\* The row does not exist before its insert; a goroutine still under way finds
\* its row ended only when Stop gave up waiting for it.
StatusOK(w) ==
    /\ g[w].pc \in {"idle", "limit", "dup"} => watches[w].status = "NONE"
    /\ g[w].pc = "finish" => g[w].newStatus \in TerminalStatus
    /\ g[w].pc \in Owning /\ watches[w].status \in TerminalStatus
         => phase = "stopped" /\ watches[w].status = "EXPIRED"

StatusInv == \A w \in WatchIDs : StatusOK(w)

LEMMA InitStatus == Init => StatusInv
  BY DEF Init, WatcherInit, DBInit, Idle, StatusInv, StatusOK, Owning, GoroutinePC

(* A step of w alone. *)
LEMMA StatusOfOthers ==
  ASSUME StatusInv, NEW w \in WatchIDs, UNCHANGED phase, StatusOK(w)',
         \A v \in WatchIDs \ {w} : g'[v] = g[v] /\ watches'[v] = watches[v]
  PROVE  StatusInv'
  BY DEF StatusInv, StatusOK

LEMMA CreateStatus ==
  ASSUME Inv, StatusInv, UNCHANGED procVars, NEW w \in WatchIDs, CreateWatch(w)
  PROVE  StatusInv'
<1>1. /\ g \in [WatchIDs -> Locals] /\ watches \in [WatchIDs -> WatchRow]
      /\ UNCHANGED phase
  BY DEF Inv, TypeOK, WatcherTypeOK, DBTypeOK, procVars
<1>2. StatusOK(w)
  BY DEF StatusInv
<1>3. ASSUME NEW a \in Addresses, CheckLimit(w, a)
      PROVE  StatusInv'
  <2>1. UNCHANGED watches /\ g[w].pc = "idle"
    BY <1>3 DEF CheckLimit, DBRead, dbVars
  <2>2. g'[w].pc = "limit" /\ \A v \in WatchIDs \ {w} : g'[v] = g[v]
    BY <1>1, <1>3 DEF CheckLimit, Locals
  <2>. QED  BY <1>1, <1>2, <2>1, <2>2, StatusOfOthers DEF StatusOK, Owning, GoroutinePC
<1>4. CASE CheckDuplicate(w)
  <2>1. UNCHANGED watches /\ g[w].pc = "limit"
    BY <1>4 DEF CheckDuplicate, DBRead, DBFault, dbVars
  <2>2. g'[w].pc \in {"idle", "dup"} /\ \A v \in WatchIDs \ {w} : g'[v] = g[v]
    BY <1>1, <1>4 DEF CheckDuplicate, Locals, Idle
  <2>. QED  BY <1>1, <1>2, <2>1, <2>2, StatusOfOthers DEF StatusOK, Owning, GoroutinePC
<1>5. CASE InsertWatch(w)
  <2>1. g[w].pc = "dup" /\ \A v \in WatchIDs \ {w} : g'[v] = g[v] /\ watches'[v] = watches[v]
    BY <1>1, <1>5 DEF InsertWatch, CreateWatchRow, DBFault, dbVars
  <2>2. \/ g'[w].pc = "idle" /\ UNCHANGED watches
        \/ g'[w].pc = "register" /\ watches'[w].status = "ACTIVE"
    BY <1>1, <1>5 DEF InsertWatch, CreateWatchRow, DBFault, dbVars, Idle, Locals
  <2>. QED  BY <1>1, <1>2, <2>1, <2>2, StatusOfOthers
            DEF StatusOK, Owning, GoroutinePC, TerminalStatus
<1>6. CASE Register(w)
  <2>1. UNCHANGED watches /\ g[w].pc = "register"
    BY <1>6 DEF Register, DBRead, dbVars
  <2>2. g'[w].pc = "start" /\ \A v \in WatchIDs \ {w} : g'[v] = g[v]
    BY <1>1, <1>6 DEF Register, Locals
  <2>. QED  BY <1>1, <1>2, <2>1, <2>2, StatusOfOthers DEF StatusOK, Owning, GoroutinePC
<1>. QED  BY <1>3, <1>4, <1>5, <1>6 DEF CreateWatch

LEMMA RunStatus ==
  ASSUME Inv, StatusInv, UNCHANGED procVars, NEW w \in WatchIDs, RunWatch(w)
  PROVE  StatusInv'
<1>1. /\ g \in [WatchIDs -> Locals] /\ watches \in [WatchIDs -> WatchRow]
      /\ UNCHANGED phase
  BY DEF Inv, TypeOK, WatcherTypeOK, DBTypeOK, procVars
<1>2. StatusOK(w) /\ \A v \in WatchIDs \ {w} : g'[v] = g[v]
  BY RunShape DEF StatusInv
<1>3. CASE /\ g[w].pc \in Owning /\ g'[w].pc \in Owning /\ UNCHANGED watches
           /\ g'[w].pc = "finish" => g'[w].newStatus \in TerminalStatus
  BY <1>1, <1>2, <1>3, StatusOfOthers DEF StatusOK, Owning, GoroutinePC
<1>4. CASE Finish(w)
  <2>1. /\ g'[w].pc = "remove"
        /\ \A v \in WatchIDs \ {w} : watches'[v] = watches[v]
    BY <1>1, <1>4 DEF Finish, UpdateWatchStatus, DBFault, dbVars, Locals
  <2>. QED  BY <1>1, <1>2, <2>1, StatusOfOthers DEF StatusOK, Owning, GoroutinePC
<1>5. CASE RemoveWatch(w)
  <2>1. UNCHANGED watches /\ g'[w].pc = "done"
    BY <1>1, <1>5 DEF RemoveWatch, DBRead, dbVars, Idle
  <2>. QED  BY <1>1, <1>2, <2>1, StatusOfOthers DEF StatusOK, Owning, GoroutinePC
<1>. QED  BY <1>3, <1>4, <1>5, RunShape

(* Recovery expires rows while no goroutine runs. *)
LEMMA RecoveryStatus ==
  ASSUME Inv, StatusInv, UNCHANGED procVars, RunRecovery
  PROVE  StatusInv'
<1>1. rec.pc # "off" /\ UNCHANGED g
  BY DEF RunRecovery, RecoveryExpire, RecoveryList, RecoveryConfirm, RecoveryMove,
         RecoveryFrame
<1>2. \A w \in WatchIDs : g[w].pc \in {"idle", "done"}
  BY <1>1 DEF Inv, PhaseOK
<1>3. \A w \in WatchIDs : watches[w].status = "NONE" => watches'[w].status = "NONE"
  BY DEF RunRecovery, RecoveryExpire, RecoveryList, RecoveryConfirm, RecoveryMove,
         ExpireAllActiveWatches, UpdateToConfirmed, MovePendingToUnclaimed, DBRead, DBFault,
         dbVars
<1>. QED  BY <1>1, <1>2, <1>3 DEF StatusInv, StatusOK, Owning, GoroutinePC

LEMMA ProcessStatus ==
  ASSUME Inv, StatusInv, ProcessStep
  PROVE  StatusInv'
<1>1. watches \in [WatchIDs -> WatchRow]
  BY DEF Inv, TypeOK, WatcherTypeOK, DBTypeOK
<1>2. CASE Serve \/ BeginStop
  <2>1. UNCHANGED <<g, watches>> /\ phase # "stopped"
    BY <1>2 DEF Serve, BeginStop, CancelAll, DBRead, watcherVars, memVars, dbVars
  <2>. QED  BY <2>1 DEF StatusInv, StatusOK
<1>3. CASE FinishStop
  <2>1. UNCHANGED g /\ phase # "stopped" /\ phase' = "stopped"
    BY <1>3 DEF FinishStop, StopExpire, memVars
  <2>2. \A w \in WatchIDs : \/ watches'[w].status = watches[w].status
                            \/ watches[w].status = "ACTIVE" /\ watches'[w].status = "EXPIRED"
    BY <1>1, <1>3 DEF FinishStop, StopExpire, ExpireAllActiveWatches, DBFault, dbVars, WatchRow
  <2>. QED  BY <2>1, <2>2 DEF StatusInv, StatusOK
<1>4. CASE Exit \/ Crash
  <2>1. UNCHANGED watches /\ \A w \in WatchIDs :
          \/ g'[w].pc = "idle" /\ watches[w].status = "NONE"
          \/ g'[w].pc = "done"
    BY <1>4 DEF Exit, Crash, EndProcess, Idle, dbVars
  <2>. QED  BY <2>1 DEF StatusInv, StatusOK, Owning, GoroutinePC
<1>5. CASE Restart
  <2>1. UNCHANGED <<g, watches>> /\ phase # "stopped"
    BY <1>5 DEF Restart, DBRead, dbVars
  <2>. QED  BY <2>1 DEF StatusInv, StatusOK
<1>. QED  BY <1>2, <1>3, <1>4, <1>5 DEF ProcessStep

LEMMA StatusStep == Inv /\ StatusInv /\ [Next]_vars => StatusInv'
<1>. SUFFICES ASSUME Inv, StatusInv, [Next]_vars PROVE StatusInv'
  OBVIOUS
<1>1. ASSUME UNCHANGED <<g, watches, phase>>
      PROVE  StatusInv'
  BY <1>1 DEF StatusInv, StatusOK
<1>2. CASE WatcherStep /\ UNCHANGED procVars
  <2>1. ASSUME NEW w \in WatchIDs, CancelWatch(w) \/ Expire(w) \/ Deadline(w)
        PROVE  StatusInv'
    BY <1>1, <1>2, <2>1 DEF CancelWatch, Expire, Deadline, DBRead, dbVars, procVars
  <2>2. CASE ClockTick \/ \E h \in Hashes : Appear(h) \/ Finalize(h)
    BY <1>1, <1>2, <2>2 DEF ClockTick, Appear, Finalize, DBRead, dbVars, memVars, procVars
  <2>. QED  BY <1>2, <2>1, <2>2, CreateStatus, RunStatus, RecoveryStatus DEF WatcherStep
<1>3. ASSUME NEW c \in Claimers, ClaimRead(c) \/ ClaimReset(c)
      PROVE  StatusInv'
  BY <1>1, <1>3 DEF ClaimRead, ClaimReset, ResetUnclaimed, DBFault, watcherVars, dbVars,
                    memVars
<1>4. CASE UNCHANGED vars
  BY <1>1, <1>4 DEF vars, watcherVars, dbVars, memVars
<1>. QED  BY <1>2, <1>3, <1>4, ProcessStatus DEF Next

(* A step that ends or overwrites the status of a watch. *)
LEMMA TerminalStep ==
  ASSUME Inv, StatusInv, [Next]_vars, NEW w \in WatchIDs,
         watches[w].status \in TerminalStatus, watches'[w].status # watches[w].status
  PROVE  phase = "stopped" /\ watches[w].status = "EXPIRED"
<1>1. watches \in [WatchIDs -> WatchRow] /\ StatusOK(w)
  BY DEF Inv, TypeOK, WatcherTypeOK, DBTypeOK, StatusInv
<1>2. ~ (\A v \in WatchIDs : watches[v].status # "ACTIVE" => watches'[v] = watches[v])
  BY DEF TerminalStatus
<1>3. ASSUME NEW v \in WatchIDs, CreateWatch(v)
      PROVE  v = w /\ watches[w].status = "NONE"
  <2>1. \/ UNCHANGED watches
        \/ g[v].pc = "dup" /\ \A u \in WatchIDs \ {v} : watches'[u] = watches[u]
    BY <1>1, <1>3 DEF CreateWatch, CheckLimit, CheckDuplicate, InsertWatch, CreateWatchRow,
                      Register, DBRead, DBFault, dbVars
  <2>2. v = w /\ g[v].pc = "dup"
    BY <2>1
  <2>. QED  BY <1>1, <2>2 DEF StatusOK
<1>4. ASSUME NEW v \in WatchIDs, RunWatch(v)
      PROVE  v = w /\ g[w].pc \in Owning
  <2>1. CASE UNCHANGED watches
    BY <2>1
  <2>2. CASE Finish(v)
    BY <1>1, <2>2 DEF Finish, UpdateWatchStatus, DBFault, dbVars, Owning, GoroutinePC
  <2>3. CASE RemoveWatch(v)
    BY <2>3 DEF RemoveWatch, DBRead, dbVars
  <2>. QED  BY <1>4, <2>1, <2>2, <2>3, RunShape
<1>5. ASSUME NEW v \in WatchIDs, CancelWatch(v) \/ Expire(v) \/ Deadline(v)
      PROVE  FALSE
  BY <1>5 DEF CancelWatch, Expire, Deadline, DBRead, dbVars
<1>6. CASE RunRecovery
  BY <1>2, <1>6 DEF RunRecovery, RecoveryExpire, RecoveryList, RecoveryConfirm, RecoveryMove,
         ExpireAllActiveWatches, UpdateToConfirmed, MovePendingToUnclaimed, DBRead, DBFault,
         dbVars
<1>7. CASE ClockTick \/ \E h \in Hashes : Appear(h) \/ Finalize(h)
  BY <1>7 DEF ClockTick, Appear, Finalize, DBRead, dbVars
<1>8. ASSUME NEW c \in Claimers, ClaimRead(c) \/ ClaimReset(c)
      PROVE  FALSE
  BY <1>8 DEF ClaimRead, ClaimReset, ResetUnclaimed, DBFault, watcherVars, dbVars
<1>9. CASE ProcessStep
  BY <1>2, <1>9 DEF ProcessStep, Serve, BeginStop, CancelAll, FinishStop, StopExpire,
         ExpireAllActiveWatches, Exit, Crash, EndProcess, Restart, DBRead, DBFault,
         watcherVars, dbVars
<1>10. CASE UNCHANGED vars
  BY <1>10 DEF vars, watcherVars, dbVars
<1>. QED  BY <1>1, <1>3, <1>4, <1>5, <1>6, <1>7, <1>8, <1>9, <1>10
          DEF Next, WatcherStep, StatusOK, TerminalStatus

(* A watch that is COMPLETED, EXPIRED or CANCELLED stays so, whoever races to *)
(* end it, except that a goroutine which outlives Stop overwrites the EXPIRED *)
(* that Stop wrote.                                                          *)
THEOREM StatusIsFinal == Spec => TerminalStatusIsFinal
<1>1. Spec => [](Inv /\ StatusInv)
  BY InitInv, NextInv, InitStatus, StatusStep, PTL DEF Spec
<1>. DEFINE A == \A w \in WatchIDs :
         watches[w].status \in TerminalStatus /\ watches'[w].status # watches[w].status
         => phase = "stopped" /\ watches[w].status = "EXPIRED"
<1>2. Inv /\ StatusInv /\ [Next]_vars => [A]_vars
  BY TerminalStep
<1>. QED  BY <1>1, <1>2, PTL DEF Spec, TerminalStatusIsFinal

-----------------------------------------------------------------------------
(* Who polls an ACTIVE watch                                               *)

(* A statement that fails is counted for good. *)
LEMMA ActiveCreate ==
  ASSUME Inv, StatusInv, ActiveIsPolled, UNCHANGED procVars,
         NEW w \in WatchIDs, CreateWatch(w)
  PROVE  ActiveIsPolled'
<1>1. /\ g \in [WatchIDs -> Locals] /\ watches \in [WatchIDs -> WatchRow]
      /\ faults \in Nat /\ StatusOK(w) /\ UNCHANGED phase
  BY DEF Inv, TypeOK, WatcherTypeOK, DBTypeOK, StatusInv, procVars
<1>2. /\ UNCHANGED rec
      /\ faults' = faults \/ faults' = faults + 1
      /\ \A v \in WatchIDs \ {w} : g'[v] = g[v] /\ watches'[v] = watches[v]
  <2>1. CASE \E a \in Addresses : CheckLimit(w, a)
    BY <1>1, <2>1 DEF CheckLimit, DBRead, dbVars, OnlyG
  <2>2. CASE CheckDuplicate(w)
    BY <1>1, <2>2 DEF CheckDuplicate, DBRead, DBFault, dbVars, OnlyG
  <2>3. CASE InsertWatch(w)
    BY <1>1, <2>3 DEF InsertWatch, CreateWatchRow, DBFault, dbVars, OnlyG
  <2>4. CASE Register(w)
    BY <1>1, <2>4 DEF Register, DBRead, dbVars
  <2>. QED  BY <2>1, <2>2, <2>3, <2>4 DEF CreateWatch
<1>3. watches'[w].status = "ACTIVE" => g'[w].pc \in Owning
  <2>1. CASE \E a \in Addresses : CheckLimit(w, a)
    BY <1>1, <2>1 DEF CheckLimit, DBRead, dbVars, StatusOK
  <2>2. CASE CheckDuplicate(w)
    BY <1>1, <2>2 DEF CheckDuplicate, DBRead, DBFault, dbVars, StatusOK
  <2>3. CASE InsertWatch(w)
    <3>1. g[w].pc = "dup" /\ watches[w].status = "NONE"
      BY <1>1, <2>3 DEF InsertWatch, StatusOK
    <3>2. UNCHANGED watches \/ g' = [g EXCEPT ![w].pc = "register"]
      BY <2>3 DEF InsertWatch, DBFault, dbVars
    <3>. QED  BY <1>1, <3>1, <3>2 DEF Owning, Locals
  <2>4. CASE Register(w)
    <3>1. g' = [g EXCEPT ![w].pc = "start"]
      BY <2>4 DEF Register
    <3>. QED  BY <1>1, <3>1 DEF Owning, GoroutinePC, Locals
  <2>. QED  BY <2>1, <2>2, <2>3, <2>4 DEF CreateWatch
<1>. QED  BY <1>1, <1>2, <1>3 DEF ActiveIsPolled, Owning

LEMMA ActiveRun ==
  ASSUME Inv, StatusInv, ActiveIsPolled, UNCHANGED procVars,
         NEW w \in WatchIDs, RunWatch(w)
  PROVE  ActiveIsPolled'
<1>1. /\ g \in [WatchIDs -> Locals] /\ watches \in [WatchIDs -> WatchRow]
      /\ faults \in Nat /\ StatusOK(w) /\ UNCHANGED phase
  BY DEF Inv, TypeOK, WatcherTypeOK, DBTypeOK, StatusInv, procVars
<1>2. UNCHANGED rec /\ (faults' = faults \/ faults' = faults + 1)
  BY DEF RunWatch, Start, ContextDone, Tick, Dedup, Insert, InsertConfirmed, InsertUnpriced,
         InsertPending, InsertFails, Credit, Estimate, ListPendingOfWatch, Confirm, Move,
         CheckStop, Finish, RemoveWatch, DBRead, DBFault, OnlyG
<1>3. \A v \in WatchIDs \ {w} : g'[v] = g[v] /\ watches'[v] = watches[v]
  <2>1. CASE UNCHANGED watches
    BY <2>1, RunShape
  <2>2. CASE Finish(w)
    BY <1>1, <2>2 DEF Finish, UpdateWatchStatus, DBFault, dbVars
  <2>3. CASE RemoveWatch(w)
    BY <2>1, <2>3 DEF RemoveWatch, DBRead, dbVars
  <2>. QED  BY <2>1, <2>2, <2>3, RunShape
<1>4. \/ faults' = faults + 1
      \/ watches'[w].status = "ACTIVE" => \/ g'[w].pc \in Owning
                                          \/ g[w].pc \notin Owning /\ UNCHANGED watches
  <2>1. CASE Finish(w)
    BY <1>1, <2>1 DEF Finish, UpdateWatchStatus, DBFault, dbVars, StatusOK, TerminalStatus,
                      WatchRow
  <2>2. CASE RemoveWatch(w)
    BY <2>2 DEF RemoveWatch, DBRead, dbVars, Owning, GoroutinePC
  <2>. QED  BY <2>1, <2>2, RunShape
<1>. QED  BY <1>1, <1>2, <1>3, <1>4 DEF ActiveIsPolled, Owning

LEMMA ActiveProcess ==
  ASSUME Inv, ActiveIsPolled, ProcessStep
  PROVE  ActiveIsPolled'
<1>1. watches \in [WatchIDs -> WatchRow] /\ faults \in Nat
  BY DEF Inv, TypeOK, WatcherTypeOK, DBTypeOK
<1>2. CASE Serve \/ BeginStop
  <2>1. UNCHANGED <<g, watches, rec, faults>> /\ phase # "down"
    BY <1>2 DEF Serve, BeginStop, CancelAll, DBRead, watcherVars, memVars, dbVars
  <2>. QED  BY <2>1 DEF ActiveIsPolled
<1>3. CASE FinishStop
  <2>1. \/ faults' = faults + 1
        \/ \A w \in WatchIDs : watches'[w].status # "ACTIVE"
    BY <1>1, <1>3 DEF FinishStop, StopExpire, ExpireAllActiveWatches, DBFault, WatchRow
  <2>. QED  BY <1>1, <2>1 DEF ActiveIsPolled
<1>4. CASE Exit \/ Crash \/ Restart
  <2>1. phase' = "down" \/ rec'.pc = "expire"
    BY <1>4 DEF Exit, Crash, EndProcess, Restart, RecIdle
  <2>. QED  BY <2>1 DEF ActiveIsPolled
<1>. QED  BY <1>2, <1>3, <1>4 DEF ProcessStep

LEMMA ActiveStep == Inv /\ StatusInv /\ ActiveIsPolled /\ [Next]_vars => ActiveIsPolled'
<1>. SUFFICES ASSUME Inv, StatusInv, ActiveIsPolled, [Next]_vars PROVE ActiveIsPolled'
  OBVIOUS
<1>1. watches \in [WatchIDs -> WatchRow] /\ faults \in Nat /\ rec \in RecLocals
  BY DEF Inv, TypeOK, WatcherTypeOK, DBTypeOK
<1>2. ASSUME UNCHANGED <<g, watches, phase>>, rec.pc # "expire",
             faults' = faults \/ faults' = faults + 1
      PROVE  ActiveIsPolled'
  BY <1>1, <1>2 DEF ActiveIsPolled
<1>3. ASSUME UNCHANGED <<g, watches, phase, rec, faults>>
      PROVE  ActiveIsPolled'
  BY <1>3 DEF ActiveIsPolled
<1>4. CASE RunRecovery /\ UNCHANGED procVars
  <2>1. CASE RecoveryExpire
    <3>1. \/ faults' = faults + 1
          \/ \A w \in WatchIDs : watches'[w].status # "ACTIVE"
      BY <1>1, <2>1 DEF RecoveryExpire, ExpireAllActiveWatches, DBFault, WatchRow
    <3>. QED  BY <1>1, <3>1 DEF ActiveIsPolled
  <2>2. CASE RecoveryList
    BY <1>2, <1>4, <2>2 DEF RecoveryList, RecoveryFrame, DBRead, DBFault, dbVars, procVars
  <2>3. CASE RecoveryConfirm
    BY <1>2, <1>4, <2>3 DEF RecoveryConfirm, RecoveryFrame, UpdateToConfirmed, DBRead,
                            dbVars, procVars
  <2>4. CASE RecoveryMove
    BY <1>2, <1>4, <2>4 DEF RecoveryMove, RecoveryFrame, MovePendingToUnclaimed, DBFault,
                            dbVars, procVars
  <2>. QED  BY <1>4, <2>1, <2>2, <2>3, <2>4 DEF RunRecovery
<1>5. CASE WatcherStep /\ UNCHANGED procVars
  <2>1. ASSUME NEW w \in WatchIDs, CancelWatch(w) \/ Expire(w) \/ Deadline(w)
        PROVE  ActiveIsPolled'
    BY <1>3, <1>5, <2>1 DEF CancelWatch, Expire, Deadline, DBRead, dbVars, procVars
  <2>2. CASE ClockTick \/ \E h \in Hashes : Appear(h) \/ Finalize(h)
    BY <1>3, <1>5, <2>2 DEF ClockTick, Appear, Finalize, DBRead, dbVars, memVars, procVars
  <2>. QED  BY <1>4, <1>5, <2>1, <2>2, ActiveCreate, ActiveRun DEF WatcherStep
<1>6. ASSUME NEW c \in Claimers, ClaimRead(c) \/ ClaimReset(c)
      PROVE  ActiveIsPolled'
  <2>1. UNCHANGED <<g, watches, phase, rec>> /\ (faults' = faults \/ faults' = faults + 1)
    BY <1>6 DEF ClaimRead, ClaimReset, ResetUnclaimed, DBFault, watcherVars, dbVars, memVars
  <2>. QED  BY <1>1, <2>1 DEF ActiveIsPolled
<1>7. CASE UNCHANGED vars
  BY <1>3, <1>7 DEF vars, watcherVars, dbVars, memVars
<1>. QED  BY <1>5, <1>6, <1>7, ActiveProcess DEF Next

(* No address stays blocked by an ACTIVE row that no goroutine polls, unless  *)
(* a statement failed or the process is between its end and its recovery.    *)
THEOREM ActiveWatchesArePolled == Spec => []ActiveIsPolled
<1>1. Init => ActiveIsPolled
  BY DEF Init, WatcherInit, DBInit, ActiveIsPolled
<1>. QED  BY <1>1, InitInv, NextInv, InitStatus, StatusStep, ActiveStep, PTL DEF Spec

-----------------------------------------------------------------------------
(* Points for final transactions only                                      *)

FinalOffBsc(r, a) == r.confirmed /\ Chain[a] # "BSC" => onChain[r.hash] = "final"

\* What the goroutine still acts on was true when the provider said it, and a
\* final transaction stays final.
RawsFinal(w) ==
    /\ g[w].pc \in {"dedup", "insert", "credit", "estimate"} =>
         \A r \in g[w].batch : FinalOffBsc(r, g[w].address)
    /\ g[w].pc = "insert" => FinalOffBsc(g[w].cur, g[w].address)

FinalInv == ConfirmedMeansFinal /\ \A w \in WatchIDs : RawsFinal(w)

LEMMA InitFinal == Init => FinalInv
  BY DEF Init, WatcherInit, DBInit, Idle, FinalInv, ConfirmedMeansFinal, RawsFinal

(* Steps that confirm nothing and start no goroutine's work. *)
LEMMA FinalFrame ==
  ASSUME Inv, FinalInv,
         \A h \in Hashes : onChain[h] = "final" => onChain'[h] = "final",
         \A h \in Hashes : transactions'[h] = transactions[h],
         \A w \in WatchIDs : \/ g'[w] = g[w]
                             \/ g'[w].pc \notin {"dedup", "insert", "credit", "estimate"}
  PROVE  FinalInv'
<1>1. ConfirmedMeansFinal'
  BY DEF FinalInv, ConfirmedMeansFinal
<1>2. ASSUME NEW w \in WatchIDs, g'[w] = g[w]
      PROVE  RawsFinal(w)'
  <2>1. g[w].batch \in SUBSET Raw /\ (g[w].pc = "insert" => g[w].cur \in Raw)
    BY FieldTypes DEF Inv, TypeOK, LocalsOK, LocalOK
  <2>2. RawsFinal(w)
    BY DEF FinalInv
  <2>. QED  BY <1>2, <2>1, <2>2, RawType DEF RawsFinal, FinalOffBsc
<1>3. \A w \in WatchIDs : RawsFinal(w)'
  BY <1>2 DEF RawsFinal
<1>. QED  BY <1>1, <1>3 DEF FinalInv

(* The rest of a batch. *)
LEMMA AfterRawFinal ==
  ASSUME Inv, FinalInv, NEW w \in WatchIDs, NEW rest \in SUBSET g[w].batch,
         NEW r \in Raw, NEW ok \in BOOLEAN, AfterRaw(w, rest, r, ok), UNCHANGED onChain,
         g[w].pc \in {"dedup", "insert", "credit", "estimate"}
  PROVE  RawsFinal(w)' /\ \A v \in WatchIDs \ {w} : g'[v] = g[v]
<1>1. WatcherTypeOK /\ g[w].batch \in SUBSET Raw /\ g \in [WatchIDs -> Locals]
  BY FieldTypes DEF Inv, TypeOK, WatcherTypeOK
<1>2. PICK x \in Locals : /\ g' = [g EXCEPT ![w] = x]
                          /\ x.pc \in {"list", "dedup"}
                          /\ x.address = g[w].address
                          /\ x.batch = rest
  BY <1>1, AfterRawType
<1>3. g'[w] = x /\ \A v \in WatchIDs \ {w} : g'[v] = g[v]
  BY <1>1, <1>2
<1>4. RawsFinal(w)
  BY DEF FinalInv
<1>. QED  BY <1>2, <1>3, <1>4 DEF RawsFinal, FinalOffBsc

(* A step of w that confirms no other transaction than a final one. *)
LEMMA FinalOfOne ==
  ASSUME FinalInv, NEW w \in WatchIDs, UNCHANGED onChain, RawsFinal(w)',
         \A v \in WatchIDs \ {w} : g'[v] = g[v],
         \A h \in Hashes :
            \/ transactions'[h] = transactions[h]
            \/ transactions'[h].status # "CONFIRMED"
            \/ Chain[transactions'[h].address] # "BSC" => onChain[h] = "final"
  PROVE  FinalInv'
<1>1. ConfirmedMeansFinal'
  BY DEF FinalInv, ConfirmedMeansFinal
<1>2. \A v \in WatchIDs \ {w} : RawsFinal(v)'
  BY DEF FinalInv, RawsFinal, FinalOffBsc
<1>. QED  BY <1>1, <1>2 DEF FinalInv

LEMMA InsertFinal ==
  ASSUME Inv, FinalInv, NEW w \in WatchIDs, Insert(w)
  PROVE  FinalInv'
<1>1. /\ g \in [WatchIDs -> Locals] /\ transactions \in [Hashes -> TxRow]
      /\ WatcherTypeOK /\ g[w].batch \in SUBSET Raw
  BY FieldTypes DEF Inv, TypeOK, WatcherTypeOK, DBTypeOK
<1>2. /\ g[w].pc = "insert" /\ g[w].cur \in Raw /\ UNCHANGED onChain
      /\ RawsFinal(w)
  BY DEF Insert, OnlyG, envVars, Inv, LocalsOK, LocalOK, FinalInv
<1>3. RawsFinal(w)' /\ \A v \in WatchIDs \ {w} : g'[v] = g[v]
  <2>1. \/ \E ok \in BOOLEAN : AfterRaw(w, g[w].batch, g[w].cur, ok)
        \/ \E pc \in {"credit", "estimate"}, p \in PointValues :
              g' = [g EXCEPT ![w] = [g[w] EXCEPT !.pc = pc, !.pts = p]]
    BY DEF Insert, InsertConfirmed, InsertUnpriced, InsertPending, InsertFails
  <2>2. CASE \E ok \in BOOLEAN : AfterRaw(w, g[w].batch, g[w].cur, ok)
    BY <1>1, <1>2, <2>2, AfterRawFinal
  <2>3. ASSUME NEW pc \in {"credit", "estimate"}, NEW p \in PointValues,
               g' = [g EXCEPT ![w] = [g[w] EXCEPT !.pc = pc, !.pts = p]]
        PROVE  RawsFinal(w)' /\ \A v \in WatchIDs \ {w} : g'[v] = g[v]
    <3>1. /\ g'[w].pc = pc /\ g'[w].batch = g[w].batch /\ g'[w].address = g[w].address
          /\ \A v \in WatchIDs \ {w} : g'[v] = g[v]
      BY <1>1, <2>3 DEF Locals
    <3>. QED  BY <1>2, <3>1 DEF RawsFinal, FinalOffBsc
  <2>. QED  BY <2>1, <2>2, <2>3
<1>4. ASSUME NEW h \in Hashes
      PROVE  \/ transactions'[h] = transactions[h]
             \/ transactions'[h].status # "CONFIRMED"
             \/ Chain[transactions'[h].address] # "BSC" => onChain[h] = "final"
  <2>1. CASE InsertConfirmed(w, g[w].cur)
    <3>1. PICK p \in PointValues :
            InsertTransaction(g[w].cur.hash, w, g[w].address, "CONFIRMED", p, now)
      BY <2>1 DEF InsertConfirmed
    <3>2. \/ h # g[w].cur.hash /\ transactions'[h] = transactions[h]
          \/ h = g[w].cur.hash /\ transactions'[h].address = g[w].address
      BY <1>1, <3>1 DEF InsertTransaction
    <3>3. g[w].cur.confirmed
      BY <2>1 DEF InsertConfirmed
    <3>. QED  BY <1>2, <3>2, <3>3 DEF RawsFinal, FinalOffBsc
  <2>2. CASE InsertTransaction(g[w].cur.hash, w, g[w].address, "PENDING", 0, now)
    BY <1>1, <2>2 DEF InsertTransaction
  <2>3. CASE UNCHANGED transactions
    BY <2>3
  <2>. QED  BY <2>1, <2>2, <2>3 DEF Insert, InsertUnpriced, InsertPending, InsertFails,
                                    DBRead, DBFault, dbVars
<1>. QED  BY <1>2, <1>3, <1>4, FinalOfOne

LEMMA ConfirmFinal ==
  ASSUME Inv, FinalInv, NEW w \in WatchIDs, Confirm(w)
  PROVE  FinalInv'
<1>1. /\ g \in [WatchIDs -> Locals] /\ transactions \in [Hashes -> TxRow]
      /\ WatcherTypeOK /\ g[w].todo \in SUBSET Hashes
  BY FieldTypes DEF Inv, TypeOK, WatcherTypeOK, DBTypeOK
<1>2. UNCHANGED onChain
  BY DEF Confirm, OnlyG, envVars
<1>3. ASSUME NEW rest \in SUBSET Hashes, NextPending(w, rest)
      PROVE  RawsFinal(w)' /\ \A v \in WatchIDs \ {w} : g'[v] = g[v]
  <2>1. PICK x \in Locals : g' = [g EXCEPT ![w] = x] /\ x.pc \in {"check", "confirm"}
    BY <1>1, <1>3, NextPendingType
  <2>. QED  BY <1>1, <2>1 DEF RawsFinal
<1>4. CASE \E rest \in SUBSET Hashes : NextPending(w, rest) /\ DBRead
  BY <1>2, <1>3, <1>4, FinalOfOne DEF DBRead, dbVars
<1>5. ASSUME NEW h \in g[w].todo, NEW p \in PointValues,
             Confirmable(h), UpdateToConfirmed(h, p),
             g' = [g EXCEPT ![w].pc = "move", ![w].todo = @ \ {h},
                            ![w].cur = RawOf(h), ![w].pts = p,
                            ![w].old = transactions[h].points]
      PROVE  FinalInv'
  <2>. DEFINE x == [g[w] EXCEPT !.pc = "move", !.todo = @ \ {h}, !.cur = RawOf(h),
                                !.pts = p, !.old = transactions[h].points]
  <2>1. g' = [g EXCEPT ![w] = x]
    BY <1>5
  <2>2. x.pc = "move"
    BY <1>1 DEF Locals
  <2>. HIDE DEF x
  <2>3. RawsFinal(w)' /\ \A v \in WatchIDs \ {w} : g'[v] = g[v]
    BY <1>1, <2>1, <2>2 DEF RawsFinal
  <2>4. \A k \in Hashes : \/ transactions'[k] = transactions[k]
                          \/ k = h /\ transactions'[k].address = transactions[h].address
    BY <1>1, <1>5 DEF UpdateToConfirmed, TxRow
  <2>. QED  BY <1>2, <1>5, <2>3, <2>4, FinalOfOne DEF Confirmable
<1>6. {} \in SUBSET Hashes /\ \A h \in g[w].todo : g[w].todo \ {h} \in SUBSET Hashes
  BY <1>1
<1>. QED  BY <1>4, <1>5, <1>6 DEF Confirm

LEMMA TickFinal ==
  ASSUME Inv, FinalInv, NEW w \in WatchIDs, Tick(w)
  PROVE  FinalInv'
<1>1. g \in [WatchIDs -> Locals]
  BY DEF Inv, TypeOK, WatcherTypeOK
<1>2. UNCHANGED onChain /\ UNCHANGED transactions
  BY DEF Tick, OnlyG, envVars, DBRead, dbVars
<1>3. CASE g' = [g EXCEPT ![w].pc = "list"]
  BY <1>1, <1>2, <1>3, FinalFrame DEF Locals
<1>4. ASSUME NEW batch \in FetchResults(g[w].address, g[w].cutoff),
             g' = [g EXCEPT ![w].pc = IF batch = {} THEN "list" ELSE "dedup",
                            ![w].batch = batch]
      PROVE  FinalInv'
  <2>1. ASSUME NEW r \in batch
        PROVE  FinalOffBsc(r, g[w].address)
    <3>1. PICK h \in Hashes : r = RawTx(g[w].address, h)
      BY <1>4 DEF FetchResults, Since
    <3>. QED  BY <3>1 DEF RawTx, FinalOffBsc
  <2>2. /\ g'[w].pc \in {"list", "dedup"} /\ g'[w].batch = batch
        /\ g'[w].address = g[w].address
        /\ \A v \in WatchIDs \ {w} : g'[v] = g[v]
    BY <1>1, <1>4 DEF Locals
  <2>3. RawsFinal(w)'
    BY <1>2, <2>1, <2>2 DEF RawsFinal, FinalOffBsc
  <2>. QED  BY <1>2, <2>2, <2>3, FinalOfOne
<1>. QED  BY <1>3, <1>4 DEF Tick

LEMMA DedupFinal ==
  ASSUME Inv, FinalInv, NEW w \in WatchIDs, Dedup(w)
  PROVE  FinalInv'
<1>1. g \in [WatchIDs -> Locals] /\ g[w].batch \in SUBSET Raw
  BY FieldTypes DEF Inv, TypeOK, WatcherTypeOK
<1>2. UNCHANGED onChain /\ UNCHANGED transactions /\ g[w].pc = "dedup" /\ RawsFinal(w)
  BY DEF Dedup, OnlyG, envVars, DBRead, DBFault, dbVars, FinalInv
<1>3. PICK r \in g[w].batch :
        \/ \E ok \in BOOLEAN : AfterRaw(w, g[w].batch \ {r}, r, ok)
        \/ g' = [g EXCEPT ![w] = [g[w] EXCEPT !.pc = "insert", !.cur = r,
                                              !.batch = @ \ {r}]]
  BY DEF Dedup
<1>4. RawsFinal(w)' /\ \A v \in WatchIDs \ {w} : g'[v] = g[v]
  <2>1. CASE \E ok \in BOOLEAN : AfterRaw(w, g[w].batch \ {r}, r, ok)
    BY <1>1, <1>2, <2>1, AfterRawFinal
  <2>2. CASE g' = [g EXCEPT ![w] = [g[w] EXCEPT !.pc = "insert", !.cur = r,
                                                !.batch = @ \ {r}]]
    <3>1. /\ g'[w].pc = "insert" /\ g'[w].batch = g[w].batch \ {r} /\ g'[w].cur = r
          /\ g'[w].address = g[w].address
          /\ \A v \in WatchIDs \ {w} : g'[v] = g[v]
      BY <1>1, <2>2 DEF Locals
    <3>. QED  BY <1>2, <3>1 DEF RawsFinal, FinalOffBsc
  <2>. QED  BY <1>3, <2>1, <2>2
<1>. QED  BY <1>2, <1>4, FinalOfOne

LEMMA RunFinal ==
  ASSUME Inv, FinalInv, NEW w \in WatchIDs, RunWatch(w)
  PROVE  FinalInv'
<1>1. /\ g \in [WatchIDs -> Locals] /\ WatcherTypeOK
      /\ g[w].todo \in SUBSET Hashes /\ g[w].batch \in SUBSET Raw
  BY FieldTypes DEF Inv, TypeOK, WatcherTypeOK
<1>2. \A v \in WatchIDs \ {w} : g'[v] = g[v]
  BY RunShape
<1>3. CASE Start(w) \/ ContextDone(w) \/ ListPendingOfWatch(w) \/ CheckStop(w)
           \/ Finish(w) \/ RemoveWatch(w)
  <2>1. UNCHANGED onChain /\ UNCHANGED transactions
    BY <1>3 DEF Start, ContextDone, ListPendingOfWatch, CheckStop, Finish, RemoveWatch, OnlyG,
                UpdateWatchStatus, DBRead, DBFault, dbVars, envVars
  <2>2. g'[w].pc \in {"loop", "finish", "check", "confirm", "remove", "done"}
    BY <1>1, <1>3 DEF Start, ContextDone, ListPendingOfWatch, CheckStop, Finish, RemoveWatch,
                      Locals, Idle
  <2>. QED  BY <1>2, <2>1, <2>2, FinalFrame
<1>4. CASE Credit(w) \/ Estimate(w)
  <2>1. UNCHANGED onChain /\ UNCHANGED transactions
    BY <1>4 DEF Credit, Estimate, AddUnclaimed, AddPending, OnlyG, DBFault, dbVars, envVars
  <2>2. /\ g[w].pc \in {"credit", "estimate"} /\ AfterRaw(w, g[w].batch, g[w].cur, TRUE)
        /\ g[w].cur \in Raw
    BY <1>4 DEF Credit, Estimate, Inv, LocalsOK, LocalOK
  <2>3. RawsFinal(w)'
    BY <1>1, <2>1, <2>2, AfterRawFinal
  <2>. QED  BY <1>2, <2>1, <2>3, FinalOfOne
<1>5. CASE Move(w)
  <2>1. UNCHANGED onChain /\ UNCHANGED transactions /\ NextPending(w, g[w].todo)
    BY <1>5 DEF Move, MovePendingToUnclaimed, OnlyG, DBFault, dbVars, envVars
  <2>2. PICK x \in Locals : g' = [g EXCEPT ![w] = x] /\ x.pc \in {"check", "confirm"}
    BY <1>1, <2>1, NextPendingType
  <2>. QED  BY <1>1, <1>2, <2>1, <2>2, FinalFrame
<1>. QED  BY <1>3, <1>4, <1>5, TickFinal, DedupFinal, InsertFinal, ConfirmFinal DEF RunWatch

LEMMA RecoveryFinal ==
  ASSUME Inv, FinalInv, RunRecovery
  PROVE  FinalInv'
<1>1. UNCHANGED <<g, onChain>>
  BY DEF RunRecovery, RecoveryExpire, RecoveryList, RecoveryConfirm, RecoveryMove,
         RecoveryFrame, envVars
<1>2. CASE UNCHANGED transactions
  BY <1>1, <1>2, FinalFrame
<1>3. ASSUME NEW h \in rec.todo, NEW p \in PointValues, Confirmable(h), UpdateToConfirmed(h, p)
      PROVE  FinalInv'
  <2>1. transactions \in [Hashes -> TxRow]
    BY DEF Inv, TypeOK, WatcherTypeOK, DBTypeOK
  <2>2. \A k \in Hashes : \/ transactions'[k] = transactions[k]
                          \/ k = h /\ transactions'[k].address = transactions[h].address
    BY <1>3, <2>1 DEF UpdateToConfirmed, TxRow
  <2>3. ConfirmedMeansFinal'
    BY <1>1, <1>3, <2>2 DEF FinalInv, ConfirmedMeansFinal, Confirmable
  <2>. QED  BY <1>1, <2>3 DEF FinalInv, RawsFinal, FinalOffBsc
<1>4. UNCHANGED transactions \/ RecoveryConfirm
  BY DEF RunRecovery, RecoveryExpire, RecoveryList, RecoveryMove, ExpireAllActiveWatches,
         MovePendingToUnclaimed, DBRead, DBFault, dbVars
<1>. QED  BY <1>2, <1>3, <1>4 DEF RecoveryConfirm, DBRead, dbVars

LEMMA FinalStep == Inv /\ FinalInv /\ [Next]_vars => FinalInv'
<1>. SUFFICES ASSUME Inv, FinalInv, [Next]_vars PROVE FinalInv'
  OBVIOUS
<1>1. g \in [WatchIDs -> Locals] /\ onChain \in [Hashes -> {"absent", "unconfirmed", "final"}]
  BY DEF Inv, TypeOK, WatcherTypeOK
<1>2. ASSUME UNCHANGED <<g, onChain, transactions>>
      PROVE  FinalInv'
  BY <1>2, FinalFrame
<1>3. ASSUME NEW w \in WatchIDs, CreateWatch(w)
      PROVE  FinalInv'
  <2>1. UNCHANGED <<onChain, transactions>>
    BY <1>3 DEF CreateWatch, CheckLimit, CheckDuplicate, InsertWatch, CreateWatchRow, Register,
                OnlyG, envVars, DBRead, DBFault, dbVars
  <2>2. /\ g'[w].pc \in {"idle", "limit", "dup", "register", "start"}
        /\ \A v \in WatchIDs \ {w} : g'[v] = g[v]
    BY <1>1, <1>3 DEF CreateWatch, CheckLimit, CheckDuplicate, InsertWatch, Register, Idle,
                      Locals
  <2>. QED  BY <2>1, <2>2, FinalFrame
<1>4. ASSUME NEW w \in WatchIDs, CancelWatch(w) \/ Expire(w) \/ Deadline(w)
      PROVE  FinalInv'
  BY <1>2, <1>4 DEF CancelWatch, Expire, Deadline, DBRead, dbVars, envVars
<1>5. CASE ClockTick
  BY <1>2, <1>5 DEF ClockTick, DBRead, dbVars, memVars
<1>6. ASSUME NEW h \in Hashes, Appear(h) \/ Finalize(h)
      PROVE  FinalInv'
  <2>1. /\ \A k \in Hashes : onChain[k] = "final" => onChain'[k] = "final"
        /\ UNCHANGED <<g, transactions>>
    BY <1>1, <1>6 DEF Appear, Finalize, DBRead, dbVars, memVars
  <2>. QED  BY <2>1, FinalFrame
<1>7. ASSUME NEW c \in Claimers, ClaimRead(c) \/ ClaimReset(c)
      PROVE  FinalInv'
  BY <1>2, <1>7 DEF ClaimRead, ClaimReset, ResetUnclaimed, DBFault, watcherVars, dbVars,
                    memVars, envVars
<1>8. CASE ProcessStep
  <2>1. UNCHANGED <<onChain, transactions>>
    BY <1>8 DEF ProcessStep, Serve, BeginStop, CancelAll, FinishStop, StopExpire,
         ExpireAllActiveWatches, Exit, Crash, EndProcess, Restart, DBRead, DBFault,
         watcherVars, dbVars, envVars
  <2>2. UNCHANGED g \/ \A w \in WatchIDs : g'[w].pc \in {"idle", "done"}
    BY <1>8 DEF ProcessStep, Serve, BeginStop, CancelAll, FinishStop, StopExpire,
         Exit, Crash, EndProcess, Restart, watcherVars, memVars, Idle
  <2>. QED  BY <2>1, <2>2, FinalFrame
<1>9. CASE UNCHANGED vars
  BY <1>2, <1>9 DEF vars, watcherVars, dbVars, memVars, envVars
<1>. QED  BY <1>3, <1>4, <1>5, <1>6, <1>7, <1>8, <1>9, RunFinal, RecoveryFinal
          DEF Next, WatcherStep

(* Off BSC no transaction is CONFIRMED before its chain's threshold, although *)
(* the goroutine inserts and recovery confirms on what a provider call said  *)
(* earlier.                                                                  *)
THEOREM ConfirmedTransactionsAreFinal == Spec => []ConfirmedMeansFinal
<1>1. FinalInv => ConfirmedMeansFinal
  BY DEF FinalInv
<1>. QED  BY <1>1, InitInv, NextInv, InitFinal, FinalStep, PTL DEF Spec

-----------------------------------------------------------------------------
(* Claims                                                                  *)

\* The amount a claim is about to report is still in the unclaimed balance.
ClaimBound ==
    /\ ClaimedWithinAwarded
    /\ \A c \in Claimers : claim[c] # NoClaim =>
         /\ claim[c].address \in Addresses
         /\ claim[c].amount <= points[claim[c].address].unclaimed

LEMMA InitClaim == Init => ClaimBound
  BY DEF Init, WatcherInit, DBInit, ClaimBound, ClaimedWithinAwarded

(* Every step but a claim adds the same amount to unclaimed and to total. *)
LEMMA EarnedStep ==
  ASSUME Inv, [Next]_vars, ~ \E c \in Claimers : ClaimReset(c), NEW a \in Addresses
  PROVE  /\ points[a].unclaimed <= points'[a].unclaimed
         /\ points'[a].unclaimed - points[a].unclaimed = points'[a].total - points[a].total
<1>. DEFINE Goal ==
       /\ points[a].unclaimed <= points'[a].unclaimed
       /\ points'[a].unclaimed - points[a].unclaimed = points'[a].total - points[a].total
<1>1. points \in [Addresses -> PointsRow] /\ WatcherTypeOK
  BY DEF Inv, TypeOK, WatcherTypeOK, DBTypeOK
<1>0. points[a].unclaimed \in Nat /\ points[a].total \in Nat
  BY <1>1 DEF PointsRow
<1>2. ASSUME UNCHANGED points PROVE Goal
  BY <1>0, <1>2
<1>3. ASSUME NEW b \in Addresses, NEW p \in Nat, NEW q \in Nat,
             AddUnclaimed(b, q) \/ MovePendingToUnclaimed(b, p, q)
      PROVE  Goal
  <2>1. CASE a = b
    <3>1. /\ points'[a].unclaimed = points[a].unclaimed + q
          /\ points'[a].total = points[a].total + q
      BY <1>1, <1>3, <2>1 DEF AddUnclaimed, MovePendingToUnclaimed, PointsRow
    <3>. QED  BY <1>0, <3>1
  <2>2. CASE a # b
    <3>1. points'[a] = points[a]
      BY <1>1, <1>3, <2>2 DEF AddUnclaimed, MovePendingToUnclaimed
    <3>. QED  BY <1>0, <3>1
  <2>. QED  BY <2>1, <2>2
<1>4. ASSUME NEW b \in Addresses, NEW p \in Nat, AddPending(b, p) PROVE Goal
  <2>1. points'[a].unclaimed = points[a].unclaimed /\ points'[a].total = points[a].total
    BY <1>1, <1>4 DEF AddPending, PointsRow
  <2>. QED  BY <1>0, <2>1
<1>. HIDE DEF Goal
<1>5. ASSUME NEW w \in WatchIDs, CreateWatch(w) \/ CancelWatch(w) \/ Expire(w) \/ Deadline(w)
      PROVE  UNCHANGED points
  BY <1>5 DEF CreateWatch, CheckLimit, CheckDuplicate, InsertWatch, CreateWatchRow, Register,
              CancelWatch, Expire, Deadline, DBRead, DBFault, dbVars
<1>6. ASSUME NEW w \in WatchIDs, RunWatch(w) PROVE Goal
  <2>1. ASSUME Credit(w) PROVE Goal
    <3>1. g[w].address \in Addresses /\ g[w].pts \in Nat
      BY <1>1, <2>1, FieldTypes DEF Credit, Inv, LocalsOK, LocalOK
    <3>. QED  BY <1>2, <1>3, <2>1, <3>1 DEF Credit, DBFault, dbVars
  <2>2. ASSUME Estimate(w) PROVE Goal
    <3>1. g[w].address \in Addresses /\ g[w].pts \in Nat
      BY <1>1, <2>2, FieldTypes DEF Estimate, Inv, LocalsOK, LocalOK
    <3>. QED  BY <1>2, <1>4, <2>2, <3>1 DEF Estimate, DBFault, dbVars
  <2>3. ASSUME Move(w) PROVE Goal
    <3>1. g[w].pc = "move" /\ g[w].old \in Nat /\ g[w].pts \in Nat
      BY <1>1, <2>3, FieldTypes DEF Move
    <3>2. g[w].cur.hash \in Hashes /\ transactions[g[w].cur.hash].status = "CONFIRMED"
      BY <3>1, RawType DEF Inv, LocalsOK, LocalOK, Owed
    <3>3. transactions[g[w].cur.hash].address \in Addresses
      BY <3>2 DEF Inv, RowsOK, RowOK
    <3>. QED  BY <1>2, <1>3, <2>3, <3>1, <3>3 DEF Move, DBFault, dbVars
  <2>4. ASSUME UNCHANGED points PROVE Goal
    BY <1>2, <2>4
  <2>. QED  BY <1>6, <2>1, <2>2, <2>3, <2>4
            DEF RunWatch, Start, ContextDone, Tick, Dedup, Insert, InsertConfirmed,
                InsertUnpriced, InsertPending, InsertFails, InsertTransaction,
                ListPendingOfWatch, Confirm, UpdateToConfirmed, CheckStop, Finish,
                UpdateWatchStatus, RemoveWatch, DBRead, DBFault, dbVars
<1>7. ASSUME RunRecovery PROVE Goal
  <2>1. ASSUME RecoveryMove PROVE Goal
    <3>1. rec.pc = "move" /\ rec.old \in Nat /\ rec.pts \in Nat
      BY <1>1, <2>1, RecFieldTypes DEF RecoveryMove
    <3>2. rec.cur.hash \in Hashes /\ transactions[rec.cur.hash].status = "CONFIRMED"
      BY <3>1, RawType DEF Inv, RecOK, Owed
    <3>3. transactions[rec.cur.hash].address \in Addresses
      BY <3>2 DEF Inv, RowsOK, RowOK
    <3>. QED  BY <1>2, <1>3, <2>1, <3>1, <3>3 DEF RecoveryMove, DBFault, dbVars
  <2>. QED  BY <1>2, <1>7, <2>1
            DEF RunRecovery, RecoveryExpire, RecoveryList, RecoveryConfirm,
                ExpireAllActiveWatches, UpdateToConfirmed, DBRead, DBFault, dbVars
<1>8. ASSUME ClockTick \/ \E h \in Hashes : Appear(h) \/ Finalize(h) PROVE Goal
  BY <1>2, <1>8 DEF ClockTick, Appear, Finalize, DBRead, dbVars
<1>9. ASSUME NEW c \in Claimers, ClaimRead(c) PROVE Goal
  BY <1>2, <1>9 DEF ClaimRead, watcherVars, dbVars
<1>10. ASSUME ProcessStep PROVE Goal
  BY <1>2, <1>10 DEF ProcessStep, Serve, BeginStop, CancelAll, FinishStop, StopExpire,
         ExpireAllActiveWatches, Exit, Crash, EndProcess, Restart, DBRead, DBFault,
         watcherVars, dbVars
<1>11. ASSUME UNCHANGED vars PROVE Goal
  BY <1>2, <1>11 DEF vars, watcherVars, dbVars
<1>12. Goal
  BY <1>2, <1>5, <1>6, <1>7, <1>8, <1>9, <1>10, <1>11 DEF Next, WatcherStep
<1>. QED  BY <1>12 DEF Goal

OneClaimer == \A c, d \in Claimers : c = d

LEMMA ClaimStep == OneClaimer /\ Inv /\ Inv' /\ ClaimBound /\ [Next]_vars => ClaimBound'
<1>. SUFFICES ASSUME OneClaimer, Inv, Inv', ClaimBound, [Next]_vars PROVE ClaimBound'
  OBVIOUS
<1>1. /\ points \in [Addresses -> PointsRow] /\ points' \in [Addresses -> PointsRow]
      /\ paid \in [Addresses -> Nat]
      /\ claim \in [Claimers -> [address : Addresses \cup {NoAddress}, amount : Nat]]
  BY DEF Inv, TypeOK, WatcherTypeOK, DBTypeOK
<1>2. CASE \E c \in Claimers : ClaimReset(c)
  <2>1. PICK c \in Claimers : ClaimReset(c)
    BY <1>2
  <2>2. \A d \in Claimers : claim'[d] = NoClaim
    BY <1>1, <2>1 DEF ClaimReset, OneClaimer
  <2>3. /\ claim[c].address \in Addresses
        /\ claim[c].amount \in Nat
        /\ claim[c].amount <= points[claim[c].address].unclaimed
    BY <1>1, <2>1 DEF ClaimReset, ClaimBound
  <2>4. CASE UNCHANGED <<points, paid>>
    BY <2>2, <2>4 DEF ClaimBound, ClaimedWithinAwarded
  <2>5. CASE /\ ResetUnclaimed(claim[c].address)
             /\ paid' = [paid EXCEPT ![claim[c].address] = @ + claim[c].amount]
    <3>1. ASSUME NEW a \in Addresses
          PROVE  paid'[a] + points'[a].unclaimed <= points'[a].total
      <4>1. CASE a = claim[c].address
        <5>1. /\ paid'[a] = paid[a] + claim[c].amount
              /\ points'[a].unclaimed = 0 /\ points'[a].total = points[a].total
          BY <1>1, <2>5, <4>1 DEF ResetUnclaimed, PointsRow
        <5>2. /\ paid[a] + points[a].unclaimed <= points[a].total
              /\ claim[c].amount <= points[a].unclaimed
          BY <2>3, <4>1 DEF ClaimBound, ClaimedWithinAwarded
        <5>3. /\ paid[a] \in Nat /\ points[a].unclaimed \in Nat /\ points[a].total \in Nat
          BY <1>1 DEF PointsRow
        <5>. QED  BY <2>3, <5>1, <5>2, <5>3
      <4>2. CASE a # claim[c].address
        <5>1. paid'[a] = paid[a] /\ points'[a] = points[a]
          BY <1>1, <2>5, <4>2 DEF ResetUnclaimed
        <5>. QED  BY <5>1 DEF ClaimBound, ClaimedWithinAwarded
      <4>. QED  BY <4>1, <4>2
    <3>. QED  BY <2>2, <3>1 DEF ClaimBound, ClaimedWithinAwarded
  <2>. QED  BY <2>1, <2>4, <2>5 DEF ClaimReset, DBFault, dbVars
<1>3. CASE ~ \E c \in Claimers : ClaimReset(c)
  <2>1. UNCHANGED paid
    BY <1>3 DEF Next, vars, procVars, ClaimRead, ProcessStep, Serve, BeginStop, FinishStop,
                Exit, Crash, EndProcess, Restart
  <2>2. ASSUME NEW a \in Addresses
        PROVE  /\ paid'[a] + points'[a].unclaimed <= points'[a].total
               /\ points[a].unclaimed <= points'[a].unclaimed
    <3>1. /\ points[a].unclaimed <= points'[a].unclaimed
          /\ points'[a].unclaimed - points[a].unclaimed = points'[a].total - points[a].total
      BY <1>3, EarnedStep
    <3>2. /\ paid[a] \in Nat
          /\ points[a].unclaimed \in Nat /\ points[a].total \in Nat
          /\ points'[a].unclaimed \in Nat /\ points'[a].total \in Nat
      BY <1>1 DEF PointsRow
    <3>3. paid[a] + points[a].unclaimed <= points[a].total
      BY DEF ClaimBound, ClaimedWithinAwarded
    <3>. QED  BY <2>1, <3>1, <3>2, <3>3
  <2>3. ASSUME NEW c \in Claimers, claim'[c] # NoClaim
        PROVE  /\ claim'[c].address \in Addresses
               /\ claim'[c].amount <= points'[claim'[c].address].unclaimed
    <3>1. CASE claim'[c] = claim[c]
      <4>1. /\ claim[c].address \in Addresses /\ claim[c].amount \in Nat
            /\ claim[c].amount <= points[claim[c].address].unclaimed
        BY <1>1, <2>3, <3>1 DEF ClaimBound
      <4>2. /\ points[claim[c].address].unclaimed \in Nat
            /\ points'[claim[c].address].unclaimed \in Nat
        BY <1>1, <4>1 DEF PointsRow
      <4>. QED  BY <2>2, <3>1, <4>1, <4>2
    <3>2. CASE \E d \in Claimers : ClaimRead(d)
      <4>1. UNCHANGED points /\ ClaimRead(c)
        BY <3>2 DEF ClaimRead, watcherVars, dbVars, OneClaimer
      <4>2. PICK a \in Addresses : claim'[c] = [address |-> a, amount |-> points[a].unclaimed]
        BY <1>1, <4>1 DEF ClaimRead
      <4>3. points[a].unclaimed \in Nat
        BY <1>1 DEF PointsRow
      <4>. QED  BY <4>1, <4>2, <4>3
    <3>. QED  BY <1>3, <2>3, <3>1, <3>2
              DEF Next, vars, procVars, ProcessStep, Serve, BeginStop, FinishStop, Exit, Crash,
                  EndProcess, Restart
  <2>. QED  BY <2>2, <2>3 DEF ClaimBound, ClaimedWithinAwarded
<1>. QED  BY <1>2, <1>3

(* With one claim request at a time the claimers are never told of more       *)
(* points than were awarded, whatever is credited or fails between the two    *)
(* statements of ClaimPoints.  (MCPollerClaim shows that two at once are.)    *)
THEOREM OneClaimIsWithinAward ==
  ASSUME OneClaimer
  PROVE  Spec => []ClaimedWithinAwarded
<1>1. ClaimBound => ClaimedWithinAwarded
  BY DEF ClaimBound
<1>2. Inv /\ Inv' /\ ClaimBound /\ [Next]_vars => ClaimBound'
  BY ClaimStep
<1>. QED  BY <1>1, <1>2, InitInv, NextInv, InitClaim, PTL DEF Spec

-----------------------------------------------------------------------------
(* COMPLETED                                                               *)

Settled(w) ==
    /\ TxsOfWatch(w) # {}
    /\ \A h \in TxsOfWatch(w) : transactions[h].status = "CONFIRMED"

Completing(w) ==
    \/ watches[w].status = "COMPLETED"
    \/ g[w].pc = "finish" /\ g[w].newStatus = "COMPLETED"

Earned(h) == transactions[h].status = "CONFIRMED" /\ transactions[h].points > 0

Holds(w, h) == g[w].pc \in {"credit", "move"} /\ g[w].cur.hash = h

\* As long as nothing failed, points not yet credited are in some goroutine's
\* hands, and the first recovery finds an empty table.
NothingLost ==
    ~ Failed =>
        /\ phase = "recovery" => \A h \in Hashes : ~ Recorded(h)
        /\ \A h \in Hashes : Earned(h) /\ credited[h] = 0
             => \E w \in WatchIDs : Holds(w, h)

SettledInv ==
    /\ \A w \in WatchIDs : Completing(w) => Settled(w)
    /\ NothingLost

LEMMA InitSettled == Init => SettledInv
  BY DEF Init, WatcherInit, DBInit, Idle, SettledInv, Completing, NothingLost, Earned, Recorded

LEMMA SettledImplies == Inv /\ StatusInv /\ SettledInv => CompletedMeansSettled
<1>. SUFFICES ASSUME Inv, StatusInv, SettledInv,
                     NEW w \in WatchIDs, watches[w].status = "COMPLETED"
              PROVE  /\ TxsOfWatch(w) # {}
                     /\ \A h \in TxsOfWatch(w) :
                           /\ transactions[h].status = "CONFIRMED"
                           /\ ~ Failed /\ transactions[h].points > 0 => credited[h] = 1
  BY DEF CompletedMeansSettled
<1>1. Settled(w)
  BY DEF SettledInv, Completing
<1>2. ASSUME NEW h \in TxsOfWatch(w), ~ Failed, transactions[h].points > 0
      PROVE  credited[h] = 1
  <2>1. h \in Hashes /\ transactions[h].watch = w /\ credited[h] \in {0, 1}
    BY <1>2 DEF TxsOfWatch, Inv, RowsOK, RowOK
  <2>2. g[w].pc \notin {"credit", "move"}
    BY DEF StatusInv, StatusOK, Owning, GoroutinePC, TerminalStatus
  <2>3. \A v \in WatchIDs : Holds(v, h) => v = w
    BY <2>1 DEF Holds, Inv, LocalsOK, LocalOK
  <2>4. Earned(h)
    BY <1>1, <1>2 DEF Settled, Earned
  <2>5. credited[h] # 0
    BY <1>2, <2>1, <2>2, <2>3, <2>4 DEF SettledInv, NothingLost, Holds
  <2>. QED  BY <2>1, <2>5
<1>. QED  BY <1>1, <1>2 DEF Settled

(* Rows are added for the goroutine's own watch and confirmed for good. *)
LEMMA SettledStays ==
  ASSUME NEW w \in WatchIDs, Settled(w),
         \A h \in Hashes :
            \/ transactions'[h] = transactions[h]
            \/ /\ Recorded(h)
               /\ transactions'[h].status = "CONFIRMED"
               /\ transactions'[h].watch = transactions[h].watch
            \/ ~ Recorded(h) /\ transactions'[h].watch # w
  PROVE  Settled(w)'
  BY DEF Settled, TxsOfWatch, Recorded

(* Steps that write no transaction, credit nothing and move no goroutine that *)
(* holds points.                                                              *)
LEMMA SettledFrame ==
  ASSUME Inv, SettledInv, UNCHANGED <<transactions, credited>>,
         Failed => Failed', ~ Failed' => (phase' = "recovery" => phase = "recovery"),
         ~ Failed' => (\A w \in WatchIDs, h \in Hashes : Holds(w, h) => Holds(w, h)'),
         \A w \in WatchIDs : Completing(w)' => Completing(w)
  PROVE  SettledInv'
<1>1. ASSUME NEW w \in WatchIDs, Completing(w)' PROVE Settled(w)'
  BY <1>1 DEF SettledInv, Settled, TxsOfWatch, Recorded
<1>2. NothingLost'
  BY DEF SettledInv, NothingLost, Earned, Recorded
<1>. QED  BY <1>1, <1>2 DEF SettledInv

LEMMA CreateSettled ==
  ASSUME Inv, StatusInv, SettledInv, UNCHANGED procVars, NEW w \in WatchIDs, CreateWatch(w)
  PROVE  SettledInv'
<1>1. /\ g \in [WatchIDs -> Locals] /\ watches \in [WatchIDs -> WatchRow]
      /\ faults \in Nat /\ StatusOK(w)
  BY DEF Inv, TypeOK, WatcherTypeOK, DBTypeOK, StatusInv
<1>2. /\ UNCHANGED <<transactions, credited>>
      /\ faults' = faults \/ faults' = faults + 1
      /\ \A v \in WatchIDs \ {w} : g'[v] = g[v] /\ watches'[v] = watches[v]
      /\ g[w].pc \in CallPC
  BY <1>1 DEF CreateWatch, CheckLimit, CheckDuplicate, InsertWatch, CreateWatchRow, Register,
              DBRead, DBFault, dbVars, OnlyG, CallPC
<1>3. g'[w].pc \in {"idle", "limit", "dup", "register", "start"}
  BY <1>1 DEF CreateWatch, CheckLimit, CheckDuplicate, InsertWatch, Register, Locals, Idle
<1>4. \/ watches'[w].status = watches[w].status
      \/ watches'[w].status = "ACTIVE"
  BY <1>1 DEF CreateWatch, CheckLimit, CheckDuplicate, InsertWatch, CreateWatchRow, Register,
              DBRead, DBFault, dbVars
<1>5. \A v \in WatchIDs : Completing(v)' => Completing(v)
  BY <1>2, <1>3, <1>4 DEF Completing
<1>6. \A v \in WatchIDs, h \in Hashes : Holds(v, h) => Holds(v, h)'
  BY <1>2 DEF Holds, CallPC
<1>7. (Failed => Failed') /\ UNCHANGED phase
  BY <1>1, <1>2 DEF Failed, procVars
<1>. QED  BY <1>2, <1>5, <1>6, <1>7, SettledFrame

LEMMA RunCompleting ==
  ASSUME Inv, StatusInv, SettledInv, NEW v \in WatchIDs, RunWatch(v),
         NEW w \in WatchIDs, Completing(w)'
  PROVE  Settled(w)'
<1>1. /\ g \in [WatchIDs -> Locals] /\ watches \in [WatchIDs -> WatchRow]
      /\ transactions \in [Hashes -> TxRow] /\ StatusOK(v)
      /\ WatcherTypeOK /\ g[v].todo \in SUBSET Hashes
  BY FieldTypes DEF Inv, TypeOK, WatcherTypeOK, DBTypeOK, StatusInv
<1>2. \A u \in WatchIDs \ {v} : g'[u] = g[u] /\ watches'[u] = watches[u]
  <2>1. CASE Finish(v)
    BY <1>1, <2>1, RunShape DEF Finish, UpdateWatchStatus, DBFault, dbVars
  <2>2. CASE RemoveWatch(v)
    BY <2>2, RunShape DEF RemoveWatch, DBRead, dbVars
  <2>. QED  BY <2>1, <2>2, RunShape
<1>3. ASSUME NEW h \in Hashes
      PROVE  \/ transactions'[h] = transactions[h]
             \/ /\ Recorded(h)
                /\ transactions'[h].status = "CONFIRMED"
                /\ transactions'[h].watch = transactions[h].watch
             \/ ~ Recorded(h) /\ transactions'[h].watch = v /\ g[v].pc = "insert"
  <2>1. CASE Insert(v)
    <3>1. ASSUME NEW s, NEW p,
                 InsertTransaction(g[v].cur.hash, v, g[v].address, s, p, now)
          PROVE  \/ transactions'[h] = transactions[h]
                 \/ ~ Recorded(h) /\ transactions'[h].watch = v
      BY <1>1, <3>1 DEF InsertTransaction
    <3>2. \/ UNCHANGED transactions
          \/ \E s \in TxStatus, p \in PointValues \cup {0} :
                InsertTransaction(g[v].cur.hash, v, g[v].address, s, p, now)
      BY <2>1 DEF Insert, InsertConfirmed, InsertUnpriced, InsertPending, InsertFails,
                  TxStatus, DBRead, DBFault, dbVars
    <3>3. g[v].pc = "insert"
      BY <2>1 DEF Insert
    <3>. QED  BY <3>1, <3>2, <3>3
  <2>2. CASE Confirm(v)
    <3>1. \A k \in g[v].todo : Recorded(k)
      BY <2>2 DEF Confirm, Inv, LocalsOK, LocalOK, Recorded
    <3>2. UNCHANGED transactions \/ \E k \in g[v].todo, p \in PointValues : UpdateToConfirmed(k, p)
      BY <2>2 DEF Confirm, DBRead, dbVars
    <3>3. ASSUME NEW k \in g[v].todo, NEW p \in PointValues, UpdateToConfirmed(k, p)
          PROVE  \/ transactions'[h] = transactions[h]
                 \/ /\ Recorded(h)
                    /\ transactions'[h].status = "CONFIRMED"
                    /\ transactions'[h].watch = transactions[h].watch
      BY <1>1, <3>1, <3>3 DEF UpdateToConfirmed, TxRow
    <3>. QED  BY <3>2, <3>3
  <2>3. CASE UNCHANGED transactions
    BY <2>3
  <2>. QED  BY <2>1, <2>2, <2>3
            DEF RunWatch, Start, ContextDone, Tick, Dedup, Credit, AddUnclaimed, Estimate,
                AddPending, ListPendingOfWatch, Move, MovePendingToUnclaimed, CheckStop,
                Finish, UpdateWatchStatus, RemoveWatch, DBRead, DBFault, dbVars
<1>4. CASE w # v
  <2>1. Settled(w)
    BY <1>2, <1>4 DEF Completing, SettledInv
  <2>. QED  BY <1>3, <1>4, <2>1, SettledStays
<1>5. CASE w = v /\ Settled(w) /\ g[v].pc # "insert"
  BY <1>3, <1>5, SettledStays
<1>6. CASE w = v /\ g[v].pc \in Owning /\ g'[v].pc \in Owning /\ UNCHANGED watches
  <2>1. watches[v].status # "COMPLETED"
    BY <1>1, <1>6 DEF StatusOK, TerminalStatus
  <2>2. g'[v].pc = "finish" /\ g'[v].newStatus = "COMPLETED"
    BY <1>6, <2>1 DEF Completing
  <2>3. CASE CheckStop(v)
    <3>1. UNCHANGED transactions
      BY <2>3 DEF CheckStop, DBRead, DBFault, dbVars
    <3>2. TxsOfWatch(v) # {} /\ ListPendingByWatchID(v) = {}
      BY <1>1, <2>2, <2>3 DEF CheckStop, Locals
    <3>3. \A h \in TxsOfWatch(v) : transactions[h].status = "CONFIRMED"
      BY <1>1, <3>2 DEF TxsOfWatch, ListPendingByWatchID, ListPending, Recorded, TxRow, TxStatus
    <3>. QED  BY <1>6, <3>1, <3>2, <3>3 DEF Settled, TxsOfWatch, Recorded
  <2>4. CASE ContextDone(v)
    BY <1>1, <2>2, <2>4 DEF ContextDone, Locals
  <2>5. CASE Tick(v)
    BY <1>1, <2>2, <2>5 DEF Tick, Locals
  <2>6. g[v].pc \in {"loop", "check"}
    BY <1>1, <1>6, <2>2, RunShape DEF Finish, RemoveWatch, Owning, GoroutinePC, Locals, Idle
  <2>. QED  BY <2>3, <2>4, <2>5, <2>6
            DEF RunWatch, Start, Dedup, Insert, Credit, Estimate, ListPendingOfWatch, Confirm,
                Move, Finish, RemoveWatch
<1>7. CASE w = v /\ Finish(v)
  <2>1. Completing(v) /\ g[v].pc = "finish"
    BY <1>1, <1>7 DEF Finish, UpdateWatchStatus, DBFault, dbVars, Completing, Locals, WatchRow
  <2>. QED  BY <1>5, <1>7, <2>1 DEF SettledInv
<1>8. CASE w = v /\ RemoveWatch(v)
  <2>1. Completing(v) /\ g[v].pc = "remove"
    BY <1>1, <1>8 DEF RemoveWatch, DBRead, dbVars, Completing, Idle
  <2>. QED  BY <1>5, <1>8, <2>1 DEF SettledInv
<1>. QED  BY <1>4, <1>6, <1>7, <1>8, RunShape

(* While nothing fails, w's goroutine credits what it confirmed. *)
LEMMA RunNothingLost ==
  ASSUME Inv, StatusInv, SettledInv, UNCHANGED procVars, NEW w \in WatchIDs, RunWatch(w)
  PROVE  NothingLost'
<1>1. /\ g \in [WatchIDs -> Locals] /\ transactions \in [Hashes -> TxRow]
      /\ WatcherTypeOK /\ faults \in Nat /\ credited \in [Hashes -> Nat]
      /\ phase # "recovery" /\ UNCHANGED <<phase, restarts>>
  BY Busy, RunShape DEF Inv, TypeOK, WatcherTypeOK, DBTypeOK, procVars, GoroutinePC
<1>2. \A u \in WatchIDs \ {w} : g'[u] = g[u]
  BY RunShape
<1>3. SUFFICES ASSUME ~ Failed', NEW h \in Hashes, Earned(h)', credited'[h] = 0
               PROVE  \E u \in WatchIDs : Holds(u, h)'
  BY <1>1 DEF NothingLost
<1>4. ~ Failed /\ faults' = faults
  <2>1. faults' = faults \/ faults' = faults + 1
    BY DEF RunWatch, Start, ContextDone, Tick, Dedup, Insert, InsertConfirmed, InsertUnpriced,
           InsertPending, InsertFails, Credit, Estimate, ListPendingOfWatch, Confirm, Move,
           CheckStop, Finish, RemoveWatch, DBRead, DBFault
  <2>. QED  BY <1>1, <1>3, <2>1 DEF Failed
<1>5. ~ DBFault
  BY <1>1, <1>4 DEF DBFault
<1>6. ASSUME Earned(h), credited[h] = 0, ~ Holds(w, h)
      PROVE  \E u \in WatchIDs : Holds(u, h)'
  <2>1. PICK u \in WatchIDs : Holds(u, h)
    BY <1>4, <1>6 DEF SettledInv, NothingLost
  <2>2. u # w
    BY <1>6, <2>1
  <2>. QED  BY <1>2, <2>1, <2>2 DEF Holds
<1>7. CASE Credit(w) \/ Move(w)
  <2>1. g[w].pc \in {"credit", "move"} /\ g[w].cur.hash \in Hashes
    BY <1>7, RawType DEF Credit, Move, Inv, LocalsOK, LocalOK
  <2>2. /\ UNCHANGED transactions
        /\ credited' = [credited EXCEPT ![g[w].cur.hash] = @ + 1]
    BY <1>5, <1>7 DEF Credit, Move, AddUnclaimed, MovePendingToUnclaimed
  <2>3. h # g[w].cur.hash
    BY <1>1, <1>3, <2>1, <2>2
  <2>. QED  BY <1>1, <1>3, <1>6, <2>1, <2>2, <2>3 DEF Earned, Holds
<1>8. CASE Insert(w)
  <2>1. /\ g[w].pc = "insert" /\ UNCHANGED credited /\ g[w].cur \in Raw
    BY <1>8 DEF Insert, Inv, LocalsOK, LocalOK
  <2>2. CASE UNCHANGED transactions
    BY <1>3, <1>6, <2>1, <2>2 DEF Earned, Holds
  <2>3. CASE InsertTransaction(g[w].cur.hash, w, g[w].address, "PENDING", 0, now)
    <3>1. transactions'[h] = transactions[h] \/ transactions'[h].status = "PENDING"
      BY <1>1, <2>3 DEF InsertTransaction
    <3>. QED  BY <1>3, <1>6, <2>1, <3>1 DEF Earned, Holds
  <2>4. CASE InsertConfirmed(w, g[w].cur)
    <3>1. PICK p \in PointValues :
            /\ InsertTransaction(g[w].cur.hash, w, g[w].address, "CONFIRMED", p, now)
            /\ IF p > 0 THEN g' = [g EXCEPT ![w].pc = "credit", ![w].pts = p]
               ELSE AfterRaw(w, g[w].batch, g[w].cur, TRUE)
      BY <2>4 DEF InsertConfirmed
    <3>2. CASE h # g[w].cur.hash
      <4>1. transactions'[h] = transactions[h]
        BY <1>1, <3>1, <3>2 DEF InsertTransaction
      <4>. QED  BY <1>3, <1>6, <2>1, <4>1 DEF Earned, Holds
    <3>3. CASE h = g[w].cur.hash
      <4>1. transactions'[h].points = p
        BY <1>1, <3>1, <3>3 DEF InsertTransaction
      <4>2. g' = [g EXCEPT ![w].pc = "credit", ![w].pts = p]
        BY <1>3, <3>1, <4>1 DEF Earned
      <4>3. g'[w].pc = "credit" /\ g'[w].cur = g[w].cur
        BY <1>1, <4>2 DEF Locals
      <4>. QED  BY <3>3, <4>3 DEF Holds
    <3>. QED  BY <3>2, <3>3
  <2>. QED  BY <1>5, <1>8, <2>2, <2>3, <2>4
            DEF Insert, InsertUnpriced, InsertPending, InsertFails, DBRead, dbVars
<1>9. CASE Confirm(w)
  <2>1. g[w].pc = "confirm" /\ UNCHANGED credited
    BY <1>9 DEF Confirm
  <2>2. CASE UNCHANGED transactions
    BY <1>3, <1>6, <2>1, <2>2 DEF Earned, Holds
  <2>3. ASSUME NEW k \in g[w].todo, NEW p \in PointValues, UpdateToConfirmed(k, p),
               g' = [g EXCEPT ![w].pc = "move", ![w].todo = @ \ {k},
                              ![w].cur = RawOf(k), ![w].pts = p,
                              ![w].old = transactions[k].points]
        PROVE  \E u \in WatchIDs : Holds(u, h)'
    <3>1. k \in Hashes
      BY <1>1, FieldTypes
    <3>2. CASE h # k
      <4>1. transactions'[h] = transactions[h]
        BY <1>1, <2>3, <3>1, <3>2 DEF UpdateToConfirmed
      <4>. QED  BY <1>3, <1>6, <2>1, <4>1 DEF Earned, Holds
    <3>3. CASE h = k
      <4>. DEFINE x == [g[w] EXCEPT !.pc = "move", !.todo = @ \ {k}, !.cur = RawOf(k),
                                    !.pts = p, !.old = transactions[k].points]
      <4>1. g' = [g EXCEPT ![w] = x]
        BY <2>3
      <4>2. x.pc = "move" /\ x.cur = RawOf(k)
        BY <1>1 DEF Locals
      <4>. HIDE DEF x
      <4>. QED  BY <1>1, <3>3, <4>1, <4>2, RawOfType DEF Holds
    <3>. QED  BY <3>2, <3>3
  <2>. QED  BY <1>9, <2>2, <2>3 DEF Confirm, DBRead, dbVars
<1>10. CASE UNCHANGED <<transactions, credited>> /\ g[w].pc \notin {"credit", "move"}
  BY <1>3, <1>6, <1>10 DEF Earned, Holds
<1>. QED  BY <1>7, <1>8, <1>9, <1>10
          DEF RunWatch, Start, ContextDone, Tick, Dedup, Estimate, AddPending,
              ListPendingOfWatch, CheckStop, Finish, UpdateWatchStatus, RemoveWatch,
              DBRead, DBFault, dbVars

(* The first recovery of all has nothing to confirm; any other follows a      *)
(* crash.                                                                     *)
LEMMA RecoverySettled ==
  ASSUME Inv, SettledInv, UNCHANGED procVars, RunRecovery
  PROVE  SettledInv'
<1>1. /\ UNCHANGED <<g, phase, restarts>>
      /\ transactions \in [Hashes -> TxRow] /\ watches \in [WatchIDs -> WatchRow]
      /\ faults \in Nat
      /\ rec.todo \in SUBSET Hashes
  BY RecFieldTypes
     DEF Inv, TypeOK, WatcherTypeOK, DBTypeOK, RunRecovery, RecoveryExpire, RecoveryList,
         RecoveryConfirm, RecoveryMove, RecoveryFrame, procVars
<1>2. phase = "recovery"
  BY DEF RunRecovery, RecoveryExpire, RecoveryList, RecoveryConfirm, RecoveryMove, Inv, PhaseOK
<1>3. UNCHANGED transactions \/ \E k \in rec.todo, p \in PointValues :
        UpdateToConfirmed(k, p) /\ rec.pc = "confirm"
  BY DEF RunRecovery, RecoveryExpire, RecoveryList, RecoveryConfirm, RecoveryMove,
         ExpireAllActiveWatches, MovePendingToUnclaimed, DBRead, DBFault, dbVars
<1>4. \A h \in Hashes : \/ transactions'[h] = transactions[h]
                        \/ /\ Recorded(h)
                           /\ transactions'[h].status = "CONFIRMED"
                           /\ transactions'[h].watch = transactions[h].watch
  <2>1. rec.pc = "confirm" => \A k \in rec.todo : Recorded(k)
    BY DEF Inv, RecOK, Recorded
  <2>2. ASSUME NEW k \in rec.todo, NEW p \in PointValues, UpdateToConfirmed(k, p),
               rec.pc = "confirm", NEW h \in Hashes
        PROVE  \/ transactions'[h] = transactions[h]
               \/ /\ Recorded(h)
                  /\ transactions'[h].status = "CONFIRMED"
                  /\ transactions'[h].watch = transactions[h].watch
    BY <1>1, <2>1, <2>2 DEF UpdateToConfirmed, TxRow
  <2>. QED  BY <1>3, <2>2
<1>5. \A w \in WatchIDs : watches'[w].status = watches[w].status \/ watches'[w].status = "EXPIRED"
  <2>1. CASE ExpireAllActiveWatches
    BY <1>1, <2>1 DEF ExpireAllActiveWatches, WatchRow
  <2>2. CASE UNCHANGED watches
    BY <2>2
  <2>. QED  BY <2>1, <2>2
            DEF RunRecovery, RecoveryExpire, RecoveryList, RecoveryConfirm, RecoveryMove,
                UpdateToConfirmed, MovePendingToUnclaimed, DBRead, DBFault, dbVars
<1>6. ASSUME NEW w \in WatchIDs, Completing(w)' PROVE Settled(w)'
  <2>1. Settled(w)
    BY <1>1, <1>5, <1>6 DEF Completing, SettledInv
  <2>. QED  BY <1>4, <2>1, SettledStays
<1>7. NothingLost'
  <2>. SUFFICES ASSUME ~ Failed' PROVE NothingLost'
    BY DEF NothingLost
  <2>1. faults' = faults \/ faults' = faults + 1
    BY DEF RunRecovery, RecoveryExpire, RecoveryList, RecoveryConfirm, RecoveryMove,
           DBRead, DBFault
  <2>2. ~ Failed
    BY <1>1, <2>1 DEF Failed
  <2>3. \A h \in Hashes : ~ Recorded(h)
    BY <1>2, <2>2 DEF SettledInv, NothingLost
  <2>4. \A h \in Hashes : ~ Recorded(h)'
    BY <1>4, <2>3 DEF Recorded
  <2>. QED  BY <2>4 DEF NothingLost, Earned, Recorded
<1>. QED  BY <1>6, <1>7 DEF SettledInv

LEMMA ProcessSettled ==
  ASSUME Inv, StatusInv, SettledInv, ProcessStep
  PROVE  SettledInv'
<1>1. watches \in [WatchIDs -> WatchRow] /\ faults \in Nat /\ restarts \in Nat
  BY DEF Inv, TypeOK, WatcherTypeOK, DBTypeOK
<1>2. UNCHANGED <<transactions, credited>>
  BY DEF ProcessStep, Serve, BeginStop, CancelAll, FinishStop, StopExpire,
         ExpireAllActiveWatches, Exit, Crash, EndProcess, Restart, DBRead, DBFault,
         watcherVars, dbVars
<1>3. \A w \in WatchIDs : Completing(w)' => Completing(w)
  <2>1. UNCHANGED g \/ \A w \in WatchIDs : g'[w].pc \in {"idle", "done"}
    BY DEF ProcessStep, Serve, BeginStop, CancelAll, FinishStop, StopExpire,
           Exit, Crash, EndProcess, Restart, watcherVars, memVars, Idle
  <2>2. \A w \in WatchIDs : watches'[w].status = watches[w].status \/ watches'[w].status = "EXPIRED"
    BY <1>1 DEF ProcessStep, Serve, BeginStop, CancelAll, FinishStop, StopExpire,
         ExpireAllActiveWatches, Exit, Crash, EndProcess, Restart, DBRead, DBFault,
         watcherVars, dbVars, WatchRow
  <2>. QED  BY <2>1, <2>2 DEF Completing
<1>4. CASE Serve \/ BeginStop \/ FinishStop
  <2>1. /\ UNCHANGED <<g, restarts>> /\ phase' # "recovery" /\ phase # "down"
        /\ faults' = faults \/ faults' = faults + 1
    BY <1>4 DEF Serve, BeginStop, CancelAll, FinishStop, StopExpire, DBRead, DBFault,
                watcherVars, memVars, dbVars
  <2>2. Failed => Failed'
    BY <1>1, <2>1 DEF Failed
  <2>. QED  BY <1>2, <1>3, <2>1, <2>2, SettledFrame DEF Holds
<1>5. CASE Exit \/ Crash \/ Restart
  <2>1. Failed'
    <3>1. phase' = "down" \/ restarts' = restarts + 1
      BY <1>5 DEF Exit, Crash, EndProcess, Restart
    <3>. QED  BY <1>1, <3>1 DEF Failed
  <2>. QED  BY <1>2, <1>3, <2>1, SettledFrame
<1>. QED  BY <1>4, <1>5 DEF ProcessStep

LEMMA SettledStep == Inv /\ StatusInv /\ SettledInv /\ [Next]_vars => SettledInv'
<1>. SUFFICES ASSUME Inv, StatusInv, SettledInv, [Next]_vars PROVE SettledInv'
  OBVIOUS
<1>1. faults \in Nat
  BY DEF Inv, TypeOK, WatcherTypeOK
<1>2. ASSUME UNCHANGED <<g, watches, transactions, credited, phase, restarts>>,
             faults' = faults \/ faults' = faults + 1
      PROVE  SettledInv'
  <2>1. Failed => Failed'
    BY <1>1, <1>2 DEF Failed
  <2>. QED  BY <1>2, <2>1, SettledFrame DEF Holds, Completing
<1>3. ASSUME NEW w \in WatchIDs, RunWatch(w), UNCHANGED procVars
      PROVE  SettledInv'
  BY <1>3, RunCompleting, RunNothingLost DEF SettledInv
<1>4. ASSUME NEW w \in WatchIDs, CancelWatch(w) \/ Expire(w) \/ Deadline(w), UNCHANGED procVars
      PROVE  SettledInv'
  BY <1>2, <1>4 DEF CancelWatch, Expire, Deadline, DBRead, dbVars, procVars
<1>5. ASSUME ClockTick \/ \E h \in Hashes : Appear(h) \/ Finalize(h), UNCHANGED procVars
      PROVE  SettledInv'
  BY <1>2, <1>5 DEF ClockTick, Appear, Finalize, DBRead, dbVars, memVars, procVars
<1>6. ASSUME NEW c \in Claimers, ClaimRead(c) \/ ClaimReset(c)
      PROVE  SettledInv'
  BY <1>2, <1>6 DEF ClaimRead, ClaimReset, ResetUnclaimed, DBFault, watcherVars, dbVars, memVars
<1>7. CASE UNCHANGED vars
  BY <1>2, <1>7 DEF vars, watcherVars, dbVars, memVars
<1>. QED  BY <1>3, <1>4, <1>5, <1>6, <1>7, CreateSettled, RecoverySettled, ProcessSettled
          DEF Next, WatcherStep

(* A watch is only reported COMPLETED when it has transactions, all of them   *)
(* CONFIRMED and, unless something failed, all their points credited.         *)
THEOREM CompletedWatchesAreSettled == Spec => []CompletedMeansSettled
  BY InitInv, NextInv, InitStatus, StatusStep, InitSettled, SettledStep, SettledImplies,
     PTL DEF Spec

-----------------------------------------------------------------------------
(* CheckPointsMismatch                                                     *)

\* Every credit in flight is for a payment of its own, confirmed and not yet
\* credited, and worth the points the goroutine holds.
LEMMA InFlightIsOwed ==
  ASSUME Inv, NEW a \in Addresses, NEW w \in InFlight(a)
  PROVE  /\ w \in WatchIDs /\ g[w].cur.hash \in Hashes
         /\ transactions[g[w].cur.hash].watch = w
         /\ transactions[g[w].cur.hash].address = a
         /\ Owed(g[w].cur.hash, g[w].pts)
<1>1. w \in WatchIDs /\ g[w].pc \in {"credit", "move"}
      /\ transactions[g[w].cur.hash].address = a
  BY DEF InFlight
<1>2. LocalOK(w)
  BY <1>1 DEF Inv, LocalsOK
<1>. QED  BY <1>1, <1>2, RawType DEF LocalOK

\* While no statement failed, the confirmed transactions that are not credited
\* are those of the goroutines in flight, one each, or worth nothing.
LEMMA LedgerBalances == Inv /\ NothingLost /\ Ledger => MismatchOnlyInFlight
<1>. SUFFICES ASSUME Inv, NothingLost, Ledger, ~ Failed, NEW a \in Addresses
              PROVE  ConfirmedPoints(a) =
                       points[a].total + SumOf([w \in WatchIDs |-> g[w].pts], InFlight(a))
  BY DEF MismatchOnlyInFlight
<1>1. PICK confirmed \in SUBSET Hashes :
        /\ confirmed = {h \in Hashes : /\ transactions[h].status = "CONFIRMED"
                                       /\ transactions[h].address = a}
        /\ IsFiniteSet(confirmed) /\ CreditedTo(a) \in SUBSET confirmed
        /\ \A h \in confirmed : PointsOf[h] \in Nat
        /\ ConfirmedPoints(a) = SumOf(PointsOf, confirmed)
  BY ConfirmedIsLedgered
<1>. DEFINE rest == confirmed \ CreditedTo(a)
            pts == [w \in WatchIDs |-> g[w].pts]
            hash == [w \in WatchIDs |-> g[w].cur.hash]
            held == {hash[w] : w \in InFlight(a)}
<1>2. \A h \in rest : credited[h] = 0
  BY <1>1 DEF CreditedTo, StageOf, Inv, RowsOK, RowOK
<1>3. /\ \A w \in InFlight(a) : /\ w \in WatchIDs /\ hash[w] \in rest
                                /\ pts[w] = PointsOf[hash[w]] /\ pts[w] \in Nat
      /\ \A v, w \in InFlight(a) : hash[v] = hash[w] => v = w
  <2>1. ASSUME NEW w \in InFlight(a)
        PROVE  /\ w \in WatchIDs /\ hash[w] \in rest /\ transactions[hash[w]].watch = w
               /\ pts[w] = PointsOf[hash[w]] /\ pts[w] \in Nat
    <3>1. /\ w \in WatchIDs /\ hash[w] \in Hashes /\ hash[w] = g[w].cur.hash
          /\ transactions[hash[w]].watch = w /\ transactions[hash[w]].address = a
          /\ Owed(hash[w], g[w].pts)
      BY InFlightIsOwed
    <3>2. hash[w] \in confirmed /\ hash[w] \notin CreditedTo(a)
      BY <1>1, <3>1 DEF Owed, CreditedTo, StageOf
    <3>3. pts[w] = PointsOf[hash[w]]
      BY <3>1 DEF Owed, PointsOf
    <3>. QED  BY <1>1, <3>1, <3>2, <3>3
  <2>. QED  BY <2>1
<1>4. \A h \in rest \ held : PointsOf[h] = 0
  <2>. SUFFICES ASSUME NEW h \in rest, PointsOf[h] # 0
                PROVE  h \in held
    OBVIOUS
  <2>1. h \in Hashes /\ Earned(h) /\ credited[h] = 0 /\ transactions[h].address = a
    BY <1>1, <1>2 DEF Earned, PointsOf
  <2>2. PICK w \in WatchIDs : Holds(w, h)
    BY <2>1 DEF NothingLost
  <2>3. w \in InFlight(a) /\ hash[w] = h
    BY <2>1, <2>2 DEF Holds, InFlight
  <2>. QED  BY <2>3
<1>. HIDE DEF rest, pts, hash
<1>5. IsFiniteSet(rest) /\ IsFiniteSet(CreditedTo(a)) /\ \A h \in rest : PointsOf[h] \in Nat
  BY <1>1, FS_Subset DEF rest
<1>6. IsFiniteSet(InFlight(a))
  <2>. DEFINE F == [w \in InFlight(a) |-> hash[w]]
  <2>1. /\ F \in [InFlight(a) -> rest]
        /\ \A v, w \in InFlight(a) : F[v] = F[w] => v = w
    BY <1>3
  <2>. HIDE DEF F
  <2>2. F \in Injection(InFlight(a), rest)
    BY <2>1 DEF Injection, IsInjective
  <2>. QED  BY <1>5, <2>2, FS_Injection
<1>7. SumOf(pts, InFlight(a)) = SumOf(PointsOf, held)
  BY <1>3, <1>6, SumImage
<1>8. held \in SUBSET rest /\ IsFiniteSet(held) /\ IsFiniteSet(rest \ held)
  BY <1>3, <1>5, FS_Subset
<1>. HIDE DEF held
<1>9. SumOf(PointsOf, rest) = SumOf(PointsOf, held) + SumOf(PointsOf, rest \ held)
  BY <1>5, <1>8, SumSplit
<1>10. SumOf(PointsOf, rest \ held) = 0
  BY <1>4, <1>8, SumZeros
<1>11. SumOf(PointsOf, confirmed) = SumOf(PointsOf, CreditedTo(a)) + SumOf(PointsOf, rest)
  BY <1>1, SumSplit DEF rest
<1>12. SumOf(PointsOf, CreditedTo(a)) \in Nat /\ SumOf(PointsOf, held) \in Nat
  BY <1>1, <1>5, <1>8, SumNatural
<1>13. points[a].total = SumOf(PointsOf, CreditedTo(a))
  BY DEF Ledger
<1>. QED  BY <1>1, <1>7, <1>9, <1>10, <1>11, <1>12, <1>13 DEF pts

\* While no statement fails, the points of an address's confirmed transactions
\* are what it was credited plus the credits in flight, for any number of
\* watches, transactions and addresses: CheckPointsMismatch reports nothing
\* but a goroutine between its two statements.
THEOREM MismatchIsInFlight == Spec => []MismatchOnlyInFlight
<1>. QED  BY LedgerBalances, LedgerHolds, InitInv, NextInv, InitStatus, StatusStep,
             InitSettled, SettledStep, PTL DEF Spec, SettledInv

=============================================================================
