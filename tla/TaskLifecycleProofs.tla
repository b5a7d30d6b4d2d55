------------------------ MODULE TaskLifecycleProofs ------------------------
(***************************************************************************)
(* Proofs about TaskLifecycle for any number of calls, whatever fails:     *)
(* types, at most one dispatch, settlement only of a stopped unit, the     *)
(* writer lock, and what readers are told of a task that has ended.        *)
(***************************************************************************)
EXTENDS TaskLifecycle, TLAPS

CallTypes == [pc : CallPCs, known : BOOLEAN, deadline : Nat,
              seen : [settled : BOOLEAN, attempted : BOOLEAN, recovery : BOOLEAN],
              verdict : [cleanup : Cleanups, attempted : BOOLEAN]]
Watches == [timer : Nat, reads : SUBSET Nat, fired : BOOLEAN]
WorkerTypes == [pc : WorkerPCs, outcome : Terminal, watch : Watches]

\* A call takes a step.
CallMove(c) == CancelRead(c) \/ PollRead(c) \/ ExtendRead(c) \/ CallStep(c)

\* Every change of the record, accepted or not, leaves a task record, and
\* keeps the fields that the change does not name.
LEMMA UpdatedType ==
  ASSUME task \in Tasks, NEW requested \in Changes, NEW t \in Tasks
  PROVE  /\ Updated(requested, t) \in Tasks
         /\ Updated(requested, t) = task
              \/ /\ Updated(requested, t).reservation = t.reservation
                 /\ Updated(requested, t).cleanup = t.cleanup
                 /\ Updated(requested, t).attempted = t.attempted
                 /\ Updated(requested, t).intent = t.intent
                 /\ Updated(requested, t).dispatched = t.dispatched
                 /\ Updated(requested, t).recovery = t.recovery
         /\ Updated(requested, t) = task \/ Updated(requested, t).status = NextStatus(task.status, requested)
  BY DEF Updated, Accepts, NextStatus, Changes, KeepStatus, Statuses, Terminal, Active, Tasks

\* The constants of the statuses.
LEMMA StatusFacts ==
  /\ {"starting", "running", "failed", "transport_lost", "cancelling", "cancelled", "timeout",
      "completed", KeepStatus} \subseteq Changes
  /\ Terminal \subseteq Changes
  /\ \A s \in Statuses, r \in Changes : NextStatus(s, r) \in Statuses
  BY DEF Changes, KeepStatus, Statuses, Terminal, Active, NextStatus

LEMMA InitType == Init => TypeOK
<1> SUFFICES ASSUME Init PROVE TypeOK
  OBVIOUS
<1>1. task \in Tasks
  BY DEF Init, Tasks, Statuses, Active, Cleanups
<1>2. worker \in WorkerTypes
  BY DEF Init, WorkerTypes, Watches, WorkerPCs, Terminal, NoWatch
<1>3. Idle \in CallTypes
  BY DEF Idle, Nothing, NoVerdict, CallTypes, CallPCs, Cleanups
<1>4. call \in [Calls -> CallTypes]
  BY <1>3 DEF Init
<1> QED BY <1>1, <1>2, <1>4 DEF Init, TypeOK, CallTypes, WorkerTypes, Watches, LaunchPCs

LEMMA LaunchType == ASSUME TypeOK, Launch PROVE TypeOK'
<1> USE DEF TypeOK, LaunchPCs, LaunchGoto
<1>1. CASE LaunchCheck
  <2>1. [task EXCEPT !.reservation = "active"] \in Tasks
    BY DEF Tasks
  <2> QED BY <1>1, <2>1 DEF LaunchCheck
<1>2. CASE LaunchUnit BY <1>2 DEF LaunchUnit
<1>3. CASE LaunchRecheck BY <1>3 DEF LaunchRecheck
<1>4. CASE LaunchRegister BY <1>4 DEF LaunchRegister
<1>5. CASE LaunchClear
  <2>1. task' \in Tasks
    BY <1>5 DEF LaunchClear, ClearReservation, Tasks
  <2>2. launch' \in LaunchPCs
    BY <1>5 DEF LaunchClear
  <2> QED BY <1>5, <2>1, <2>2 DEF LaunchClear
<1>6. CASE LaunchStop BY <1>6 DEF LaunchStop
<1>7. CASE LaunchStopWait BY <1>7 DEF LaunchStopWait
<1>8. CASE LaunchUncertain
  <2>1. [task EXCEPT !.recovery = TRUE] \in Tasks
    BY DEF Tasks
  <2>2. task' \in Tasks
    BY <1>8, <2>1, UpdatedType, StatusFacts DEF LaunchUncertain
  <2> QED BY <1>8, <2>2 DEF LaunchUncertain
<1>9. CASE LaunchCatch BY <1>9 DEF LaunchCatch
<1>10. CASE LaunchFail
  <2>1. task' \in Tasks
    BY <1>10, UpdatedType, StatusFacts DEF LaunchFail, Update
  <2> QED BY <1>10, <2>1 DEF LaunchFail
<1>11. CASE LaunchCatchLock BY <1>11 DEF LaunchCatchLock, CleanAbandonedLock
<1> QED BY <1>1, <1>2, <1>3, <1>4, <1>5, <1>6, <1>7, <1>8, <1>9, <1>10, <1>11 DEF Launch

\* A worker step leaves everything but the record, itself and the prompts.
LEMMA WorkerFrame ==
  ASSUME WorkerStep \/ Watch \/ WorkerCrash
  PROVE  unit = "up" /\ UNCHANGED <<runtime, unit, signalled, lock, launch, call, now, crashed>>
  BY DEF WorkerStep, WorkerCrash, WorkerAt, WorkerKeeps, WorkerRegister, WorkerCheck, WorkerStart,
         WorkerSession, WorkerRunning, WorkerIntend, WorkerPrompt, WorkerMark, WorkerTurn,
         WorkerAcpFailed, WorkerFallback, WorkerSpawn, WorkerCli, WorkerCliTurn, WorkerPersist,
         WorkerHandoff, Watch, WatchRead, WatchSet, WatchFires, Watching

LEMMA OutcomeType ==
  {"completed", "failed", "cancelled", "timeout"} \subseteq Terminal
  BY DEF Terminal

LEMMA WorkerType == ASSUME TypeOK, WorkerStep \/ Watch \/ WorkerCrash PROVE TypeOK'
<1>1. unit = "up" /\ UNCHANGED <<runtime, unit, signalled, lock, launch, call, now, crashed>>
  BY WorkerFrame
<1>2. worker' \in WorkerTypes
  <2>0. worker \in WorkerTypes /\ task.deadline \in Nat /\ NoWatch \in Watches
    BY DEF TypeOK, WorkerTypes, Watches, Tasks, NoWatch
  <2>1. /\ \A p \in WorkerPCs : [worker EXCEPT !.pc = p] \in WorkerTypes
        /\ [worker EXCEPT !.pc = "gone", !.watch = NoWatch] \in WorkerTypes
        /\ \A w \in Watches : [worker EXCEPT !.watch = w] \in WorkerTypes
    BY <2>0 DEF WorkerTypes, WorkerPCs
  <2>2. /\ \A p \in WorkerPCs, o \in Terminal : [pc |-> p, outcome |-> o, watch |-> NoWatch] \in WorkerTypes
        /\ worker.outcome \in Terminal /\ worker.watch \in Watches
    BY <2>0 DEF WorkerTypes
  <2>20. CASE WatchRead
    <3> DEFINE w == [worker.watch EXCEPT !.reads = worker.watch.reads \cup {task.deadline}]
    <3>1. w \in Watches
      BY <2>0, <2>2 DEF Watches
    <3>2. worker' = [worker EXCEPT !.watch = w]
      BY <2>0, <2>20 DEF WatchRead, WorkerTypes
    <3> QED BY <2>1, <3>1, <3>2
  <2>21. CASE WatchSet
    <3>1. PICK d \in worker.watch.reads : Arms(d, now >= d)
      BY <2>21 DEF WatchSet
    <3> DEFINE w == [timer |-> d, reads |-> worker.watch.reads \ {d}, fired |-> worker.watch.fired \/ now >= d]
    <3>2. d \in Nat /\ worker.watch.reads \ {d} \in SUBSET Nat /\ worker.watch.fired \in BOOLEAN /\ now \in Nat
      BY <2>2 DEF Watches, TypeOK
    <3>3. w \in Watches
      BY <3>2 DEF Watches
    <3> QED BY <2>1, <3>1, <3>3 DEF Arms
  <2>22. CASE WatchFires
    <3> DEFINE w == [worker.watch EXCEPT !.fired = TRUE]
    <3>1. w \in Watches
      BY <2>2 DEF Watches
    <3>2. worker' = [worker EXCEPT !.watch = w]
      BY <2>0, <2>22 DEF WatchFires, WorkerTypes
    <3> QED BY <2>1, <3>1, <3>2
  <2> USE <2>1, <2>2, OutcomeType DEF WorkerGoto, WorkerEnds, WorkerGone, WorkerThrows, WorkerGivesUp, WorkerPCs
  <2>3. CASE WorkerRegister BY <2>3 DEF WorkerRegister
  <2>4. CASE WorkerCheck BY <2>4 DEF WorkerCheck
  <2>5. CASE WorkerStart BY <2>5 DEF WorkerStart
  <2>6. CASE WorkerSession BY <2>6 DEF WorkerSession
  <2>7. CASE WorkerRunning BY <2>7 DEF WorkerRunning
  <2>8. CASE WorkerIntend BY <2>8 DEF WorkerIntend
  <2>9. CASE WorkerPrompt BY <2>9 DEF WorkerPrompt
  <2>10. CASE WorkerMark BY <2>10 DEF WorkerMark
  <2>11. CASE WorkerTurn BY <2>11 DEF WorkerTurn
  <2>12. CASE WorkerAcpFailed BY <2>12 DEF WorkerAcpFailed
  <2>13. CASE WorkerFallback BY <2>13 DEF WorkerFallback
  <2>14. CASE WorkerSpawn BY <2>14 DEF WorkerSpawn
  <2>15. CASE WorkerCli BY <2>15 DEF WorkerCli
  <2>16. CASE WorkerCliTurn BY <2>16 DEF WorkerCliTurn
  <2>17. CASE WorkerPersist BY <2>17 DEF WorkerPersist
  <2>18. CASE WorkerHandoff BY <2>18 DEF WorkerHandoff
  <2>19. CASE WorkerCrash BY <2>19 DEF WorkerCrash
  <2> QED BY <2>3, <2>4, <2>5, <2>6, <2>7, <2>8, <2>9, <2>10, <2>11, <2>12, <2>13, <2>14,
             <2>15, <2>16, <2>17, <2>18, <2>19, <2>20, <2>21, <2>22 DEF WorkerStep, Watch
<1>3. task' \in Tasks
  <2>1. task \in Tasks /\ worker.outcome \in Terminal
    BY DEF TypeOK
  <2>2. /\ [task EXCEPT !.intent = TRUE] \in Tasks
        /\ [task EXCEPT !.dispatched = TRUE] \in Tasks
        /\ [task EXCEPT !.cleanup = "pending", !.attempted = FALSE] \in Tasks
    BY <2>1 DEF Tasks, Cleanups
  <2> USE <2>1, <2>2, UpdatedType, StatusFacts DEF Update
  <2>3. CASE WorkerStart BY <2>3 DEF WorkerStart
  <2>4. CASE WorkerRunning BY <2>4 DEF WorkerRunning
  <2>5. CASE WorkerIntend BY <2>5 DEF WorkerIntend
  <2>6. CASE WorkerMark BY <2>6 DEF WorkerMark
  <2>7. CASE WorkerFallback BY <2>7 DEF WorkerFallback
  <2>8. CASE WorkerCli BY <2>8 DEF WorkerCli
  <2>9. CASE WorkerPersist BY <2>9 DEF WorkerPersist
  <2>10. CASE WorkerHandoff BY <2>10 DEF WorkerHandoff
  <2>11. CASE UNCHANGED task BY <2>11
  <2>12. UNCHANGED task \/ WorkerStart \/ WorkerRunning \/ WorkerIntend \/ WorkerMark \/ WorkerFallback
         \/ WorkerCli \/ WorkerPersist \/ WorkerHandoff
    BY DEF WorkerStep, WorkerCrash, WorkerRegister, WorkerCheck, WorkerSession, WorkerPrompt,
           WorkerTurn, WorkerAcpFailed, WorkerSpawn, WorkerCliTurn, Watch, WatchRead, WatchSet, WatchFires
  <2> QED BY <2>3, <2>4, <2>5, <2>6, <2>7, <2>8, <2>9, <2>10, <2>11, <2>12
<1>4. prompts' \in Nat
  BY DEF TypeOK, WorkerStep, WorkerCrash, WorkerRegister, WorkerCheck, WorkerStart,
         WorkerSession, WorkerRunning, WorkerIntend, WorkerPrompt, WorkerMark, WorkerTurn,
         WorkerAcpFailed, WorkerFallback, WorkerSpawn, WorkerCli, WorkerCliTurn, WorkerPersist,
         WorkerHandoff, Watch, WatchRead, WatchSet, WatchFires
<1> QED BY <1>1, <1>2, <1>3, <1>4 DEF TypeOK, WorkerTypes, Watches

\* A call step changes its own call, the record, the lock and the signal only.
LEMMA CallFrame ==
  ASSUME NEW c \in Calls, CallMove(c)
  PROVE  UNCHANGED <<unit, launch, worker, now, crashed, prompts>>
  BY DEF CallMove, ExtendRead, Extend, CancelRead, PollRead, Read, CallStep, ReadRuntime, Cancel, CancelMark, CancelClear,
         CancelStop, CancelWait, CancelInspect, CancelUncertain, CancelLock, Cancelled, Poll,
         PollInspect, Reconcile, PollLock, Settle, SettleInspect, SettleStop, SettleStopWait,
         SettleProve, SettleLock, Persist, CallKeeps

\* The actions of a call on a record of the right type.
LEMMA CallTaskType ==
  ASSUME TypeOK, NEW c \in Calls, CallMove(c)
  PROVE  task' \in Tasks
<1>1. /\ task \in Tasks /\ call[c].deadline \in Nat
      /\ call[c].verdict \in [cleanup : Cleanups, attempted : BOOLEAN]
  BY DEF TypeOK
<1>2. /\ [task EXCEPT !.reservation = "none"] \in Tasks
      /\ [task EXCEPT !.deadline = call[c].deadline] \in Tasks
      /\ [task EXCEPT !.cleanup = call[c].verdict.cleanup,
                      !.attempted = call[c].verdict.attempted] \in Tasks
  BY <1>1 DEF Tasks
<1> USE <1>1, <1>2, UpdatedType, StatusFacts DEF Update
<1>3. CASE CancelMark(c) BY <1>3 DEF CancelMark
<1>4. CASE CancelClear(c) BY <1>4 DEF CancelClear, ClearReservation
<1>5. CASE CancelUncertain(c) BY <1>5 DEF CancelUncertain
<1>6. CASE Cancelled(c) BY <1>6 DEF Cancelled
<1>7. CASE Reconcile(c) BY <1>7 DEF Reconcile
<1>8. CASE Persist(c) BY <1>8 DEF Persist
<1>9. CASE UNCHANGED task BY <1>9
<1>11. CASE Extend(c) BY <1>11 DEF Extend
<1>10. UNCHANGED task \/ CancelMark(c) \/ CancelClear(c) \/ CancelUncertain(c) \/ Cancelled(c)
       \/ Reconcile(c) \/ Persist(c) \/ Extend(c)
  BY DEF CallMove, ExtendRead, CancelRead, PollRead, Read, CallStep, ReadRuntime, Cancel, CancelStop, CancelWait,
         CancelInspect, CancelLock, Poll, PollInspect, PollLock, Settle, SettleInspect,
         SettleStop, SettleStopWait, SettleProve, SettleLock, CallKeeps
<1> QED BY <1>3, <1>4, <1>5, <1>6, <1>7, <1>8, <1>9, <1>10, <1>11

\* What a step of a call makes of the states of the calls: only its own
\* changes, to a state of the right type.
LEMMA CallCallType ==
  ASSUME TypeOK, NEW c \in Calls, CallMove(c)
  PROVE  \E s \in CallTypes : call' = [call EXCEPT ![c] = s]
<1>0. call \in [Calls -> CallTypes] /\ call[c] \in CallTypes /\ task \in Tasks /\ runtime \in BOOLEAN
  BY DEF TypeOK, CallTypes
<1>1. /\ Idle \in CallTypes
      /\ Nothing \in [settled : BOOLEAN, attempted : BOOLEAN, recovery : BOOLEAN]
      /\ Seen(task) \in [settled : BOOLEAN, attempted : BOOLEAN, recovery : BOOLEAN]
      /\ Known(call[c].seen) \in BOOLEAN
  BY <1>0 DEF Idle, Nothing, NoVerdict, CallTypes, CallPCs, Cleanups, Seen, Known, Tasks
<1>2. ASSUME NEW p \in CallPCs, Goto(c, p)
      PROVE  \E s \in CallTypes : call' = [call EXCEPT ![c] = s]
  <2>1. [call[c] EXCEPT !.pc = p] \in CallTypes
    BY <1>0 DEF CallTypes
  <2>2. call' = [call EXCEPT ![c] = [call[c] EXCEPT !.pc = p]]
    BY <1>0, <1>2 DEF Goto
  <2> QED BY <2>1, <2>2
<1>3. ASSUME NEW v \in [cleanup : Cleanups, attempted : BOOLEAN], Decide(c, v)
      PROVE  \E s \in CallTypes : call' = [call EXCEPT ![c] = s]
  <2>1. [call[c] EXCEPT !.pc = "persist", !.seen = Nothing, !.verdict = v] \in CallTypes
    BY <1>0, <1>1 DEF CallTypes, CallPCs
  <2>2. call' = [call EXCEPT ![c] = [call[c] EXCEPT !.pc = "persist", !.seen = Nothing, !.verdict = v]]
    BY <1>0, <1>3 DEF Decide, CallTypes
  <2> QED BY <2>1, <2>2
<1>4. ASSUME Return(c) PROVE \E s \in CallTypes : call' = [call EXCEPT ![c] = s]
  BY <1>1, <1>4 DEF Return
<1>5. CASE CancelRead(c) \/ PollRead(c)
  <2>0. task.deadline \in Nat
    BY <1>0 DEF Tasks
  <2>1. PICK p \in CallPCs, d \in Nat :
          call' = [call EXCEPT ![c].pc = p, ![c].seen = Seen(task), ![c].deadline = d]
    BY <1>5, <2>0 DEF CancelRead, PollRead, Read, CallPCs
  <2>2. [call[c] EXCEPT !.pc = p, !.seen = Seen(task), !.deadline = d] \in CallTypes
    BY <1>0, <1>1 DEF CallTypes
  <2>3. call' = [call EXCEPT ![c] = [call[c] EXCEPT !.pc = p, !.seen = Seen(task), !.deadline = d]]
    BY <1>0, <2>1 DEF CallTypes
  <2> QED BY <2>2, <2>3
<1>6. CASE ReadRuntime(c)
  <2>1. CASE At(c, "cancel_runtime")
    <3>1. [call[c] EXCEPT !.pc = "cancel_mark", !.seen = Nothing, !.known = Known(call[c].seen)] \in CallTypes
      BY <1>0, <1>1 DEF CallTypes, CallPCs
    <3>2. call' = [call EXCEPT ![c] = [call[c] EXCEPT !.pc = "cancel_mark", !.seen = Nothing,
                                              !.known = Known(call[c].seen)]]
      BY <1>0, <1>6, <2>1 DEF ReadRuntime, At, CallTypes
    <3> QED BY <3>1, <3>2
  <2>2. CASE At(c, "poll_runtime")
    <3>1. PICK p \in CallPCs : call' = [call EXCEPT ![c].pc = p, ![c].seen = Nothing,
                                                    ![c].known = Known(call[c].seen)]
      BY <1>6, <2>2 DEF ReadRuntime, At, CallPCs
    <3>2. [call[c] EXCEPT !.pc = p, !.seen = Nothing, !.known = Known(call[c].seen)] \in CallTypes
      BY <1>0, <1>1 DEF CallTypes
    <3>3. call' = [call EXCEPT ![c] = [call[c] EXCEPT !.pc = p, !.seen = Nothing,
                                              !.known = Known(call[c].seen)]]
      BY <1>0, <3>1 DEF CallTypes
    <3> QED BY <3>2, <3>3
  <2>3. CASE At(c, "settle_runtime")
    BY <1>6, <1>2, <1>4, <2>3 DEF ReadRuntime, At, CallPCs
  <2> QED BY <1>6, <2>1, <2>2, <2>3 DEF ReadRuntime, At
<1>7. CASE CancelClear(c)
  BY <1>7, <1>2 DEF CancelClear, CallPCs
<1>8. CASE CancelMark(c) \/ CancelStop(c) \/ CancelWait(c) \/ CancelInspect(c) \/ CancelLock(c)
  BY <1>8, <1>2 DEF CancelMark, CancelStop, CancelWait, CancelInspect, CancelLock, CallPCs, Inspections
<1>9. CASE CancelUncertain(c) \/ Cancelled(c) \/ PollLock(c) \/ Persist(c) \/ Extend(c)
  BY <1>9, <1>4 DEF CancelUncertain, Cancelled, PollLock, Persist, Extend
<1>10. CASE PollInspect(c)
  BY <1>10, <1>2, <1>4 DEF PollInspect, CallPCs
<1>14. ASSUME NEW p \in CallPCs, NEW d \in Nat, call' = [call EXCEPT ![c].pc = p, ![c].deadline = d]
       PROVE  \E s \in CallTypes : call' = [call EXCEPT ![c] = s]
  <2>1. [call[c] EXCEPT !.pc = p, !.deadline = d] \in CallTypes
    BY <1>0 DEF CallTypes
  <2>2. call' = [call EXCEPT ![c] = [call[c] EXCEPT !.pc = p, !.deadline = d]]
    BY <1>0, <1>14 DEF CallTypes
  <2> QED BY <2>1, <2>2
<1>15. CASE Reconcile(c)
  BY <1>15, <1>14 DEF Reconcile, CallPCs
<1>16. CASE ExtendRead(c)
  <2>1. PICK d \in (task.deadline + 1)..MaxTime : call' = [call EXCEPT ![c].pc = "extend", ![c].deadline = d]
    BY <1>16 DEF ExtendRead
  <2>2. d \in Nat
    BY <1>0, LifecycleAssumption DEF Tasks
  <2> QED BY <1>14, <2>1, <2>2 DEF CallPCs
<1>11. CASE SettleInspect(c)
  <2>1. /\ Verdict("unknown", call[c].seen.attempted) \in [cleanup : Cleanups, attempted : BOOLEAN]
        /\ Verdict("pending", TRUE) \in [cleanup : Cleanups, attempted : BOOLEAN]
        /\ Verdict("unknown", FALSE) \in [cleanup : Cleanups, attempted : BOOLEAN]
    BY <1>0 DEF Verdict, Cleanups, CallTypes
  <2> QED BY <1>11, <1>2, <1>3, <2>1 DEF SettleInspect, CallPCs
<1>12. CASE SettleStop(c) \/ SettleStopWait(c) \/ SettleProve(c)
  <2>1. /\ Verdict("failed", TRUE) \in [cleanup : Cleanups, attempted : BOOLEAN]
        /\ Verdict("unknown", TRUE) \in [cleanup : Cleanups, attempted : BOOLEAN]
    BY DEF Verdict, Cleanups
  <2> QED BY <1>12, <1>2, <1>3, <2>1 DEF SettleStop, SettleStopWait, SettleProve, CallPCs
<1>13. CASE SettleLock(c)
  <2>1. \A a \in BOOLEAN, k \in Cleanups : Verdict(k, a) \in [cleanup : Cleanups, attempted : BOOLEAN]
    BY DEF Verdict
  <2>2. (At(c, "lock_recovered") \/ call[c].seen.attempted) \in BOOLEAN
    BY <1>0 DEF At, CallTypes
  <2>3. (IF At(c, "lock_recovered") THEN "recovered" ELSE "normal") \in Cleanups /\ "unknown" \in Cleanups
    BY DEF Cleanups, Final
  <2> QED BY <1>13, <1>3, <2>1, <2>2, <2>3 DEF SettleLock
<1> QED BY <1>5, <1>6, <1>7, <1>8, <1>9, <1>10, <1>11, <1>12, <1>13, <1>15, <1>16
        DEF CallMove, CallStep, Cancel, Poll, Settle

LEMMA CallType ==
  ASSUME TypeOK, NEW c \in Calls, CallMove(c)
  PROVE  TypeOK'
<1>1. call' \in [Calls -> CallTypes]
  BY CallCallType DEF TypeOK, CallTypes
<1>2. runtime' \in BOOLEAN /\ signalled' \in BOOLEAN /\ lock' \in {"free", "held"}
  BY DEF TypeOK, CallMove, ExtendRead, Extend, CancelRead, PollRead, Read, CallStep, ReadRuntime,
         Cancel, CancelMark, CancelClear,
         CancelStop, CancelWait, CancelInspect, CancelUncertain, CancelLock, Cancelled, Poll,
         PollInspect, Reconcile, PollLock, Settle, SettleInspect, SettleStop, SettleStopWait,
         SettleProve, SettleLock, Persist, CleanAbandonedLock
<1> QED BY <1>1, <1>2, CallFrame, CallTaskType DEF TypeOK, CallTypes

\* The steps of systemd, of time and the crash.
World == UnitEmpties \/ ReservationExpires \/ TimePasses \/ SupervisorCrash

LEMMA WorldType == ASSUME TypeOK, World PROVE TypeOK'
<1>1. CASE UnitEmpties
  <2>1. [worker EXCEPT !.pc = "gone", !.watch = NoWatch] \in WorkerTypes
    BY DEF TypeOK, WorkerTypes, Watches, WorkerPCs, NoWatch
  <2> QED BY <1>1, <2>1 DEF UnitEmpties, WorkerGone, TypeOK, WorkerTypes, Watches
<1>2. CASE ReservationExpires
  <2>1. task' \in Tasks
    BY <1>2 DEF ReservationExpires, TypeOK, Tasks
  <2> QED BY <1>2, <2>1 DEF ReservationExpires, TypeOK
<1>3. CASE TimePasses
  BY <1>3 DEF TimePasses, TypeOK
<1>4. CASE SupervisorCrash
  <2>1. Idle \in CallTypes
    BY DEF Idle, Nothing, NoVerdict, CallTypes, CallPCs, Cleanups
  <2> QED BY <1>4, <2>1 DEF SupervisorCrash, TypeOK, CallTypes, LaunchPCs
<1> QED BY <1>1, <1>2, <1>3, <1>4 DEF World

\* The records, and where each actor may be: what the handlers of
\* supervisor.mjs and acp-worker.mjs can make of them.
THEOREM LifecycleType == Spec => []TypeOK
<1>1. TypeOK /\ [Next]_vars => TypeOK'
  <2> SUFFICES ASSUME TypeOK, [Next]_vars PROVE TypeOK'
    OBVIOUS
  <2>1. CASE Next
    BY <2>1, LaunchType, WorkerType, CallType, WorldType DEF Next, World, CallMove
  <2>2. CASE UNCHANGED vars
    BY <2>2 DEF vars, TypeOK
  <2> QED BY <2>1, <2>2
<1> QED BY <1>1, InitType, PTL DEF Spec
------------------------------------------------------------------------------
(* What a step makes of the record and of the unit *)

\* What no step does to the record: it never takes the intent to prompt back,
\* only an uncertain launch adds a recovery copy, only a settlement adds a
\* cleanup other than pending, and completed comes with a pending cleanup.
RecordStep ==
  /\ task.intent => task'.intent
  /\ task'.recovery => task.recovery \/ launch = "uncertain"
  /\ \/ task'.cleanup \in {task.cleanup, "pending"}
     \/ \E c \in Calls : /\ call[c].pc = "persist"
                         /\ task'.cleanup = call[c].verdict.cleanup
  /\ task'.status = "completed" => task.status = "completed" \/ task'.cleanup = "pending"

\* A change that keeps intent, recovery and cleanup, and does not complete.
LEMMA PlainUpdate ==
  ASSUME task \in Tasks, NEW requested \in Changes \ {"completed"}, NEW t \in Tasks,
         t.intent = task.intent, t.recovery = task.recovery, t.cleanup = task.cleanup,
         task' = Updated(requested, t)
  PROVE  RecordStep
<1>1. task'.status = "completed" => task.status = "completed"
  BY UpdatedType DEF NextStatus
<1> QED BY <1>1, UpdatedType DEF RecordStep

LEMMA LaunchRecord == ASSUME TypeOK, Launch PROVE RecordStep
<1>0. task \in Tasks
  BY DEF TypeOK
<1>1. CASE LaunchCheck
  BY <1>0, <1>1 DEF LaunchCheck, RecordStep, Tasks
<1>2. CASE LaunchClear
  BY <1>0, <1>2 DEF LaunchClear, ClearReservation, RecordStep, Tasks
<1>3. CASE LaunchUncertain
  <2> DEFINE t == [task EXCEPT !.recovery = TRUE]
  <2>1. t \in Tasks /\ t.intent = task.intent /\ t.cleanup = task.cleanup
    BY <1>0 DEF Tasks
  <2>2. task'.status = "completed" => task.status = "completed"
    BY <1>0, <1>3, <2>1, UpdatedType, StatusFacts DEF LaunchUncertain, NextStatus, KeepStatus
  <2> QED BY <1>0, <1>3, <2>1, <2>2, UpdatedType, StatusFacts DEF LaunchUncertain, RecordStep
<1>4. CASE LaunchFail
  BY <1>0, <1>4, PlainUpdate, StatusFacts DEF LaunchFail, Update
<1>5. UNCHANGED task \/ LaunchCheck \/ LaunchClear \/ LaunchUncertain \/ LaunchFail
  BY DEF Launch, LaunchUnit, LaunchRecheck, LaunchRegister, LaunchStop, LaunchStopWait,
         LaunchCatch, LaunchCatchLock
<1> QED BY <1>1, <1>2, <1>3, <1>4, <1>5 DEF RecordStep

LEMMA WorkerRecord == ASSUME TypeOK, WorkerStep \/ Watch \/ WorkerCrash PROVE RecordStep
<1>0. task \in Tasks /\ worker.outcome \in Terminal
  BY DEF TypeOK
<1>1. CASE WorkerStart \/ WorkerRunning \/ WorkerFallback
  <2>1. task' = task \/ task' = Updated("starting", task) \/ task' = Updated("running", task)
    BY <1>1 DEF WorkerStart, WorkerRunning, WorkerFallback, Update
  <2> QED BY <1>0, <2>1, PlainUpdate, StatusFacts DEF RecordStep
<1>2. CASE WorkerIntend
  <2>1. [task EXCEPT !.intent = TRUE] \in Tasks
    BY <1>0 DEF Tasks
  <2>2. task' = [task EXCEPT !.intent = TRUE, !.status = NextStatus(task.status, KeepStatus)]
    BY <1>2 DEF WorkerIntend, Updated, Accepts
  <2>3. NextStatus(task.status, KeepStatus) = task.status
    BY DEF NextStatus
  <2> QED BY <1>0, <2>2, <2>3 DEF RecordStep, Tasks
<1>3. CASE WorkerMark \/ WorkerCli
  <2> DEFINE t == [task EXCEPT !.dispatched = TRUE]
  <2>1. t \in Tasks /\ t.intent = task.intent /\ t.recovery = task.recovery /\ t.cleanup = task.cleanup
    BY <1>0 DEF Tasks
  <2>2. task' = task \/ task' = Updated(KeepStatus, t) \/ task' = Updated("running", t)
    BY <1>3 DEF WorkerMark, WorkerCli
  <2>3. KeepStatus \in Changes \ {"completed"} /\ "running" \in Changes \ {"completed"}
    BY StatusFacts DEF KeepStatus
  <2>4. CASE task' = task BY <2>4 DEF RecordStep
  <2>5. CASE task' = Updated(KeepStatus, t)
    BY <1>0, <2>1, <2>3, <2>5, PlainUpdate
  <2>6. CASE task' = Updated("running", t)
    BY <1>0, <2>1, <2>3, <2>6, PlainUpdate
  <2> QED BY <2>2, <2>4, <2>5, <2>6
<1>4. CASE WorkerPersist \/ WorkerHandoff
  <2> DEFINE t == [task EXCEPT !.cleanup = "pending", !.attempted = FALSE]
  <2>1. t \in Tasks /\ t.intent = task.intent /\ t.recovery = task.recovery /\ t.cleanup = "pending"
    BY <1>0 DEF Tasks, Cleanups
  <2>2. task' = task \/ \E r \in Changes : task' = Updated(r, t)
    BY <1>0, <1>4, StatusFacts DEF WorkerPersist, WorkerHandoff
  <2> HIDE DEF t
  <2> QED BY <1>0, <2>1, <2>2, UpdatedType DEF RecordStep
<1>5. UNCHANGED task \/ WorkerStart \/ WorkerRunning \/ WorkerFallback \/ WorkerIntend \/ WorkerMark
      \/ WorkerCli \/ WorkerPersist \/ WorkerHandoff
  BY DEF WorkerStep, WorkerCrash, WorkerRegister, WorkerCheck, WorkerSession, WorkerPrompt,
         WorkerTurn, WorkerAcpFailed, WorkerSpawn, WorkerCliTurn, Watch, WatchRead, WatchSet, WatchFires
<1> QED BY <1>1, <1>2, <1>3, <1>4, <1>5 DEF RecordStep

LEMMA CallRecord ==
  ASSUME TypeOK, NEW c \in Calls, CallMove(c)
  PROVE  RecordStep
<1>0. task \in Tasks
  BY DEF TypeOK
<1>1. CASE CancelMark(c) \/ CancelUncertain(c) \/ Cancelled(c)
  BY <1>0, <1>1, PlainUpdate, StatusFacts DEF CancelMark, CancelUncertain, Cancelled, Update
<1>2. CASE CancelClear(c)
  BY <1>0, <1>2 DEF CancelClear, ClearReservation, RecordStep, Tasks
<1>3. CASE Reconcile(c)
  <2> DEFINE t == [task EXCEPT !.reservation = "none"]
  <2>1. t \in Tasks /\ t.intent = task.intent /\ t.recovery = task.recovery /\ t.cleanup = task.cleanup
    BY <1>0 DEF Tasks
  <2>2. task' = Updated("timeout", t) \/ task' = Updated("transport_lost", t)
    BY <1>3 DEF Reconcile
  <2> QED BY <1>0, <2>1, <2>2, PlainUpdate, StatusFacts
<1>4. CASE Persist(c)
  <2> DEFINE t == [task EXCEPT !.cleanup = call[c].verdict.cleanup,
                               !.attempted = call[c].verdict.attempted]
  <2>1. /\ t \in Tasks /\ t.intent = task.intent /\ t.recovery = task.recovery
        /\ t.cleanup = call[c].verdict.cleanup
    BY <1>0 DEF Tasks, TypeOK
  <2>2. task' = Updated(KeepStatus, t) /\ call[c].pc = "persist"
    BY <1>4 DEF Persist, At
  <2>3. task'.status = task.status
    BY <1>0, <2>1, <2>2, UpdatedType, StatusFacts DEF NextStatus
  <2> QED BY <1>0, <2>1, <2>2, <2>3, UpdatedType, StatusFacts DEF RecordStep
<1>6. CASE Extend(c)
  <2> DEFINE t == [task EXCEPT !.deadline = call[c].deadline]
  <2>1. t \in Tasks /\ t.intent = task.intent /\ t.recovery = task.recovery /\ t.cleanup = task.cleanup
    BY <1>0 DEF Tasks, TypeOK
  <2>2. task' = Updated(KeepStatus, t) /\ KeepStatus \in Changes \ {"completed"}
    BY <1>6, StatusFacts DEF Extend, KeepStatus
  <2> QED BY <1>0, <2>1, <2>2, PlainUpdate
<1>5. UNCHANGED task \/ CancelMark(c) \/ CancelClear(c) \/ CancelUncertain(c) \/ Cancelled(c)
      \/ Reconcile(c) \/ Persist(c) \/ Extend(c)
  BY DEF CallMove, ExtendRead, CancelRead, PollRead, Read, CallStep, ReadRuntime, Cancel, CancelStop, CancelWait,
         CancelInspect, CancelLock, Poll, PollInspect, PollLock, Settle, SettleInspect,
         SettleStop, SettleStopWait, SettleProve, SettleLock, CallKeeps
<1> QED BY <1>1, <1>2, <1>3, <1>4, <1>5, <1>6 DEF RecordStep

LEMMA NextRecord == ASSUME TypeOK, [Next]_vars PROVE RecordStep
<1>1. CASE World
  BY <1>1 DEF World, UnitEmpties, ReservationExpires, TimePasses, SupervisorCrash,
              RecordStep, TypeOK, Tasks
<1>2. CASE UNCHANGED vars
  BY <1>2 DEF vars, RecordStep
<1> QED BY <1>1, <1>2, LaunchRecord, WorkerRecord, CallRecord DEF Next, World, CallMove

\* Only the launch starts the unit; once it is down it stays down.
LEMMA NextUnit ==
  ASSUME [Next]_vars
  PROVE  \/ unit' = unit
         \/ LaunchUnit /\ launch = "unit" /\ unit' = "up" /\ launch' = "recheck"
         \/ unit = "up" /\ unit' = "down"
<1>1. CASE Launch
  BY <1>1 DEF Launch, LaunchCheck, LaunchUnit, LaunchRecheck, LaunchRegister, LaunchClear,
     LaunchStop, LaunchStopWait, LaunchUncertain, LaunchCatch, LaunchFail, LaunchCatchLock, LaunchGoto
<1>2. CASE World
  BY <1>2 DEF World, UnitEmpties, ReservationExpires, TimePasses, SupervisorCrash
<1>3. CASE UNCHANGED vars
  BY <1>3 DEF vars
<1> QED BY <1>1, <1>2, <1>3, WorkerFrame, CallFrame DEF Next, World, CallMove
------------------------------------------------------------------------------
(* Settlement: whoever knows of a unit knows one that was started, and a     *)
(* final cleanup record has a unit behind it that is down.                   *)

LaunchWithUnit == {"recheck", "register", "clear", "stop", "stop_wait", "uncertain"}
SettlePCs == {"settle", "stop", "stop_wait", "prove", "lock", "lock_recovered", "persist"}

\* What a call may rely on where it is.
CallSound(s) ==
  /\ s.seen.recovery \/ s.pc \in SettlePCs => unit # "absent"
  /\ s.pc \in {"lock", "lock_recovered"} => unit = "down"
  /\ s.known => unit # "absent"
  /\ s.pc \in {"cancel_lock", "cancelled", "reconcile", "poll_lock"} /\ s.known => unit = "down"
  /\ s.pc = "persist" => /\ s.verdict.cleanup # "none"
                         /\ s.verdict.cleanup \in Final => unit = "down"

SettlementInv ==
  /\ launch \in {"check", "unit"} => unit = "absent"
  /\ launch \in LaunchWithUnit => unit # "absent"
  /\ runtime \/ task.recovery \/ lock = "held" => unit # "absent"
  /\ \A c \in Calls : CallSound(call[c])
  /\ task.cleanup \in Final => unit = "down"
  /\ task.status = "completed" => task.cleanup # "none"

LEMMA InitSettlement == Init => SettlementInv
  BY DEF Init, SettlementInv, CallSound, Idle, Nothing, NoVerdict, Final, LaunchWithUnit, SettlePCs

\* Under the invariant a unit that was started stays so, and a stopped one
\* stays down.
LEMMA UnitSteady ==
  ASSUME SettlementInv, [Next]_vars
  PROVE  /\ unit # "absent" => unit' # "absent"
         /\ unit = "down" => unit' = "down"
  BY NextUnit DEF SettlementInv

\* The launch: before its unit step there is none, after it there is one.
LEMMA LaunchSettlement ==
  ASSUME TypeOK, SettlementInv, [Next]_vars
  PROVE  /\ launch' \in {"check", "unit"} => unit' = "absent"
         /\ launch' \in LaunchWithUnit => unit' # "absent"
<1>1. CASE Launch
  <2> USE <1>1 DEF LaunchGoto, LaunchWithUnit, SettlementInv
  <2>1. CASE LaunchUnit BY <2>1 DEF LaunchUnit
  <2>2. CASE ~LaunchUnit
    BY <2>2 DEF Launch, LaunchCheck, LaunchRecheck, LaunchRegister, LaunchClear, LaunchStop,
                LaunchStopWait, LaunchUncertain, LaunchCatch, LaunchFail, LaunchCatchLock
  <2> QED BY <2>1, <2>2
<1>2. CASE World
  BY <1>2 DEF World, UnitEmpties, ReservationExpires, TimePasses, SupervisorCrash,
              SettlementInv, LaunchWithUnit
<1>3. CASE UNCHANGED vars
  BY <1>3 DEF vars, SettlementInv
<1> QED BY <1>1, <1>2, <1>3, WorkerFrame, CallFrame DEF Next, World, CallMove, SettlementInv

\* Evidence of a unit is only left where one was started.
LEMMA EvidenceSettlement ==
  ASSUME TypeOK, SettlementInv, [Next]_vars
  PROVE  runtime' \/ task'.recovery \/ lock' = "held" => unit' # "absent"
<1>1. task'.recovery => unit' # "absent"
  BY NextRecord, UnitSteady DEF RecordStep, SettlementInv, LaunchWithUnit
<1>2. runtime' => unit' # "absent"
  <2>1. runtime' = runtime \/ launch = "register" \/ \E c \in Calls : call[c].pc = "persist"
    BY WorkerFrame
       DEF Next, CallMove, vars, UnitEmpties, ReservationExpires, TimePasses, SupervisorCrash, Launch,
       LaunchCheck, LaunchUnit, LaunchRecheck, LaunchRegister, LaunchClear, LaunchStop,
       LaunchStopWait, LaunchUncertain, LaunchCatch, LaunchFail, LaunchCatchLock,
       ExtendRead, Extend, CancelRead, PollRead, Read, CallStep, ReadRuntime, Cancel, CancelMark, CancelClear,
       CancelStop, CancelWait, CancelInspect, CancelUncertain, CancelLock, Cancelled, Poll,
       PollInspect, Reconcile, PollLock, Settle, SettleInspect, SettleStop, SettleStopWait,
       SettleProve, SettleLock, Persist, At
  <2> QED BY <2>1, UnitSteady DEF TypeOK, SettlementInv, CallSound, LaunchWithUnit, SettlePCs
<1>3. lock' = "held" => unit' # "absent"
  <2>1. lock' = "held" => lock = "held" \/ unit' = "up"
    BY WorkerFrame
       DEF Next, CallMove, vars, UnitEmpties, ReservationExpires, TimePasses, SupervisorCrash, Launch,
       LaunchCheck, LaunchUnit, LaunchRecheck, LaunchRegister, LaunchClear, LaunchStop,
       LaunchStopWait, LaunchUncertain, LaunchCatch, LaunchFail, LaunchCatchLock,
       ExtendRead, Extend, CancelRead, PollRead, Read, CallStep, ReadRuntime, Cancel, CancelMark, CancelClear,
       CancelStop, CancelWait, CancelInspect, CancelUncertain, CancelLock, Cancelled, Poll,
       PollInspect, Reconcile, PollLock, Settle, SettleInspect, SettleStop, SettleStopWait,
       SettleProve, SettleLock, Persist, CleanAbandonedLock
  <2> QED BY <2>1, UnitSteady DEF SettlementInv
<1> QED BY <1>1, <1>2, <1>3
\* A call that is not of the settlement, or has just decided, is sound.
LEMMA CallMoves ==
  ASSUME TypeOK, SettlementInv, NEW c \in Calls, unit' = unit
  PROVE  /\ Return(c) => CallSound(call'[c])
         /\ \A p \in CallPCs :
              Goto(c, p) /\ (p \in SettlePCs => unit # "absent") /\ p # "persist"
                         /\ (p \in {"lock", "lock_recovered"} => unit = "down")
                         /\ (p \in {"cancel_lock", "cancelled", "reconcile", "poll_lock"} /\ call[c].known
                               => unit = "down")
              => CallSound(call'[c])
         /\ \A v \in [cleanup : Cleanups, attempted : BOOLEAN] :
              Decide(c, v) /\ unit # "absent" /\ v.cleanup # "none"
                           /\ (v.cleanup \in Final => unit = "down")
              => CallSound(call'[c])
<1>0. call \in [Calls -> CallTypes] /\ call[c] \in CallTypes /\ CallSound(call[c])
  BY DEF TypeOK, CallTypes, SettlementInv
<1>1. ASSUME Return(c) PROVE CallSound(call'[c])
  <2>1. call'[c] = Idle
    BY <1>0, <1>1 DEF Return
  <2> QED BY <2>1 DEF CallSound, Idle, Nothing, NoVerdict, SettlePCs
<1>2. ASSUME NEW p \in CallPCs, Goto(c, p), p \in SettlePCs => unit # "absent", p # "persist",
             p \in {"lock", "lock_recovered"} => unit = "down",
             p \in {"cancel_lock", "cancelled", "reconcile", "poll_lock"} /\ call[c].known => unit = "down"
      PROVE  CallSound(call'[c])
  <2>1. call'[c].pc = p /\ call'[c].seen = call[c].seen /\ call'[c].known = call[c].known
    BY <1>0, <1>2 DEF Goto, CallTypes
  <2> QED BY <1>0, <1>2, <2>1 DEF CallSound
<1>3. ASSUME NEW v \in [cleanup : Cleanups, attempted : BOOLEAN], Decide(c, v), unit # "absent",
             v.cleanup # "none", v.cleanup \in Final => unit = "down"
      PROVE  CallSound(call'[c])
  <2>1. call'[c].pc = "persist" /\ call'[c].verdict = v
    BY <1>0, <1>3 DEF Decide, CallTypes
  <2> QED BY <1>0, <1>3, <2>1 DEF CallSound
<1> QED BY <1>1, <1>2, <1>3

\* A step of a call keeps it sound: the settlement reaches the lock only past
\* an inspection that found the unit empty.
LEMMA CallSettlement ==
  ASSUME TypeOK, SettlementInv, NEW c \in Calls, CallMove(c)
  PROVE  CallSound(call[c])'
<1>0. /\ call \in [Calls -> CallTypes] /\ call[c] \in CallTypes /\ CallSound(call[c])
      /\ unit' = unit /\ unit \in {"absent", "up", "down"}
  BY CallFrame DEF TypeOK, CallTypes, SettlementInv
<1>1. SUFFICES CallSound(call'[c])
  BY <1>0 DEF CallSound
<1>2. CASE CancelRead(c) \/ PollRead(c)
  <2>1. PICK p \in {"cancel_runtime", "poll_runtime", "settle_runtime"} :
          \E d : call' = [call EXCEPT ![c].pc = p, ![c].seen = Seen(task), ![c].deadline = d]
    BY <1>2 DEF CancelRead, PollRead, Read
  <2>2. call'[c].pc = p /\ call'[c].seen.recovery = task.recovery
    BY <1>0, <2>1 DEF CallTypes, Seen
  <2>3. call'[c].known = call[c].known
    BY <1>0, <2>1 DEF CallTypes
  <2> QED BY <1>0, <2>2, <2>3 DEF CallSound, SettlementInv, SettlePCs
<1>3. CASE ReadRuntime(c)
  <2>1. CASE At(c, "cancel_runtime") \/ At(c, "poll_runtime")
    <3>1. /\ call'[c].pc \in {"cancel_mark", "poll_inspect", "reconcile"} /\ call'[c].seen = Nothing
          /\ call'[c].known = Known(call[c].seen)
          /\ call'[c].pc = "reconcile" => ~Known(call[c].seen)
      BY <1>0, <1>3, <2>1 DEF ReadRuntime, At, CallTypes
    <3>2. Known(call[c].seen) => unit # "absent"
      BY <1>0 DEF Known, SettlementInv, CallSound
    <3> QED BY <1>0, <3>1, <3>2 DEF CallSound, SettlePCs, Nothing
  <2>2. CASE At(c, "settle_runtime")
    <3>1. Known(call[c].seen) => unit # "absent"
      BY <1>0 DEF Known, SettlementInv, CallSound
    <3> QED BY <1>0, <1>3, <2>2, <3>1, CallMoves DEF ReadRuntime, At, CallPCs
  <2> QED BY <1>3, <2>1, <2>2 DEF ReadRuntime, At
<1>4. CASE CancelClear(c)
  <2>1. Goto(c, "cancel_stop") \/ (Goto(c, "cancel_lock") /\ ~call[c].known)
    BY <1>4 DEF CancelClear
  <2> QED BY <1>0, <2>1, CallMoves DEF CallPCs, SettlePCs
<1>12. CASE Reconcile(c) \/ ExtendRead(c)
  <2>1. /\ call'[c].pc \in {"poll_lock", "extend"} /\ call'[c].seen = call[c].seen
        /\ call'[c].known = call[c].known
        /\ call'[c].pc = "poll_lock" => call[c].pc = "reconcile"
    BY <1>0, <1>12 DEF Reconcile, ExtendRead, CallTypes, At
  <2> QED BY <1>0, <2>1 DEF CallSound, SettlePCs
<1>8. ASSUME "inactive_empty" \in Inspections PROVE unit # "up"
  BY <1>8 DEF Inspections
<1>5. CASE CancelMark(c) \/ CancelStop(c) \/ CancelWait(c) \/ CancelInspect(c) \/ CancelLock(c)
  <2>1. PICK p \in {"cancel_clear", "cancel_wait", "cancel_inspect", "cancel_uncertain",
                    "cancel_lock", "cancelled"} :
          /\ Goto(c, p)
          /\ p = "cancel_lock" => unit # "up"
          /\ p = "cancelled" => call[c].pc = "cancel_lock"
    <3>1. CASE CancelMark(c) \/ CancelWait(c)
      BY <3>1 DEF CancelMark, CancelWait
    <3>2. CASE CancelStop(c) \/ CancelInspect(c)
      BY <1>8, <3>2 DEF CancelStop, CancelInspect, Inspections
    <3>3. CASE CancelLock(c)
      BY <3>3 DEF CancelLock, At
    <3> QED BY <1>5, <3>1, <3>2, <3>3
  <2>2. p \in CallPCs \ SettlePCs
    BY DEF CallPCs, SettlePCs
  <2>5. call[c].known => unit # "absent"
    BY <1>0 DEF CallSound
  <2>6. p \in {"cancel_lock", "cancelled"} /\ call[c].known => unit = "down"
    BY <1>0, <2>1, <2>5 DEF CallSound
  <2> QED BY <1>0, <2>1, <2>2, <2>6, CallMoves DEF SettlePCs
<1>6. CASE CancelUncertain(c) \/ Cancelled(c) \/ PollLock(c) \/ Persist(c) \/ Extend(c)
  BY <1>0, <1>6, CallMoves DEF CancelUncertain, Cancelled, PollLock, Persist, Extend
<1>7. CASE PollInspect(c)
  <2>1. call[c].known => unit # "absent"
    BY <1>0 DEF CallSound
  <2>2. Return(c) \/ (Goto(c, "reconcile") /\ unit # "up")
    BY <1>7, <1>8 DEF PollInspect
  <2> QED BY <1>0, <2>1, <2>2, CallMoves DEF CallPCs, SettlePCs
<1>9. CASE SettleInspect(c)
  <2>0. unit # "absent"
    BY <1>0, <1>9 DEF SettleInspect, At, CallSound, SettlePCs
  <2>1. \A a \in BOOLEAN, k \in {"unknown", "pending"} :
          /\ Verdict(k, a) \in [cleanup : Cleanups, attempted : BOOLEAN]
          /\ Verdict(k, a).cleanup \notin Final \cup {"none"}
    BY DEF Verdict, Cleanups, Final
  <2>2. call[c].seen.attempted \in BOOLEAN
    BY <1>0 DEF CallTypes
  <2>3. \/ Goto(c, "lock") /\ unit = "down"
        \/ Goto(c, "stop")
        \/ \E a \in BOOLEAN, k \in {"unknown", "pending"} : Decide(c, Verdict(k, a))
    BY <1>0, <1>8, <1>9, <2>0, <2>2 DEF SettleInspect
  <2> QED BY <1>0, <2>0, <2>1, <2>3, CallMoves DEF CallPCs
<1>10. CASE SettleStop(c) \/ SettleStopWait(c) \/ SettleProve(c)
  <2>0. unit # "absent"
    BY <1>0, <1>10 DEF SettleStop, SettleStopWait, SettleProve, At, CallSound, SettlePCs
  <2>1. \A k \in {"failed", "unknown"} :
          /\ Verdict(k, TRUE) \in [cleanup : Cleanups, attempted : BOOLEAN]
          /\ Verdict(k, TRUE).cleanup \notin Final \cup {"none"}
    BY DEF Verdict, Cleanups, Final
  <2>2. \/ Goto(c, "lock_recovered") /\ unit = "down"
        \/ Goto(c, "stop_wait") \/ Goto(c, "prove")
        \/ \E k \in {"failed", "unknown"} : Decide(c, Verdict(k, TRUE))
    BY <1>0, <1>8, <1>10, <2>0 DEF SettleStop, SettleStopWait, SettleProve
  <2> QED BY <1>0, <2>0, <2>1, <2>2, CallMoves DEF CallPCs
<1>11. CASE SettleLock(c)
  <2>0. unit = "down"
    BY <1>0, <1>11 DEF SettleLock, CallSound
  <2>1. \A k \in {"recovered", "normal", "unknown"}, a \in BOOLEAN :
          /\ Verdict(k, a) \in [cleanup : Cleanups, attempted : BOOLEAN]
          /\ Verdict(k, a).cleanup # "none"
    BY DEF Verdict, Cleanups, Final
  <2>2. (At(c, "lock_recovered") \/ call[c].seen.attempted) \in BOOLEAN
    BY <1>0 DEF At, CallTypes
  <2>3. \E k \in {"recovered", "normal", "unknown"}, a \in BOOLEAN : Decide(c, Verdict(k, a))
    BY <1>11, <2>2 DEF SettleLock
  <2> QED BY <1>0, <2>0, <2>1, <2>3, CallMoves
<1> QED BY <1>2, <1>3, <1>4, <1>5, <1>6, <1>7, <1>9, <1>10, <1>11, <1>12
        DEF CallMove, CallStep, Cancel, Poll, Settle
\* The steps of the others keep every call as it is, or drop them all.
LEMMA OthersSettlement ==
  ASSUME SettlementInv, [Next]_vars,
         ~(\E c \in Calls : CallMove(c))
  PROVE  \A c \in Calls : CallSound(call[c])'
<1>1. call' = call \/ call' = [c \in Calls |-> Idle]
  BY WorkerFrame
     DEF Next, CallMove, vars, UnitEmpties, ReservationExpires, TimePasses, SupervisorCrash, Launch,
     LaunchCheck, LaunchUnit, LaunchRecheck, LaunchRegister, LaunchClear, LaunchStop,
     LaunchStopWait, LaunchUncertain, LaunchCatch, LaunchFail, LaunchCatchLock, LaunchGoto
<1>2. CASE call' = call
  BY <1>2, UnitSteady DEF SettlementInv, CallSound
<1>3. CASE call' = [c \in Calls |-> Idle]
  BY <1>3 DEF CallSound, Idle, Nothing, NoVerdict, SettlePCs
<1> QED BY <1>1, <1>2, <1>3

LEMMA CallsSettlement ==
  ASSUME TypeOK, SettlementInv, [Next]_vars
  PROVE  \A c \in Calls : CallSound(call[c])'
<1>1. ASSUME NEW c \in Calls, CallMove(c)
      PROVE  \A d \in Calls : CallSound(call[d])'
  <2>1. PICK s \in CallTypes : call' = [call EXCEPT ![c] = s]
    BY <1>1, CallCallType
  <2>2. ASSUME NEW d \in Calls, d # c PROVE CallSound(call[d])'
    <3>1. call'[d] = call[d] /\ unit' = unit
      BY <1>1, <2>1, <2>2, CallFrame DEF TypeOK
    <3> QED BY <3>1 DEF SettlementInv, CallSound
  <2>3. CallSound(call[c])'
    BY <1>1, CallSettlement
  <2> QED BY <2>2, <2>3
<1> QED BY <1>1, OthersSettlement

LEMMA NextSettlement == TypeOK /\ SettlementInv /\ [Next]_vars => SettlementInv'
<1> SUFFICES ASSUME TypeOK, SettlementInv, [Next]_vars PROVE SettlementInv'
  OBVIOUS
<1>1. task'.cleanup \in Final => unit' = "down"
  BY NextRecord, UnitSteady DEF RecordStep, SettlementInv, CallSound, Final
<1>2. task'.status = "completed" => task'.cleanup # "none"
  BY NextRecord DEF RecordStep, SettlementInv, CallSound
<1> QED BY <1>1, <1>2, LaunchSettlement, EvidenceSettlement, CallsSettlement DEF SettlementInv

THEOREM LifecycleSettlement == Spec => [](TypeOK /\ SettlementInv)
<1>1. TypeOK /\ SettlementInv /\ [Next]_vars => SettlementInv'
  BY NextSettlement
<1> QED BY <1>1, LifecycleType, InitSettlement, PTL DEF Spec

\* A cleanup record of supervisor.mjs that says normal or recovered has a unit
\* behind it that is down for good, however many calls settle at once and
\* whatever inspections, stops and snapshots fail.
THEOREM LifecycleSettled == Spec => []SettledMeansStopped
<1>1. SettlementInv => SettledMeansStopped
  BY DEF SettlementInv, SettledMeansStopped
<1> QED BY <1>1, LifecycleSettlement, PTL

\* A reader whom the projection of supervisor.mjs tells completed can rely on
\* the unit being gone.
THEOREM LifecycleCompleted == Spec => []CompletedMeansStopped
<1>1. SettlementInv => CompletedMeansStopped
  BY DEF SettlementInv, CompletedMeansStopped, Public, Final, Terminal
<1> QED BY <1>1, LifecycleSettlement, PTL

\* Whatever WTB says of its owner, no cancel, poll or settlement that knows the unit frees
\* the writer lock before the unit is down: that is left to the failure path of the
\* launch, and to calls that read no unit (cleanupManagedWorkspace, supervisor.mjs:584).
THEOREM LifecycleLock == Spec => LockTakenOnProof
<1> DEFINE Unproved ==
      \/ launch = "catch_lock" /\ launch' = "done"
      \/ \E c \in Calls : /\ call[c].pc \in {"cancel_lock", "poll_lock"} /\ ~call[c].known
                         /\ call'[c] # call[c]
<1>1. TypeOK /\ SettlementInv /\ [Next]_vars
        => [lock = "held" /\ lock' = "free" /\ unit' # "down" => Unproved]_vars
  <2> SUFFICES ASSUME TypeOK, SettlementInv, [Next]_vars, lock = "held", lock' = "free", unit' # "down"
               PROVE  Unproved
    OBVIOUS
  <2>0. unit \in {"up", "down"} /\ call \in [Calls -> CallTypes]
    BY DEF TypeOK, SettlementInv, CallTypes
  <2>1. CASE Launch
    <3>1. CASE LaunchUnit BY <2>0, <2>1, <3>1 DEF LaunchUnit, SettlementInv
    <3>2. CASE LaunchCatchLock BY <3>2 DEF LaunchCatchLock, LaunchGoto
    <3> QED BY <2>1, <3>1, <3>2
            DEF Launch, LaunchCheck, LaunchRecheck, LaunchRegister, LaunchClear, LaunchStop,
            LaunchStopWait, LaunchUncertain, LaunchCatch, LaunchFail
  <2>2. CASE \E c \in Calls : CallMove(c)
    <3> PICK c \in Calls : CallMove(c)
      BY <2>2
    <3>1. CASE CancelLock(c) \/ PollLock(c)
      <4>1. unit' = unit /\ CallSound(call[c])
        BY <3>1 DEF CancelLock, PollLock, SettlementInv
      <4>2. call[c].pc \in {"cancel_lock", "poll_lock"}
        BY <3>1 DEF CancelLock, PollLock, At
      <4>3. ~call[c].known
        BY <4>1, <4>2 DEF CallSound
      <4>4. call'[c].pc \in {"cancelled", "idle"}
        BY <2>0, <3>1 DEF CancelLock, PollLock, Goto, Return, Idle, CallTypes
      <4> QED BY <4>2, <4>3, <4>4
    <3>2. CASE SettleLock(c)
      BY <3>2 DEF SettleLock, SettlementInv, CallSound
    <3> QED BY <3>1, <3>2
            DEF CallMove, ExtendRead, Extend, CancelRead, PollRead, Read, CallStep, ReadRuntime, Cancel,
            CancelMark, CancelClear,
            CancelStop, CancelWait, CancelInspect, CancelUncertain, Cancelled, Poll, PollInspect,
            Reconcile, Settle, SettleInspect, SettleStop, SettleStopWait, SettleProve, Persist
  <2>3. CASE World
    BY <2>3 DEF World, UnitEmpties, ReservationExpires, TimePasses, SupervisorCrash
  <2>4. CASE UNCHANGED vars
    BY <2>4 DEF vars
  <2> QED BY <2>1, <2>2, <2>3, <2>4, WorkerFrame DEF Next, World, CallMove
<1> QED BY <1>1, LifecycleSettlement, PTL DEF Spec, LockTakenOnProof

------------------------------------------------------------------------------
(* Dispatch: the intent to prompt is stored before the prompt, and a stored  *)
(* intent closes the way to the fallback.                                    *)

BeforePrompt == {"register", "check", "start", "session", "running", "intend", "prompt"}
AfterFallback == {"cli", "cli_turn", "persist", "persist_error", "handoff", "handoff_error", "gone"}

DispatchInv ==
  /\ prompts <= 1
  /\ worker.pc \in BeforePrompt => prompts = 0
  /\ worker.pc = "prompt" => task.intent
  /\ prompts > 0 => task.intent \/ worker.pc \in AfterFallback

LEMMA WorkerDispatch ==
  ASSUME TypeOK, DispatchInv, WorkerStep \/ Watch \/ WorkerCrash
  PROVE  DispatchInv'
<1>0. prompts \in Nat /\ RecordStep /\ worker \in WorkerTypes
  BY WorkerRecord DEF TypeOK, WorkerTypes, Watches
<1>18. CASE Watch
  <2>1. worker'.pc = worker.pc /\ prompts' = prompts /\ task' = task
    BY <1>0, <1>18 DEF Watch, WatchRead, WatchSet, Arms, WatchFires, WorkerTypes
  <2> QED BY <2>1 DEF DispatchInv
<1>19. /\ WorkerThrows => worker'.pc = "acp_failed"
       /\ \A p, o : WorkerEnds(p, o) => worker'.pc = p
       /\ \A p : WorkerGoto(p) => worker'.pc = p
  <2>2. ASSUME NEW p, NEW o, WorkerEnds(p, o) PROVE worker'.pc = p
    BY <2>2 DEF WorkerEnds
  <2>3. ASSUME NEW p, WorkerGoto(p) PROVE worker'.pc = p
    BY <1>0, <2>3 DEF WorkerGoto, WorkerTypes
  <2> QED BY <2>2, <2>3 DEF WorkerThrows
<1>20. CASE WorkerPrompt
  BY <1>0, <1>19, <1>20 DEF WorkerPrompt, WorkerAt, DispatchInv, RecordStep, BeforePrompt, AfterFallback
<1>21. CASE WorkerTurn
  BY <1>0, <1>19, <1>21 DEF WorkerTurn, WorkerAt, DispatchInv, RecordStep, BeforePrompt, AfterFallback
<1> USE <1>0 DEF DispatchInv, RecordStep, BeforePrompt, AfterFallback, WorkerAt, WorkerGoto, WorkerEnds,
        WorkerGone, WorkerThrows, WorkerGivesUp, WorkerTypes
<1>1. CASE WorkerRegister BY <1>1 DEF WorkerRegister
<1>2. CASE WorkerCheck BY <1>2 DEF WorkerCheck
<1>3. CASE WorkerStart BY <1>3 DEF WorkerStart
<1>4. CASE WorkerSession BY <1>4 DEF WorkerSession
<1>5. CASE WorkerRunning BY <1>5 DEF WorkerRunning
<1>6. CASE WorkerIntend
  <2>1. task'.intent
    BY <1>6 DEF WorkerIntend, Updated, Accepts, TypeOK, Tasks
  <2> QED BY <1>6, <2>1 DEF WorkerIntend
<1>8. CASE WorkerMark BY <1>8 DEF WorkerMark
<1>10. CASE WorkerAcpFailed BY <1>10 DEF WorkerAcpFailed, FallbackAllowed
<1>11. CASE WorkerFallback BY <1>11 DEF WorkerFallback, FallbackAllowed
<1>12. CASE WorkerSpawn BY <1>12 DEF WorkerSpawn, FallbackAllowed
<1>13. CASE WorkerCli BY <1>13 DEF WorkerCli
<1>14. CASE WorkerCliTurn BY <1>14 DEF WorkerCliTurn
<1>15. CASE WorkerPersist BY <1>15 DEF WorkerPersist
<1>16. CASE WorkerHandoff BY <1>16 DEF WorkerHandoff
<1>17. CASE WorkerCrash BY <1>17 DEF WorkerCrash
<1> QED BY <1>1, <1>2, <1>3, <1>4, <1>5, <1>6, <1>8, <1>10, <1>11, <1>12, <1>13,
           <1>14, <1>15, <1>16, <1>17, <1>18, <1>20, <1>21 DEF WorkerStep

\* The worker of one task hands its prompt to a provider at most once, by ACP or
\* by the CLI fallback, whatever fails, is cancelled, settled or crashes.
THEOREM LifecycleDispatch == Spec => []AtMostOneDispatch
<1>1. Init => DispatchInv
  BY DEF Init, DispatchInv, BeforePrompt, AfterFallback
<1>2. TypeOK /\ DispatchInv /\ [Next]_vars => DispatchInv'
  <2> SUFFICES ASSUME TypeOK, DispatchInv, [Next]_vars PROVE DispatchInv'
    OBVIOUS
  <2>1. CASE WorkerStep \/ Watch \/ WorkerCrash
    BY <2>1, WorkerDispatch
  <2>2. CASE ~(WorkerStep \/ Watch \/ WorkerCrash)
    <3>1. prompts' = prompts /\ (worker' = worker \/ WorkerGone)
      BY <2>2, CallFrame
         DEF Next, CallMove, vars, UnitEmpties, ReservationExpires, TimePasses, SupervisorCrash, Launch,
         LaunchCheck, LaunchUnit, LaunchRecheck, LaunchRegister, LaunchClear, LaunchStop,
         LaunchStopWait, LaunchUncertain, LaunchCatch, LaunchFail, LaunchCatchLock, LaunchGoto
    <3>2. CASE worker' = worker
      BY <3>1, <3>2, NextRecord DEF DispatchInv, RecordStep
    <3>3. CASE WorkerGone
      <4>1. worker'.pc = "gone"
        BY <3>3 DEF WorkerGone, TypeOK
      <4> QED BY <3>1, <4>1 DEF DispatchInv, BeforePrompt, AfterFallback
    <3> QED BY <3>1, <3>2, <3>3
  <2> QED BY <2>1, <2>2
<1>3. DispatchInv => AtMostOneDispatch
  BY DEF DispatchInv, AtMostOneDispatch
<1> QED BY <1>1, <1>2, <1>3, LifecycleType, PTL DEF Spec
------------------------------------------------------------------------------
(* What readers are told: a status is final for them only with a unit that is *)
(* not up, unless a launch dies or calls meet it.                             *)

\* Readers are told the terminal status that the record has.
Shown(t) == t.status \in Terminal /\ t.cleanup \in Final \cup {"none"}

\* No call falls into the launch, and the supervisor does not die in it.
LaunchUndisturbed ==
  /\ launch # "dead"
  /\ launch # "done" => \A c \in Calls : At(c, "idle")

\* Places of a launch that has failed, with its unit gone.
GivenUp == {"stop_clear", "catch", "fail", "catch_clear", "catch_lock"}

\* What a call knows that is about to end the task.
CallFinal(s) ==
  /\ s.pc \in {"cancel_lock", "cancelled", "reconcile"} => unit # "up"
  /\ s.pc \in {"cancel_mark", "cancel_clear"} /\ ~s.known => unit # "up"

FinalInv ==
  /\ launch # "uncertain"
  /\ launch \in {"check", "unit"} => ~Shown(task)
  /\ launch \in GivenUp => unit # "up"
  /\ launch \in {"clear", "done"} /\ unit = "up" => runtime
  /\ \A c \in Calls : CallFinal(call[c])
  /\ Shown(task) => unit # "up"

LEMMA ShownIsPublic == Public(task) \in Terminal => Shown(task)
  BY DEF Public, Shown, Terminal

LEMMA InitFinal == Init => FinalInv
<1> SUFFICES ASSUME Init PROVE FinalInv
  OBVIOUS
<1>1. task.status = "accepted" /\ launch = "check" /\ unit = "absent"
  BY DEF Init
<1>2. \A c \in Calls : call[c].pc = "idle"
  BY DEF Init, Idle
<1> QED BY <1>1, <1>2 DEF FinalInv, CallFinal, Shown, Terminal, GivenUp

\* A change that carries no outcome, or comes with a pending cleanup, gives readers no outcome.
LEMMA ShownUpdate ==
  ASSUME task \in Tasks, NEW requested \in Changes, NEW t \in Tasks,
         (requested \notin Terminal /\ t.cleanup = task.cleanup) \/ t.cleanup = "pending",
         task' = Updated(requested, t), Shown(task')
  PROVE  Shown(task)
<1>1. CASE task' = task
  BY <1>1
<1>2. CASE task' # task
  <2>1. task'.cleanup = t.cleanup /\ task'.status = NextStatus(task.status, requested)
    BY <1>2, UpdatedType
  <2>2. task'.cleanup # "pending" /\ task'.status \in Terminal
    BY DEF Shown, Final
  <2>3. task'.status = task.status /\ task'.cleanup = task.cleanup
    BY <2>1, <2>2 DEF NextStatus
  <2> QED BY <2>3 DEF Shown
<1> QED BY <1>1, <1>2

\* The changes that are no outcomes.
LEMMA PlainChanges ==
  {"starting", "running", "transport_lost", "cancelling", KeepStatus} \subseteq Changes \ Terminal
  BY DEF Changes, KeepStatus, Statuses, Terminal, Active

LEMMA LaunchShown == ASSUME TypeOK, Launch, Shown(task') PROVE Shown(task) \/ launch = "fail"
<1>0. task \in Tasks
  BY DEF TypeOK
<1>1. CASE LaunchCheck \/ LaunchClear
  BY <1>0, <1>1 DEF LaunchCheck, LaunchClear, ClearReservation, Shown, Tasks
<1>2. CASE LaunchUncertain
  <2> DEFINE t == [task EXCEPT !.recovery = TRUE]
  <2>1. t \in Tasks /\ t.cleanup = task.cleanup
    BY <1>0 DEF Tasks
  <2> QED BY <1>0, <1>2, <2>1, ShownUpdate, PlainChanges DEF LaunchUncertain
<1>3. CASE LaunchFail
  BY <1>3 DEF LaunchFail
<1>4. UNCHANGED task \/ LaunchCheck \/ LaunchClear \/ LaunchUncertain \/ LaunchFail
  BY DEF Launch, LaunchUnit, LaunchRecheck, LaunchRegister, LaunchStop, LaunchStopWait,
         LaunchCatch, LaunchCatchLock
<1> QED BY <1>1, <1>2, <1>3, <1>4

LEMMA WorkerShown ==
  ASSUME TypeOK, WorkerStep \/ Watch \/ WorkerCrash, Shown(task')
  PROVE  Shown(task)
<1>0. task \in Tasks /\ worker.outcome \in Terminal
  BY DEF TypeOK
<1>1. CASE WorkerStart \/ WorkerRunning \/ WorkerFallback
  <2>1. task' = task \/ task' = Updated("starting", task) \/ task' = Updated("running", task)
    BY <1>1 DEF WorkerStart, WorkerRunning, WorkerFallback, Update
  <2> QED BY <1>0, <2>1, ShownUpdate, PlainChanges
<1>2. CASE WorkerIntend
  <2> DEFINE t == [task EXCEPT !.intent = TRUE]
  <2>1. t \in Tasks /\ t.cleanup = task.cleanup
    BY <1>0 DEF Tasks
  <2> QED BY <1>0, <1>2, <2>1, ShownUpdate, PlainChanges DEF WorkerIntend
<1>3. CASE WorkerMark \/ WorkerCli
  <2> DEFINE t == [task EXCEPT !.dispatched = TRUE]
  <2>1. t \in Tasks /\ t.cleanup = task.cleanup
    BY <1>0 DEF Tasks
  <2>2. task' = task \/ task' = Updated(KeepStatus, t) \/ task' = Updated("running", t)
    BY <1>3 DEF WorkerMark, WorkerCli
  <2> QED BY <1>0, <2>1, <2>2, ShownUpdate, PlainChanges
<1>4. CASE WorkerPersist \/ WorkerHandoff
  <2> DEFINE t == [task EXCEPT !.cleanup = "pending", !.attempted = FALSE]
  <2>1. t \in Tasks /\ t.cleanup = "pending"
    BY <1>0 DEF Tasks, Cleanups
  <2>2. task' = task \/ \E r \in Changes : task' = Updated(r, t)
    BY <1>0, <1>4, StatusFacts DEF WorkerPersist, WorkerHandoff
  <2> HIDE DEF t
  <2> QED BY <1>0, <2>1, <2>2, ShownUpdate
<1>5. UNCHANGED task \/ WorkerStart \/ WorkerRunning \/ WorkerFallback \/ WorkerIntend \/ WorkerMark
      \/ WorkerCli \/ WorkerPersist \/ WorkerHandoff
  BY DEF WorkerStep, WorkerCrash, WorkerRegister, WorkerCheck, WorkerSession, WorkerPrompt,
         WorkerTurn, WorkerAcpFailed, WorkerSpawn, WorkerCliTurn, Watch, WatchRead, WatchSet, WatchFires
<1> QED BY <1>1, <1>2, <1>3, <1>4, <1>5

LEMMA CallShown ==
  ASSUME TypeOK, NEW c \in Calls, CallMove(c), Shown(task')
  PROVE  \/ Shown(task)
         \/ call[c].pc \in {"cancelled", "reconcile"}
         \/ call[c].pc = "persist" /\ task'.cleanup = call[c].verdict.cleanup
<1>0. task \in Tasks
  BY DEF TypeOK
<1>1. CASE CancelMark(c) \/ CancelUncertain(c)
  <2>1. task' = Updated("cancelling", task) \/ task' = Updated("transport_lost", task)
    BY <1>1 DEF CancelMark, CancelUncertain, Update
  <2> QED BY <1>0, <2>1, ShownUpdate, PlainChanges
<1>2. CASE CancelClear(c)
  BY <1>0, <1>2 DEF CancelClear, ClearReservation, Shown, Tasks
<1>3. CASE Cancelled(c) \/ Reconcile(c)
  BY <1>3 DEF Cancelled, Reconcile, At
<1>4. CASE Persist(c)
  <2> DEFINE t == [task EXCEPT !.cleanup = call[c].verdict.cleanup,
                               !.attempted = call[c].verdict.attempted]
  <2>1. t \in Tasks /\ t.cleanup = call[c].verdict.cleanup
    BY <1>0 DEF Tasks, TypeOK
  <2>2. task' = Updated(KeepStatus, t) /\ call[c].pc = "persist"
    BY <1>4 DEF Persist, At
  <2>3. task' = task \/ task'.cleanup = t.cleanup
    BY <1>0, <2>1, <2>2, UpdatedType, StatusFacts
  <2> QED BY <2>1, <2>2, <2>3
<1>5. CASE Extend(c)
  <2> DEFINE t == [task EXCEPT !.deadline = call[c].deadline]
  <2>1. t \in Tasks /\ t.cleanup = task.cleanup
    BY <1>0 DEF Tasks, TypeOK
  <2> QED BY <1>0, <1>5, <2>1, ShownUpdate, PlainChanges DEF Extend
<1>6. UNCHANGED task \/ CancelMark(c) \/ CancelClear(c) \/ CancelUncertain(c) \/ Cancelled(c)
      \/ Reconcile(c) \/ Persist(c) \/ Extend(c)
  BY DEF CallMove, ExtendRead, CancelRead, PollRead, Read, CallStep, ReadRuntime, Cancel, CancelStop, CancelWait,
         CancelInspect, CancelLock, Poll, PollInspect, PollLock, Settle, SettleInspect,
         SettleStop, SettleStopWait, SettleProve, SettleLock, CallKeeps
<1> QED BY <1>1, <1>2, <1>3, <1>4, <1>5, <1>6

\* Who gives readers an outcome: a launch that failed, the last step of a cancel, a poll that found
\* no process, or a settlement.
LEMMA NextShown ==
  ASSUME TypeOK, [Next]_vars, Shown(task')
  PROVE  \/ Shown(task)
         \/ launch = "fail"
         \/ \E c \in Calls : call[c].pc \in {"cancelled", "reconcile"}
         \/ \E c \in Calls : call[c].pc = "persist" /\ task'.cleanup = call[c].verdict.cleanup
<1>1. CASE World
  BY <1>1 DEF World, UnitEmpties, ReservationExpires, TimePasses, SupervisorCrash, Shown, TypeOK, Tasks
<1>2. CASE UNCHANGED vars
  BY <1>2 DEF vars
<1>3. CASE \E c \in Calls : CallMove(c)
  BY <1>3, CallShown
<1> QED BY <1>1, <1>2, <1>3, LaunchShown, WorkerShown DEF Next, World, CallMove

\* A unit that is not up is not started by anybody but a launch whose task has no outcome.
LEMMA UnitFinal ==
  ASSUME [Next]_vars, unit # "up", launch # "unit"
  PROVE  unit' # "up"
  BY NextUnit

LEMMA RecordFinal ==
  ASSUME TypeOK, SettlementInv, FinalInv, LaunchUndisturbed, [Next]_vars, Shown(task')
  PROVE  unit' # "up" /\ launch' \notin {"check", "unit"}
<1>0. launch' \in {"check", "unit"} => launch \in {"check", "unit"}
  BY WorkerFrame, CallFrame
     DEF Next, CallMove, vars, UnitEmpties, ReservationExpires, TimePasses, SupervisorCrash, Launch,
     LaunchCheck, LaunchUnit, LaunchRecheck, LaunchRegister, LaunchClear, LaunchStop,
     LaunchStopWait, LaunchUncertain, LaunchCatch, LaunchFail, LaunchCatchLock, LaunchGoto
<1>1. CASE Shown(task)
  BY <1>0, <1>1, UnitFinal DEF FinalInv
<1>2. CASE launch = "fail"
  BY <1>0, <1>2, UnitFinal DEF FinalInv, GivenUp
<1>3. ASSUME NEW c \in Calls, call[c].pc \in {"cancelled", "reconcile"}
      PROVE  unit' # "up" /\ launch' \notin {"check", "unit"}
  BY <1>0, <1>3, UnitFinal DEF FinalInv, CallFinal, LaunchUndisturbed, At
<1>4. ASSUME NEW c \in Calls, call[c].pc = "persist", task'.cleanup = call[c].verdict.cleanup
      PROVE  unit' # "up" /\ launch' \notin {"check", "unit"}
  <2>1. unit = "down"
    BY <1>4 DEF SettlementInv, CallSound, Shown
  <2> QED BY <1>0, <1>4, <2>1, UnitFinal DEF LaunchUndisturbed, At
<1> QED BY <1>1, <1>2, <1>3, <1>4, NextShown

\* A launch that gives up has no unit, one that is done has told of its unit.
LEMMA LaunchFinal ==
  ASSUME Reliable, TypeOK, SettlementInv, FinalInv, LaunchUndisturbed', [Next]_vars
  PROVE  /\ launch' # "uncertain"
         /\ launch' \in GivenUp => unit' # "up"
         /\ launch' \in {"clear", "done"} /\ unit' = "up" => runtime'
<1>1. CASE Launch
  <2> USE <1>1 DEF LaunchGoto, GivenUp, FinalInv, SettlementInv
  <2>1. CASE LaunchCheck \/ LaunchUnit \/ LaunchRecheck \/ LaunchRegister
    BY <2>1 DEF LaunchCheck, LaunchUnit, LaunchRecheck, LaunchRegister
  <2>2. CASE LaunchClear
    BY <2>2 DEF LaunchClear
  <2>3. CASE LaunchStop \/ LaunchStopWait \/ LaunchUncertain
    BY <2>3 DEF LaunchStop, LaunchStopWait, LaunchUncertain
  <2>4. CASE LaunchCatch \/ LaunchFail \/ LaunchCatchLock
    BY <2>4 DEF LaunchCatch, LaunchFail, LaunchCatchLock
  <2> QED BY <2>1, <2>2, <2>3, <2>4 DEF Launch
<1>2. CASE ~Launch
  <2>1. launch' = launch \/ launch' = "dead"
    BY <1>2, WorkerFrame, CallFrame
       DEF Next, CallMove, vars, UnitEmpties, ReservationExpires, TimePasses, SupervisorCrash
  <2>2. launch' = launch
    BY <2>1 DEF LaunchUndisturbed
  <2>3. runtime => runtime'
    BY <1>2, WorkerFrame
       DEF Next, CallMove, vars, UnitEmpties, ReservationExpires, TimePasses, SupervisorCrash,
       ExtendRead, Extend, CancelRead, PollRead, Read, CallStep, ReadRuntime, Cancel, CancelMark, CancelClear,
       CancelStop, CancelWait, CancelInspect, CancelUncertain, CancelLock, Cancelled, Poll,
       PollInspect, Reconcile, PollLock, Settle, SettleInspect, SettleStop, SettleStopWait,
       SettleProve, SettleLock, Persist
  <2>4. unit' = "up" => unit = "up"
    BY <1>2, NextUnit DEF Launch
  <2> QED BY <2>2, <2>3, <2>4 DEF FinalInv
<1> QED BY <1>1, <1>2

\* A call comes to end a task only with a unit that is not up.
LEMMA CallMoveFinal ==
  ASSUME Reliable, TypeOK, FinalInv, LaunchUndisturbed, NEW c \in Calls, CallMove(c)
  PROVE  CallFinal(call[c])'
<1>0. /\ call \in [Calls -> CallTypes] /\ call[c] \in CallTypes /\ CallFinal(call[c])
      /\ unit' = unit /\ runtime \in BOOLEAN
  BY CallFrame DEF TypeOK, CallTypes, FinalInv
<1>1. SUFFICES CallFinal(call'[c])
  BY <1>0 DEF CallFinal
<1>2. "inactive_empty" \in Inspections => unit # "up"
  BY DEF Inspections
<1>3. call[c].pc # "idle" /\ ~runtime => unit # "up"
  BY DEF LaunchUndisturbed, FinalInv, At
<1>4. /\ Return(c) => call'[c].pc = "idle"
      /\ \A p : Goto(c, p) => call'[c].pc = p /\ call'[c].known = call[c].known
      /\ \A v : Decide(c, v) => call'[c].pc = "persist"
  <2>1. ASSUME NEW p, Goto(c, p) PROVE call'[c].pc = p /\ call'[c].known = call[c].known
    BY <1>0, <2>1 DEF Goto, CallTypes
  <2>2. ASSUME NEW v, Decide(c, v) PROVE call'[c].pc = "persist"
    BY <1>0, <2>2 DEF Decide, CallTypes
  <2> QED BY <1>0, <2>1, <2>2 DEF Return, Idle
<1>5. CASE CancelRead(c) \/ PollRead(c) \/ ExtendRead(c)
  <2>1. call'[c].pc \in {"cancel_runtime", "poll_runtime", "settle_runtime", "extend"}
    BY <1>0, <1>5 DEF CancelRead, PollRead, Read, ExtendRead, CallTypes
  <2> QED BY <2>1 DEF CallFinal
<1>6. CASE ReadRuntime(c)
  <2>1. ~Known(call[c].seen) => unit # "up"
    BY <1>3, <1>6 DEF ReadRuntime, Known
  <2>2. CASE At(c, "cancel_runtime")
    <3>1. call'[c].pc = "cancel_mark" /\ call'[c].known = Known(call[c].seen)
      BY <1>0, <1>6, <2>2 DEF ReadRuntime, At, CallTypes
    <3> QED BY <2>1, <3>1 DEF CallFinal
  <2>3. CASE At(c, "poll_runtime")
    <3>1. call'[c].pc = IF Known(call[c].seen) THEN "poll_inspect" ELSE "reconcile"
      BY <1>0, <1>6, <2>3 DEF ReadRuntime, At, CallTypes
    <3> QED BY <2>1, <3>1 DEF CallFinal
  <2>4. CASE At(c, "settle_runtime")
    <3>1. call'[c].pc \in {"settle", "idle"}
      BY <1>4, <1>6, <2>4 DEF ReadRuntime, At
    <3> QED BY <3>1 DEF CallFinal
  <2> QED BY <1>6, <2>2, <2>3, <2>4 DEF ReadRuntime, At
<1>7. CASE CancelMark(c)
  BY <1>0, <1>4, <1>7 DEF CancelMark, At, CallFinal
<1>8. CASE CancelClear(c)
  <2>1. call'[c].pc = IF call[c].known THEN "cancel_stop" ELSE "cancel_lock"
    BY <1>4, <1>8 DEF CancelClear
  <2>2. call[c].pc = "cancel_clear"
    BY <1>8 DEF CancelClear, At
  <2> QED BY <1>0, <2>1, <2>2 DEF CallFinal
<1>9. CASE CancelStop(c) \/ CancelWait(c) \/ CancelInspect(c)
  <2>1. \/ call'[c].pc \in {"cancel_wait", "cancel_inspect", "cancel_uncertain"}
        \/ call'[c].pc = "cancel_lock" /\ "inactive_empty" \in Inspections
    BY <1>4, <1>9 DEF CancelStop, CancelWait, CancelInspect, Inspections
  <2> QED BY <1>2, <2>1 DEF CallFinal
<1>10. CASE CancelLock(c)
  BY <1>0, <1>4, <1>10 DEF CancelLock, At, CallFinal
<1>11. CASE CancelUncertain(c) \/ Cancelled(c) \/ PollLock(c) \/ Persist(c) \/ Extend(c)
  <2>1. call'[c].pc = "idle"
    BY <1>4, <1>11 DEF CancelUncertain, Cancelled, PollLock, Persist, Extend
  <2> QED BY <2>1 DEF CallFinal
<1>12. CASE PollInspect(c)
  <2>1. call'[c].pc = "idle" \/ (call'[c].pc = "reconcile" /\ "inactive_empty" \in Inspections)
    BY <1>4, <1>12 DEF PollInspect
  <2> QED BY <1>2, <2>1 DEF CallFinal
<1>13. CASE Reconcile(c)
  <2>1. call'[c].pc = "poll_lock"
    BY <1>0, <1>13 DEF Reconcile, CallTypes
  <2> QED BY <2>1 DEF CallFinal
<1>14. CASE SettleInspect(c) \/ SettleStop(c) \/ SettleStopWait(c) \/ SettleProve(c) \/ SettleLock(c)
  <2>1. call'[c].pc \in SettlePCs
    BY <1>4, <1>14 DEF SettleInspect, SettleStop, SettleStopWait, SettleProve, SettleLock, SettlePCs
  <2> QED BY <2>1 DEF CallFinal, SettlePCs
<1> QED BY <1>5, <1>6, <1>7, <1>8, <1>9, <1>10, <1>11, <1>12, <1>13, <1>14
        DEF CallMove, CallStep, Cancel, Poll, Settle

LEMMA CallsFinal ==
  ASSUME Reliable, TypeOK, FinalInv, LaunchUndisturbed, [Next]_vars
  PROVE  \A d \in Calls : CallFinal(call[d])'
<1>1. CASE \E c \in Calls : CallMove(c)
  <2>1. PICK c \in Calls : CallMove(c)
    BY <1>1
  <2>2. PICK s \in CallTypes : call' = [call EXCEPT ![c] = s]
    BY <2>1, CallCallType
  <2>3. ASSUME NEW d \in Calls, d # c PROVE CallFinal(call[d])'
    <3>1. call'[d] = call[d] /\ unit' = unit
      BY <2>1, <2>2, <2>3, CallFrame DEF TypeOK
    <3> QED BY <3>1 DEF FinalInv, CallFinal
  <2>4. CallFinal(call[c])'
    BY <2>1, CallMoveFinal
  <2> QED BY <2>3, <2>4
<1>2. CASE ~(\E c \in Calls : CallMove(c))
  <2>1. call' = call \/ call' = [c \in Calls |-> Idle]
    BY <1>2, WorkerFrame
       DEF Next, CallMove, vars, UnitEmpties, ReservationExpires, TimePasses, SupervisorCrash, Launch,
       LaunchCheck, LaunchUnit, LaunchRecheck, LaunchRegister, LaunchClear, LaunchStop,
       LaunchStopWait, LaunchUncertain, LaunchCatch, LaunchFail, LaunchCatchLock, LaunchGoto
  <2>2. CASE call' = call
    <3>1. ASSUME NEW d \in Calls, call[d].pc # "idle" PROVE unit # "up" => unit' # "up"
      BY <3>1, UnitFinal DEF LaunchUndisturbed, At
    <3> QED BY <2>2, <3>1 DEF FinalInv, CallFinal
  <2>3. CASE call' = [c \in Calls |-> Idle]
    BY <2>3 DEF CallFinal, Idle
  <2> QED BY <2>1, <2>2, <2>3
<1> QED BY <1>1, <1>2

LEMMA NextFinal ==
  ASSUME Reliable, TypeOK, SettlementInv, FinalInv, LaunchUndisturbed, LaunchUndisturbed', [Next]_vars
  PROVE  FinalInv'
<1>1. Shown(task)' => unit' # "up" /\ launch' \notin {"check", "unit"}
  BY RecordFinal DEF Shown
<1> QED BY <1>1, LaunchFinal, CallsFinal DEF FinalInv

\* As long as inspections and stops work, no call falls into the launch and the supervisor does not
\* die in it, a reader whom the projection of supervisor.mjs tells any final status can rely on the
\* unit being gone: a failed launch has taken its unit down, and a cancel or a poll ends a task only
\* past an inspection that found it empty.
THEOREM LifecycleFinal ==
  ASSUME Reliable PROVE Spec /\ []LaunchUndisturbed => []FinalMeansStopped
<1>1. TypeOK /\ SettlementInv /\ FinalInv /\ LaunchUndisturbed /\ LaunchUndisturbed' /\ [Next]_vars => FinalInv'
  BY NextFinal
<1>2. FinalInv => FinalMeansStopped
  BY ShownIsPublic DEF FinalInv, FinalMeansStopped
<1> QED BY <1>1, <1>2, InitFinal, LifecycleSettlement, PTL DEF Spec

\* A server whose calls wait for the launch and that does not die leaves it undisturbed.
LEMMA Undisturbed == ASSUME ~MayCrash, ~EarlyCalls PROVE Spec => []LaunchUndisturbed
<1>1. Init => LaunchUndisturbed
  BY DEF Init, LaunchUndisturbed, At, Idle
<1>2. TypeOK /\ LaunchUndisturbed /\ [Next]_vars => LaunchUndisturbed'
  <2> SUFFICES ASSUME TypeOK, LaunchUndisturbed, [Next]_vars PROVE LaunchUndisturbed'
    OBVIOUS
  <2>1. CASE \E c \in Calls : CallMove(c)
    <3>1. PICK c \in Calls : CallMove(c)
      BY <2>1
    <3>2. launch = "done"
      BY <3>1 DEF LaunchUndisturbed, CallMove, CancelRead, PollRead, Read, ExtendRead, Starts, CallStep, At,
         ReadRuntime, Cancel, CancelMark, CancelClear, CancelStop, CancelWait, CancelInspect,
         CancelUncertain, CancelLock, Cancelled, Poll, PollInspect, Reconcile, PollLock, Settle,
         SettleInspect, SettleStop, SettleStopWait, SettleProve, SettleLock, Persist, Extend
    <3> QED BY <3>1, <3>2, CallFrame DEF LaunchUndisturbed
  <2>2. CASE ~(\E c \in Calls : CallMove(c))
    <3>1. call' = call /\ launch' # "dead" /\ (launch = "done" => launch' = "done")
      BY <2>2, WorkerFrame
         DEF Next, CallMove, vars, UnitEmpties, ReservationExpires, TimePasses, SupervisorCrash, Launch,
         LaunchCheck, LaunchUnit, LaunchRecheck, LaunchRegister, LaunchClear, LaunchStop,
         LaunchStopWait, LaunchUncertain, LaunchCatch, LaunchFail, LaunchCatchLock, LaunchGoto,
         LaunchUndisturbed
    <3> QED BY <3>1 DEF LaunchUndisturbed, At
  <2> QED BY <2>1, <2>2
<1> QED BY <1>1, <1>2, LifecycleType, PTL DEF Spec

\* A server that does not die, and whose cancelTask and taskStatus come when submitTask has returned,
\* tells readers a final status only of a task whose unit is gone.
THEOREM LifecycleFinalAfterLaunch ==
  ASSUME Reliable, ~MayCrash, ~EarlyCalls PROVE Spec => []FinalMeansStopped
<1> QED BY LifecycleFinal, Undisturbed, PTL
=============================================================================
