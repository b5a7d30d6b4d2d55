--------------------------- MODULE TaskLifecycle ---------------------------
(***************************************************************************)
(* The life of one local task: launchWorker and submitTask start its       *)
(* worker inside a systemd unit, the worker (acp-worker.mjs) runs the      *)
(* provider turn and stores the outcome, and any number of cancel and      *)
(* status calls (supervisor.mjs) reconcile, stop and settle it.            *)
(*                                                                         *)
(* They share the task record, the runtime record and the unit.  Every     *)
(* await of the code is a point where the others may run: a call works     *)
(* with the record it has read and writes later.  One updateTask is one    *)
(* step (UpdateLock shows when that is so).                                *)
(***************************************************************************)
EXTENDS TaskStatus, Naturals

CONSTANTS
  Calls,           \* cancel and status calls that may be in progress at once
  Reliable,        \* inspections, stops, snapshots and lock tools always work
  MayCrash,        \* may the supervisor process die (once)?
  EarlyCalls,      \* may calls, and the reservation's end, fall into the launch?
  MaxTime          \* bound on the clock and on deadlines

ASSUME LifecycleAssumption ==
  /\ Reliable \in BOOLEAN
  /\ MayCrash \in BOOLEAN
  /\ EarlyCalls \in BOOLEAN
  /\ MaxTime \in Nat \ {0}

VARIABLES
  task,        \* the task record
  runtime,     \* runtime.json names the unit
  unit,        \* the systemd unit of the worker
  signalled,   \* the unit was told to stop: TERM reached worker and provider
  lock,        \* the writer lock of the managed worktree
  launch,      \* where submitTask and launchWorker are
  worker,      \* where the worker is, the outcome it is about to store, its deadline watch
  call,        \* where each cancel or status call is, and what it has read
  now,         \* the clock: deadline_at is a point in time
  crashed,     \* the supervisor process died
  prompts      \* history: how often the prompt was handed to a provider

vars == <<task, runtime, unit, signalled, lock, launch, worker, call, now, crashed, prompts>>

------------------------------------------------------------------------------
(* The task record *)

Final == {"normal", "recovered"}        \* CLEANUP_FINAL
Cleanups == Final \cup {"none", "pending", "unknown", "failed"}

Tasks == [status : Statuses, reservation : {"none", "active", "expired"},
          cleanup : Cleanups, attempted : BOOLEAN, intent : BOOLEAN,
          dispatched : BOOLEAN, recovery : BOOLEAN, deadline : Nat]

\* updateTask: t is the stored record with the other fields of the change in it.
Updated(requested, t) ==
  IF Accepts(task.status, requested)
  THEN [t EXCEPT !.status = NextStatus(task.status, requested)]
  ELSE task

Update(requested) == task' = Updated(requested, task)
ClearReservation == task' = [task EXCEPT !.reservation = "none"]

\* Variant for mutation: readers are told the stored status.
PublicStored(t) == t.status

\* projectSupervisorTerminalReceipt: what a reader of the record is told.
Public(t) ==
  IF t.status \in Terminal /\ t.cleanup \notin Final \cup {"none"}
  THEN "transport_lost" ELSE t.status

\* taskRuntime: the runtime record or the recovery copy in the task record.
Known(t) == runtime \/ t.recovery

------------------------------------------------------------------------------
(* The unit *)

\* Variant for mutation: an inspection that failed counts as an empty unit.
InspectionsOptimistic == {IF unit = "up" THEN "active" ELSE "inactive_empty"}
               \cup (IF Reliable THEN {} ELSE {"inactive_empty"})

\* What inspectExactProcessBoundary may answer.
Inspections == {IF unit = "up" THEN "active" ELSE "inactive_empty"}
               \cup (IF Reliable THEN {} ELSE {"unknown"})

\* cleanupManagedWorkspace: the lock goes when WTB calls its owner abandoned, and
\* nothing is assumed of what WTB says.
CleanAbandonedLock == lock' \in {lock, "free"}

\* startDeadlineWatch: the deadline the timer was last set to, the deadlines that arm
\* has read and not yet set the timer to, and whether onTimeout was called.
NoWatch == [timer |-> 0, reads |-> {}, fired |-> FALSE]
WorkerEnds(pc, outcome) == worker' = [pc |-> pc, outcome |-> outcome, watch |-> NoWatch]
WorkerGone == worker' = [worker EXCEPT !.pc = "gone", !.watch = NoWatch]

\* systemd ends the unit after its main process went or after a stop: its
\* wrapper may or may not get to release the lock.
UnitEmpties ==
  /\ unit = "up"
  /\ worker.pc = "gone" \/ signalled
  /\ unit' = "down"
  /\ WorkerGone
  /\ lock' \in {lock, "free"}
  /\ UNCHANGED <<task, runtime, signalled, launch, call, now, crashed, prompts>>

ReservationExpires ==
  /\ task.reservation = "active"
  /\ EarlyCalls \/ launch \in {"done", "dead"}
  /\ task' = [task EXCEPT !.reservation = "expired"]
  /\ UNCHANGED <<runtime, unit, signalled, lock, launch, worker, call, now, crashed, prompts>>

TimePasses ==
  /\ now < MaxTime
  /\ now' = now + 1
  /\ UNCHANGED <<task, runtime, unit, signalled, lock, launch, worker, call, crashed, prompts>>

------------------------------------------------------------------------------
(* submitTask and launchWorker, from the created record on *)

LaunchGoto(pc) ==
  /\ launch' = pc
  /\ UNCHANGED <<worker, call, now, crashed, prompts>>

\* An expired reservation is renewed by reserveTaskLaunch.
LaunchCheck ==
  /\ launch = "check"
  /\ IF task.status = "accepted"
     THEN /\ task' = [task EXCEPT !.reservation = "active"]
          /\ LaunchGoto("unit")
     ELSE /\ UNCHANGED task
          /\ LaunchGoto("catch")
  /\ UNCHANGED <<runtime, unit, signalled, lock>>

\* launchProcessBoundary: the unit runs, or an unverified one was taken down.
LaunchUnit ==
  /\ launch = "unit"
  /\ \/ unit' = "up" /\ lock' = "held" /\ LaunchGoto("recheck")
     \/ UNCHANGED <<unit, lock>> /\ LaunchGoto("catch")
  /\ UNCHANGED <<task, runtime, signalled>>

LaunchRecheck ==
  /\ launch = "recheck"
  /\ LaunchGoto(IF task.status = "accepted" /\ task.reservation # "none"
                THEN "register" ELSE "stop")
  /\ UNCHANGED <<task, runtime, unit, signalled, lock>>

\* writeRuntime, then the spawned event: either may fail.
LaunchRegister ==
  /\ launch = "register"
  /\ \/ runtime' = TRUE /\ LaunchGoto("clear")
     \/ runtime' \in {runtime, TRUE} /\ LaunchGoto("stop")
  /\ UNCHANGED <<task, unit, signalled, lock>>

LaunchClear ==
  /\ launch \in {"clear", "stop_clear", "catch_clear"}
  /\ ClearReservation
  /\ LaunchGoto(CASE launch = "clear" -> "done"
                  [] launch = "stop_clear" -> "catch"
                  [] launch = "catch_clear" -> "catch_lock")
  /\ UNCHANGED <<runtime, unit, signalled, lock>>

\* stopProcessBoundary of the handle: TERM, then KILL.  It signals nothing
\* when it cannot see the unit or its members exactly.
LaunchStop ==
  /\ launch = "stop"
  /\ \/ signalled' = TRUE /\ LaunchGoto("stop_wait")
     \/ ~Reliable /\ UNCHANGED signalled /\ LaunchGoto("uncertain")
  /\ UNCHANGED <<task, runtime, unit, lock>>

LaunchStopWait ==
  /\ launch = "stop_wait"
  /\ \/ unit = "down" /\ LaunchGoto("stop_clear")
     \/ ~Reliable /\ LaunchGoto("uncertain")
  /\ UNCHANGED <<task, runtime, unit, signalled, lock>>

LaunchUncertain ==
  /\ launch = "uncertain"
  /\ task' = Updated("transport_lost", [task EXCEPT !.recovery = TRUE])
  /\ LaunchGoto("stop_clear")
  /\ UNCHANGED <<runtime, unit, signalled, lock>>

\* The catch of submitTask reads the record and decides.
LaunchCatch ==
  /\ launch = "catch"
  /\ LaunchGoto(IF task.status \in {"transport_lost", "cancelling"}
                THEN "catch_clear" ELSE "fail")
  /\ UNCHANGED <<task, runtime, unit, signalled, lock>>

LaunchFail ==
  /\ launch = "fail"
  /\ Update("failed")
  /\ LaunchGoto("catch_clear")
  /\ UNCHANGED <<runtime, unit, signalled, lock>>

LaunchCatchLock ==
  /\ launch = "catch_lock"
  /\ CleanAbandonedLock
  /\ LaunchGoto("done")
  /\ UNCHANGED <<task, runtime, unit, signalled>>

Launch ==
  \/ LaunchCheck \/ LaunchUnit \/ LaunchRecheck \/ LaunchRegister \/ LaunchClear
  \/ LaunchStop \/ LaunchStopWait \/ LaunchUncertain
  \/ LaunchCatch \/ LaunchFail \/ LaunchCatchLock

------------------------------------------------------------------------------
(* The worker *)

WorkerAt(pc) == unit = "up" /\ worker.pc = pc

WorkerGoto(pc) == worker' = [worker EXCEPT !.pc = pc]

TimedOut == worker.watch.fired

\* The catch of the agent's turn decides on the status while the watch still runs.
WorkerThrows == WorkerGoto("acp_failed")
WorkerGivesUp ==
  WorkerEnds("persist_error", IF TimedOut THEN "timeout" ELSE IF signalled THEN "cancelled" ELSE "failed")

WorkerKeeps == UNCHANGED <<runtime, unit, signalled, lock, launch, call, now, crashed>>

\* awaitSupervisorRegistration: the record still accepted, then runtime.json.
WorkerRegister ==
  /\ WorkerAt("register")
  /\ \/ task.status = "accepted" /\ runtime /\ ~signalled /\ WorkerGoto("check")
     \/ /\ task.status # "accepted" \/ signalled \/ ~runtime
        /\ WorkerGone
  /\ UNCHANGED <<task, prompts>> /\ WorkerKeeps

\* The first read of runAcpTask.
WorkerCheck ==
  /\ WorkerAt("check")
  /\ IF task.status = "accepted" THEN WorkerGoto("start") ELSE WorkerGone
  /\ UNCHANGED <<task, prompts>> /\ WorkerKeeps

\* The result of these two updates is not looked at: they may be refused.
WorkerStart ==
  /\ WorkerAt("start")
  /\ Update("starting")
  /\ WorkerGoto("session")
  /\ UNCHANGED prompts /\ WorkerKeeps

WorkerRunning ==
  /\ WorkerAt("running")
  /\ Update("running")
  /\ WorkerGoto("intend")
  /\ UNCHANGED prompts /\ WorkerKeeps

\* runtime.ensureSession
WorkerSession ==
  /\ WorkerAt("session")
  /\ \/ WorkerGoto("running")
     \/ WorkerThrows
  /\ UNCHANGED <<task, prompts>> /\ WorkerKeeps

WorkerIntend ==
  /\ WorkerAt("intend")
  /\ task' = Updated(KeepStatus, [task EXCEPT !.intent = TRUE])
  /\ WorkerGoto("prompt")
  /\ UNCHANGED prompts /\ WorkerKeeps

\* runtime.startTurn: it may fail after the provider got the prompt.
WorkerPrompt ==
  /\ WorkerAt("prompt")
  /\ \/ prompts' = prompts + 1 /\ WorkerGoto("mark")
     \/ prompts' \in {prompts, prompts + 1} /\ WorkerThrows
  /\ UNCHANGED task /\ WorkerKeeps

WorkerMark ==
  /\ WorkerAt("mark")
  /\ task' = Updated(KeepStatus, [task EXCEPT !.dispatched = TRUE])
  /\ WorkerGoto("turn")
  /\ UNCHANGED prompts /\ WorkerKeeps

\* The turn ends, by itself or because the deadline watch or TERM aborts it.
WorkerTurn ==
  /\ WorkerAt("turn")
  /\ \/ ~signalled /\ ~TimedOut /\ \E o \in {"completed", "failed"} : WorkerEnds("persist", o)
     \/ WorkerThrows
  /\ UNCHANGED <<task, prompts>> /\ WorkerKeeps

\* Variant for mutation: only a recorded dispatch forbids the fallback.
FallbackUnlessDispatched(t) == ~t.dispatched

\* fallbackStartAllowed
FallbackAllowed(t) ==
  t.status \in {"accepted", "starting"} /\ ~t.dispatched /\ ~t.intent

\* fallbackToCliIfSafe, its read: no fallback after an authentication failure.
WorkerAcpFailed ==
  /\ WorkerAt("acp_failed")
  /\ \/ FallbackAllowed(task) /\ WorkerGoto("fallback")
     \/ WorkerGivesUp
  /\ UNCHANGED <<task, prompts>> /\ WorkerKeeps

\* Its update decides again under the lock of the store.
WorkerFallback ==
  /\ WorkerAt("fallback")
  /\ IF FallbackAllowed(task)
     THEN /\ Update("starting")
          /\ WorkerEnds("spawn", "failed")
     ELSE /\ UNCHANGED task
          /\ WorkerGivesUp
  /\ UNCHANGED prompts /\ WorkerKeeps

\* runCliFallback: the prompt goes to the CLI with the spawn.  The spawn may fail, or the
\* prompt file before it.
WorkerSpawn ==
  /\ WorkerAt("spawn")
  /\ \/ /\ ~signalled /\ FallbackAllowed(task)
        /\ prompts' = prompts + 1
        /\ WorkerGoto("cli")
     \/ /\ UNCHANGED prompts
        /\ WorkerEnds("persist_error",
             IF signalled \/ task.status \in {"cancelling", "cancelled"}
             THEN "cancelled" ELSE "failed")
  /\ UNCHANGED task /\ WorkerKeeps

WorkerCli ==
  /\ WorkerAt("cli")
  /\ IF signalled
     THEN UNCHANGED task /\ WorkerEnds("persist_error", "cancelled")
     ELSE /\ task' = Updated("running", [task EXCEPT !.dispatched = TRUE])
          /\ WorkerGoto("cli_turn")
  /\ UNCHANGED prompts /\ WorkerKeeps

WorkerCliTurn ==
  /\ WorkerAt("cli_turn")
  /\ \/ ~signalled /\ ~TimedOut /\ WorkerEnds("persist", "completed")
     \/ WorkerEnds("persist_error",
          IF signalled THEN "cancelled" ELSE IF TimedOut THEN "timeout" ELSE "failed")
  /\ UNCHANGED <<task, prompts>> /\ WorkerKeeps

\* persistWorkerTerminal: outcome and pending cleanup, or nothing at all.
WorkerPersist ==
  /\ worker.pc \in {"persist", "persist_error"} /\ WorkerAt(worker.pc)
  /\ task' = Updated(worker.outcome,
                     [task EXCEPT !.cleanup = "pending", !.attempted = FALSE])
  /\ WorkerEnds(IF worker.pc = "persist" THEN "handoff" ELSE "handoff_error", "failed")
  /\ UNCHANGED prompts /\ WorkerKeeps

\* finish: the handoff of a writer composes the cleanup record anew.  After an
\* error it is only tried when the outcome was stored.
WorkerHandoff ==
  /\ worker.pc \in {"handoff", "handoff_error"} /\ WorkerAt(worker.pc)
  /\ \/ /\ worker.pc = "handoff" \/ task.cleanup = "pending"
        /\ task' = Updated(KeepStatus,
                           [task EXCEPT !.cleanup = "pending", !.attempted = FALSE])
     \/ UNCHANGED task
  /\ WorkerGone
  /\ UNCHANGED prompts /\ WorkerKeeps

WorkerCrash ==
  /\ unit = "up" /\ worker.pc # "gone"
  /\ WorkerGone
  /\ UNCHANGED <<task, prompts>> /\ WorkerKeeps

Watching ==
  /\ unit = "up"
  /\ worker.pc \in {"start", "session", "running", "intend", "prompt", "mark", "turn",
                    "acp_failed", "cli_turn"}

\* arm reads the record after a change in the task's directory; a read of the deadline
\* that the timer is set to changes nothing.
WatchRead ==
  /\ Watching
  /\ task.deadline # worker.watch.timer
  /\ task.deadline \notin worker.watch.reads
  /\ worker' = [worker EXCEPT !.watch.reads = @ \cup {task.deadline}]
  /\ UNCHANGED <<task, prompts>> /\ WorkerKeeps

\* arm, once it has read the deadline d: it sets the timer anew, or calls onTimeout.
Arms(d, fires) ==
  worker' = [worker EXCEPT !.watch = [timer |-> d, reads |-> worker.watch.reads \ {d},
                                      fired |-> worker.watch.fired \/ fires]]

\* Variant for mutation: a deadline that has passed clears the timer and that is all.
WatchSetForgetting ==
  /\ Watching
  /\ \E d \in worker.watch.reads : Arms(IF now >= d THEN 0 ELSE d, FALSE)
  /\ UNCHANGED <<task, prompts>> /\ WorkerKeeps

\* The reads may come in another order than they were asked for.
WatchSet ==
  /\ Watching
  /\ \E d \in worker.watch.reads : Arms(d, now >= d)
  /\ UNCHANGED <<task, prompts>> /\ WorkerKeeps

WatchFires ==
  /\ Watching
  /\ ~worker.watch.fired
  /\ worker.watch.timer # 0 /\ now >= worker.watch.timer
  /\ worker' = [worker EXCEPT !.watch.fired = TRUE]
  /\ UNCHANGED <<task, prompts>> /\ WorkerKeeps

Watch == WatchRead \/ WatchSet \/ WatchFires

WorkerStep ==
  \/ WorkerRegister \/ WorkerCheck \/ WorkerStart \/ WorkerSession \/ WorkerRunning
  \/ WorkerIntend \/ WorkerPrompt \/ WorkerMark \/ WorkerTurn
  \/ WorkerAcpFailed \/ WorkerFallback \/ WorkerSpawn \/ WorkerCli \/ WorkerCliTurn
  \/ WorkerPersist \/ WorkerHandoff

------------------------------------------------------------------------------
(* Calls of cancelTask and taskStatus *)

\* A call keeps what it uses later of the record it has read, whether it knows
\* a unit, and the cleanup record it is about to store.
Seen(t) == [settled |-> t.cleanup \in Final, attempted |-> t.attempted, recovery |-> t.recovery]
Nothing == [settled |-> FALSE, attempted |-> FALSE, recovery |-> FALSE]
NoVerdict == [cleanup |-> "none", attempted |-> FALSE]
Verdict(cleanup, attempted) == [cleanup |-> cleanup, attempted |-> attempted]

CallKeeps == UNCHANGED <<launch, worker, now, crashed, prompts>>

Goto(c, pc) == call' = [call EXCEPT ![c].pc = pc]
Decide(c, v) ==
  call' = [call EXCEPT ![c].pc = "persist", ![c].seen = Nothing, ![c].verdict = v]

Idle == [pc |-> "idle", seen |-> Nothing, known |-> FALSE, verdict |-> NoVerdict, deadline |-> 0]
Return(c) == call' = [call EXCEPT ![c] = Idle]

At(c, pc) == call[c].pc = pc

\* A call may begin.
Starts(c) == At(c, "idle") /\ (EarlyCalls \/ launch \in {"done", "dead"})

\* Cancel and status calls begin by reading the record.
Read(c, pc) ==
  /\ Starts(c)
  /\ call' = [call EXCEPT ![c].pc = pc, ![c].seen = Seen(task),
                          ![c].deadline = IF pc = "poll_runtime" THEN task.deadline ELSE 0]
  /\ CallKeeps /\ UNCHANGED <<task, runtime, unit, signalled, lock>>

CancelRead(c) == Read(c, IF task.status \in Active THEN "cancel_runtime" ELSE "settle_runtime")

\* reconcileInactiveTask leaves a task alone while its launch is reserved.
PollRead(c) ==
  /\ task.status \in Active => task.reservation # "active"
  /\ Read(c, IF task.status \in Active THEN "poll_runtime" ELSE "settle_runtime")

ReadRuntime(c) ==
  /\ call[c].pc \in {"cancel_runtime", "poll_runtime", "settle_runtime"}
  /\ LET known == Known(call[c].seen)
     IN  \/ /\ At(c, "cancel_runtime")
            /\ call' = [call EXCEPT ![c].pc = "cancel_mark", ![c].seen = Nothing,
                                    ![c].known = known]
         \/ /\ At(c, "poll_runtime")
            /\ call' = [call EXCEPT ![c].pc = IF known THEN "poll_inspect" ELSE "reconcile",
                                    ![c].seen = Nothing, ![c].known = known]
         \/ /\ At(c, "settle_runtime")
            /\ IF known /\ ~call[c].seen.settled
               THEN Goto(c, "settle") ELSE Return(c)
  /\ CallKeeps /\ UNCHANGED <<task, runtime, unit, signalled, lock>>

(* cancelTask of an active task *)

CancelMark(c) ==
  /\ At(c, "cancel_mark")
  /\ Update("cancelling")
  /\ Goto(c, "cancel_clear")
  /\ CallKeeps /\ UNCHANGED <<runtime, unit, signalled, lock>>

\* Variant for mutation: the cancel forgets the unit it has read about.
CancelClearForgetting(c) ==
  /\ At(c, "cancel_clear")
  /\ ClearReservation
  /\ call' = [call EXCEPT ![c].pc = "cancel_lock", ![c].known = FALSE]
  /\ CallKeeps /\ UNCHANGED <<runtime, unit, signalled, lock>>

CancelClear(c) ==
  /\ At(c, "cancel_clear")
  /\ ClearReservation
  /\ Goto(c, IF call[c].known THEN "cancel_stop" ELSE "cancel_lock")
  /\ CallKeeps /\ UNCHANGED <<runtime, unit, signalled, lock>>

\* stopExactProcessBoundary is refused when its own inspection fails.
CancelStop(c) ==
  /\ At(c, "cancel_stop")
  /\ \E i \in Inspections :
       /\ signalled' = (signalled \/ i = "active")
       /\ Goto(c, CASE i = "active" -> "cancel_wait"
                    [] i = "inactive_empty" -> "cancel_inspect"
                    [] i = "unknown" -> "cancel_uncertain")
  /\ CallKeeps /\ UNCHANGED <<task, runtime, unit, lock>>

CancelWait(c) ==
  /\ At(c, "cancel_wait")
  /\ \/ unit = "down" /\ Goto(c, "cancel_inspect")
     \/ ~Reliable /\ Goto(c, "cancel_uncertain")
  /\ CallKeeps /\ UNCHANGED <<task, runtime, unit, signalled, lock>>

CancelInspect(c) ==
  /\ At(c, "cancel_inspect")
  /\ \E i \in Inspections :
       Goto(c, IF i = "inactive_empty" THEN "cancel_lock" ELSE "cancel_uncertain")
  /\ CallKeeps /\ UNCHANGED <<task, runtime, unit, signalled, lock>>

CancelUncertain(c) ==
  /\ At(c, "cancel_uncertain")
  /\ Update("transport_lost")
  /\ Return(c)
  /\ CallKeeps /\ UNCHANGED <<runtime, unit, signalled, lock>>

CancelLock(c) ==
  /\ At(c, "cancel_lock")
  /\ CleanAbandonedLock
  /\ Goto(c, "cancelled")
  /\ CallKeeps /\ UNCHANGED <<task, runtime, unit, signalled>>

Cancelled(c) ==
  /\ At(c, "cancelled")
  /\ Update("cancelled")
  /\ Return(c)
  /\ CallKeeps /\ UNCHANGED <<runtime, unit, signalled, lock>>

Cancel(c) ==
  \/ CancelMark(c) \/ CancelClear(c) \/ CancelStop(c) \/ CancelWait(c)
  \/ CancelInspect(c) \/ CancelUncertain(c) \/ CancelLock(c) \/ Cancelled(c)

(* reconcileInactiveTask of an active task *)

PollInspect(c) ==
  /\ At(c, "poll_inspect")
  /\ \E i \in Inspections :
       IF i = "inactive_empty" THEN Goto(c, "reconcile") ELSE Return(c)
  /\ CallKeeps /\ UNCHANGED <<task, runtime, unit, signalled, lock>>

\* Whether the deadline is reached goes by the record this call began with.
Reconcile(c) ==
  /\ At(c, "reconcile")
  /\ task' = Updated(IF now >= call[c].deadline THEN "timeout" ELSE "transport_lost",
                     [task EXCEPT !.reservation = "none"])
  /\ call' = [call EXCEPT ![c].pc = "poll_lock", ![c].deadline = 0]
  /\ CallKeeps /\ UNCHANGED <<runtime, unit, signalled, lock>>

PollLock(c) ==
  /\ At(c, "poll_lock")
  /\ CleanAbandonedLock
  /\ Return(c)
  /\ CallKeeps /\ UNCHANGED <<task, runtime, unit, signalled>>

Poll(c) == PollInspect(c) \/ Reconcile(c) \/ PollLock(c)

(* settleLocalTaskLifecycle of a terminal task whose unit is known *)

\* Variant for mutation: settlement only ever waits.
SettleInspectPatient(c) ==
  /\ At(c, "settle")
  /\ \E i \in Inspections :
       IF i = "inactive_empty" THEN Goto(c, "lock") ELSE Decide(c, Verdict("pending", FALSE))
  /\ CallKeeps /\ UNCHANGED <<task, runtime, unit, signalled, lock>>

\* One forced stop is tried, and only after both snapshots succeeded.
SettleInspect(c) ==
  /\ At(c, "settle")
  /\ LET attempted == call[c].seen.attempted
     IN  \E i \in Inspections :
           \/ i = "inactive_empty" /\ Goto(c, "lock")
           \/ i = "unknown" /\ Decide(c, Verdict("unknown", attempted))
           \/ i = "active" /\ attempted /\ Decide(c, Verdict("pending", TRUE))
           \/ i = "active" /\ ~attempted /\ Goto(c, "stop")
           \/ i = "active" /\ ~attempted /\ ~Reliable /\ Decide(c, Verdict("unknown", FALSE))
  /\ CallKeeps /\ UNCHANGED <<task, runtime, unit, signalled, lock>>

SettleStop(c) ==
  /\ At(c, "stop")
  /\ \E i \in Inspections :
       /\ signalled' = (signalled \/ i = "active")
       /\ \/ i = "active" /\ Goto(c, "stop_wait")
          \/ i = "inactive_empty" /\ Goto(c, "prove")
          \/ i = "unknown" /\ Decide(c, Verdict("failed", TRUE))
  /\ CallKeeps /\ UNCHANGED <<task, runtime, unit, lock>>

SettleStopWait(c) ==
  /\ At(c, "stop_wait")
  /\ \/ unit = "down" /\ Goto(c, "prove")
     \/ ~Reliable /\ Decide(c, Verdict("failed", TRUE))
  /\ CallKeeps /\ UNCHANGED <<task, runtime, unit, signalled, lock>>

\* The second inspection, and the Git and unit snapshots taken again.
SettleProve(c) ==
  /\ At(c, "prove")
  /\ \E i \in Inspections :
       \/ i = "inactive_empty" /\ Goto(c, "lock_recovered")
       \/ i = "inactive_empty" /\ ~Reliable /\ Decide(c, Verdict("failed", TRUE))
       \/ i # "inactive_empty" /\ Decide(c, Verdict("unknown", TRUE))
  /\ CallKeeps /\ UNCHANGED <<task, runtime, unit, signalled, lock>>

\* inspectManagedLockState and cleanManagedLockAfterBoundary.
SettleLock(c) ==
  /\ call[c].pc \in {"lock", "lock_recovered"}
  /\ LET recovered == At(c, "lock_recovered")
         attempted == recovered \/ call[c].seen.attempted
     IN  \/ /\ lock' = "free"
            /\ Decide(c, Verdict(IF recovered THEN "recovered" ELSE "normal", attempted))
         \/ /\ ~Reliable
            /\ UNCHANGED lock
            /\ Decide(c, Verdict("unknown", attempted))
  /\ CallKeeps /\ UNCHANGED <<task, runtime, unit, signalled>>

\* persistLifecycleEvidence replaces the cleanup whatever it is by now, and
\* writes the runtime record again.
Persist(c) ==
  /\ At(c, "persist")
  /\ task' = Updated(KeepStatus, [task EXCEPT !.cleanup = call[c].verdict.cleanup,
                                              !.attempted = call[c].verdict.attempted])
  /\ runtime' \in {runtime, TRUE}
  /\ Return(c)
  /\ CallKeeps /\ UNCHANGED <<unit, signalled, lock>>

Settle(c) ==
  \/ SettleInspect(c) \/ SettleStop(c) \/ SettleStopWait(c) \/ SettleProve(c)
  \/ SettleLock(c) \/ Persist(c)

(* extendTaskDeadline, before the status call that inspectTask goes on with *)

\* nextDeadlineExtension: a later deadline, of a task that has neither ended nor expired.
ExtendRead(c) ==
  /\ Starts(c)
  /\ task.status \notin Terminal
  /\ now < task.deadline
  /\ \E d \in (task.deadline + 1)..MaxTime :
       call' = [call EXCEPT ![c].pc = "extend", ![c].deadline = d]
  /\ CallKeeps /\ UNCHANGED <<task, runtime, unit, signalled, lock>>

\* updateTask takes it whatever the record is by now.
Extend(c) ==
  /\ At(c, "extend")
  /\ task' = Updated(KeepStatus, [task EXCEPT !.deadline = call[c].deadline])
  /\ Return(c)
  /\ CallKeeps /\ UNCHANGED <<runtime, unit, signalled, lock>>

CallStep(c) == ReadRuntime(c) \/ Cancel(c) \/ Poll(c) \/ Settle(c) \/ Extend(c)

------------------------------------------------------------------------------
\* The supervisor dies with its calls and its launch; a new one takes calls.
SupervisorCrash ==
  /\ MayCrash /\ ~crashed
  /\ crashed' = TRUE
  /\ launch' = IF launch = "done" THEN "done" ELSE "dead"
  /\ call' = [c \in Calls |-> Idle]
  /\ UNCHANGED <<task, runtime, unit, signalled, lock, worker, now, prompts>>

Init ==
  /\ task = [status |-> "accepted", reservation |-> "active", cleanup |-> "none",
             attempted |-> FALSE, intent |-> FALSE, dispatched |-> FALSE, recovery |-> FALSE, deadline |-> 1]
  /\ runtime = FALSE
  /\ unit = "absent"
  /\ signalled = FALSE
  /\ lock = "free"
  /\ launch = "check"
  /\ worker = [pc |-> "register", outcome |-> "failed", watch |-> NoWatch]
  /\ call = [c \in Calls |-> Idle]
  /\ now = 0
  /\ crashed = FALSE
  /\ prompts = 0

Next ==
  \/ Launch \/ WorkerStep \/ Watch \/ WorkerCrash
  \/ UnitEmpties \/ ReservationExpires \/ TimePasses \/ SupervisorCrash
  \/ \E c \in Calls : CancelRead(c) \/ PollRead(c) \/ ExtendRead(c) \/ CallStep(c)

Spec == Init /\ [][Next]_vars

\* The host keeps polling, calls and the launch run on, systemd does its part.
\* Nothing is assumed of the worker: it may hang anywhere.
Fairness ==
  /\ WF_vars(Launch)
  /\ \A c \in Calls : WF_vars(PollRead(c)) /\ WF_vars(CallStep(c))
  /\ WF_vars(UnitEmpties)
  /\ WF_vars(ReservationExpires)

FairSpec == Spec /\ Fairness

\* The worker goes on, unless it waits for its provider, and time passes.  Of the
\* provider only the watch is sure: it may not answer before its time is up.
Waiting == worker.pc \in {"session", "turn", "cli_turn"} /\ ~TimedOut
WatchFairness ==
  /\ WF_vars(WorkerStep /\ ~Waiting)
  /\ WF_vars(Watch)
  /\ WF_vars(TimePasses)
WorkerFairSpec == FairSpec /\ WatchFairness

------------------------------------------------------------------------------
LaunchPCs == {"check", "unit", "recheck", "register", "clear", "stop", "stop_wait",
              "stop_clear", "uncertain", "catch", "fail", "catch_clear", "catch_lock",
              "done", "dead"}
WorkerPCs == {"register", "check", "start", "session", "running", "intend", "prompt",
              "mark", "turn", "acp_failed", "fallback", "spawn", "cli", "cli_turn",
              "persist", "persist_error", "handoff", "handoff_error", "gone"}
CallPCs == {"idle", "cancel_runtime", "poll_runtime", "settle_runtime", "cancel_mark",
            "cancel_clear", "cancel_stop", "cancel_wait", "cancel_inspect",
            "cancel_uncertain", "cancel_lock", "cancelled", "poll_inspect", "reconcile",
            "poll_lock", "settle", "stop", "stop_wait", "prove", "lock",
            "lock_recovered", "persist", "extend"}

\* The type of every variable: the records, and where each actor may be.
TypeOK ==
  /\ task \in Tasks
  /\ runtime \in BOOLEAN
  /\ unit \in {"absent", "up", "down"}
  /\ signalled \in BOOLEAN
  /\ lock \in {"free", "held"}
  /\ launch \in LaunchPCs
  /\ worker \in [pc : WorkerPCs, outcome : Terminal, watch : [timer : Nat, reads : SUBSET Nat, fired : BOOLEAN]]
  /\ call \in [Calls -> [pc : CallPCs, known : BOOLEAN, deadline : Nat,
                         seen : [settled : BOOLEAN, attempted : BOOLEAN, recovery : BOOLEAN],
                         verdict : [cleanup : Cleanups, attempted : BOOLEAN]]]
  /\ now \in Nat
  /\ crashed \in BOOLEAN
  /\ prompts \in Nat

\* The prompt is handed to a provider at most once, whatever fails, falls back,
\* crashes or is cancelled (ADR 0001: "never replayed").
AtMostOneDispatch == prompts <= 1

\* A cleanup record that says normal or recovered is only ever stored when the
\* unit, with every process in it, is gone for good.
SettledMeansStopped == task.cleanup \in Final => unit = "down"

\* A reader who is told completed can rely on the unit being gone, however
\* many calls settle at once and whatever the inspections miss.
CompletedMeansStopped == Public(task) = "completed" => unit # "up"

\* The same for every final status (terminal-boundary-lifecycle.md: finality
\* requires exact systemd/cgroup proof).
FinalMeansStopped == Public(task) \in Terminal => unit # "up"

\* The provider never gets the prompt of a task that readers are told was
\* cancelled (ADR 0002: never a terminal report while provider work goes on).
NoPromptAfterCancelled == [][prompts' # prompts => Public(task) # "cancelled"]_vars

\* Whatever WTB says, a cancel, poll or settlement that knows the unit takes the writer
\* lock only from a unit that is down (terminal-boundary-lifecycle.md: only after exact
\* proof of inactive_empty).  Only two paths take it on WTB's word: the failure path of
\* the launch, and a cancel or poll that read no unit in runtime.json.
LockTakenOnProof ==
  [][lock = "held" /\ lock' = "free" /\ unit' # "down" =>
       \/ launch = "catch_lock" /\ launch' = "done"
       \/ \E c \in Calls : /\ call[c].pc \in {"cancel_lock", "poll_lock"} /\ ~call[c].known
                          /\ call'[c] # call[c]]_vars

\* Once a known unit has a terminal task, polling ends with the cleanup settled,
\* also when the worker hangs after storing the outcome.
TerminalIsSettled == (task.status \in Terminal /\ Known(task)) ~> task.cleanup \in Final

\* Every task ends, also when its provider never answers and its deadline is extended: some
\* timer is always set or about to be (startDeadlineWatch), and a worker that died is found.
EveryTaskEnds == WatchFairness => (task.status \in Active ~> task.status \notin Active)

\* A task does not stay cancelling: the cancel ends it or admits uncertainty (cancelTask),
\* which a supervisor that dies in between does not.
CancellingEnds == task.status = "cancelling" ~> task.status # "cancelling"

\* A task that is stored as timed out has reached the deadline in its record
\* (reconcileInactiveTask: "The recorded task deadline was reached").
TimeoutIsDue == [][task'.status = "timeout" /\ task.status # "timeout" => now >= task.deadline]_vars

\* An extension only ever moves the deadline to a later time (deadline.mjs: "must be strictly
\* later than the recorded deadline").
DeadlineGrows == [][task'.deadline >= task.deadline]_vars
=============================================================================
