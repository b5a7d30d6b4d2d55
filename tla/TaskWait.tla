------------------------------ MODULE TaskWait ------------------------------
(***************************************************************************)
(* A client that waits for tasks to progress (waitForAnyTaskProgress of    *)
(* task-store.mjs).  The waiter reads every task, arms a watcher on the    *)
(* directory of every task it could read, reads again and sleeps; watchers *)
(* and timers wake it, and it reads again until a task is worth returning  *)
(* for.                                                                    *)
(*                                                                         *)
(* Watchers tell the waiter through one gate with a single slot: what      *)
(* comes while it reads waits there, and only the latest of it.  A read    *)
(* may fail: then the waiter knows nothing of that task until it reads it  *)
(* again, and what woke it is used up.  A task is read in one step, its    *)
(* record and its log together.  Time is what timers have run out.         *)
(* Silence and task deadlines wake the waiter as its own deadline does,    *)
(* and are left out, as are corrupt and overlong logs and callers that go  *)
(* away.                                                                   *)
(***************************************************************************)
EXTENDS Naturals

CONSTANTS
  Tasks,       \* the tasks waited for
  MaxChanges,  \* bound on the changes of each task
  MaxErrors    \* bound on the errors of each watcher

ASSUME WaitAssumption == MaxChanges \in [Tasks -> Nat] /\ MaxErrors \in [Tasks -> Nat]

Nothing == "nothing"
Notice(why, t) == [why |-> why, task |-> t]
Empty == Notice("none", Nothing)

VARIABLES
  files,    \* each task: status, revision, and what its log has got
  changes,  \* how often each task changed
  until,    \* what is waited for: progress, or the end
  cursors,  \* the tasks followed from a cursor, at the start of their logs
  wakes,    \* does a task that asks for attention end the wait?
  phase,    \* where the waiter is
  unread,   \* tasks it has yet to read in this round
  first,    \* what it read of each task at first
  seen,     \* what it read of each task last
  held,     \* text it has seen and waits a while for more of
  armed,    \* directories it has a live watcher on
  stirred,  \* watchers with an event to deliver
  errors,   \* errors of the watcher of each task
  gate,     \* the slot of the gate: a notice, or Empty
  woken,    \* what ended the last sleep
  again,    \* watchers that were armed a second time
  failed,   \* it polls, as a watcher failed twice
  overdue,  \* its deadline has passed
  reason    \* what the wait returns with

taskVars == <<files, changes>>
watchVars == <<armed, stirred, errors>>
readVars == <<unread, first, seen, held>>
callVars == <<until, cursors, wakes>>
flagVars == <<callVars, again, failed, overdue>>
vars == <<taskVars, watchVars, readVars, flagVars, phase, gate, woken, reason>>

Reading == {"initial", "snapshot", "reread", "final"}

Init ==
  /\ files = [t \in Tasks |-> [status |-> "running", revision |-> 0, logged |-> 0, text |-> 0]]
  /\ changes = [t \in Tasks |-> 0]
  /\ until \in {"progress", "terminal"}
  /\ cursors \in {{}, Tasks}
  /\ wakes \in BOOLEAN
  /\ phase = "initial"
  /\ unread = Tasks
  /\ first = files
  /\ seen = files
  /\ held = [t \in Tasks |-> "no"]
  /\ armed = {}
  /\ stirred = {}
  /\ errors = [t \in Tasks |-> 0]
  /\ gate = Empty
  /\ woken = Empty
  /\ again = {}
  /\ failed = FALSE
  /\ overdue = FALSE
  /\ reason = Nothing

------------------------------------------------------------------------------
(* The tasks *)

\* updateTask, appendTaskEvent: a status, another update, an event or text.
Changed(file) ==
  {[file EXCEPT !.status = s, !.revision = @ + 1] : s \in {"running", "needs_attention", "ended"}}
    \cup {[file EXCEPT !.logged = @ + 1], [file EXCEPT !.text = @ + 1]}

Change(t) ==
  /\ changes[t] < MaxChanges[t] /\ phase # "done"
  /\ files[t].status # "ended"
  /\ \E file \in Changed(files[t]) : files' = [files EXCEPT ![t] = file]
  /\ changes' = [changes EXCEPT ![t] = @ + 1]
  /\ stirred' = stirred \cup ({t} \cap armed)
  /\ UNCHANGED <<armed, errors, readVars, flagVars, phase, gate, woken, reason>>

------------------------------------------------------------------------------
(* What wakes the waiter *)

LooksAgain(notice) ==
  /\ phase' = "reread" /\ unread' = Tasks
  /\ woken' = notice /\ gate' = Empty

\* Variant for mutation: a notice is dropped while nobody waits for one.
NotifyWaiter(notice) ==
  \/ phase = "sleep" /\ LooksAgain(notice)
  \/ phase # "sleep" /\ UNCHANGED <<phase, unread, woken, gate>>

\* createNotifyGate: the waiter wakes, or the notice takes the slot.
Notify(notice) ==
  \/ phase = "sleep" /\ LooksAgain(notice)
  \/ phase # "sleep" /\ gate' = notice /\ UNCHANGED <<phase, unread, woken>>

WatchEvent(t) ==
  /\ t \in stirred /\ phase # "done"
  /\ stirred' = stirred \ {t}
  /\ Notify(Notice("watch", t))
  /\ UNCHANGED <<taskVars, armed, errors, first, seen, held, flagVars, reason>>

\* A watcher that fails is closed.
WatcherFails(t) ==
  /\ t \in armed /\ phase # "done" /\ errors[t] < MaxErrors[t]
  /\ errors' = [errors EXCEPT ![t] = @ + 1]
  /\ armed' = armed \ {t} /\ stirred' = stirred \ {t}
  /\ Notify(Notice("watch-error", t))
  /\ UNCHANGED <<taskVars, first, seen, held, flagVars, reason>>

\* raceWait: the deadline, the fallback timer of a waiter that polls, or the time
\* for more text is over.
TimerWakes ==
  /\ phase = "sleep"
  /\ overdue \/ failed \/ (until = "progress" /\ \E t \in Tasks : held[t] = "over")
  /\ LooksAgain(Notice("timer", Nothing))
  /\ UNCHANGED <<taskVars, watchVars, first, seen, held, flagVars, reason>>

Passes ==
  /\ ~overdue /\ phase \notin {"initial", "done"}
  /\ overdue' = TRUE
  /\ UNCHANGED <<taskVars, watchVars, readVars, callVars, again, failed, phase, gate, woken, reason>>

HoldEnds(t) ==
  /\ held[t] = "held" /\ phase # "done"
  /\ held' = [held EXCEPT ![t] = "over"]
  /\ UNCHANGED <<taskVars, watchVars, unread, first, seen, flagVars, phase, gate, woken, reason>>

------------------------------------------------------------------------------
(* Reading and judging *)

\* What a target that could not be read looks like: it is not there, or the read
\* failed, and so did the one retry of it.
Unread(error) == [status |-> error, revision |-> 0, logged |-> 0, text |-> 0]
Legible(file) == file.status \notin {"task_not_found", "task_unavailable"}

\* readWaitAnyTarget, refreshWaitAnyTargets
Read(t) ==
  /\ phase \in Reading /\ t \in unread
  /\ unread' = unread \ {t}
  /\ \E file \in {files[t], Unread("task_not_found"), Unread("task_unavailable")} :
       /\ seen' = [seen EXCEPT ![t] = file]
       /\ first' = IF phase = "initial" THEN [first EXCEPT ![t] = file] ELSE first
  /\ UNCHANGED <<taskVars, watchVars, held, flagVars, phase, gate, woken, reason>>

Readable == {t \in Tasks : Legible(seen[t])}

\* The end of the log, compared with the first read by a wait without a cursor.
LogMoved(t) ==
  ~Legible(first[t]) \/ seen[t].logged # first[t].logged \/ seen[t].text # first[t].text

\* The log beyond the cursor: text alone is held back for a while.
LogGrew(t) == seen[t].logged > 0 \/ (seen[t].text > 0 /\ held[t] = "over")

\* waitAnyTargetReason, waitWakeReason.  A cursor that cannot be compared, as the
\* first read failed, is an error of the code.
WakeReason(t) ==
  IF seen[t].status = "task_not_found" THEN "task_not_found"
  ELSE IF t \notin Readable THEN Nothing
  ELSE IF until = "progress" /\ t \notin cursors /\ LogMoved(t) THEN "progress"
  ELSE IF seen[t].status = "ended" THEN "terminal"
  ELSE IF seen[t].status = "needs_attention" /\ wakes THEN "attention"
  ELSE IF until = "terminal" THEN Nothing
  ELSE IF ~Legible(first[t]) THEN "throws"
  ELSE IF \/ seen[t].status # first[t].status
          \/ seen[t].revision # first[t].revision
          \/ t \in cursors /\ LogGrew(t)
  THEN "progress"
  ELSE Nothing

Candidates == {t \in Tasks : WakeReason(t) # Nothing}

\* Text beyond a cursor starts a timer.
Holds == held' = [t \in Tasks |-> IF held[t] = "no" /\ t \in cursors /\ seen[t].text > 0
                                  THEN "held" ELSE held[t]]

\* A call with a candidate returns.
Returns ==
  /\ phase \in Reading /\ unread = {}
  /\ \A t \in Tasks : WakeReason(t) # "throws"
  /\ \E t \in Candidates : reason' = WakeReason(t)
  /\ phase' = "done"
  /\ UNCHANGED <<taskVars, watchVars, readVars, flagVars, gate, woken>>

\* One target that throws fails the call, whatever the others have.
Raises ==
  /\ phase \in Reading /\ unread = {}
  /\ \E t \in Tasks : WakeReason(t) = "throws"
  /\ phase' = "done" /\ reason' = "throws"
  /\ UNCHANGED <<taskVars, watchVars, readVars, flagVars, gate, woken>>

\* armWatcher: a target that could not be read is passed over; a watcher that
\* cannot be set up makes the waiter poll.
Attach(ts) ==
  \E ok \in SUBSET (ts \cap Readable) :
    LET bad == (ts \cap Readable) \ ok
    IN /\ \A t \in bad : errors[t] < MaxErrors[t]
       /\ armed' = (armed \ ts) \cup ok
       /\ stirred' = stirred \ ts
       /\ errors' = [t \in Tasks |-> errors[t] + (IF t \in bad THEN 1 ELSE 0)]
       /\ failed' = (failed \/ bad # {})

\* Variant for mutation: the waiter sleeps at once after arming its watchers.
ArmAndSleep ==
  /\ phase = "initial" /\ unread = {} /\ Candidates = {}
  /\ Holds /\ Attach(Tasks)
  /\ phase' = "sleep"
  /\ UNCHANGED <<taskVars, unread, first, seen, callVars, again, overdue, gate, woken, reason>>

\* The first round had none: the watchers are armed, and everything read again.
Arm ==
  /\ phase = "initial" /\ unread = {} /\ Candidates = {}
  /\ Holds /\ Attach(Tasks)
  /\ phase' = "snapshot" /\ unread' = Tasks
  /\ UNCHANGED <<taskVars, first, seen, callVars, again, overdue, gate, woken, reason>>

\* Variant for mutation: the slot is not looked at.
SleepsAnyway ==
  \/ overdue /\ phase' = "final" /\ unread' = Tasks /\ woken' = Empty /\ UNCHANGED gate
  \/ ~overdue /\ phase' = "sleep" /\ woken' = Empty /\ UNCHANGED <<unread, gate>>

\* Past the deadline there is one more round; else a notice in the slot wakes the
\* waiter before it has slept.
Sleeps ==
  \/ overdue /\ phase' = "final" /\ unread' = Tasks /\ woken' = Empty /\ UNCHANGED gate
  \/ ~overdue /\ gate # Empty /\ LooksAgain(gate)
  \/ ~overdue /\ gate = Empty /\ phase' = "sleep" /\ woken' = Empty /\ UNCHANGED <<unread, gate>>

\* A watcher that failed is armed again the first time; then the waiter polls.
Rewatches ==
  \/ /\ woken.why # "watch-error"
     /\ UNCHANGED <<watchVars, again, failed>>
  \/ /\ woken.why = "watch-error" /\ woken.task \notin again
     /\ Attach({woken.task}) /\ again' = again \cup {woken.task}
  \/ /\ woken.why = "watch-error" /\ woken.task \in again
     /\ armed' = armed \ {woken.task} /\ stirred' = stirred \ {woken.task}
     /\ failed' = TRUE
     /\ UNCHANGED <<errors, again>>

Settles ==
  /\ phase = "snapshot" /\ unread = {} /\ Candidates = {}
  /\ Holds /\ Sleeps
  /\ UNCHANGED <<taskVars, watchVars, first, seen, flagVars, reason>>

GoesOn ==
  /\ phase = "reread" /\ unread = {} /\ Candidates = {}
  /\ Holds /\ Rewatches /\ Sleeps
  /\ UNCHANGED <<taskVars, first, seen, callVars, overdue, reason>>

TimesOut ==
  /\ phase = "final" /\ unread = {} /\ Candidates = {}
  /\ phase' = "done" /\ reason' = "timeout"
  /\ UNCHANGED <<taskVars, watchVars, readVars, flagVars, gate, woken>>

------------------------------------------------------------------------------
(* The specification *)

Waiter ==
  \/ \E t \in Tasks : Read(t)
  \/ Returns \/ Raises \/ Arm \/ Settles \/ GoesOn \/ TimesOut \/ TimerWakes

Next ==
  \/ Waiter \/ Passes
  \/ \E t \in Tasks : Change(t) \/ WatchEvent(t) \/ WatcherFails(t) \/ HoldEnds(t)

\* The waiter runs, timers run out and watchers deliver; of its deadline nothing is
\* assumed, it may be an hour away.
Fairness ==
  /\ WF_vars(Waiter)
  /\ \A t \in Tasks : WF_vars(WatchEvent(t)) /\ WF_vars(HoldEnds(t))

Spec == Init /\ [][Next]_vars
FairSpec == Spec /\ Fairness

------------------------------------------------------------------------------
(* Properties *)

\* Tasks, waiter and gate keep their shape.
TypeOK ==
  /\ files \in [Tasks -> [status : {"running", "needs_attention", "ended"},
                          revision : Nat, logged : Nat, text : Nat]]
  /\ cursors \subseteq Tasks
  /\ phase \in Reading \cup {"sleep", "done"}
  /\ {unread, armed, stirred, again} \subseteq SUBSET Tasks
  /\ stirred \subseteq armed
  /\ held \in [Tasks -> {"no", "held", "over"}]
  /\ phase = "sleep" => gate = Empty
  /\ reason \in {Nothing, "terminal", "attention", "progress", "task_not_found", "throws", "timeout"}
  /\ reason # Nothing <=> phase = "done"

\* What the waiter has not seen of a task when it sleeps is on its way to it: no
\* change is slept through (the snapshot after arming, the slot of the gate).  It
\* takes that the first read and the last one did not fail, and that the watcher
\* of that task had no error; what happens to other tasks makes no difference.
NothingSleptThrough ==
  phase = "sleep" => \A t \in Tasks :
    errors[t] = 0 /\ Legible(first[t]) /\ Legible(seen[t]) =>
      seen[t] = files[t] \/ t \in stirred

Calls(t) == files[t].status = "ended" \/ (files[t].status = "needs_attention" /\ wakes)

\* A task that ends, or asks for the attention the caller wants to hear of, ends the
\* wait without the deadline, unless its own watcher or a read of it fails
\* (waitWakeReason, raceWait).
AttentionIsHeard ==
  \A t \in Tasks :
    (Calls(t) /\ errors[t] = 0 /\ Legible(first[t]))
      ~> (phase = "done" \/ ~Calls(t) \/ errors[t] > 0 \/ ~Legible(seen[t]))
=============================================================================
