--------------------------- MODULE RunCoordination ---------------------------
(***************************************************************************)
(* One run of several lanes.  Each server process has a run runtime        *)
(* (run-runtime.mjs) that works off the calls for the run one after the    *)
(* other, with the scheduler's lanes (run-scheduler.mjs) in its memory.    *)
(* The servers share three files: the submission record, the scheduler     *)
(* plan (run-tool-adapter.mjs) and the journal.  They start, inspect and   *)
(* cancel one task per lane through the supervisor.                        *)
(*                                                                         *)
(* Every await on a file or a task is a step of its own, so a server may   *)
(* die, or another one run, between any two.  Accepting the submission and *)
(* appending to the journal are one step each.  The code tells what the    *)
(* journal holds from an earlier read; a read that is out of date only     *)
(* makes the append fail, which CallFails allows at any time.  The run has *)
(* no aggregate anchor and no latched attention batch.                     *)
(***************************************************************************)
EXTENDS Naturals, FiniteSets

CONSTANTS
  Servers,       \* server processes on the same state root
  Lanes,         \* the assignments of the run
  Required,      \* the lanes that are not optional
  Mute,          \* the lanes whose provider takes no reply in its session
  Faults,        \* may calls fail, and tasks be lost or cancelled by others?
  StoreFails,    \* may submitRun fail between its recovery and the store?
  SettlesFinal,  \* does the injected lifecycle ever answer final?
  MaxCrashes     \* bound on the deaths of servers

ASSUME RunAssumption ==
  /\ Lanes # {}
  /\ Required \subseteq Lanes
  /\ Mute \subseteq Lanes
  /\ {Faults, StoreFails, SettlesFinal} \subseteq BOOLEAN
  /\ MaxCrashes \in Nat

VARIABLES
  store,      \* the submission record of the run exists
  plan,       \* the scheduler plan: saved, and the lanes it calls dispatched
  journal,    \* the run journal
  task,       \* the task of each lane as the supervisor shows it
  server,     \* each server: its memory of the run and the call it works on
  crashes,    \* deaths so far
  delegated,  \* history: how often each lane was handed to delegateTask
  answered    \* history: a submission was answered without an error

vars == <<store, plan, journal, task, server, crashes, delegated, answered>>

------------------------------------------------------------------------------
(* Lanes, journal and servers *)

Outcomes == {"completed", "failed", "cancelled"}
TaskViews == {"none", "running", "asking", "lost"} \cup Outcomes

\* A lane of the scheduler.  "failed" stands for timeout and
\* environment_blocked as well, "running" for dispatched and needs_attention.
LaneStates == [dispatched : BOOLEAN, confirmed : BOOLEAN,
               status : {"running", "lost", "unresolved"} \cup Outcomes,
               code : {"none", "unsupported", "cancel_unconfirmed", "other"}]

Undispatched ==
  [dispatched |-> FALSE, confirmed |-> FALSE, status |-> "unresolved", code |-> "other"]
NoLanes == [l \in Lanes |-> Undispatched]

\* Variant for mutation: the code is stored as the status.
UnresolvedMixedUp(lane, code) ==
  [lane EXCEPT !.code = IF lane.code = "none" THEN code ELSE lane.code, !.status = code]

\* setUnresolved keeps the first code, and the status of a refused cancel.
Unresolved(lane, code) ==
  [lane EXCEPT !.code = IF lane.code = "none" THEN code ELSE lane.code,
               !.status = IF code = "cancel_unconfirmed" \/ lane.status = "cancelled"
                          THEN lane.status ELSE "unresolved"]

\* The scheduler's terminal statuses that it does not ask about again.
Settled == Outcomes \cup {"lost"}

\* Variant for mutation: a lane never dispatched counts as cancelled.
ConfirmedCancelledAny(lane) == lane.status = "cancelled" /\ lane.confirmed

\* isConfirmedCancelled and isAcceptableChildTerminal
ConfirmedCancelled(lane) == lane.dispatched /\ lane.status = "cancelled" /\ lane.confirmed
Acceptable(lane) ==
  \/ lane.dispatched /\ lane.status \in {"completed", "failed"}
  \/ ConfirmedCancelled(lane)

\* The lanes maybeRunTerminal looks at.
Deciding == IF Required = {} THEN Lanes ELSE Required

\* The memory of a server that has just started, and a server between calls.
Fresh == [pc |-> "idle", op |-> "none", sel |-> {}, todo |-> {}, kill |-> {},
          final |-> {}, ending |-> {}, lane |-> NoLanes,
          record |-> "none",   \* runs: the run, "bare" when without assignments
          known |-> FALSE]     \* the scheduler has the run in memory
Rest(m) == [m EXCEPT !.pc = "idle", !.op = "none", !.sel = {}, !.todo = {}, !.kill = {},
                     !.final = {}, !.ending = {}, !.lane = IF m.known THEN m.lane ELSE NoLanes]

Submitting == {"submit", "repeat", "refresh"}  \* submitRun and its two short ways

At(s, pc) == server[s].pc = pc
Becomes(s, m) == server' = [server EXCEPT ![s] = m]
Goto(s, pc) == Becomes(s, [server[s] EXCEPT !.pc = pc])
Ends(s) == Becomes(s, Rest(server[s]))

Init ==
  /\ store = FALSE
  /\ plan = [saved |-> FALSE, dispatched |-> {}]
  /\ journal = [made |-> FALSE, opened |-> FALSE, started |-> {},
                outcome |-> [l \in Lanes |-> "none"], ended |-> "none"]
  /\ task = [l \in Lanes |-> "none"]
  /\ server = [s \in Servers |-> Fresh]
  /\ crashes = 0
  /\ delegated = [l \in Lanes |-> 0]
  /\ answered = FALSE

------------------------------------------------------------------------------
(* Calls *)

\* The queue of the run hands out the next call.
Begin(s, op, sel) ==
  /\ At(s, "idle")
  /\ Becomes(s, [server[s] EXCEPT !.pc = "recover", !.op = op, !.sel = sel])
  /\ UNCHANGED <<store, plan, journal, task, crashes, delegated, answered>>

\* recoverDurableRecord: the statuses it reads go unused.  Without a plan the
\* record has no assignments: a submission keeps that record, others fail.  A
\* call for all lanes of such a record is a call for none.
Recover(s) ==
  /\ At(s, "recover")
  /\ LET m == server[s]
         submits == m.op = "submit"
         next == [m EXCEPT !.pc = IF submits THEN "store" ELSE "bind"]
     IN IF m.record # "none"
        THEN IF m.record = "bare" /\ ~submits
             THEN IF m.op = "cancel" \/ m.sel # Lanes
                  THEN Ends(s) ELSE Becomes(s, [next EXCEPT !.sel = {}])
             ELSE Becomes(s, next)
        ELSE IF store /\ plan.saved THEN Becomes(s, [next EXCEPT !.record = "full"])
        ELSE IF ~submits THEN Ends(s)
        ELSE Becomes(s, [next EXCEPT !.record = IF store THEN "bare" ELSE "none"])
  /\ UNCHANGED <<store, plan, journal, task, crashes, delegated, answered>>

\* runStore.submit: one caller is told that it created the record.
SubmitStore(s) ==
  /\ At(s, "store")
  /\ store' = TRUE
  /\ LET m == server[s]
     IN Becomes(s, [m EXCEPT !.record = "full",
          !.pc = IF store THEN "bind" ELSE "create",
          !.op = IF ~store THEN "submit"
                 ELSE IF m.record = "full" THEN "refresh" ELSE "repeat"])
  /\ UNCHANGED <<plan, journal, task, crashes, delegated, answered>>

\* bindJournal of the creator insists on making the journal itself.
CreateJournal(s) ==
  /\ At(s, "create")
  /\ journal' = [journal EXCEPT !.made = TRUE]
  /\ IF journal.made
     THEN Ends(s)
     ELSE Becomes(s, [server[s] EXCEPT !.pc = "open"])
  /\ UNCHANGED <<store, plan, task, crashes, delegated, answered>>

\* bindJournal of the others opens it, or makes it when it is missing.
BindJournal(s) ==
  /\ At(s, "bind")
  /\ journal' = [journal EXCEPT !.made = TRUE]
  /\ Becomes(s, [server[s] EXCEPT
       !.pc = CASE server[s].op = "repeat" -> "open"
                [] server[s].op = "cancel" -> "cancel"
                [] OTHER -> "resume"])
  /\ UNCHANGED <<store, plan, task, crashes, delegated, answered>>

\* ensureOpened
OpenJournal(s) ==
  /\ At(s, "open")
  /\ journal' = [journal EXCEPT !.opened = TRUE]
  /\ Goto(s, IF server[s].op = "submit" THEN "plan" ELSE "answer")
  /\ UNCHANGED <<store, plan, task, crashes, delegated, answered>>

Answer(s) ==
  /\ At(s, "answer")
  /\ answered' = (answered \/ server[s].op \in Submitting)
  /\ Ends(s)
  /\ UNCHANGED <<store, plan, journal, task, crashes, delegated>>

\* A call fails wherever an await of it may throw.
Fallible == {"recover", "store", "create", "bind", "open", "plan", "children",
             "resume", "cancel", "settle", "run", "answer"}

CallFails(s) ==
  /\ Faults
  /\ (server[s].pc \in Fallible) \/ (At(s, "delegate") /\ server[s].todo = {})
  /\ (At(s, "store") /\ server[s].record = "bare") => StoreFails
  /\ Ends(s)
  /\ UNCHANGED <<store, plan, journal, task, crashes, delegated, answered>>

Crash(s) ==
  /\ crashes < MaxCrashes
  /\ crashes' = crashes + 1
  /\ Becomes(s, Fresh)
  /\ UNCHANGED <<store, plan, journal, task, delegated, answered>>

------------------------------------------------------------------------------
(* The scheduler and its durable plan *)

\* persistSchedulerPlan before the dispatch calls no lane dispatched.  The
\* catalog snapshot is written after the plan, and may fail on its own.
Plan(s) ==
  /\ At(s, "plan")
  /\ plan' = [saved |-> TRUE, dispatched |-> {}]
  /\ \/ Becomes(s, [server[s] EXCEPT !.pc = "delegate", !.todo = Lanes,
                                      !.known = TRUE, !.lane = NoLanes])
     \/ Faults /\ Ends(s)
  /\ UNCHANGED <<store, journal, task, crashes, delegated, answered>>

Running == [dispatched |-> TRUE, confirmed |-> FALSE, status |-> "running", code |-> "none"]

\* dispatchLane: submitTask refuses a task id that exists.  When it throws, the
\* task was not created, or is left failed or lost.
Delegate(s, l) ==
  /\ At(s, "delegate")
  /\ l \in server[s].todo
  /\ delegated' = [delegated EXCEPT ![l] = @ + 1]
  /\ \E accepted \in {task[l] = "none", task[l] = "none" /\ ~Faults} :
       /\ \E view \in IF accepted THEN {"running"}
                       ELSE IF task[l] = "none" THEN {"none", "failed", "lost"}
                       ELSE {task[l]} :
            task' = [task EXCEPT ![l] = view]
       /\ Becomes(s, [server[s] EXCEPT !.todo = @ \ {l},
                        !.lane[l] = IF accepted THEN Running ELSE Undispatched])
  /\ UNCHANGED <<store, plan, journal, crashes, answered>>

\* The plan after the dispatch names the lanes whose task was accepted.
Facts(s) ==
  LET accepted == {l \in Lanes : server[s].lane[l].dispatched}
  IN /\ At(s, "delegate")
     /\ server[s].todo = {}
     /\ plan' = [plan EXCEPT !.dispatched = accepted]
     /\ Becomes(s, [server[s] EXCEPT !.pc = "children", !.todo = accepted])
     /\ UNCHANGED <<store, journal, task, crashes, delegated, answered>>

\* Variant for mutation: a resume retries the lanes not called dispatched.
ResumeRetrying(s) ==
  /\ At(s, "resume")
  /\ plan.saved
  /\ Becomes(s, [server[s] EXCEPT !.known = TRUE, !.pc = "delegate",
                                  !.todo = Lanes \ plan.dispatched])
  /\ UNCHANGED <<store, plan, journal, task, crashes, delegated, answered>>

\* resumeAssignments of the scheduler, or of the plan when the scheduler does
\* not know the run.
Resume(s) ==
  /\ At(s, "resume")
  /\ LET m == server[s]
     IN \/ /\ m.known
           /\ Becomes(s, [m EXCEPT !.pc = "lanes", !.todo = m.sel])
        \/ /\ ~m.known /\ plan.saved
           /\ Becomes(s, [m EXCEPT !.pc = "lanes", !.todo = plan.dispatched])
        \/ ~m.known /\ ~plan.saved /\ Ends(s)
  /\ UNCHANGED <<store, plan, journal, task, crashes, delegated, answered>>

\* cancelAssignments, likewise: the plan inspects the lanes it does not cancel.
Cancel(s) ==
  /\ At(s, "cancel")
  /\ LET m == server[s]
     IN \/ /\ m.known
           /\ Becomes(s, [m EXCEPT !.pc = "lanes", !.kill = m.sel])
        \/ /\ ~m.known /\ plan.saved
           /\ Becomes(s, [m EXCEPT !.pc = "lanes", !.kill = m.sel \cap plan.dispatched,
                                                  !.todo = plan.dispatched \ m.sel])
        \/ ~m.known /\ ~plan.saved /\ Ends(s)
  /\ UNCHANGED <<store, plan, journal, task, crashes, delegated, answered>>

------------------------------------------------------------------------------
(* Inspecting and cancelling lanes *)

\* What inspectTask makes of the status; a question is a running lane.
Seen(l) == IF task[l] = "asking" THEN "running" ELSE task[l]

\* reconstructLane after an inspection, which knows of no confirmed cancel.
Reconstructed(answer) ==
  [Running EXCEPT !.status = answer, !.code = IF answer = "unresolved" THEN "other" ELSE "none"]

\* inspectLane asks about no lane that has ended or is unresolved.  A question
\* nobody can answer makes the lane unresolved.
Inspected(l, lane, throws) ==
  CASE ~lane.dispatched -> lane
    [] lane.dispatched /\ lane.status = "cancelled" -> Unresolved(lane, "other")
    [] lane.dispatched /\ lane.status \in (Settled \cup {"unresolved"}) \ {"cancelled"} -> lane
    [] lane.dispatched /\ lane.status = "running" ->
         IF throws THEN Unresolved(lane, "other")
         ELSE IF task[l] = "asking" /\ l \in Mute THEN Unresolved(lane, "unsupported")
         ELSE [lane EXCEPT !.status = Seen(l)]

\* resumeAssignments cancels every lane it calls unsupported.
InspectLane(s, l) ==
  LET m == server[s]
  IN /\ At(s, "lanes")
     /\ l \in m.todo
     /\ \E fails \in {FALSE, Faults} :
          LET throws == fails \/ task[l] = "none"
              lane == IF m.known THEN Inspected(l, m.lane[l], throws)
                      ELSE Reconstructed(IF throws THEN "unresolved" ELSE Seen(l))
          IN Becomes(s, [m EXCEPT !.todo = @ \ {l}, !.lane[l] = lane,
               !.kill = IF m.known /\ lane.code = "unsupported" THEN @ \cup {l} ELSE @])
     /\ UNCHANGED <<store, plan, journal, task, crashes, delegated, answered>>

\* What a task is once cancelTask has answered or thrown.
CancelViews(l) ==
  IF task[l] \in {"running", "asking"}
  THEN {"cancelled"} \cup (IF Faults THEN {task[l], "lost"} ELSE {})
  ELSE {task[l]}

Confirmed(lane) ==
  [lane EXCEPT !.dispatched = TRUE, !.status = "cancelled", !.confirmed = TRUE,
               !.code = IF lane.code = "cancel_unconfirmed" THEN "none" ELSE lane.code]

\* The scheduler keeps the status, the plan reports the lane unresolved.
Unconfirmed(m, lane) ==
  IF m.known THEN Unresolved([lane EXCEPT !.confirmed = FALSE], "cancel_unconfirmed")
  ELSE [Running EXCEPT !.status = "unresolved", !.code = "cancel_unconfirmed"]

\* cancelLane without a call: a lane never dispatched, or one that has ended.
CancelLaneQuietly(s, l) ==
  LET m == server[s]
      lane == m.lane[l]
  IN /\ At(s, "lanes")
     /\ l \in m.kill
     /\ m.known
     /\ ~lane.dispatched \/ lane.status \in Settled
     /\ Becomes(s, [m EXCEPT !.kill = @ \ {l},
          !.lane[l] = IF lane.dispatched THEN lane
                      ELSE [lane EXCEPT !.status = "cancelled", !.confirmed = TRUE]])
     /\ UNCHANGED <<store, plan, journal, task, crashes, delegated, answered>>

\* Variant for mutation: a cancel is confirmed when the call did not throw.
CancelLaneByReceipt(s, l) ==
  LET m == server[s]
      lane == m.lane[l]
  IN /\ At(s, "lanes")
     /\ l \in m.kill
     /\ m.known => lane.dispatched /\ lane.status \notin Settled
     /\ \E view \in CancelViews(l), fails \in {FALSE, Faults} :
          /\ task' = [task EXCEPT ![l] = view]
          /\ Becomes(s, [m EXCEPT !.kill = @ \ {l},
               !.lane[l] = IF ~fails THEN Confirmed(lane) ELSE Unconfirmed(m, lane)])
     /\ UNCHANGED <<store, plan, journal, crashes, delegated, answered>>

\* cancelLane with a call, confirmed when the answer says cancelled.
CancelLane(s, l) ==
  LET m == server[s]
      lane == m.lane[l]
  IN /\ At(s, "lanes")
     /\ l \in m.kill
     /\ m.known => lane.dispatched /\ lane.status \notin Settled
     /\ \E view \in CancelViews(l), fails \in {FALSE, Faults} :
          /\ task' = [task EXCEPT ![l] = view]
          /\ Becomes(s, [m EXCEPT !.kill = @ \ {l},
               !.lane[l] = IF ~fails /\ view = "cancelled"
                           THEN Confirmed(lane) ELSE Unconfirmed(m, lane)])
     /\ UNCHANGED <<store, plan, journal, crashes, delegated, answered>>

\* Variant for mutation: a lane with an outcome in the journal is done with.
LanesDoneOnce(s) ==
  LET m == server[s]
      ended == {l \in m.sel : (IF m.op = "cancel" THEN ConfirmedCancelled(m.lane[l])
                               ELSE Acceptable(m.lane[l])) /\ journal.outcome[l] = "none"}
  IN /\ At(s, "lanes") /\ m.todo = {} /\ m.kill = {}
     /\ Becomes(s, IF m.op \in {"inspect", "refresh"} THEN [m EXCEPT !.pc = "answer"]
                   ELSE [m EXCEPT !.pc = "settle", !.todo = ended])
     /\ UNCHANGED <<store, plan, journal, task, crashes, delegated, answered>>

\* The receipt of the scheduler.  Only resumeRun and cancelRun go on to settle
\* lanes; inspectRun asks for their finality and keeps nothing.
LanesDone(s) ==
  LET m == server[s]
      ended == {l \in m.sel : IF m.op = "cancel" THEN ConfirmedCancelled(m.lane[l])
                              ELSE Acceptable(m.lane[l])}
  IN /\ At(s, "lanes") /\ m.todo = {} /\ m.kill = {}
     /\ Becomes(s, IF m.op \in {"inspect", "refresh"} THEN [m EXCEPT !.pc = "answer"]
                   ELSE [m EXCEPT !.pc = "settle", !.todo = ended])
     /\ UNCHANGED <<store, plan, journal, task, crashes, delegated, answered>>

------------------------------------------------------------------------------
(* Settling lanes and ending the run *)

\* The journal takes events of an open run that has not ended.
Accepts == journal.opened /\ journal.ended = "none"

\* ensureChildStarted, after the dispatch and before an outcome.
StartChild(s, l) ==
  /\ \/ At(s, "children") /\ l \in server[s].todo
     \/ At(s, "settle") /\ l \in server[s].ending \ journal.started
  /\ IF Accepts \/ l \in journal.started
     THEN /\ journal' = [journal EXCEPT !.started = @ \cup {l}]
          /\ Becomes(s, IF At(s, "settle") THEN server[s]
                        ELSE [server[s] EXCEPT !.todo = @ \ {l}])
     ELSE Ends(s) /\ UNCHANGED journal
  /\ UNCHANGED <<store, plan, task, crashes, delegated, answered>>

ChildrenStarted(s) ==
  /\ At(s, "children")
  /\ server[s].todo = {}
  /\ Goto(s, "answer")
  /\ UNCHANGED <<store, plan, journal, task, crashes, delegated, answered>>

\* settleAndCleanup of one lane after the other.
Settle(s, l) ==
  LET m == server[s]
  IN /\ At(s, "settle")
     /\ l \in m.todo
     /\ m.ending = {}
     /\ \/ /\ SettlesFinal
           /\ Becomes(s, [m EXCEPT !.todo = @ \ {l}, !.final = @ \cup {l}, !.ending = {l}])
        \/ /\ Faults \/ ~SettlesFinal
           /\ Becomes(s, [m EXCEPT !.todo = @ \ {l}])
     /\ UNCHANGED <<store, plan, journal, task, crashes, delegated, answered>>

\* acceptChildTerminal: the outcome is the status of the lane.
EndChild(s, l) ==
  LET m == server[s]
  IN /\ At(s, "settle")
     /\ l \in m.ending \cap journal.started
     /\ IF Accepts \/ journal.outcome[l] # "none"
        THEN /\ Becomes(s, [m EXCEPT !.ending = {}])
             /\ journal' = [journal EXCEPT !.outcome[l] =
                              IF @ = "none" THEN m.lane[l].status ELSE @]
        ELSE Ends(s) /\ UNCHANGED journal
     /\ UNCHANGED <<store, plan, task, crashes, delegated, answered>>

Settling(s) ==
  /\ At(s, "settle")
  /\ server[s].todo = {} /\ server[s].ending = {}
  /\ Goto(s, "run")
  /\ UNCHANGED <<store, plan, journal, task, crashes, delegated, answered>>

RunOutcome(statuses) ==
  IF "failed" \in statuses THEN "failed"
  ELSE IF "cancelled" \in statuses THEN "cancelled"
  ELSE "completed"

\* The reducer ends a run with a child when all its children have ended.
AcceptsEnd ==
  Accepts /\ journal.started # {} /\ \A l \in journal.started : journal.outcome[l] # "none"

\* Variant for mutation: lanes need not be settled by this call.
RunEndUnsettled(s) ==
  /\ At(s, "run")
  /\ journal' = [journal EXCEPT !.ended = IF @ = "none" /\ AcceptsEnd
                    THEN RunOutcome({server[s].lane[l].status : l \in Deciding}) ELSE @]
  /\ Goto(s, "answer")
  /\ UNCHANGED <<store, plan, task, crashes, delegated, answered>>

\* maybeRunTerminal: every deciding lane was settled by this very call.
RunEnd(s) ==
  LET m == server[s]
      deciding == IF m.record = "bare" THEN {} ELSE Deciding
  IN /\ At(s, "run")
     /\ IF journal.ended # "none" \/ ~(deciding \subseteq m.final)
        THEN Goto(s, "answer") /\ UNCHANGED journal
        ELSE IF AcceptsEnd
        THEN /\ journal' = [journal EXCEPT !.ended = RunOutcome({m.lane[l].status : l \in deciding})]
             /\ Goto(s, "answer")
        ELSE Ends(s) /\ UNCHANGED journal
     /\ UNCHANGED <<store, plan, task, crashes, delegated, answered>>

------------------------------------------------------------------------------
(* Tasks, and the specification *)

\* A task ends by itself or by its deadline.
TaskEnds(l) ==
  /\ task[l] \in {"running", "asking"}
  /\ \E outcome \in {"completed", "failed"} : task' = [task EXCEPT ![l] = outcome]
  /\ UNCHANGED <<store, plan, journal, server, crashes, delegated, answered>>

\* A task asks and goes on when it is answered.
TaskAsks(l) ==
  /\ \/ task[l] = "running" /\ task' = [task EXCEPT ![l] = "asking"]
     \/ task[l] = "asking" /\ task' = [task EXCEPT ![l] = "running"]
  /\ UNCHANGED <<store, plan, journal, server, crashes, delegated, answered>>

\* The supervisor loses a task, finds its outcome, or cancels it for another.
TaskDisturbed(l) ==
  /\ Faults
  /\ \/ task[l] \in {"running", "asking"} /\ task' \in {[task EXCEPT ![l] = v] : v \in {"lost", "cancelled"}}
     \/ task[l] = "lost" /\ task' \in {[task EXCEPT ![l] = v] : v \in Outcomes}
  /\ UNCHANGED <<store, plan, journal, server, crashes, delegated, answered>>

Calls(s) ==
  \/ Begin(s, "submit", Lanes) \/ Begin(s, "inspect", Lanes)
  \/ \E sel \in SUBSET Lanes \ {{}} : Begin(s, "resume", sel) \/ Begin(s, "cancel", sel)

Works(s) ==
  \/ Recover(s) \/ SubmitStore(s) \/ CreateJournal(s) \/ BindJournal(s) \/ OpenJournal(s)
  \/ Plan(s) \/ Facts(s) \/ Resume(s) \/ Cancel(s) \/ LanesDone(s) \/ ChildrenStarted(s)
  \/ Settling(s) \/ RunEnd(s) \/ Answer(s)
  \/ \E l \in Lanes : \/ Delegate(s, l) \/ InspectLane(s, l) \/ CancelLaneQuietly(s, l)
                      \/ CancelLane(s, l) \/ StartChild(s, l) \/ Settle(s, l) \/ EndChild(s, l)

Next ==
  \/ \E s \in Servers : Calls(s) \/ Works(s) \/ CallFails(s) \/ Crash(s)
  \/ \E l \in Lanes : TaskEnds(l) \/ TaskAsks(l) \/ TaskDisturbed(l)

Spec == Init /\ [][Next]_vars

\* Servers go on with a call they began, a client asks for the whole run again
\* and again between other calls, and a task ends by its deadline.
FairSpec ==
  /\ Spec
  /\ \A s \in Servers : WF_vars(Works(s)) /\ SF_vars(Begin(s, "resume", Lanes))
  /\ \A l \in Lanes : WF_vars(TaskEnds(l))

------------------------------------------------------------------------------
(* Properties *)

Memory ==
  [pc : Fallible \cup {"idle", "delegate", "lanes"},
   op : Submitting \cup {"none", "resume", "cancel", "inspect"},
   sel : SUBSET Lanes, todo : SUBSET Lanes, kill : SUBSET Lanes,
   final : SUBSET Lanes, ending : SUBSET Lanes, lane : [Lanes -> LaneStates],
   record : {"none", "bare", "full"}, known : BOOLEAN]

\* The files, the tasks and the memory of a server keep their shape, and a
\* scheduler knows only a run whose record has its assignments.
TypeOK ==
  /\ store \in BOOLEAN
  /\ plan \in [saved : BOOLEAN, dispatched : SUBSET Lanes]
  /\ journal \in [made : BOOLEAN, opened : BOOLEAN, started : SUBSET Lanes,
                  outcome : [Lanes -> Outcomes \cup {"none"}], ended : Outcomes \cup {"none"}]
  /\ task \in [Lanes -> TaskViews]
  /\ server \in [Servers -> Memory]
  /\ \A s \in Servers : server[s].known => server[s].record = "full"
  /\ crashes \in 0..MaxCrashes
  /\ delegated \in [Lanes -> Nat]
  /\ answered \in BOOLEAN

\* Whatever is submitted again, by which server, after which failure or death,
\* a lane is handed to delegateTask at most once (run-scheduler.mjs, "one
\* submission"; run-runtime.mjs:1558, created).
OneDelegation == \A l \in Lanes : delegated[l] <= 1

\* The journal says of a lane only what its task came to, whoever wrote it and
\* however old the scheduler's memory was (acceptChildTerminal).
OutcomeTruthful ==
  \A l \in Lanes : journal.outcome[l] # "none" => journal.outcome[l] = task[l]

\* A run is ended when the tasks of all deciding lanes are, with the outcome
\* they amount to (maybeRunTerminal).
RunOutcomeTruthful ==
  journal.ended # "none" =>
    /\ \A l \in Deciding : task[l] \in Outcomes
    /\ journal.ended = RunOutcome({task[l] : l \in Deciding})

\* A lane whose cancel the scheduler calls confirmed has a cancelled task, and
\* the plan calls only lanes dispatched that have a task (cancelLane; Facts).
CancelTruthful ==
  /\ \A s \in Servers, l \in Lanes :
       ConfirmedCancelled(server[s].lane[l]) => task[l] = "cancelled"
  /\ \A l \in plan.dispatched : task[l] # "none"

\* docs/run-runtime.md:62: however submissions and restarts interleave, one
\* provider dispatch: when a submission was answered and none is under way,
\* each lane was handed to delegateTask once.
ExactlyOneDispatch ==
  answered /\ (\A s \in Servers : server[s].op \notin Submitting)
    => \A l \in Lanes : delegated[l] = 1

\* Once every deciding lane is dispatched, a client that keeps resuming the run
\* sees it end (resumeRun, maybeRunTerminal).
RunEnds == Deciding \subseteq plan.dispatched ~> journal.ended # "none"
=============================================================================
