---------------------------- MODULE RunAdmission ----------------------------
(***************************************************************************)
(* Admission of one run by the servers of a state root (run-admission.mjs, *)
(* run-admission-store.mjs), with the dependencies that the supervisor     *)
(* gives it (createSupervisorRunAdmissionRuntime).                         *)
(*                                                                         *)
(* A server works on its own copy of the record, which it loads once and   *)
(* never again, and saves whole, without comparing.  Its calls for the run *)
(* queue.  Two calls that load at the same time in one server have a copy  *)
(* each, so a "server" here is whoever holds one.                          *)
(*                                                                         *)
(* A task is what inspection, cancellation and the wait for evidence can   *)
(* see of it: TaskLifecycle has what is behind.                            *)
(***************************************************************************)
EXTENDS Integers, FiniteSets

CONSTANTS
  Servers,
  LaneCount,  \* the lanes are numbered in the order of the plan
  Required,   \* the lanes that are not optional
  Plain,      \* lanes whose task neither asks, fails, is lost nor resists inspection or cancel
  MaxFaults   \* how often a server may die or fail to save

Lanes == 1..LaneCount
None == [phase |-> "none"]

ASSUME AdmissionAssumption ==
  /\ LaneCount \in Nat \ {0}
  /\ Required \subseteq Lanes /\ Plain \subseteq Lanes
  /\ MaxFaults \in Nat

VARIABLES
  disk,       \* the saved record
  mem,        \* the copy of each server
  job,        \* the call a server is in: its place, and the lanes still to do
  made,       \* lanes whose worktree exists
  task,       \* the task of each lane
  granted,    \* the user has consented
  calls,      \* how often submitTask was called for each lane
  solo,       \* no two copies were ever alive at once
  faults

vars == <<disk, mem, job, made, task, granted, calls, solo, faults>>
env == <<made, task, granted, calls>>

-----------------------------------------------------------------------------
(* The record. *)

LanePhases == {"planned", "prepared", "session_ready", "prompt_dispatched", "running",
  "needs_attention", "completed", "partial_handoff", "failed_pre_prompt",
  "unrecoverable_post_prompt", "cancelled"}
RunPhases == {"validating", "awaiting_consent", "preparing_workspaces", "dispatching", "running",
  "needs_attention", "degraded", "completed", "failed", "cancelled"}
Finished == {"completed", "failed", "cancelled"}

\* dispatch_confidence: attempted says that it is not "not_sent", dispatched that it is
\* authoritative.
Confidence == {"not_sent", "uncertain", "authoritative"}

\* recovery_classification.  "failed" has the five that end a lane for good.
Classes == {"none", "pending", "failed", "unobserved", "reconnected", "reconnect_required",
  "unconfirmed", "attention_invalid"}

\* A lane that still needs observation has an error just when it has one of these.
Errors == {"unobserved", "reconnect_required", "unconfirmed", "attention_invalid"}

LaneRecords == [phase : LanePhases, confidence : Confidence, class : Classes]
Records == [phase : RunPhases, cancel : BOOLEAN, confirmed : BOOLEAN,
            asked : SUBSET Lanes, lanes : [Lanes -> LaneRecords]]

NewLane == [phase |-> "planned", confidence |-> "not_sent", class |-> "none"]
NewRecord == [phase |-> "validating", cancel |-> FALSE, confirmed |-> FALSE,
              asked |-> {}, lanes |-> [l \in Lanes |-> NewLane]]

Attempted(lane) == lane.confidence # "not_sent"
Dispatched(lane) == lane.confidence = "authoritative"

TerminalLane(lane) ==
  \/ lane.phase \in {"completed", "failed_pre_prompt", "cancelled"}
  \/ lane.phase \in {"partial_handoff", "unrecoverable_post_prompt"} /\ lane.class = "failed"

\* Variant for mutation: only lanes whose prompt is known to be sent are observed.
NeedsObservationIfSent(lane) == Dispatched(lane) /\ ~TerminalLane(lane)

NeedsObservation(lane) == Attempted(lane) /\ ~TerminalLane(lane)

PendingDispatch(lane) ==
  /\ lane.confidence = "uncertain"
  /\ lane.phase \in {"session_ready", "running"}
  /\ lane.class \in {"pending", "reconnected"}

RequiredDispatched(r) == \A l \in Required : Dispatched(r.lanes[l])
PromptEvidence(r) == \E l \in Lanes : Attempted(r.lanes[l])

Stopped(lane) == lane.phase \in {"cancelled", "completed"}

\* finishLane with the phase a lane ends in.
FailedLane(lane) == [lane EXCEPT !.phase = "failed_pre_prompt"]

\* Variant for mutation: a phase that no reader knows.
CancelledLaneMisspelt(lane) == [lane EXCEPT !.phase = "canceled"]

CancelledLane(lane) ==
  [lane EXCEPT !.phase = "cancelled", !.class = "none"]

\* Variant for mutation: that a lane is required is forgotten.
VerifiedStopped(r) == \A l \in Lanes : Stopped(r.lanes[l])

\* verifyRun as the supervisor injects it, and what reconcile asks beside it.
Verified(r) ==
  /\ \A l \in Lanes : Stopped(r.lanes[l])
  /\ \A l \in Required : r.lanes[l].phase = "completed" /\ Dispatched(r.lanes[l])

-----------------------------------------------------------------------------
(* Calls and saving. *)

Go(place, todo) == [at |-> place, todo |-> todo, dirty |-> FALSE]
Idle == Go("idle", {})
At(s, place) == job[s].at = place

\* persist, after which the copy becomes kept.  The copy has changed even if the save fails; the
\* call then goes on at failed.
SaveAndKeep(s, r, kept, next, failed) ==
  /\ UNCHANGED solo
  /\ \/ /\ disk' = r
        /\ mem' = [mem EXCEPT ![s] = kept]
        /\ job' = [job EXCEPT ![s] = next]
        /\ UNCHANGED faults
     \/ /\ faults < MaxFaults
        /\ faults' = faults + 1
        /\ mem' = [mem EXCEPT ![s] = r]
        /\ job' = [job EXCEPT ![s] = failed]
        /\ UNCHANGED disk

Save(s, r, next, failed) == SaveAndKeep(s, r, r, next, failed)

\* A step that only changes the copy.
Keep(s, r, next) ==
  /\ mem' = [mem EXCEPT ![s] = r]
  /\ job' = [job EXCEPT ![s] = next]
  /\ UNCHANGED <<disk, solo, faults>>

\* The server has the record and is in no call for the run.
Usable(s) == At(s, "idle") /\ mem[s] # None

Alone(s) == \A o \in Servers \ {s} : mem[o] = None

\* loadRecord: the first call for the run that finds it on disk.
Load(s) ==
  /\ At(s, "idle") /\ mem[s] = None /\ disk # None
  /\ mem' = [mem EXCEPT ![s] = disk]
  /\ solo' = (solo /\ Alone(s))
  /\ UNCHANGED <<disk, job, env, faults>>

Crash(s) ==
  /\ mem[s] # None /\ faults < MaxFaults
  /\ mem' = [mem EXCEPT ![s] = None]
  /\ job' = [job EXCEPT ![s] = Idle]
  /\ faults' = faults + 1
  /\ UNCHANGED <<disk, env, solo>>

-----------------------------------------------------------------------------
(* submitRunRequest, requestConsent and the consent part of replyRun. *)

\* submitRunRequest finds no record: another server may be about to save its own.
Submit(s) ==
  /\ At(s, "idle") /\ mem[s] = None /\ disk = None
  /\ mem' = [mem EXCEPT ![s] = NewRecord]
  /\ job' = [job EXCEPT ![s] = Go("create", {})]
  /\ solo' = (solo /\ Alone(s))
  /\ UNCHANGED <<disk, env, faults>>

Create(s) ==
  /\ At(s, "create")
  /\ Save(s, mem[s], Go("ask", {}), Idle)
  /\ UNCHANGED env

\* requestConsent saves the request before it enters the callback of the host.
Ask(s) ==
  /\ Save(s, [mem[s] EXCEPT !.phase = "awaiting_consent"], Go("consent", {}), Idle)
  /\ UNCHANGED env

AskConsent(s) == At(s, "ask") /\ Ask(s)

\* replyRun, which goes on with the consent: request_consent, or an approval_ref that
\* verifyConsent accepts.
Waiting(s) == At(s, "idle") /\ mem[s].phase = "awaiting_consent" /\ ~mem[s].cancel
AskAgain(s) == Waiting(s) /\ Ask(s)
ApproveByReference(s) ==
  /\ Waiting(s)
  /\ granted' = TRUE
  /\ Keep(s, mem[s], Go("admit", {}))
  /\ UNCHANGED <<made, task, calls>>

\* No decision, a request that was aborted, a host that failed: the run can be opened again.
ConsentStays(s) ==
  /\ At(s, "consent")
  /\ Save(s, mem[s], Idle, Idle)
  /\ UNCHANGED env

\* failAdmission
FailedAdmission(r) ==
  [r EXCEPT !.phase = "failed",
            !.lanes = [l \in Lanes |-> FailedLane(r.lanes[l])]]

ConsentDeclined(s) ==
  /\ At(s, "consent")
  /\ Save(s, FailedAdmission(mem[s]), Idle, Idle)
  /\ UNCHANGED env

\* The callback approves.
Approve(s) ==
  /\ At(s, "consent")
  /\ granted' = TRUE
  /\ Save(s, mem[s], Go("admit", {}), Idle)
  /\ UNCHANGED <<made, task, calls>>

-----------------------------------------------------------------------------
(* admit *)

AdmitRun(s) ==
  /\ At(s, "admit")
  /\ Save(s, [mem[s] EXCEPT !.phase = "preparing_workspaces"], Go("prepare", Lanes), Idle)
  /\ UNCHANGED env

\* A provider, the boundary or the repository is not ready.
NotReady(s) ==
  /\ At(s, "prepare") /\ job[s].todo = Lanes
  /\ Save(s, FailedAdmission(mem[s]), Idle, Idle)
  /\ UNCHANGED env

\* prepareWorkspace, for all lanes at once.  A worktree is made once, and stays.
Prepare(s, l) ==
  /\ At(s, "prepare") /\ l \in job[s].todo /\ l \notin made
  /\ made' = made \cup {l}
  /\ Keep(s, [mem[s] EXCEPT !.lanes[l].phase = "prepared"], Go("prepare", job[s].todo \ {l}))
  /\ UNCHANGED <<task, granted, calls>>

PrepareFails(s, l) ==
  /\ At(s, "prepare") /\ l \in job[s].todo
  /\ Keep(s, mem[s], Go("prepare", job[s].todo \ {l}))
  /\ UNCHANGED env

AllPrepared(r) == \A l \in Lanes : r.lanes[l].phase = "prepared"

\* All have been tried.
Prepared(s) ==
  /\ At(s, "prepare") /\ job[s].todo = {}
  /\ IF AllPrepared(mem[s]) THEN Save(s, mem[s], Go("begin", {}), Idle)
     ELSE Save(s, FailedAdmission(mem[s]), Idle, Idle)
  /\ UNCHANGED env

-----------------------------------------------------------------------------
(* dispatch *)

Begin(s) ==
  /\ At(s, "begin")
  /\ Save(s, [mem[s] EXCEPT !.phase = "dispatching"], Go("session", Lanes), Idle)
  /\ UNCHANGED env

\* The lane whose turn it is, and the call after it.
Turn(s, l) == l \in job[s].todo /\ \A k \in job[s].todo : l <= k
AfterTurn(s, l) ==
  LET rest == job[s].todo \ {l} IN IF rest = {} THEN Go("wrap", {}) ELSE Go("session", rest)
Wrap == Go("wrap", {})

\* The catch clause of a lane, for an error that says nothing of the prompt.
Thrown(r, l) ==
  LET failed == [r EXCEPT !.lanes[l] = FailedLane(r.lanes[l])]
  IN  [failed EXCEPT !.phase = IF PromptEvidence(r) THEN "degraded" ELSE "failed"]

\* createSession, which only notes that the worker will make one.
Session(s, l) ==
  /\ At(s, "session") /\ Turn(s, l)
  /\ Save(s, [mem[s] EXCEPT !.lanes[l].phase = "session_ready"],
          Go("submit", job[s].todo), Go("throw", job[s].todo))
  /\ UNCHANGED env

Faulty(l, plain, other) == IF l \in Plain THEN plain ELSE plain \cup other

\* submitTask makes the task and launches its worker.
SubmitTask(s, l) ==
  /\ At(s, "submit") /\ Turn(s, l)
  /\ calls' = [calls EXCEPT ![l] = @ + 1]
  /\ task[l].status = "absent"
  /\ task' = [task EXCEPT ![l].status = "active"]
  /\ Keep(s, mem[s], Go("evidence", job[s].todo))
  /\ UNCHANGED <<made, granted>>

\* It refuses, or the launch fails: the task has failed, or is lost with a worker that could
\* not be stopped.
SubmitTaskThrows(s, l) ==
  /\ At(s, "submit") /\ Turn(s, l)
  /\ calls' = [calls EXCEPT ![l] = @ + 1]
  /\ \/ UNCHANGED task
     \/ /\ task[l].status = "absent"
        /\ \E end \in Faulty(l, {}, {"failed", "lost"}), sent \in BOOLEAN :
             task' = [task EXCEPT ![l] = [status |-> end, intent |-> sent, evidence |-> FALSE]]
  /\ Keep(s, mem[s], Go("throw", job[s].todo))
  /\ UNCHANGED <<made, granted>>

Throw(s, l) ==
  /\ At(s, "throw") /\ Turn(s, l)
  /\ Save(s, Thrown(mem[s], l), Wrap, Idle)
  /\ UNCHANGED env

Live(t) == t.status \in {"active", "asking", "answered", "cancelling"}
Ended(t) == t.status \in {"completed", "failed", "cancelled", "lost"}

\* The prompt is known to be sent.
EvidenceSeen(s, l) ==
  /\ At(s, "evidence") /\ Turn(s, l) /\ task[l].evidence
  /\ Save(s, [mem[s] EXCEPT !.lanes[l].phase = "prompt_dispatched",
                            !.lanes[l].confidence = "authoritative"],
          AfterTurn(s, l), Go("throw", job[s].todo))
  /\ UNCHANGED env

\* The task ended before it meant to send it.
EvidenceNever(s, l) ==
  /\ At(s, "evidence") /\ Turn(s, l) /\ Ended(task[l]) /\ ~task[l].evidence
  /\ task[l].status # "completed" /\ ~task[l].intent
  /\ Save(s, Thrown(mem[s], l), Wrap, Go("throw", job[s].todo))
  /\ UNCHANGED env

\* The task ended and may have sent it, or is being cancelled, or blocked by its environment (a
\* kind of "failed"), when the wait runs out.  The run is degraded, which this save does not know.
EvidenceLost(s, l) ==
  LET r == [mem[s] EXCEPT !.lanes[l] = [phase |-> "unrecoverable_post_prompt",
              confidence |-> "uncertain", class |-> "failed"]] IN
  /\ At(s, "evidence") /\ Turn(s, l) /\ ~task[l].evidence
  /\ \/ Ended(task[l]) /\ (task[l].status = "completed" \/ task[l].intent)
     \/ task[l].status \in {"cancelling", "failed"}
  /\ SaveAndKeep(s, r, [r EXCEPT !.phase = "degraded"], Wrap, Go("throw", job[s].todo))
  /\ UNCHANGED env

\* Variant for mutation: the task is submitted again.
EvidencePendingRetried(s, l) ==
  /\ At(s, "evidence") /\ Turn(s, l) /\ task[l].status = "active" /\ ~task[l].evidence
  /\ Keep(s, mem[s], Go("submit", job[s].todo))
  /\ UNCHANGED env

\* The wait for evidence runs out while the task goes on.
EvidencePending(s, l) ==
  /\ At(s, "evidence") /\ Turn(s, l) /\ task[l].status \in {"active", "asking", "answered"} /\ ~task[l].evidence
  /\ Save(s, [mem[s] EXCEPT !.lanes[l].confidence = "uncertain", !.lanes[l].class = "pending"],
          AfterTurn(s, l), Go("throw", job[s].todo))
  /\ UNCHANGED env

\* The task cannot be read.
EvidenceUnread(s) ==
  /\ At(s, "evidence") /\ faults < MaxFaults
  /\ faults' = faults + 1
  /\ job' = [job EXCEPT ![s].at = "throw"]
  /\ UNCHANGED <<disk, mem, env, solo>>

\* The end of dispatch: lanes without a turn fail, and the run gets its phase.
Wrapped(r) ==
  LET lanes == [l \in Lanes |-> IF r.lanes[l].phase \in {"prepared", "planned"}
                                THEN FailedLane(r.lanes[l]) ELSE r.lanes[l]]
      done == [r EXCEPT !.lanes = lanes]
  IN  [done EXCEPT !.phase =
         IF r.phase # "dispatching" THEN r.phase
         ELSE IF RequiredDispatched(done) THEN "running"
         ELSE IF \E l \in Lanes : PendingDispatch(lanes[l]) THEN "dispatching"
         ELSE IF PromptEvidence(done) THEN "degraded" ELSE "failed"]

WrapUp(s) ==
  /\ At(s, "wrap")
  /\ Save(s, Wrapped(mem[s]), Idle, Idle)
  /\ UNCHANGED env

-----------------------------------------------------------------------------
(* reconcile: inspectRun, resumeRun and waitRun, and replyRun after an attention reply. *)

ToObserve(r) == {l \in Lanes : NeedsObservation(r.lanes[l])}
Open(s) == Usable(s) /\ mem[s].phase \notin Finished \cup {"awaiting_consent"}

Inspect(s) ==
  /\ Open(s)
  /\ job' = [job EXCEPT ![s] = Go("look", ToObserve(mem[s]))]
  /\ UNCHANGED <<disk, mem, env, solo, faults>>

\* What every answer of inspectLane does to the lane first: evidence turns a pending dispatch
\* into a certain one, and an answer ends the recovery from a failed inspection.
Promoted(lane, t) ==
  IF t.evidence /\ ~Dispatched(lane)
  THEN [lane EXCEPT !.confidence = "authoritative",
          !.class = IF @ = "pending" THEN "none" ELSE @,
          !.phase = IF @ \in {"session_ready", "unrecoverable_post_prompt"}
                    THEN "prompt_dispatched" ELSE @]
  ELSE lane

Recovered(lane, t) ==
  IF lane.class = "unobserved" /\ t.status # "failed"
  THEN [lane EXCEPT !.phase = IF @ = "partial_handoff" THEN "running" ELSE @,
                    !.class = "none"]
  ELSE lane

\* The lane after an answer that needs no further call, by the status of the task.
Observed(lane, t) ==
  LET seen == Recovered(Promoted(lane, t), t) IN
  CASE t.status = "completed" ->
         IF Dispatched(seen) THEN [seen EXCEPT !.phase = "completed"]
         ELSE [seen EXCEPT !.phase = "unrecoverable_post_prompt", !.class = "failed"]
    [] t.status = "cancelled" -> CancelledLane(seen)
    [] t.status = "failed" ->
         [seen EXCEPT !.class = "failed",
            !.phase = IF PendingDispatch(seen) THEN "unrecoverable_post_prompt"
                      ELSE IF Dispatched(seen) THEN "partial_handoff" ELSE "failed_pre_prompt"]
    [] t.status = "lost" ->
         [seen EXCEPT !.phase = "running", !.class = "reconnect_required"]
    [] t.status \in {"asking", "answered"} -> [seen EXCEPT !.phase = "needs_attention"]
    [] OTHER -> [seen EXCEPT !.phase = IF @ = "prompt_dispatched" THEN "running" ELSE @]

\* The next lane; dirty when the copy has changed since the call began.
Rest(s, l, r) == [Go("look", job[s].todo \ {l}) EXCEPT !.dirty = job[s].dirty \/ r # mem[s]]
Seen(s, l, r) == Keep(s, r, Rest(s, l, r))
Looking(s, l) == At(s, "look") /\ Turn(s, l)

Look(s, l) ==
  LET r == [mem[s] EXCEPT !.lanes[l] = Observed(@, task[l]),
                          !.asked = IF task[l].status \in {"asking", "answered"}
                                    THEN @ \cup {l} ELSE @] IN
  /\ Looking(s, l)
  /\ Seen(s, l, r)
  /\ UNCHANGED env

\* A question that cannot be read, or that was answered between the read of the record and
\* that of attention.json: this step stands where the record was read.
LookAttentionInvalid(s, l) ==
  LET seen == Recovered(Promoted(mem[s].lanes[l], task[l]), task[l]) IN
  /\ Looking(s, l) /\ l \notin Plain /\ task[l].status = "asking"
  /\ Seen(s, l, [mem[s] EXCEPT !.lanes[l] =
       [seen EXCEPT !.phase = "partial_handoff", !.class = "attention_invalid"]])
  /\ UNCHANGED env

\* reconnectLane gets the session back.
LookReconnects(s, l) ==
  LET seen == Recovered(Promoted(mem[s].lanes[l], task[l]), task[l]) IN
  /\ Looking(s, l) /\ task[l].status = "lost"
  /\ task' = [task EXCEPT ![l].status = "active"]
  /\ Seen(s, l, [mem[s] EXCEPT !.lanes[l] =
       [seen EXCEPT !.phase = "running", !.class = "reconnected"]])
  /\ UNCHANGED <<made, granted, calls>>

\* An inspection that fails is no proof that the provider stopped.
LookFails(s, l) ==
  LET lane == mem[s].lanes[l]
      p == IF lane.phase = "prompt_dispatched" \/ lane.class = "unobserved"
           THEN "running" ELSE lane.phase
  IN
  /\ Looking(s, l) /\ l \notin Plain
  /\ Seen(s, l, [mem[s] EXCEPT !.lanes[l] = [lane EXCEPT !.phase = p, !.class = "unobserved"]])
  /\ UNCHANGED env

\* The phase at the end of reconcile.
Reconciled(r) ==
  LET lanes == r.lanes
      Some(P(_)) == \E l \in Lanes : P(lanes[l])
      Asks(lane) == lane.phase = "needs_attention"
      Troubled(lane) ==
        \/ lane.phase \in {"partial_handoff", "unrecoverable_post_prompt"}
        \/ NeedsObservation(lane) /\ lane.class \in Errors
      ended == \A l \in Lanes : TerminalLane(lanes[l])
  IN
  IF r.cancel /\ ended
  THEN [r EXCEPT !.phase = "cancelled", !.confirmed = \A l \in Lanes : Stopped(lanes[l])]
  ELSE [r EXCEPT !.phase =
    IF Some(Asks) THEN "needs_attention"
    ELSE IF Some(Troubled) THEN "degraded"
    ELSE IF ended THEN (IF Verified(r) THEN "completed" ELSE "failed")
    ELSE IF RequiredDispatched(r) THEN "running"
    ELSE IF Some(PendingDispatch) THEN "dispatching" ELSE @]

Reconcile(s) ==
  /\ At(s, "look") /\ job[s].todo = {}
  /\ Save(s, Reconciled(mem[s]), Idle, Idle)
  /\ UNCHANGED env

\* A record that is as it was is not saved.
ReconcileUnchanged(s) ==
  /\ At(s, "look") /\ job[s].todo = {} /\ ~job[s].dirty
  /\ Reconciled(mem[s]) = mem[s]
  /\ Keep(s, mem[s], Idle)
  /\ UNCHANGED env

\* replyRun with an attention_reply: the questions that are still open get their answer, and the
\* lanes go on if all of them took it.
Reply(s) ==
  LET asked == mem[s].asked
      answered == [mem[s] EXCEPT !.asked = {}, !.lanes = [l \in Lanes |->
        IF mem[s].lanes[l].phase = "needs_attention"
        THEN [mem[s].lanes[l] EXCEPT !.phase = "running"] ELSE mem[s].lanes[l]]]
  IN
  /\ Usable(s) /\ ~mem[s].cancel /\ asked # {}
  /\ \E took \in SUBSET {l \in asked : task[l].status \in {"asking", "answered"}} :
       LET r == IF took = asked THEN answered ELSE mem[s] IN
       /\ task' = [l \in Lanes |->
            IF l \in took THEN [task[l] EXCEPT !.status = "answered"] ELSE task[l]]
       /\ Save(s, r, IF r.phase \in Finished THEN Idle ELSE Go("look", ToObserve(r)), Idle)
  /\ UNCHANGED <<made, granted, calls>>

-----------------------------------------------------------------------------
(* cancelRun *)

\* Variant for mutation: a run that has ended can be cancelled.
CancelLate(s) ==
  /\ Usable(s)
  /\ Save(s, [mem[s] EXCEPT !.cancel = TRUE], Go("cancel", Lanes), Idle)
  /\ UNCHANGED env

Cancel(s) ==
  /\ Usable(s) /\ mem[s].phase \notin Finished
  /\ Save(s, [mem[s] EXCEPT !.cancel = TRUE], Go("cancel", Lanes), Idle)
  /\ UNCHANGED env

\* Variant for mutation: a prompt that may have been sent counts as not sent.
UnpromptedForSure(r) == r.phase = "awaiting_consent" \/ \A l \in Lanes : ~Dispatched(r.lanes[l])

Unprompted(r) == r.phase = "awaiting_consent" \/ ~PromptEvidence(r)

\* A lane that a cancel leaves alone.
Closed(lane) == TerminalLane(lane) /\ lane.class # "unobserved"

\* Nothing has been sent: the run is cancelled without a call.
CancelUnprompted(s) ==
  /\ At(s, "cancel") /\ job[s].todo = Lanes /\ Unprompted(mem[s])
  /\ Save(s, [mem[s] EXCEPT !.phase = "cancelled", !.confirmed = TRUE,
        !.lanes = [l \in Lanes |-> IF Closed(mem[s].lanes[l]) THEN mem[s].lanes[l]
                   ELSE [mem[s].lanes[l] EXCEPT !.phase = "cancelled"]]],
        Idle, Idle)
  /\ UNCHANGED env

Cancelling(s, l) ==
  /\ At(s, "cancel") /\ Turn(s, l)
  /\ job[s].todo = Lanes => ~Unprompted(mem[s])

CancelGoesOn(s, l, lane) ==
  Keep(s, [mem[s] EXCEPT !.lanes[l] = lane], Go("cancel", job[s].todo \ {l}))

CancelSkips(s, l) ==
  /\ Cancelling(s, l) /\ Closed(mem[s].lanes[l])
  /\ CancelGoesOn(s, l, mem[s].lanes[l])
  /\ UNCHANGED env

\* cancelTask stops the task, or finds it cancelled.
CancelConfirmed(s, l) ==
  /\ Cancelling(s, l) /\ ~Closed(mem[s].lanes[l])
  /\ Live(task[l]) \/ task[l].status = "cancelled"
  /\ task' = [task EXCEPT ![l].status = "cancelled"]
  /\ CancelGoesOn(s, l, [mem[s].lanes[l] EXCEPT !.phase = "cancelled"])
  /\ UNCHANGED <<made, granted, calls>>

\* It cannot prove the end, the task is missing or ended another way, or the call fails.
CancelUnconfirmed(s, l) ==
  /\ Cancelling(s, l) /\ ~Closed(mem[s].lanes[l])
  /\ l \in Plain => ~Live(task[l]) /\ task[l].status # "cancelled"
  /\ \/ UNCHANGED task
     \/ /\ Live(task[l])
        /\ \E end \in {"cancelling", "lost"} : task' = [task EXCEPT ![l].status = end]
  /\ CancelGoesOn(s, l, [mem[s].lanes[l] EXCEPT
       !.phase = IF Attempted(mem[s].lanes[l]) THEN "running" ELSE "failed_pre_prompt",
       !.class = "unconfirmed"])
  /\ UNCHANGED <<made, granted, calls>>

CancelEnd(s) ==
  LET confirmed == \A l \in Lanes : Stopped(mem[s].lanes[l]) IN
  /\ At(s, "cancel") /\ job[s].todo = {}
  /\ Save(s, [mem[s] EXCEPT !.confirmed = confirmed,
                            !.phase = IF confirmed THEN "cancelled" ELSE "degraded"], Idle, Idle)
  /\ UNCHANGED env

-----------------------------------------------------------------------------
(* The tasks. *)

TaskSteps(l, t) ==
  /\ task' = [task EXCEPT ![l] = t]
  /\ UNCHANGED <<disk, mem, job, made, granted, calls, solo, faults>>

TaskPrompts(l) ==
  /\ task[l].status \in {"active", "asking"} /\ ~task[l].intent
  /\ TaskSteps(l, [task[l] EXCEPT !.intent = TRUE, !.evidence = l \in Plain])

TaskConfirms(l) ==
  /\ task[l].status \in {"active", "asking"} /\ task[l].intent /\ ~task[l].evidence
  /\ TaskSteps(l, [task[l] EXCEPT !.evidence = TRUE])

\* The agent asks, or an inspection finds the task silent for too long and asks in its name.
\* A session that hangs for so long before the prompt is left out, to keep the instance small.
TaskAsks(l) ==
  /\ l \notin Plain /\ task[l].status = "active" /\ task[l].intent
  /\ TaskSteps(l, [task[l] EXCEPT !.status = "asking"])

TaskGoesOn(l) ==
  /\ task[l].status = "answered"
  /\ TaskSteps(l, [task[l] EXCEPT !.status = "active"])

TaskEnds(l) ==
  /\ Live(task[l])
  /\ \E end \in Faulty(l, {"completed"}, {"failed", "lost", "cancelled"})
                 \cup (IF task[l].status = "cancelling" THEN {"cancelled"} ELSE {}) :
       /\ end = "completed" => task[l].intent
       /\ TaskSteps(l, [task[l] EXCEPT !.status = end])

-----------------------------------------------------------------------------

NewTask == [status |-> "absent", intent |-> FALSE, evidence |-> FALSE]

Init ==
  /\ disk = None
  /\ mem = [s \in Servers |-> None]
  /\ job = [s \in Servers |-> Idle]
  /\ made = {}
  /\ task = [l \in Lanes |-> NewTask]
  /\ granted = FALSE
  /\ calls = [l \in Lanes |-> 0]
  /\ solo = TRUE
  /\ faults = 0

Consent(s) ==
  Create(s) \/ AskConsent(s) \/ ConsentStays(s) \/ ConsentDeclined(s) \/ Approve(s)
Admit(s) ==
  \/ AdmitRun(s) \/ NotReady(s) \/ Prepared(s)
  \/ \E l \in Lanes : Prepare(s, l) \/ PrepareFails(s, l)
Dispatch(s) ==
  \/ Begin(s) \/ EvidenceUnread(s) \/ WrapUp(s)
  \/ \E l \in Lanes :
       \/ Session(s, l) \/ SubmitTask(s, l) \/ SubmitTaskThrows(s, l) \/ Throw(s, l)
       \/ EvidenceSeen(s, l) \/ EvidenceNever(s, l) \/ EvidenceLost(s, l) \/ EvidencePending(s, l)
Observe(s) ==
  \/ Reconcile(s) \/ ReconcileUnchanged(s)
  \/ \E l \in Lanes :
       Look(s, l) \/ LookAttentionInvalid(s, l) \/ LookReconnects(s, l) \/ LookFails(s, l)
DoCancel(s) ==
  \/ CancelUnprompted(s) \/ CancelEnd(s)
  \/ \E l \in Lanes : CancelSkips(s, l) \/ CancelConfirmed(s, l) \/ CancelUnconfirmed(s, l)

\* A server goes on with the call it is in.
Step(s) == Consent(s) \/ Admit(s) \/ Dispatch(s) \/ Observe(s) \/ DoCancel(s)

Call(s) ==
  Submit(s) \/ AskAgain(s) \/ ApproveByReference(s) \/ Inspect(s) \/ Reply(s) \/ Cancel(s)

TaskNext(l) ==
  TaskPrompts(l) \/ TaskConfirms(l) \/ TaskAsks(l) \/ TaskGoesOn(l) \/ TaskEnds(l)

Next ==
  \/ \E s \in Servers : Load(s) \/ Call(s) \/ Step(s) \/ Crash(s)
  \/ \E l \in Lanes : TaskNext(l)

Spec == Init /\ [][Next]_vars

\* A task goes on and is not lost for ever.
TaskLives(l) == (TaskPrompts(l) \/ TaskEnds(l)) /\ task'[l].status # "lost"

\* A server goes on with its call, and somebody keeps inspecting.
FairSpec ==
  /\ Spec
  /\ \A s \in Servers : WF_vars(Load(s) \/ Step(s)) /\ SF_vars(Inspect(s))
  /\ \A l \in Lanes : SF_vars(TaskLives(l))

-----------------------------------------------------------------------------
(* Properties *)

Places == {"idle", "create", "ask", "consent", "admit", "prepare", "begin", "session", "submit",
  "evidence", "throw", "wrap", "look", "cancel"}
TaskStates == {"absent", "active", "asking", "answered", "cancelling", "completed", "failed",
  "cancelled", "lost"}

TypeOK ==
  /\ disk \in Records \cup {None}
  /\ mem \in [Servers -> Records \cup {None}]
  /\ job \in [Servers -> [at : Places, todo : SUBSET Lanes, dirty : BOOLEAN]]
  /\ made \subseteq Lanes
  /\ task \in [Lanes -> [status : TaskStates, intent : BOOLEAN, evidence : BOOLEAN]]
  /\ granted \in BOOLEAN
  /\ calls \in [Lanes -> Nat]
  /\ solo \in BOOLEAN
  /\ faults \in 0..MaxFaults

\* No task before the user has consented and every lane has its worktree, and no lane is sent
\* twice: not by another server, after a crash, or because the evidence of the first time is
\* missing (run-admission.mjs:1258, 1333).
Admitted ==
  \A l \in Lanes : calls[l] <= 1 /\ (calls[l] = 1 => granted /\ made = Lanes)

\* A run that was saved as completed did what is required of it: the task of each lane that is
\* not optional has completed, and its prompt is known to have been sent
\* (run-admission.mjs:681, 1752-1770).
CompletedIsTrue ==
  disk # None /\ disk.phase = "completed" =>
    \A l \in Required : task[l].status = "completed" /\ task[l].evidence

\* One copy of the record at a time, whose server neither died nor failed to save.
Trusted == solo /\ faults = 0

\* When a run has ended no task of it goes on: a cancel reports only what it has confirmed, and
\* a dispatch whose evidence is missing is not given up (run-admission.mjs:675, 692,
\* 2011-2070). "Never report a terminal run while an owned ... task is still active"
\* (docs/adr/0002-native-run-lifecycle.md:18).
FinishedMeansStopped ==
  disk # None /\ disk.phase \in Finished /\ Trusted => \A l \in Lanes : ~Live(task[l])

\* A run that has ended stays what it is, whatever calls come late and whichever saves fail
\* (run-admission.mjs:678, 1518, 1909, 2018).
TerminalIsFinal ==
  [][solo' /\ disk # None /\ disk.phase \in Finished => disk'.phase = disk.phase]_vars

\* A run that was admitted ends, or asks for the user, as long as somebody keeps inspecting it: no
\* lane is forgotten because its evidence, its session or its inspection failed
\* (run-admission.mjs:1512-1785).
RunSettles ==
  (disk # None /\ disk.phase \in {"preparing_workspaces", "dispatching", "running"})
    ~> (~Trusted \/ disk.phase \in Finished \cup {"degraded", "needs_attention"})
=============================================================================
