------------------------- MODULE RunAdmissionProofs -------------------------
(***************************************************************************)
(* Theorems about RunAdmission for any servers and lanes, with crashes and *)
(* failing saves.  What keeps two servers from submitting one lane is that *)
(* a worktree is made once: a server that comes to dispatch has made all   *)
(* of them itself (Held), and submits each lane once (Due).  What a record *)
(* says of its phase follows the moves of every step (PhaseInv), what it   *)
(* says of a lane was true of its task when it was read and stays true     *)
(* (TruthInv), and while the record has one copy at a time, what ends the  *)
(* run has seen its tasks stopped (StopInv).                               *)
(***************************************************************************)
EXTENDS RunAdmission, TLAPS

Jobs == [at : Places, todo : SUBSET Lanes, dirty : BOOLEAN]
Tasks == [status : TaskStates, intent : BOOLEAN, evidence : BOOLEAN]

RecordType ==
  /\ disk \in Records \cup {None}
  /\ mem \in [Servers -> Records \cup {None}]
  /\ job \in [Servers -> Jobs]
  /\ solo \in BOOLEAN
  /\ faults \in 0..MaxFaults
  /\ \A s \in Servers : ~At(s, "idle") => mem[s] \in Records

EnvType ==
  /\ made \subseteq Lanes
  /\ task \in [Lanes -> Tasks]
  /\ granted \in BOOLEAN
  /\ calls \in [Lanes -> Nat]

TypeInv == RecordType /\ EnvType

LEMMA NewLaneType == NewLane \in LaneRecords
  BY DEF NewLane, LaneRecords, LanePhases, Confidence, Classes

LEMMA NewRecordType == NewRecord \in Records
  BY NewLaneType DEF NewRecord, Records, RunPhases

LEMMA NoneIsNone == None \notin Records
  BY DEF None, Records, RunPhases

LEMMA LanesAre == Lanes \subseteq Int
  BY AdmissionAssumption DEF Lanes

LEMMA LaneSet ==
  ASSUME NEW r \in Records, NEW l \in Lanes, NEW lane \in LaneRecords
  PROVE  [r EXCEPT !.lanes[l] = lane] \in Records
  BY DEF Records

LEMMA PhaseSet ==
  ASSUME NEW r \in Records, NEW p \in RunPhases
  PROVE  [r EXCEPT !.phase = p] \in Records
  BY DEF Records

LEMMA LanesSet ==
  ASSUME NEW r \in Records, NEW lanes \in [Lanes -> LaneRecords]
  PROVE  [r EXCEPT !.lanes = lanes] \in Records
  BY DEF Records

LEMMA LanePhaseSet ==
  ASSUME NEW lane \in LaneRecords, NEW p \in LanePhases
  PROVE  [lane EXCEPT !.phase = p] \in LaneRecords
  BY DEF LaneRecords

LEMMA FailedLaneType ==
  ASSUME NEW lane \in LaneRecords
  PROVE  FailedLane(lane) \in LaneRecords
  BY DEF FailedLane, LaneRecords, LanePhases

LEMMA FailedAdmissionType ==
  ASSUME NEW r \in Records
  PROVE  FailedAdmission(r) \in Records
  <1>1. [l \in Lanes |-> FailedLane(r.lanes[l])] \in [Lanes -> LaneRecords]
    BY FailedLaneType DEF Records
  <1> QED BY <1>1 DEF FailedAdmission, Records, RunPhases

LEMMA ThrownType ==
  ASSUME NEW r \in Records, NEW l \in Lanes
  PROVE  Thrown(r, l) \in Records
  <1>1. [r EXCEPT !.lanes[l] = FailedLane(r.lanes[l])] \in Records
    BY FailedLaneType, LaneSet DEF Records
  <1> QED BY <1>1, PhaseSet DEF Thrown, RunPhases

LEMMA WrappedType ==
  ASSUME NEW r \in Records
  PROVE  Wrapped(r) \in Records
  <1> DEFINE lanes == [l \in Lanes |-> IF r.lanes[l].phase \in {"prepared", "planned"}
                                       THEN FailedLane(r.lanes[l]) ELSE r.lanes[l]]
             done == [r EXCEPT !.lanes = lanes]
  <1>1. lanes \in [Lanes -> LaneRecords]
    BY FailedLaneType DEF Records
  <1>2. done \in Records
    BY <1>1, LanesSet
  <1>3. r.phase \in RunPhases
    BY DEF Records
  <1> HIDE DEF done
  <1>4. \A p \in RunPhases : [done EXCEPT !.phase = p] \in Records
    BY <1>2, PhaseSet
  <1> QED BY <1>3, <1>4 DEF Wrapped, done, RunPhases

LEMMA PromotedType ==
  ASSUME NEW lane \in LaneRecords, NEW t
  PROVE  Promoted(lane, t) \in LaneRecords
  BY DEF Promoted, LaneRecords, LanePhases, Confidence, Classes

LEMMA RecoveredType ==
  ASSUME NEW lane \in LaneRecords, NEW t
  PROVE  Recovered(lane, t) \in LaneRecords
  BY DEF Recovered, LaneRecords, LanePhases, Classes

LEMMA ObservedType ==
  ASSUME NEW lane \in LaneRecords, NEW t
  PROVE  Observed(lane, t) \in LaneRecords
  <1> DEFINE seen == Recovered(Promoted(lane, t), t)
  <1>1. seen \in LaneRecords
    BY PromotedType, RecoveredType
  <1> HIDE DEF seen
  <1>2. \A p \in LanePhases : [seen EXCEPT !.phase = p] \in LaneRecords
    BY <1>1 DEF LaneRecords
  <1>3. \A p \in LanePhases, c \in Classes :
          /\ [seen EXCEPT !.phase = p, !.class = c] \in LaneRecords
          /\ [seen EXCEPT !.class = c, !.phase = p] \in LaneRecords
    BY <1>1 DEF LaneRecords
  <1>4. seen.phase \in LanePhases
    BY <1>1 DEF LaneRecords
  <1> QED BY <1>1, <1>2, <1>3, <1>4 DEF Observed, seen, CancelledLane, LanePhases, Classes

LEMMA ReconciledType ==
  ASSUME NEW r \in Records
  PROVE  Reconciled(r) \in Records
  <1>1. \A p \in RunPhases : [r EXCEPT !.phase = p] \in Records
    BY PhaseSet
  <1>2. \A p \in RunPhases, b \in BOOLEAN : [r EXCEPT !.phase = p, !.confirmed = b] \in Records
    BY DEF Records
  <1>3. r.phase \in RunPhases
    BY DEF Records
  <1> QED BY <1>1, <1>2, <1>3 DEF Reconciled, RunPhases

LEMMA SaveType ==
  ASSUME TypeInv, NEW s \in Servers, NEW r \in Records, NEW kept \in Records,
         NEW next \in Jobs, NEW failed \in Jobs, SaveAndKeep(s, r, kept, next, failed)
  PROVE  RecordType'
  BY AdmissionAssumption DEF TypeInv, RecordType, SaveAndKeep, At

LEMMA KeepType ==
  ASSUME TypeInv, NEW s \in Servers, NEW r \in Records, NEW next \in Jobs, Keep(s, r, next)
  PROVE  RecordType'
  BY DEF TypeInv, RecordType, Keep, At

LEMMA EnvKept ==
  ASSUME TypeInv, UNCHANGED env
  PROVE  EnvType'
  BY DEF TypeInv, EnvType, env

LEMMA GoType ==
  ASSUME NEW place \in Places, NEW todo \in SUBSET Lanes
  PROVE  Go(place, todo) \in Jobs
  BY DEF Go, Jobs

LEMMA IdleType == Idle \in Jobs
  BY GoType DEF Idle, Places

LEMMA WrapType == Wrap \in Jobs
  BY GoType DEF Wrap, Places

\* What a server in a call has.
LEMMA InCall ==
  ASSUME TypeInv, NEW s \in Servers
  PROVE  /\ job[s] \in Jobs
         /\ job[s].todo \in SUBSET Lanes
         /\ ~At(s, "idle") => mem[s] \in Records
         /\ mem[s] # None => mem[s] \in Records
  BY DEF TypeInv, RecordType, Jobs

LEMMA AfterTurnType ==
  ASSUME TypeInv, NEW s \in Servers, NEW l
  PROVE  AfterTurn(s, l) \in Jobs
  BY InCall, GoType DEF AfterTurn, Places

LEMMA ConsentType ==
  ASSUME TypeInv, NEW s \in Servers,
         Submit(s) \/ AskAgain(s) \/ ApproveByReference(s) \/ Consent(s)
  PROVE  TypeInv'
  <1> USE DEF Places, TypeInv
  <1>1. CASE Submit(s)
    BY <1>1, EnvKept, GoType, NewRecordType DEF Submit, RecordType, At
  <1>2. CASE AskAgain(s) \/ AskConsent(s)
    <2>1. mem[s] \in Records
      BY <1>2, InCall DEF AskAgain, AskConsent, Waiting, At, None
    <2> QED BY <1>2, <2>1, EnvKept, GoType, IdleType, SaveType, PhaseSet
         DEF AskAgain, AskConsent, Ask, Save, RunPhases
  <1>3. CASE ApproveByReference(s)
    <2>1. mem[s] \in Records
      BY <1>3, InCall DEF ApproveByReference, Waiting, None
    <2>2. RecordType'
      BY <1>3, <2>1, GoType, KeepType DEF ApproveByReference
    <2> QED BY <1>3, <2>2 DEF ApproveByReference, EnvType
  <1>4. CASE Create(s) \/ ConsentStays(s)
    BY <1>4, InCall, EnvKept, GoType, IdleType, SaveType DEF Create, ConsentStays, Save, At
  <1>5. CASE ConsentDeclined(s)
    BY <1>5, InCall, EnvKept, IdleType, SaveType, FailedAdmissionType
       DEF ConsentDeclined, Save, At
  <1>6. CASE Approve(s)
    <2>1. RecordType'
      BY <1>6, InCall, GoType, IdleType, SaveType DEF Approve, Save, At
    <2> QED BY <1>6, <2>1 DEF Approve, EnvType
  <1> QED BY <1>1, <1>2, <1>3, <1>4, <1>5, <1>6 DEF Consent

LEMMA AdmitType ==
  ASSUME TypeInv, NEW s \in Servers, Admit(s)
  PROVE  TypeInv'
  <1> USE DEF Places, TypeInv
  <1>1. CASE AdmitRun(s)
    BY <1>1, InCall, EnvKept, GoType, IdleType, SaveType, PhaseSet DEF AdmitRun, Save, At, RunPhases
  <1>2. CASE NotReady(s) \/ Prepared(s)
    BY <1>2, InCall, EnvKept, GoType, IdleType, SaveType, FailedAdmissionType
       DEF NotReady, Prepared, Save, At
  <1>3. ASSUME NEW l \in Lanes, Prepare(s, l) PROVE TypeInv'
    <2>1. mem[s] \in Records /\ mem[s].lanes[l] \in LaneRecords
      BY <1>3, InCall DEF Prepare, At, Records
    <2>2. [mem[s] EXCEPT !.lanes[l].phase = "prepared"] \in Records
      BY <2>1, LanePhaseSet, LaneSet DEF LanePhases
    <2>3. RecordType'
      BY <1>3, <2>2, InCall, GoType, KeepType DEF Prepare
    <2> QED BY <1>3, <2>3 DEF Prepare, EnvType
  <1>4. ASSUME NEW l \in Lanes, PrepareFails(s, l) PROVE TypeInv'
    BY <1>4, InCall, EnvKept, GoType, KeepType DEF PrepareFails, At
  <1> QED BY <1>1, <1>2, <1>3, <1>4 DEF Admit

LEMMA DispatchType ==
  ASSUME TypeInv, NEW s \in Servers, Dispatch(s)
  PROVE  TypeInv'
  <1> USE DEF Places, TypeInv
  <1>1. CASE Begin(s)
    BY <1>1, InCall, EnvKept, GoType, IdleType, SaveType, PhaseSet DEF Begin, Save, At, RunPhases
  <1>2. CASE EvidenceUnread(s)
    BY <1>2, InCall, EnvKept, AdmissionAssumption DEF EvidenceUnread, RecordType, Jobs, At
  <1>3. CASE WrapUp(s)
    BY <1>3, InCall, EnvKept, IdleType, SaveType, WrappedType DEF WrapUp, Save, At
  <1>4. ASSUME NEW l \in Lanes,
               \/ Session(s, l) \/ SubmitTask(s, l) \/ SubmitTaskThrows(s, l) \/ Throw(s, l)
               \/ EvidenceSeen(s, l) \/ EvidenceNever(s, l) \/ EvidenceLost(s, l)
               \/ EvidencePending(s, l)
        PROVE  TypeInv'
    <2>1. mem[s] \in Records /\ mem[s].lanes[l] \in LaneRecords
      BY <1>4, InCall DEF Session, SubmitTask, SubmitTaskThrows, Throw, EvidenceSeen,
         EvidenceNever, EvidenceLost, EvidencePending, At, Records
    <2>2. Go("throw", job[s].todo) \in Jobs /\ Go("submit", job[s].todo) \in Jobs
          /\ Go("evidence", job[s].todo) \in Jobs
      BY InCall, GoType
    <2>3. CASE Session(s, l)
      <3>1. [mem[s] EXCEPT !.lanes[l].phase = "session_ready"] \in Records
        BY <2>1, LanePhaseSet, LaneSet DEF LanePhases
      <3> QED BY <2>2, <2>3, <3>1, EnvKept, SaveType DEF Session, Save
    <2>4. CASE SubmitTask(s, l)
      <3>1. RecordType'
        BY <2>1, <2>2, <2>4, KeepType DEF SubmitTask
      <3>2. calls' \in [Lanes -> Nat]
        BY <2>4 DEF SubmitTask, EnvType
      <3> QED BY <2>4, <3>1, <3>2 DEF SubmitTask, EnvType, Tasks, TaskStates
    <2>5. CASE SubmitTaskThrows(s, l)
      <3>1. RecordType'
        BY <2>1, <2>2, <2>5, KeepType DEF SubmitTaskThrows
      <3>2. calls' \in [Lanes -> Nat]
        BY <2>5 DEF SubmitTaskThrows, EnvType
      <3>3. task' \in [Lanes -> Tasks]
        <4>1. CASE UNCHANGED task
          BY <4>1 DEF EnvType
        <4>2. ASSUME NEW end \in Faulty(l, {}, {"failed", "lost"}), NEW sent \in BOOLEAN,
                     task' = [task EXCEPT ![l] =
                                [status |-> end, intent |-> sent, evidence |-> FALSE]]
              PROVE  task' \in [Lanes -> Tasks]
          <5>1. end \in TaskStates
            BY DEF Faulty, TaskStates
          <5>2. [status |-> end, intent |-> sent, evidence |-> FALSE] \in Tasks
            BY <5>1 DEF Tasks
          <5> QED BY <4>2, <5>2 DEF EnvType
        <4> QED BY <2>5, <4>1, <4>2 DEF SubmitTaskThrows
      <3> QED BY <2>5, <3>1, <3>2, <3>3 DEF SubmitTaskThrows, EnvType
    <2>6. CASE Throw(s, l) \/ EvidenceNever(s, l)
      BY <2>1, <2>2, <2>6, EnvKept, IdleType, WrapType, SaveType, ThrownType
         DEF Throw, EvidenceNever, Save
    <2>7. CASE EvidenceSeen(s, l) \/ EvidencePending(s, l)
      <3>1. /\ [mem[s] EXCEPT !.lanes[l].phase = "prompt_dispatched",
                              !.lanes[l].confidence = "authoritative"] \in Records
            /\ [mem[s] EXCEPT !.lanes[l].confidence = "uncertain",
                              !.lanes[l].class = "pending"] \in Records
        BY <2>1 DEF Records, LaneRecords, LanePhases, Confidence, Classes
      <3> QED BY <2>2, <2>7, <3>1, EnvKept, AfterTurnType, SaveType
           DEF EvidenceSeen, EvidencePending, Save
    <2>8. CASE EvidenceLost(s, l)
      <3>1. [phase |-> "unrecoverable_post_prompt", confidence |-> "uncertain",
             class |-> "failed"] \in LaneRecords
        BY DEF LaneRecords, LanePhases, Confidence, Classes
      <3> QED BY <2>1, <2>2, <2>8, <3>1, EnvKept, WrapType, SaveType, LaneSet, PhaseSet
           DEF EvidenceLost, RunPhases
    <2> QED BY <1>4, <2>3, <2>4, <2>5, <2>6, <2>7, <2>8
  <1> QED BY <1>1, <1>2, <1>3, <1>4 DEF Dispatch

LEMMA ObserveType ==
  ASSUME TypeInv, NEW s \in Servers, Observe(s)
  PROVE  TypeInv'
  <1> USE DEF Places, TypeInv
  <1>1. CASE Reconcile(s) \/ ReconcileUnchanged(s)
    BY <1>1, InCall, EnvKept, IdleType, SaveType, KeepType, ReconciledType
       DEF Reconcile, ReconcileUnchanged, Save, At
  <1>2. ASSUME NEW l \in Lanes,
               \/ Look(s, l) \/ LookAttentionInvalid(s, l) \/ LookReconnects(s, l)
               \/ LookFails(s, l)
        PROVE  TypeInv'
    <2>1. mem[s] \in Records /\ mem[s].lanes[l] \in LaneRecords
      BY <1>2, InCall DEF Look, LookAttentionInvalid, LookReconnects, LookFails, Looking, At,
         Records
    <2>2. \A r : Rest(s, l, r) \in Jobs
      <3>1. job[s].dirty \in BOOLEAN /\ Go("look", job[s].todo \ {l}) \in Jobs
        BY InCall, GoType DEF Jobs
      <3> QED BY <3>1 DEF Rest, Jobs
    <2>3. ASSUME NEW r \in Records, Seen(s, l, r) PROVE RecordType'
      BY <2>2, <2>3, KeepType DEF Seen
    <2> DEFINE seen == Recovered(Promoted(mem[s].lanes[l], task[l]), task[l])
    <2>4. seen \in LaneRecords
      BY <2>1, PromotedType, RecoveredType
    <2>5. ASSUME NEW p \in LanePhases, NEW c \in Classes
          PROVE  [mem[s] EXCEPT !.lanes[l] = [seen EXCEPT !.phase = p, !.class = c]] \in Records
      <3> HIDE DEF seen
      <3>1. [seen EXCEPT !.phase = p, !.class = c] \in LaneRecords
        BY <2>4 DEF LaneRecords
      <3> QED BY <2>1, <3>1, LaneSet
    <2>6. CASE Look(s, l)
      <3>1. Observed(mem[s].lanes[l], task[l]) \in LaneRecords
        BY <2>1, ObservedType
      <3>2. ASSUME NEW asked \in SUBSET Lanes, NEW lane \in LaneRecords
            PROVE  [mem[s] EXCEPT !.lanes[l] = lane, !.asked = asked] \in Records
        BY <2>1 DEF Records
      <3>3. /\ mem[s].asked \in SUBSET Lanes
            /\ mem[s].asked \cup {l} \in SUBSET Lanes
        BY <2>1 DEF Records
      <3> QED BY <2>3, <2>6, <3>1, <3>2, <3>3, EnvKept DEF Look
    <2>7. CASE LookAttentionInvalid(s, l)
      BY <2>3, <2>5, <2>7, EnvKept DEF LookAttentionInvalid, LanePhases, Classes
    <2>8. CASE LookReconnects(s, l)
      <3>1. RecordType'
        BY <2>3, <2>5, <2>8 DEF LookReconnects, LanePhases, Classes
      <3>2. task' \in [Lanes -> Tasks]
        BY <2>8 DEF LookReconnects, EnvType, Tasks, TaskStates
      <3> QED BY <2>8, <3>1, <3>2 DEF LookReconnects, EnvType
    <2>9. CASE LookFails(s, l)
      <3> DEFINE lane == mem[s].lanes[l]
                 p == IF lane.phase = "prompt_dispatched" \/ lane.class = "unobserved"
                      THEN "running" ELSE lane.phase
                 unread == [mem[s] EXCEPT !.lanes[l] =
                              [lane EXCEPT !.phase = p, !.class = "unobserved"]]
      <3>1. p \in LanePhases
        BY <2>1 DEF LaneRecords, LanePhases
      <3>2. [lane EXCEPT !.phase = p, !.class = "unobserved"] \in LaneRecords
        <4> HIDE DEF p
        <4> QED BY <2>1, <3>1 DEF LaneRecords, Classes
      <3>3. unread \in Records
        <4> HIDE DEF p
        <4> QED BY <2>1, <3>2, LaneSet
      <3>4. Seen(s, l, unread)
        BY <2>9 DEF LookFails
      <3> QED BY <2>3, <2>9, <3>3, <3>4, EnvKept DEF LookFails
    <2> QED BY <1>2, <2>6, <2>7, <2>8, <2>9
  <1> QED BY <1>1, <1>2 DEF Observe

LEMMA CancelType ==
  ASSUME TypeInv, NEW s \in Servers, Cancel(s) \/ DoCancel(s)
  PROVE  TypeInv'
  <1> USE DEF Places, TypeInv
  <1>1. CASE Cancel(s)
    <2>1. mem[s] \in Records
      BY <1>1, InCall DEF Cancel, Usable
    <2>2. [mem[s] EXCEPT !.cancel = TRUE] \in Records
      BY <2>1 DEF Records
    <2> QED BY <1>1, <2>2, EnvKept, GoType, IdleType, SaveType DEF Cancel, Save
  <1>2. CASE CancelUnprompted(s)
    <2>1. mem[s] \in Records
      BY <1>2, InCall DEF CancelUnprompted, At
    <2> DEFINE lanes == [l \in Lanes |-> IF Closed(mem[s].lanes[l]) THEN mem[s].lanes[l]
                                         ELSE [mem[s].lanes[l] EXCEPT !.phase = "cancelled"]]
    <2>2. lanes \in [Lanes -> LaneRecords]
      BY <2>1, LanePhaseSet DEF Records, LanePhases
    <2> HIDE DEF lanes
    <2>3. [mem[s] EXCEPT !.phase = "cancelled", !.confirmed = TRUE, !.lanes = lanes] \in Records
      BY <2>1, <2>2 DEF Records, RunPhases
    <2> QED BY <1>2, <2>3, EnvKept, IdleType, SaveType DEF CancelUnprompted, Save, lanes
  <1>3. CASE CancelEnd(s)
    <2>1. mem[s] \in Records
      BY <1>3, InCall DEF CancelEnd, At
    <2>2. ASSUME NEW b \in BOOLEAN, NEW p \in RunPhases
          PROVE  [mem[s] EXCEPT !.confirmed = b, !.phase = p] \in Records
      BY <2>1 DEF Records
    <2> QED BY <1>3, <2>2, EnvKept, IdleType, SaveType DEF CancelEnd, Save, RunPhases
  <1>4. ASSUME NEW l \in Lanes,
               CancelSkips(s, l) \/ CancelConfirmed(s, l) \/ CancelUnconfirmed(s, l)
        PROVE  TypeInv'
    <2>1. mem[s] \in Records /\ mem[s].lanes[l] \in LaneRecords
      BY <1>4, InCall DEF CancelSkips, CancelConfirmed, CancelUnconfirmed, Cancelling, At, Records
    <2>2. ASSUME NEW lane \in LaneRecords, CancelGoesOn(s, l, lane) PROVE RecordType'
      <3>1. Go("cancel", job[s].todo \ {l}) \in Jobs
        BY InCall, GoType
      <3> QED BY <2>1, <2>2, <3>1, LaneSet, KeepType DEF CancelGoesOn
    <2>3. CASE CancelSkips(s, l)
      BY <2>1, <2>2, <2>3, EnvKept DEF CancelSkips
    <2>4. CASE CancelConfirmed(s, l)
      <3>1. RecordType'
        BY <2>1, <2>2, <2>4, LanePhaseSet DEF CancelConfirmed, LanePhases
      <3>2. task' \in [Lanes -> Tasks]
        BY <2>4 DEF CancelConfirmed, EnvType, Tasks, TaskStates
      <3> QED BY <2>4, <3>1, <3>2 DEF CancelConfirmed, EnvType
    <2>5. CASE CancelUnconfirmed(s, l)
      <3>1. ASSUME NEW p \in LanePhases
            PROVE  [mem[s].lanes[l] EXCEPT !.phase = p, !.class = "unconfirmed"] \in LaneRecords
        BY <2>1 DEF LaneRecords, Classes
      <3>2. RecordType'
        BY <2>2, <2>5, <3>1 DEF CancelUnconfirmed, LanePhases
      <3>3. task' \in [Lanes -> Tasks]
        BY <2>5 DEF CancelUnconfirmed, EnvType, Tasks, TaskStates
      <3> QED BY <2>5, <3>2, <3>3 DEF CancelUnconfirmed, EnvType
    <2> QED BY <1>4, <2>3, <2>4, <2>5
  <1> QED BY <1>1, <1>2, <1>3, <1>4 DEF DoCancel

LEMMA ReplyType ==
  ASSUME TypeInv, NEW s \in Servers, Reply(s)
  PROVE  TypeInv'
  <1> DEFINE lanes == [l \in Lanes |-> IF mem[s].lanes[l].phase = "needs_attention"
                         THEN [mem[s].lanes[l] EXCEPT !.phase = "running"] ELSE mem[s].lanes[l]]
             answered == [mem[s] EXCEPT !.asked = {}, !.lanes = lanes]
             left(r) == IF r.phase \in Finished THEN Idle ELSE Go("look", ToObserve(r))
  <1>1. mem[s] \in Records
    BY InCall DEF Reply, Usable
  <1>2. lanes \in [Lanes -> LaneRecords]
    BY <1>1, LanePhaseSet DEF Records, LanePhases
  <1>3. answered \in Records
    <2> HIDE DEF lanes
    <2> QED BY <1>1, <1>2 DEF Records
  <1>4. ASSUME NEW r PROVE left(r) \in Jobs
    BY GoType, IdleType DEF ToObserve, Places
  <1>5. PICK took \in SUBSET {l \in mem[s].asked : task[l].status \in {"asking", "answered"}} :
          LET r == IF took = mem[s].asked THEN answered ELSE mem[s] IN
          /\ task' = [l \in Lanes |->
               IF l \in took THEN [task[l] EXCEPT !.status = "answered"] ELSE task[l]]
          /\ Save(s, r, left(r), Idle)
    BY DEF Reply
  <1>6. PICK r \in Records : Save(s, r, left(r), Idle)
    BY <1>1, <1>3, <1>5
  <1>7. RecordType'
    <2> HIDE DEF left
    <2> QED BY <1>4, <1>6, IdleType, SaveType DEF Save
  <1>8. task' \in [Lanes -> Tasks]
    <2> HIDE DEF answered, left
    <2> QED BY <1>5 DEF TypeInv, EnvType, Tasks, TaskStates
  <1> QED BY <1>7, <1>8 DEF Reply, TypeInv, EnvType

LEMMA TaskType ==
  ASSUME TypeInv, NEW l \in Lanes, TaskNext(l)
  PROVE  TypeInv'
  <1>1. ASSUME NEW t \in Tasks, TaskSteps(l, t) PROVE TypeInv'
    <2>1. task' \in [Lanes -> Tasks]
      BY <1>1 DEF TaskSteps, TypeInv, EnvType
    <2> QED BY <1>1, <2>1 DEF TaskSteps, TypeInv, EnvType, RecordType, At
  <1>2. task[l] \in Tasks
    BY DEF TypeInv, EnvType
  <1>3. ASSUME NEW x \in TaskStates PROVE [task[l] EXCEPT !.status = x] \in Tasks
    BY <1>2 DEF Tasks
  <1>4. ASSUME NEW b \in BOOLEAN
        PROVE  /\ [task[l] EXCEPT !.intent = TRUE, !.evidence = b] \in Tasks
               /\ [task[l] EXCEPT !.evidence = TRUE] \in Tasks
    BY <1>2 DEF Tasks
  <1>5. CASE TaskPrompts(l) \/ TaskConfirms(l)
    <2>1. (l \in Plain) \in BOOLEAN
      OBVIOUS
    <2> QED BY <1>1, <1>4, <1>5, <2>1 DEF TaskPrompts, TaskConfirms
  <1>6. CASE TaskAsks(l) \/ TaskGoesOn(l)
    BY <1>1, <1>3, <1>6 DEF TaskAsks, TaskGoesOn, TaskStates
  <1>7. CASE TaskEnds(l)
    <2>1. PICK x \in Faulty(l, {"completed"}, {"failed", "lost", "cancelled"})
                       \cup (IF task[l].status = "cancelling" THEN {"cancelled"} ELSE {}) :
            TaskSteps(l, [task[l] EXCEPT !.status = x])
      BY <1>7 DEF TaskEnds
    <2>2. x \in TaskStates
      BY DEF Faulty, TaskStates
    <2> QED BY <1>1, <1>3, <2>1, <2>2
  <1> QED BY <1>5, <1>6, <1>7 DEF TaskNext

LEMMA TypeNext == TypeInv /\ [Next]_vars => TypeInv'
  <1> SUFFICES ASSUME TypeInv, [Next]_vars PROVE TypeInv'
    OBVIOUS
  <1>1. CASE UNCHANGED vars
    BY <1>1 DEF vars, TypeInv, RecordType, EnvType, At
  <1>2. ASSUME NEW s \in Servers, Load(s) PROVE TypeInv'
    BY <1>2, EnvKept DEF Load, TypeInv, RecordType, At
  <1>3. ASSUME NEW s \in Servers, Crash(s) PROVE TypeInv'
    BY <1>3, EnvKept, IdleType, AdmissionAssumption
       DEF Crash, TypeInv, RecordType, At, Idle, Go
  <1>4. ASSUME NEW s \in Servers, Inspect(s) PROVE TypeInv'
    <2>1. mem[s] \in Records /\ Go("look", ToObserve(mem[s])) \in Jobs
      BY <1>4, InCall, GoType DEF Inspect, Open, Usable, ToObserve, Places
    <2> QED BY <1>4, <2>1, EnvKept DEF Inspect, TypeInv, RecordType, At
  <1> QED BY <1>1, <1>2, <1>3, <1>4, ConsentType, AdmitType, DispatchType, ObserveType,
             CancelType, ReplyType, TaskType DEF Next, Call, Step

LEMMA TypeInit == Init => TypeInv
  <1> SUFFICES ASSUME Init PROVE TypeInv
    OBVIOUS
  <1>1. RecordType
    BY IdleType, AdmissionAssumption DEF Init, RecordType, At, Idle, Go
  <1>2. NewTask \in Tasks
    BY DEF NewTask, Tasks, TaskStates
  <1>3. EnvType
    BY <1>2 DEF Init, EnvType
  <1> QED BY <1>1, <1>3 DEF TypeInv

\* Records, calls, worktrees and tasks keep their shape, and a server in a call has the record
\* (run-admission.mjs:1014-1048).
THEOREM AdmissionType == Spec => []TypeOK
  <1>1. TypeInv => TypeOK
    BY DEF TypeInv, RecordType, EnvType, TypeOK, Jobs, Tasks
  <1> QED BY <1>1, TypeInit, TypeNext, PTL DEF Spec

-----------------------------------------------------------------------------
(* What keeps a lane from being submitted twice. *)

\* Before it is admitted, a record is as it was made.
Early(r) == r.phase \in {"validating", "awaiting_consent"}
Fresh(r) == Early(r) => r.asked = {} /\ \A l \in Lanes : r.lanes[l] = NewLane

Consenting == {"create", "ask", "consent", "admit"}
Sending == {"session", "submit", "evidence"}
Dispatching == {"prepare", "begin", "throw", "wrap"} \cup Sending

PlaceInv(r, j) ==
  /\ j.at \in Consenting => Early(r)
  /\ j.at \in Dispatching => ~Early(r)
  /\ j.at = "look" /\ Early(r) => j.todo = {}
  /\ j.at = "cancel" /\ Early(r) => j.todo = Lanes

\* The lanes whose worktree this call has made.
Held(r, j) ==
  IF j.at = "prepare" THEN {l \in Lanes : r.lanes[l].phase = "prepared"}
  ELSE IF j.at \in {"begin"} \cup Sending THEN Lanes ELSE {}

\* The lanes that this call may still submit.
Due(r, j) ==
  IF j.at \in {"session", "submit"} THEN j.todo
  ELSE IF j.at = "evidence" THEN {l \in j.todo : \E k \in j.todo : k < l}
  ELSE Held(r, j)

NeedsGrant == {"admit", "prepare", "begin"} \cup Sending

HoldInv ==
  /\ \A s \in Servers : /\ Held(mem[s], job[s]) \subseteq made
                        /\ \A l \in Due(mem[s], job[s]) : calls[l] = 0
                        /\ job[s].at \in NeedsGrant => granted
  /\ \A s, t \in Servers : s # t => Held(mem[s], job[s]) \cap Held(mem[t], job[t]) = {}
  /\ \A l \in Lanes \ made : calls[l] = 0
  /\ Admitted

FreshInv ==
  /\ Fresh(disk)
  /\ \A s \in Servers : Fresh(mem[s]) /\ PlaceInv(mem[s], job[s])

AdmitInv == FreshInv /\ HoldInv

LEMMA NoneFresh == Fresh(None)
  BY DEF Fresh, Early, None

LEMMA LateFresh ==
  ASSUME NEW r, ~Early(r)
  PROVE  Fresh(r)
  BY DEF Fresh

\* A call that is at one of these places neither holds a lane nor may submit one.
LEMMA RestHoldsNothing ==
  ASSUME NEW r, NEW j, j.at \notin {"prepare", "begin"} \cup Sending
  PROVE  Held(r, j) = {} /\ Due(r, j) = {}
  BY DEF Held, Due, Sending

LEMMA DueIsHeld ==
  ASSUME TypeInv, NEW s \in Servers
  PROVE  Due(mem[s], job[s]) \subseteq Held(mem[s], job[s])
  BY InCall DEF Due, Held, Sending

\* A step of a server that makes no worktree and submits nothing.
LEMMA QuietHold ==
  ASSUME TypeInv, HoldInv, NEW s \in Servers, NEW r, NEW j,
         mem' = [mem EXCEPT ![s] = r], job' = [job EXCEPT ![s] = j],
         UNCHANGED <<made, calls>>, granted => granted',
         Held(r, j) \subseteq Held(mem[s], job[s]),
         Due(r, j) \subseteq Due(mem[s], job[s]),
         j.at \in NeedsGrant => granted'
  PROVE  HoldInv'
  <1>1. /\ mem'[s] = r /\ job'[s] = j
        /\ \A t \in Servers \ {s} : mem'[t] = mem[t] /\ job'[t] = job[t]
    BY DEF TypeInv, RecordType
  <1>2. ASSUME NEW t \in Servers
        PROVE  /\ Held(mem'[t], job'[t]) \subseteq Held(mem[t], job[t])
               /\ Due(mem'[t], job'[t]) \subseteq Due(mem[t], job[t])
               /\ job'[t].at \in NeedsGrant => granted'
    <2>1. CASE t = s
      BY <1>1, <2>1
    <2>2. CASE t # s
      BY <1>1, <2>2 DEF HoldInv
    <2> QED BY <2>1, <2>2
  <1>3. Admitted'
    BY DEF HoldInv, Admitted
  <1> HIDE DEF Held, Due
  <1>4. ASSUME NEW t \in Servers
        PROVE  /\ Held(mem[t], job[t])' \subseteq made'
               /\ \A l \in Due(mem[t], job[t])' : calls'[l] = 0
               /\ job'[t].at \in NeedsGrant => granted'
    <2>1. Held(mem[t], job[t])' = Held(mem'[t], job'[t])
      BY DEF Held
    <2>2. Due(mem[t], job[t])' = Due(mem'[t], job'[t])
      BY DEF Due, Held
    <2> QED BY <1>2, <2>1, <2>2 DEF HoldInv
  <1>5. ASSUME NEW t \in Servers, NEW u \in Servers, t # u
        PROVE  (Held(mem[t], job[t]) \cap Held(mem[u], job[u]) = {})'
    <2>1. Held(mem[t], job[t])' \subseteq Held(mem[t], job[t])
      BY <1>2 DEF Held
    <2>2. Held(mem[u], job[u])' \subseteq Held(mem[u], job[u])
      BY <1>2 DEF Held
    <2> QED BY <1>5, <2>1, <2>2 DEF HoldInv
  <1>6. (\A l \in Lanes \ made : calls[l] = 0)'
    BY DEF HoldInv
  <1> QED BY <1>3, <1>4, <1>5, <1>6 DEF HoldInv

\* What a step of a server does to the records.
LEMMA StepFresh ==
  ASSUME TypeInv, FreshInv, NEW s \in Servers, NEW r, NEW j,
         mem' = [mem EXCEPT ![s] = r], job' = [job EXCEPT ![s] = j],
         Fresh(disk'), Fresh(r), PlaceInv(r, j)
  PROVE  FreshInv'
  <1>1. /\ mem'[s] = r /\ job'[s] = j
        /\ \A t \in Servers \ {s} : mem'[t] = mem[t] /\ job'[t] = job[t]
    BY DEF TypeInv, RecordType
  <1>2. ASSUME NEW t \in Servers PROVE Fresh(mem'[t]) /\ PlaceInv(mem'[t], job'[t])
    BY <1>1 DEF FreshInv
  <1> QED BY <1>2 DEF FreshInv, Fresh, Early, PlaceInv

\* A step of a server that changes its copy and its call.
LEMMA QuietStep ==
  ASSUME TypeInv, AdmitInv, NEW s \in Servers, NEW r, NEW j,
         mem' = [mem EXCEPT ![s] = r], job' = [job EXCEPT ![s] = j],
         UNCHANGED <<made, calls>>, granted => granted',
         Fresh(disk'), Fresh(r), PlaceInv(r, j),
         Held(r, j) \subseteq Held(mem[s], job[s]),
         Due(r, j) \subseteq Due(mem[s], job[s]),
         j.at \in NeedsGrant => granted'
  PROVE  AdmitInv'
  <1>1. FreshInv'
    BY StepFresh DEF AdmitInv
  <1>2. HoldInv'
    <2> HIDE DEF Held, Due
    <2> QED BY QuietHold DEF AdmitInv
  <1> QED BY <1>1, <1>2 DEF AdmitInv

LEMMA QuietKeep ==
  ASSUME TypeInv, AdmitInv, NEW s \in Servers, NEW r, NEW j, Keep(s, r, j),
         UNCHANGED <<made, calls>>, granted => granted',
         Fresh(r), PlaceInv(r, j),
         Held(r, j) \subseteq Held(mem[s], job[s]),
         Due(r, j) \subseteq Due(mem[s], job[s]),
         j.at \in NeedsGrant => granted'
  PROVE  AdmitInv'
  <1>1. Fresh(disk')
    BY DEF Keep, AdmitInv, FreshInv
  <1> QED BY <1>1, QuietStep DEF Keep

\* A call that ends, or gives up a lane, when its save fails.
LEMMA QuietSave ==
  ASSUME TypeInv, AdmitInv, NEW s \in Servers, NEW r, NEW kept, NEW next, NEW failed,
         SaveAndKeep(s, r, kept, next, failed),
         UNCHANGED <<made, calls>>, granted => granted',
         Fresh(r), Fresh(kept), PlaceInv(kept, next),
         Held(kept, next) \subseteq Held(mem[s], job[s]),
         Due(kept, next) \subseteq Due(mem[s], job[s]),
         next.at \in NeedsGrant => granted',
         \/ failed.at = "idle"
         \/ failed.at = "throw" /\ ~Early(r)
  PROVE  AdmitInv'
  <1>1. CASE disk' = r /\ mem' = [mem EXCEPT ![s] = kept] /\ job' = [job EXCEPT ![s] = next]
    BY <1>1, QuietStep
  <1>2. CASE disk' = disk /\ mem' = [mem EXCEPT ![s] = r] /\ job' = [job EXCEPT ![s] = failed]
    <2>1. Fresh(disk')
      BY <1>2 DEF AdmitInv, FreshInv
    <2>2. PlaceInv(r, failed)
      BY DEF PlaceInv, Consenting, Dispatching, Sending
    <2>3. Held(r, failed) = {} /\ Due(r, failed) = {} /\ failed.at \notin NeedsGrant
      BY RestHoldsNothing DEF Sending, NeedsGrant
    <2> QED BY <1>2, <2>1, <2>2, <2>3, QuietStep
  <1> QED BY <1>1, <1>2 DEF SaveAndKeep

\* The end of a call.
LEMMA IdleQuiet ==
  ASSUME NEW r
  PROVE  /\ Idle.at = "idle"
         /\ PlaceInv(r, Idle) /\ Held(r, Idle) = {} /\ Due(r, Idle) = {}
         /\ Idle.at \notin NeedsGrant
  <1>1. Idle.at = "idle"
    BY DEF Idle, Go
  <1> QED BY <1>1, RestHoldsNothing DEF PlaceInv, Consenting, Dispatching, Sending, NeedsGrant

LEMMA GoIs ==
  ASSUME NEW place, NEW todo
  PROVE  Go(place, todo).at = place /\ Go(place, todo).todo = todo
  BY DEF Go

LEMMA QuietEnd ==
  ASSUME TypeInv, AdmitInv, NEW s \in Servers, NEW r, Save(s, r, Idle, Idle),
         UNCHANGED <<made, calls, granted>>, Fresh(r)
  PROVE  AdmitInv'
  BY IdleQuiet, QuietSave DEF Save

LEMMA FailedIsLate ==
  ASSUME NEW r \in Records
  PROVE  ~Early(FailedAdmission(r))
  BY DEF FailedAdmission, Early, Records

LEMMA HeldAt ==
  ASSUME NEW r, NEW j
  PROVE  /\ j.at \in Consenting \cup {"idle", "look", "cancel", "throw", "wrap"} =>
              Held(r, j) = {} /\ Due(r, j) = {}
         /\ j.at \in {"idle", "look", "cancel", "throw", "wrap", "create", "ask", "consent"} =>
              j.at \notin NeedsGrant
  BY DEF Held, Due, Consenting, Sending, NeedsGrant

\* What is known of a server in a call.
LEMMA Here ==
  ASSUME TypeInv, AdmitInv, NEW s \in Servers
  PROVE  /\ Fresh(mem[s]) /\ PlaceInv(mem[s], job[s])
         /\ job[s].at \in NeedsGrant => granted
  BY DEF AdmitInv, FreshInv, HoldInv

LEMMA ConsentAdmits ==
  ASSUME TypeInv, AdmitInv, NEW s \in Servers,
         Submit(s) \/ AskAgain(s) \/ ApproveByReference(s) \/ Consent(s)
  PROVE  AdmitInv'
  <1>1. CASE Submit(s)
    <2>1. Fresh(NewRecord) /\ Early(NewRecord)
      BY DEF NewRecord, Fresh, Early
    <2>2. PlaceInv(NewRecord, Go("create", {}))
      BY <2>1, GoIs DEF PlaceInv, Consenting, Dispatching, Sending
    <2>3. Fresh(disk')
      BY <1>1 DEF Submit, AdmitInv, FreshInv
    <2> DEFINE j == Go("create", {})
    <2>4. j.at = "create"
      BY GoIs
    <2>5. Held(NewRecord, j) = {} /\ Due(NewRecord, j) = {} /\ j.at \notin NeedsGrant
      BY <2>4, HeldAt DEF Consenting
    <2>6. /\ mem' = [mem EXCEPT ![s] = NewRecord] /\ job' = [job EXCEPT ![s] = j]
          /\ UNCHANGED <<made, calls, granted>>
      BY <1>1 DEF Submit, env
    <2> HIDE DEF j
    <2> QED BY <2>1, <2>2, <2>3, <2>5, <2>6, QuietStep DEF j
  <1>2. CASE AskAgain(s) \/ AskConsent(s)
    <2> DEFINE r == [mem[s] EXCEPT !.phase = "awaiting_consent"]
    <2>1. mem[s] \in Records
      BY <1>2, InCall DEF AskAgain, AskConsent, Waiting, At, None
    <2>2. Early(mem[s])
      BY <1>2, Here DEF AskAgain, AskConsent, Waiting, At, PlaceInv, Consenting, Early
    <2>3. Fresh(r) /\ Early(r)
      BY <2>1, <2>2, Here DEF Fresh, Early, Records
    <2> HIDE DEF r
    <2>4. PlaceInv(r, Go("consent", {}))
      BY <2>3, GoIs DEF PlaceInv, Consenting, Dispatching, Sending
    <2> QED BY <1>2, <2>3, <2>4, GoIs, HeldAt, IdleQuiet, QuietSave
         DEF AskAgain, AskConsent, Ask, Save, Consenting, env, r
  <1>3. CASE ApproveByReference(s)
    <2>1. Early(mem[s])
      BY <1>3 DEF ApproveByReference, Waiting, Early
    <2>2. PlaceInv(mem[s], Go("admit", {}))
      BY <2>1, GoIs DEF PlaceInv, Consenting, Dispatching, Sending
    <2> QED BY <1>3, <2>2, Here, GoIs, HeldAt, QuietKeep DEF ApproveByReference, Consenting
  <1>4. CASE Create(s)
    <2>1. Early(mem[s])
      BY <1>4, Here DEF Create, At, PlaceInv, Consenting
    <2>2. PlaceInv(mem[s], Go("ask", {}))
      BY <2>1, GoIs DEF PlaceInv, Consenting, Dispatching, Sending
    <2> QED BY <1>4, <2>2, Here, GoIs, HeldAt, IdleQuiet, QuietSave
         DEF Create, Save, Consenting, env
  <1>5. CASE ConsentStays(s)
    BY <1>5, Here, QuietEnd DEF ConsentStays, env
  <1>6. CASE ConsentDeclined(s)
    BY <1>6, InCall, FailedIsLate, LateFresh, QuietEnd DEF ConsentDeclined, env, At
  <1>7. CASE Approve(s)
    <2>1. Early(mem[s])
      BY <1>7, Here DEF Approve, At, PlaceInv, Consenting
    <2>2. PlaceInv(mem[s], Go("admit", {}))
      BY <2>1, GoIs DEF PlaceInv, Consenting, Dispatching, Sending
    <2> QED BY <1>7, <2>2, Here, GoIs, HeldAt, IdleQuiet, QuietSave
         DEF Approve, Save, Consenting
  <1> QED BY <1>1, <1>2, <1>3, <1>4, <1>5, <1>6, <1>7 DEF Consent

LEMMA AdmitAdmits ==
  ASSUME TypeInv, AdmitInv, NEW s \in Servers, Admit(s)
  PROVE  AdmitInv'
  <1>1. CASE AdmitRun(s)
    <2> DEFINE r == [mem[s] EXCEPT !.phase = "preparing_workspaces"]
               j == Go("prepare", Lanes)
    <2>1. mem[s] \in Records /\ Early(mem[s]) /\ granted
      BY <1>1, InCall, Here DEF AdmitRun, At, PlaceInv, Consenting, NeedsGrant
    <2>2. \A l \in Lanes : mem[s].lanes[l] = NewLane
      BY <2>1, Here DEF Fresh
    <2>3. ~Early(r) /\ Held(r, j) = {} /\ Due(r, j) = {}
      BY <2>1, <2>2, GoIs DEF Early, Records, Held, Due, NewLane, Sending
    <2>4. PlaceInv(r, j) /\ j.at = "prepare"
      BY <2>3, GoIs DEF PlaceInv, Consenting
    <2>5. SaveAndKeep(s, r, r, j, Idle) /\ UNCHANGED <<made, calls, granted>>
      BY <1>1 DEF AdmitRun, Save, env
    <2> HIDE DEF r, j
    <2> QED BY <2>1, <2>3, <2>4, <2>5, LateFresh, IdleQuiet, QuietSave
  <1>2. CASE NotReady(s)
    BY <1>2, InCall, FailedIsLate, LateFresh, QuietEnd DEF NotReady, env, At
  <1>3. CASE Prepared(s)
    <2>1. mem[s] \in Records /\ ~Early(mem[s]) /\ granted
      BY <1>3, InCall, Here DEF Prepared, At, PlaceInv, Dispatching, NeedsGrant
    <2>2. CASE AllPrepared(mem[s])
      <3> DEFINE j == Go("begin", {})
      <3>1. j.at = "begin" /\ PlaceInv(mem[s], j)
        BY <2>1, GoIs DEF PlaceInv, Consenting
      <3>2. Held(mem[s], j) = Lanes /\ Due(mem[s], j) = Lanes
        BY <3>1 DEF Held, Due, Sending
      <3>3. Held(mem[s], job[s]) = Lanes /\ Due(mem[s], job[s]) = Lanes
        BY <1>3, <2>2 DEF Prepared, At, AllPrepared, Held, Due, Sending
      <3>4. SaveAndKeep(s, mem[s], mem[s], j, Idle) /\ UNCHANGED <<made, calls, granted>>
        BY <1>3, <2>2 DEF Prepared, Save, env
      <3> HIDE DEF j
      <3> QED BY <2>1, <3>1, <3>2, <3>3, <3>4, Here, IdleQuiet, QuietSave
    <2>3. CASE ~AllPrepared(mem[s])
      BY <1>3, <2>1, <2>3, FailedIsLate, LateFresh, QuietEnd DEF Prepared, env
    <2> QED BY <2>2, <2>3
  <1>4. ASSUME NEW l \in Lanes, PrepareFails(s, l) PROVE AdmitInv'
    <2> DEFINE j == Go("prepare", job[s].todo \ {l})
    <2>1. j.at = "prepare" /\ job[s].at = "prepare" /\ granted /\ ~Early(mem[s])
      BY <1>4, GoIs, Here DEF PrepareFails, At, NeedsGrant, PlaceInv, Dispatching
    <2>2. /\ Held(mem[s], j) = Held(mem[s], job[s])
          /\ Due(mem[s], j) = Due(mem[s], job[s])
          /\ PlaceInv(mem[s], j)
      BY <2>1 DEF Held, Due, PlaceInv, Consenting, Dispatching, Sending
    <2>3. Keep(s, mem[s], j) /\ UNCHANGED <<made, calls, granted>>
      BY <1>4 DEF PrepareFails, env
    <2> HIDE DEF j
    <2> QED BY <2>1, <2>2, <2>3, Here, QuietKeep
  <1>5. ASSUME NEW l \in Lanes, Prepare(s, l) PROVE AdmitInv'
    <2> DEFINE r == [mem[s] EXCEPT !.lanes[l].phase = "prepared"]
               j == Go("prepare", job[s].todo \ {l})
    <2>1. /\ mem[s] \in Records /\ ~Early(mem[s]) /\ granted
          /\ job[s].at = "prepare" /\ j.at = "prepare" /\ l \notin made
      BY <1>5, InCall, Here, GoIs DEF Prepare, At, PlaceInv, Dispatching, NeedsGrant
    <2>2. ~Early(r)
      BY <2>1 DEF Early, Records
    <2>3. Held(r, j) = Held(mem[s], job[s]) \cup {l}
      BY <2>1 DEF Held, Records, LaneRecords
    <2>4. Due(r, j) = Held(r, j)
      BY <2>1 DEF Due, Sending
    <2>5. mem' = [mem EXCEPT ![s] = r] /\ job' = [job EXCEPT ![s] = j]
          /\ UNCHANGED <<disk, calls, granted>> /\ made' = made \cup {l}
      BY <1>5 DEF Prepare, Keep
    <2>6. PlaceInv(r, j)
      BY <2>1, <2>2 DEF PlaceInv, Consenting
    <2>7. FreshInv'
      <3>1. Fresh(disk')
        BY <2>5 DEF AdmitInv, FreshInv
      <3> HIDE DEF r, j
      <3> QED BY <2>2, <2>5, <2>6, <3>1, LateFresh, StepFresh DEF AdmitInv
    <2> HIDE DEF r, j
    <2>8. /\ mem'[s] = r /\ job'[s] = j
          /\ \A t \in Servers \ {s} : mem'[t] = mem[t] /\ job'[t] = job[t]
      BY <2>5 DEF TypeInv, RecordType
    <2>9. calls[l] = 0
      BY <2>1 DEF AdmitInv, HoldInv
    <2>10. Due(mem[s], job[s]) = Held(mem[s], job[s])
      BY <2>1 DEF Due, Sending
    <2>11. ASSUME NEW t \in Servers
           PROVE  /\ Held(mem[t], job[t])' \subseteq made'
                  /\ \A k \in Due(mem[t], job[t])' : calls'[k] = 0
                  /\ job'[t].at \in NeedsGrant => granted'
      <3>1. Held(mem[t], job[t])' = Held(mem'[t], job'[t])
        BY DEF Held
      <3>2. Due(mem[t], job[t])' = Due(mem'[t], job'[t])
        BY DEF Due, Held
      <3> HIDE DEF Held, Due
      <3>3. CASE t = s
        BY <2>1, <2>3, <2>4, <2>5, <2>8, <2>9, <2>10, <3>1, <3>2, <3>3 DEF AdmitInv, HoldInv
      <3>4. CASE t # s
        BY <2>5, <2>8, <3>1, <3>2, <3>4 DEF AdmitInv, HoldInv
      <3> QED BY <3>3, <3>4
    <2>12. ASSUME NEW t \in Servers, NEW u \in Servers, t # u
           PROVE  (Held(mem[t], job[t]) \cap Held(mem[u], job[u]) = {})'
      <3>1. /\ Held(mem[t], job[t])' = Held(mem'[t], job'[t])
            /\ Held(mem[u], job[u])' = Held(mem'[u], job'[u])
        BY DEF Held
      <3>2. \A x \in Servers : Held(mem[x], job[x]) \subseteq made
        BY DEF AdmitInv, HoldInv
      <3>3. Held(mem[t], job[t]) \cap Held(mem[u], job[u]) = {}
        BY <2>12 DEF AdmitInv, HoldInv
      <3> HIDE DEF Held
      <3>4. CASE t = s
        BY <2>1, <2>3, <2>8, <2>12, <3>1, <3>2, <3>3, <3>4
      <3>5. CASE u = s
        BY <2>1, <2>3, <2>8, <2>12, <3>1, <3>2, <3>3, <3>5
      <3>6. CASE t # s /\ u # s
        BY <2>8, <3>1, <3>3, <3>6
      <3> QED BY <3>4, <3>5, <3>6
    <2>13. (\A k \in Lanes \ made : calls[k] = 0)' /\ Admitted'
      BY <2>5, <2>1 DEF AdmitInv, HoldInv, Admitted, TypeInv, EnvType
    <2> QED BY <2>7, <2>11, <2>12, <2>13 DEF AdmitInv, HoldInv
  <1> QED BY <1>1, <1>2, <1>3, <1>4, <1>5 DEF Admit

\* submitTask is called for a lane by the one server that holds all of them.
LEMMA SubmitAdmits ==
  ASSUME TypeInv, AdmitInv, NEW s \in Servers, NEW l \in Lanes,
         At(s, "submit"), Turn(s, l), calls' = [calls EXCEPT ![l] = @ + 1],
         NEW j, j.at \in {"evidence", "throw"}, j.todo = job[s].todo,
         Keep(s, mem[s], j), UNCHANGED <<made, granted>>
  PROVE  AdmitInv'
  <1>1. job[s].at = "submit" /\ granted /\ ~Early(mem[s]) /\ Fresh(mem[s])
    BY Here DEF At, NeedsGrant, Sending, PlaceInv, Dispatching
  <1>2. Held(mem[s], job[s]) = Lanes /\ Due(mem[s], job[s]) = job[s].todo
    BY <1>1 DEF Held, Due, Sending
  <1>3. made = Lanes
    BY <1>2 DEF AdmitInv, HoldInv, TypeInv, EnvType
  <1>4. ASSUME NEW t \in Servers, t # s
        PROVE  Held(mem[t], job[t]) = {} /\ Due(mem[t], job[t]) = {}
    <2>1. Held(mem[t], job[t]) \cap Held(mem[s], job[s]) = {} /\ Held(mem[t], job[t]) \subseteq made
      BY <1>4 DEF AdmitInv, HoldInv
    <2>2. Held(mem[t], job[t]) = {}
      <3> HIDE DEF Held
      <3> QED BY <1>2, <1>3, <2>1
    <2>3. Due(mem[t], job[t]) \subseteq Held(mem[t], job[t])
      BY DueIsHeld
    <2> QED BY <2>2, <2>3
  <1>5. \A k \in job[s].todo : calls[k] = 0
    BY <1>2 DEF AdmitInv, HoldInv
  <1>6. /\ calls' \in [Lanes -> Nat] /\ calls'[l] = 1
        /\ \A k \in Lanes \ {l} : calls'[k] = calls[k]
    BY <1>5 DEF Turn, TypeInv, EnvType
  <1>7. ASSUME NEW k \in Due(mem[s], j) PROVE calls'[k] = 0
    <2>1. CASE j.at = "throw"
      BY <1>7, <2>1, HeldAt
    <2>2. CASE j.at = "evidence"
      <3>1. k \in job[s].todo /\ \E m \in job[s].todo : m < k
        BY <1>7, <2>2 DEF Due
      <3>2. job[s].todo \subseteq Lanes /\ Lanes \subseteq Int
        BY InCall, LanesAre
      <3>3. k # l
        <4>1. PICK m \in job[s].todo : m < k
          BY <3>1
        <4>2. l <= m /\ l \in Int /\ m \in Int /\ k \in Int
          BY <3>1, <3>2 DEF Turn
        <4> QED BY <4>1, <4>2
      <3> QED BY <1>5, <1>6, <3>1, <3>2, <3>3
    <2> QED BY <2>1, <2>2
  <1>8. /\ mem'[s] = mem[s] /\ job'[s] = j
        /\ \A t \in Servers \ {s} : mem'[t] = mem[t] /\ job'[t] = job[t]
    BY DEF TypeInv, RecordType, Keep
  <1>9. FreshInv'
    <2>1. PlaceInv(mem[s], j)
      BY <1>1 DEF PlaceInv, Consenting
    <2>2. Fresh(disk') /\ mem' = [mem EXCEPT ![s] = mem[s]] /\ job' = [job EXCEPT ![s] = j]
      BY DEF Keep, AdmitInv, FreshInv
    <2> QED BY <1>1, <2>1, <2>2, StepFresh DEF AdmitInv
  <1>10. ASSUME NEW t \in Servers
         PROVE  /\ Held(mem[t], job[t])' = Held(mem'[t], job'[t])
                /\ Due(mem[t], job[t])' = Due(mem'[t], job'[t])
    BY DEF Held, Due
  <1> HIDE DEF Held, Due
  <1>11. ASSUME NEW t \in Servers
         PROVE  /\ Held(mem[t], job[t])' \subseteq made'
                /\ \A k \in Due(mem[t], job[t])' : calls'[k] = 0
                /\ job'[t].at \in NeedsGrant => granted'
    <2>1. CASE t = s
      <3>1. Held(mem[t], job[t])' \subseteq made'
        BY <1>3, <1>8, <1>10, <2>1 DEF Held
      <3> QED BY <1>1, <1>7, <1>8, <1>10, <2>1, <3>1
    <2>2. CASE t # s
      BY <1>4, <1>8, <1>10, <2>2 DEF AdmitInv, HoldInv
    <2> QED BY <2>1, <2>2
  <1>12. ASSUME NEW t \in Servers, NEW u \in Servers, t # u
         PROVE  (Held(mem[t], job[t]) \cap Held(mem[u], job[u]) = {})'
    BY <1>4, <1>8, <1>10, <1>12
  <1>13. (\A k \in Lanes \ made : calls[k] = 0)'
    BY <1>3
  <1>14. Admitted'
    BY <1>1, <1>3, <1>6 DEF AdmitInv, HoldInv, Admitted
  <1> QED BY <1>9, <1>11, <1>12, <1>13, <1>14 DEF AdmitInv, HoldInv

\* A save in the dispatch of lanes, after which no other lane is due.
LEMMA SendingSave ==
  ASSUME TypeInv, AdmitInv, NEW s \in Servers, NEW r, NEW kept, NEW next, NEW failed,
         SaveAndKeep(s, r, kept, next, failed), UNCHANGED env,
         job[s].at \in {"begin"} \cup Sending, ~Early(r), ~Early(kept),
         \/ next.at = "wrap"
         \/ next.at \in {"session", "submit"} /\ next.todo \subseteq Due(mem[s], job[s]),
         failed.at \in {"idle", "throw"}
  PROVE  AdmitInv'
  <1>1. granted /\ Held(mem[s], job[s]) = Lanes
    BY Here DEF NeedsGrant, Held, Sending
  <1>2. PlaceInv(kept, next)
    BY DEF PlaceInv, Consenting, Sending
  <1>3. Held(kept, next) \subseteq Held(mem[s], job[s])
    BY <1>1, HeldAt DEF Held
  <1>4. Due(kept, next) \subseteq Due(mem[s], job[s])
    <2>1. CASE next.at = "wrap"
      BY <2>1, HeldAt
    <2>2. CASE next.at \in {"session", "submit"} /\ next.todo \subseteq Due(mem[s], job[s])
      <3>1. Due(kept, next) = next.todo
        BY <2>2 DEF Due
      <3> QED BY <2>2, <3>1
    <2> QED BY <2>1, <2>2
  <1>5. Fresh(r) /\ Fresh(kept) /\ UNCHANGED <<made, calls, granted>>
    BY LateFresh DEF env
  <1> HIDE DEF Held, Due, PlaceInv, Fresh, Early
  <1> QED BY <1>1, <1>2, <1>3, <1>4, <1>5, QuietSave

LEMMA ThrownIsLate ==
  ASSUME NEW r \in Records, NEW l \in Lanes
  PROVE  ~Early(Thrown(r, l))
  BY DEF Thrown, Early, Records

LEMMA WrappedIsLate ==
  ASSUME NEW r \in Records, ~Early(r)
  PROVE  ~Early(Wrapped(r))
  BY DEF Wrapped, Early, Records

LEMMA DispatchAdmits ==
  ASSUME TypeInv, AdmitInv, NEW s \in Servers, Dispatch(s)
  PROVE  AdmitInv'
  <1>1. job[s].at \in Dispatching /\ ~Early(mem[s]) /\ mem[s] \in Records
    <2>1. job[s].at \in Dispatching
      BY DEF Dispatch, Begin, EvidenceUnread, WrapUp, Session, SubmitTask, SubmitTaskThrows, Throw,
         EvidenceSeen, EvidenceNever, EvidenceLost, EvidencePending, At, Dispatching, Sending
    <2>2. ~At(s, "idle")
      BY <2>1 DEF At, Dispatching, Sending
    <2> QED BY <2>1, <2>2, Here, InCall DEF PlaceInv
  <1>2. Fresh(mem[s]) /\ PlaceInv(mem[s], job[s])
    BY Here
  <1>3. CASE Begin(s)
    <2> DEFINE r == [mem[s] EXCEPT !.phase = "dispatching"]
    <2>1. ~Early(r)
      BY <1>1 DEF Early, Records
    <2>2. SaveAndKeep(s, r, r, Go("session", Lanes), Idle) /\ UNCHANGED env
          /\ job[s].at = "begin"
      BY <1>3 DEF Begin, Save, At
    <2>3. Due(mem[s], job[s]) = Lanes
      BY <2>2 DEF Due, Held
    <2> HIDE DEF r
    <2> QED BY <2>1, <2>2, <2>3, GoIs, IdleQuiet, SendingSave
  <1>4. CASE EvidenceUnread(s)
    <2> DEFINE j == [job[s] EXCEPT !.at = "throw"]
    <2>1. j.at = "throw"
      BY InCall DEF Jobs
    <2>2. /\ mem' = [mem EXCEPT ![s] = mem[s]] /\ job' = [job EXCEPT ![s] = j]
          /\ UNCHANGED <<disk, made, calls, granted>>
      BY <1>4 DEF EvidenceUnread, env, TypeInv, RecordType
    <2> HIDE DEF j
    <2>3. /\ PlaceInv(mem[s], j) /\ Held(mem[s], j) = {} /\ Due(mem[s], j) = {}
          /\ j.at \notin NeedsGrant
      BY <1>1, <2>1, HeldAt DEF PlaceInv, Consenting
    <2>4. Fresh(disk')
      BY <2>2 DEF AdmitInv, FreshInv
    <2> QED BY <1>2, <2>2, <2>3, <2>4, QuietStep
  <1>5. CASE WrapUp(s)
    BY <1>1, <1>5, WrappedIsLate, LateFresh, QuietEnd DEF WrapUp, env
  <1>6. ASSUME NEW l \in Lanes, Throw(s, l) PROVE AdmitInv'
    <2>1. ~Early(Thrown(mem[s], l)) /\ Wrap.at = "wrap"
      BY <1>1, ThrownIsLate, GoIs DEF Wrap
    <2>2. /\ PlaceInv(Thrown(mem[s], l), Wrap) /\ Held(Thrown(mem[s], l), Wrap) = {}
          /\ Due(Thrown(mem[s], l), Wrap) = {} /\ Wrap.at \notin NeedsGrant
      BY <2>1, HeldAt DEF PlaceInv, Consenting
    <2>3. SaveAndKeep(s, Thrown(mem[s], l), Thrown(mem[s], l), Wrap, Idle)
          /\ UNCHANGED <<made, calls, granted>>
      BY <1>6 DEF Throw, Save, env
    <2> QED BY <2>1, <2>2, <2>3, IdleQuiet, LateFresh, QuietSave
  <1>7. ASSUME NEW l \in Lanes, SubmitTask(s, l) \/ SubmitTaskThrows(s, l) PROVE AdmitInv'
    BY <1>7, GoIs, SubmitAdmits DEF SubmitTask, SubmitTaskThrows
  <1>8. ASSUME NEW l \in Lanes, Session(s, l) PROVE AdmitInv'
    <2> DEFINE r == [mem[s] EXCEPT !.lanes[l].phase = "session_ready"]
    <2>1. ~Early(r)
      BY <1>1 DEF Early, Records
    <2>2. SaveAndKeep(s, r, r, Go("submit", job[s].todo), Go("throw", job[s].todo))
          /\ UNCHANGED env /\ job[s].at = "session"
      BY <1>8 DEF Session, Save, At
    <2>3. Due(mem[s], job[s]) = job[s].todo
      BY <2>2 DEF Due
    <2> HIDE DEF r
    <2> QED BY <2>1, <2>2, <2>3, GoIs, SendingSave DEF Sending
  <1>9. ASSUME NEW l \in Lanes, EvidenceNever(s, l) \/ EvidenceLost(s, l) PROVE AdmitInv'
    <2>1. \E r, kept :
            /\ SaveAndKeep(s, r, kept, Wrap, Go("throw", job[s].todo))
            /\ ~Early(r) /\ ~Early(kept)
      <3>1. CASE EvidenceNever(s, l)
        BY <1>1, <3>1, ThrownIsLate DEF EvidenceNever, Save
      <3>2. CASE EvidenceLost(s, l)
        <4> DEFINE r == [mem[s] EXCEPT !.lanes[l] = [phase |-> "unrecoverable_post_prompt",
                           confidence |-> "uncertain", class |-> "failed"]]
                   kept == [r EXCEPT !.phase = "degraded"]
        <4>1. SaveAndKeep(s, r, kept, Wrap, Go("throw", job[s].todo))
          BY <3>2 DEF EvidenceLost
        <4>2. ~Early(r) /\ ~Early(kept)
          BY <1>1 DEF Early, Records
        <4> HIDE DEF r, kept
        <4> QED BY <4>1, <4>2
      <3> QED BY <1>9, <3>1, <3>2
    <2>2. UNCHANGED env /\ job[s].at \in Sending
      BY <1>9 DEF EvidenceNever, EvidenceLost, At, Sending
    <2> QED BY <2>1, <2>2, GoIs, SendingSave DEF Wrap
  <1>10. ASSUME NEW l \in Lanes, EvidenceSeen(s, l) \/ EvidencePending(s, l) PROVE AdmitInv'
    <2>1. \E r : ~Early(r) /\ SaveAndKeep(s, r, r, AfterTurn(s, l), Go("throw", job[s].todo))
      BY <1>1, <1>10 DEF EvidenceSeen, EvidencePending, Save, Early, Records
    <2>2. UNCHANGED env /\ job[s].at = "evidence" /\ Turn(s, l)
      BY <1>10 DEF EvidenceSeen, EvidencePending, At
    <2>3. job[s].todo \subseteq Int
      BY InCall, LanesAre
    <2>4. job[s].todo \ {l} \subseteq Due(mem[s], job[s])
      BY <2>2, <2>3 DEF Due, Turn
    <2>5. \/ AfterTurn(s, l).at = "wrap"
          \/ /\ AfterTurn(s, l).at = "session"
             /\ AfterTurn(s, l).todo = job[s].todo \ {l}
      BY GoIs DEF AfterTurn
    <2> QED BY <2>1, <2>2, <2>4, <2>5, GoIs, SendingSave DEF Sending
  <1> QED BY <1>3, <1>4, <1>5, <1>6, <1>7, <1>8, <1>9, <1>10 DEF Dispatch

\* A call that observes or cancels goes on with what it has made of the copy.
LEMMA LateKeep ==
  ASSUME TypeInv, AdmitInv, NEW s \in Servers, NEW r, NEW j, Keep(s, r, j),
         UNCHANGED <<made, calls, granted>>, ~Early(r), j.at \in {"idle", "look", "cancel"}
  PROVE  AdmitInv'
  <1>1. Held(r, j) = {} /\ Due(r, j) = {} /\ j.at \notin NeedsGrant /\ PlaceInv(r, j)
    BY HeldAt DEF PlaceInv, Consenting, Dispatching, Sending
  <1> QED BY <1>1, LateFresh, QuietKeep

LEMMA ReconciledFresh ==
  ASSUME NEW r \in Records, Fresh(r)
  PROVE  Fresh(Reconciled(r))
  <1>1. Early(Reconciled(r)) => /\ Early(r)
                                /\ Reconciled(r).lanes = r.lanes
                                /\ Reconciled(r).asked = r.asked
    BY DEF Reconciled, Early, Records
  <1> QED BY <1>1 DEF Fresh

LEMMA ObserveAdmits ==
  ASSUME TypeInv, AdmitInv, NEW s \in Servers, Observe(s)
  PROVE  AdmitInv'
  <1>1. job[s].at = "look" /\ mem[s] \in Records
    BY InCall DEF Observe, Reconcile, ReconcileUnchanged, Look, LookAttentionInvalid,
       LookReconnects, LookFails, Looking, At
  <1>2. Fresh(mem[s]) /\ PlaceInv(mem[s], job[s])
    BY Here
  <1>3. CASE Reconcile(s)
    BY <1>1, <1>2, <1>3, ReconciledFresh, QuietEnd DEF Reconcile, env
  <1>4. CASE ReconcileUnchanged(s)
    BY <1>2, <1>4, IdleQuiet, QuietKeep DEF ReconcileUnchanged, env
  <1>5. ASSUME NEW l \in Lanes,
               \/ Look(s, l) \/ LookAttentionInvalid(s, l) \/ LookReconnects(s, l)
               \/ LookFails(s, l)
        PROVE  AdmitInv'
    <2>1. ~Early(mem[s])
      BY <1>1, <1>2, <1>5 DEF PlaceInv, Look, LookAttentionInvalid, LookReconnects, LookFails,
         Looking, Turn
    <2>2. PICK r : Seen(s, l, r) /\ r.phase = mem[s].phase
      <3>1. CASE Look(s, l)
        <4>1. \A lane, a : [mem[s] EXCEPT !.lanes[l] = lane, !.asked = a].phase = mem[s].phase
          BY <1>1 DEF Records
        <4> QED BY <3>1, <4>1 DEF Look
      <3>2. CASE ~Look(s, l)
        <4>1. \A lane : [mem[s] EXCEPT !.lanes[l] = lane].phase = mem[s].phase
          BY <1>1 DEF Records
        <4> QED BY <1>5, <3>2, <4>1 DEF LookAttentionInvalid, LookReconnects, LookFails
      <3> QED BY <3>1, <3>2
    <2>3. UNCHANGED <<made, calls, granted>>
      BY <1>5 DEF Look, LookAttentionInvalid, LookReconnects, LookFails, env
    <2>4. Rest(s, l, r).at = "look"
      BY DEF Rest, Go
    <2>5. Keep(s, r, Rest(s, l, r)) /\ ~Early(r)
      BY <2>1, <2>2 DEF Seen, Early
    <2> HIDE DEF Early
    <2> QED BY <2>3, <2>4, <2>5, LateKeep
  <1> QED BY <1>3, <1>4, <1>5 DEF Observe

LEMMA CancelAdmits ==
  ASSUME TypeInv, AdmitInv, NEW s \in Servers, DoCancel(s)
  PROVE  AdmitInv'
  <1>1. job[s].at = "cancel" /\ mem[s] \in Records
    BY InCall DEF DoCancel, CancelUnprompted, CancelEnd, CancelSkips, CancelConfirmed,
       CancelUnconfirmed, Cancelling, At
  <1>2. Fresh(mem[s]) /\ PlaceInv(mem[s], job[s])
    BY Here
  <1>3. CASE CancelUnprompted(s) \/ CancelEnd(s)
    <2>1. PICK r : Save(s, r, Idle, Idle) /\ r.phase \in {"cancelled", "degraded"}
      <3>1. CASE CancelUnprompted(s)
        <4>1. \A lanes : [mem[s] EXCEPT !.phase = "cancelled", !.confirmed = TRUE,
                                        !.lanes = lanes].phase = "cancelled"
          BY <1>1 DEF Records
        <4> QED BY <3>1, <4>1 DEF CancelUnprompted
      <3>2. CASE CancelEnd(s)
        <4>1. \A c, p : [mem[s] EXCEPT !.confirmed = c, !.phase = p].phase = p
          BY <1>1 DEF Records
        <4> QED BY <3>2, <4>1 DEF CancelEnd
      <3> QED BY <1>3, <3>1, <3>2
    <2>2. ~Early(r)
      BY <2>1 DEF Early
    <2>3. UNCHANGED <<made, calls, granted>>
      BY <1>3 DEF CancelUnprompted, CancelEnd, env
    <2> QED BY <2>1, <2>2, <2>3, LateFresh, QuietEnd
  <1>4. ASSUME NEW l \in Lanes, CancelSkips(s, l) \/ CancelConfirmed(s, l) \/ CancelUnconfirmed(s, l)
        PROVE  AdmitInv'
    <2>1. Cancelling(s, l) /\ UNCHANGED <<made, calls, granted>>
      BY <1>4 DEF CancelSkips, CancelConfirmed, CancelUnconfirmed, env
    <2>2. ~Early(mem[s])
      <3> SUFFICES ASSUME Early(mem[s]) PROVE FALSE
        OBVIOUS
      <3>1. ~Unprompted(mem[s])
        BY <1>1, <1>2, <2>1 DEF PlaceInv, Cancelling
      <3>2. \A k \in Lanes : mem[s].lanes[k] = NewLane
        BY <1>2 DEF Fresh
      <3> QED BY <3>1, <3>2 DEF Unprompted, PromptEvidence, Attempted, NewLane
    <2>3. PICK lane : CancelGoesOn(s, l, lane)
      BY <1>4 DEF CancelSkips, CancelConfirmed, CancelUnconfirmed
    <2> DEFINE r == [mem[s] EXCEPT !.lanes[l] = lane]
    <2>4. ~Early(r)
      BY <1>1, <2>2 DEF Early, Records
    <2>5. Keep(s, r, Go("cancel", job[s].todo \ {l}))
      BY <2>3 DEF CancelGoesOn
    <2> HIDE DEF r
    <2> QED BY <2>1, <2>4, <2>5, GoIs, LateKeep
  <1> QED BY <1>3, <1>4 DEF DoCancel

\* The calls that find the record: inspectRun and its like, replyRun and cancelRun.
LEMMA CallAdmits ==
  ASSUME TypeInv, AdmitInv, NEW s \in Servers, Inspect(s) \/ Reply(s) \/ Cancel(s)
  PROVE  AdmitInv'
  <1>1. mem[s] \in Records /\ job[s].at = "idle"
    BY InCall DEF Inspect, Open, Reply, Cancel, Usable, At
  <1>2. Fresh(mem[s])
    BY Here
  <1>3. CASE Inspect(s)
    <2> DEFINE j == Go("look", ToObserve(mem[s]))
    <2>1. Early(mem[s]) => ToObserve(mem[s]) = {}
      BY <1>2 DEF Fresh, ToObserve, NeedsObservation, Attempted, NewLane
    <2>2. j.at = "look" /\ j.todo = ToObserve(mem[s])
      BY GoIs
    <2>3. /\ mem' = [mem EXCEPT ![s] = mem[s]] /\ job' = [job EXCEPT ![s] = j]
          /\ UNCHANGED <<disk, made, calls, granted>>
      BY <1>3 DEF Inspect, env, TypeInv, RecordType
    <2> HIDE DEF j
    <2>4. /\ PlaceInv(mem[s], j) /\ Held(mem[s], j) = {} /\ Due(mem[s], j) = {}
          /\ j.at \notin NeedsGrant
      BY <2>1, <2>2, HeldAt DEF PlaceInv, Consenting, Dispatching, Sending
    <2>5. Fresh(disk')
      BY <2>3 DEF AdmitInv, FreshInv
    <2> QED BY <1>2, <2>3, <2>4, <2>5, QuietStep
  <1>4. CASE Reply(s)
    <2>1. ~Early(mem[s])
      BY <1>2, <1>4 DEF Reply, Fresh
    <2>2. PICK r, j : /\ SaveAndKeep(s, r, r, j, Idle)
                      /\ r.phase = mem[s].phase /\ j.at \in {"idle", "look"}
      <3>1. \A lanes : [mem[s] EXCEPT !.asked = {}, !.lanes = lanes].phase = mem[s].phase
        BY <1>1 DEF Records
      <3>2. \A r : (IF r.phase \in Finished THEN Idle ELSE Go("look", ToObserve(r))).at
                      \in {"idle", "look"}
        BY GoIs, IdleQuiet
      <3> QED BY <1>4, <3>1, <3>2 DEF Reply, Save
    <2>3. ~Early(r) /\ UNCHANGED <<made, calls, granted>>
      BY <1>4, <2>1, <2>2 DEF Early, Reply
    <2>4. Held(r, j) = {} /\ Due(r, j) = {} /\ j.at \notin NeedsGrant /\ PlaceInv(r, j)
      BY <2>2, <2>3, HeldAt DEF PlaceInv, Consenting, Dispatching, Sending
    <2> QED BY <2>2, <2>3, <2>4, LateFresh, IdleQuiet, QuietSave
  <1>5. CASE Cancel(s)
    <2> DEFINE r == [mem[s] EXCEPT !.cancel = TRUE]
               j == Go("cancel", Lanes)
    <2>1. Fresh(r)
      BY <1>1, <1>2 DEF Fresh, Early, Records
    <2>2. j.at = "cancel" /\ j.todo = Lanes
      BY GoIs
    <2>3. SaveAndKeep(s, r, r, j, Idle) /\ UNCHANGED <<made, calls, granted>>
      BY <1>5 DEF Cancel, Save, env
    <2> HIDE DEF r, j
    <2>4. Held(r, j) = {} /\ Due(r, j) = {} /\ j.at \notin NeedsGrant /\ PlaceInv(r, j)
      BY <2>2, HeldAt DEF PlaceInv, Consenting, Dispatching, Sending
    <2> QED BY <2>1, <2>3, <2>4, IdleQuiet, QuietSave
  <1> QED BY <1>3, <1>4, <1>5

LEMMA AdmitNext == TypeInv /\ AdmitInv /\ [Next]_vars => AdmitInv'
  <1> SUFFICES ASSUME TypeInv, AdmitInv, [Next]_vars PROVE AdmitInv'
    OBVIOUS
  <1>1. ASSUME UNCHANGED <<disk, mem, job, made, granted, calls>> PROVE AdmitInv'
    BY <1>1 DEF AdmitInv, FreshInv, Fresh, Early, PlaceInv, HoldInv, Held, Due, Admitted
  <1>2. CASE UNCHANGED vars
    BY <1>1, <1>2 DEF vars
  <1>3. ASSUME NEW l \in Lanes, TaskNext(l) PROVE AdmitInv'
    BY <1>1, <1>3 DEF TaskNext, TaskPrompts, TaskConfirms, TaskAsks, TaskGoesOn, TaskEnds, TaskSteps
  <1>4. ASSUME NEW s \in Servers, Load(s) PROVE AdmitInv'
    <2>1. job[s].at = "idle" /\ Fresh(disk)
      BY <1>4 DEF Load, At, AdmitInv, FreshInv
    <2>2. /\ mem' = [mem EXCEPT ![s] = disk] /\ job' = [job EXCEPT ![s] = job[s]]
          /\ UNCHANGED <<disk, made, calls, granted>>
      BY <1>4 DEF Load, env, TypeInv, RecordType
    <2>3. /\ PlaceInv(disk, job[s]) /\ Held(disk, job[s]) = {} /\ Due(disk, job[s]) = {}
          /\ job[s].at \notin NeedsGrant
      BY <2>1, HeldAt DEF PlaceInv, Consenting, Dispatching, Sending
    <2>4. Fresh(disk')
      BY <2>1, <2>2
    <2> QED BY <2>1, <2>2, <2>3, <2>4, QuietStep
  <1>5. ASSUME NEW s \in Servers, Crash(s) PROVE AdmitInv'
    <2>1. /\ mem' = [mem EXCEPT ![s] = None] /\ job' = [job EXCEPT ![s] = Idle]
          /\ UNCHANGED <<disk, made, calls, granted>>
      BY <1>5 DEF Crash, env
    <2>2. Fresh(disk')
      BY <2>1 DEF AdmitInv, FreshInv
    <2> QED BY <2>1, <2>2, NoneFresh, IdleQuiet, QuietStep
  <1> QED BY <1>2, <1>3, <1>4, <1>5, ConsentAdmits, AdmitAdmits, DispatchAdmits, ObserveAdmits,
             CancelAdmits, CallAdmits DEF Next, Call, Step

LEMMA AdmitInit == Init => AdmitInv
  <1> SUFFICES ASSUME Init PROVE AdmitInv
    OBVIOUS
  <1>1. FreshInv
    BY NoneFresh, IdleQuiet DEF Init, FreshInv
  <1>2. HoldInv
    BY IdleQuiet DEF Init, HoldInv, Admitted
  <1> QED BY <1>1, <1>2 DEF AdmitInv

\* No lane is submitted twice, and none before the consent and the worktrees, whatever servers
\* admit the run at the same time, die or fail to save (run-admission.mjs:1258, 1333).
THEOREM AdmissionAdmitted == Spec => []Admitted
  <1>1. AdmitInv => Admitted
    BY DEF AdmitInv, HoldInv
  <1> QED BY <1>1, TypeInit, TypeNext, AdmitInit, AdmitNext, PTL DEF Spec

-----------------------------------------------------------------------------
(* The phase of a run that has ended. *)

Resting == {"idle", "wrap"}

\* A call that observes, cancels or dispatches works on a run that has not ended.
Ongoing(r, j) ==
  /\ j.at \notin {"throw"} \cup Resting => r.phase \notin Finished
  /\ j.at \in Sending => r.phase = "dispatching"
  /\ j.at \in {"throw", "wrap"} => r.phase \notin {"completed", "cancelled"}

OngoingInv == \A s \in Servers : Ongoing(mem[s], job[s])

AloneInv == solo => \A s, t \in Servers : s # t => mem[s] = None \/ mem[t] = None

\* The one server that has the record knows that it has ended.
FinalInv ==
  solo /\ disk # None /\ disk.phase \in Finished =>
    \A s \in Servers : mem[s] # None => mem[s].phase = disk.phase /\ job[s].at \in Resting

PhaseInv == OngoingInv /\ AloneInv /\ FinalInv

\* The server rests with a run that has ended.
Over(s) == mem[s].phase \in Finished /\ job[s].at \in Resting

\* What a step of a server that has the record does to the phases: it leaves the copy r.
PhaseStep(s, r, j) ==
  /\ mem' = [mem EXCEPT ![s] = r] /\ job' = [job EXCEPT ![s] = j]
  /\ r # None /\ Ongoing(r, j)
  /\ disk' # disk /\ disk'.phase \in Finished => r.phase = disk'.phase /\ j.at \in Resting
  /\ Over(s) => /\ r.phase = mem[s].phase /\ j.at \in Resting
                /\ disk' # disk => disk'.phase = mem[s].phase

Moves(s) ==
  /\ mem[s] # None /\ UNCHANGED solo /\ faults' \in {faults, faults + 1}
  /\ \E r, j : PhaseStep(s, r, j)

LEMMA RecordIsSome ==
  ASSUME NEW r \in Records
  PROVE  r # None
  BY NoneIsNone

LEMMA PhaseIsSome ==
  ASSUME NEW r, r.phase \in RunPhases
  PROVE  r # None
  BY DEF None, RunPhases

LEMMA SaveMoves ==
  ASSUME TypeInv, NEW s \in Servers, mem[s] # None, NEW r, r # None, NEW kept, kept # None,
         NEW next, NEW failed, SaveAndKeep(s, r, kept, next, failed),
         Ongoing(kept, next), Ongoing(r, failed),
         r.phase \in Finished => kept.phase = r.phase /\ next.at \in Resting,
         Over(s) => /\ r.phase = mem[s].phase /\ kept.phase = mem[s].phase
                    /\ next.at \in Resting /\ failed.at \in Resting
  PROVE  Moves(s)
  <1>1. UNCHANGED solo /\ faults' \in {faults, faults + 1}
    BY DEF SaveAndKeep
  <1>2. CASE disk' = r /\ mem' = [mem EXCEPT ![s] = kept] /\ job' = [job EXCEPT ![s] = next]
    <2>1. PhaseStep(s, kept, next)
      BY <1>1, <1>2 DEF PhaseStep
    <2> QED BY <1>1, <2>1 DEF Moves
  <1>3. CASE disk' = disk /\ mem' = [mem EXCEPT ![s] = r] /\ job' = [job EXCEPT ![s] = failed]
    <2>1. PhaseStep(s, r, failed)
      BY <1>1, <1>3 DEF PhaseStep
    <2> QED BY <1>1, <2>1 DEF Moves
  <1> QED BY <1>2, <1>3 DEF SaveAndKeep

LEMMA IdleRests ==
  ASSUME NEW r
  PROVE  Idle.at \in Resting /\ Ongoing(r, Idle)
  BY GoIs DEF Idle, Resting, Ongoing, Sending

\* The end of a call.
LEMMA EndMoves ==
  ASSUME TypeInv, NEW s \in Servers, mem[s] # None, NEW r, r # None, Save(s, r, Idle, Idle),
         Over(s) => r.phase = mem[s].phase
  PROVE  Moves(s)
  BY IdleRests, SaveMoves DEF Save

\* A step that saves nothing, of a call that works on a run that has not ended.
LEMMA CopyMoves ==
  ASSUME NEW s \in Servers, mem[s] # None, NEW r, r # None, NEW j,
         mem' = [mem EXCEPT ![s] = r], job' = [job EXCEPT ![s] = j], UNCHANGED <<disk, solo>>,
         faults' \in {faults, faults + 1}, ~Over(s), Ongoing(r, j)
  PROVE  Moves(s)
  <1>1. PhaseStep(s, r, j)
    BY DEF PhaseStep
  <1> QED BY <1>1 DEF Moves

\* Before and during the admission, and while lanes are sent, a run has not ended.
LEMMA EarlyOngoing ==
  ASSUME NEW r, NEW j, Early(r), j.at \notin Sending
  PROVE  Ongoing(r, j)
  BY DEF Early, Ongoing, Finished

LEMMA AtWork ==
  ASSUME TypeInv, OngoingInv, NEW s \in Servers
  PROVE  /\ job[s].at \notin {"throw"} \cup Resting => mem[s].phase \notin Finished
         /\ job[s].at \in Sending => mem[s].phase = "dispatching"
         /\ job[s].at \in {"throw", "wrap"} => mem[s].phase \notin {"completed", "cancelled"}
         /\ job[s].at \notin Resting => ~Over(s)
  BY DEF OngoingInv, Ongoing, Over

LEMMA ConsentMoves ==
  ASSUME TypeInv, AdmitInv, OngoingInv, NEW s \in Servers,
         AskAgain(s) \/ ApproveByReference(s) \/ Consent(s)
  PROVE  Moves(s)
  <1>1. mem[s] \in Records /\ mem[s] # None
    BY InCall, RecordIsSome DEF AskAgain, ApproveByReference, Consent, Create, AskConsent,
       ConsentStays, ConsentDeclined, Approve, Waiting, At, None
  <1>2. CASE AskAgain(s) \/ AskConsent(s)
    <2> DEFINE r == [mem[s] EXCEPT !.phase = "awaiting_consent"]
    <2>1. r \in Records /\ Early(r)
      <3>1. r \in Records
        BY <1>1, PhaseSet DEF RunPhases
      <3>2. r.phase = "awaiting_consent"
        BY <1>1 DEF Records
      <3> QED BY <3>1, <3>2 DEF Early
    <2>2. ~Over(s)
      BY <1>2, AtWork DEF AskAgain, AskConsent, Waiting, At, Over, Finished, Resting
    <2>3. SaveAndKeep(s, r, r, Go("consent", {}), Idle)
      BY <1>2 DEF AskAgain, AskConsent, Ask, Save
    <2> HIDE DEF r
    <2>4. Ongoing(r, Go("consent", {})) /\ r.phase \notin Finished
      BY <2>1, EarlyOngoing, GoIs DEF Sending, Early, Finished
    <2> QED BY <1>1, <2>1, <2>2, <2>3, <2>4, IdleRests, RecordIsSome, SaveMoves
  <1>3. CASE ApproveByReference(s)
    <2>1. Early(mem[s]) /\ ~Over(s)
      BY <1>3 DEF ApproveByReference, Waiting, Early, Over, Finished
    <2>2. Ongoing(mem[s], Go("admit", {}))
      BY <2>1, EarlyOngoing, GoIs DEF Sending
    <2>3. Keep(s, mem[s], Go("admit", {}))
      BY <1>3 DEF ApproveByReference
    <2> QED BY <1>1, <2>1, <2>2, <2>3, RecordIsSome, CopyMoves DEF Keep
  <1>4. CASE Create(s) \/ Approve(s)
    <2>1. Early(mem[s]) /\ ~Over(s)
      BY <1>4, AtWork, Here DEF Create, Approve, At, PlaceInv, Consenting, Resting
    <2>2. PICK place \in {"ask", "admit"} : SaveAndKeep(s, mem[s], mem[s], Go(place, {}), Idle)
      BY <1>4 DEF Create, Approve, Save
    <2>3. Ongoing(mem[s], Go(place, {})) /\ mem[s].phase \notin Finished
      BY <2>1, EarlyOngoing, GoIs DEF Sending, Early, Finished
    <2> QED BY <1>1, <2>1, <2>2, <2>3, IdleRests, RecordIsSome, SaveMoves
  <1>5. CASE ConsentStays(s) \/ ConsentDeclined(s)
    <2>1. ~Over(s)
      BY <1>5, AtWork DEF ConsentStays, ConsentDeclined, At, Resting
    <2> QED BY <1>1, <1>5, <2>1, FailedAdmissionType, RecordIsSome, EndMoves DEF ConsentStays, ConsentDeclined
  <1> QED BY <1>2, <1>3, <1>4, <1>5 DEF Consent

LEMMA AdmitMoves ==
  ASSUME TypeInv, OngoingInv, NEW s \in Servers, Admit(s)
  PROVE  Moves(s)
  <1>1. job[s].at \in {"admit", "prepare"} /\ mem[s] \in Records
    BY InCall DEF Admit, AdmitRun, NotReady, Prepared, Prepare, PrepareFails, At
  <1>2. mem[s] # None /\ mem[s].phase \notin Finished /\ ~Over(s)
    BY <1>1, AtWork, RecordIsSome DEF Resting
  <1>3. CASE AdmitRun(s)
    <2> DEFINE r == [mem[s] EXCEPT !.phase = "preparing_workspaces"]
    <2>1. r \in Records /\ r.phase = "preparing_workspaces"
      <3>1. r \in Records
        BY <1>1, PhaseSet DEF RunPhases
      <3>2. r.phase = "preparing_workspaces"
        BY <1>1 DEF Records
      <3> QED BY <3>1, <3>2
    <2>2. SaveAndKeep(s, r, r, Go("prepare", Lanes), Idle)
      BY <1>3 DEF AdmitRun, Save
    <2> HIDE DEF r
    <2>3. Ongoing(r, Go("prepare", Lanes)) /\ r.phase \notin Finished
      BY <2>1, GoIs DEF Ongoing, Finished, Sending
    <2> QED BY <1>2, <2>1, <2>2, <2>3, IdleRests, RecordIsSome, SaveMoves
  <1>4. CASE NotReady(s) \/ (Prepared(s) /\ ~AllPrepared(mem[s]))
    BY <1>1, <1>2, <1>4, FailedAdmissionType, RecordIsSome, EndMoves DEF NotReady, Prepared
  <1>5. CASE Prepared(s) /\ AllPrepared(mem[s])
    <2>1. SaveAndKeep(s, mem[s], mem[s], Go("begin", {}), Idle)
      BY <1>5 DEF Prepared, Save
    <2>2. Ongoing(mem[s], Go("begin", {}))
      BY <1>2, GoIs DEF Ongoing, Sending
    <2> QED BY <1>1, <1>2, <2>1, <2>2, IdleRests, RecordIsSome, SaveMoves
  <1>6. ASSUME NEW l \in Lanes, Prepare(s, l) \/ PrepareFails(s, l) PROVE Moves(s)
    <2>1. PICK r \in Records : /\ r.phase = mem[s].phase
                               /\ Keep(s, r, Go("prepare", job[s].todo \ {l}))
      <3>1. [mem[s] EXCEPT !.lanes[l].phase = "prepared"] \in Records
        BY <1>1, LanePhaseSet, LaneSet DEF LanePhases, Records
      <3>2. [mem[s] EXCEPT !.lanes[l].phase = "prepared"].phase = mem[s].phase
        BY <1>1 DEF Records
      <3> QED BY <1>1, <1>6, <3>1, <3>2 DEF Prepare, PrepareFails
    <2> DEFINE j == Go("prepare", job[s].todo \ {l})
    <2>2. Ongoing(r, j)
      BY <1>2, <2>1, GoIs DEF Ongoing, Sending
    <2>3. /\ mem' = [mem EXCEPT ![s] = r] /\ job' = [job EXCEPT ![s] = j]
          /\ UNCHANGED <<disk, solo>> /\ faults' \in {faults, faults + 1}
      BY <2>1 DEF Keep
    <2> HIDE DEF j
    <2> QED BY <1>2, <2>1, <2>2, <2>3, RecordIsSome, CopyMoves
  <1> QED BY <1>3, <1>4, <1>5, <1>6 DEF Admit

LEMMA DispatchMoves ==
  ASSUME TypeInv, AdmitInv, OngoingInv, NEW s \in Servers, Dispatch(s)
  PROVE  Moves(s)
  <1>1. job[s].at \in Dispatching /\ mem[s] \in Records
    <2>1. job[s].at \in Dispatching
      BY DEF Dispatch, Begin, EvidenceUnread, WrapUp, Session, SubmitTask, SubmitTaskThrows, Throw,
         EvidenceSeen, EvidenceNever, EvidenceLost, EvidencePending, At, Dispatching, Sending
    <2>2. ~At(s, "idle")
      BY <2>1 DEF At, Dispatching, Sending
    <2> QED BY <2>1, <2>2, InCall
  <1>2. mem[s] # None
    BY <1>1, RecordIsSome
  <1>3. CASE Begin(s)
    <2> DEFINE r == [mem[s] EXCEPT !.phase = "dispatching"]
    <2>1. r.phase = "dispatching" /\ ~Over(s)
      BY <1>1, <1>3, AtWork DEF Records, Begin, At, Resting
    <2>2. SaveAndKeep(s, r, r, Go("session", Lanes), Idle)
      BY <1>3 DEF Begin, Save
    <2> HIDE DEF r
    <2>3. Ongoing(r, Go("session", Lanes)) /\ r.phase \notin Finished /\ r # None
      BY <2>1, GoIs, PhaseIsSome DEF Ongoing, Finished, RunPhases
    <2> QED BY <1>2, <2>1, <2>2, <2>3, IdleRests, SaveMoves
  <1>4. CASE EvidenceUnread(s)
    <2> DEFINE j == [job[s] EXCEPT !.at = "throw"]
    <2>1. j.at = "throw" /\ mem[s].phase = "dispatching" /\ ~Over(s)
      BY <1>4, InCall, AtWork DEF Jobs, EvidenceUnread, At, Sending, Resting
    <2>2. /\ mem' = [mem EXCEPT ![s] = mem[s]] /\ job' = [job EXCEPT ![s] = j]
          /\ UNCHANGED <<disk, solo>> /\ faults' \in {faults, faults + 1}
      BY <1>4 DEF EvidenceUnread, TypeInv, RecordType
    <2> HIDE DEF j
    <2>3. Ongoing(mem[s], j)
      BY <2>1 DEF Ongoing, Sending
    <2> QED BY <1>2, <2>1, <2>2, <2>3, CopyMoves
  <1>5. CASE WrapUp(s)
    <2>1. Over(s) => Wrapped(mem[s]).phase = mem[s].phase
      BY <1>1 DEF Over, Finished, Wrapped, Records
    <2> QED BY <1>1, <1>2, <1>5, <2>1, WrappedType, RecordIsSome, EndMoves DEF WrapUp
  <1>6. ASSUME NEW l \in Lanes, Throw(s, l) \/ EvidenceNever(s, l) PROVE Moves(s)
    <2> DEFINE r == Thrown(mem[s], l)
    <2>1. r # None /\ r.phase \in {"degraded", "failed"}
      BY <1>1, ThrownType, RecordIsSome DEF Thrown, Records
    <2>2. ~Over(s)
      BY <1>6, AtWork DEF Throw, EvidenceNever, At, Resting
    <2>3. PICK failed \in {Idle, Go("throw", job[s].todo)} : SaveAndKeep(s, r, r, Wrap, failed)
      BY <1>6 DEF Throw, EvidenceNever, Save
    <2> HIDE DEF r
    <2>4. Wrap.at \in Resting /\ Ongoing(r, Wrap) /\ Ongoing(r, failed)
      BY <2>1, GoIs, IdleRests DEF Ongoing, Wrap, Resting, Sending
    <2> QED BY <1>2, <2>1, <2>2, <2>3, <2>4, SaveMoves
  <1>7. ASSUME NEW l \in Lanes, SubmitTask(s, l) \/ SubmitTaskThrows(s, l) PROVE Moves(s)
    <2>1. PICK place \in {"evidence", "throw"} : Keep(s, mem[s], Go(place, job[s].todo))
      BY <1>7 DEF SubmitTask, SubmitTaskThrows
    <2>2. mem[s].phase = "dispatching" /\ ~Over(s)
      BY <1>7, AtWork DEF SubmitTask, SubmitTaskThrows, At, Sending, Resting
    <2>3. Ongoing(mem[s], Go(place, job[s].todo))
      BY <2>2, GoIs DEF Ongoing, Sending, Finished
    <2> QED BY <1>2, <2>1, <2>2, <2>3, CopyMoves DEF Keep
  <1>8. ASSUME NEW l \in Lanes,
               \/ Session(s, l) \/ EvidenceSeen(s, l) \/ EvidenceLost(s, l)
               \/ EvidencePending(s, l)
        PROVE  Moves(s)
    <2>1. mem[s].phase = "dispatching" /\ ~Over(s)
      BY <1>8, AtWork DEF Session, EvidenceSeen, EvidenceLost, EvidencePending, At, Sending, Resting
    <2>2. \E r, kept, next :
            /\ SaveAndKeep(s, r, kept, next, Go("throw", job[s].todo))
            /\ r.phase = "dispatching"
            /\ \/ kept.phase = "dispatching" /\ next.at \in {"submit", "session", "wrap"}
               \/ kept.phase = "degraded" /\ next.at = "wrap"
      <3>1. AfterTurn(s, l).at \in {"session", "wrap"} /\ Wrap.at = "wrap"
            /\ Go("submit", job[s].todo).at = "submit"
        BY GoIs DEF AfterTurn, Wrap
      <3>2. CASE Session(s, l)
        BY <1>1, <2>1, <3>1, <3>2 DEF Session, Save, Records
      <3>3. CASE EvidenceSeen(s, l)
        <4>1. [mem[s] EXCEPT !.lanes[l].phase = "prompt_dispatched",
                             !.lanes[l].confidence = "authoritative"].phase = mem[s].phase
          BY <1>1 DEF Records
        <4> QED BY <2>1, <3>1, <3>3, <4>1 DEF EvidenceSeen, Save
      <3>4. CASE EvidencePending(s, l)
        <4>1. [mem[s] EXCEPT !.lanes[l].confidence = "uncertain",
                             !.lanes[l].class = "pending"].phase = mem[s].phase
          BY <1>1 DEF Records
        <4> QED BY <2>1, <3>1, <3>4, <4>1 DEF EvidencePending, Save
      <3>5. CASE EvidenceLost(s, l)
        <4> DEFINE r == [mem[s] EXCEPT !.lanes[l] = [phase |-> "unrecoverable_post_prompt",
                           confidence |-> "uncertain", class |-> "failed"]]
                   kept == [r EXCEPT !.phase = "degraded"]
        <4>1. SaveAndKeep(s, r, kept, Wrap, Go("throw", job[s].todo))
          BY <3>5 DEF EvidenceLost
        <4>2. r.phase = "dispatching" /\ kept.phase = "degraded"
          BY <1>1, <2>1 DEF Records
        <4> HIDE DEF r, kept
        <4> QED BY <3>1, <4>1, <4>2
      <3> QED BY <1>8, <3>2, <3>3, <3>4, <3>5
    <2>3. PICK r, kept, next :
            /\ SaveAndKeep(s, r, kept, next, Go("throw", job[s].todo))
            /\ r.phase = "dispatching"
            /\ \/ kept.phase = "dispatching" /\ next.at \in {"submit", "session", "wrap"}
               \/ kept.phase = "degraded" /\ next.at = "wrap"
      BY <2>2
    <2>4. /\ Ongoing(kept, next) /\ Ongoing(r, Go("throw", job[s].todo))
          /\ r # None /\ kept # None /\ r.phase \notin Finished
      BY <2>3, GoIs, PhaseIsSome DEF Ongoing, Sending, Resting, Finished, RunPhases
    <2> QED BY <1>2, <2>1, <2>3, <2>4, SaveMoves
  <1> QED BY <1>3, <1>4, <1>5, <1>6, <1>7, <1>8 DEF Dispatch

LEMMA ObserveMoves ==
  ASSUME TypeInv, OngoingInv, NEW s \in Servers, Observe(s)
  PROVE  Moves(s)
  <1>1. job[s].at = "look" /\ mem[s] \in Records
    BY InCall DEF Observe, Reconcile, ReconcileUnchanged, Look, LookAttentionInvalid,
       LookReconnects, LookFails, Looking, At
  <1>2. mem[s] # None /\ ~Over(s) /\ mem[s].phase \notin Finished
    BY <1>1, RecordIsSome, AtWork DEF Resting
  <1>3. CASE Reconcile(s)
    BY <1>1, <1>2, <1>3, ReconciledType, RecordIsSome, EndMoves DEF Reconcile
  <1>4. CASE ReconcileUnchanged(s)
    BY <1>2, <1>4, IdleRests, CopyMoves DEF ReconcileUnchanged, Keep
  <1>5. ASSUME NEW l \in Lanes,
               \/ Look(s, l) \/ LookAttentionInvalid(s, l) \/ LookReconnects(s, l)
               \/ LookFails(s, l)
        PROVE  Moves(s)
    <2>1. PICK r : Seen(s, l, r) /\ r.phase = mem[s].phase
      <3>1. CASE Look(s, l)
        <4>1. \A lane, a : [mem[s] EXCEPT !.lanes[l] = lane, !.asked = a].phase = mem[s].phase
          BY <1>1 DEF Records
        <4> QED BY <3>1, <4>1 DEF Look
      <3>2. CASE ~Look(s, l)
        <4>1. \A lane : [mem[s] EXCEPT !.lanes[l] = lane].phase = mem[s].phase
          BY <1>1 DEF Records
        <4> QED BY <1>5, <3>2, <4>1 DEF LookAttentionInvalid, LookReconnects, LookFails
      <3> QED BY <3>1, <3>2
    <2>2. Rest(s, l, r).at = "look"
      BY DEF Rest, Go
    <2>3. r # None
      BY <1>1, <2>1, PhaseIsSome DEF Records
    <2>4. Ongoing(r, Rest(s, l, r))
      BY <1>2, <2>1, <2>2 DEF Ongoing, Sending
    <2> QED BY <1>2, <2>1, <2>3, <2>4, CopyMoves DEF Seen, Keep
  <1> QED BY <1>3, <1>4, <1>5 DEF Observe

LEMMA CancelMoves ==
  ASSUME TypeInv, OngoingInv, NEW s \in Servers, DoCancel(s)
  PROVE  Moves(s)
  <1>1. job[s].at = "cancel" /\ mem[s] \in Records
    BY InCall DEF DoCancel, CancelUnprompted, CancelEnd, CancelSkips, CancelConfirmed,
       CancelUnconfirmed, Cancelling, At
  <1>2. mem[s] # None /\ ~Over(s) /\ mem[s].phase \notin Finished
    BY <1>1, RecordIsSome, AtWork DEF Resting
  <1>3. CASE CancelUnprompted(s) \/ CancelEnd(s)
    <2>1. PICK r : Save(s, r, Idle, Idle) /\ r.phase \in {"cancelled", "degraded"}
      <3>1. CASE CancelUnprompted(s)
        <4>1. \A lanes : [mem[s] EXCEPT !.phase = "cancelled", !.confirmed = TRUE,
                                        !.lanes = lanes].phase = "cancelled"
          BY <1>1 DEF Records
        <4> QED BY <3>1, <4>1 DEF CancelUnprompted
      <3>2. CASE CancelEnd(s)
        <4>1. \A c, p : [mem[s] EXCEPT !.confirmed = c, !.phase = p].phase = p
          BY <1>1 DEF Records
        <4> QED BY <3>2, <4>1 DEF CancelEnd
      <3> QED BY <1>3, <3>1, <3>2
    <2>2. r # None
      BY <2>1, PhaseIsSome DEF RunPhases
    <2> QED BY <1>2, <2>1, <2>2, EndMoves
  <1>4. ASSUME NEW l \in Lanes, CancelSkips(s, l) \/ CancelConfirmed(s, l) \/ CancelUnconfirmed(s, l)
        PROVE  Moves(s)
    <2>1. PICK lane : CancelGoesOn(s, l, lane)
      BY <1>4 DEF CancelSkips, CancelConfirmed, CancelUnconfirmed
    <2> DEFINE r == [mem[s] EXCEPT !.lanes[l] = lane]
               j == Go("cancel", job[s].todo \ {l})
    <2>2. r.phase = mem[s].phase
      BY <1>1 DEF Records
    <2>3. /\ mem' = [mem EXCEPT ![s] = r] /\ job' = [job EXCEPT ![s] = j]
          /\ UNCHANGED <<disk, solo>> /\ faults' \in {faults, faults + 1}
      BY <2>1 DEF CancelGoesOn, Keep
    <2>4. j.at = "cancel"
      BY GoIs
    <2> HIDE DEF r, j
    <2>5. r # None /\ Ongoing(r, j)
      BY <1>1, <1>2, <2>2, <2>4, PhaseIsSome DEF Ongoing, Sending, Records
    <2> QED BY <1>2, <2>3, <2>5, CopyMoves
  <1> QED BY <1>3, <1>4 DEF DoCancel

LEMMA CallMoves ==
  ASSUME TypeInv, OngoingInv, NEW s \in Servers, Inspect(s) \/ Reply(s) \/ Cancel(s)
  PROVE  Moves(s)
  <1>1. mem[s] \in Records /\ mem[s] # None /\ job[s].at = "idle"
    BY InCall DEF Inspect, Open, Reply, Cancel, Usable, At
  <1>2. CASE Inspect(s)
    <2> DEFINE j == Go("look", ToObserve(mem[s]))
    <2>1. /\ mem' = [mem EXCEPT ![s] = mem[s]] /\ job' = [job EXCEPT ![s] = j]
          /\ UNCHANGED <<disk, solo>> /\ faults' \in {faults, faults + 1}
      BY <1>2 DEF Inspect, TypeInv, RecordType
    <2>2. mem[s].phase \notin Finished /\ j.at = "look"
      BY <1>2, GoIs DEF Inspect, Open
    <2> HIDE DEF j
    <2>3. Ongoing(mem[s], j) /\ ~Over(s)
      BY <2>2 DEF Ongoing, Sending, Over
    <2> QED BY <1>1, <2>1, <2>3, CopyMoves
  <1>3. CASE Reply(s)
    <2>1. PICK r, j : /\ SaveAndKeep(s, r, r, j, Idle)
                      /\ r.phase = mem[s].phase
                      /\ j.at = IF r.phase \in Finished THEN "idle" ELSE "look"
      <3>1. \A lanes : [mem[s] EXCEPT !.asked = {}, !.lanes = lanes].phase = mem[s].phase
        BY <1>1 DEF Records
      <3>2. PICK r : /\ r.phase = mem[s].phase
                     /\ SaveAndKeep(s, r, r, IF r.phase \in Finished THEN Idle
                                             ELSE Go("look", ToObserve(r)), Idle)
        BY <1>3, <3>1 DEF Reply, Save
      <3> DEFINE j == IF r.phase \in Finished THEN Idle ELSE Go("look", ToObserve(r))
      <3>3. j.at = IF r.phase \in Finished THEN "idle" ELSE "look"
        BY GoIs, IdleQuiet
      <3> HIDE DEF j
      <3> QED BY <3>2, <3>3 DEF j
    <2>2. r # None
      BY <1>1, <2>1, PhaseIsSome DEF Records
    <2>3. /\ Ongoing(r, j)
          /\ r.phase \in Finished => j.at \in Resting
          /\ Over(s) => r.phase \in Finished
      BY <1>1, <2>1 DEF Ongoing, Sending, Resting, Over
    <2> QED BY <1>1, <2>1, <2>2, <2>3, IdleRests, SaveMoves
  <1>4. CASE Cancel(s)
    <2> DEFINE r == [mem[s] EXCEPT !.cancel = TRUE]
    <2>1. r.phase = mem[s].phase
      BY <1>1 DEF Records
    <2>2. SaveAndKeep(s, r, r, Go("cancel", Lanes), Idle) /\ mem[s].phase \notin Finished
      BY <1>4 DEF Cancel, Save
    <2> HIDE DEF r
    <2>3. r # None /\ Ongoing(r, Go("cancel", Lanes)) /\ ~Over(s)
      BY <1>1, <2>1, <2>2, GoIs, PhaseIsSome DEF Ongoing, Sending, Over, Records
    <2> QED BY <1>1, <2>1, <2>2, <2>3, IdleRests, SaveMoves
  <1> QED BY <1>2, <1>3, <1>4

\* What the property TerminalIsFinal says of a step.
FinalStep == solo' /\ disk # None /\ disk.phase \in Finished => disk'.phase = disk.phase

\* A step of a server in the copies and the calls of all.
LEMMA StepAt ==
  ASSUME TypeInv, NEW s \in Servers, NEW r, NEW j,
         mem' = [mem EXCEPT ![s] = r], job' = [job EXCEPT ![s] = j]
  PROVE  /\ mem'[s] = r /\ job'[s] = j
         /\ \A t \in Servers \ {s} : mem'[t] = mem[t] /\ job'[t] = job[t]
  BY DEF TypeInv, RecordType

LEMMA StepOngoing ==
  ASSUME TypeInv, OngoingInv, NEW s \in Servers, NEW r, NEW j,
         mem' = [mem EXCEPT ![s] = r], job' = [job EXCEPT ![s] = j], Ongoing(r, j)
  PROVE  OngoingInv'
  <1>1. /\ mem'[s] = r /\ job'[s] = j
        /\ \A t \in Servers \ {s} : mem'[t] = mem[t] /\ job'[t] = job[t]
    BY StepAt
  <1>2. ASSUME NEW t \in Servers PROVE Ongoing(mem'[t], job'[t])
    BY <1>1 DEF OngoingInv
  <1> QED BY <1>2 DEF OngoingInv, Ongoing

LEMMA MovesPhase ==
  ASSUME TypeInv, PhaseInv, NEW s \in Servers, Moves(s)
  PROVE  PhaseInv' /\ FinalStep
  <1>1. PICK r, j : PhaseStep(s, r, j)
    BY DEF Moves
  <1>2. mem' = [mem EXCEPT ![s] = r] /\ job' = [job EXCEPT ![s] = j] /\ Ongoing(r, j)
    BY <1>1 DEF PhaseStep
  <1>3. /\ mem'[s] = r /\ job'[s] = j
        /\ \A t \in Servers \ {s} : mem'[t] = mem[t] /\ job'[t] = job[t]
    BY <1>2, StepAt
  <1>4. mem[s] # None /\ UNCHANGED solo
    BY DEF Moves
  <1>5. OngoingInv'
    BY <1>2, StepOngoing DEF PhaseInv
  <1>6. solo => \A t \in Servers \ {s} : mem[t] = None
    BY <1>4 DEF PhaseInv, AloneInv
  <1>7. AloneInv'
    BY <1>3, <1>4, <1>6 DEF AloneInv
  <1>8. ASSUME solo, disk # None, disk.phase \in Finished
        PROVE  /\ disk'.phase = disk.phase
               /\ r.phase = disk.phase /\ j.at \in Resting
    <2>1. mem[s].phase = disk.phase /\ job[s].at \in Resting
      BY <1>4, <1>8 DEF PhaseInv, FinalInv
    <2>2. Over(s)
      BY <1>8, <2>1 DEF Over
    <2> QED BY <1>1, <2>1, <2>2 DEF PhaseStep
  <1>9. FinalStep
    BY <1>4, <1>8 DEF FinalStep
  <1>10. FinalInv'
    <2> SUFFICES ASSUME solo', (disk # None)', disk'.phase \in Finished
                 PROVE  r.phase = disk'.phase /\ j.at \in Resting
      BY <1>3, <1>4, <1>6 DEF FinalInv
    <2>1. CASE disk' = disk
      BY <1>4, <1>8, <2>1
    <2>2. CASE disk' # disk
      BY <1>1, <2>2 DEF PhaseStep
    <2> QED BY <2>1, <2>2
  <1> QED BY <1>5, <1>7, <1>9, <1>10 DEF PhaseInv

LEMMA PhaseNext == TypeInv /\ AdmitInv /\ PhaseInv /\ [Next]_vars => PhaseInv' /\ FinalStep
  <1> SUFFICES ASSUME TypeInv, AdmitInv, PhaseInv, [Next]_vars PROVE PhaseInv' /\ FinalStep
    OBVIOUS
  <1>1. ASSUME UNCHANGED <<disk, mem, job, solo>> PROVE PhaseInv' /\ FinalStep
    BY <1>1 DEF PhaseInv, OngoingInv, Ongoing, AloneInv, FinalInv, FinalStep
  <1>2. CASE UNCHANGED vars
    BY <1>1, <1>2 DEF vars
  <1>3. ASSUME NEW l \in Lanes, TaskNext(l) PROVE PhaseInv' /\ FinalStep
    BY <1>1, <1>3 DEF TaskNext, TaskPrompts, TaskConfirms, TaskAsks, TaskGoesOn, TaskEnds, TaskSteps
  <1>4. ASSUME NEW s \in Servers, Load(s) \/ Submit(s) PROVE PhaseInv' /\ FinalStep
    <2>1. PICK r, j : /\ mem' = [mem EXCEPT ![s] = r] /\ job' = [job EXCEPT ![s] = j]
                      /\ Ongoing(r, j)
                      /\ disk # None => r = disk /\ j.at = "idle"
      <3>1. CASE Load(s)
        <4>1. mem' = [mem EXCEPT ![s] = disk] /\ job' = [job EXCEPT ![s] = job[s]]
          BY <3>1 DEF Load, TypeInv, RecordType
        <4>2. Ongoing(disk, job[s]) /\ job[s].at = "idle"
          BY <3>1 DEF Load, At, Ongoing, Resting, Sending
        <4> QED BY <4>1, <4>2
      <3>2. CASE Submit(s)
        <4>1. Ongoing(NewRecord, Go("create", {}))
          BY EarlyOngoing, GoIs DEF NewRecord, Early, Sending
        <4> QED BY <3>2, <4>1 DEF Submit
      <3> QED BY <1>4, <3>1, <3>2
    <2>2. UNCHANGED disk /\ (solo' => Alone(s))
      BY <1>4 DEF Load, Submit
    <2>3. OngoingInv'
      BY <2>1, StepOngoing DEF PhaseInv
    <2>4. /\ mem'[s] = r /\ job'[s] = j
          /\ solo' => \A t \in Servers \ {s} : mem'[t] = None
      BY <2>1, <2>2, StepAt DEF Alone
    <2>5. AloneInv'
      BY <2>4 DEF AloneInv
    <2>6. FinalInv'
      <3> SUFFICES ASSUME solo', disk # None, disk.phase \in Finished
                   PROVE  r.phase = disk.phase /\ j.at \in Resting
        BY <2>2, <2>4 DEF FinalInv
      <3> QED BY <2>1 DEF Resting
    <2>7. FinalStep
      BY <2>2 DEF FinalStep
    <2> QED BY <2>3, <2>5, <2>6, <2>7 DEF PhaseInv
  <1>5. ASSUME NEW s \in Servers, Crash(s) PROVE PhaseInv' /\ FinalStep
    <2>1. /\ mem' = [mem EXCEPT ![s] = None] /\ job' = [job EXCEPT ![s] = Idle]
          /\ UNCHANGED <<disk, solo>>
      BY <1>5 DEF Crash
    <2>2. /\ mem'[s] = None
          /\ \A t \in Servers \ {s} : mem'[t] = mem[t] /\ job'[t] = job[t]
      BY <2>1, StepAt
    <2>3. OngoingInv'
      BY <2>1, IdleRests, StepOngoing DEF PhaseInv
    <2>4. AloneInv'
      BY <2>1, <2>2 DEF PhaseInv, AloneInv
    <2>5. FinalInv'
      BY <2>1, <2>2 DEF PhaseInv, FinalInv
    <2> QED BY <2>1, <2>3, <2>4, <2>5 DEF PhaseInv, FinalStep
  <1>6. ASSUME NEW s \in Servers, Call(s) \/ Step(s), ~Submit(s) PROVE PhaseInv' /\ FinalStep
    <2>1. Moves(s)
      BY <1>6, ConsentMoves, AdmitMoves, DispatchMoves, ObserveMoves, CancelMoves, CallMoves
         DEF Call, Step, PhaseInv
    <2> QED BY <2>1, MovesPhase
  <1> QED BY <1>2, <1>3, <1>4, <1>5, <1>6 DEF Next, Call

LEMMA PhaseInit == Init => PhaseInv
  <1> SUFFICES ASSUME Init PROVE PhaseInv
    OBVIOUS
  <1>1. OngoingInv
    BY IdleRests DEF Init, OngoingInv
  <1>2. AloneInv /\ FinalInv
    BY DEF Init, AloneInv, FinalInv
  <1> QED BY <1>1, <1>2 DEF PhaseInv

\* As long as no two copies of the record were alive at once, a run that has ended stays what it
\* is, whichever calls come late and whichever saves fail (run-admission.mjs:678, 1518, 2018).
THEOREM AdmissionFinal == Spec => TerminalIsFinal
  <1>1. TypeInv /\ AdmitInv /\ PhaseInv /\ [Next]_vars =>
          [solo' /\ disk # None /\ disk.phase \in Finished => disk'.phase = disk.phase]_vars
    BY PhaseNext DEF FinalStep
  <1> QED BY <1>1, TypeInit, TypeNext, AdmitInit, AdmitNext, PhaseInit, PhaseNext, PTL
         DEF Spec, TerminalIsFinal

-----------------------------------------------------------------------------
(* What a record says of the tasks is true. *)

\* A lane that is completed has a completed task, and a prompt that is known to be sent was.
LaneTrue(lane, t) ==
  /\ lane.phase = "completed" => t.status = "completed"
  /\ Dispatched(lane) => t.evidence

RecordTrue(r, tasks) ==
  /\ \A l \in Lanes : LaneTrue(r.lanes[l], tasks[l])
  /\ r.phase = "completed" =>
       \A l \in Required : r.lanes[l].phase = "completed" /\ Dispatched(r.lanes[l])

\* Nothing is sent by a task that was not made, and a sent prompt was meant to be.
TaskSane(t) == (t.evidence => t.intent) /\ (t.status = "absent" => ~t.intent)

TruthInv ==
  /\ disk # None => RecordTrue(disk, task)
  /\ \A s \in Servers : mem[s] # None => RecordTrue(mem[s], task)
  /\ \A l \in Lanes : TaskSane(task[l])

\* What a task has done is not undone.
TasksGrow ==
  \A l \in Lanes : /\ TaskSane(task'[l])
                   /\ task[l].status = "completed" => task'[l].status = "completed"
                   /\ task[l].evidence => task'[l].evidence

LEMMA TasksStay ==
  ASSUME TruthInv, UNCHANGED task
  PROVE  TasksGrow
  BY DEF TruthInv, TasksGrow

LEMMA TrueStays ==
  ASSUME TasksGrow, NEW r, RecordTrue(r, task)
  PROVE  RecordTrue(r, task')
  BY DEF TasksGrow, RecordTrue, LaneTrue

LEMMA StepTruth ==
  ASSUME TypeInv, TruthInv, TasksGrow, NEW s \in Servers, NEW r, NEW j,
         mem' = [mem EXCEPT ![s] = r], job' = [job EXCEPT ![s] = j],
         r # None => RecordTrue(r, task'),
         disk' # None => disk' = disk \/ RecordTrue(disk', task')
  PROVE  TruthInv'
  <1>1. mem'[s] = r /\ \A t \in Servers \ {s} : mem'[t] = mem[t]
    BY StepAt
  <1>2. \A t \in Servers \ {s} : mem[t] # None => RecordTrue(mem[t], task')
    BY TrueStays DEF TruthInv
  <1>3. \A t \in Servers : mem'[t] # None => RecordTrue(mem'[t], task')
    BY <1>1, <1>2
  <1>4. disk' # None => RecordTrue(disk', task')
    BY TrueStays DEF TruthInv
  <1>5. \A l \in Lanes : TaskSane(task'[l])
    BY DEF TasksGrow
  <1> QED BY <1>3, <1>4, <1>5 DEF TruthInv

LEMMA SaveTruth ==
  ASSUME TypeInv, TruthInv, TasksGrow, NEW s \in Servers, NEW r, NEW kept, NEW next, NEW failed,
         SaveAndKeep(s, r, kept, next, failed), RecordTrue(r, task'), RecordTrue(kept, task')
  PROVE  TruthInv'
  <1>1. CASE disk' = r /\ mem' = [mem EXCEPT ![s] = kept] /\ job' = [job EXCEPT ![s] = next]
    BY <1>1, StepTruth
  <1>2. CASE disk' = disk /\ mem' = [mem EXCEPT ![s] = r] /\ job' = [job EXCEPT ![s] = failed]
    BY <1>2, StepTruth
  <1> QED BY <1>1, <1>2 DEF SaveAndKeep

LEMMA KeepTruth ==
  ASSUME TypeInv, TruthInv, TasksGrow, NEW s \in Servers, NEW r, NEW j, Keep(s, r, j),
         RecordTrue(r, task')
  PROVE  TruthInv'
  <1>1. mem' = [mem EXCEPT ![s] = r] /\ job' = [job EXCEPT ![s] = j] /\ disk' = disk
    BY DEF Keep
  <1> QED BY <1>1, StepTruth

\* What is known of the copy of a server that has one.
LEMMA CopyTrue ==
  ASSUME TypeInv, OngoingInv, TruthInv, NEW s \in Servers, mem[s] # None
  PROVE  /\ mem[s] \in Records /\ RecordTrue(mem[s], task)
         /\ job[s].at # "idle" => mem[s].phase # "completed"
  BY InCall, AtWork DEF TruthInv, Finished, Resting

\* A change of the phase to another than completed, and of a lane of a run that is not completed.
LEMMA PhaseTrue ==
  ASSUME NEW r \in Records, NEW tasks, RecordTrue(r, tasks), NEW p, p # "completed"
  PROVE  RecordTrue([r EXCEPT !.phase = p], tasks)
  BY DEF RecordTrue, Records

LEMMA LaneSetTrue ==
  ASSUME NEW r \in Records, NEW tasks, RecordTrue(r, tasks), r.phase # "completed",
         NEW l \in Lanes, NEW lane, LaneTrue(lane, tasks[l])
  PROVE  RecordTrue([r EXCEPT !.lanes[l] = lane], tasks)
  <1> DEFINE new == [r EXCEPT !.lanes[l] = lane]
  <1>1. /\ new.phase # "completed" /\ new.lanes[l] = lane
        /\ \A k \in Lanes \ {l} : new.lanes[k] = r.lanes[k]
    BY DEF Records
  <1> HIDE DEF new
  <1>2. \A k \in Lanes : LaneTrue(new.lanes[k], tasks[k])
    BY <1>1 DEF RecordTrue
  <1>3. RecordTrue(new, tasks)
    BY <1>1, <1>2 DEF RecordTrue
  <1> QED BY <1>3 DEF new

LEMMA LanesSetTrue ==
  ASSUME NEW r \in Records, NEW tasks, r.phase # "completed", NEW lanes,
         \A l \in Lanes : LaneTrue(lanes[l], tasks[l])
  PROVE  RecordTrue([r EXCEPT !.lanes = lanes], tasks)
  BY DEF RecordTrue, Records

\* A lane that only leaves its phase, or gets one that claims nothing, is as true as before.
LEMMA LanePhaseTrue ==
  ASSUME NEW lane \in LaneRecords, NEW t, LaneTrue(lane, t), NEW p, p # "completed", NEW c
  PROVE  /\ LaneTrue([lane EXCEPT !.phase = p], t)
         /\ LaneTrue([lane EXCEPT !.phase = p, !.class = c], t)
         /\ LaneTrue([lane EXCEPT !.class = c, !.phase = p], t)
         /\ LaneTrue(FailedLane(lane), t)
  BY DEF LaneTrue, LaneRecords, Dispatched, FailedLane

LEMMA FailedAdmissionTrue ==
  ASSUME NEW r \in Records, NEW tasks, RecordTrue(r, tasks)
  PROVE  RecordTrue(FailedAdmission(r), tasks)
  <1> DEFINE lanes == [l \in Lanes |-> FailedLane(r.lanes[l])]
  <1>1. \A l \in Lanes : LaneTrue(lanes[l], tasks[l])
    BY LanePhaseTrue DEF RecordTrue, Records
  <1> HIDE DEF lanes
  <1>2. RecordTrue([r EXCEPT !.phase = "failed", !.lanes = lanes], tasks)
    BY <1>1 DEF RecordTrue, Records
  <1> QED BY <1>2 DEF FailedAdmission, lanes

LEMMA ThrownTrue ==
  ASSUME NEW r \in Records, NEW tasks, RecordTrue(r, tasks), r.phase # "completed",
         NEW l \in Lanes
  PROVE  RecordTrue(Thrown(r, l), tasks)
  <1> DEFINE failed == [r EXCEPT !.lanes[l] = FailedLane(r.lanes[l])]
  <1>1. r.lanes[l] \in LaneRecords /\ LaneTrue(r.lanes[l], tasks[l])
    BY DEF Records, RecordTrue
  <1>2. failed \in Records /\ RecordTrue(failed, tasks)
    BY <1>1, LanePhaseTrue, LaneSetTrue, FailedLaneType, LaneSet
  <1> HIDE DEF failed
  <1>3. \A p \in {"degraded", "failed"} : RecordTrue([failed EXCEPT !.phase = p], tasks)
    BY <1>2, PhaseTrue
  <1> QED BY <1>3 DEF Thrown, failed

LEMMA WrappedTrue ==
  ASSUME NEW r \in Records, NEW tasks, RecordTrue(r, tasks), r.phase # "completed"
  PROVE  RecordTrue(Wrapped(r), tasks)
  <1> DEFINE lanes == [l \in Lanes |-> IF r.lanes[l].phase \in {"prepared", "planned"}
                                       THEN FailedLane(r.lanes[l]) ELSE r.lanes[l]]
             done == [r EXCEPT !.lanes = lanes]
  <1>1. \A l \in Lanes : LaneTrue(lanes[l], tasks[l])
    BY LanePhaseTrue DEF RecordTrue, Records
  <1>2. lanes \in [Lanes -> LaneRecords]
    BY FailedLaneType DEF Records
  <1> HIDE DEF lanes
  <1>3. done \in Records /\ RecordTrue(done, tasks)
    BY <1>1, <1>2, LanesSet, LanesSetTrue
  <1> HIDE DEF done
  <1>4. \A p : p # "completed" => RecordTrue([done EXCEPT !.phase = p], tasks)
    BY <1>3, PhaseTrue
  <1> QED BY <1>4 DEF Wrapped, done, lanes

\* An answer changes what the lane says of the prompt only by the evidence of the task.
LEMMA SeenTrue ==
  ASSUME NEW lane \in LaneRecords, NEW t, LaneTrue(lane, t)
  PROVE  /\ Recovered(Promoted(lane, t), t) \in LaneRecords
         /\ LaneTrue(Recovered(Promoted(lane, t), t), t)
  <1>1. Promoted(lane, t) \in LaneRecords /\ LaneTrue(Promoted(lane, t), t)
    <2>1. Promoted(lane, t) \in LaneRecords
      BY PromotedType
    <2>2. LaneTrue(Promoted(lane, t), t)
      BY DEF Promoted, LaneTrue, LaneRecords, Dispatched
    <2> QED BY <2>1, <2>2
  <1>2. ASSUME NEW seen \in LaneRecords, LaneTrue(seen, t) PROVE LaneTrue(Recovered(seen, t), t)
    BY <1>2 DEF Recovered, LaneTrue, LaneRecords, Dispatched
  <1> QED BY <1>1, <1>2, RecoveredType

LEMMA ObservedTrue ==
  ASSUME NEW lane \in LaneRecords, NEW t, LaneTrue(lane, t)
  PROVE  LaneTrue(Observed(lane, t), t)
  <1> DEFINE seen == Recovered(Promoted(lane, t), t)
  <1>1. seen \in LaneRecords /\ LaneTrue(seen, t)
    BY SeenTrue
  <1> HIDE DEF seen
  <1>2. \A p, c : p # "completed" =>
          /\ LaneTrue([seen EXCEPT !.phase = p], t)
          /\ LaneTrue([seen EXCEPT !.phase = p, !.class = c], t)
          /\ LaneTrue([seen EXCEPT !.class = c, !.phase = p], t)
    BY <1>1, LanePhaseTrue
  <1>3. t.status = "completed" => LaneTrue([seen EXCEPT !.phase = "completed"], t)
    BY <1>1 DEF LaneTrue, LaneRecords, Dispatched
  <1>4. t.status # "completed" => seen.phase # "completed"
    BY <1>1 DEF LaneTrue
  <1> QED BY <1>1, <1>2, <1>3, <1>4 DEF Observed, seen, CancelledLane

\* A run is called completed only by what its lanes are.
LEMMA ReconciledTrue ==
  ASSUME NEW r \in Records, NEW tasks, RecordTrue(r, tasks), r.phase # "completed"
  PROVE  RecordTrue(Reconciled(r), tasks)
  <1>1. \A p : p # "completed" => RecordTrue([r EXCEPT !.phase = p], tasks)
    BY PhaseTrue
  <1>2. \A b : RecordTrue([r EXCEPT !.phase = "cancelled", !.confirmed = b], tasks)
    BY DEF RecordTrue, Records
  <1>3. Verified(r) => RecordTrue([r EXCEPT !.phase = "completed"], tasks)
    BY DEF Verified, RecordTrue, Records
  <1> QED BY <1>1, <1>2, <1>3 DEF Reconciled

\* A call that changes the copy, and ends or goes on, while the tasks are as they were.
LEMMA QuietTruth ==
  ASSUME TypeInv, TruthInv, NEW s \in Servers, NEW r, NEW kept, NEW next, NEW failed,
         UNCHANGED task, RecordTrue(r, task), RecordTrue(kept, task),
         SaveAndKeep(s, r, kept, next, failed) \/ Keep(s, r, next)
  PROVE  TruthInv'
  <1>1. TasksGrow /\ RecordTrue(r, task') /\ RecordTrue(kept, task')
    BY TasksStay
  <1> QED BY <1>1, SaveTruth, KeepTruth

LEMMA ConsentTruth ==
  ASSUME TypeInv, AdmitInv, OngoingInv, TruthInv, NEW s \in Servers,
         Submit(s) \/ AskAgain(s) \/ ApproveByReference(s) \/ Consent(s)
  PROVE  TruthInv'
  <1>1. CASE Submit(s)
    <2>1. RecordTrue(NewRecord, task) /\ TasksGrow /\ UNCHANGED <<disk, task>>
      BY <1>1, TasksStay DEF Submit, env, RecordTrue, NewRecord, NewLane, LaneTrue, Dispatched
    <2>2. mem' = [mem EXCEPT ![s] = NewRecord] /\ job' = [job EXCEPT ![s] = Go("create", {})]
      BY <1>1 DEF Submit
    <2> QED BY <2>1, <2>2, StepTruth
  <1>2. CASE ~Submit(s)
    <2>1. mem[s] # None /\ UNCHANGED task
      BY <1>2, InCall, RecordIsSome DEF AskAgain, ApproveByReference, Consent, Create, AskConsent,
         Ask, ConsentStays, ConsentDeclined, Approve, Waiting, At, None, env
    <2>2. mem[s] \in Records /\ RecordTrue(mem[s], task)
      BY <2>1, CopyTrue
    <2>3. /\ RecordTrue([mem[s] EXCEPT !.phase = "awaiting_consent"], task)
          /\ RecordTrue(FailedAdmission(mem[s]), task)
      BY <2>2, PhaseTrue, FailedAdmissionTrue
    <2>4. \E r, next :
            /\ RecordTrue(r, task)
            /\ SaveAndKeep(s, r, r, next, Idle) \/ Keep(s, r, next)
      BY <1>2, <2>2, <2>3 DEF AskAgain, ApproveByReference, Consent, Create, AskConsent, Ask,
         ConsentStays, ConsentDeclined, Approve, Save
    <2> QED BY <2>1, <2>4, QuietTruth
  <1> QED BY <1>1, <1>2

LEMMA AdmitTruth ==
  ASSUME TypeInv, OngoingInv, TruthInv, NEW s \in Servers, Admit(s)
  PROVE  TruthInv'
  <1>1. job[s].at \in {"admit", "prepare"} /\ mem[s] # None /\ UNCHANGED task
    BY InCall, RecordIsSome DEF Admit, AdmitRun, NotReady, Prepared, Prepare, PrepareFails, At, env
  <1>2. mem[s] \in Records /\ RecordTrue(mem[s], task) /\ mem[s].phase # "completed"
    BY <1>1, CopyTrue
  <1>3. /\ RecordTrue([mem[s] EXCEPT !.phase = "preparing_workspaces"], task)
        /\ RecordTrue(FailedAdmission(mem[s]), task)
    BY <1>2, PhaseTrue, FailedAdmissionTrue
  <1>4. ASSUME NEW l \in Lanes PROVE RecordTrue([mem[s] EXCEPT !.lanes[l].phase = "prepared"], task)
    <2>1. LaneTrue([mem[s].lanes[l] EXCEPT !.phase = "prepared"], task[l])
      BY <1>2, LanePhaseTrue DEF RecordTrue, Records
    <2>2. RecordTrue([mem[s] EXCEPT !.lanes[l] = [mem[s].lanes[l] EXCEPT !.phase = "prepared"]], task)
      BY <1>2, <2>1, LaneSetTrue
    <2> QED BY <2>2
  <1>5. \E r, next :
          /\ RecordTrue(r, task)
          /\ SaveAndKeep(s, r, r, next, Idle) \/ Keep(s, r, next)
    <2>1. CASE AdmitRun(s) \/ NotReady(s) \/ Prepared(s)
      BY <1>2, <1>3, <2>1 DEF AdmitRun, NotReady, Prepared, Save
    <2>2. ASSUME NEW l \in Lanes, Prepare(s, l) \/ PrepareFails(s, l)
          PROVE  \E r, next : RecordTrue(r, task) /\ Keep(s, r, next)
      BY <1>2, <1>4, <2>2 DEF Prepare, PrepareFails
    <2> QED BY <2>1, <2>2 DEF Admit
  <1> QED BY <1>1, <1>5, QuietTruth

LEMMA DispatchTruth ==
  ASSUME TypeInv, OngoingInv, TruthInv, NEW s \in Servers, Dispatch(s)
  PROVE  TruthInv'
  <1>1. job[s].at # "idle" /\ mem[s] # None
    <2>1. ~At(s, "idle")
      BY DEF Dispatch, Begin, EvidenceUnread, WrapUp, Session, SubmitTask, SubmitTaskThrows, Throw,
         EvidenceSeen, EvidenceNever, EvidenceLost, EvidencePending, At
    <2> QED BY <2>1, InCall, RecordIsSome DEF At
  <1>2. mem[s] \in Records /\ RecordTrue(mem[s], task) /\ mem[s].phase # "completed"
    BY <1>1, CopyTrue
  <1>3. CASE Begin(s) \/ WrapUp(s)
    <2>1. /\ RecordTrue([mem[s] EXCEPT !.phase = "dispatching"], task)
          /\ RecordTrue(Wrapped(mem[s]), task)
      BY <1>2, PhaseTrue, WrappedTrue
    <2>2. \E r, next : RecordTrue(r, task) /\ SaveAndKeep(s, r, r, next, Idle)
      BY <1>3, <2>1 DEF Begin, WrapUp, Save
    <2> QED BY <1>3, <2>2, QuietTruth DEF Begin, WrapUp, env
  <1>4. CASE EvidenceUnread(s)
    <2>1. mem' = mem /\ disk' = disk /\ task' = task
      BY <1>4 DEF EvidenceUnread, env
    <2> QED BY <2>1 DEF TruthInv
  <1>5. ASSUME NEW l \in Lanes, SubmitTask(s, l) \/ SubmitTaskThrows(s, l) PROVE TruthInv'
    <2>1. TasksGrow
      <3>1. CASE UNCHANGED task
        BY <3>1, TasksStay
      <3>2. CASE SubmitTask(s, l)
        <4>1. /\ task'[l].evidence = task[l].evidence /\ task'[l].intent = task[l].intent
              /\ task'[l].status = "active" /\ task[l].status = "absent"
              /\ \A k \in Lanes \ {l} : task'[k] = task[k]
          BY <3>2 DEF SubmitTask, TypeInv, EnvType, Tasks
        <4> QED BY <4>1 DEF TruthInv, TasksGrow, TaskSane
      <3>3. CASE SubmitTaskThrows(s, l) /\ ~UNCHANGED task
        <4>1. PICK end \in Faulty(l, {}, {"failed", "lost"}), sent \in BOOLEAN :
                /\ task' = [task EXCEPT ![l] =
                              [status |-> end, intent |-> sent, evidence |-> FALSE]]
                /\ task[l].status = "absent"
          BY <3>3 DEF SubmitTaskThrows
        <4>2. /\ ~task'[l].evidence /\ task'[l].status = end
              /\ \A k \in Lanes \ {l} : task'[k] = task[k]
          BY <4>1 DEF TypeInv, EnvType
        <4>3. end # "absent"
          BY DEF Faulty
        <4>4. \A k \in Lanes : TaskSane(task[k])
          BY DEF TruthInv
        <4> QED BY <4>1, <4>2, <4>3, <4>4 DEF TasksGrow, TaskSane
      <3> QED BY <1>5, <3>1, <3>2, <3>3
    <2>2. RecordTrue(mem[s], task')
      BY <1>2, <2>1, TrueStays
    <2> QED BY <1>5, <2>1, <2>2, KeepTruth DEF SubmitTask, SubmitTaskThrows
  <1>6. ASSUME NEW l \in Lanes,
               \/ Session(s, l) \/ Throw(s, l) \/ EvidenceSeen(s, l) \/ EvidenceNever(s, l)
               \/ EvidenceLost(s, l) \/ EvidencePending(s, l)
        PROVE  TruthInv'
    <2>1. mem[s].lanes[l] \in LaneRecords /\ LaneTrue(mem[s].lanes[l], task[l])
      BY <1>2 DEF Records, RecordTrue
    <2>2. UNCHANGED task
      BY <1>6 DEF Session, Throw, EvidenceSeen, EvidenceNever, EvidenceLost, EvidencePending, env
    <2>3. CASE Throw(s, l) \/ EvidenceNever(s, l)
      BY <1>2, <2>2, <2>3, ThrownTrue, QuietTruth DEF Throw, EvidenceNever, Save
    <2>4. CASE EvidenceLost(s, l)
      <3> DEFINE lane == [phase |-> "unrecoverable_post_prompt", confidence |-> "uncertain",
                          class |-> "failed"]
                 r == [mem[s] EXCEPT !.lanes[l] = lane]
                 kept == [r EXCEPT !.phase = "degraded"]
      <3>1. LaneTrue(lane, task[l]) /\ lane \in LaneRecords
        BY DEF LaneTrue, Dispatched, LaneRecords, LanePhases, Confidence, Classes
      <3>2. SaveAndKeep(s, r, kept, Wrap, Go("throw", job[s].todo))
        BY <2>4 DEF EvidenceLost
      <3> HIDE DEF lane
      <3>3. r \in Records /\ RecordTrue(r, task)
        BY <1>2, <3>1, LaneSet, LaneSetTrue
      <3> HIDE DEF r
      <3>4. RecordTrue(kept, task)
        BY <3>3, PhaseTrue
      <3> HIDE DEF kept
      <3> QED BY <2>2, <3>2, <3>3, <3>4, QuietTruth
    <2>5. CASE Session(s, l) \/ EvidenceSeen(s, l) \/ EvidencePending(s, l)
      <3>1. PICK lane, next : /\ LaneTrue(lane, task[l])
                              /\ Save(s, [mem[s] EXCEPT !.lanes[l] = lane], next,
                                      Go("throw", job[s].todo))
        <4> DEFINE old == mem[s].lanes[l]
        <4>1. /\ LaneTrue([old EXCEPT !.phase = "session_ready"], task[l])
              /\ LaneTrue([old EXCEPT !.confidence = "uncertain", !.class = "pending"], task[l])
              /\ task[l].evidence =>
                   LaneTrue([old EXCEPT !.phase = "prompt_dispatched",
                                        !.confidence = "authoritative"], task[l])
          <5> HIDE DEF old
          <5> QED BY <2>1 DEF LaneTrue, LaneRecords, Dispatched, old
        <4> DEFINE A == [old EXCEPT !.phase = "session_ready"]
                   B == [old EXCEPT !.confidence = "uncertain", !.class = "pending"]
                   C == [old EXCEPT !.phase = "prompt_dispatched",
                                    !.confidence = "authoritative"]
        <4>2. /\ [mem[s] EXCEPT !.lanes[l].phase = "session_ready"]
                   = [mem[s] EXCEPT !.lanes[l] = A]
              /\ [mem[s] EXCEPT !.lanes[l].confidence = "uncertain", !.lanes[l].class = "pending"]
                   = [mem[s] EXCEPT !.lanes[l] = B]
              /\ [mem[s] EXCEPT !.lanes[l].phase = "prompt_dispatched",
                                !.lanes[l].confidence = "authoritative"]
                   = [mem[s] EXCEPT !.lanes[l] = C]
          BY <1>2 DEF Records
        <4>3. \/ /\ LaneTrue(A, task[l])
                 /\ \E next : Save(s, [mem[s] EXCEPT !.lanes[l] = A], next, Go("throw", job[s].todo))
              \/ /\ LaneTrue(B, task[l])
                 /\ \E next : Save(s, [mem[s] EXCEPT !.lanes[l] = B], next, Go("throw", job[s].todo))
              \/ /\ LaneTrue(C, task[l])
                 /\ \E next : Save(s, [mem[s] EXCEPT !.lanes[l] = C], next, Go("throw", job[s].todo))
          BY <2>5, <4>1, <4>2 DEF Session, EvidenceSeen, EvidencePending
        <4> HIDE DEF A, B, C
        <4> QED BY <4>3
      <3>2. RecordTrue([mem[s] EXCEPT !.lanes[l] = lane], task)
        BY <1>2, <3>1, LaneSetTrue
      <3> QED BY <2>2, <3>1, <3>2, QuietTruth DEF Save
    <2> QED BY <1>6, <2>3, <2>4, <2>5
  <1> QED BY <1>3, <1>4, <1>5, <1>6 DEF Dispatch

LEMMA ObserveTruth ==
  ASSUME TypeInv, OngoingInv, TruthInv, NEW s \in Servers, Observe(s)
  PROVE  TruthInv'
  <1>1. job[s].at = "look" /\ mem[s] # None
    BY InCall, RecordIsSome DEF Observe, Reconcile, ReconcileUnchanged, Look,
       LookAttentionInvalid, LookReconnects, LookFails, Looking, At
  <1>2. mem[s] \in Records /\ RecordTrue(mem[s], task) /\ mem[s].phase # "completed"
    BY <1>1, CopyTrue
  <1>3. CASE Reconcile(s) \/ ReconcileUnchanged(s)
    BY <1>2, <1>3, ReconciledTrue, QuietTruth DEF Reconcile, ReconcileUnchanged, Save, env
  <1>4. ASSUME NEW l \in Lanes,
               \/ Look(s, l) \/ LookAttentionInvalid(s, l) \/ LookReconnects(s, l)
               \/ LookFails(s, l)
        PROVE  TruthInv'
    <2> DEFINE old == mem[s].lanes[l]
               seen == Recovered(Promoted(old, task[l]), task[l])
    <2>1. old \in LaneRecords /\ LaneTrue(old, task[l])
      BY <1>2 DEF Records, RecordTrue
    <2>2. seen \in LaneRecords /\ LaneTrue(seen, task[l])
      BY <2>1, SeenTrue
    <2>3. ASSUME NEW lane, LaneTrue(lane, task[l])
          PROVE  /\ RecordTrue([mem[s] EXCEPT !.lanes[l] = lane], task)
                 /\ \A asked : RecordTrue([mem[s] EXCEPT !.lanes[l] = lane, !.asked = asked], task)
      <3> DEFINE r == [mem[s] EXCEPT !.lanes[l] = lane]
      <3>1. RecordTrue(r, task)
        BY <1>2, <2>3, LaneSetTrue
      <3>2. ASSUME NEW asked
            PROVE  /\ [mem[s] EXCEPT !.lanes[l] = lane, !.asked = asked].lanes = r.lanes
                   /\ [mem[s] EXCEPT !.lanes[l] = lane, !.asked = asked].phase = r.phase
        BY <1>2 DEF Records
      <3> HIDE DEF r
      <3>3. \A asked : RecordTrue([mem[s] EXCEPT !.lanes[l] = lane, !.asked = asked], task)
        BY <3>1, <3>2 DEF RecordTrue
      <3> QED BY <3>1, <3>3 DEF r
    <2>4. TasksGrow
      <3>1. CASE LookReconnects(s, l)
        <4>1. /\ task'[l].evidence = task[l].evidence /\ task'[l].intent = task[l].intent
              /\ task'[l].status = "active" /\ task[l].status = "lost"
              /\ \A k \in Lanes \ {l} : task'[k] = task[k]
          BY <3>1 DEF LookReconnects, TypeInv, EnvType, Tasks
        <4> QED BY <4>1 DEF TruthInv, TasksGrow, TaskSane
      <3>2. CASE ~LookReconnects(s, l)
        BY <1>4, <3>2, TasksStay DEF Look, LookAttentionInvalid, LookFails, env
      <3> QED BY <3>1, <3>2
    <2>5. \E r : Seen(s, l, r) /\ RecordTrue(r, task)
      <3>1. CASE Look(s, l)
        <4>1. LaneTrue(Observed(old, task[l]), task[l])
          BY <2>1, ObservedTrue
        <4> HIDE DEF seen
        <4> QED BY <2>3, <3>1, <4>1 DEF Look
      <3>2. CASE LookAttentionInvalid(s, l)
        <4>1. LaneTrue([seen EXCEPT !.phase = "partial_handoff", !.class = "attention_invalid"],
                       task[l])
          BY <2>2, LanePhaseTrue
        <4> QED BY <2>3, <3>2, <4>1 DEF LookAttentionInvalid
      <3>3. CASE LookReconnects(s, l)
        <4>1. LaneTrue([seen EXCEPT !.phase = "running", !.class = "reconnected"], task[l])
          BY <2>2, LanePhaseTrue
        <4> QED BY <2>3, <3>3, <4>1 DEF LookReconnects
      <3>4. CASE LookFails(s, l)
        <4> DEFINE p == IF old.phase = "prompt_dispatched" \/ old.class = "unobserved"
                        THEN "running" ELSE old.phase
                   lane == [old EXCEPT !.phase = p, !.class = "unobserved"]
        <4>1. LaneTrue(lane, task[l])
          <5>1. p = "completed" => old.phase = "completed"
            OBVIOUS
          <5> HIDE DEF p, old
          <5> QED BY <2>1, <5>1 DEF LaneTrue, LaneRecords, Dispatched
        <4>2. Seen(s, l, [mem[s] EXCEPT !.lanes[l] = lane])
          BY <3>4 DEF LookFails
        <4> HIDE DEF lane
        <4> QED BY <2>3, <4>1, <4>2
      <3> QED BY <1>4, <3>1, <3>2, <3>3, <3>4
    <2>6. \E r : Seen(s, l, r) /\ RecordTrue(r, task')
      BY <2>4, <2>5, TrueStays
    <2> QED BY <2>4, <2>6, KeepTruth DEF Seen
  <1> QED BY <1>3, <1>4 DEF Observe

LEMMA CancelTruth ==
  ASSUME TypeInv, OngoingInv, TruthInv, NEW s \in Servers, DoCancel(s)
  PROVE  TruthInv'
  <1>1. job[s].at = "cancel" /\ mem[s] # None
    BY InCall, RecordIsSome DEF DoCancel, CancelUnprompted, CancelEnd, CancelSkips,
       CancelConfirmed, CancelUnconfirmed, Cancelling, At
  <1>2. mem[s] \in Records /\ RecordTrue(mem[s], task) /\ mem[s].phase # "completed"
    BY <1>1, CopyTrue
  <1>3. CASE CancelUnprompted(s)
    <2> DEFINE lanes == [l \in Lanes |-> IF Closed(mem[s].lanes[l]) THEN mem[s].lanes[l]
                         ELSE [mem[s].lanes[l] EXCEPT !.phase = "cancelled"]]
    <2>1. \A l \in Lanes : LaneTrue(lanes[l], task[l])
      BY <1>2, LanePhaseTrue DEF RecordTrue, Records
    <2>2. Save(s, [mem[s] EXCEPT !.phase = "cancelled", !.confirmed = TRUE, !.lanes = lanes],
               Idle, Idle)
      BY <1>3 DEF CancelUnprompted
    <2> HIDE DEF lanes
    <2>3. RecordTrue([mem[s] EXCEPT !.phase = "cancelled", !.confirmed = TRUE, !.lanes = lanes],
                     task)
      BY <1>2, <2>1 DEF RecordTrue, Records
    <2> QED BY <1>3, <2>2, <2>3, QuietTruth DEF CancelUnprompted, Save, env
  <1>4. CASE CancelEnd(s)
    <2>1. \A c, p : p # "completed" =>
            RecordTrue([mem[s] EXCEPT !.confirmed = c, !.phase = p], task)
      BY <1>2 DEF RecordTrue, Records
    <2>2. \E r : RecordTrue(r, task) /\ Save(s, r, Idle, Idle)
      BY <1>4, <2>1 DEF CancelEnd
    <2> QED BY <1>4, <2>2, QuietTruth DEF CancelEnd, Save, env
  <1>5. ASSUME NEW l \in Lanes, CancelSkips(s, l) \/ CancelConfirmed(s, l) \/ CancelUnconfirmed(s, l)
        PROVE  TruthInv'
    <2>1. mem[s].lanes[l] \in LaneRecords /\ LaneTrue(mem[s].lanes[l], task[l])
      BY <1>2 DEF Records, RecordTrue
    <2>2. PICK lane : CancelGoesOn(s, l, lane) /\ LaneTrue(lane, task[l])
      BY <1>5, <2>1, LanePhaseTrue DEF CancelSkips, CancelConfirmed, CancelUnconfirmed
    <2>3. TasksGrow
      <3>1. CASE UNCHANGED task
        BY <3>1, TasksStay
      <3>2. CASE ~UNCHANGED task
        <4>1. PICK end \in {"cancelled", "cancelling", "lost"} :
                /\ task' = [task EXCEPT ![l].status = end]
                /\ Live(task[l]) \/ task[l].status = "cancelled"
          BY <1>5, <3>2 DEF CancelSkips, CancelConfirmed, CancelUnconfirmed, env
        <4>2. /\ task'[l].evidence = task[l].evidence /\ task'[l].intent = task[l].intent
              /\ task'[l].status = end
              /\ \A k \in Lanes \ {l} : task'[k] = task[k]
          BY <4>1 DEF TypeInv, EnvType, Tasks
        <4> QED BY <4>1, <4>2 DEF TruthInv, TasksGrow, TaskSane, Live
      <3> QED BY <3>1, <3>2
    <2>4. RecordTrue([mem[s] EXCEPT !.lanes[l] = lane], task')
      <3>1. RecordTrue([mem[s] EXCEPT !.lanes[l] = lane], task)
        BY <1>2, <2>2, LaneSetTrue
      <3> QED BY <2>3, <3>1, TrueStays
    <2> QED BY <2>2, <2>3, <2>4, KeepTruth DEF CancelGoesOn
  <1> QED BY <1>3, <1>4, <1>5 DEF DoCancel

LEMMA CallTruth ==
  ASSUME TypeInv, OngoingInv, TruthInv, NEW s \in Servers, Inspect(s) \/ Reply(s) \/ Cancel(s)
  PROVE  TruthInv'
  <1>1. mem[s] \in Records /\ RecordTrue(mem[s], task)
    BY CopyTrue DEF Inspect, Open, Reply, Cancel, Usable
  <1>2. CASE Inspect(s)
    <2>1. mem' = mem /\ disk' = disk /\ task' = task
      BY <1>2 DEF Inspect, env
    <2> QED BY <2>1 DEF TruthInv
  <1>3. CASE Cancel(s)
    <2>1. RecordTrue([mem[s] EXCEPT !.cancel = TRUE], task)
      BY <1>1 DEF RecordTrue, Records
    <2> QED BY <1>3, <2>1, QuietTruth DEF Cancel, Save, env
  <1>4. CASE Reply(s)
    <2> DEFINE lanes == [l \in Lanes |-> IF mem[s].lanes[l].phase = "needs_attention"
                           THEN [mem[s].lanes[l] EXCEPT !.phase = "running"] ELSE mem[s].lanes[l]]
               answered == [mem[s] EXCEPT !.asked = {}, !.lanes = lanes]
               left(r) == IF r.phase \in Finished THEN Idle ELSE Go("look", ToObserve(r))
    <2>1. PICK took \in SUBSET {l \in mem[s].asked : task[l].status \in {"asking", "answered"}} :
            LET r == IF took = mem[s].asked THEN answered ELSE mem[s] IN
            /\ task' = [l \in Lanes |->
                 IF l \in took THEN [task[l] EXCEPT !.status = "answered"] ELSE task[l]]
            /\ Save(s, r, left(r), Idle)
      BY <1>4 DEF Reply
    <2>2. TasksGrow
      <3>1. ASSUME NEW l \in Lanes
            PROVE  /\ task'[l].evidence = task[l].evidence /\ task'[l].intent = task[l].intent
                   /\ \/ task'[l].status = task[l].status
                      \/ /\ task'[l].status = "answered"
                         /\ task[l].status \in {"asking", "answered"}
        <4> HIDE DEF answered, left
        <4> QED BY <2>1 DEF TypeInv, EnvType, Tasks
      <3> QED BY <3>1 DEF TruthInv, TasksGrow, TaskSane
    <2>3. RecordTrue(answered, task)
      <3>1. \A l \in Lanes : /\ mem[s].lanes[l].phase = "completed" => lanes[l] = mem[s].lanes[l]
                             /\ LaneTrue(lanes[l], task[l])
        BY <1>1, LanePhaseTrue DEF RecordTrue, Records
      <3> HIDE DEF lanes
      <3>2. Required \subseteq Lanes
        BY AdmissionAssumption
      <3> QED BY <1>1, <3>1, <3>2 DEF RecordTrue, Records
    <2>4. \E r, next : Save(s, r, next, Idle) /\ RecordTrue(r, task')
      <3>1. RecordTrue(answered, task') /\ RecordTrue(mem[s], task')
        BY <1>1, <2>2, <2>3, TrueStays
      <3> HIDE DEF answered, left
      <3> QED BY <2>1, <3>1
    <2> QED BY <2>2, <2>4, SaveTruth DEF Save
  <1> QED BY <1>2, <1>3, <1>4

LEMMA TaskTruth ==
  ASSUME TypeInv, TruthInv, NEW l \in Lanes, TaskNext(l)
  PROVE  TruthInv'
  <1>1. UNCHANGED <<disk, mem>>
    BY DEF TaskNext, TaskPrompts, TaskConfirms, TaskAsks, TaskGoesOn, TaskEnds, TaskSteps
  <1>2. TaskSane(task[l])
    BY DEF TruthInv
  <1>3. PICK t : TaskSteps(l, t) /\ TaskSane(t) /\ task[l].status # "completed"
                 /\ (task[l].evidence => t.evidence)
    <2>1. task[l] \in Tasks
      BY DEF TypeInv, EnvType
    <2>2. CASE TaskPrompts(l) \/ TaskConfirms(l)
      BY <1>2, <2>1, <2>2 DEF TaskPrompts, TaskConfirms, TaskSane, Tasks
    <2>3. CASE TaskAsks(l) \/ TaskGoesOn(l)
      BY <1>2, <2>1, <2>3 DEF TaskAsks, TaskGoesOn, TaskSane, Tasks
    <2>4. CASE TaskEnds(l)
      <3>1. PICK end \in Faulty(l, {"completed"}, {"failed", "lost", "cancelled"})
                           \cup (IF task[l].status = "cancelling" THEN {"cancelled"} ELSE {}) :
              TaskSteps(l, [task[l] EXCEPT !.status = end])
        BY <2>4 DEF TaskEnds
      <3>2. end # "absent"
        BY DEF Faulty
      <3>3. Live(task[l])
        BY <2>4 DEF TaskEnds
      <3> QED BY <1>2, <2>1, <3>1, <3>2, <3>3 DEF TaskSane, Tasks, Live
    <2> QED BY <2>2, <2>3, <2>4 DEF TaskNext
  <1>4. task'[l] = t /\ \A k \in Lanes \ {l} : task'[k] = task[k]
    BY <1>3 DEF TaskSteps, TypeInv, EnvType
  <1>5. TasksGrow
    BY <1>3, <1>4 DEF TruthInv, TasksGrow
  <1> QED BY <1>1, <1>5, TrueStays DEF TruthInv, TasksGrow

LEMMA TruthNext == TypeInv /\ AdmitInv /\ OngoingInv /\ TruthInv /\ [Next]_vars => TruthInv'
  <1> SUFFICES ASSUME TypeInv, AdmitInv, OngoingInv, TruthInv, [Next]_vars PROVE TruthInv'
    OBVIOUS
  <1>1. CASE UNCHANGED vars
    BY <1>1 DEF vars, TruthInv
  <1>2. ASSUME NEW s \in Servers, Load(s) PROVE TruthInv'
    <2>1. mem' = [mem EXCEPT ![s] = disk] /\ disk' = disk /\ task' = task
      BY <1>2 DEF Load, env
    <2>2. mem'[s] = disk /\ \A t \in Servers \ {s} : mem'[t] = mem[t]
      BY <2>1 DEF TypeInv, RecordType
    <2> QED BY <2>1, <2>2 DEF TruthInv
  <1>3. ASSUME NEW s \in Servers, Crash(s) PROVE TruthInv'
    <2>1. mem' = [mem EXCEPT ![s] = None] /\ disk' = disk /\ task' = task
      BY <1>3 DEF Crash, env
    <2>2. mem'[s] = None /\ \A t \in Servers \ {s} : mem'[t] = mem[t]
      BY <2>1 DEF TypeInv, RecordType
    <2> QED BY <2>1, <2>2 DEF TruthInv
  <1> QED BY <1>1, <1>2, <1>3, ConsentTruth, AdmitTruth, DispatchTruth, ObserveTruth, CancelTruth,
             CallTruth, TaskTruth DEF Next, Call, Step

LEMMA TruthInit == Init => TruthInv
  BY DEF Init, TruthInv, NewTask, TaskSane

\* A run that was saved as completed did what is required of it, whatever servers work on it, die
\* or fail to save (run-admission.mjs:681, 1752-1770).
THEOREM AdmissionCompleted == Spec => []CompletedIsTrue
  <1>1. TruthInv => CompletedIsTrue
    <2> SUFFICES ASSUME TruthInv, disk # None, disk.phase = "completed", NEW l \in Required
                 PROVE  task[l].status = "completed" /\ task[l].evidence
      BY DEF CompletedIsTrue
    <2>1. l \in Lanes
      BY AdmissionAssumption
    <2> QED BY <2>1 DEF TruthInv, RecordTrue, LaneTrue
  <1>2. PhaseInv => OngoingInv
    BY DEF PhaseInv
  <1> QED BY <1>1, <1>2, TypeInit, TypeNext, AdmitInit, AdmitNext, PhaseInit, PhaseNext, TruthInit,
             TruthNext, PTL DEF Spec

-----------------------------------------------------------------------------
(* The tasks of a run that has ended. *)

NoneLive(tasks) == \A l \in Lanes : ~Live(tasks[l])

\* The lane whose turn it is in a call, and whether its task has just been made.
First(j, l) == l \in j.todo /\ \A k \in j.todo : l <= k
Launched(j, l) == j.at = "evidence" /\ First(j, l)

\* A task goes on only behind a lane that says so, or that has just been submitted.
LaneSound(lane, t, launched) ==
  /\ TerminalLane(lane) => ~Live(t)
  /\ ~Attempted(lane) => ~Live(t) \/ launched
  /\ lane.phase \in {"planned", "prepared"} => ~Attempted(lane)
  /\ launched => t.status # "cancelling"

CallSound(r, j) ==
  /\ j.at = "look" => j.todo \subseteq ToObserve(r)
  /\ j.at \in {"throw"} \cup Sending => \A l \in j.todo : ~Attempted(r.lanes[l])
  /\ j.at \in {"submit", "evidence"} =>
       \A l \in j.todo : First(j, l) => r.lanes[l].phase = "session_ready"
  /\ j.at \in {"prepare", "begin"} => \A l \in Lanes : ~Attempted(r.lanes[l])

Sound(r, j, tasks) ==
  /\ \A l \in Lanes : LaneSound(r.lanes[l], tasks[l], Launched(j, l))
  /\ CallSound(r, j)
  /\ r.phase \in Finished => NoneLive(tasks)

\* As long as one server works on the run, without a fault.
StopInv ==
  Trusted =>
    /\ (\A s \in Servers : mem[s] = None) => disk = None /\ NoneLive(task)
    /\ \A s \in Servers : mem[s] # None => Sound(mem[s], job[s], task)
    /\ disk # None /\ disk.phase \in Finished => NoneLive(task)

\* A record whose lanes are sound while no lane has just been submitted.
LanesSound(r, tasks) == \A l \in Lanes : LaneSound(r.lanes[l], tasks[l], FALSE)

LEMMA SoundIf ==
  ASSUME NEW r, NEW j, NEW tasks, j.at # "evidence", LanesSound(r, tasks), CallSound(r, j),
         r.phase \in Finished => NoneLive(tasks)
  PROVE  Sound(r, j, tasks)
  <1>1. \A l \in Lanes : Launched(j, l) = FALSE
    BY DEF Launched
  <1> QED BY <1>1 DEF Sound, LanesSound

LEMMA RestingCall ==
  ASSUME NEW r, NEW j, j.at \in Resting \cup Consenting \cup {"cancel"}
  PROVE  CallSound(r, j) /\ j.at # "evidence"
  BY DEF CallSound, Resting, Consenting, Sending

LEMMA FirstIsOne ==
  ASSUME NEW j, j.todo \subseteq Lanes, NEW l, NEW k, First(j, l), First(j, k)
  PROVE  k = l
  <1>1. l \in Int /\ k \in Int /\ l <= k /\ k <= l
    BY LanesAre DEF First
  <1> QED BY <1>1

\* What is known of the call of the server.
LEMMA CopySound ==
  ASSUME TypeInv, StopInv, Trusted, NEW s \in Servers, mem[s] # None
  PROVE  /\ mem[s] \in Records /\ Sound(mem[s], job[s], task)
         /\ job[s].at # "evidence" => LanesSound(mem[s], task)
  <1>1. mem[s] \in Records /\ Sound(mem[s], job[s], task)
    BY InCall DEF StopInv
  <1>2. job[s].at # "evidence" => \A l \in Lanes : Launched(job[s], l) = FALSE
    BY DEF Launched
  <1> QED BY <1>1, <1>2 DEF Sound, LanesSound

LEMMA StepStop ==
  ASSUME TypeInv, PhaseInv, Trusted, NEW s \in Servers, mem[s] # None, NEW r, NEW j, r # None,
         mem' = [mem EXCEPT ![s] = r], job' = [job EXCEPT ![s] = j], Sound(r, j, task'),
         disk' # None /\ disk'.phase \in Finished => NoneLive(task')
  PROVE  StopInv'
  <1>1. /\ mem'[s] = r /\ job'[s] = j
        /\ \A t \in Servers \ {s} : mem'[t] = mem[t] /\ job'[t] = job[t]
    BY StepAt
  <1>2. \A t \in Servers \ {s} : mem[t] = None
    BY DEF PhaseInv, AloneInv, Trusted
  <1>3. \A t \in Servers : mem'[t] # None => Sound(mem'[t], job'[t], task')
    BY <1>1, <1>2
  <1>4. ~\A t \in Servers : mem'[t] = None
    BY <1>1
  <1> HIDE DEF Sound, NoneLive
  <1> QED BY <1>3, <1>4 DEF StopInv

LEMMA SaveStop ==
  ASSUME TypeInv, PhaseInv, Trusted, Trusted', NEW s \in Servers, mem[s] # None,
         NEW r, NEW kept, NEW next, NEW failed, SaveAndKeep(s, r, kept, next, failed),
         kept # None, Sound(kept, next, task'), r.phase \in Finished => NoneLive(task')
  PROVE  StopInv'
  <1>1. disk' = r /\ mem' = [mem EXCEPT ![s] = kept] /\ job' = [job EXCEPT ![s] = next]
    BY DEF SaveAndKeep, Trusted
  <1> QED BY <1>1, StepStop

\* A step that saves nothing, of a call that works on a run that has not ended.
LEMMA CopyStop ==
  ASSUME TypeInv, PhaseInv, Trusted, NEW s \in Servers, mem[s] # None, ~Over(s),
         NEW r, NEW j, r # None,
         mem' = [mem EXCEPT ![s] = r], job' = [job EXCEPT ![s] = j], UNCHANGED disk,
         Sound(r, j, task')
  PROVE  StopInv'
  <1>1. ~(disk # None /\ disk.phase \in Finished)
    BY DEF PhaseInv, FinalInv, Trusted, Over
  <1> QED BY <1>1, StepStop

\* A save after which the copy is what was saved, while the tasks are as they were.
LEMMA QuietStop ==
  ASSUME TypeInv, PhaseInv, Trusted, Trusted', NEW s \in Servers, mem[s] # None,
         NEW r \in Records, NEW next, NEW failed, Save(s, r, next, failed), UNCHANGED task,
         Sound(r, next, task)
  PROVE  StopInv'
  <1>1. SaveAndKeep(s, r, r, next, failed) /\ Sound(r, next, task') /\ r # None
        /\ (r.phase \in Finished => NoneLive(task'))
    BY RecordIsSome DEF Save, Sound
  <1> QED BY <1>1, SaveStop

\* A run that ends before anything was sent.
LEMMA FailedAdmissionSound ==
  ASSUME NEW r \in Records, NEW tasks, LanesSound(r, tasks),
         \A l \in Lanes : ~Attempted(r.lanes[l])
  PROVE  Sound(FailedAdmission(r), Idle, tasks)
  <1> DEFINE lanes == [l \in Lanes |-> FailedLane(r.lanes[l])]
  <1>1. NoneLive(tasks)
    BY DEF LanesSound, LaneSound, NoneLive
  <1>2. \A l \in Lanes : LaneSound(lanes[l], tasks[l], FALSE)
    BY <1>1 DEF NoneLive, LaneSound, FailedLane, LaneRecords, Records
  <1> HIDE DEF lanes
  <1>3. [r EXCEPT !.phase = "failed", !.lanes = lanes].lanes = lanes
    BY DEF Records
  <1>4. LanesSound(FailedAdmission(r), tasks)
    BY <1>2, <1>3 DEF LanesSound, FailedAdmission, lanes
  <1> QED BY <1>1, <1>4, IdleRests, RestingCall, SoundIf

\* A change of the phase only.
LEMMA PhaseSound ==
  ASSUME NEW r \in Records, NEW tasks, LanesSound(r, tasks), NEW p
  PROVE  /\ [r EXCEPT !.phase = p].phase = p
         /\ [r EXCEPT !.phase = p].lanes = r.lanes
         /\ LanesSound([r EXCEPT !.phase = p], tasks)
  BY DEF Records, LanesSound

LEMMA ConsentStops ==
  ASSUME TypeInv, AdmitInv, PhaseInv, StopInv, Trusted, Trusted', NEW s \in Servers,
         AskAgain(s) \/ ApproveByReference(s) \/ Consent(s)
  PROVE  StopInv'
  <1>1. /\ mem[s] # None /\ UNCHANGED task
        /\ job[s].at \in {"create", "ask", "consent"} \/ Waiting(s)
    BY InCall, RecordIsSome DEF AskAgain, ApproveByReference, Consent, Create, AskConsent,
       Ask, ConsentStays, ConsentDeclined, Approve, Waiting, At, None, env
  <1>2. mem[s] \in Records /\ LanesSound(mem[s], task) /\ Early(mem[s])
    BY <1>1, CopySound, Here DEF PlaceInv, Consenting, Waiting, At, Early
  <1>3. mem[s].phase \notin Finished /\ ~Over(s)
    BY <1>2 DEF Early, Finished, Over
  <1>4. \A place \in {"idle", "ask", "admit"} : Sound(mem[s], Go(place, {}), task)
    BY <1>2, <1>3, GoIs, RestingCall, SoundIf DEF Resting, Consenting
  <1>5. CASE AskAgain(s) \/ AskConsent(s)
    <2> DEFINE r == [mem[s] EXCEPT !.phase = "awaiting_consent"]
    <2>1. r \in Records
      BY <1>2, PhaseSet DEF RunPhases
    <2>2. r.phase = "awaiting_consent" /\ LanesSound(r, task)
      BY <1>2, PhaseSound
    <2>3. Save(s, r, Go("consent", {}), Idle)
      BY <1>5 DEF AskAgain, AskConsent, Ask
    <2> HIDE DEF r
    <2>4. Sound(r, Go("consent", {}), task)
      BY <2>2, GoIs, RestingCall, SoundIf DEF Consenting, Finished
    <2> QED BY <1>1, <2>1, <2>3, <2>4, QuietStop
  <1>6. CASE ApproveByReference(s)
    <2>1. /\ mem' = [mem EXCEPT ![s] = mem[s]] /\ job' = [job EXCEPT ![s] = Go("admit", {})]
          /\ UNCHANGED disk
      BY <1>6 DEF ApproveByReference, Keep
    <2>2. Sound(mem[s], Go("admit", {}), task')
      BY <1>1, <1>4
    <2> QED BY <1>1, <1>3, <2>1, <2>2, CopyStop
  <1>7. CASE Create(s) \/ Approve(s) \/ ConsentStays(s)
    <2>1. PICK place \in {"idle", "ask", "admit"} : Save(s, mem[s], Go(place, {}), Idle)
      BY <1>7 DEF Create, Approve, ConsentStays, Idle
    <2> QED BY <1>1, <1>2, <1>4, <2>1, QuietStop
  <1>8. CASE ConsentDeclined(s)
    <2>1. \A l \in Lanes : ~Attempted(mem[s].lanes[l])
      BY <1>2, Here DEF Fresh, Attempted, NewLane
    <2> QED BY <1>1, <1>2, <1>8, <2>1, FailedAdmissionType, FailedAdmissionSound, QuietStop
         DEF ConsentDeclined
  <1> QED BY <1>5, <1>6, <1>7, <1>8 DEF Consent

LEMMA AdmitStops ==
  ASSUME TypeInv, AdmitInv, PhaseInv, StopInv, Trusted, Trusted', NEW s \in Servers, Admit(s)
  PROVE  StopInv'
  <1>1. job[s].at \in {"admit", "prepare"} /\ mem[s] # None /\ UNCHANGED task
    BY InCall, RecordIsSome DEF Admit, AdmitRun, NotReady, Prepared, Prepare, PrepareFails, At, env
  <1>2. mem[s] \in Records /\ LanesSound(mem[s], task) /\ Sound(mem[s], job[s], task)
    BY <1>1, CopySound
  <1>3. mem[s].phase \notin Finished /\ ~Over(s)
    BY <1>1, AtWork DEF Resting, PhaseInv
  <1>4. \A l \in Lanes : ~Attempted(mem[s].lanes[l])
    <2>1. CASE job[s].at = "admit"
      BY <2>1, Here DEF PlaceInv, Consenting, Fresh, Attempted, NewLane
    <2>2. CASE job[s].at = "prepare"
      BY <1>2, <2>2 DEF Sound, CallSound
    <2> QED BY <1>1, <2>1, <2>2
  <1>5. ASSUME NEW r, NEW j, LanesSound(r, task), \A l \in Lanes : ~Attempted(r.lanes[l]),
               r.phase \notin Finished, j.at \in {"prepare", "begin"}
        PROVE  Sound(r, j, task)
    BY <1>5, SoundIf DEF CallSound, Sending
  <1>6. CASE AdmitRun(s)
    <2> DEFINE r == [mem[s] EXCEPT !.phase = "preparing_workspaces"]
    <2>1. r \in Records
      BY <1>2, PhaseSet DEF RunPhases
    <2>2. r.phase = "preparing_workspaces" /\ r.lanes = mem[s].lanes /\ LanesSound(r, task)
      BY <1>2, PhaseSound
    <2>3. Save(s, r, Go("prepare", Lanes), Idle)
      BY <1>6 DEF AdmitRun
    <2> HIDE DEF r
    <2>4. Sound(r, Go("prepare", Lanes), task)
      BY <1>4, <1>5, <2>2, GoIs DEF Finished
    <2> QED BY <1>1, <2>1, <2>3, <2>4, QuietStop
  <1>7. CASE NotReady(s) \/ (Prepared(s) /\ ~AllPrepared(mem[s]))
    BY <1>1, <1>2, <1>4, <1>7, FailedAdmissionType, FailedAdmissionSound, QuietStop
       DEF NotReady, Prepared
  <1>8. CASE Prepared(s) /\ AllPrepared(mem[s])
    <2>1. Sound(mem[s], Go("begin", {}), task)
      BY <1>2, <1>3, <1>4, <1>5, GoIs
    <2> QED BY <1>1, <1>2, <1>8, <2>1, QuietStop DEF Prepared
  <1>9. ASSUME NEW l \in Lanes, Prepare(s, l) \/ PrepareFails(s, l) PROVE StopInv'
    <2> DEFINE j == Go("prepare", job[s].todo \ {l})
               ready == [mem[s] EXCEPT !.lanes[l].phase = "prepared"]
    <2>1. PICK r \in {mem[s], ready} :
            /\ mem' = [mem EXCEPT ![s] = r] /\ job' = [job EXCEPT ![s] = j] /\ UNCHANGED disk
      BY <1>9 DEF Prepare, PrepareFails, Keep
    <2>2. /\ ready.phase = mem[s].phase
          /\ \A k \in Lanes : /\ ready.lanes[k].confidence = mem[s].lanes[k].confidence
                              /\ \/ ready.lanes[k] = mem[s].lanes[k]
                                 \/ ready.lanes[k].phase = "prepared"
      BY <1>2 DEF Records, LaneRecords
    <2>3. j.at = "prepare"
      BY GoIs
    <2>4. LanesSound(ready, task) /\ \A k \in Lanes : ~Attempted(ready.lanes[k])
      <3> HIDE DEF ready
      <3>1. \A k \in Lanes : ~Attempted(ready.lanes[k])
        BY <1>4, <2>2 DEF Attempted
      <3>2. \A k \in Lanes : ~Live(task[k])
        BY <1>2, <1>4 DEF LanesSound, LaneSound
      <3> QED BY <3>1, <3>2 DEF LanesSound, LaneSound
    <2> HIDE DEF ready, j
    <2>5. Sound(r, j, task') /\ r # None
      <3>1. r.phase = mem[s].phase
        BY <2>1, <2>2
      <3>2. Sound(r, j, task)
        BY <1>2, <1>3, <1>4, <1>5, <2>1, <2>3, <2>4, <3>1
      <3>3. r # None
        BY <1>2, <3>1, PhaseIsSome DEF Records
      <3> QED BY <1>1, <3>2, <3>3
    <2> QED BY <1>1, <1>3, <2>1, <2>5, CopyStop
  <1> QED BY <1>6, <1>7, <1>8, <1>9 DEF Admit

\* A lane gives way to another while the others are sound.
LEMMA LaneSetSound ==
  ASSUME NEW r \in Records, NEW tasks, NEW l \in Lanes, NEW lane, LaneSound(lane, tasks[l], FALSE),
         \A k \in Lanes \ {l} : LaneSound(r.lanes[k], tasks[k], FALSE)
  PROVE  LanesSound([r EXCEPT !.lanes[l] = lane], tasks)
  <1> DEFINE new == [r EXCEPT !.lanes[l] = lane]
  <1>1. new.lanes[l] = lane /\ \A k \in Lanes \ {l} : new.lanes[k] = r.lanes[k]
    BY DEF Records
  <1> HIDE DEF new
  <1>2. LanesSound(new, tasks)
    BY <1>1 DEF LanesSound
  <1> QED BY <1>2 DEF new

LEMMA LaneSetAt ==
  ASSUME NEW r \in Records, NEW l \in Lanes, NEW lane
  PROVE  /\ [r EXCEPT !.lanes[l] = lane].phase = r.phase
         /\ [r EXCEPT !.lanes[l] = lane].lanes[l] = lane
         /\ \A k \in Lanes \ {l} : [r EXCEPT !.lanes[l] = lane].lanes[k] = r.lanes[k]
  BY DEF Records

\* The dispatch stops at a lane that was not sent.
LEMMA ThrownSound ==
  ASSUME NEW r \in Records, NEW tasks, NEW l \in Lanes,
         ~Attempted(r.lanes[l]), ~Live(tasks[l]),
         \A k \in Lanes \ {l} : LaneSound(r.lanes[k], tasks[k], FALSE)
  PROVE  Sound(Thrown(r, l), Wrap, tasks)
  <1> DEFINE failed == [r EXCEPT !.lanes[l] = FailedLane(r.lanes[l])]
  <1>1. failed \in Records
    BY FailedLaneType, LaneSet DEF Records
  <1>2. LaneSound(FailedLane(r.lanes[l]), tasks[l], FALSE)
    BY DEF LaneSound, FailedLane, Records, LaneRecords, Attempted
  <1>3. LanesSound(failed, tasks)
    BY <1>2, LaneSetSound
  <1>4. ~PromptEvidence(r) => NoneLive(tasks)
    BY DEF PromptEvidence, NoneLive, LaneSound
  <1> HIDE DEF failed
  <1>5. LanesSound(Thrown(r, l), tasks)
    BY <1>1, <1>3, PhaseSound DEF Thrown, failed
  <1>6. Thrown(r, l).phase \in Finished => ~PromptEvidence(r)
    BY <1>1, PhaseSound DEF Thrown, failed, Finished
  <1>7. CallSound(Thrown(r, l), Wrap) /\ Wrap.at # "evidence"
    BY GoIs, RestingCall DEF Wrap, Resting
  <1> QED BY <1>4, <1>5, <1>6, <1>7, SoundIf

LEMMA WrappedSound ==
  ASSUME NEW r \in Records, NEW tasks, LanesSound(r, tasks), r.phase \in Finished => NoneLive(tasks)
  PROVE  Sound(Wrapped(r), Idle, tasks)
  <1> DEFINE lanes == [l \in Lanes |-> IF r.lanes[l].phase \in {"prepared", "planned"}
                                       THEN FailedLane(r.lanes[l]) ELSE r.lanes[l]]
             done == [r EXCEPT !.lanes = lanes]
  <1>1. lanes \in [Lanes -> LaneRecords]
    BY FailedLaneType DEF Records
  <1>2. done \in Records
    BY <1>1, LanesSet
  <1>3. \A l \in Lanes : LaneSound(lanes[l], tasks[l], FALSE)
    BY DEF LanesSound, LaneSound, FailedLane, Records, LaneRecords, Attempted
  <1> HIDE DEF lanes
  <1>4. done.lanes = lanes
    BY DEF Records
  <1> HIDE DEF done
  <1>5. LanesSound(done, tasks)
    BY <1>3, <1>4 DEF LanesSound
  <1>6. ~PromptEvidence(done) => NoneLive(tasks)
    BY <1>5 DEF PromptEvidence, NoneLive, LanesSound, LaneSound
  <1>7. PICK p : /\ Wrapped(r) = [done EXCEPT !.phase = p]
                 /\ \/ p = r.phase
                    \/ p \in {"running", "dispatching", "degraded"}
                    \/ p = "failed" /\ ~PromptEvidence(done)
    BY DEF Wrapped, done, lanes
  <1>8. Wrapped(r).phase = p /\ LanesSound(Wrapped(r), tasks)
    BY <1>2, <1>5, <1>7, PhaseSound
  <1>9. p \in Finished => NoneLive(tasks)
    BY <1>6, <1>7 DEF Finished
  <1> QED BY <1>8, <1>9, IdleRests, RestingCall, SoundIf

\* The lane whose turn it is, before and after its task was made.
LEMMA TurnSound ==
  ASSUME TypeInv, StopInv, Trusted, NEW s \in Servers, mem[s] # None, NEW l \in Lanes, Turn(s, l),
         job[s].at \in {"throw"} \cup Sending
  PROVE  /\ First(job[s], l) /\ ~Attempted(mem[s].lanes[l])
         /\ job[s].at \in {"submit", "evidence"} => mem[s].lanes[l].phase = "session_ready"
         /\ job[s].at # "evidence" => ~Live(task[l])
         /\ job[s].at = "evidence" => task[l].status # "cancelling"
         /\ \A k \in Lanes \ {l} : LaneSound(mem[s].lanes[k], task[k], FALSE)
         /\ \A k \in job[s].todo : ~Attempted(mem[s].lanes[k])
  <1>1. Sound(mem[s], job[s], task) /\ (job[s].at # "evidence" => LanesSound(mem[s], task))
    BY CopySound
  <1>2. First(job[s], l) /\ l \in job[s].todo
    BY DEF First, Turn
  <1>3. \A k \in Lanes \ {l} : Launched(job[s], k) = FALSE
    BY <1>2, InCall, FirstIsOne DEF Launched
  <1>4. job[s].at = "evidence" => Launched(job[s], l) = TRUE
    BY <1>2 DEF Launched
  <1>5. \A k \in Lanes \ {l} : LaneSound(mem[s].lanes[k], task[k], FALSE)
    BY <1>1, <1>3 DEF Sound
  <1>6. \A k \in job[s].todo : ~Attempted(mem[s].lanes[k])
    BY <1>1 DEF Sound, CallSound
  <1>7. job[s].at \in {"submit", "evidence"} => mem[s].lanes[l].phase = "session_ready"
    BY <1>1, <1>2 DEF Sound, CallSound
  <1>8. job[s].at # "evidence" => ~Live(task[l])
    BY <1>1, <1>2, <1>6 DEF LanesSound, LaneSound
  <1>9. job[s].at = "evidence" => task[l].status # "cancelling"
    BY <1>1, <1>4 DEF Sound, LaneSound
  <1> QED BY <1>2, <1>5, <1>6, <1>7, <1>8, <1>9

\* What a call that goes on sending must know of its lanes.
LEMMA SendingCall ==
  ASSUME NEW r, NEW place \in {"throw"} \cup Sending, NEW todo \in SUBSET Lanes,
         \A k \in todo : ~Attempted(r.lanes[k]),
         place \in {"submit", "evidence"} =>
           \A l \in todo : First(Go(place, todo), l) => r.lanes[l].phase = "session_ready"
  PROVE  CallSound(r, Go(place, todo))
  BY GoIs DEF CallSound, Sending

\* A dispatch that has sent a lane, or knows that it was lost, goes on with the next.
LEMMA NextLaneStops ==
  ASSUME TypeInv, PhaseInv, StopInv, Trusted, Trusted', NEW s \in Servers, mem[s] # None,
         job[s].at = "evidence", NEW l \in Lanes, Turn(s, l), UNCHANGED task,
         NEW lane \in LaneRecords, LaneSound(lane, task[l], FALSE), NEW failed,
         Save(s, [mem[s] EXCEPT !.lanes[l] = lane], AfterTurn(s, l), failed)
  PROVE  StopInv'
  <1> DEFINE r == [mem[s] EXCEPT !.lanes[l] = lane]
             rest == job[s].todo \ {l}
  <1>1. mem[s] \in Records /\ r \in Records
    BY CopySound, LaneSet
  <1>2. mem[s].phase = "dispatching"
    BY AtWork DEF PhaseInv, Sending
  <1>3. LanesSound(r, task)
    BY <1>1, TurnSound, LaneSetSound DEF Sending
  <1>4. r.phase = "dispatching" /\ \A k \in Lanes \ {l} : r.lanes[k] = mem[s].lanes[k]
    BY <1>1, <1>2, LaneSetAt
  <1>5. rest \in SUBSET Lanes /\ \A k \in rest : ~Attempted(mem[s].lanes[k])
    BY InCall, TurnSound DEF Sending
  <1> HIDE DEF r
  <1>6. AfterTurn(s, l).at # "evidence" /\ CallSound(r, AfterTurn(s, l))
    <2>1. CASE rest = {}
      BY <2>1, GoIs, RestingCall DEF AfterTurn, Resting
    <2>2. CASE rest # {}
      <3>1. AfterTurn(s, l) = Go("session", rest)
        BY <2>2 DEF AfterTurn
      <3> HIDE DEF rest
      <3>2. \A k \in rest : ~Attempted(r.lanes[k])
        BY <1>4, <1>5 DEF rest
      <3> QED BY <1>5, <3>1, <3>2, GoIs, SendingCall DEF Sending
    <2> QED BY <2>1, <2>2
  <1>7. Sound(r, AfterTurn(s, l), task)
    BY <1>3, <1>4, <1>6, SoundIf DEF Finished
  <1> QED BY <1>1, <1>7, QuietStop DEF r

LEMMA DispatchStops ==
  ASSUME TypeInv, AdmitInv, PhaseInv, StopInv, Trusted, Trusted', NEW s \in Servers, Dispatch(s)
  PROVE  StopInv'
  <1>1. job[s].at # "idle" /\ mem[s] # None
    <2>1. ~At(s, "idle")
      BY DEF Dispatch, Begin, EvidenceUnread, WrapUp, Session, SubmitTask, SubmitTaskThrows, Throw,
         EvidenceSeen, EvidenceNever, EvidenceLost, EvidencePending, At
    <2> QED BY <2>1, InCall, RecordIsSome DEF At
  <1>2. mem[s] \in Records /\ Sound(mem[s], job[s], task)
        /\ (job[s].at # "evidence" => LanesSound(mem[s], task))
    BY <1>1, CopySound
  <1>3. CASE Begin(s)
    <2> DEFINE r == [mem[s] EXCEPT !.phase = "dispatching"]
    <2>1. job[s].at = "begin" /\ Save(s, r, Go("session", Lanes), Idle) /\ UNCHANGED task
      BY <1>3 DEF Begin, At, env
    <2>2. r \in Records
      BY <1>2, PhaseSet DEF RunPhases
    <2>3. r.phase = "dispatching" /\ r.lanes = mem[s].lanes /\ LanesSound(r, task)
      BY <1>2, <2>1, PhaseSound
    <2>4. \A k \in Lanes : ~Attempted(mem[s].lanes[k])
      BY <1>2, <2>1 DEF Sound, CallSound
    <2> HIDE DEF r
    <2>5. CallSound(r, Go("session", Lanes))
      BY <2>3, <2>4, SendingCall DEF Sending
    <2>6. Sound(r, Go("session", Lanes), task)
      BY <2>3, <2>5, GoIs, SoundIf DEF Finished
    <2> QED BY <1>1, <2>1, <2>2, <2>6, QuietStop
  <1>4. CASE EvidenceUnread(s)
    <2>1. faults' = faults + 1
      BY <1>4 DEF EvidenceUnread
    <2> QED BY <2>1 DEF Trusted
  <1>5. CASE WrapUp(s)
    <2>1. job[s].at = "wrap" /\ Save(s, Wrapped(mem[s]), Idle, Idle) /\ UNCHANGED task
      BY <1>5 DEF WrapUp, At, env
    <2>2. Sound(Wrapped(mem[s]), Idle, task)
      BY <1>2, <2>1, WrappedSound DEF Sound
    <2> QED BY <1>1, <1>2, <2>1, <2>2, WrappedType, QuietStop
  <1>6. ASSUME NEW l \in Lanes, Throw(s, l) \/ EvidenceNever(s, l) PROVE StopInv'
    <2>1. /\ job[s].at \in {"throw", "evidence"} /\ Turn(s, l) /\ UNCHANGED task
          /\ job[s].at = "evidence" => Ended(task[l])
      BY <1>6 DEF Throw, EvidenceNever, At, env
    <2>2. /\ ~Attempted(mem[s].lanes[l]) /\ ~Live(task[l])
          /\ \A k \in Lanes \ {l} : LaneSound(mem[s].lanes[k], task[k], FALSE)
      BY <1>1, <2>1, TurnSound DEF Sending, Ended, Live
    <2>3. PICK failed : Save(s, Thrown(mem[s], l), Wrap, failed)
      BY <1>6 DEF Throw, EvidenceNever
    <2>4. Sound(Thrown(mem[s], l), Wrap, task)
      BY <1>2, <2>2, ThrownSound
    <2> QED BY <1>1, <1>2, <2>1, <2>3, <2>4, ThrownType, QuietStop
  <1>7. ASSUME NEW l \in Lanes, SubmitTask(s, l) \/ SubmitTaskThrows(s, l) PROVE StopInv'
    <2>1. job[s].at = "submit" /\ Turn(s, l)
      BY <1>7 DEF SubmitTask, SubmitTaskThrows, At
    <2>2. /\ First(job[s], l) /\ ~Attempted(mem[s].lanes[l]) /\ ~Live(task[l])
          /\ mem[s].lanes[l].phase = "session_ready"
          /\ \A k \in Lanes \ {l} : LaneSound(mem[s].lanes[k], task[k], FALSE)
          /\ \A k \in job[s].todo : ~Attempted(mem[s].lanes[k])
      BY <1>1, <2>1, TurnSound DEF Sending
    <2>3. mem[s].phase = "dispatching" /\ ~Over(s) /\ job[s].todo \in SUBSET Lanes
      BY <2>1, InCall, AtWork DEF PhaseInv, Sending, Resting
    <2>4. ASSUME NEW place \in {"evidence", "throw"} PROVE CallSound(mem[s], Go(place, job[s].todo))
      <3>1. \A k \in job[s].todo : First(Go(place, job[s].todo), k) => k = l
        BY <2>2, <2>3, GoIs, FirstIsOne DEF First
      <3> QED BY <2>2, <2>3, <3>1, SendingCall DEF Sending
    <2>5. \A k \in Lanes \ {l} : task'[k] = task[k]
      BY <1>7 DEF SubmitTask, SubmitTaskThrows, TypeInv, EnvType
    <2>6. CASE SubmitTask(s, l)
      <3> DEFINE j == Go("evidence", job[s].todo)
      <3>1. /\ mem' = [mem EXCEPT ![s] = mem[s]] /\ job' = [job EXCEPT ![s] = j] /\ UNCHANGED disk
            /\ task' = [task EXCEPT ![l].status = "active"]
        BY <2>6 DEF SubmitTask, Keep
      <3>2. task'[l].status = "active"
        BY <3>1 DEF TypeInv, EnvType, Tasks
      <3>3. j.at = "evidence" /\ j.todo = job[s].todo
        BY GoIs
      <3> HIDE DEF j
      <3>4. Launched(j, l) = TRUE /\ \A k \in Lanes \ {l} : Launched(j, k) = FALSE
        BY <2>2, <2>3, <3>3, FirstIsOne DEF Launched, First
      <3>5. LaneSound(mem[s].lanes[l], task'[l], TRUE)
        BY <2>2, <3>2 DEF LaneSound, TerminalLane
      <3>6. \A k \in Lanes : LaneSound(mem[s].lanes[k], task'[k], Launched(j, k))
        BY <2>2, <2>5, <3>4, <3>5
      <3>7. Sound(mem[s], j, task')
        BY <2>3, <2>4, <3>6 DEF Sound, Finished, j
      <3> QED BY <1>1, <2>3, <3>1, <3>7, CopyStop
    <2>7. CASE SubmitTaskThrows(s, l)
      <3> DEFINE j == Go("throw", job[s].todo)
      <3>1. mem' = [mem EXCEPT ![s] = mem[s]] /\ job' = [job EXCEPT ![s] = j] /\ UNCHANGED disk
        BY <2>7 DEF SubmitTaskThrows, Keep
      <3>2. ~Live(task'[l])
        <4>1. CASE UNCHANGED task
          BY <2>2, <4>1
        <4>2. ASSUME NEW end \in Faulty(l, {}, {"failed", "lost"}), NEW sent \in BOOLEAN,
                     task' = [task EXCEPT ![l] =
                                [status |-> end, intent |-> sent, evidence |-> FALSE]]
              PROVE  ~Live(task'[l])
          <5>1. task'[l].status = end
            BY <4>2 DEF TypeInv, EnvType
          <5> QED BY <5>1 DEF Faulty, Live
        <4> QED BY <2>7, <4>1, <4>2 DEF SubmitTaskThrows
      <3>3. LaneSound(mem[s].lanes[l], task'[l], FALSE)
        BY <2>2, <3>2 DEF LaneSound
      <3>4. LanesSound(mem[s], task')
        BY <2>2, <2>5, <3>3 DEF LanesSound
      <3>5. j.at = "throw"
        BY GoIs
      <3>6. CallSound(mem[s], j)
        BY <2>4
      <3> HIDE DEF j
      <3>7. Sound(mem[s], j, task')
        BY <2>3, <3>4, <3>5, <3>6, SoundIf DEF Finished
      <3> QED BY <1>1, <2>3, <3>1, <3>7, CopyStop
    <2> QED BY <1>7, <2>6, <2>7
  <1>8. ASSUME NEW l \in Lanes, Session(s, l) PROVE StopInv'
    <2> DEFINE lane == [mem[s].lanes[l] EXCEPT !.phase = "session_ready"]
               r == [mem[s] EXCEPT !.lanes[l] = lane]
               j == Go("submit", job[s].todo)
    <2>1. job[s].at = "session" /\ Turn(s, l) /\ UNCHANGED task
          /\ \E failed : Save(s, r, j, failed)
      BY <1>8 DEF Session, At, env
    <2>2. /\ First(job[s], l) /\ ~Attempted(mem[s].lanes[l]) /\ ~Live(task[l])
          /\ \A k \in Lanes \ {l} : LaneSound(mem[s].lanes[k], task[k], FALSE)
          /\ \A k \in job[s].todo : ~Attempted(mem[s].lanes[k])
      BY <1>1, <2>1, TurnSound DEF Sending
    <2>3. mem[s].phase = "dispatching" /\ job[s].todo \in SUBSET Lanes
      BY <2>1, InCall, AtWork DEF PhaseInv, Sending
    <2>4. mem[s].lanes[l] \in LaneRecords
      BY <1>2 DEF Records
    <2>5. lane \in LaneRecords /\ lane.phase = "session_ready" /\ ~Attempted(lane)
      BY <2>2, <2>4 DEF LaneRecords, LanePhases, Attempted
    <2> HIDE DEF lane
    <2>6. r \in Records /\ LanesSound(r, task)
      <3>1. LaneSound(lane, task[l], FALSE)
        BY <2>2, <2>5 DEF LaneSound
      <3> QED BY <1>2, <2>2, <2>5, <3>1, LaneSet, LaneSetSound
    <2>7. r.phase = "dispatching" /\ r.lanes[l] = lane
          /\ \A k \in Lanes \ {l} : r.lanes[k] = mem[s].lanes[k]
      BY <1>2, <2>3, LaneSetAt
    <2> HIDE DEF r
    <2>8. \A k \in job[s].todo : First(j, k) => k = l
      BY <2>2, <2>3, GoIs, FirstIsOne DEF First
    <2>9. \A k \in job[s].todo : ~Attempted(r.lanes[k])
      BY <2>2, <2>3, <2>5, <2>7
    <2>10. CallSound(r, j) /\ j.at # "evidence"
      BY <2>3, <2>5, <2>7, <2>8, <2>9, GoIs, SendingCall DEF Sending
    <2> HIDE DEF j
    <2>11. Sound(r, j, task)
      BY <2>6, <2>7, <2>10, SoundIf DEF Finished
    <2> QED BY <1>1, <2>1, <2>6, <2>11, QuietStop
  <1>9. ASSUME NEW l \in Lanes,
               EvidenceSeen(s, l) \/ EvidencePending(s, l) \/ EvidenceLost(s, l)
        PROVE  StopInv'
    <2>1. job[s].at = "evidence" /\ Turn(s, l) /\ UNCHANGED task
      BY <1>9 DEF EvidenceSeen, EvidencePending, EvidenceLost, At, env
    <2>2. /\ ~Attempted(mem[s].lanes[l]) /\ mem[s].lanes[l].phase = "session_ready"
          /\ task[l].status # "cancelling"
          /\ \A k \in Lanes \ {l} : LaneSound(mem[s].lanes[k], task[k], FALSE)
      BY <1>1, <2>1, TurnSound DEF Sending
    <2> DEFINE old == mem[s].lanes[l]
    <2>3. old \in LaneRecords
      BY <1>2 DEF Records
    <2>4. CASE EvidenceSeen(s, l)
      <3> DEFINE lane == [old EXCEPT !.phase = "prompt_dispatched", !.confidence = "authoritative"]
      <3>1. lane \in LaneRecords /\ LaneSound(lane, task[l], FALSE)
        <4> HIDE DEF old
        <4> QED BY <2>3 DEF LaneSound, TerminalLane, Attempted, LaneRecords, LanePhases, Confidence
      <3>2. \E failed : Save(s, [mem[s] EXCEPT !.lanes[l] = lane], AfterTurn(s, l), failed)
        <4>1. [mem[s] EXCEPT !.lanes[l].phase = "prompt_dispatched",
                             !.lanes[l].confidence = "authoritative"]
                = [mem[s] EXCEPT !.lanes[l] = lane]
          BY <1>2 DEF Records
        <4> HIDE DEF lane
        <4> QED BY <2>4, <4>1 DEF EvidenceSeen
      <3> HIDE DEF lane
      <3> QED BY <1>1, <2>1, <3>1, <3>2, NextLaneStops
    <2>5. CASE EvidencePending(s, l)
      <3> DEFINE lane == [old EXCEPT !.confidence = "uncertain", !.class = "pending"]
      <3>1. lane \in LaneRecords /\ LaneSound(lane, task[l], FALSE)
        <4> HIDE DEF old
        <4> QED BY <2>2, <2>3 DEF LaneSound, TerminalLane, Attempted, LaneRecords, Classes,
                  Confidence, old
      <3>2. \E failed : Save(s, [mem[s] EXCEPT !.lanes[l] = lane], AfterTurn(s, l), failed)
        <4>1. [mem[s] EXCEPT !.lanes[l].confidence = "uncertain", !.lanes[l].class = "pending"]
                = [mem[s] EXCEPT !.lanes[l] = lane]
          BY <1>2 DEF Records
        <4> HIDE DEF lane
        <4> QED BY <2>5, <4>1 DEF EvidencePending
      <3> HIDE DEF lane
      <3> QED BY <1>1, <2>1, <3>1, <3>2, NextLaneStops
    <2>6. CASE EvidenceLost(s, l)
      <3> DEFINE lane == [phase |-> "unrecoverable_post_prompt", confidence |-> "uncertain",
                          class |-> "failed"]
                 r == [mem[s] EXCEPT !.lanes[l] = lane]
                 kept == [r EXCEPT !.phase = "degraded"]
      <3>1. ~Live(task[l])
        BY <2>2, <2>6 DEF EvidenceLost, Ended, Live
      <3>2. lane \in LaneRecords /\ LaneSound(lane, task[l], FALSE)
        BY <3>1 DEF LaneSound, Attempted, LaneRecords, LanePhases, Confidence, Classes
      <3>3. SaveAndKeep(s, r, kept, Wrap, Go("throw", job[s].todo))
        BY <2>6 DEF EvidenceLost
      <3> HIDE DEF lane
      <3>4. r \in Records /\ LanesSound(r, task) /\ r.phase = "dispatching"
        <4>1. r.phase = mem[s].phase
          BY <1>2, LaneSetAt
        <4>2. mem[s].phase = "dispatching"
          BY <2>1, AtWork DEF PhaseInv, Sending
        <4> QED BY <1>2, <2>2, <3>2, <4>1, <4>2, LaneSet, LaneSetSound
      <3> HIDE DEF r
      <3>5. LanesSound(kept, task) /\ kept.phase = "degraded"
        BY <3>4, PhaseSound
      <3> HIDE DEF kept
      <3>6. Sound(kept, Wrap, task')
        <4>1. Wrap.at = "wrap" /\ CallSound(kept, Wrap)
          BY GoIs, RestingCall DEF Wrap, Resting
        <4>2. Sound(kept, Wrap, task)
          BY <3>5, <4>1, SoundIf DEF Finished
        <4> QED BY <2>1, <4>2
      <3>7. r.phase \notin Finished /\ kept # None
        BY <3>4, <3>5, PhaseIsSome DEF Finished, RunPhases
      <3> QED BY <1>1, <3>3, <3>6, <3>7, SaveStop
    <2> QED BY <1>9, <2>4, <2>5, <2>6
  <1> QED BY <1>3, <1>4, <1>5, <1>6, <1>7, <1>8, <1>9 DEF Dispatch

\* An answer about a lane that needs observation.
LEMMA SeenSound ==
  ASSUME NEW lane \in LaneRecords, NEW t, NeedsObservation(lane)
  PROVE  /\ Recovered(Promoted(lane, t), t) \in LaneRecords
         /\ NeedsObservation(Recovered(Promoted(lane, t), t))
         /\ Recovered(Promoted(lane, t), t).phase \in {"planned", "prepared"} =>
              lane.phase \in {"planned", "prepared"}
  <1> DEFINE sent == Promoted(lane, t)
  <1>1. sent \in LaneRecords
    BY PromotedType
  <1>2. /\ NeedsObservation(sent)
        /\ sent.phase \in {"planned", "prepared"} => lane.phase \in {"planned", "prepared"}
    BY DEF Promoted, NeedsObservation, Attempted, TerminalLane, Dispatched, LaneRecords
  <1> HIDE DEF sent
  <1>3. /\ NeedsObservation(Recovered(sent, t))
        /\ Recovered(sent, t).phase \in {"planned", "prepared"} =>
             sent.phase \in {"planned", "prepared"}
    BY <1>1, <1>2 DEF Recovered, NeedsObservation, Attempted, TerminalLane, LaneRecords
  <1>4. Recovered(sent, t) \in LaneRecords
    BY <1>1, RecoveredType
  <1> QED BY <1>2, <1>3, <1>4 DEF sent

LEMMA ObservedSound ==
  ASSUME NEW lane \in LaneRecords, NEW t, t.status \in TaskStates, NeedsObservation(lane),
         lane.phase \notin {"planned", "prepared"}
  PROVE  LaneSound(Observed(lane, t), t, FALSE)
  <1> DEFINE seen == Recovered(Promoted(lane, t), t)
  <1>1. /\ seen \in LaneRecords /\ NeedsObservation(seen)
        /\ seen.phase \notin {"planned", "prepared"}
    BY SeenSound
  <1> HIDE DEF seen
  <1>2. Attempted(seen) /\ ~TerminalLane(seen)
    BY <1>1 DEF NeedsObservation
  <1>3. \A p, c : /\ Attempted([seen EXCEPT !.phase = p])
                  /\ Attempted([seen EXCEPT !.phase = p, !.class = c])
                  /\ Attempted([seen EXCEPT !.class = c, !.phase = p])
    BY <1>1, <1>2 DEF Attempted, LaneRecords
  <1>4. Attempted(Observed(lane, t))
    BY <1>2, <1>3 DEF Observed, CancelledLane, seen
  <1>5. Observed(lane, t).phase \notin {"planned", "prepared"}
    BY <1>1 DEF Observed, CancelledLane, LaneRecords, seen
  <1>6. Live(t) => ~TerminalLane(Observed(lane, t))
    <2>1. CASE t.status \in {"asking", "answered"}
      <3>1. Observed(lane, t).phase = "needs_attention"
        BY <1>1, <2>1 DEF Observed, LaneRecords, seen
      <3> QED BY <3>1 DEF TerminalLane
    <2>2. CASE t.status \in {"active", "cancelling"}
      <3>1. Observed(lane, t) = [seen EXCEPT !.phase = IF @ = "prompt_dispatched"
                                                       THEN "running" ELSE @]
        BY <2>2 DEF Observed, seen
      <3> QED BY <1>1, <1>2, <3>1 DEF TerminalLane, LaneRecords
    <2> QED BY <2>1, <2>2 DEF Live
  <1> QED BY <1>4, <1>5, <1>6 DEF LaneSound

\* The verdict on a run is that it has ended only if all lanes have.
LEMMA ReconciledSound ==
  ASSUME NEW r \in Records, NEW tasks, LanesSound(r, tasks), r.phase \notin Finished
  PROVE  Sound(Reconciled(r), Idle, tasks)
  <1> DEFINE ended == \A l \in Lanes : TerminalLane(r.lanes[l])
  <1>1. ended => NoneLive(tasks)
    BY DEF LanesSound, LaneSound, NoneLive
  <1>2. \A p, b : /\ [r EXCEPT !.phase = p].lanes = r.lanes
                  /\ [r EXCEPT !.phase = p].phase = p
                  /\ [r EXCEPT !.phase = p, !.confirmed = b].lanes = r.lanes
    BY DEF Records
  <1>3. Reconciled(r).lanes = r.lanes
    BY <1>2 DEF Reconciled
  <1>4. Reconciled(r).phase \in Finished => ended
    BY <1>2 DEF Reconciled, Finished
  <1>5. LanesSound(Reconciled(r), tasks)
    BY <1>3 DEF LanesSound
  <1> QED BY <1>1, <1>4, <1>5, IdleRests, RestingCall, SoundIf

LEMMA ObserveStops ==
  ASSUME TypeInv, PhaseInv, StopInv, Trusted, Trusted', NEW s \in Servers, Observe(s)
  PROVE  StopInv'
  <1>1. job[s].at = "look" /\ mem[s] # None
    BY InCall, RecordIsSome DEF Observe, Reconcile, ReconcileUnchanged, Look,
       LookAttentionInvalid, LookReconnects, LookFails, Looking, At
  <1>2. mem[s] \in Records /\ Sound(mem[s], job[s], task) /\ LanesSound(mem[s], task)
    BY <1>1, CopySound
  <1>3. mem[s].phase \notin Finished /\ ~Over(s)
    BY <1>1, AtWork DEF PhaseInv, Resting
  <1>4. CASE Reconcile(s)
    BY <1>1, <1>2, <1>3, <1>4, ReconciledType, ReconciledSound, QuietStop DEF Reconcile, env
  <1>5. CASE ReconcileUnchanged(s)
    <2>1. /\ mem' = [mem EXCEPT ![s] = mem[s]] /\ job' = [job EXCEPT ![s] = Idle]
          /\ UNCHANGED <<disk, task>>
      BY <1>5 DEF ReconcileUnchanged, Keep, env
    <2>2. Sound(mem[s], Idle, task)
      BY <1>2, <1>3, IdleRests, RestingCall, SoundIf
    <2> QED BY <1>1, <1>3, <2>1, <2>2, CopyStop
  <1>6. ASSUME NEW l \in Lanes,
               \/ Look(s, l) \/ LookAttentionInvalid(s, l) \/ LookReconnects(s, l)
               \/ LookFails(s, l)
        PROVE  StopInv'
    <2> DEFINE old == mem[s].lanes[l]
               seen == Recovered(Promoted(old, task[l]), task[l])
    <2>1. /\ l \in job[s].todo /\ job[s].todo \subseteq ToObserve(mem[s])
          /\ job[s].todo \in SUBSET Lanes
      BY <1>1, <1>2, <1>6, InCall DEF Sound, CallSound, Look, LookAttentionInvalid, LookReconnects,
         LookFails, Looking, Turn
    <2>2. \A k \in job[s].todo : NeedsObservation(mem[s].lanes[k])
      BY <2>1 DEF ToObserve
    <2>3. /\ old \in LaneRecords /\ NeedsObservation(old)
          /\ old.phase \notin {"planned", "prepared"}
      BY <1>2, <2>1, <2>2 DEF Records, LanesSound, LaneSound, NeedsObservation
    <2>4. seen \in LaneRecords /\ NeedsObservation(seen)
      BY <2>3, SeenSound
    <2>5. task[l].status \in TaskStates
      BY DEF TypeInv, EnvType, Tasks
    <2> HIDE DEF seen, old
    \* Whatever the answer is, the lane is sound with the task as it is after the call.
    <2>6. \E lane, asked, r :
            /\ Seen(s, l, r) /\ LaneSound(lane, task'[l], FALSE)
            /\ r \in {[mem[s] EXCEPT !.lanes[l] = lane],
                      [mem[s] EXCEPT !.lanes[l] = lane, !.asked = asked]}
      <3>1. CASE Look(s, l)
        <4>1. LaneSound(Observed(old, task[l]), task'[l], FALSE)
          BY <2>3, <2>5, <3>1, ObservedSound DEF Look, env
        <4> QED BY <3>1, <4>1 DEF Look, old
      <3>2. CASE LookAttentionInvalid(s, l)
        <4> DEFINE lane == [seen EXCEPT !.phase = "partial_handoff", !.class = "attention_invalid"]
        <4>1. Attempted(lane) /\ ~TerminalLane(lane) /\ lane.phase = "partial_handoff"
          BY <2>4 DEF LaneRecords, NeedsObservation, Attempted, TerminalLane
        <4>2. Seen(s, l, [mem[s] EXCEPT !.lanes[l] = lane])
          BY <3>2 DEF LookAttentionInvalid, seen, old
        <4> HIDE DEF lane
        <4> QED BY <4>1, <4>2 DEF LaneSound
      <3>3. CASE LookReconnects(s, l)
        <4> DEFINE lane == [seen EXCEPT !.phase = "running", !.class = "reconnected"]
        <4>1. Attempted(lane) /\ ~TerminalLane(lane) /\ lane.phase = "running"
          BY <2>4 DEF LaneRecords, NeedsObservation, Attempted, TerminalLane
        <4>2. Seen(s, l, [mem[s] EXCEPT !.lanes[l] = lane])
          BY <3>3 DEF LookReconnects, seen, old
        <4> HIDE DEF lane
        <4> QED BY <4>1, <4>2 DEF LaneSound
      <3>4. CASE LookFails(s, l)
        <4> DEFINE p == IF old.phase = "prompt_dispatched" \/ old.class = "unobserved"
                        THEN "running" ELSE old.phase
                   lane == [old EXCEPT !.phase = p, !.class = "unobserved"]
        <4>1. p \in {"running", old.phase}
          OBVIOUS
        <4>2. Seen(s, l, [mem[s] EXCEPT !.lanes[l] = lane])
          BY <3>4 DEF LookFails, old
        <4> HIDE DEF p
        <4>3. Attempted(lane) /\ ~TerminalLane(lane) /\ lane.phase \notin {"planned", "prepared"}
          BY <2>3, <4>1 DEF LaneRecords, NeedsObservation, Attempted, TerminalLane
        <4> HIDE DEF lane
        <4> QED BY <4>2, <4>3 DEF LaneSound
      <3> QED BY <1>6, <3>1, <3>2, <3>3, <3>4
    <2>7. PICK lane, asked, r :
            /\ Seen(s, l, r) /\ LaneSound(lane, task'[l], FALSE)
            /\ r \in {[mem[s] EXCEPT !.lanes[l] = lane],
                      [mem[s] EXCEPT !.lanes[l] = lane, !.asked = asked]}
      BY <2>6
    <2>8. /\ r.phase = mem[s].phase /\ r.lanes[l] = lane
          /\ \A k \in Lanes \ {l} : r.lanes[k] = mem[s].lanes[k]
      BY <1>2, <2>7 DEF Records
    <2>9. \A k \in Lanes \ {l} : task'[k] = task[k]
      BY <1>6 DEF Look, LookAttentionInvalid, LookReconnects, LookFails, env, TypeInv, EnvType
    <2>10. LanesSound(r, task')
      BY <1>2, <2>7, <2>8, <2>9 DEF LanesSound
    <2> DEFINE j == Rest(s, l, r)
    <2>11. j.at = "look" /\ j.todo = job[s].todo \ {l}
      BY DEF Rest, Go
    <2>12. /\ mem' = [mem EXCEPT ![s] = r] /\ job' = [job EXCEPT ![s] = j]
           /\ UNCHANGED disk
      BY <2>7 DEF Seen, Keep
    <2> HIDE DEF j
    <2>13. CallSound(r, j)
      <3>1. j.todo \subseteq ToObserve(r)
        BY <2>1, <2>2, <2>8, <2>11 DEF ToObserve
      <3> QED BY <2>11, <3>1 DEF CallSound, Sending
    <2>14. Sound(r, j, task') /\ r # None
      <3>1. r # None
        BY <1>2, <2>8, PhaseIsSome DEF Records
      <3>2. Sound(r, j, task')
        BY <1>3, <2>8, <2>10, <2>11, <2>13, SoundIf
      <3> QED BY <3>1, <3>2
    <2> QED BY <1>1, <1>3, <2>12, <2>14, CopyStop
  <1> QED BY <1>4, <1>5, <1>6 DEF Observe

LEMMA CancelStops ==
  ASSUME TypeInv, AdmitInv, PhaseInv, StopInv, Trusted, Trusted', NEW s \in Servers, DoCancel(s)
  PROVE  StopInv'
  <1>1. job[s].at = "cancel" /\ mem[s] # None
    BY InCall, RecordIsSome DEF DoCancel, CancelUnprompted, CancelEnd, CancelSkips,
       CancelConfirmed, CancelUnconfirmed, Cancelling, At
  <1>2. mem[s] \in Records /\ LanesSound(mem[s], task)
    BY <1>1, CopySound
  <1>3. mem[s].phase \notin Finished /\ ~Over(s)
    BY <1>1, AtWork DEF PhaseInv, Resting
  <1>4. CASE CancelUnprompted(s)
    <2> DEFINE lanes == [l \in Lanes |-> IF Closed(mem[s].lanes[l]) THEN mem[s].lanes[l]
                         ELSE [mem[s].lanes[l] EXCEPT !.phase = "cancelled"]]
               r == [mem[s] EXCEPT !.phase = "cancelled", !.confirmed = TRUE, !.lanes = lanes]
    <2>1. Save(s, r, Idle, Idle) /\ UNCHANGED task /\ Unprompted(mem[s])
      BY <1>4 DEF CancelUnprompted, env
    <2>2. \A l \in Lanes : ~Attempted(mem[s].lanes[l])
      BY <2>1, Here DEF Unprompted, PromptEvidence, Fresh, Early, Attempted, NewLane
    <2>3. NoneLive(task)
      BY <1>2, <2>2 DEF LanesSound, LaneSound, NoneLive
    <2>4. \A l \in Lanes : LaneSound(lanes[l], task[l], FALSE)
      BY <1>2, <2>2, <2>3 DEF LaneSound, NoneLive, Attempted, Records, LaneRecords
    <2>5. lanes \in [Lanes -> LaneRecords]
      BY <1>2, LanePhaseSet DEF Records, LanePhases
    <2> HIDE DEF lanes
    <2>6. r \in Records /\ r.lanes = lanes
      <3>1. r \in Records
        BY <1>2, <2>5 DEF Records, RunPhases
      <3>2. r.lanes = lanes
        BY <1>2 DEF Records
      <3> QED BY <3>1, <3>2
    <2> HIDE DEF r
    <2>7. LanesSound(r, task)
      BY <2>4, <2>6 DEF LanesSound
    <2>8. Sound(r, Idle, task)
      BY <2>3, <2>7, IdleRests, RestingCall, SoundIf
    <2> QED BY <1>1, <2>1, <2>6, <2>8, QuietStop
  <1>5. CASE CancelEnd(s)
    <2> DEFINE confirmed == \A l \in Lanes : Stopped(mem[s].lanes[l])
               r == [mem[s] EXCEPT !.confirmed = confirmed,
                                   !.phase = IF confirmed THEN "cancelled" ELSE "degraded"]
    <2>1. Save(s, r, Idle, Idle) /\ UNCHANGED task
      BY <1>5 DEF CancelEnd, env
    <2>2. confirmed => NoneLive(task)
      BY <1>2 DEF LanesSound, LaneSound, NoneLive, Stopped, TerminalLane
    <2>3. confirmed \in BOOLEAN
      OBVIOUS
    <2> HIDE DEF confirmed
    <2>4. /\ r.lanes = mem[s].lanes
          /\ r.phase = IF confirmed THEN "cancelled" ELSE "degraded"
      BY <1>2 DEF Records
    <2>5. r \in Records
      BY <1>2, <2>3 DEF Records, RunPhases
    <2> HIDE DEF r
    <2>6. LanesSound(r, task)
      BY <1>2, <2>4 DEF LanesSound
    <2>7. Sound(r, Idle, task)
      BY <2>2, <2>4, <2>6, IdleRests, RestingCall, SoundIf DEF Finished
    <2> QED BY <1>1, <2>1, <2>5, <2>7, QuietStop
  <1>6. ASSUME NEW l \in Lanes, CancelSkips(s, l) \/ CancelConfirmed(s, l) \/ CancelUnconfirmed(s, l)
        PROVE  StopInv'
    <2> DEFINE old == mem[s].lanes[l]
    <2>1. old \in LaneRecords /\ LaneSound(old, task[l], FALSE)
      BY <1>2 DEF Records, LanesSound
    <2> HIDE DEF old
    <2>2. \E lane : CancelGoesOn(s, l, lane) /\ LaneSound(lane, task'[l], FALSE)
      <3>1. CASE CancelSkips(s, l)
        BY <2>1, <3>1 DEF CancelSkips, env, old
      <3>2. CASE CancelConfirmed(s, l)
        <4>1. task'[l].status = "cancelled"
          BY <3>2 DEF CancelConfirmed, TypeInv, EnvType, Tasks
        <4>2. LaneSound([old EXCEPT !.phase = "cancelled"], task'[l], FALSE)
          BY <2>1, <4>1 DEF LaneSound, Live, LaneRecords
        <4> QED BY <3>2, <4>2 DEF CancelConfirmed, old
      <3>3. CASE CancelUnconfirmed(s, l)
        <4> DEFINE p == IF Attempted(old) THEN "running" ELSE "failed_pre_prompt"
                   lane == [old EXCEPT !.phase = p, !.class = "unconfirmed"]
        <4>1. CancelGoesOn(s, l, lane)
          BY <3>3 DEF CancelUnconfirmed, old
        <4>2. ~Live(task[l]) => UNCHANGED task
          BY <3>3 DEF CancelUnconfirmed
        <4>3. lane.phase = p /\ (Attempted(lane) <=> Attempted(old))
          BY <2>1 DEF LaneRecords, Attempted
        <4> HIDE DEF lane
        <4>4. CASE Attempted(old)
          BY <4>1, <4>3, <4>4 DEF LaneSound, TerminalLane
        <4>5. CASE ~Attempted(old)
          <5>1. ~Live(task'[l])
            BY <2>1, <4>2, <4>5 DEF LaneSound
          <5> QED BY <4>1, <4>3, <4>5, <5>1 DEF LaneSound
        <4> QED BY <4>4, <4>5
      <3> QED BY <1>6, <3>1, <3>2, <3>3
    <2>3. PICK lane : CancelGoesOn(s, l, lane) /\ LaneSound(lane, task'[l], FALSE)
      BY <2>2
    <2>4. \A k \in Lanes \ {l} : task'[k] = task[k]
      BY <1>6 DEF CancelSkips, CancelConfirmed, CancelUnconfirmed, env, TypeInv, EnvType
    <2> DEFINE r == [mem[s] EXCEPT !.lanes[l] = lane]
               j == Go("cancel", job[s].todo \ {l})
    <2>5. LanesSound(r, task')
      BY <1>2, <2>3, <2>4, LaneSetSound DEF LanesSound
    <2>6. r.phase = mem[s].phase
      BY <1>2 DEF Records
    <2>7. /\ mem' = [mem EXCEPT ![s] = r] /\ job' = [job EXCEPT ![s] = j]
          /\ UNCHANGED disk
      BY <2>3 DEF CancelGoesOn, Keep
    <2>8. j.at = "cancel"
      BY GoIs
    <2> HIDE DEF r, j
    <2>9. Sound(r, j, task')
      BY <1>3, <2>5, <2>6, <2>8, RestingCall, SoundIf
    <2>10. r # None
      BY <1>2, <2>6, PhaseIsSome DEF Records
    <2> QED BY <1>1, <1>3, <2>7, <2>9, <2>10, CopyStop
  <1> QED BY <1>4, <1>5, <1>6 DEF DoCancel

\* A call that looks at all lanes that need it.
LEMMA LookingSound ==
  ASSUME NEW r, NEW tasks, LanesSound(r, tasks), r.phase \notin Finished
  PROVE  Sound(r, Go("look", ToObserve(r)), tasks)
  <1>1. CallSound(r, Go("look", ToObserve(r)))
    BY GoIs DEF CallSound, Sending
  <1> QED BY <1>1, GoIs, SoundIf

LEMMA CallStops ==
  ASSUME TypeInv, AdmitInv, PhaseInv, StopInv, Trusted, Trusted', NEW s \in Servers,
         Inspect(s) \/ Reply(s) \/ Cancel(s)
  PROVE  StopInv'
  <1>1. job[s].at = "idle" /\ mem[s] # None
    BY DEF Inspect, Open, Reply, Cancel, Usable, At
  <1>2. mem[s] \in Records /\ Sound(mem[s], job[s], task) /\ LanesSound(mem[s], task)
    BY <1>1, CopySound
  <1>3. CASE Inspect(s)
    <2>1. /\ mem' = [mem EXCEPT ![s] = mem[s]]
          /\ job' = [job EXCEPT ![s] = Go("look", ToObserve(mem[s]))]
          /\ UNCHANGED <<disk, task>> /\ mem[s].phase \notin Finished
      BY <1>3 DEF Inspect, Open, env, TypeInv, RecordType
    <2>2. ~Over(s)
      BY <2>1 DEF Over
    <2> QED BY <1>1, <1>2, <2>1, <2>2, LookingSound, CopyStop
  <1>4. CASE Cancel(s)
    <2> DEFINE r == [mem[s] EXCEPT !.cancel = TRUE]
    <2>1. /\ Save(s, r, Go("cancel", Lanes), Idle) /\ UNCHANGED task
          /\ mem[s].phase \notin Finished
      BY <1>4 DEF Cancel, env
    <2>2. r.phase = mem[s].phase /\ r.lanes = mem[s].lanes
      BY <1>2 DEF Records
    <2>3. r \in Records
      BY <1>2 DEF Records
    <2> HIDE DEF r
    <2>4. LanesSound(r, task)
      BY <1>2, <2>2 DEF LanesSound
    <2>5. Sound(r, Go("cancel", Lanes), task)
      BY <2>1, <2>2, <2>4, GoIs, RestingCall, SoundIf
    <2> QED BY <1>1, <2>1, <2>3, <2>5, QuietStop
  <1>5. CASE Reply(s)
    <2> DEFINE lanes == [l \in Lanes |-> IF mem[s].lanes[l].phase = "needs_attention"
                           THEN [mem[s].lanes[l] EXCEPT !.phase = "running"] ELSE mem[s].lanes[l]]
               answered == [mem[s] EXCEPT !.asked = {}, !.lanes = lanes]
               left(r) == IF r.phase \in Finished THEN Idle ELSE Go("look", ToObserve(r))
    <2>1. PICK took \in SUBSET {l \in mem[s].asked : task[l].status \in {"asking", "answered"}} :
            LET r == IF took = mem[s].asked THEN answered ELSE mem[s] IN
            /\ task' = [l \in Lanes |->
                 IF l \in took THEN [task[l] EXCEPT !.status = "answered"] ELSE task[l]]
            /\ Save(s, r, left(r), Idle)
      BY <1>5 DEF Reply
    <2>2. ASSUME NEW l \in Lanes PROVE Live(task'[l]) <=> Live(task[l])
      <3>1. /\ l \in took => task[l].status \in {"asking", "answered"}
            /\ task'[l] = IF l \in took THEN [task[l] EXCEPT !.status = "answered"] ELSE task[l]
        <4> HIDE DEF answered, left
        <4> QED BY <2>1
      <3>2. task[l] \in Tasks
        BY DEF TypeInv, EnvType
      <3> QED BY <3>1, <3>2 DEF Live, Tasks
    <2>3. \A l \in Lanes : LaneSound(lanes[l], task[l], FALSE)
      <3>1. ASSUME NEW lane \in LaneRecords, NEW t, LaneSound(lane, t, FALSE),
                   lane.phase = "needs_attention"
            PROVE  LaneSound([lane EXCEPT !.phase = "running"], t, FALSE)
        <4>1. /\ [lane EXCEPT !.phase = "running"].phase = "running"
              /\ Attempted([lane EXCEPT !.phase = "running"]) <=> Attempted(lane)
          BY DEF LaneRecords, Attempted
        <4> QED BY <3>1, <4>1 DEF LaneSound, TerminalLane
      <3> QED BY <1>2, <3>1 DEF LanesSound, Records
    <2>4. LanesSound(answered, task) /\ answered.phase = mem[s].phase
      <3> HIDE DEF lanes
      <3>1. answered.phase = mem[s].phase /\ answered.lanes = lanes
        BY <1>2 DEF Records
      <3> HIDE DEF answered
      <3> QED BY <2>3, <3>1 DEF LanesSound
    <2>5. PICK r : /\ Save(s, r, left(r), Idle) /\ LanesSound(r, task) /\ r.phase = mem[s].phase
      <3> HIDE DEF answered, left
      <3> QED BY <1>2, <2>1, <2>4
    <2>6. LanesSound(r, task')
      BY <2>2, <2>5 DEF LanesSound, LaneSound
    <2>7. r.phase \in Finished => NoneLive(task')
      BY <1>2, <2>2, <2>5 DEF Sound, NoneLive
    <2>8. Sound(r, left(r), task')
      <3>1. CASE r.phase \in Finished
        BY <2>6, <2>7, <3>1, IdleRests, RestingCall, SoundIf
      <3>2. CASE r.phase \notin Finished
        BY <2>6, <3>2, LookingSound
      <3> QED BY <3>1, <3>2
    <2>9. r # None
      BY <1>2, <2>5, PhaseIsSome DEF Records
    <2> HIDE DEF left
    <2> QED BY <1>1, <2>5, <2>7, <2>8, <2>9, SaveStop DEF Save
  <1> QED BY <1>3, <1>4, <1>5

\* The task of a lane goes on only if it went on before.
LEMMA TaskStops ==
  ASSUME TypeInv, StopInv, NEW l \in Lanes, TaskNext(l)
  PROVE  StopInv'
  <1>1. UNCHANGED <<disk, mem, job, solo, faults>>
    BY DEF TaskNext, TaskPrompts, TaskConfirms, TaskAsks, TaskGoesOn, TaskEnds, TaskSteps
  <1>2. \A k \in Lanes \ {l} : task'[k] = task[k]
    BY DEF TaskNext, TaskPrompts, TaskConfirms, TaskAsks, TaskGoesOn, TaskEnds, TaskSteps,
       TypeInv, EnvType
  <1>3. Live(task[l])
    BY DEF TaskNext, TaskPrompts, TaskConfirms, TaskAsks, TaskGoesOn, TaskEnds, Live
  <1>4. task'[l].status = "cancelling" => task[l].status = "cancelling"
    <2>1. task[l] \in Tasks
      BY DEF TypeInv, EnvType
    <2>2. CASE TaskPrompts(l) \/ TaskConfirms(l) \/ TaskAsks(l) \/ TaskGoesOn(l)
      BY <2>1, <2>2 DEF TaskPrompts, TaskConfirms, TaskAsks, TaskGoesOn, TaskSteps, Tasks,
         TypeInv, EnvType
    <2>3. CASE TaskEnds(l)
      <3>1. PICK end \in Faulty(l, {"completed"}, {"failed", "lost", "cancelled"})
                           \cup (IF task[l].status = "cancelling" THEN {"cancelled"} ELSE {}) :
              TaskSteps(l, [task[l] EXCEPT !.status = end])
        BY <2>3 DEF TaskEnds
      <3>2. end # "cancelling"
        BY DEF Faulty
      <3>3. task'[l].status = end
        BY <2>1, <3>1 DEF TaskSteps, Tasks, TypeInv, EnvType
      <3> QED BY <3>2, <3>3
    <2> QED BY <2>2, <2>3 DEF TaskNext
  <1>5. NoneLive(task) => FALSE
    BY <1>3 DEF NoneLive
  <1>6. ASSUME NEW r, NEW j, Sound(r, j, task) PROVE Sound(r, j, task')
    <2>1. \A k \in Lanes : LaneSound(r.lanes[k], task'[k], Launched(j, k))
      <3>1. ASSUME NEW k \in Lanes PROVE LaneSound(r.lanes[k], task'[k], Launched(j, k))
        <4>1. LaneSound(r.lanes[k], task[k], Launched(j, k))
          BY <1>6 DEF Sound
        <4>2. CASE k = l
          BY <1>3, <1>4, <4>1, <4>2 DEF LaneSound
        <4>3. CASE k # l
          BY <1>2, <4>1, <4>3
        <4> QED BY <4>2, <4>3
      <3> QED BY <3>1
    <2>2. CallSound(r, j) /\ (r.phase \in Finished => NoneLive(task'))
      BY <1>5, <1>6 DEF Sound
    <2> QED BY <2>1, <2>2 DEF Sound
  <1>7. Trusted' => Trusted
    BY <1>1 DEF Trusted
  <1>8. Trusted' => \A s \in Servers : mem[s] # None => Sound(mem[s], job[s], task')
    BY <1>6, <1>7 DEF StopInv
  <1> HIDE DEF Sound, NoneLive
  <1>9. Trusted' => /\ ~\A s \in Servers : mem[s] = None
                    /\ ~(disk # None /\ disk.phase \in Finished)
    BY <1>5, <1>7 DEF StopInv
  <1> QED BY <1>1, <1>8, <1>9 DEF StopInv, Trusted

LEMMA SubmitStops ==
  ASSUME TypeInv, PhaseInv, StopInv, Trusted, Trusted', NEW s \in Servers, Submit(s)
  PROVE  StopInv'
  <1> DEFINE j == Go("create", {})
  <1>1. /\ mem' = [mem EXCEPT ![s] = NewRecord] /\ job' = [job EXCEPT ![s] = j]
        /\ mem[s] = None /\ disk = None /\ UNCHANGED <<disk, task>> /\ Alone(s)
    BY DEF Submit, env, Trusted
  <1>2. /\ mem'[s] = NewRecord /\ job'[s] = j
        /\ \A t \in Servers \ {s} : mem'[t] = mem[t] /\ job'[t] = job[t]
    BY <1>1, StepAt
  <1>3. \A t \in Servers : mem[t] = None
    BY <1>1 DEF Alone
  <1>4. NoneLive(task)
    BY <1>3 DEF StopInv
  <1>5. j.at = "create"
    BY GoIs
  <1> HIDE DEF j
  <1>6. LanesSound(NewRecord, task)
    BY <1>4 DEF LanesSound, LaneSound, NoneLive, NewRecord, NewLane, Attempted
  <1>7. Sound(NewRecord, j, task)
    <2>1. CallSound(NewRecord, j) /\ j.at # "evidence"
      BY <1>5, RestingCall DEF Consenting
    <2> QED BY <1>4, <1>6, <2>1, SoundIf
  <1>8. NewRecord # None
    BY NewRecordType, RecordIsSome
  <1>9. \A t \in Servers : mem'[t] # None => Sound(mem'[t], job'[t], task')
    BY <1>1, <1>2, <1>3, <1>7
  <1>10. ~\A t \in Servers : mem'[t] = None
    BY <1>2, <1>8
  <1> HIDE DEF Sound, NoneLive
  <1> QED BY <1>1, <1>9, <1>10 DEF StopInv

LEMMA StopNext == TypeInv /\ AdmitInv /\ PhaseInv /\ StopInv /\ [Next]_vars => StopInv'
  <1> SUFFICES ASSUME TypeInv, AdmitInv, PhaseInv, StopInv, [Next]_vars PROVE StopInv'
    OBVIOUS
  <1>1. CASE UNCHANGED vars
    <2>1. UNCHANGED <<disk, mem, job, task, solo, faults>>
      BY <1>1 DEF vars
    <2> QED BY <2>1 DEF StopInv, Trusted, Sound, NoneLive, LaneSound, CallSound, Launched, First
  <1>2. ASSUME NEW l \in Lanes, TaskNext(l) PROVE StopInv'
    BY <1>2, TaskStops
  <1>3. SUFFICES ASSUME Trusted' PROVE StopInv'
    BY DEF StopInv
  <1>4. faults \in Nat
    BY AdmissionAssumption DEF TypeInv, RecordType
  <1>5. ASSUME NEW s \in Servers, Load(s) PROVE StopInv'
    <2>1. Trusted /\ mem[s] = None /\ Alone(s) /\ disk # None
      BY <1>3, <1>5 DEF Load, Trusted
    <2>2. \A t \in Servers : mem[t] = None
      BY <2>1 DEF Alone
    <2> QED BY <2>1, <2>2 DEF StopInv
  <1>6. ASSUME NEW s \in Servers, Crash(s) PROVE StopInv'
    <2>1. faults' = faults + 1
      BY <1>6 DEF Crash
    <2> QED BY <1>3, <1>4, <2>1 DEF Trusted
  <1>7. ASSUME NEW s \in Servers, Submit(s) PROVE StopInv'
    <2>1. Trusted
      BY <1>3, <1>7 DEF Submit, Trusted
    <2> QED BY <1>3, <1>7, <2>1, SubmitStops
  <1>8. ASSUME NEW s \in Servers, Call(s) \/ Step(s), ~Submit(s) PROVE StopInv'
    <2>1. Moves(s)
      BY <1>8, ConsentMoves, AdmitMoves, DispatchMoves, ObserveMoves, CancelMoves, CallMoves
         DEF Call, Step, PhaseInv
    <2>2. Trusted
      BY <1>3, <1>4, <2>1 DEF Moves, Trusted
    <2> QED BY <1>3, <1>8, <2>2, ConsentStops, AdmitStops, DispatchStops, ObserveStops, CancelStops,
               CallStops DEF Call, Step
  <1> QED BY <1>1, <1>2, <1>5, <1>6, <1>7, <1>8 DEF Next, Call

LEMMA StopInit == Init => StopInv
  BY DEF Init, StopInv, NewTask, NoneLive, Live

\* As long as one server at a time works on the run, and neither dies nor fails to save, no task of
\* a run that has ended goes on: a cancel reports only what it has confirmed, and a dispatch whose
\* evidence is missing is not given up (run-admission.mjs:675, 692, 2011-2070).
THEOREM AdmissionStopped == Spec => []FinishedMeansStopped
  <1>1. StopInv => FinishedMeansStopped
    BY DEF StopInv, FinishedMeansStopped, NoneLive
  <1> QED BY <1>1, TypeInit, TypeNext, AdmitInit, AdmitNext, PhaseInit, PhaseNext, StopInit,
             StopNext, PTL DEF Spec
=============================================================================
