-------------------------- MODULE UpdateLockProofs --------------------------
(***************************************************************************)
(* Theorems about UpdateLock for every number of processes and updates.    *)
(*                                                                         *)
(* TurnInv is the part of the argument that is about one process (who has  *)
(* the turn), LockInv the part that is about the lock file.                *)
(***************************************************************************)
EXTENDS UpdateLock, TLAPS

\* A running update has the turn of a live process; a queued one waits in a live
\* process; the loop counter stays below the bound until the update settles.
TurnInv ==
  \A u \in Updates :
    /\ Running(u) => /\ host[u] \in Processes
                     /\ proc[host[u]] = "live"
                     /\ tail[host[u]] # << >>
                     /\ u = Head(tail[host[u]])
    /\ pc[u] = "queued" => host[u] \in Processes /\ proc[host[u]] = "live"
    /\ pc[u] \notin {"done", "crashed"} => attempt[u] < MaxAttempts

LEMMA HeadOfAppend ==
  ASSUME NEW S, NEW s \in Seq(S), NEW e \in S, s # << >>
  PROVE  Append(s, e) # << >> /\ Head(Append(s, e)) = Head(s)
  OBVIOUS

\* updateTask settles with one of its outcomes and passes the turn on.
LEMMA ReturnType ==
  ASSUME TypeOK, TurnInv, NEW u \in Updates, Running(u),
         NEW outcome \in Store!Results, Return(u, outcome)
  PROVE  /\ pc' \in [Updates -> PCs]
         /\ result' \in [Updates -> Store!Results]
         /\ tail' \in [Processes -> Seq(Updates)]
  <1>1. host[u] \in Processes /\ tail[host[u]] \in Seq(Updates) /\ tail[host[u]] # << >>
    BY DEF TypeOK, TurnInv
  <1>2. Tail(tail[host[u]]) \in Seq(Updates)
    BY <1>1
  <1> QED BY <1>1, <1>2 DEF Return, TypeOK, PCs

\* The loop of acquireUpdateLock goes on or gives up.
LEMMA RetryType ==
  ASSUME TypeOK, TurnInv, NEW u \in Updates, Running(u),
         pc[u] \notin {"done", "crashed"}, Retry(u)
  PROVE  /\ pc' \in [Updates -> PCs]
         /\ result' \in [Updates -> Store!Results]
         /\ tail' \in [Processes -> Seq(Updates)]
         /\ attempt' \in [Updates -> 0..MaxAttempts]
  <1>1. attempt' \in [Updates -> 0..MaxAttempts]
    BY UpdateLockAssumption DEF Retry, TypeOK, TurnInv
  <1>2. CASE Goto(u, "open")
    BY <1>1, <1>2 DEF Goto, TypeOK, PCs
  <1>3. CASE Return(u, "failed")
    BY <1>1, <1>3, ReturnType DEF Store!Results
  <1> QED BY <1>2, <1>3 DEF Retry

\* The instance of RecordStore has its own copy of the statuses.
LEMMA SameStatuses == Store!Statuses = Statuses
  BY DEF Store!Statuses, Statuses, Store!Terminal, Terminal, Store!Active, Active

LEMMA TypeInit == Init => TypeOK /\ TurnInv
  <1> SUFFICES ASSUME Init PROVE TypeOK /\ TurnInv
    OBVIOUS
  <1> USE UpdateLockAssumption
  <1>1. record \in Store!Records
    BY SameStatuses DEF Init, Store!Records, Statuses
  <1>2. TypeOK
    <2>1. lock \in Locks \cup {NoLock} /\ stolen \in BOOLEAN
      BY DEF Init
    <2>2. /\ proc \in [Processes -> {"unborn", "live", "dead"}]
          /\ tail \in [Processes -> Seq(Updates)]
          /\ host \in [Updates -> Processes \cup {NoProcess}]
      BY DEF Init
    <2>3. /\ change \in [Updates -> Changes]
          /\ pc \in [Updates -> PCs]
          /\ result \in [Updates -> Store!Results]
      BY DEF Init, Changes, PCs, Store!Results
    <2>4. attempt \in [Updates -> 0..MaxAttempts]
      BY DEF Init
    <2>5. snapshot \in [Updates -> Store!Records]
      BY <1>1 DEF Init
    <2> QED BY <1>1, <2>1, <2>2, <2>3, <2>4, <2>5 DEF TypeOK
  <1>3. TurnInv
    BY DEF Init, TurnInv, Running, Holds, Holding
  <1> QED BY <1>2, <1>3

LEMMA TypeStep ==
  ASSUME TypeOK, TurnInv, [Next]_vars
  PROVE  TypeOK' /\ TurnInv'
  <1> USE UpdateLockAssumption
  <1>1. ASSUME NEW p \in Processes, StartProcess(p)
        PROVE  TypeOK' /\ TurnInv'
    <2>1. TypeOK'
      BY <1>1 DEF StartProcess, TypeOK
    <2>2. TurnInv'
      BY <1>1 DEF StartProcess, TypeOK, TurnInv, Running, Holds, Holding
    <2> QED BY <2>1, <2>2
  <1>2. ASSUME NEW p \in Processes, Crash(p)
        PROVE  TypeOK' /\ TurnInv'
    <2>1. TypeOK'
      BY <1>2 DEF Crash, TypeOK, PCs
    <2>2. TurnInv'
      BY <1>2 DEF Crash, TypeOK, TurnInv, Running, Holds, Holding, PCs
    <2> QED BY <2>1, <2>2
  <1>3. ASSUME NEW p \in Processes, NEW u \in Updates, NEW c \in Requests, Call(p, u, c)
        PROVE  TypeOK' /\ TurnInv'
    <2>1. TypeOK'
      BY <1>3 DEF Call, TypeOK, PCs
    <2>2. tail[p] # << >> => Append(tail[p], u) # << >> /\ Head(Append(tail[p], u)) = Head(tail[p])
      BY HeadOfAppend DEF TypeOK
    <2>3. TurnInv'
      BY <1>3, <2>2 DEF Call, TypeOK, TurnInv, Running, Holds, Holding, PCs
    <2> QED BY <2>1, <2>3
  <1>4. ASSUME NEW u \in Updates, Step(u)
        PROVE  TypeOK' /\ TurnInv'
    <2>1. TypeOK'
      <3>1. CASE Turn(u) BY <3>1 DEF Turn, Goto, TypeOK, PCs
      <3>2. CASE CreateLock(u) BY <3>2 DEF CreateLock, Goto, TypeOK, PCs, Locks
      <3>3. CASE LockExists(u) BY <3>3 DEF LockExists, Goto, TypeOK, PCs
      <3>4. CASE WriteOwner(u) BY <3>4 DEF WriteOwner, OwnLock, Goto, TypeOK, PCs, Locks
      <3>5. CASE WriteOwnerFails(u)
        <4>1. Running(u) /\ Return(u, "failed") /\ "failed" \in Store!Results
          BY <3>5 DEF WriteOwnerFails, Running, Holds, Holding, Store!Results
        <4> QED BY <3>5, <4>1, ReturnType DEF WriteOwnerFails, Unlink, TypeOK
      <3>6. CASE Judge(u)
        <4>1. Running(u) /\ "failed" \in Store!Results
          BY <3>6 DEF Judge, Running, Store!Results
        <4>2. CASE Return(u, "failed")
          BY <3>6, <4>1, <4>2, ReturnType DEF Judge, TypeOK
        <4>3. CASE ~Return(u, "failed")
          BY <3>6, <4>3 DEF Judge, Goto, TypeOK, PCs
        <4> QED BY <4>2, <4>3
      <3>7. CASE BreakLock(u)
        <4>1. Running(u) /\ pc[u] \notin {"done", "crashed"} /\ Retry(u)
          BY <3>7 DEF BreakLock, Running
        <4> QED BY <3>7, <4>1, RetryType DEF BreakLock, Unlink, TypeOK
      <3>8. CASE Wake(u)
        <4>1. Running(u) /\ pc[u] \notin {"done", "crashed"} /\ Retry(u)
          BY <3>8 DEF Wake, Running
        <4> QED BY <3>8, <4>1, RetryType DEF Wake, TypeOK
      <3>9. CASE ReadRecord(u) BY <3>9 DEF ReadRecord, Goto, TypeOK, PCs
      <3>10. CASE WriteRecord(u)
        <4>1. Store!Merge(snapshot[u], u, change[u]) \in Store!Records
          BY SameStatuses DEF TypeOK, Store!Merge, Store!Records, Store!NextStatus,
             Store!KeepStatus, Changes, KeepStatus
        <4> QED BY <3>10, <4>1 DEF WriteRecord, TypeOK, PCs, Store!Results
      <3>11. CASE IgnoreUpdate(u) BY <3>11 DEF IgnoreUpdate, TypeOK, PCs, Store!Results
      <3>12. CASE UpdateThrows(u) BY <3>12 DEF UpdateThrows, TypeOK, PCs, Store!Results
      <3>13. CASE ReadOwnLock(u)
        <4>1. Running(u) /\ {"failed", result[u]} \subseteq Store!Results
          BY <3>13 DEF ReadOwnLock, Running, Holds, Holding, Store!Results, TypeOK
        <4>2. CASE Goto(u, "unlink")
          BY <3>13, <4>2 DEF ReadOwnLock, Goto, TypeOK, PCs
        <4>3. CASE \E outcome \in {"failed", result[u]} : Return(u, outcome)
          BY <3>13, <4>1, <4>3, ReturnType DEF ReadOwnLock, TypeOK
        <4> QED BY <3>13, <4>2, <4>3 DEF ReadOwnLock
      <3>14. CASE ReleaseLock(u)
        <4>1. Running(u) /\ Return(u, result[u]) /\ result[u] \in Store!Results
          BY <3>14 DEF ReleaseLock, Running, Holds, Holding, TypeOK
        <4> QED BY <3>14, <4>1, ReturnType DEF ReleaseLock, Unlink, TypeOK
      <3> QED BY <1>4, <3>1, <3>2, <3>3, <3>4, <3>5, <3>6, <3>7, <3>8, <3>9, <3>10, <3>11,
                 <3>12, <3>13, <3>14 DEF Step
    <2>2. TurnInv'
      <3> USE DEF TypeOK, TurnInv, Running, Holds, Holding
      <3>1. CASE Turn(u) BY <3>1 DEF Turn, Goto
      <3>2. CASE CreateLock(u) BY <3>2 DEF CreateLock, Goto
      <3>3. CASE LockExists(u) BY <3>3 DEF LockExists, Goto
      <3>4. CASE WriteOwner(u) BY <3>4 DEF WriteOwner, Goto
      <3>5. CASE WriteOwnerFails(u) BY <3>5 DEF WriteOwnerFails, Return
      <3>6. CASE Judge(u)
        <4>1. CASE Return(u, "failed") BY <3>6, <4>1 DEF Judge, Return
        <4>2. CASE \E label \in {"break", "sleep"} : Goto(u, label)
          BY <3>6, <4>2 DEF Judge, Goto
        <4> QED BY <3>6, <4>1, <4>2 DEF Judge
      <3>7. CASE BreakLock(u) BY <3>7 DEF BreakLock, Retry, Goto, Return
      <3>8. CASE Wake(u) BY <3>8 DEF Wake, Retry, Goto, Return
      <3>9. CASE ReadRecord(u) BY <3>9 DEF ReadRecord, Goto
      <3>10. CASE WriteRecord(u) BY <3>10 DEF WriteRecord
      <3>11. CASE IgnoreUpdate(u) BY <3>11 DEF IgnoreUpdate
      <3>12. CASE UpdateThrows(u) BY <3>12 DEF UpdateThrows
      <3>13. CASE ReadOwnLock(u)
        <4>1. CASE \E outcome \in {"failed", result[u]} : Return(u, outcome)
          BY <3>13, <4>1 DEF ReadOwnLock, Return
        <4>2. CASE Goto(u, "unlink") BY <3>13, <4>2 DEF ReadOwnLock, Goto
        <4> QED BY <3>13, <4>1, <4>2 DEF ReadOwnLock
      <3>14. CASE ReleaseLock(u) BY <3>14 DEF ReleaseLock, Return
      <3> QED BY <1>4, <3>1, <3>2, <3>3, <3>4, <3>5, <3>6, <3>7, <3>8, <3>9, <3>10, <3>11,
                 <3>12, <3>13, <3>14 DEF Step
    <2> QED BY <2>1, <2>2
  <1>5. CASE LockAges
    BY <1>5 DEF LockAges, LockEmpty, TypeOK, TurnInv, Running, Holds, Holding, Locks
  <1>6. CASE UNCHANGED vars
    BY <1>6 DEF vars, TypeOK, TurnInv, Running, Holds, Holding
  <1> QED BY <1>1, <1>2, <1>3, <1>4, <1>5, <1>6 DEF Next

\* Every state of updateTask has the shape TypeOK says, and updates of one process
\* take turns (the promise tails of task-store.mjs:235-249).
THEOREM UpdateLockType == Spec => [](TypeOK /\ TurnInv)
  BY TypeInit, TypeStep, PTL DEF Spec

------------------------------------------------------------------------------
\* What the lock file protects, for as long as no running update loses its own:
\* every holder owns the file, nobody writes between a read and its write, and what
\* was written stays merged.
LockInv ==
  ~stolen => \A u \in Updates :
    /\ Holds(u) => OwnLock(u)
    /\ pc[u] = "write" => snapshot[u] = record
    /\ result[u] = "written" => u \in record.fields

\* Removing the lock file of somebody else is noticed by the history variable.
LEMMA UnlinkOwn ==
  ASSUME LockInv, NEW u \in Updates, Unlink(u), ~stolen'
  PROVE  ~stolen /\ \A v \in Updates \ {u} : ~Holds(v)
  BY DEF LockInv, Unlink, OwnLock

LEMMA LockStep ==
  ASSUME TypeOK, LockInv, [Next]_vars
  PROVE  LockInv'
  <1> USE UpdateLockAssumption DEF LockInv, TypeOK, Holds, Holding, OwnLock
  <1>1. ASSUME NEW p \in Processes, StartProcess(p) PROVE LockInv'
    BY <1>1 DEF StartProcess
  <1>2. ASSUME NEW p \in Processes, Crash(p) PROVE LockInv'
    BY <1>2 DEF Crash
  <1>3. ASSUME NEW p \in Processes, NEW u \in Updates, NEW c \in Requests, Call(p, u, c)
        PROVE  LockInv'
    BY <1>3 DEF Call
  <1>4. ASSUME NEW u \in Updates, Step(u) PROVE LockInv'
    <2>1. CASE Turn(u) BY <2>1 DEF Turn, Goto
    <2>2. CASE CreateLock(u)
      <3>1. lock' # NoLock /\ lock'.nonce = u
        <4>1. lock' = [nonce |-> u, written |-> FALSE, old |-> FALSE]
          BY <2>2 DEF CreateLock
        <4>2. lock' \in [nonce : Updates, written : BOOLEAN, old : BOOLEAN]
          BY <4>1
        <4> QED BY <4>1, <4>2, UpdateLockAssumption
      <3>2. ASSUME ~stolen, NEW v \in Updates PROVE ~Holds(v)
        BY <2>2, <3>2 DEF CreateLock
      <3> QED BY <2>2, <3>1, <3>2 DEF CreateLock, Goto
    <2>3. CASE LockExists(u) BY <2>3 DEF LockExists, Goto
    <2>4. CASE WriteOwner(u) BY <2>4 DEF WriteOwner, Goto, Locks
    <2>5. CASE WriteOwnerFails(u) BY <2>5, UnlinkOwn DEF WriteOwnerFails, Return
    <2>6. CASE Judge(u)
      <3>1. CASE Return(u, "failed") BY <2>6, <3>1 DEF Judge, Return
      <3>2. CASE \E label \in {"break", "sleep"} : Goto(u, label)
        BY <2>6, <3>2 DEF Judge, Goto
      <3> QED BY <2>6, <3>1, <3>2 DEF Judge
    <2>7. CASE BreakLock(u) BY <2>7, UnlinkOwn DEF BreakLock, Retry, Goto, Return
    <2>8. CASE Wake(u) BY <2>8 DEF Wake, Retry, Goto, Return
    <2>9. CASE ReadRecord(u) BY <2>9 DEF ReadRecord, Goto
    <2>10. CASE WriteRecord(u)
      <3> SUFFICES ASSUME ~stolen' PROVE LockInv'
        OBVIOUS
      <3>1. \A v \in Updates : Holds(v) => v = u
        BY <2>10 DEF WriteRecord
      <3>2. record'.fields = record.fields \cup {u}
        BY <2>10 DEF WriteRecord, Store!Merge
      <3> QED BY <2>10, <3>1, <3>2 DEF WriteRecord
    <2>11. CASE IgnoreUpdate(u) BY <2>11 DEF IgnoreUpdate
    <2>12. CASE UpdateThrows(u) BY <2>12 DEF UpdateThrows
    <2>13. CASE ReadOwnLock(u)
      <3>1. CASE \E outcome \in {"failed", result[u]} : Return(u, outcome)
        BY <2>13, <3>1 DEF ReadOwnLock, Return
      <3>2. CASE Goto(u, "unlink") BY <2>13, <3>2 DEF ReadOwnLock, Goto
      <3> QED BY <2>13, <3>1, <3>2 DEF ReadOwnLock
    <2>14. CASE ReleaseLock(u) BY <2>14, UnlinkOwn DEF ReleaseLock, Return
    <2> QED BY <1>4, <2>1, <2>2, <2>3, <2>4, <2>5, <2>6, <2>7, <2>8, <2>9, <2>10, <2>11,
               <2>12, <2>13, <2>14 DEF Step
  <1>5. CASE LockAges BY <1>5 DEF LockAges, LockEmpty, Locks
  <1>6. CASE UNCHANGED vars BY <1>6 DEF vars
  <1> QED BY <1>1, <1>2, <1>3, <1>4, <1>5, <1>6 DEF Next

\* As long as no running update had its lock file unlinked by another one, updateTask
\* excludes concurrent changes and loses none (task-store.mjs:274-307).
THEOREM UpdateLockSafety ==
  Spec => [](MutualExclusion /\ LockHeld /\ NoLostUpdate)
  <1>1. Init => LockInv
    BY DEF Init, LockInv, Holds, Holding
  <1>2. TypeOK /\ LockInv /\ [Next]_vars => LockInv'
    BY LockStep
  <1>3. TypeOK /\ LockInv => MutualExclusion /\ LockHeld /\ NoLostUpdate
    BY DEF LockInv, MutualExclusion, LockHeld, NoLostUpdate, Critical, Holds, Holding, OwnLock
  <1> QED BY <1>1, <1>2, <1>3, UpdateLockType, PTL DEF Spec

------------------------------------------------------------------------------
\* Processes that do not overlap: only the live one runs updates, one at a time, so
\* the lock file it may break is its predecessor's.
SoloInv ==
  /\ ~stolen
  /\ \A p, q \in Processes : proc[p] = "live" /\ proc[q] = "live" => p = q

LEMMA OneRunning ==
  ASSUME TurnInv, SoloInv, NEW u \in Updates, NEW v \in Updates, Running(u), Running(v)
  PROVE  u = v
  BY DEF TurnInv, SoloInv

LEMMA SoloUnlink ==
  ASSUME TypeOK, TurnInv, SoloInv, NEW u \in Updates, Running(u), Unlink(u)
  PROVE  ~stolen'
  <1>1. ASSUME lock # NoLock PROVE lock.nonce \in Updates
    BY <1>1 DEF TypeOK, Locks
  <1>2. ASSUME lock # NoLock, Holds(lock.nonce) PROVE lock.nonce = u
    BY <1>1, <1>2, OneRunning DEF Running
  <1> QED BY <1>2 DEF Unlink, SoloInv

LEMMA SoloStep ==
  ASSUME ~Overlap, TypeOK, TurnInv, SoloInv, [Next]_vars
  PROVE  SoloInv'
  <1>1. ASSUME NEW p \in Processes, StartProcess(p) PROVE SoloInv'
    BY <1>1 DEF StartProcess, SoloInv, TypeOK
  <1>2. ASSUME NEW p \in Processes, Crash(p) PROVE SoloInv'
    BY <1>2 DEF Crash, SoloInv, TypeOK
  <1>3. ASSUME NEW p \in Processes, NEW u \in Updates, NEW c \in Requests, Call(p, u, c)
        PROVE  SoloInv'
    BY <1>3 DEF Call, SoloInv
  <1>4. ASSUME NEW u \in Updates, Step(u) PROVE SoloInv'
    <2>1. proc' = proc
      BY <1>4 DEF Step, Turn, CreateLock, LockExists, WriteOwner, WriteOwnerFails, Judge,
         BreakLock, Wake, ReadRecord, WriteRecord, IgnoreUpdate, UpdateThrows, ReadOwnLock,
         ReleaseLock
    <2>2. CASE WriteOwnerFails(u) \/ BreakLock(u) \/ ReleaseLock(u)
      <3>1. Running(u) /\ Unlink(u)
        BY <2>2 DEF WriteOwnerFails, BreakLock, ReleaseLock, Running, Holds, Holding
      <3> QED BY <2>1, <3>1, SoloUnlink DEF SoloInv
    <2>3. CASE ~(WriteOwnerFails(u) \/ BreakLock(u) \/ ReleaseLock(u))
      <3>1. stolen' = stolen
        BY <1>4, <2>3 DEF Step, Turn, CreateLock, LockExists, WriteOwner, Judge, Wake,
           ReadRecord, WriteRecord, IgnoreUpdate, UpdateThrows, ReadOwnLock
      <3> QED BY <2>1, <3>1 DEF SoloInv
    <2> QED BY <2>2, <2>3
  <1>5. CASE LockAges BY <1>5 DEF LockAges, SoloInv
  <1>6. CASE UNCHANGED vars BY <1>6 DEF vars, SoloInv
  <1> QED BY <1>1, <1>2, <1>3, <1>4, <1>5, <1>6 DEF Next

LEMMA SoloInit == Init => SoloInv
  BY DEF Init, SoloInv

\* Where processes do not overlap no running update ever loses its lock file
\* (task-store.mjs:171-195, 220-225).
THEOREM UpdateLockNoTheft == Spec => []NoTheft
  <1>1. CASE Overlap
    <2>1. NoTheft
      BY <1>1 DEF NoTheft
    <2> QED BY <2>1, PTL
  <1>2. CASE ~Overlap
    <2>1. TypeOK /\ TurnInv /\ SoloInv /\ [Next]_vars => SoloInv'
      BY <1>2, SoloStep
    <2>2. SoloInv => NoTheft
      BY DEF SoloInv, NoTheft
    <2> QED BY SoloInit, <2>1, <2>2, UpdateLockType, PTL DEF Spec
  <1> QED BY <1>1, <1>2

------------------------------------------------------------------------------
\* An update has no outcome before it decided what to do with the record.
PendingInv ==
  \A u \in Updates :
    pc[u] \notin {"release", "unlink", "done", "crashed"} => result[u] = "pending"

\* The instance of RecordStore has its own copy of the guard.
LEMMA SameGuard ==
  ASSUME NEW current, NEW requested
  PROVE  Store!Accepts(current, requested) <=> Accepts(current, requested)
  BY DEF Store!Accepts, Accepts, Store!Terminal, Terminal, Store!KeepStatus, KeepStatus

LEMMA SameChanges == Store!Changes = Changes
  BY SameStatuses DEF Store!Changes, Changes, Store!KeepStatus, KeepStatus

\* Settling without success is the abstract Fail, settling later changes nothing.
LEMMA ReturnImplements ==
  ASSUME TypeOK, NEW u \in Updates, record' = record,
         \/ result[u] = "pending" /\ Return(u, "failed")
         \/ Return(u, result[u])
  PROVE  Store!Fail(u) \/ UNCHANGED Store!storeVars
  BY DEF TypeOK, Return, Store!Fail, Store!storeVars

\* Every step is a step of the abstract store or leaves it alone.
LEMMA StepImplements ==
  ASSUME TypeOK, LockInv, PendingInv, ~stolen, [Next]_vars
  PROVE  [Store!StoreNext]_Store!storeVars
  <1> USE DEF Store!storeVars
  <1>1. CASE \/ UNCHANGED vars
             \/ LockAges
             \/ \E p \in Processes : StartProcess(p) \/ Crash(p)
             \/ \E p \in Processes, u \in Updates, c \in Requests : Call(p, u, c)
    BY <1>1 DEF vars, LockAges, StartProcess, Crash, Call
  <1>2. ASSUME NEW u \in Updates, Step(u)
        PROVE  [Store!StoreNext]_Store!storeVars
    <2>1. CASE Turn(u) \/ CreateLock(u) \/ LockExists(u) \/ WriteOwner(u) \/ ReadRecord(u)
      BY <2>1 DEF Turn, CreateLock, LockExists, WriteOwner, ReadRecord, Goto
    <2>2. CASE WriteOwnerFails(u)
      BY <2>2, ReturnImplements DEF WriteOwnerFails, PendingInv, Store!StoreNext
    <2>3. CASE Judge(u)
      <3>1. CASE Return(u, "failed")
        BY <2>3, <3>1, ReturnImplements DEF Judge, PendingInv, Store!StoreNext
      <3>2. CASE UNCHANGED result
        BY <2>3, <3>2 DEF Judge
      <3> QED BY <2>3, <3>1, <3>2 DEF Judge, Goto
    <2>4. CASE BreakLock(u) \/ Wake(u)
      <3>1. result[u] = "pending" /\ Retry(u) /\ record' = record
        BY <2>4 DEF BreakLock, Wake, PendingInv
      <3>2. CASE Return(u, "failed")
        BY <3>1, <3>2, ReturnImplements DEF Store!StoreNext
      <3>3. CASE UNCHANGED result
        BY <3>1, <3>3
      <3> QED BY <3>1, <3>2, <3>3 DEF Retry, Goto
    <2>5. CASE WriteRecord(u)
      <3>1. snapshot[u] = record /\ result[u] = "pending" /\ change[u] \in Store!Changes
        BY <2>5, SameChanges DEF WriteRecord, LockInv, PendingInv, TypeOK
      <3>2. Store!Commit(u, change[u])
        BY <2>5, <3>1, SameGuard DEF WriteRecord, Store!Commit
      <3> QED BY <3>1, <3>2 DEF Store!StoreNext
    <2>6. CASE IgnoreUpdate(u)
      <3>1. snapshot[u] = record /\ result[u] = "pending" /\ change[u] \in Store!Changes
        BY <2>6, SameChanges DEF IgnoreUpdate, LockInv, PendingInv, TypeOK
      <3>2. Store!Ignore(u, change[u])
        BY <2>6, <3>1, SameGuard DEF IgnoreUpdate, Store!Ignore
      <3> QED BY <3>1, <3>2 DEF Store!StoreNext
    <2>7. CASE UpdateThrows(u)
      <3>1. Store!Fail(u)
        BY <2>7 DEF UpdateThrows, PendingInv, Store!Fail
      <3> QED BY <3>1 DEF Store!StoreNext
    <2>8. CASE ReadOwnLock(u)
      <3>1. OwnLock(u)
        BY <2>8 DEF ReadOwnLock, LockInv, Holds, Holding
      <3> QED BY <2>8, <3>1 DEF ReadOwnLock, Goto
    <2>9. CASE ReleaseLock(u)
      BY <2>9, ReturnImplements DEF ReleaseLock, Store!StoreNext
    <2> QED BY <1>2, <2>1, <2>2, <2>3, <2>4, <2>5, <2>6, <2>7, <2>8, <2>9 DEF Step
  <1> QED BY <1>1, <1>2 DEF Next

LEMMA PendingStep ==
  ASSUME TypeOK, PendingInv, [Next]_vars
  PROVE  PendingInv'
  <1> USE DEF PendingInv, TypeOK
  <1>1. CASE UNCHANGED vars \/ LockAges \/ \E p \in Processes : StartProcess(p)
    BY <1>1 DEF vars, LockAges, StartProcess
  <1>2. ASSUME NEW p \in Processes, Crash(p) PROVE PendingInv'
    BY <1>2 DEF Crash
  <1>3. ASSUME NEW p \in Processes, NEW u \in Updates, NEW c \in Requests, Call(p, u, c)
        PROVE  PendingInv'
    BY <1>3 DEF Call
  <1>4. ASSUME NEW u \in Updates, Step(u) PROVE PendingInv'
    <2>1. CASE Turn(u) \/ CreateLock(u) \/ LockExists(u) \/ WriteOwner(u) \/ ReadRecord(u)
      BY <2>1 DEF Turn, CreateLock, LockExists, WriteOwner, ReadRecord, Goto
    <2>2. CASE WriteOwnerFails(u) BY <2>2 DEF WriteOwnerFails, Return
    <2>3. CASE Judge(u) BY <2>3 DEF Judge, Goto, Return
    <2>4. CASE BreakLock(u) \/ Wake(u) BY <2>4 DEF BreakLock, Wake, Retry, Goto, Return
    <2>5. CASE WriteRecord(u) \/ IgnoreUpdate(u) \/ UpdateThrows(u)
      BY <2>5 DEF WriteRecord, IgnoreUpdate, UpdateThrows
    <2>6. CASE ReadOwnLock(u) BY <2>6 DEF ReadOwnLock, Goto, Return
    <2>7. CASE ReleaseLock(u) BY <2>7 DEF ReleaseLock, Return
    <2> QED BY <1>4, <2>1, <2>2, <2>3, <2>4, <2>5, <2>6, <2>7 DEF Step
  <1> QED BY <1>1, <1>2, <1>3, <1>4 DEF Next

LEMMA InitImplements == Init => Store!StoreInit
  <1>1. Store!Active = Active
    BY DEF Store!Active, Active
  <1> QED BY <1>1 DEF Init, Store!StoreInit

\* Until a live lock is unlinked updateTask is an atomic update of the record that
\* reports truthfully what it did, crashes included (task-store.mjs:235-307).
THEOREM UpdateLockAtomic == Spec => AtomicStore
  <1>1. Init => LockInv /\ PendingInv
    BY DEF Init, LockInv, PendingInv, Holds, Holding
  <1>2. TypeOK /\ LockInv /\ [Next]_vars => LockInv'
    BY LockStep
  <1>3. TypeOK /\ PendingInv /\ [Next]_vars => PendingInv'
    BY PendingStep
  <1>4. TypeOK /\ LockInv /\ PendingInv /\ [Next]_vars
          => [stolen \/ Store!StoreNext]_Store!storeVars
    BY StepImplements
  <1> QED BY <1>1, <1>2, <1>3, <1>4, InitImplements, UpdateLockType, PTL
         DEF Spec, AtomicStore

\* Where processes do not overlap that is all there is: the lock protocol implements the
\* atomic record store (task-store.mjs:171-195, 235-307).
THEOREM UpdateLockIsStore ==
  ASSUME ~Overlap
  PROVE  Spec => Store!StoreSpec
  <1>1. NoTheft => ~stolen
    BY DEF NoTheft
  <1>2. ~stolen /\ [stolen \/ Store!StoreNext]_Store!storeVars
          => [Store!StoreNext]_Store!storeVars
    OBVIOUS
  <1> QED BY <1>1, <1>2, UpdateLockNoTheft, UpdateLockAtomic, PTL
         DEF AtomicStore, Store!StoreSpec
=============================================================================
