----------------------------- MODULE UpdateLock -----------------------------
(***************************************************************************)
(* updateTask of task-store.mjs: how several processes (the supervisor,    *)
(* the task's worker, a later supervisor) change one task record.          *)
(*                                                                         *)
(* Inside a process a promise tail per record makes the updates of that    *)
(* process take turns.  Between processes a lock file does: it is created  *)
(* exclusively, its creator then writes its pid, start ticks and a nonce   *)
(* into it, and it is unlinked when the update is over.  A process that    *)
(* finds the file reads it and unlinks it when its owner looks dead.       *)
(*                                                                         *)
(* Every await of the code is a point where the others may run, so every   *)
(* file operation is an action of its own.  A process may die anywhere.    *)
(***************************************************************************)
EXTENDS TaskStatus, Naturals, Sequences

CONSTANTS
  Processes,     \* processes that may ever open the task store
  Updates,       \* calls of updateTask; each has its own lock nonce
  Requests,      \* the changes the callers ask for, a subset of Changes
  NoLock,        \* there is no lock file
  NoProcess,     \* the update was not called yet
  MaxAttempts,   \* attempts of acquireUpdateLock: 200 in the code
  Overlap,       \* may two processes be alive at the same time?
  SlowOwner      \* may a live owner take UPDATE_LOCK_STALE_MS to write its lock file?

ASSUME UpdateLockAssumption ==
  /\ NoProcess \notin Processes
  /\ NoLock \notin [nonce : Updates, written : BOOLEAN, old : BOOLEAN]
  /\ Requests \subseteq Changes
  /\ MaxAttempts \in Nat \ {0}
  /\ Overlap \in BOOLEAN
  /\ SlowOwner \in BOOLEAN

VARIABLES
  record,        \* the record file
  lock,          \* the lock file
  proc,          \* state of each process
  tail,          \* LOCAL_UPDATE_TAILS of each process: updates waiting, head running
  host,          \* the process that called the update
  change,        \* what the update asks for
  pc,            \* where the update is in the code
  attempt,       \* loop counter of acquireUpdateLock
  snapshot,      \* the record the update read under the lock
  result,        \* how the update ended
  stolen         \* history: the lock file of a running update was unlinked by another

vars == <<record, lock, proc, tail, host, change, pc, attempt, snapshot, result, stolen>>

Store == INSTANCE RecordStore

Locks == [nonce : Updates, written : BOOLEAN, old : BOOLEAN]

PCs == {"idle", "queued", "open", "judge", "break", "sleep", "own", "read", "write",
        "release", "unlink", "done", "crashed"}

\* The update has the lock as far as it can tell.
Holding == {"own", "read", "write", "release", "unlink"}
Holds(u) == pc[u] \in Holding
\* The update has the turn of its process.
Running(u) == Holds(u) \/ pc[u] \in {"open", "judge", "break", "sleep"}
\* The part in which it relies on nobody else changing the record.
Critical(u) == pc[u] \in {"read", "write"}

\* What a reader of the lock file finds in it.
OwnLock(u) == lock # NoLock /\ lock.nonce = u
LockEmpty == lock # NoLock /\ ~lock.written

Init ==
  /\ record \in {[status |-> s, fields |-> {}] : s \in Active}
  /\ lock = NoLock
  /\ proc = [p \in Processes |-> "unborn"]
  /\ tail = [p \in Processes |-> << >>]
  /\ host = [u \in Updates |-> NoProcess]
  /\ change = [u \in Updates |-> KeepStatus]
  /\ pc = [u \in Updates |-> "idle"]
  /\ attempt = [u \in Updates |-> 0]
  /\ snapshot = [u \in Updates |-> record]
  /\ result = [u \in Updates |-> "pending"]
  /\ stolen = FALSE

------------------------------------------------------------------------------
\* Removing the lock file by its path, whoever it belongs to by now.
Unlink(u) ==
  /\ lock' = NoLock
  /\ stolen' = (stolen \/ (lock # NoLock /\ lock.nonce # u /\ Holds(lock.nonce)))

\* Variant for mutation: the turn is never passed on.
ReturnKeepingTurn(u, outcome) ==
  /\ pc' = [pc EXCEPT ![u] = "done"]
  /\ result' = [result EXCEPT ![u] = outcome]
  /\ UNCHANGED tail

\* updateTask settles: the next update of the process gets its turn.
Return(u, outcome) ==
  /\ pc' = [pc EXCEPT ![u] = "done"]
  /\ result' = [result EXCEPT ![u] = outcome]
  /\ tail' = [tail EXCEPT ![host[u]] = Tail(@)]

Goto(u, label) ==
  /\ pc' = [pc EXCEPT ![u] = label]
  /\ UNCHANGED <<result, tail>>

StartProcess(p) ==
  /\ proc[p] = "unborn"
  /\ Overlap \/ \A q \in Processes : proc[q] # "live"
  /\ proc' = [proc EXCEPT ![p] = "live"]
  /\ UNCHANGED <<record, lock, tail, host, change, pc, attempt, snapshot, result, stolen>>

\* The process dies between any two steps: its files stay as they are.
Crash(p) ==
  /\ proc[p] = "live"
  /\ proc' = [proc EXCEPT ![p] = "dead"]
  /\ tail' = [tail EXCEPT ![p] = << >>]
  /\ pc' = [u \in Updates |->
              IF host[u] = p /\ pc[u] # "done" THEN "crashed" ELSE pc[u]]
  /\ UNCHANGED <<record, lock, host, change, attempt, snapshot, result, stolen>>

\* updateTask(root, id, changes): append to the promise tail of the process.
Call(p, u, c) ==
  /\ proc[p] = "live"
  /\ pc[u] = "idle"
  /\ pc' = [pc EXCEPT ![u] = "queued"]
  /\ host' = [host EXCEPT ![u] = p]
  /\ change' = [change EXCEPT ![u] = c]
  /\ tail' = [tail EXCEPT ![p] = Append(@, u)]
  /\ UNCHANGED <<record, lock, proc, attempt, snapshot, result, stolen>>

\* await previousLocal
Turn(u) ==
  /\ pc[u] = "queued"
  /\ tail[host[u]] # << >>
  /\ u = Head(tail[host[u]])
  /\ Goto(u, "open")
  /\ UNCHANGED <<record, lock, proc, host, change, attempt, snapshot, stolen>>

------------------------------------------------------------------------------
\* open(lockFile, 'wx') succeeds: the file exists and is still empty.
CreateLock(u) ==
  /\ pc[u] = "open"
  /\ lock = NoLock
  /\ lock' = [nonce |-> u, written |-> FALSE, old |-> FALSE]
  /\ Goto(u, "own")
  /\ UNCHANGED <<record, proc, host, change, attempt, snapshot, stolen>>

\* open fails with EEXIST.
LockExists(u) ==
  /\ pc[u] = "open"
  /\ lock # NoLock
  /\ Goto(u, "judge")
  /\ UNCHANGED <<record, lock, proc, host, change, attempt, snapshot, stolen>>

\* The owner goes into the file behind the handle: if the path was unlinked in the
\* meantime this writes to a file nobody else sees.
WriteOwner(u) ==
  /\ pc[u] = "own"
  /\ lock' = IF OwnLock(u)
             THEN [lock EXCEPT !.written = TRUE, !.old = FALSE] ELSE lock
  /\ Goto(u, "read")
  /\ UNCHANGED <<record, proc, host, change, attempt, snapshot, stolen>>

\* Writing or syncing the owner fails: unlink the path and rethrow.
WriteOwnerFails(u) ==
  /\ pc[u] = "own"
  /\ Unlink(u)
  /\ Return(u, "failed")
  /\ UNCHANGED <<record, proc, host, change, attempt, snapshot>>

\* An empty lock file reaches UPDATE_LOCK_STALE_MS.  A written one never has to:
\* its owner is looked up by pid and start ticks.
LockAges ==
  /\ LockEmpty
  /\ ~lock.old
  /\ SlowOwner \/ pc[lock.nonce] = "crashed"
  /\ lock' = [lock EXCEPT !.old = TRUE]
  /\ UNCHANGED <<record, proc, tail, host, change, pc, attempt, snapshot, result, stolen>>

\* liveLockOwner.  A file that is gone by now counts as having no live owner.
LiveLockOwner ==
  /\ lock # NoLock
  /\ IF lock.written THEN proc[host[lock.nonce]] = "live" ELSE ~lock.old

Judge(u) ==
  /\ pc[u] = "judge"
  /\ \/ ~LiveLockOwner /\ Goto(u, "break")
     \/ LiveLockOwner /\ attempt[u] < MaxAttempts - 1 /\ Goto(u, "sleep")
     \/ LiveLockOwner /\ attempt[u] = MaxAttempts - 1 /\ Return(u, "failed")
  /\ UNCHANGED <<record, lock, proc, host, change, attempt, snapshot, stolen>>

\* Next iteration of the loop, or task_update_busy after the last one.
Retry(u) ==
  /\ attempt' = [attempt EXCEPT ![u] = @ + 1]
  /\ IF attempt[u] + 1 < MaxAttempts THEN Goto(u, "open") ELSE Return(u, "failed")

\* unlink(lockFile) with ENOENT ignored, then continue.
BreakLock(u) ==
  /\ pc[u] = "break"
  /\ Unlink(u)
  /\ Retry(u)
  /\ UNCHANGED <<record, proc, host, change, snapshot>>

Wake(u) ==
  /\ pc[u] = "sleep"
  /\ Retry(u)
  /\ UNCHANGED <<record, lock, proc, host, change, snapshot, stolen>>

------------------------------------------------------------------------------
\* Variant for mutation: the record read before the lock was taken is used.
ReadRecordCached(u) ==
  /\ pc[u] = "read"
  /\ Goto(u, "write")
  /\ UNCHANGED <<record, lock, proc, host, change, attempt, snapshot, stolen>>

ReadRecord(u) ==
  /\ pc[u] = "read"
  /\ snapshot' = [snapshot EXCEPT ![u] = record]
  /\ Goto(u, "write")
  /\ UNCHANGED <<record, lock, proc, host, change, attempt, stolen>>

\* Variant for mutation: the status guard is missing.
WriteRecordUnguarded(u) ==
  /\ pc[u] = "write"
  /\ record' = Store!Merge(snapshot[u], u, change[u])
  /\ result' = [result EXCEPT ![u] = "written"]
  /\ pc' = [pc EXCEPT ![u] = "release"]
  /\ UNCHANGED <<lock, proc, tail, host, change, attempt, snapshot, stolen>>

\* The guard passes and the merged record is renamed over the old one.
WriteRecord(u) ==
  /\ pc[u] = "write"
  /\ Accepts(snapshot[u].status, change[u])
  /\ record' = Store!Merge(snapshot[u], u, change[u])
  /\ result' = [result EXCEPT ![u] = "written"]
  /\ pc' = [pc EXCEPT ![u] = "release"]
  /\ UNCHANGED <<lock, proc, tail, host, change, attempt, snapshot, stolen>>

\* The guard refuses and the update returns the record it read.
IgnoreUpdate(u) ==
  /\ pc[u] = "write"
  /\ ~Accepts(snapshot[u].status, change[u])
  /\ result' = [result EXCEPT ![u] = "ignored"]
  /\ pc' = [pc EXCEPT ![u] = "release"]
  /\ UNCHANGED <<record, lock, proc, tail, host, change, attempt, snapshot, stolen>>

\* The record cannot be read, the updater throws or the write fails.
UpdateThrows(u) ==
  /\ pc[u] \in {"read", "write"}
  /\ result' = [result EXCEPT ![u] = "failed"]
  /\ pc' = [pc EXCEPT ![u] = "release"]
  /\ UNCHANGED <<record, lock, proc, tail, host, change, attempt, snapshot, stolen>>

\* The finally block reads the lock file: with the update's own nonce it goes on to
\* unlink it, a missing file or a foreign nonce is left alone, and a foreign file
\* that is still empty makes JSON.parse throw, which replaces the update's outcome.
ReadOwnLock(u) ==
  /\ pc[u] = "release"
  /\ \/ OwnLock(u) /\ Goto(u, "unlink")
     \/ ~OwnLock(u) /\ ~LockEmpty /\ Return(u, result[u])
     \/ ~OwnLock(u) /\ LockEmpty /\ Return(u, "failed")
  /\ UNCHANGED <<record, lock, proc, host, change, attempt, snapshot, stolen>>

ReleaseLock(u) ==
  /\ pc[u] = "unlink"
  /\ Unlink(u)
  /\ Return(u, result[u])
  /\ UNCHANGED <<record, proc, host, change, attempt, snapshot>>

Step(u) ==
  \/ Turn(u) \/ CreateLock(u) \/ LockExists(u) \/ WriteOwner(u) \/ WriteOwnerFails(u)
  \/ Judge(u) \/ BreakLock(u) \/ Wake(u) \/ ReadRecord(u) \/ WriteRecord(u)
  \/ IgnoreUpdate(u) \/ UpdateThrows(u) \/ ReadOwnLock(u) \/ ReleaseLock(u)

Next ==
  \/ \E p \in Processes : StartProcess(p) \/ Crash(p)
  \/ \E p \in Processes, u \in Updates, c \in Requests : Call(p, u, c)
  \/ \E u \in Updates : Step(u)
  \/ LockAges

Spec == Init /\ [][Next]_vars

\* A live process runs its promises and timers, and time passes.
Fairness == WF_vars(LockAges) /\ \A u \in Updates : WF_vars(Step(u))

FairSpec == Spec /\ Fairness

------------------------------------------------------------------------------
TypeOK ==
  /\ record \in Store!Records
  /\ lock \in Locks \cup {NoLock}
  /\ proc \in [Processes -> {"unborn", "live", "dead"}]
  /\ tail \in [Processes -> Seq(Updates)]
  /\ host \in [Updates -> Processes \cup {NoProcess}]
  /\ change \in [Updates -> Changes]
  /\ pc \in [Updates -> PCs]
  /\ attempt \in [Updates -> 0..MaxAttempts]
  /\ snapshot \in [Updates -> Store!Records]
  /\ result \in [Updates -> Store!Results]
  /\ stolen \in BOOLEAN

\* updateTask (task-store.mjs:235-307): two updates are never both between reading
\* and writing the record, unless some running update had its lock file unlinked.
MutualExclusion ==
  ~stolen => \A u, v \in Updates : Critical(u) /\ Critical(v) => u = v

\* The lock file exists for as long as its owner is in the critical section.
LockHeld ==
  ~stolen => \A u \in Updates :
               Holds(u) => OwnLock(u)

\* An update that reported success stays merged in the record: nobody overwrites
\* it with a record read before it (task-store.mjs:277-297).
NoLostUpdate ==
  ~stolen => \A u \in Updates : result[u] = "written" => u \in record.fields

\* With one process alive at a time the recovery of a dead owner's lock file never
\* hits the file of a running update (task-store.mjs:171-195, 220-225).
NoTheft == ~Overlap => ~stolen

\* What the callers rely on: until a live lock file is unlinked, every step of the lock
\* protocol is one of the atomic record store, or leaves record and outcomes alone
\* (task-store.mjs:235-307).
AtomicStore == Store!StoreInit /\ [][stolen \/ Store!StoreNext]_Store!storeVars

\* "concurrent updates serialize and terminal cancellation wins"
\* (v3-task-store.test.mjs:106): a stored cancellation is never undone.
TerminalCancellationWins ==
  [][record.status = "cancelled" => record'.status = "cancelled"]_vars

\* Every update of a process that stays alive settles: no wait for a lock file, fresh
\* or left behind, outlasts the attempts of acquireUpdateLock.
EveryUpdateReturns ==
  \A u \in Updates : pc[u] = "queued" ~> pc[u] \in {"done", "crashed"}
=============================================================================
