# Codex Co-Engineer: specifications

TLA+ models of the task and run machinery of `plugins/codex-co-engineer/mcp/v3` and of the
submission ledger of `plugins/cursor-cloud-control`, with TLC configurations that check
them on small instances and TLAPS proofs for all instances. Paths below are relative to
the first directory unless they start with `docs/` or `plugins/`; `ledger.mjs` and
`client.mjs` are in `plugins/cursor-cloud-control/mcp`.

1. [The system](#the-system)
2. [The modules](#the-modules)
3. [The runs](#the-runs)
4. [The proofs](#the-proofs)
5. [Where the code and its documents differ](#where-the-code-and-its-documents-differ)
6. [Not modelled, and the plan](#not-modelled-and-the-plan)

`PROJECT.json` lists components, runs, mutants, hazards and theorems, and maps every
definition that models code to its lines. Run TLC in this directory, for example
`tlc -config RunSubmit.cfg MCRunCoordination`, and `tlapm UpdateLockProofs.tla`.

## The system

Codex calls a local MCP server. The server starts coding agents as *tasks*, each in a
process of its own inside a systemd unit, and groups them into *runs* of one to eight
*lanes*. Nothing is kept in a database: all shared state is files below one state root,
and any number of servers, workers and later servers work on them at the same time.

### Core components

| component | state it keeps | operations | hard behaviour | correct when |
|---|---|---|---|---|
| **task record** (`task-store.mjs`, `contract.mjs`) | `task.json`, its `.lock` file, a promise tail per process, `events.jsonl` | `createTask`, `readTask`, `updateTask`, `appendTaskEvent` | processes race for a lock file that is created empty and filled later; owners die with it | updates are atomic, none is lost, a terminal status stays, every update settles |
| **supervision** (`supervisor.mjs`) | runtime record, cleanup verdict and reservation in the task record, a managed worktree with a writer lock | `submitTask`/`launchWorker`, `cancelTask`, `taskStatus` with `reconcileInactiveTask`, `settleLocalTaskLifecycle` | cancel and status calls overlap with the launch, the worker and each other; every inspection may fail | the prompt is sent at most once; a final answer means that no process is left; every task ends |
| **worker** (`acp-worker.mjs`) | none beyond the task record | `runAcpTask`, command-line fallback, `persistWorkerTerminal` | it may die or hang between any two writes | at most one prompt over agent and fallback |
| **process boundary** (`process-boundary.mjs`) | the systemd unit | launch, stop, inspect | answers may be unknown | "empty" is never guessed |
| **mailbox** (`mailbox.mjs`) | pending and accepted reply files, `attention.json` | `recordNeedsAttention`, `submitReply`, `consumeReply`, `waitForReply` | file creation, watch events and crashes in between | one reply per question, delivered once |
| **waiting** (`task-store.mjs:600` on) | watcher, timers, one-slot notification | `waitForTaskProgress`, `waitForAnyTaskProgress` | notifications before, between and after reads, reads that fail | no wake-up is slept through |
| **run coordination** (`run-runtime.mjs`, `run-scheduler.mjs`, `run-tool-adapter.mjs`) | per server: queue per run, recovered record, scheduler lanes; shared: scheduler plan | `submitRun`, `resumeRun`, `cancelRun`, `inspectRun` | two servers with the same run; memory older than the files; crash between store, plan, dispatch and facts | one dispatch per lane; the journal says what the tasks did; the run ends |
| **run store** (`run-store.mjs`) | record and key files, linked from temporaries | `submit`, `getByRunId` | publication without a lock | one record per run and key, `created` told once |
| **run journal** (`run-journal.mjs`, `run-reducer.mjs`) | a journal file of chained entries, a cache of its state, a creation stamp, a lock file | `create`, `open`, `append` | a holder dies, is slow or cannot remove its lock, two break it, a step of an append fails, an append is retried | an append-only history in the reducer's order |
| **run admission** (`run-admission*.mjs`) | one admission record per run, a copy of it in every server, correction reservations | `submitRunRequest`, consent, preparation, dispatch, `inspectRun`/`resumeRun`/`waitRun`, `replyRun`, `cancelRun` | copies that are never loaded again, saves without comparing, evidence that comes late or never | no lane is sent twice or without consent; an end is true, final and reached |
| **aggregate anchor** (`aggregate-run-anchor.mjs`), **attention batch** (`attention-batch.mjs`) | coordination phases; one latched batch of questions | compare-and-set; latch, reply | concurrent writers | phases only advance; one reply set per batch |
| **cloud ledger** (`plugins/cursor-cloud-control`) | `submissions.json` behind a lock directory, and per server the submissions it works on | `begin`, `complete`, `fail`, `uncertain`, `lookup` around a request to the provider | the answer is lost or unreadable, the server dies in between, the file is full, locks of dead servers | one accepted request per id; nothing stays in progress for a dead server |

The other components (drivers, responses, artifacts, candidate composition, git checks,
policy, manifests, usage, worktree wrappers, credentials, scripts) translate, validate or
wrap other programs. They are listed in `PROJECT.json` with the reason they are left out.

### How they interact

* A run's lanes become tasks through three injected functions (`supervisor.mjs:2909-2969`):
  delegate, inspect, cancel. The run side sees a task only through their answers.
* Supervisor, worker and later supervisors share the task record, and change it with
  `updateTask` only. A terminal status refuses every later change of status.
* The worker is only started by its unit, and waits for the runtime record, in which the
  supervisor registers the unit, before it does anything (`acp-worker.mjs:847`).
* Servers on the same root share the submission record, the plan and the journal of a run;
  what they keep in memory (record, lanes) is not refreshed from there.
* A worker and the clients of its task meet in the mailbox directory and in the task record;
  a client that waits watches the task's directory.
* The cloud plug-in is a server of its own. It shares nothing with the others but the idea
  of reserving a submission on disk before the provider is asked.

## The modules

| module | models | lines |
|---|---|---|
| `TaskStatus` | the statuses of a task and which changes `updateTask` accepts | `contract.mjs:16-36`, `task-store.mjs:282-295` |
| `RecordStore` | the *abstract* task record: every update takes effect at one instant | what `updateTask` promises |
| `UpdateLock` | the lock protocol of `updateTask`, one action per file operation | `task-store.mjs:117-307` |
| `UpdateLockProofs` | theorems about `UpdateLock`, among them that it implements `RecordStore` | |
| `TaskLifecycle` | one task: launch, worker, any number of cancel and status calls, unit, writer lock | `supervisor.mjs`, `acp-worker.mjs`, `process-boundary.mjs` |
| `TaskLifecycleProofs` | theorems about `TaskLifecycle` | |
| `RunCoordination` | one run: any number of servers, its lanes, plan and journal | `run-runtime.mjs`, `run-scheduler.mjs`, `run-tool-adapter.mjs`, `run-reducer.mjs` |
| `RunCoordinationProofs` | theorems about `RunCoordination` | |
| `JournalEvents` | the events of a run journal and which order the reducer takes | `run-reducer.mjs:291-392`, `run-runtime.mjs:1210-1273` |
| `EventLog` | the *abstract* journal: one append-only log with an entry per key | what `append` promises |
| `RunJournal` | directory, stamp, lock file, journal and cache, one action per file operation | `run-journal.mjs:1296-2293` |
| `RunJournalProofs` | theorems about `RunJournal`, among them that it implements `EventLog` | |
| `SubmissionTable` | the *abstract* run store: a table with one entry per run and key | what `submit` and `getByRunId` promise |
| `RunStore` | audit and publication by temporaries and links, one action per file operation | `run-store.mjs:484-864` |
| `RunStoreProofs` | theorems about `RunStore`, among them that it implements `SubmissionTable` | |
| `Mailbox` | questions of a worker, replies of its clients, watchers and waits | `mailbox.mjs:79-349` |
| `TaskWait` | a client that waits for one or more tasks | `task-store.mjs:567-1237` |
| `WaitingProofs` | theorems about `Mailbox` and about `TaskWait` | |
| `RunAdmission` | the other path of a run: its admission record, from request and consent to its end | `run-admission.mjs:640-2136`, `supervisor.mjs` |
| `RunAdmissionProofs` | theorems about `RunAdmission` | |
| `CloudLedger` | cloud submissions: ledger file, lock directory, provider, servers that die | `ledger.mjs`, `plugins/cursor-cloud-control/mcp/server.mjs` |
| `CloudLedgerProofs` | theorems about `CloudLedger` | |
| `MC...` | the sets, requests and symmetries of the TLC instances | |

The modules stack. `UpdateLock` shows when one `updateTask` may be taken as one step, which
`TaskLifecycle`, `Mailbox` and `TaskWait` do. `TaskLifecycle` shows what the supervisor's
answers about a task are worth, `RunCoordination` sees a task only as those answers.
`RunStore` and `RunJournal` show when accepting a submission and appending an entry may be
taken as one step each, as `RunCoordination` takes them: `SubmissionTable` and `EventLog` say what
such a step may answer. `RunAdmission` is the path of a run that `supervisor.mjs` wires beside
`RunCoordination`; it too sees a task only as the supervisor's answers. `CloudLedger` stands alone.

In all of them an `await` on a file, a process or another component ends an action, code
between two awaits is one action, and the values a call has read stay in its own state and
may be out of date when it uses them. Definitions called "Variant for mutation" are not
part of the specifications: each is the plausible bug that one property must catch.

### UpdateLock

| variable | in the code |
|---|---|
| `record` | `task.json`: status and the set of updates merged into it |
| `lock` | the lock file: whose nonce, whether the owner is written yet, whether it is older than `UPDATE_LOCK_STALE_MS` |
| `tail` | `LOCAL_UPDATE_TAILS` of a process |
| `pc`, `attempt`, `snapshot`, `result` | where a call is, the loop counter of `acquireUpdateLock`, the record it read, how it ended |
| `proc`, `host`, `change` | processes, and who asked for what |
| `stolen` | history: a lock file was unlinked while its owner was running |

`Call`, `Turn` queue within a process; `CreateLock`, `WriteOwner`, `LockExists`, `Judge`,
`BreakLock`, `Wake` are `acquireUpdateLock`, `ReadRecord`, `WriteRecord`, `IgnoreUpdate`,
`UpdateThrows` the update, `ReadOwnLock`, `ReleaseLock` the `finally` block. `Crash` kills a
process anywhere and leaves its files. Reading the lock file (`LiveLockOwner`) answers
what the code answers, for a missing file too. Process identity is exact: a pid with
start ticks is not reused.

### TaskLifecycle

| variable | in the code |
|---|---|
| `task` | the record: status, launch reservation, cleanup verdict, recovery attempt, prompt intent, dispatch mark, recovery copy of the runtime, deadline |
| `runtime`, `unit`, `signalled` | `runtime.json`, the systemd unit, and that it was told to stop |
| `lock` | the writer lock of the managed worktree |
| `launch`, `worker`, `call` | where submitTask, the worker and each cancel or status call are, with what they have read |
| `now` | the clock against which `deadline_at` is compared; `task.deadline`, the timer of the worker's watch and what a call has read of a deadline are times of it |
| `crashed`, `prompts` | the supervisor died; history of prompts |

Each action is named for its actor (`Launch...`, `Worker...`, `Cancel...`, `Poll...`,
`Settle...`). Abstractions: one `updateTask` is one step; the task is a local one in a
managed worktree with a writer; the two reconcile passes of one `taskStatus` are two polls;
the slots in `Calls` are reused, so they bound how many calls overlap and not how many
there are; the text of results, events and questions is left out. Durations and their margin are not
resolved: an extension asks for any later time. The reads of the watch (`startDeadlineWatch`) may
come back in any order, each sets the timer anew; a read that throws is left out. Inspections,
stops, snapshots and the lock tool may fail whenever `Reliable` is false. Whether WTB calls the owner of a
lock abandoned is nobody's promise: `CleanAbandonedLock` frees the lock or leaves it, whatever the owner does.

### RunCoordination

| variable | in the code |
|---|---|
| `store` | the submission record of the run exists |
| `plan` | the scheduler plan: saved, and which lanes it calls dispatched |
| `journal` | made, opened, lanes started, outcome per lane, outcome of the run |
| `task` | the task of each lane as inspect and cancel show it |
| `server[s]` | the queue of the run (`pc`, `op`), the recovered record (`record`, "bare" when it has no assignments), whether the scheduler knows the run (`known`), its lanes, and the sets a call still has to work off |
| `crashes`, `delegated`, `answered` | bound on deaths; history |

`Begin` to `Crash` are the calls, recovery, store and journal; `Plan` to `Cancel` the durable
scheduler of the adapter; `InspectLane` to `LanesDone` the in-memory scheduler and the lanes
that are reconstructed from the plan; `StartChild` to `RunEnd` the journal entries. The
lanes of a call run concurrently in any order, as `Promise.all` lets them; where the code
goes lane after lane the model allows every order of lanes, which is more.

Abstractions: accepting a submission and appending a journal entry are one step each
(`RunStore` and `RunJournal` justify it); a journal state that is out of date makes
an append fail and nothing else, which `CallFails` covers; `failed` stands for `timeout`
and `environment_blocked`; only one submission body exists, a conflicting one appears as
the failure `StoreFails` allows; no aggregate anchor, attention batch, usage or artifacts.
The injected lifecycle is a constant, `SettlesFinal`: the one the live wiring injects
(`supervisor.mjs:2981`) is called without the task's root and status and never answers
final, so that a live run of this path has no outcomes in its journal. This module
models what the runtime does with a lifecycle that works, as its tests inject it.

### RunJournal

| variable | in the code |
|---|---|
| `dir` | the directory of the run: missing, made, or with its creation stamp |
| `journal`, `cache` | the journal file as a sequence of events, and the entries that the cached state file reduces |
| `lock` | the lock file: whose it is, and whether it is older than `RUN_JOURNAL_LOCK_MAX_AGE_MS` |
| `pc`, `request`, `seen`, `steals`, `snap`, `result` | where a call is, its event, the lock it found, the locks it broke, the journal it read, what its caller is told |
| `dead`, `left`, `stolen` | processes that died; history: calls that ended and left their lock file, and that the lock of a live call was unlinked by another |

`Create`, `Stamp` make a journal; `Enter` is the queue of a process; `Link` to `Steal` are
`acquireRunLock`, `Audit` the reading and judging of an append, `Publish` to `RereadCache` its
two renames with their rereads, `Check` and `Unlink` the release. `TimesOut` is the deadline of the wait. Any
file operation may throw: `StepFails` is one under the lock, `GivesUp` one of a call that waits, `RecheckFails` one that
the code takes for a lock that is gone; a call that cannot read its own lock file back after the link or
before the unlink, or cannot unlink it, ends and leaves it (`Abandons`, in `Verify`, `Check` and `Unlink`). An age that
cannot be read counts as none (`Waits`). Sequence number and hash chain of an entry are its position in the sequence, so
what verifies them is what compares prefixes. Abstractions: the order in which a client may
ask for events is any; a failed link that finds no lock tries again, which changes nothing;
pids and inodes are not reused; `expected_seq` is not modelled (no caller in the repository
passes it); aggregate bindings, the size limits, and the healing of a torn tail, which a
file replaced by a rename does not get, are left out. Whether a holder may be slower than
30 s is the constant `SlowHolder`.

### RunStore

| variable | in the code |
|---|---|
| `records`, `keys` | the record file of a run, the pointer file of a key: who published it |
| `temps` | temporary names that still exist, which also says whether a file has one link or two |
| `wanted`, `pc`, `owner`, `answer` | what a call submits or looks up, where it is, whose record it reads, what it is told |
| `dead` | processes that died |

`Begin` is the chain per process, `Audit` and `LookUp` the audit with what is decided from it,
the rest is `publishRecord`, step by step; `Fails` and `FailsAtOnce` are file operations that throw.
The audit is one step: published files do not change, and a directory that changes under it
in any other way makes it fail. Three consequences of the code are visible in the model and are
no violation of what is promised. A death, or a failed link, between pointer and record leaves a
directory every later operation refuses. A submission that loses its run takes its pointer back, and an error
of that unlink is swallowed (`UnlinkKey`): the pointer stays, refuses whoever is past its audit and uses the key for a run
of its own, and makes every later audit fail. `SubmissionTable` says of such a key that it is `stuck` (mapped by `Stuck`), and `Refuse` needs a submission
in the table that is in the way, or a stuck key. And whose submission was accepted may still be told that it failed.

### Mailbox

| variable | in the code |
|---|---|
| `status`, `revision`, `shown` | the task record: status, revision, attention |
| `attention`, `draft` | `attention.json` and its temporary file |
| `pending`, `written`, `accepted` | per question the reply file, whether it has its contents, the accepted file |
| `pc`, `round`, `events`, `broken`, `due`, `outcome` | each handler of the worker: where it is, which look, watcher events under way, watcher errors, deadline or abort, result |
| `rpc`, `alive` | each `submitReply`; the worker |

`Ask` to `Show` are `recordNeedsAttention`, `Look` to `Unlink` are `consumeReply` inside `waitForReply`,
`Deliver`, `WatchError`, `Poll`, `FallsDue`, `GiveUp` its wake-ups, `ReadStatus` to `Write` are
`submitReply`, `EndTask` is everybody else who ends the task. Abstractions: question ids are
unique, an update of the task is one step, the check for an accepted file is part of the look
(only the handler of a question makes one), and what a reply says is left out. `rpc` says "recorded" when the
reply file is written; that `submitReply` may still throw after it (`mailbox.mjs:217-222`), so that a client does not
hear of it, changes no file and is left out. `Overlap` says
whether a provider may ask while another question is open; the run has it false, see
[below](#where-the-code-and-its-documents-differ).

### TaskWait

| variable | in the code |
|---|---|
| `files`, `changes` | each task: status, revision, what its log got, and text in it; how often it changed |
| `until`, `cursors`, `wakes` | what the caller asked for: progress or the end, from a cursor or not, and `wake_on_needs_attention` |
| `phase`, `unread`, `first`, `seen`, `held` | the rounds of reading, what was read first and last, and text held back for more |
| `armed`, `stirred`, `errors` | watchers, their events under way, their errors |
| `gate`, `woken`, `again`, `failed`, `overdue`, `reason` | the one slot of the gate, what ended the last sleep, rewatch attempts, polling, deadline, result |

`Read` takes one task at a time, its record and its log in one step, and may fail: then `seen` is `Unread`, with the
code's `task_not_found`, which is a reason to return, or `task_unavailable`, which is none. `Arm`, `Settles`,
`GoesOn`, `TimesOut`, `Returns`, `Raises` judge a round; `Attach` sets up the watchers of the targets that could be
read, and passes over the others. Time is what timers have run out. Left out: the abort by a client, the
silence watchdog and the deadline of a task, which wake the waiter as its own deadline does, corrupt and overlong
logs, and a cursor that does not fit its log, which is a task that cannot be read. `waitForTaskProgress` waits
for one task with a loop of its own, in which a read that fails ends the call; it is not modelled.

### CloudLedger

| variable | in the code |
|---|---|
| `file`, `aged` | the record of each request in `submissions.json`, and whether it is five minutes old |
| `lock` | the lock directory: made, whose owner file, older than a second |
| `owners` | `activeSubmissionOwners` of each server |
| `pc`, `op`, `want`, `mem`, `outcome` | each tool call: where, in which operation on the ledger, for which request, the records it read, what came of it |
| `dead`, `faults` | servers that died, file operations that failed |
| `receipts`, `accepted`, `garbled`, `forgotten`, `stolen` | history: what callers and provider know, and the three ways out of the promise |

`Submit` and `Status` begin a call; `Enter` to `BreakDir` are queue and lock; `Load`, `Recover` are
the reading with `recoverPending`; `Begin`, `Finish`, `Lookup` the operations; `Release` to `RemoveDir`
the release; `Answer` is the provider with `isAmbiguous`; `Ended` goes from one operation to the
next as `agents` and `runs` do. `Drop` is a write of another request that pushes a record out of a
full file (`MAX_RECORDS`). The data of requests is left out, as are failures while the
lock directory is made, which remove it again.

### RunAdmission

| variable | in the code |
|---|---|
| `disk`, `mem` | the saved record, and the copy of each server: phase, cancel request and its confirmation, questions, and per lane phase, dispatch confidence and recovery class |
| `job` | the call a server is in for the run: where it is, which lanes it has still to do, whether the copy has changed |
| `made` | worktrees that exist |
| `task` | the task of each lane: status, whether the prompt was meant to be sent and is known to be |
| `granted`, `calls`, `solo`, `faults` | history: consent, calls of `submitTask`, whether there was ever more than one copy; bound on faults |

`Submit` to `Approve` are `submitRunRequest`, `requestConsent` and the consent part of `replyRun`;
`AdmitRun` to `Prepared` are `admit`, with all worktrees at once; `Begin` to `WrapUp` are `dispatch`, lane
after lane; `Inspect` to `ReconcileUnchanged` are `reconcile` with each answer of `inspectLane`; `Reply`
is an attention reply, `Cancel` to `CancelEnd` are `cancelRun`. Every place at which a record is
saved is a step with two outcomes, for a save may fail after the copy has changed. `TaskPrompts`
to `TaskEnds` are the tasks, as far as the answers show them.

Abstractions: lanes are local, with a worktree each; a task that its environment blocked is a kind of
`failed`; a session that hangs before its prompt does not ask. Left out: lanes in the cloud,
capabilities approved in advance, corrections and their reservations, the invalid workspace
identity, hand-off, telemetry, revision counters, and a cancel that arrives inside a dispatch by way of
another copy of the call's own server: a server in the model is whoever holds a copy.

## The runs

Twelve runs. Eleven must pass; `lock_lost` must find a violation, which is described
[below](#where-the-code-and-its-documents-differ).

| run | question | instance | distinct states |
|---|---|---|---|
| `lock` | is `updateTask` the abstract record until a live lock is broken, and does every update return? | 2 processes alive together, 2 updates, 3 attempts, slow owners, crashes | 1.1 million |
| `lock_lost` | *violation* `TerminalCancellationWins` | 2 processes, 3 updates, nobody slow | |
| `lifecycle_launch` | one dispatch, settled means stopped, and no writer lock taken without proof by who knows the unit, when everything fails | 1 call at a time (any number in a row), from before the launch, failing inspections, supervisor dies, an extension | 6.2 million |
| `lifecycle_live` | does polling settle, does every task end by its deadline, and is every final answer true? | 2 calls at once after the launch, inspections that work, a worker that may hang, an extension | 487 000 |
| `run_submit` | one delegation per lane; journal and scheduler truthful | 2 servers, 1 lane, failing calls, disturbed tasks, 1 crash | 1.8 million |
| `run_settle` | does the run end when a client keeps resuming? | 1 server, a required and an optional lane, cancels in between | 19 000 |
| `run_journal` | are lock, journal and cache one append-only log until a live lock is unlinked, what does that take, and does every call settle? | 2 processes, 3 calls, opening and one start, failing steps, two crashes or locks left | 285 000 |
| `run_store` | are the files a table, with one creator and no refusal without a reason? | 3 processes, 4 rival submissions, failing steps, a crash | 3.1 million |
| `mailbox` | one reply per question, questions that can be answered, and an end to each | 2 questions, 3 replies (two of them rivals), worker, clients and watchers fail | 195 000 |
| `task_wait` | is a change ever slept through, and is a task that ends or asks heard without the deadline? | 2 tasks, one changes, failing reads, the other's watcher fails twice | 256 000 |
| `admission` | nothing sent twice, and an end that is true, final and reached | 1 server, a required lane whose task does anything and an optional one whose task works, 1 fault | 536 000 |
| `cloud_ledger` | one acceptance per request id, true receipts, nothing pending for ever | 2 servers, 1 request sent again and again, garbled answers, full file, 1 fault, 1 crash | 779 000 |

### Properties

* **UpdateLock.** `NoLostUpdate` relates what callers were told to the record; `AtomicStore` is the
  refinement of `RecordStore` under the mapping that is the identity on `record` and `result`. Both
  hold until `stolen`, the history of a live lock that was unlinked.
  `EveryUpdateReturns` is the liveness of the queue and of recovery, whatever is stolen.
* **TaskLifecycle.** `AtMostOneDispatch`; `SettledMeansStopped` relates the stored verdict,
  `FinalMeansStopped` what readers are told to the unit;
  `LockTakenOnProof` is an action property: whatever WTB says, a call that knows the unit takes the writer
  lock only from one that is down; `TerminalIsSettled`
  is the liveness of supervision, `EveryTaskEnds` that of the deadline, over
  extensions that race with the reads and the timer of the watch.
* **RunCoordination.** `OneDelegation`; `OutcomeTruthful` and `RunOutcomeTruthful` relate the
  journal to the tasks, `CancelTruthful` the memory of servers and the plan to the tasks;
  `RunEnds` is the liveness of a run.
* **RunJournal.** `CacheBehind` relates the cache to the journal over every failing step; `AtomicLog`
  is the refinement of `EventLog` under which an entry takes effect with the rename of the journal. Both
  hold until `stolen`, the history of a live lock that was unlinked, which does occur in the instance.
  `TheftNeedsLeftLock` says what it takes with two processes that are not slow: a lock file that a call left.
  `EveryCallSettles` is the liveness of queue, lock, recovery and deadline, also past locks that were left.
* **RunStore.** `AtomicTable` is the refinement of `SubmissionTable`: a submission is accepted when
  its record is linked, and a refusal names what is in the way.
* **RunAdmission.** `Admitted` relates calls of `submitTask` to consent and worktrees;
  `CompletedIsTrue` and `FinishedMeansStopped` relate the saved phase to the tasks; `TerminalIsFinal` is
  an action property over late calls and failing saves; `RunSettles` is the liveness of inspection.
* **Mailbox.** `OneReply` relates what handlers and clients are told, `Answerable` relates the task
  record and `attention.json` over deaths and failures, `EveryQuestionEnds` is the liveness of the wait.
* **TaskWait.** `NothingSleptThrough` says that a sleeping waiter has seen each task as it is or
  has the event still coming; `AttentionIsHeard` that a task that ends or asks ends the wait
  without the deadline. Each is said of a task whose first and last reads worked and whose own watcher had no
  error, while reads and watchers of the other tasks fail; of the rest the code
  [promises](#where-the-code-and-its-documents-differ) less.
* **CloudLedger.** `OneAcceptance` relates file, memory and provider, over every way a submission can
  fail; `ReceiptsAreTrue` what callers and the provider know; `PendingEnds` is the recovery of
  what a dead server left.

### Bounds, and why they are enough

* Locks: a live lock is unlinked by a waiter that judged the owner before it, so `lock_lost` has
  three updates of two processes; in `lock` a slow owner is what a waiter breaks, for which two
  suffice. The loop of 200 attempts is 2 or 3: the attempts differ only in their number,
  and with 2 every exit of the loop, retry included, happens.
* Lifecycle: the calls keep no state between them, so two slots give every pair of calls
  at every pair of places; the instance with failures, early calls and a crash has one slot, which
  still races with launch, worker and systemd. The supervisor dies at most once: after
  there are only calls. `MaxTime` 2 lets a deadline be extended once before it passes, before its
  timer is first set or after, and lets both deadlines pass. That more
  calls at once do not matter for safety is proved.
* Runs: what two servers can do to one another concerns the shared files, and the lanes
  are independent until the run ends, so one lane with two servers and a crash, and two
  lanes with one server. One server with two lanes, failures and a crash was also
  checked and passes (5.3 million states). `OneDelegation` is proved for any number of both.
  The single lane of the two-server instances belongs to a provider that takes no
  reply, which adds the automatic cancel to everything else.
* Journal: a holder, a waiter and a third call that queues or comes later, and a call of the
  dead process; one lock may be broken per call, so breaking is tried again after a failure of the next
  holder. Two events suffice for what depends on order and keys. `MaxMishaps` bounds deaths and lock files left
  together: one is enough for two breakers of one lock, and with two every call may meet a lock
  that it may not break any more. That takes no third process and no slow holder; with either, what
  `JournalAlwaysReplays` and `JournalLock` prove remains. Four calls with one mishap (1.9 million
  states, the safety properties) were also checked and pass.
* Store: every call is a process of its own, since calls of one process queue. Three calls give a
  publisher, a rival and one that reads what they left, and the four submissions are one
  of each kind of rival: the same, another body, another run, another key.
* Admission: a lane whose turn comes first and cannot fail, and one that may do anything: what happens
  to the second reaches the first only by way of the phase. The fault, a death or a save that
  fails, comes at any step. Two servers with one such lane and no fault (1.2 million states), and with
  two lanes whose tasks work (319 000), were also checked and pass; `Admitted` is proved for any number.
* Mailbox: two questions, so that the second meets what the first left behind, and two
  clients for the first. A watcher has two errors at most by the code.
* Waiting: a read may fail in every round. One task changes and has a watcher that works; the other is only
  in the way, with a watcher that fails until the waiter polls. Also checked, and passing: both tasks change
  once (4.1 million states, the safety properties), and the one changes twice, so that a notice can be
  overtaken (2.1 million, all properties).
* Ledger: calls are slots used again and again, so the number of submissions is not bounded. One
  fault and one death at every step. Requests meet only in the lock and in the limit of the
  file, so one request and `Drop` show what another does. A lock of a live server is removed
  only when three servers meet (see below); the instance with three was searched
  to 20 million states without another violation, and is too large to finish.
* Deadlock is checked in the lifecycle and coordination instances. The others switch the
  check off: when all calls have settled, or all servers are dead, nothing is left to do.

### Fairness

* `UpdateLock`: a live process runs its promises and timers and lock files get old. No
  fairness for starts, calls or crashes.
* `TaskLifecycle`: launch and calls go on, somebody keeps polling (the host's contract for
  `task_status`/`task_wait`), systemd ends a unit whose processes have exited or been
  signalled, a reservation expires. Nothing is assumed of the worker, which may hang
  anywhere. `EveryTaskEnds` alone adds `WatchFairness`: the worker goes on unless it waits for its
  provider (`Waiting`), its watch reads, sets its timer and fires, and time passes. The provider need
  never answer before the watch has fired; that its turn ends then is what aborting it does, and
  starting its session has a time limit of its own that is no later. That a cancel ends its task
  (`CancellingEnds`) is refuted by a dying supervisor even with `WatchFairness` added
  (`WorkerFairSpec`); no run checks it.
* `RunCoordination`: a server works on what it began, a client calls `resumeRun` for the whole
  run again and again between other calls (strong fairness: other clients' calls disable it
  at times), and tasks end by their deadline. `RunEnds` has no failing calls: an
  inspection that throws leaves its lane unresolved for the life of the process
  (`run-scheduler.mjs:895`), and then the run does not end.
* `RunJournal`: a live process goes on with the calls it began. A call that keeps coming to judge a lock finds
  its deadline passed or the recheck working (strong fairness, as it goes round between link and judging):
  the deadline is a time that comes, and rechecks do not fail for ever. That a waiter ends although the
  holder is dead, or has left its lock, then follows from the code.
* `RunAdmission`: a server loads the record it finds and goes on with its calls, somebody keeps
  inspecting the run (strong fairness: other calls come in between), and a task goes on and ends other
  than by being lost for ever.
* `Mailbox`: the worker goes on and timers run out. Nothing is assumed of clients, watchers and
  their events, so a question ends by its deadline when nothing else works.
* `TaskWait`: the waiter runs, watchers deliver, the time for more text runs out. Of the deadline
  nothing is assumed, nor of reads: `AttentionIsHeard` must not rest on the one, and exempts a task whose last read failed.
* `CloudLedger`: live servers go on, locks and records get old, and somebody keeps asking for the
  status (strong fairness, as a slot may be taken by other calls).

## The proofs

All theorems hold for every value of the constants that the named `ASSUME`s allow
(`UpdateLockAssumption`, `LifecycleAssumption`, `RunAssumption`, `JournalAssumption`,
`StoreAssumption`, `AdmissionAssumption`, `MailboxAssumption`, `WaitAssumption`, `LedgerAssumption`). A
theorem that holds only for some of those values, or some behaviours, says so in its `ASSUME` or before its `=>`.

**`UpdateLockProofs`.** `UpdateLockType` needs `TurnInv`: a running update is the head of the
tail of a live process, or `Return` could not pass the turn on. `UpdateLockSafety` uses
`LockInv`: until some live lock is unlinked, every holder owns the lock file, an update
about to write has read the present record, and what reported success is merged. Mutual
exclusion alone is not inductive: that there are not two holders follows from
the file having one owner. `UpdateLockNoTheft` shows that with processes one after the
other a file found by a waiter belongs to a dead process or is gone. `UpdateLockAtomic`
is the refinement up to the first live lock that is unlinked: every step commits, ignores or fails one
update of `RecordStore`, or changes neither record nor result. With `UpdateLockNoTheft` it gives
`UpdateLockIsStore`: one process at a time implements the store without a proviso.

**`TaskLifecycleProofs`.** The difficulty of `SettledMeansStopped` is that a call stores a
verdict long after the inspection it rests on. `SettlementInv` says of every call
(`CallSound`) what its place and its verdict prove: a call that holds a final verdict has
seen the unit empty, and a unit that was down stays down (`UnitSteady`), because the launch
starts it once. `LifecycleSettled` and `LifecycleCompleted` follow. `LifecycleLock`
uses the same invariant and assumes nothing of WTB: a call that knows the unit comes to the lock only past the proof
that the unit is down. The two paths that it excepts are [in the code](#where-the-code-and-its-documents-differ).
`LifecycleDispatch` has an invariant of its own, `DispatchInv`: before the prompt's place
there was no prompt, and after a prompt either its intention is stored, which forbids the
fallback, or the fallback was taken.

`LifecycleFinal` is the same promise for every final status. It needs inspections and stops that
work (`Reliable`), and a behaviour whose launch is left alone (`LaunchUndisturbed`): without
the second it is false, as a cancel in the launch or a server that dies in it
[shows](#where-the-code-and-its-documents-differ). A crash after the launch is allowed, and so is everything else. `NextShown`
names the only four places that can give readers a final status; `FinalInv` says that none of them is reached with a unit that is up: a launch
gives up only past its stop, a call that knows of no unit finds none because the launch has told of it
before it returned, and a call that knows of one has seen it empty. `LifecycleFinalAfterLaunch` is the
corollary for the constants of the instance `lifecycle_live`, for any number of calls and any deadline.

**`RunCoordinationProofs`.** `RunOneDelegation`: a server that was told `created` is the only
creator ever (`DelegationInv`), since the store is set with its answer and never
unset; until it delegates nothing is delegated; a delegating server has still to do
only lanes that nobody has delegated. `EndedInv`, that a settling server holds only lanes
that have ended, is what `RunType` needs of the outcomes in the journal.

What a server settles was read many steps before, in a memory that no other server
sees. It is true all the same, because a task that has ended stays as it is (`TasksGoOn`). `TruthInv`
says of the memory of every server that a lane it calls dispatched has a task and an outcome it
knows is the task's, and that it settles and ends only lanes that are `Acceptable`; of the plan,
that the lanes it names have tasks; and `OutcomeTruthful` itself, which the two make inductive.
`RunOutcomesTrue` and `RunCancelsTrue` follow without an assumption. `RunEndsTruthfully` needs
`~StoreFails`: with it a record without assignments never outlives the `store` step (`BareInv`), so
that a call for all lanes decides over all lanes. Without it the property is false, see below.

**`RunJournalProofs`.** Two layers. Whatever becomes of the lock, a lock file belongs to a call that is under way,
or was when its process died, or that has left it (`HoldInv`), and each published file is a
replayable journal with one entry more (`ReplayInv`): `JournalType`, `JournalLock` and
`JournalAlwaysReplays` need no assumption. Until a live lock is unlinked, the holder's copy of
the journal is the journal (`SafeInv`), from which `JournalExclusion`, `JournalDurable`, `JournalCache` and
`JournalAppendOnly` follow, and that every step is one of `EventLog` or none: `JournalIsLog`.
`JournalNoTheft` shows for two processes and holders that are not slow that a live lock is unlinked only
after some call has left its lock file (`LastInv`): before that, an old lock is that of a dead process, and is broken
by calls of the one process that is left, which queue (`ChainInv`). The proviso is needed:
`RunJournal.cfg` shows the theft after a failed release.

**`RunStoreProofs`.** `FileInv` says of every place in `publishRecord` which of the two files are the call's
own: a record has its pointer, by the same call, and a pointer is taken back only by its call
before its record is there. With `ToldInv`, what an answer proves of the files, this gives `StorePairs`,
`StoreOneCreator` and `StoreTold`, and the refinement `StoreIsTable`, which needs no assumption: the
link of the record is `Accept`, every other answer is justified at that instant by the table, or by a stuck key: `FileInv`
says that a pointer whose call is over has its record, or is of a call that was turned down.

**`WaitingProofs`.** Two components that wait on a watched directory. `ReplyInv` follows a reply from its client to the handler: the reply file belongs to the
one client that created it, is complete only when that client was told so, and is what the waiter
accepts; `MailOneReply` is read off it. `ClosedInv` adds what an answered question leaves behind, from
which `MailAnsweredIsClosed` follows even when questions overlap. `MailAnswerable` needs
`~Overlap`: with one question open at a time (`SoleInv`) nobody renames or removes `attention.json`
under another handler.

`WaitNothingLost` is about lost wake-ups. What makes it inductive is `WatchInv`: from the second round of
reading on, a task that could be read at first has its watcher, and a change of it that the waiter has not seen is of a task it
has still to read in this round, or could not read in it, or its watcher has an event to deliver, or a notice is in the slot. A
reading takes a task out of the first and has seen it, unless it failed; a delivered event moves from the third to the
fourth; and the waiter sleeps only when the first and the fourth are empty. That holds of a task until its watcher has
an error, whatever other watchers and the reads of other tasks do: a
notice in the slot may be overwritten by a later one, and either makes the waiter read all tasks.

**`RunAdmissionProofs`.** Nothing keeps two servers from admitting one run, since neither loads again and a
save does not compare. `AdmissionAdmitted` shows that no lane is sent twice all the same, because a
worktree is made once. `HoldInv` says that the worktrees a call has made (`Held`) are no other
call's, that a call which comes to dispatch holds all of them, and that the lanes it may still submit
(`Due`) have not been submitted. `FreshInv` says that a record that is not admitted is as it was
made, without which a call could start with lanes it did not prepare, or an
inspection turn a record of an earlier phase into one of a later.

`AdmissionFinal` rests on `PhaseInv`. Every step of a server is one of a few moves of the copy it has
(`Moves`), and none leaves an ended phase; what must be ruled out is a server that still saves an
older copy. That no second copy was ever alive (`AloneInv`, under `solo`) makes the copy of the one
server and the file agree on having ended (`FinalInv`). `AdmissionCompleted` needs no such proviso:
`TruthInv` says of every record, in the file or in the memory of any server, that a lane it calls
completed has a completed task whose prompt was sent. That is true of a copy however old it is,
because a completed task stays completed (`TasksGrow`). `AdmissionStopped` is the
other direction, that no task is forgotten, and holds while the record has one copy and neither a death nor
a failing save came between a task and its record (`Trusted`). `StopInv` says
of each record that a lane it does not show as dispatched has no live task (`LaneSound`), and of
each place in a call what it has still to look at (`CallSound`), so that the step which ends the
run has seen all of them.

**`CloudLedgerProofs`.** `LockInv` says whose the lock directory and its owner file are at each
place of a call, `CallInv` what a call knows of the outcome it carries; they
give `LedgerTyped`. `LedgerReceipts` needs no proviso: `ReceiptInv` says of file, of a copy a call has loaded, and of an answer
that a submission they show as accepted was accepted, which no later step undoes.
`LedgerOneAcceptance` holds until a live call loses its lock. `ReadInv` says that the call under
the lock has the file as it is. `SoleInv` says of one request that at most one call may still ask
the provider for it; that when the request was accepted nobody may; and that the file has its
record, open or closed, in a state from which no call begins again. The limit of the file and answers that
cannot be read are the exceptions the property names, and the invariant has no others.
`LedgerNoTheft` shows that three servers are needed to lose a live lock: `TurnInv` says that one call of a
server at a time is between its turn and the end of its operation, and that a call about to unlink the
owner file found the owner dead; of two servers, one dead, no other call is then left to make a new
lock. So with two servers one acceptance needs no proviso about the lock (`LedgerTwoServers`); their only
assumption, `TwoServers`, is on the number of processes.

Only model-checked: liveness under fairness, which is out of the prover's reach, as is `ENABLED`. Every
invariant, action property and refinement that a passing run checks is also proved, with the provisos named above.
No module has a `RECURSIVE` operator, and none needs induction over data.

## Where the code and its documents differ

The first is a run, `lock_lost`. The others that name a property are reproduced by checking that
property with the constants given, in place of those of the configuration named.

* **A live lock is unlinked** (`lock_lost`). `liveLockOwner` answers the same for a lock file that is
  gone as for one of a dead owner, so a waiter unlinks the lock the next owner has just made
  (`task-store.mjs:177`, `220`). A stored cancellation can be overwritten.
* **A prompt after the cancel** (`NoPromptAfterCancelled`; `LifecycleLaunch.cfg` with `Reliable` true,
  `MayCrash` false). A cancel that reads the runtime record (`supervisor.mjs:2644`) before the launch
  has written it calls the task cancelled; the worker, whose updates are refused without its
  noticing, sends the prompt. `docs/adr/0002-native-run-lifecycle.md:18`: "Never report a terminal
  run while an owned optional or required provider task is still active or unconfirmed".
* **A cancel that never ends** (`CancellingEnds` under `WorkerFairSpec`; one call, `Reliable` and
  `MayCrash` true, `EarlyCalls` false). A supervisor that dies after storing `cancelling` leaves a task
  that cannot be ended once the deadline passed: `timeout` is refused on every poll
  (`supervisor.mjs:1554`, `task-store.mjs:283`).
* **A timeout before its time** (`TimeoutIsDue`; `LifecycleLive.cfg` with `Spec`). A poll decides by the
  record it began with (`supervisor.mjs:1553`), and a timer of the watch that is not yet set anew
  (`acp-worker.mjs:473`) runs out: either stores `timeout` although an extension is recorded and its
  caller was told of it. The message at `supervisor.mjs:1559` says "The recorded task deadline was
  reached".
* **A deadline that moves back** (`DeadlineGrows`; `LifecycleLive.cfg` with `Spec` and `MaxTime` 3). Two
  extensions computed from one record are both accepted (`supervisor.mjs:1052-1054`): the later update
  overwrites the deadline and the list `deadline_extensions`, so the deadline may move back
  and the entry of the other is lost. `deadline.mjs:115` says "The new deadline must be strictly later than the recorded
  deadline".
* **A writer lock freed on a word** (the two exceptions in `LockTakenOnProof`). The failure path of
  `submitTask` (`supervisor.mjs:961`), and a cancel or poll that read no unit in `runtime.json`, clean a writer lock
  when WTB calls it abandoned (`supervisor.mjs:584`), with the unit up or not.
  `docs/terminal-boundary-lifecycle.md:33` says that this "is never death proof".
* **A run nobody dispatches** (`ExactlyOneDispatch`; `RunSubmit.cfg` with `Faults` false,
  `MaxCrashes` 0). A second server with the same submission may make the journal the first one insists
  on making (`run-runtime.mjs:1140`); the first fails before it dispatches and nobody ever does.
  `docs/run-runtime.md:61` promises exactly one provider dispatch.
* **A run ended over a lane** (`RunOutcomeTruthful`; `RunSubmit.cfg` with `StoreFails` true, `Mute` empty,
  `MaxCrashes` 0). A record recovered before the plan was saved stays in memory without
  assignments (`run-runtime.mjs:1519`), and a later resume ends the run as completed over it.
* **A reply read half** (visible in `Look`). `submitReply` creates the reply file and then writes it; a
  waiter that looks in between gets a parse error, and its question fails although a moment later
  the client is told that its reply is recorded (`mailbox.mjs:80`, `234`). `docs/run-tool-api.md:234`
  says that a reply is delivered exactly once.
* **Two questions at once** (`Answerable`; `Mailbox.cfg` with `Overlap` true). Two handlers can both pass
  `mailbox.mjs:138` before either has renamed its `attention.json`; the later rename and the later update
  of the task need not be those of the same question, and clients are then refused.
* **A gap when a watcher is armed again** (`NothingSleptThrough` without `errors[t] = 0`).
  `waitForAnyTaskProgress` reads again and then arms the failed watcher (`task-store.mjs:1197-1214`), the
  other way round than at first (`1160-1163`); and a notice in the slot of the gate overwrites an earlier
  one, also the notice that a watcher failed, which is then never armed again (`623-654`).
* **An event that a failed read used up** (`NothingSleptThrough` without `Legible(seen[t])`). A read that fails twice is
  no reason to return (`task-store.mjs:938-950`, `975`), and the waiter sleeps again although what woke it is
  gone. The comment at `944` says that "the shared timer/watch remains the only source of subsequent retries"; nobody
  fires either of them before the next change of that task, or the deadline.
* **A task that is never watched** (`NothingSleptThrough` without `Legible(first[t])`). A target whose first read
  failed gets no watcher (`1142`), and nothing arms it when a later read works. It is heard only when another task
  wakes the waiter, or at the deadline.
* **A first read that failed and a call that throws** (`reason` "throws"). When a later read of such a task works, and the wait is
  for progress from a cursor, its status is compared with a first read that is null (`563-565`, `592`), and the
  call fails with a TypeError, whatever the other tasks have to say.
* **A refusal without a rival** (`Stuck`). An unlink of the key pointer that fails is swallowed (`run-store.mjs:797`):
  the submission is refused for its run, as it should be, but its pointer stays. Another submission that uses that key for a
  run of its own, and has its audit behind it, is refused although it is in nobody's way; every later operation of the store
  fails (`run-store.mjs:716`), and nobody was told that a file operation went wrong.
* **An answer that cannot be read** (`OneAcceptance` without `garbled`). A 2xx answer that does not parse is
  neither retryable nor ambiguous (`isAmbiguous`, `server.mjs:553` of the plug-in), the submission is
  stored as failed, and the same request id may be sent again. The plug-in's `README.md:252` says
  that "the same request ID cannot silently create a duplicate".
* **A full ledger** (`OneAcceptance` without `forgotten`). The file keeps its newest records, whatever
  their status (`ledger.mjs:686`): the id of a pending or uncertain one is new again.
* **Two waiters, one stale lock** (`stolen`, three servers). `removeStaleLock` judges the owner file and
  then unlinks the name (`ledger.mjs:490-501`): of two waiters that judged the same dead owner, the
  second removes the lock the third has just made. `run-journal.mjs:1549-1559` has the same gap behind
  its comparison.
* **A lock that its living owner leaves** (`NoTheft`; `RunJournal.cfg`). A call that cannot read its lock file back
  (`run-journal.mjs:1537`, `1577`) or cannot unlink it (`1584`) ends, and in the last two cases tells its caller that all
  went well. The run is blocked until the lock is 30 s old; then two waiters may both break it, the second of them the
  live lock of the first, and two calls write from one journal. Two processes and no death suffice. The comment at
  `run-journal.mjs:1409` says "Mutual exclusion lives in the exclusive name".
* **A submission that stays in progress** (`PendingEnds` without `Listed`). When neither `complete` nor
  `uncertain` gets the lock, or the release after `begin` throws, the request stays in
  `activeSubmissionOwners`, and this server never lets it become uncertain. The comment at
  `ledger.mjs:803` says "Never leave this process-local owner live when durable finalization fails".
* **A lock nobody may break** (`PendingEnds` without `Jammed`). A server that dies between making the lock
  directory and writing its owner file, or between unlinking the owner file and removing the
  directory, leaves a lock without an owner, which is never removed. `ledger.mjs:493` says so of the
  first; of the second nothing is said.

* **A run that ended over a task** (`FinishedMeansStopped` without `Trusted`, or with a lane that fails
  at its launch). A task that cannot be read for evidence ends the dispatch as failed while it goes on
  (`run-admission.mjs:1463`); a server that dies between `submitTask` and the save forgets the task, and
  a later cancel reports the run as cancelled; a launch whose worker could not be stopped leaves a lost
  task under a failed run. `docs/adr/0002-native-run-lifecycle.md:18` says "active or unconfirmed".
* **An inspection that forgets** (visible in `LookFails`). A read that fails overwrites the class `pending`
  of a dispatch that waits for its evidence, so that a task that fails later counts as failed before its
  prompt, which it may have been sent.
* **An optional lane decides** (visible in `Verified`). A run whose required lanes completed ends as
  failed when an optional lane never started (`run-admission.mjs:1752`).

## Not modelled, and the plan

Not modelled in the modelled components: DSH and cloud tasks, reconnecting to a session,
the projection of false successes, the event log and its limits,
pruning; the semantic run path, aggregate anchors, attention batches, the catalog snapshot,
usage and artifacts of a run; reading a journal by cursor, `list` and `getByIdempotencyKey` of the
store; the ledger of local Cursor runs. The components without a module are listed with their
reasons in `PROJECT.json`; most of the implementation's lines are in them: parsing, validation,
translation for one provider, git and shell commands, which a state machine has little to say of. The
hazards that no property covers yet say why.

What is left, in this order:

1. The reservations of corrections and `RunOrchestration`, on top of `RunAdmission`.
2. `AggregateAnchor`, `AttentionBatch`: compare-and-set of coordination phases, one latched batch.
3. `CursorCloudWorker`: a worker with a remote run behind it.

