---------------------------- MODULE CloudLedger ----------------------------
(***************************************************************************)
(* Submissions to Cursor's cloud (plug-in cursor-cloud-control: server.mjs *)
(* and ledger.mjs).  A create or follow-up request carries a request id.   *)
(* Any number of servers share one ledger file: a submission is reserved   *)
(* there as pending before the provider is asked, and what became of it is *)
(* written afterwards.  Every operation on the ledger holds a lock         *)
(* directory with an owner file in it, reads the whole file, turns pending *)
(* records that nobody finishes into uncertain ones, and writes the whole  *)
(* file by a rename.                                                       *)
(*                                                                         *)
(* Left out: the data of a request (its digest, agent and run), and the    *)
(* requests that push a record out of a full file: any write may do that   *)
(* to a record that is not the one being written.                          *)
(***************************************************************************)
EXTENDS Naturals, FiniteSets

CONSTANTS
  Calls,       \* slots for calls of the tools, used again and again
  Processes,   \* servers
  Host,        \* the server of each slot
  Requests,    \* request ids
  Crowded,     \* are there MAX_RECORDS other requests?
  Garbles,     \* may the provider accept a request and answer what cannot be read?
  MaxFaults,   \* bound on failing file operations
  MaxCrashes   \* bound on the deaths of servers

Nobody == "nobody"

ASSUME LedgerAssumption ==
  /\ Nobody \notin Calls \cup Requests
  /\ Host \in [Calls -> Processes]
  /\ Crowded \in BOOLEAN /\ Garbles \in BOOLEAN
  /\ MaxFaults \in Nat /\ MaxCrashes \in Nat

VARIABLES
  file,      \* submissions.json: the record of each request
  aged,      \* requests whose record is five minutes old
  lock,      \* submissions.lock: made, the call in its owner file, older than 1 s
  owners,    \* activeSubmissionOwners of each server
  pc,        \* where each call is
  op,        \* the operation on the ledger it is at
  want,      \* the request it submits, or Nobody: it asks for the status
  mem,       \* the records it has read
  outcome,   \* what the operation comes to
  dead,      \* servers that died
  receipts,  \* history: requests some caller was told were submitted, now or before
  accepted,  \* history: the provider accepted each request never, once, or more often
  garbled,   \* history: accepted requests with an answer that could not be read
  forgotten, \* history: requests whose record was dropped
  stolen,    \* history: the lock of a live call was removed by another
  faults     \* file operations that failed

ledger == <<file, aged, forgotten>>
provider == <<accepted, garbled>>
call == <<op, want, mem, receipts>>
vars == <<ledger, lock, owners, pc, call, outcome, dead, provider, stolen, faults>>

NoRecord == [status |-> "none", owner |-> Nobody]
Blank == [r \in Requests |-> NoRecord]
Unowned == [r \in Requests |-> Nobody]
NoLock == [made |-> FALSE, owner |-> Nobody, old |-> FALSE]

At(c, place) == pc[c] = place /\ Host[c] \notin dead
Goto(c, place) == pc' = [pc EXCEPT ![c] = place]
Gets(c, result) == outcome' = [outcome EXCEPT ![c] = result]

\* Places of an operation once it is its turn in its server.
Locking == {"mkdir", "owner", "judge", "breakOwner", "breakDir"}
Holding == {"load", "recover", "operate", "release", "unlink", "rmdir"}

Init ==
  /\ file = Blank /\ aged = {} /\ forgotten = {}
  /\ lock = NoLock
  /\ owners = [p \in Processes |-> Unowned]
  /\ pc = [c \in Calls |-> "idle"]
  /\ op = [c \in Calls |-> "lookup"]
  /\ want = [c \in Calls |-> Nobody]
  /\ mem = [c \in Calls |-> Blank]
  /\ outcome = [c \in Calls |-> "ok"]
  /\ receipts = {}
  /\ dead = {}
  /\ accepted = [r \in Requests |-> 0]
  /\ garbled = {}
  /\ stolen = FALSE
  /\ faults = 0

------------------------------------------------------------------------------
(* Calls *)

\* A status reads the ledger and nothing else; agents create begins with the same step
\* (its lookup), and then submits as runs followup does.
Starts(c, first, r) ==
  /\ At(c, "idle")
  /\ Goto(c, "queued")
  /\ op' = [op EXCEPT ![c] = first]
  /\ want' = [want EXCEPT ![c] = r]
  /\ UNCHANGED <<receipts, ledger, lock, owners, mem, outcome, dead, provider, stolen, faults>>

Submit(c, r) == Starts(c, "begin", r)
Status(c) == Starts(c, "lookup", Nobody)

\* withProcessStateLock
Enter(c) ==
  /\ At(c, "queued")
  /\ \A d \in Calls : Host[d] = Host[c] => pc[d] \notin Locking \cup Holding
  /\ Goto(c, "mkdir")
  /\ UNCHANGED <<ledger, lock, owners, call, outcome, dead, provider, stolen, faults>>

------------------------------------------------------------------------------
(* acquireFileLock and removeStaleLock *)

MakeLock(c) ==
  /\ At(c, "mkdir")
  /\ IF lock.made THEN Goto(c, "judge") /\ UNCHANGED lock
     ELSE lock' = [NoLock EXCEPT !.made = TRUE] /\ Goto(c, "owner")
  /\ UNCHANGED <<ledger, owners, call, outcome, dead, provider, stolen, faults>>

\* Nobody else writes into the directory that a call has just made.
WriteOwner(c) ==
  /\ At(c, "owner")
  /\ lock' = [lock EXCEPT !.owner = c]
  /\ Goto(c, "load")
  /\ UNCHANGED <<ledger, owners, call, outcome, dead, provider, stolen, faults>>

\* Its owner is known to be dead.
Stale == lock.old /\ lock.owner # Nobody /\ Host[lock.owner] \in dead

\* A lock that is not stale is waited for, and after every attempt the next one is made,
\* until the deadline.
TriesAgain(c) ==
  \/ Goto(c, "mkdir") /\ UNCHANGED outcome
  \/ Goto(c, "ended") /\ Gets(c, "thrown")

Judge(c) ==
  /\ At(c, "judge")
  /\ IF Stale THEN Goto(c, "breakOwner") /\ UNCHANGED outcome ELSE TriesAgain(c)
  /\ UNCHANGED <<ledger, lock, owners, call, dead, provider, stolen, faults>>

\* The owner file goes, whoever's it is by now.
TakeOwner(c) ==
  /\ lock' = [lock EXCEPT !.owner = Nobody, !.old = FALSE]
  /\ stolen' = (stolen \/ (lock.owner # c /\ Host[lock.owner] \notin dead))

BreakOwner(c) ==
  /\ At(c, "breakOwner")
  /\ IF lock.owner = Nobody THEN TriesAgain(c) /\ UNCHANGED <<lock, stolen>>
     ELSE TakeOwner(c) /\ Goto(c, "breakDir") /\ UNCHANGED outcome
  /\ UNCHANGED <<ledger, owners, call, dead, provider, faults>>

\* Who removed the owner file removes the directory, which nobody fills in between.
BreakDir(c) ==
  /\ At(c, "breakDir")
  /\ lock' = NoLock
  /\ TriesAgain(c)
  /\ UNCHANGED <<ledger, owners, call, dead, provider, stolen, faults>>

\* The age of a lock matters once its owner is dead.
LockAges ==
  /\ lock.owner # Nobody /\ Host[lock.owner] \in dead
  /\ lock' = [lock EXCEPT !.old = TRUE]
  /\ UNCHANGED <<ledger, owners, pc, call, outcome, dead, provider, stolen, faults>>

------------------------------------------------------------------------------
(* The operation under the lock *)

RecordAges(r) ==
  /\ file[r].status = "pending"
  /\ aged' = aged \cup {r}
  /\ UNCHANGED <<file, forgotten, lock, owners, pc, call, outcome, dead, provider, stolen, faults>>

\* Variant for mutation: a record with an owner in it counts as in progress.
AbandonedUnowned(p, r, record) ==
  record.status = "pending" /\ r \in aged /\ record.owner = Nobody

\* isPendingStale, and no submission of this server has it.
Abandoned(p, r, record) ==
  record.status = "pending" /\ r \in aged /\ owners[p][r] = Nobody

\* loadLatestUnlocked
Load(c) ==
  LET records == [r \in Requests |-> IF Abandoned(Host[c], r, file[r])
                                     THEN [file[r] EXCEPT !.status = "uncertain"] ELSE file[r]]
  IN /\ At(c, "load")
     /\ mem' = [mem EXCEPT ![c] = records]
     /\ Goto(c, IF records = file THEN "operate" ELSE "recover")
     /\ UNCHANGED <<ledger, lock, owners, op, want, outcome, receipts, dead, provider, stolen, faults>>

\* persistUnlocked
Writes(records) == file' = records /\ aged' = {r \in aged : records[r] = file[r]}

\* The one that other requests do, under the lock, drops the oldest records. Bounded:
\* each record is dropped once.
Drop(r) ==
  /\ Crowded /\ r \notin forgotten /\ ~lock.made
  /\ file[r].status # "none"
  /\ Writes([file EXCEPT ![r] = NoRecord])
  /\ forgotten' = forgotten \cup {r}
  /\ UNCHANGED <<lock, owners, pc, call, outcome, dead, provider, stolen, faults>>

\* The write may throw, before the rename or after it.
Attempt(c, records, result) ==
  /\ UNCHANGED forgotten
  /\ \/ Writes(records) /\ Gets(c, result) /\ UNCHANGED faults
     \/ /\ faults < MaxFaults /\ faults' = faults + 1
        /\ Writes(records) \/ UNCHANGED <<file, aged>>
        /\ Gets(c, "thrown")

Recover(c) ==
  /\ At(c, "recover")
  /\ Attempt(c, mem[c], "ok")
  /\ Goto(c, IF outcome'[c] = "ok" THEN "operate" ELSE "release")
  /\ UNCHANGED <<lock, owners, call, dead, provider, stolen>>

LoadFails(c) ==
  /\ At(c, "load")
  /\ faults < MaxFaults /\ faults' = faults + 1
  /\ Gets(c, "thrown") /\ Goto(c, "release")
  /\ UNCHANGED <<ledger, lock, owners, call, dead, provider, stolen>>

Found(c) == mem[c][want[c]]
Stores(c, record, result) == Attempt(c, [mem[c] EXCEPT ![want[c]] = record], result)
Leaves(c, result) == Gets(c, result) /\ UNCHANGED <<ledger, faults>>
SetOwner(c, d) == owners' = [owners EXCEPT ![Host[c]][want[c]] = d]
Operates(c, name) ==
  /\ At(c, "operate") /\ op[c] = name
  /\ Goto(c, "release")
  /\ mem' = [mem EXCEPT ![c] = Blank]
  /\ UNCHANGED <<lock, op, want, receipts, dead, provider, stolen>>

Lookup(c) == Operates(c, "lookup") /\ Leaves(c, "ok") /\ UNCHANGED owners

\* Variant for mutation: a request that is pending is answered as a duplicate.
BeginDuplicate(c) ==
  /\ Operates(c, "begin")
  /\ \/ /\ Found(c).status \in {"none", "failed"}
        /\ Stores(c, [status |-> "pending", owner |-> c], "go") /\ SetOwner(c, c)
     \/ Found(c).status = "uncertain" /\ Leaves(c, "refused") /\ UNCHANGED owners
     \/ /\ Found(c).status \in {"pending", "completed"}
        /\ Leaves(c, "duplicate") /\ UNCHANGED owners

\* A new or a failed request is reserved, an open one refused.
Begin(c) ==
  /\ Operates(c, "begin")
  /\ \/ /\ Found(c).status \in {"none", "failed"}
        /\ Stores(c, [status |-> "pending", owner |-> c], "go") /\ SetOwner(c, c)
     \/ /\ Abandoned(Host[c], want[c], Found(c))
        /\ Stores(c, [Found(c) EXCEPT !.status = "uncertain"], "refused") /\ UNCHANGED owners
     \/ /\ Found(c).status \in {"pending", "uncertain"}
        /\ ~Abandoned(Host[c], want[c], Found(c))
        /\ Leaves(c, "refused") /\ UNCHANGED owners
     \/ Found(c).status = "completed" /\ Leaves(c, "duplicate") /\ UNCHANGED owners

Final == [complete |-> "completed", fail |-> "failed", uncertain |-> "uncertain"]

\* Variant for mutation: the record is not missed when it is gone.
FinishUnchecked(c, name) ==
  /\ Operates(c, name)
  /\ Stores(c, IF Found(c).status = "none" THEN [status |-> Final[name]]
               ELSE [Found(c) EXCEPT !.status = Final[name]], "ok")
  /\ SetOwner(c, Nobody)

\* complete, fail and uncertain: the owner goes, if it is the one in the record.
Finish(c, name) ==
  /\ Operates(c, name)
  /\ \/ /\ Found(c).status # "none"
        /\ Stores(c, [Found(c) EXCEPT !.status = Final[name]], "ok")
        /\ IF Found(c).owner \in {Nobody, owners[Host[c]][want[c]]}
           THEN SetOwner(c, Nobody) ELSE UNCHANGED owners
     \/ /\ Found(c).status = "none" /\ name = "uncertain"
        /\ Stores(c, [status |-> "uncertain", owner |-> Nobody], "ok") /\ UNCHANGED owners
     \/ /\ Found(c).status = "none" /\ name # "uncertain"
        /\ Leaves(c, "thrown") /\ UNCHANGED owners

------------------------------------------------------------------------------
(* release *)

\* A lock with another owner, or with none, makes the operation throw.
Release(c) ==
  /\ At(c, "release")
  /\ IF lock.owner = c THEN Goto(c, "unlink") /\ UNCHANGED outcome
     ELSE Goto(c, "ended") /\ (IF lock.made THEN Gets(c, "thrown") ELSE UNCHANGED outcome)
  /\ UNCHANGED <<ledger, lock, owners, call, dead, provider, stolen, faults>>

UnlinkOwner(c) ==
  /\ At(c, "unlink")
  /\ IF lock.owner = Nobody THEN Goto(c, "ended") /\ UNCHANGED <<lock, stolen>>
     ELSE TakeOwner(c) /\ Goto(c, "rmdir")
  /\ UNCHANGED <<ledger, owners, call, outcome, dead, provider, faults>>

RemoveDir(c) ==
  /\ At(c, "rmdir")
  /\ lock' = NoLock
  /\ Goto(c, "ended")
  /\ UNCHANGED <<ledger, owners, call, outcome, dead, provider, stolen, faults>>

\* A path that cannot be checked leaves the lock where it is.
ReleaseFails(c) ==
  /\ At(c, "release")
  /\ faults < MaxFaults /\ faults' = faults + 1
  /\ Gets(c, "thrown") /\ Goto(c, "ended")
  /\ UNCHANGED <<ledger, lock, owners, call, dead, provider, stolen>>

------------------------------------------------------------------------------
(* The submission around the operations *)

Continues(c, place, name) ==
  /\ Goto(c, place)
  /\ op' = [op EXCEPT ![c] = name]
  /\ UNCHANGED <<want, receipts>>

Tells(c, submitted) ==
  /\ Goto(c, "idle")
  /\ op' = [op EXCEPT ![c] = "lookup"]
  /\ want' = [want EXCEPT ![c] = Nobody]
  /\ receipts' = IF submitted THEN receipts \cup {want[c]} ELSE receipts

\* A completion that throws is made uncertain instead, and that may throw.
Ended(c) ==
  /\ At(c, "ended")
  /\ \/ op[c] = "lookup" /\ Tells(c, FALSE)
     \/ op[c] = "begin" /\ outcome[c] = "go" /\ Continues(c, "ask", "begin")
     \/ op[c] = "begin" /\ outcome[c] # "go" /\ Tells(c, outcome[c] = "duplicate")
     \/ op[c] = "complete" /\ outcome[c] = "thrown" /\ Continues(c, "queued", "uncertain")
     \/ op[c] = "complete" /\ outcome[c] = "ok" /\ Tells(c, TRUE)
     \/ op[c] \in {"fail", "uncertain"} /\ Tells(c, FALSE)
  /\ Gets(c, "ok")
  /\ UNCHANGED <<ledger, lock, owners, mem, dead, provider, stolen, faults>>

More(n) == IF n = 0 THEN 1 ELSE 2

\* Variant for mutation: a timeout counts as a refusal.
AnswerByGuess(c) ==
  LET r == want[c]
  IN /\ At(c, "ask")
     /\ \/ accepted' = [accepted EXCEPT ![r] = More(@)] /\ Continues(c, "queued", "complete")
        \/ accepted' = [accepted EXCEPT ![r] = More(@)] /\ Continues(c, "queued", "fail")
     /\ UNCHANGED <<ledger, lock, owners, mem, outcome, dead, garbled, stolen, faults>>

\* The provider accepts the request and says so; accepts it or not, and what it says
\* is lost; refuses it; or accepts it with an answer that is neither of these, which
\* isAmbiguous takes for a refusal.
Answer(c) ==
  LET r == want[c]
      Accepts == accepted' = [accepted EXCEPT ![r] = More(@)]
  IN /\ At(c, "ask")
     /\ \/ Accepts /\ Continues(c, "queued", "complete") /\ UNCHANGED garbled
        \/ /\ Accepts \/ UNCHANGED accepted
           /\ Continues(c, "queued", "uncertain") /\ UNCHANGED garbled
        \/ Continues(c, "queued", "fail") /\ UNCHANGED provider
        \/ /\ Garbles /\ Accepts /\ garbled' = garbled \cup {r}
           /\ Continues(c, "queued", "fail")
     /\ UNCHANGED <<ledger, lock, owners, mem, outcome, dead, stolen, faults>>

\* What a server had in its memory is gone with it.
Crash(p) ==
  LET Lost(f, blank) == [c \in Calls |-> IF Host[c] = p THEN blank ELSE f[c]]
  IN /\ p \notin dead
     /\ Cardinality(dead) < MaxCrashes
     /\ dead' = dead \cup {p}
     /\ pc' = Lost(pc, "idle") /\ op' = Lost(op, "lookup") /\ want' = Lost(want, Nobody)
     /\ mem' = Lost(mem, Blank) /\ outcome' = Lost(outcome, "ok")
     /\ owners' = [owners EXCEPT ![p] = Unowned]
     /\ UNCHANGED <<ledger, lock, receipts, provider, stolen, faults>>

------------------------------------------------------------------------------
(* The specification *)

Step(c) ==
  \/ Enter(c) \/ MakeLock(c) \/ WriteOwner(c) \/ Judge(c) \/ BreakOwner(c) \/ BreakDir(c)
  \/ Load(c) \/ Recover(c) \/ Lookup(c) \/ Begin(c) \/ (\E name \in DOMAIN Final : Finish(c, name))
  \/ Release(c) \/ UnlinkOwner(c) \/ RemoveDir(c) \/ Ended(c) \/ Answer(c)

Next ==
  \/ \E c \in Calls :
       \/ Status(c) \/ Step(c) \/ LoadFails(c) \/ ReleaseFails(c)
       \/ \E r \in Requests : Submit(c, r)
  \/ LockAges
  \/ \E r \in Requests : RecordAges(r) \/ Drop(r)
  \/ \E p \in Processes : Crash(p)

Spec == Init /\ [][Next]_vars

\* Live servers go on, time passes, and somebody keeps asking for the status.
Fairness ==
  /\ \A c \in Calls : WF_vars(Step(c))
  /\ SF_vars(\E c \in Calls : Status(c))
  /\ WF_vars(LockAges)
  /\ \A r \in Requests : WF_vars(RecordAges(r))

FairSpec == Spec /\ Fairness

------------------------------------------------------------------------------
(* Properties *)

\* The file, the lock and the calls keep their shape.
Records == [status : {"none", "pending", "completed", "failed", "uncertain"},
            owner : Calls \cup {Nobody}]
TypeOK ==
  /\ file \in [Requests -> Records]
  /\ {aged, garbled, forgotten, receipts} \subseteq SUBSET Requests
  /\ lock \in [made : BOOLEAN, owner : Calls \cup {Nobody}, old : BOOLEAN]
  /\ lock.owner # Nobody => lock.made
  /\ owners \in [Processes -> [Requests -> Calls \cup {Nobody}]]
  /\ pc \in [Calls -> {"idle", "queued", "ask", "ended"} \cup Locking \cup Holding]
  /\ op \in [Calls -> {"lookup", "begin"} \cup DOMAIN Final]
  /\ want \in [Calls -> Requests \cup {Nobody}]
  /\ \A c \in Calls : want[c] = Nobody <=> op[c] = "lookup"
  /\ mem \in [Calls -> [Requests -> Records]]
  /\ outcome \in [Calls -> {"ok", "go", "refused", "duplicate", "thrown"}]
  /\ dead \subseteq Processes
  /\ accepted \in [Requests -> 0..2]
  /\ stolen \in BOOLEAN
  /\ faults \in 0..MaxFaults

\* A request id is accepted once, over timeouts, deaths and failing writes, unless an
\* answer could not be read or its record was dropped (README.md of the plug-in: "the
\* same request ID cannot silently create a duplicate").
OneAcceptance ==
  ~stolen => \A r \in Requests \ (garbled \cup forgotten) : accepted[r] < 2

\* What a caller is told was submitted, now or before, the provider has accepted.
ReceiptsAreTrue ==
  \A r \in receipts : accepted[r] > 0

\* The lock is held by nobody who will give it back, and nobody may break it.
Jammed ==
  /\ lock.made
  /\ \A c \in Calls : Host[c] \notin dead =>
       pc[c] \notin Holding \cup {"owner", "breakOwner", "breakDir"}
  /\ lock.owner = Nobody \/ Host[lock.owner] \notin dead

\* A submission that its server took to the grave does not stay in progress: it becomes
\* uncertain, which the caller is told to reconcile (recoverPending), unless a server
\* lists the request as one of its own.
PendingEnds ==
  \A r \in Requests :
    LET Orphaned == file[r].status = "pending" /\ Host[file[r].owner] \in dead
        Listed == \E p \in Processes : owners[p][r] # Nobody
    IN Orphaned ~> (~Orphaned \/ Listed \/ Jammed \/ dead = Processes)
=============================================================================
