----------------------------- MODULE RunJournal -----------------------------
(***************************************************************************)
(* The journal of one run (run-journal.mjs): a directory with a creation   *)
(* stamp, a journal file, a cache of the state it reduces to, and a lock   *)
(* file.  Any process may create the journal or append to it.  Within a    *)
(* process the calls for a run queue (withRunChain); between processes the *)
(* lock file excludes, and a lock whose owner is dead or that is old is    *)
(* broken by whoever waits for it.  Any file operation may throw; a call   *)
(* that cannot read or remove its own lock file ends and leaves it.        *)
(*                                                                         *)
(* Files are replaced by renames, so every step reads or writes a whole    *)
(* file; between two steps of a call anything may happen.  EventLog is     *)
(* what this protocol has to amount to.                                    *)
(***************************************************************************)
EXTENDS JournalEvents, SequencesExt

CONSTANTS
  Calls,       \* calls of create and append, numbered in the order they are made
  Processes,   \* processes that make them
  Host,        \* the process of each call
  Wanted,      \* the events that are appended
  SlowHolder,  \* may a live holder keep the lock for more than 30 s?
  MaxSteals,   \* MAX_RUN_JOURNAL_LOCK_STEALS
  MaxMishaps   \* bound on deaths of processes and lock files left, together

ASSUME JournalAssumption ==
  /\ Calls \subseteq Nat \ {0}
  /\ Host \in [Calls -> Processes]
  /\ Wanted \subseteq Events
  /\ SlowHolder \in BOOLEAN
  /\ MaxSteals \in Nat
  /\ MaxMishaps \in Nat

VARIABLES
  dir,      \* the directory of the run: none, made, or stamped
  journal,  \* the journal file
  cache,    \* the entries that the cached state reduces
  lock,     \* the lock file
  dead,     \* processes that died
  pc,       \* where each call is
  request,  \* what it was called for
  seen,     \* the lock file it found when it could not make its own
  steals,   \* the locks it broke
  snap,     \* the journal it read
  result,   \* what its caller is told, or would be
  left,     \* history: calls that ended and left their lock file
  stolen    \* history: the lock of a live call was unlinked by another

local == <<request, seen, steals, snap>>
vars == <<dir, journal, cache, lock, dead, pc, request, seen, steals, snap, result, left, stolen>>

NoLock == [call |-> 0, old |-> FALSE]
Locks == [call : Calls, old : BOOLEAN]
Creation == [kind |-> "create", child |-> Nobody, outcome |-> Nobody]

\* The calls that hold the lock, and the rest of the calls under way.
Inside == {"verify", "audit", "publish", "reread", "cache", "recache", "check", "unlink"}
Waiting == {"stamp", "queued", "link", "inspect", "judge", "recheck", "steal"}

\* The next call of its process.
Made(c) ==
  /\ pc[c] = "idle" /\ Host[c] \notin dead
  /\ \A d \in Calls : Host[d] = Host[c] /\ d < c => pc[d] # "idle"

At(c, place) == pc[c] = place /\ Host[c] \notin dead
Goto(c, place) == pc' = [pc EXCEPT ![c] = place]
Tells(c, answer) == result' = [result EXCEPT ![c] = answer]
Forgets(c) == seen' = [seen EXCEPT ![c] = NoLock]
Mine(c) == lock.call = c

\* The lock file is that of a call of a living process that is under way.
InUse == lock # NoLock /\ Host[lock.call] \notin dead /\ pc[lock.call] \in Inside

\* What a call goes on to, or is told, at the end of its operation.
Leaves(c, answer) ==
  /\ Goto(c, "check")
  /\ Tells(c, answer)
  /\ snap' = [snap EXCEPT ![c] = << >>]

\* It ends without having removed the lock file, whether it is its own or not.
Abandons(c) ==
  /\ Mine(c) => Cardinality(dead) + Cardinality(left) < MaxMishaps
  /\ Goto(c, "done")
  /\ left' = left \cup ({c} \cap {lock.call})

Init ==
  /\ dir = "none"
  /\ journal = << >>
  /\ cache = << >>
  /\ lock = NoLock
  /\ dead = {}
  /\ pc = [c \in Calls |-> "idle"]
  /\ request = [c \in Calls |-> Creation]
  /\ seen = [c \in Calls |-> NoLock]
  /\ steals = [c \in Calls |-> 0]
  /\ snap = [c \in Calls |-> << >>]
  /\ result = [c \in Calls |-> "pending"]
  /\ left = {}
  /\ stolen = FALSE

------------------------------------------------------------------------------
(* Making the journal and queueing for it *)

\* Variant for mutation: the directory is made without insisting on being first.
CreateShared(c) ==
  /\ Made(c)
  /\ dir' = "made"
  /\ Goto(c, "stamp")
  /\ UNCHANGED <<journal, cache, lock, dead, local, result, left, stolen>>

\* createRunJournal: mkdir is exclusive.
Create(c) ==
  /\ Made(c)
  /\ IF dir = "none"
     THEN dir' = "made" /\ Goto(c, "stamp") /\ UNCHANGED result
     ELSE Goto(c, "done") /\ Tells(c, "failed") /\ UNCHANGED dir
  /\ UNCHANGED <<journal, cache, lock, dead, local, left, stolen>>

\* writeCreationStamp
Stamp(c) ==
  /\ At(c, "stamp")
  /\ dir' = "stamped"
  /\ Goto(c, "queued")
  /\ UNCHANGED <<journal, cache, lock, dead, local, result, left, stolen>>

\* append: without a stamped directory there is no handle to append with.
AppendEvent(c, e) ==
  /\ Made(c)
  /\ request' = [request EXCEPT ![c] = e]
  /\ IF dir = "stamped"
     THEN Goto(c, "queued") /\ UNCHANGED result
     ELSE Goto(c, "done") /\ Tells(c, "failed")
  /\ UNCHANGED <<dir, journal, cache, lock, dead, seen, steals, snap, left, stolen>>

\* withRunChain: one call of a process at a time.
Enter(c) ==
  /\ At(c, "queued")
  /\ \A d \in Calls : Host[d] = Host[c] =>
       pc[d] \notin Inside \cup (Waiting \ {"stamp", "queued"})
  /\ Goto(c, "link")
  /\ UNCHANGED <<dir, journal, cache, lock, dead, local, result, left, stolen>>

------------------------------------------------------------------------------
(* The lock file *)

\* The written owner file is linked under the name of the lock.
Link(c) ==
  /\ At(c, "link")
  /\ IF lock = NoLock
     THEN lock' = [call |-> c, old |-> FALSE] /\ Goto(c, "verify")
     ELSE Goto(c, "inspect") /\ UNCHANGED lock
  /\ UNCHANGED <<dir, journal, cache, dead, local, result, left, stolen>>

\* The new owner reads its lock back.  When that fails, or another has the lock, the
\* call does, and releases nothing.
Verify(c) ==
  /\ At(c, "verify")
  /\ \/ /\ lock # NoLock /\ Host[lock.call] = Host[c]
        /\ Goto(c, "audit") /\ UNCHANGED <<result, left>>
     \/ Abandons(c) /\ Tells(c, "failed")
  /\ UNCHANGED <<dir, journal, cache, lock, dead, local, stolen>>

\* Variant for mutation: a lock that is gone is judged all the same.
InspectBlind(c) ==
  /\ At(c, "inspect")
  /\ seen' = [seen EXCEPT ![c] = lock]
  /\ Goto(c, "judge")
  /\ UNCHANGED <<dir, journal, cache, lock, dead, request, steals, snap, result, left, stolen>>

\* readLockFile after the failed link
Inspect(c) ==
  /\ At(c, "inspect")
  /\ IF lock = NoLock
     THEN Goto(c, "link") /\ UNCHANGED seen
     ELSE seen' = [seen EXCEPT ![c] = lock] /\ Goto(c, "judge")
  /\ UNCHANGED <<dir, journal, cache, lock, dead, request, steals, snap, result, left, stolen>>

\* Variant for mutation: a lock that was waited for long enough counts as stale.
StaleAlways(c) == TRUE

\* The age is that of the lock file there is by then.
Stale(c) == Host[seen[c].call] \in dead \/ lock.old

\* A lock is waited for when its owner lives, as an age that cannot be read counts as
\* none, or when the call has broken enough of them.
Waits(c) == Host[seen[c].call] \notin dead \/ steals[c] >= MaxSteals

Judge(c) ==
  /\ At(c, "judge")
  /\ \/ Stale(c) /\ steals[c] < MaxSteals /\ Goto(c, "recheck") /\ UNCHANGED seen
     \/ Waits(c) /\ Goto(c, "link") /\ Forgets(c)
  /\ UNCHANGED <<dir, journal, cache, lock, dead, request, steals, snap, result, left, stolen>>

\* Variant for mutation: the deadline is only looked at while the lock is not stale.
TimesOutFresh(c) ==
  /\ At(c, "judge") /\ ~Stale(c)
  /\ Goto(c, "done") /\ Tells(c, "failed") /\ Forgets(c)
  /\ UNCHANGED <<dir, journal, cache, lock, dead, request, steals, snap, left, stolen>>

\* The deadline of RUN_JOURNAL_LOCK_WAIT_MS has passed.
TimesOut(c) ==
  /\ At(c, "judge") /\ Waits(c)
  /\ Goto(c, "done") /\ Tells(c, "failed") /\ Forgets(c)
  /\ UNCHANGED <<dir, journal, cache, lock, dead, request, steals, snap, left, stolen>>

\* A file operation of a call that has no lock throws.
GivesUp(c) ==
  /\ \/ At(c, "stamp") \/ At(c, "link") \/ At(c, "inspect") \/ At(c, "steal")
  /\ Goto(c, "done") /\ Tells(c, "failed") /\ Forgets(c)
  /\ UNCHANGED <<dir, journal, cache, lock, dead, request, steals, snap, left, stolen>>

\* The file is the one that was judged: same process, device and inode.
Recheck(c) ==
  /\ At(c, "recheck")
  /\ IF lock.call = seen[c].call
     THEN Goto(c, "steal") /\ UNCHANGED seen
     ELSE Goto(c, "link") /\ Forgets(c)
  /\ UNCHANGED <<dir, journal, cache, lock, dead, request, steals, snap, result, left, stolen>>

\* A recheck that throws starts over, whatever the time.
RecheckFails(c) ==
  /\ At(c, "recheck")
  /\ Goto(c, "link") /\ Forgets(c)
  /\ UNCHANGED <<dir, journal, cache, lock, dead, request, steals, snap, result, left, stolen>>

\* The unlink takes whatever file has the name by now.
Steal(c) ==
  /\ At(c, "steal")
  /\ stolen' = (stolen \/ InUse)
  /\ lock' = NoLock
  /\ steals' = [steals EXCEPT ![c] = @ + 1]
  /\ Goto(c, "link")
  /\ Forgets(c)
  /\ UNCHANGED <<dir, journal, cache, dead, request, snap, result, left>>

\* The lock file gets older than 30 s: its holder is dead, or slow, or has left it.
LockAges ==
  /\ lock # NoLock
  /\ SlowHolder \/ Host[lock.call] \in dead \/ pc[lock.call] \notin Inside
  /\ lock' = [lock EXCEPT !.old = TRUE]
  /\ UNCHANGED <<dir, journal, cache, dead, pc, local, result, left, stolen>>

------------------------------------------------------------------------------
(* The operation under the lock *)

\* auditedJournal, then the first half of commitAppend.  The cache is looked at
\* unless the process knows these bytes of the journal.
Audit(c) ==
  LET e == request[c]
  IN /\ At(c, "audit")
     /\ \/ e = Creation /\ Leaves(c, "created")
        \/ Newest(journal, e) /\ Leaves(c, "deduped")
        \/ /\ e # Creation /\ ~Keyed(journal, e) /\ Accepts(journal, e)
           /\ Goto(c, "publish")
           /\ snap' = [snap EXCEPT ![c] = journal]
           /\ UNCHANGED result
        \/ /\ e # Creation /\ ~Newest(journal, e)
           /\ Keyed(journal, e) \/ ~Accepts(journal, e)
           /\ Leaves(c, "failed")
        \/ ~IsPrefix(cache, journal) /\ Leaves(c, "failed")
     /\ UNCHANGED <<dir, journal, cache, lock, dead, request, seen, steals, left, stolen>>

\* Variant for mutation: the cache is written before the journal.
PublishCacheFirst(c) ==
  /\ At(c, "publish")
  /\ cache' = Append(snap[c], request[c])
  /\ Goto(c, "reread")
  /\ UNCHANGED <<dir, journal, lock, dead, local, result, left, stolen>>

\* atomicPublish writes the journal that was read, and the entry.
Publish(c) ==
  /\ At(c, "publish")
  /\ journal' = Append(snap[c], request[c])
  /\ Goto(c, "reread")
  /\ UNCHANGED <<dir, cache, lock, dead, local, result, left, stolen>>

Reread(c) ==
  /\ At(c, "reread")
  /\ IF journal = Append(snap[c], request[c])
     THEN Goto(c, "cache") /\ UNCHANGED <<snap, result>>
     ELSE Leaves(c, "failed")
  /\ UNCHANGED <<dir, journal, cache, lock, dead, request, seen, steals, left, stolen>>

\* republishStateCache
PublishCache(c) ==
  /\ At(c, "cache")
  /\ cache' = Append(snap[c], request[c])
  /\ Goto(c, "recache")
  /\ UNCHANGED <<dir, journal, lock, dead, local, result, left, stolen>>

RereadCache(c) ==
  /\ At(c, "recache")
  /\ Leaves(c, IF cache = Append(snap[c], request[c]) THEN "appended" ELSE "failed")
  /\ UNCHANGED <<dir, journal, cache, lock, dead, request, seen, steals, left, stolen>>

\* Any read or write of a file may throw.
StepFails(c) ==
  /\ \/ At(c, "audit") \/ At(c, "publish") \/ At(c, "reread") \/ At(c, "cache") \/ At(c, "recache")
  /\ Leaves(c, "failed")
  /\ UNCHANGED <<dir, journal, cache, lock, dead, request, seen, steals, left, stolen>>

\* releaseRunLock: the lock is still this call's, unless the read fails ...
Check(c) ==
  /\ At(c, "check")
  /\ \/ Mine(c) /\ Goto(c, "unlink") /\ UNCHANGED left
     \/ Abandons(c)
  /\ UNCHANGED <<dir, journal, cache, lock, dead, local, result, stolen>>

\* ... and the file of that name is unlinked, unless that fails.
Unlink(c) ==
  /\ At(c, "unlink")
  /\ \/ /\ stolen' = (stolen \/ (InUse /\ ~Mine(c)))
        /\ lock' = NoLock
        /\ Goto(c, "done") /\ UNCHANGED left
     \/ Abandons(c) /\ UNCHANGED <<lock, stolen>>
  /\ UNCHANGED <<dir, journal, cache, dead, local, result>>

Crash(p) ==
  /\ p \notin dead
  /\ Cardinality(dead) + Cardinality(left) < MaxMishaps
  /\ dead' = dead \cup {p}
  /\ UNCHANGED <<dir, journal, cache, lock, pc, local, result, left, stolen>>

------------------------------------------------------------------------------
(* The specification *)

Begin(c) == Create(c) \/ \E e \in Wanted : AppendEvent(c, e)

Step(c) ==
  \/ Stamp(c) \/ Enter(c)
  \/ Link(c) \/ Verify(c) \/ Inspect(c) \/ Judge(c) \/ TimesOut(c) \/ Recheck(c) \/ Steal(c)
  \/ Audit(c) \/ Publish(c) \/ Reread(c) \/ PublishCache(c) \/ RereadCache(c)
  \/ Check(c) \/ Unlink(c)

Fails(c) == StepFails(c) \/ GivesUp(c) \/ RecheckFails(c)

Next ==
  \/ \E c \in Calls : Begin(c) \/ Step(c) \/ Fails(c)
  \/ LockAges
  \/ \E p \in Processes : Crash(p)

Spec == Init /\ [][Next]_vars

\* A live process goes on with the calls it began.  One that keeps waiting for a lock
\* finds its deadline passed, and one that keeps judging a lock stale does not find
\* the recheck failing for ever.
FairSpec ==
  Spec /\ \A c \in Calls : WF_vars(Step(c)) /\ SF_vars(TimesOut(c) \/ Recheck(c))

------------------------------------------------------------------------------
(* Properties *)

Journals == Seq(Events)

\* The state keeps its shape; a call that judges a lock has seen one, and what
\* a call holds in memory is what it has read.
TypeOK ==
  /\ dir \in {"none", "made", "stamped"}
  /\ journal \in Journals
  /\ cache \in Journals
  /\ lock \in Locks \cup {NoLock}
  /\ dead \subseteq Processes
  /\ pc \in [Calls -> Inside \cup Waiting \cup {"idle", "done"}]
  /\ request \in [Calls -> Events \cup {Creation}]
  /\ seen \in [Calls -> Locks \cup {NoLock}]
  /\ steals \in [Calls -> 0..MaxSteals]
  /\ snap \in [Calls -> Journals]
  /\ result \in [Calls -> {"pending", "created", "appended", "deduped", "failed"}]
  /\ left \subseteq Calls
  /\ stolen \in BOOLEAN
  /\ \A c \in Calls : pc[c] \in {"judge", "recheck", "steal"} => seen[c] # NoLock
  /\ \A c \in Calls : pc[c] \in {"recheck", "steal"} => steals[c] < MaxSteals
  /\ \A c \in Calls :
       pc[c] \in {"publish", "reread", "cache", "recache"} => request[c] # Creation

\* Nobody unlinks the lock of a live call (acquireRunLock, recheck and unlink).
NoTheft == ~stolen

\* Recovery unlinks the lock of a live call only where a lock file was left before,
\* by a call that could not read or remove it (acquireRunLock, releaseRunLock).
TheftNeedsLeftLock == stolen => left # {}

\* One call at a time works on the files (acquireRunLock, "Mutual exclusion
\* lives in the exclusive name").
MutualExclusion ==
  \A c, d \in Calls :
    /\ pc[c] \in Inside /\ Host[c] \notin dead
    /\ pc[d] \in Inside /\ Host[d] \notin dead
    => c = d

\* A lock file belongs to a call that is under way, or whose process died while it was,
\* or that could not read or remove it: no other way out of a call leaves its lock
\* behind (operate, finally).
NoLockLeft == lock # NoLock => pc[lock.call] \in Inside \/ lock.call \in left

\* Every journal that is ever on disk replays, with one entry per key, whatever
\* happened to locks and processes (parseJournalBytes, reduceRunJournalEntries).
Replays(entries) ==
  \A i \in DOMAIN entries :
    /\ Accepts(SubSeq(entries, 1, i - 1), entries[i])
    /\ ~Keyed(SubSeq(entries, 1, i - 1), entries[i])
JournalReplays == Replays(journal)

\* No entry is ever lost or rewritten (commitAppend, "the audited prefix plus
\* this one verified entry").
AppendOnly == [][IsPrefix(journal, journal')]_vars

\* What a caller was told is in the journal, is there, across crashes and
\* failed steps of other calls.
AppendedIsDurable ==
  \A c \in Calls : result[c] \in {"appended", "deduped"} => Holds(journal, request[c])

\* Until the lock of a live call is unlinked, the cached state never runs ahead of the
\* journal, so a crash between the two renames leaves a journal that opens
\* (auditStateCache).
CacheBehind == stolen \/ IsPrefix(cache, journal)

\* The directory, the lock and the files together are one append-only log with
\* an entry per key, until the lock of a live call is unlinked (commitAppend).
Log == INSTANCE EventLog WITH
         log <- journal,
         open <- {c \in Calls : pc[c] \in {"reread", "cache", "recache"}},
         answer <- result
AtomicLog == Log!LogInit /\ [][Log!LogNext \/ stolen']_(Log!logVars)

\* Calls of living processes come to an end, also when the holder of the lock
\* died or left it (acquireRunLock, deadline and steals): none is under way for ever.
EveryCallSettles ==
  []<>(\A c \in Calls : pc[c] \in {"idle", "done"} \/ Host[c] \in dead)
=============================================================================
