-------------------------- MODULE RunJournalProofs --------------------------
(***************************************************************************)
(* Theorems about RunJournal for any calls, processes, events and bounds.  *)
(*                                                                         *)
(* What the lock protects is proved for as long as no live lock was        *)
(* broken: HoldInv is about the lock file, DataInv about the files under   *)
(* it.  That the journal on disk always replays needs no lock at all.      *)
(***************************************************************************)
EXTENDS RunJournal, SequenceTheorems, TLAPS

PCs == Inside \cup Waiting \cup {"idle", "done"}
Answers == {"pending", "created", "appended", "deduped", "failed"}

LEMMA CreationIsNoEvent == Creation \notin Events
  <1>1. \A e \in Events : e.kind # "create"
    <2>1. Open.kind # "create" /\ \A a \in Children : Start(a).kind # "create"
      BY DEF Open, Start
    <2>2. \A a \in Children : Progress(a).kind # "create"
      BY DEF Progress
    <2>3. \A a \in Children, o \in Outcomes : End(a, o).kind # "create"
      BY DEF End
    <2>4. \A o \in Outcomes : Finish(o).kind # "create"
      BY DEF Finish
    <2> QED BY <2>1, <2>2, <2>3, <2>4 DEF Events
  <1>2. Creation.kind = "create"
    BY DEF Creation
  <1> QED BY <1>1, <1>2

LEMMA EmptyJournal == << >> \in Journals
  BY DEF Journals

\* A call that is told something at the end of its operation.
LEMMA LeavesType ==
  ASSUME TypeOK, NEW c \in Calls, NEW a \in Answers, Leaves(c, a)
  PROVE  /\ pc' \in [Calls -> PCs]
         /\ snap' \in [Calls -> Journals]
         /\ result' \in [Calls -> Answers]
  BY DEF TypeOK, Leaves, Goto, Tells, PCs, Inside, Waiting, Answers, Journals

LEMMA TypeInit == Init => TypeOK
  <1> SUFFICES ASSUME Init PROVE TypeOK
    OBVIOUS
  <1>1. journal \in Journals /\ cache \in Journals /\ snap \in [Calls -> Journals]
    BY EmptyJournal DEF Init
  <1>2. steals \in [Calls -> 0..MaxSteals]
    BY JournalAssumption DEF Init, JournalAssumption
  <1> QED BY <1>1, <1>2 DEF Init, TypeOK, Inside, Waiting

LEMMA TypeBegin ==
  ASSUME TypeOK, NEW c \in Calls, Begin(c)
  PROVE  TypeOK'
  <1> USE DEF TypeOK, Inside, Waiting, Goto, Tells, local
  <1>1. CASE Create(c)
    BY <1>1 DEF Create
  <1>2. ASSUME NEW e \in Wanted, AppendEvent(c, e) PROVE TypeOK'
    <2>1. e \in Events
      BY JournalAssumption DEF JournalAssumption
    <2> QED BY <1>2, <2>1 DEF AppendEvent, Made
  <1> QED BY <1>1, <1>2 DEF Begin

LEMMA TypeStep ==
  ASSUME TypeOK, NEW c \in Calls, Step(c)
  PROVE  TypeOK'
  <1> USE DEF TypeOK, Inside, Waiting, Goto, Tells, local, At
  <1>1. CASE Stamp(c) \/ Enter(c)
    BY <1>1 DEF Stamp, Enter
  <1>2. CASE Link(c)
    <2>1. [call |-> c, old |-> FALSE] \in Locks
      BY DEF Locks
    <2>2. lock' \in Locks \cup {NoLock}
      BY <1>2, <2>1 DEF Link
    <2> QED BY <1>2, <2>2 DEF Link
  <1>3. CASE Verify(c)
    BY <1>3 DEF Verify, Abandons
  <1>4. CASE Inspect(c)
    BY <1>4 DEF Inspect
  <1>5. CASE Judge(c) \/ TimesOut(c)
    BY <1>5 DEF Judge, TimesOut, Forgets, Forgets
  <1>6. CASE Recheck(c)
    BY <1>6 DEF Recheck, Forgets
  <1>7. CASE Steal(c)
    BY <1>7, JournalAssumption DEF Steal, Forgets, JournalAssumption
  <1>8. CASE Audit(c)
    <2>1. snap' \in [Calls -> Journals]
      BY <1>8, EmptyJournal DEF Audit, Leaves
    <2>2. pc' = [pc EXCEPT ![c] = "check"] \/ pc' = [pc EXCEPT ![c] = "publish"]
      BY <1>8 DEF Audit, Leaves
    <2>3. pc'[c] = "publish" => request[c] # Creation
      BY <1>8 DEF Audit, Leaves
    <2>4. result' \in [Calls -> Answers]
      BY <1>8 DEF Audit, Leaves, Answers
    <2> QED BY <1>8, <2>1, <2>2, <2>3, <2>4 DEF Audit, Answers
  <1>9. CASE Publish(c)
    <2>1. Append(snap[c], request[c]) \in Journals
      BY <1>9 DEF Publish, Journals
    <2> QED BY <1>9, <2>1 DEF Publish
  <1>10. CASE Reread(c)
    <2>1. snap' \in [Calls -> Journals]
      BY <1>10, EmptyJournal DEF Reread, Leaves
    <2> QED BY <1>10, <2>1 DEF Reread, Leaves
  <1>11. CASE PublishCache(c)
    <2>1. Append(snap[c], request[c]) \in Journals
      BY <1>11 DEF PublishCache, Journals
    <2> QED BY <1>11, <2>1 DEF PublishCache
  <1>12. CASE RereadCache(c)
    BY <1>12 DEF RereadCache, Leaves, Journals
  <1>13. CASE Check(c)
    BY <1>13 DEF Check, Abandons
  <1>14. CASE Unlink(c)
    BY <1>14 DEF Unlink, Abandons
  <1> QED BY <1>1, <1>2, <1>3, <1>4, <1>5, <1>6, <1>7, <1>8, <1>9, <1>10, <1>11,
             <1>12, <1>13, <1>14 DEF Step

LEMMA TypeNext == TypeOK /\ [Next]_vars => TypeOK'
  <1> SUFFICES ASSUME TypeOK, [Next]_vars PROVE TypeOK'
    OBVIOUS
  <1>1. CASE UNCHANGED vars
    BY <1>1 DEF vars, TypeOK
  <1>2. ASSUME NEW c \in Calls, Fails(c) PROVE TypeOK'
    <2> USE DEF TypeOK, Goto, Tells, At, Inside, Waiting
    <2>1. CASE StepFails(c)
      BY <2>1 DEF StepFails, Leaves, Journals
    <2>2. CASE GivesUp(c)
      BY <2>2 DEF GivesUp, Forgets
    <2>3. CASE RecheckFails(c)
      BY <2>3 DEF RecheckFails, Forgets
    <2> QED BY <1>2, <2>1, <2>2, <2>3 DEF Fails
  <1>3. CASE LockAges
    BY <1>3 DEF LockAges, TypeOK, Locks, local
  <1>4. ASSUME NEW p \in Processes, Crash(p) PROVE TypeOK'
    BY <1>4 DEF Crash, TypeOK, local
  <1> QED BY <1>1, <1>2, <1>3, <1>4, TypeBegin, TypeStep DEF Next

\* The directory, the files, the lock and every call keep their shape, for any
\* calls, processes, events and bounds (run-journal.mjs).
THEOREM JournalType == Spec => []TypeOK
  BY TypeInit, TypeNext, PTL DEF Spec

------------------------------------------------------------------------------
(* The lock *)

\* The lock belongs to a call under way, and every live call inside has it
\* unless a live lock was broken.
HoldInv ==
  /\ NoLockLeft
  /\ stolen \/ \A c \in Calls : pc[c] \in Inside /\ Host[c] \notin dead => Mine(c)

LEMMA HoldInit == Init => HoldInv
  BY DEF Init, HoldInv, NoLockLeft, Inside

LEMMA HoldStep ==
  ASSUME TypeOK, HoldInv, NEW c \in Calls, Step(c)
  PROVE  HoldInv'
  <1> USE DEF TypeOK, HoldInv, NoLockLeft, InUse, Inside, Waiting, Goto, Tells, local, At, Mine, Locks, NoLock
  <1>0. 0 \notin Calls
    BY JournalAssumption DEF JournalAssumption
  <1>1. CASE Stamp(c) \/ Enter(c)
    BY <1>0, <1>1 DEF Stamp, Enter
  <1>2. CASE Link(c)
    BY <1>0, <1>2 DEF Link
  <1>3. CASE Verify(c)
    BY <1>0, <1>3 DEF Verify, Abandons
  <1>4. CASE Inspect(c)
    BY <1>0, <1>4 DEF Inspect
  <1>5. CASE Judge(c) \/ TimesOut(c)
    BY <1>0, <1>5 DEF Judge, TimesOut, Forgets
  <1>6. CASE Recheck(c)
    BY <1>0, <1>6 DEF Recheck
  <1>7. CASE Steal(c)
    BY <1>0, <1>7 DEF Steal
  <1>8. CASE Audit(c)
    <2>1. pc' = [pc EXCEPT ![c] = "check"] \/ pc' = [pc EXCEPT ![c] = "publish"]
      BY <1>8 DEF Audit, Leaves
    <2> QED BY <1>0, <1>8, <2>1 DEF Audit
  <1>9. CASE Publish(c) \/ Reread(c) \/ PublishCache(c) \/ RereadCache(c)
    BY <1>0, <1>9 DEF Publish, Reread, PublishCache, RereadCache, Leaves
  <1>10. CASE Check(c)
    <2>1. CASE Abandons(c)
      BY <1>0, <1>10, <2>1 DEF Check, Abandons
    <2>2. CASE Mine(c) /\ Goto(c, "unlink") /\ UNCHANGED left
      BY <1>0, <1>10, <2>2 DEF Check
    <2> QED BY <1>10, <2>1, <2>2 DEF Check
  <1>11. CASE Unlink(c)
    <2>1. CASE Abandons(c) /\ UNCHANGED <<lock, stolen>>
      BY <1>0, <1>11, <2>1 DEF Unlink, Abandons
    <2>2. CASE lock' = NoLock /\ Goto(c, "done") /\ stolen' = (stolen \/ (InUse /\ ~Mine(c)))
      <3>1. NoLockLeft'
        BY <2>2
      <3>2. ASSUME ~stolen', NEW d \in Calls, pc'[d] \in Inside, Host[d] \notin dead PROVE Mine(d)'
        <4>1. pc[d] \in Inside /\ d # c
          BY <1>11, <2>2, <3>2
        <4>2. ~stolen /\ Mine(d) /\ ~Mine(c)
          BY <1>0, <2>2, <3>2, <4>1
        <4>3. InUse
          BY <1>0, <3>2, <4>1, <4>2
        <4> QED BY <2>2, <3>2, <4>2, <4>3
      <3>3. stolen' \in BOOLEAN /\ dead' = dead
        BY <1>11, <2>2 DEF Unlink
      <3> QED BY <3>1, <3>2, <3>3
    <2> QED BY <1>11, <2>1, <2>2 DEF Unlink
  <1> QED BY <1>1, <1>2, <1>3, <1>4, <1>5, <1>6, <1>7, <1>8, <1>9, <1>10, <1>11 DEF Step

LEMMA HoldNext == TypeOK /\ HoldInv /\ [Next]_vars => HoldInv'
  <1> SUFFICES ASSUME TypeOK, HoldInv, [Next]_vars PROVE HoldInv'
    OBVIOUS
  <1> USE DEF TypeOK, HoldInv, NoLockLeft, Inside, Mine, Locks, NoLock
  <1>0. 0 \notin Calls
    BY JournalAssumption DEF JournalAssumption
  <1>1. CASE UNCHANGED vars
    BY <1>1 DEF vars
  <1>2. ASSUME NEW c \in Calls, Begin(c) PROVE HoldInv'
    BY <1>0, <1>2 DEF Begin, Create, AppendEvent, Made, Goto, local, Waiting
  <1>3. ASSUME NEW c \in Calls, Fails(c) PROVE HoldInv'
    BY <1>0, <1>3 DEF Fails, StepFails, GivesUp, RecheckFails, Forgets, Leaves, Goto, At, Waiting
  <1>4. CASE LockAges
    BY <1>4 DEF LockAges, local
  <1>5. ASSUME NEW p \in Processes, Crash(p) PROVE HoldInv'
    BY <1>5 DEF Crash, local
  <1> QED BY <1>1, <1>2, <1>3, <1>4, <1>5, HoldStep DEF Next

\* A lock file is that of a call under way, or of one that could not read or remove it,
\* theft or not (operate, releaseRunLock).
THEOREM JournalLock == Spec => []NoLockLeft
  <1>1. HoldInv => NoLockLeft
    BY DEF HoldInv
  <1> QED BY <1>1, HoldInit, HoldNext, JournalType, PTL DEF Spec

\* As long as no live lock was broken, one call at a time works on the files
\* (acquireRunLock, releaseRunLock).
THEOREM JournalExclusion == Spec => [](NoTheft => MutualExclusion)
  <1>1. HoldInv => (NoTheft => MutualExclusion)
    BY DEF HoldInv, NoTheft, MutualExclusion, Mine
  <1> QED BY <1>1, HoldInit, HoldNext, JournalType, PTL DEF Spec

------------------------------------------------------------------------------
(* Sequences of events *)

LEMMA PrefixSelf ==
  ASSUME NEW s \in Journals
  PROVE  IsPrefix(s, s)
  BY DEF IsPrefix, Journals

LEMMA PrefixOfAppend ==
  ASSUME NEW s \in Journals, NEW t \in Journals, NEW e \in Events, IsPrefix(s, t)
  PROVE  IsPrefix(s, Append(t, e))
  <1> USE DEF Journals
  <1>1. Len(s) \in Nat /\ Len(t) \in Nat /\ Len(s) <= Len(t)
    BY DEF IsPrefix
  <1>2. SubSeq(t, 1, Len(s)) = SubSeq(Append(t, e), 1, Len(s))
    BY <1>1
  <1> QED BY <1>1, <1>2 DEF IsPrefix

LEMMA BeforeOfAppend ==
  ASSUME NEW s \in Journals, NEW e \in Events
  PROVE  /\ \A i \in 1..Len(s) : SubSeq(Append(s, e), 1, i - 1) = SubSeq(s, 1, i - 1)
         /\ SubSeq(Append(s, e), 1, Len(s)) = s
  BY DEF Journals

\* An entry that the reducer takes and that has a new key keeps a journal replayable.
LEMMA ReplaysAppend ==
  ASSUME NEW s \in Journals, NEW e \in Events, Replays(s), Accepts(s, e), ~Keyed(s, e)
  PROVE  Replays(Append(s, e))
  <1>1. /\ Append(s, e) \in Journals
        /\ DOMAIN Append(s, e) = 1..(Len(s) + 1)
        /\ \A i \in 1..Len(s) : Append(s, e)[i] = s[i]
        /\ Append(s, e)[Len(s) + 1] = e
        /\ Len(s) \in Nat /\ DOMAIN s = 1..Len(s)
    BY AppendProperties DEF Journals
  <1> SUFFICES ASSUME NEW i \in 1..(Len(s) + 1)
               PROVE  /\ Accepts(SubSeq(Append(s, e), 1, i - 1), Append(s, e)[i])
                      /\ ~Keyed(SubSeq(Append(s, e), 1, i - 1), Append(s, e)[i])
    BY <1>1 DEF Replays
  <1>2. CASE i \in 1..Len(s)
    BY <1>1, <1>2, BeforeOfAppend DEF Replays
  <1>3. CASE i = Len(s) + 1
    <2>1. SubSeq(Append(s, e), 1, i - 1) = s
      BY <1>1, <1>3, BeforeOfAppend
    <2> QED BY <1>1, <1>3, <2>1
  <1> QED BY <1>1, <1>2, <1>3

LEMMA HoldsAppend ==
  ASSUME NEW s \in Journals, NEW e \in Events, NEW f
  PROVE  /\ Holds(Append(s, e), e)
         /\ Holds(s, f) => Holds(Append(s, e), f)
  <1>1. /\ DOMAIN Append(s, e) = 1..(Len(s) + 1)
        /\ \A i \in 1..Len(s) : Append(s, e)[i] = s[i]
        /\ Append(s, e)[Len(s) + 1] = e
        /\ Len(s) \in Nat /\ DOMAIN s = 1..Len(s)
    BY AppendProperties DEF Journals
  <1> QED BY <1>1 DEF Holds

LEMMA NewestHolds ==
  ASSUME NEW s \in Journals, NEW e, Newest(s, e)
  PROVE  Holds(s, e) /\ e \in Events
  <1>1. Len(s) \in DOMAIN s /\ s[Len(s)] \in Events
    BY DEF Journals, Newest
  <1> QED BY <1>1 DEF Newest, Holds

------------------------------------------------------------------------------
(* The journal always replays *)

ReplayInv ==
  /\ JournalReplays
  /\ \A c \in Calls : pc[c] = "publish" => Replays(Append(snap[c], request[c]))

LEMMA ReplayInit == Init => ReplayInv
  BY DEF Init, ReplayInv, JournalReplays, Replays

LEMMA ReplayStep ==
  ASSUME TypeOK, ReplayInv, NEW c \in Calls, Step(c)
  PROVE  ReplayInv'
  <1> USE DEF TypeOK, ReplayInv, JournalReplays, Inside, Waiting, Goto, local, At
  <1>1. CASE Stamp(c) \/ Enter(c) \/ Link(c) \/ Verify(c) \/ Inspect(c) \/ Check(c) \/ Unlink(c)
    BY <1>1 DEF Stamp, Enter, Link, Verify, Inspect, Check, Unlink, Abandons
  <1>2. CASE Judge(c) \/ TimesOut(c) \/ Recheck(c) \/ Steal(c)
    BY <1>2 DEF Judge, TimesOut, Forgets, Recheck, Steal
  <1>3. CASE Audit(c)
    <2>1. UNCHANGED <<journal, request>>
      BY <1>3 DEF Audit
    <2>2. ASSUME pc'[c] = "publish" PROVE Replays(Append(snap'[c], request'[c]))
      <3>1. /\ request[c] # Creation /\ ~Keyed(journal, request[c]) /\ Accepts(journal, request[c])
            /\ snap'[c] = journal
        BY <1>3, <2>2 DEF Audit, Leaves
      <3> QED BY <2>1, <3>1, ReplaysAppend
    <2>3. \A d \in Calls \ {c} : pc'[d] = pc[d] /\ snap'[d] = snap[d]
      BY <1>3 DEF Audit, Leaves
    <2> QED BY <2>1, <2>2, <2>3
  <1>4. CASE Publish(c)
    BY <1>4 DEF Publish
  <1>5. CASE Reread(c) \/ RereadCache(c)
    BY <1>5 DEF Reread, RereadCache, Leaves
  <1>6. CASE PublishCache(c)
    BY <1>6 DEF PublishCache
  <1> QED BY <1>1, <1>2, <1>3, <1>4, <1>5, <1>6 DEF Step

LEMMA ReplayNext == TypeOK /\ ReplayInv /\ [Next]_vars => ReplayInv'
  <1> SUFFICES ASSUME TypeOK, ReplayInv, [Next]_vars PROVE ReplayInv'
    OBVIOUS
  <1> USE DEF TypeOK, ReplayInv, JournalReplays, local
  <1>1. CASE UNCHANGED vars
    BY <1>1 DEF vars
  <1>2. ASSUME NEW c \in Calls, Begin(c) PROVE ReplayInv'
    BY <1>2 DEF Begin, Create, AppendEvent, Made, Goto, Waiting, Inside
  <1>3. ASSUME NEW c \in Calls, Fails(c) PROVE ReplayInv'
    BY <1>3 DEF Fails, StepFails, GivesUp, RecheckFails, Forgets, Leaves, Goto, At, Waiting, Inside
  <1>4. CASE LockAges
    BY <1>4 DEF LockAges
  <1>5. ASSUME NEW p \in Processes, Crash(p) PROVE ReplayInv'
    BY <1>5 DEF Crash
  <1> QED BY <1>1, <1>2, <1>3, <1>4, <1>5, ReplayStep DEF Next

\* Whatever happens to locks and processes, the journal on disk is one the reducer
\* takes entry by entry, with one entry per key (run-reducer.mjs, commitAppend).
THEOREM JournalAlwaysReplays == Spec => []JournalReplays
  <1>1. ReplayInv => JournalReplays
    BY DEF ReplayInv
  <1> QED BY <1>1, ReplayInit, ReplayNext, JournalType, PTL DEF Spec

------------------------------------------------------------------------------
(* What the lock protects *)

\* A call has no answer before the end of its operation.
PendingInv ==
  \A c \in Calls : pc[c] \notin {"check", "unlink", "done"} => result[c] = "pending"

\* A live call inside works on the files as it read or wrote them.
Fresh(c) ==
  /\ pc[c] = "publish" => /\ snap[c] = journal
                          /\ Accepts(journal, request[c])
                          /\ ~Keyed(journal, request[c])
  /\ pc[c] \in {"reread", "cache", "recache"} => journal = Append(snap[c], request[c])
  /\ pc[c] = "recache" => cache = journal

DataInv ==
  stolen \/ /\ IsPrefix(cache, journal)
            /\ AppendedIsDurable
            /\ \A c \in Calls : Host[c] \notin dead => Fresh(c)

SafeInv == TypeOK /\ HoldInv /\ PendingInv /\ DataInv

LEMMA SafeInit == Init => SafeInv
  <1>1. Init => IsPrefix(cache, journal)
    BY EmptyJournal, PrefixSelf DEF Init
  <1> QED BY <1>1, TypeInit, HoldInit
          DEF SafeInv, Init, PendingInv, DataInv, Fresh, AppendedIsDurable

LEMMA PendingNext == TypeOK /\ PendingInv /\ [Next]_vars => PendingInv'
  <1> SUFFICES ASSUME TypeOK, PendingInv, [Next]_vars PROVE PendingInv'
    OBVIOUS
  <1> USE DEF TypeOK, PendingInv, local, Goto, Tells, At
  <1>1. CASE UNCHANGED vars
    BY <1>1 DEF vars
  <1>2. ASSUME NEW c \in Calls, Begin(c) PROVE PendingInv'
    BY <1>2 DEF Begin, Create, AppendEvent, Made
  <1>3. ASSUME NEW c \in Calls, Fails(c) PROVE PendingInv'
    BY <1>3 DEF Fails, StepFails, GivesUp, RecheckFails, Forgets, Leaves
  <1>4. CASE LockAges \/ \E p \in Processes : Crash(p)
    BY <1>4 DEF LockAges, Crash
  <1>5. ASSUME NEW c \in Calls, Step(c) PROVE PendingInv'
    <2>1. CASE Stamp(c) \/ Enter(c) \/ Link(c) \/ Verify(c) \/ Inspect(c) \/ Check(c) \/ Unlink(c)
      BY <2>1 DEF Stamp, Enter, Link, Verify, Inspect, Check, Unlink, Abandons
    <2>2. CASE Judge(c) \/ TimesOut(c) \/ Recheck(c) \/ Steal(c)
      BY <2>2 DEF Judge, TimesOut, Forgets, Recheck, Steal
    <2>3. CASE Audit(c)
      BY <2>3 DEF Audit, Leaves
    <2>4. CASE Publish(c) \/ Reread(c) \/ PublishCache(c) \/ RereadCache(c)
      BY <2>4 DEF Publish, Reread, PublishCache, RereadCache, Leaves
    <2> QED BY <1>5, <2>1, <2>2, <2>3, <2>4 DEF Step
  <1> QED BY <1>1, <1>2, <1>3, <1>4, <1>5 DEF Next

\* Nobody else is inside with a call that holds the lock.
LEMMA AloneInside ==
  ASSUME HoldInv, ~stolen, NEW c \in Calls, pc[c] \in Inside, Host[c] \notin dead,
         NEW d \in Calls, d # c, Host[d] \notin dead
  PROVE  pc[d] \notin Inside
  BY DEF HoldInv, Mine

\* The steps that leave the files and the answers of appends alone.
LEMMA DataKept ==
  ASSUME TypeOK, DataInv, UNCHANGED <<journal, cache, request>>, stolen => stolen',
         dead \subseteq dead',
         \A d \in Calls : /\ result'[d] \in {"appended", "deduped"} => result[d] = result'[d]
                          /\ pc'[d] \in {"publish", "reread", "cache", "recache"}
                               => pc[d] = pc'[d] /\ snap[d] = snap'[d]
  PROVE  DataInv'
  BY DEF DataInv, AppendedIsDurable, Fresh

LEMMA DataStep ==
  ASSUME SafeInv, NEW c \in Calls, Step(c)
  PROVE  DataInv'
  <1> USE DEF SafeInv, local, Goto, Tells, At
  <1>0. pc \in [Calls -> PCs] /\ result \in [Calls -> Answers] /\ snap \in [Calls -> Journals]
    BY DEF TypeOK, PCs, Answers
  <1>1. CASE Stamp(c) \/ Enter(c) \/ Link(c) \/ Inspect(c) \/ Check(c)
    BY <1>0, <1>1, DataKept DEF Stamp, Enter, Link, Inspect, Check, Abandons
  <1>2. CASE Verify(c) \/ Unlink(c)
    <2>1. stolen => stolen'
      BY <1>2, Zenon DEF Verify, Unlink, Abandons
    <2>2. CASE Verify(c)
      BY <1>0, <2>2, DataKept DEF Verify, Abandons
    <2>3. CASE Unlink(c)
      BY <1>0, <2>1, <2>3, DataKept DEF Unlink, Abandons
    <2> QED BY <1>2, <2>2, <2>3
  <1>3. CASE Judge(c) \/ TimesOut(c)
    BY <1>0, <1>3, DataKept DEF Judge, TimesOut, Forgets
  <1>4. CASE Recheck(c) \/ Steal(c)
    <2>1. stolen => stolen'
      BY <1>4, Zenon DEF Recheck, Steal
    <2>2. CASE Recheck(c)
      BY <1>0, <2>2, DataKept DEF Recheck
    <2>3. CASE Steal(c)
      BY <1>0, <2>1, <2>3, DataKept DEF Steal
    <2> QED BY <1>4, <2>2, <2>3
  <1>5. CASE Audit(c)
    <2>1. CASE Newest(journal, request[c]) /\ Leaves(c, "deduped")
      <3>1. Holds(journal, request[c])
        BY <2>1, NewestHolds DEF TypeOK
      <3> QED BY <1>0, <1>5, <2>1, <3>1
              DEF Audit, Leaves, DataInv, AppendedIsDurable, Fresh
    <2>2. CASE Leaves(c, "created") \/ Leaves(c, "failed")
      BY <1>0, <1>5, <2>2, DataKept DEF Audit, Leaves
    <2>3. CASE /\ request[c] # Creation /\ ~Keyed(journal, request[c]) /\ Accepts(journal, request[c])
               /\ Goto(c, "publish")
               /\ snap' = [snap EXCEPT ![c] = journal]
               /\ UNCHANGED result
      BY <1>0, <1>5, <2>3 DEF Audit, DataInv, AppendedIsDurable, Fresh
    <2> QED BY <1>5, <2>1, <2>2, <2>3 DEF Audit
  <1>6. CASE Publish(c)
    <2> SUFFICES ASSUME ~stolen PROVE DataInv'
      BY <1>6 DEF Publish, DataInv
    <2>1. /\ journal' = Append(journal, request[c]) /\ snap[c] = journal
          /\ request[c] \in Events /\ journal \in Journals /\ cache \in Journals
      BY <1>6 DEF Publish, DataInv, Fresh, TypeOK
    <2>2. IsPrefix(cache', journal')
      BY <1>6, <2>1, PrefixOfAppend DEF Publish, DataInv
    <2>3. AppendedIsDurable'
      BY <1>6, <2>1, HoldsAppend DEF Publish, DataInv, AppendedIsDurable
    <2>4. ASSUME NEW d \in Calls, d # c, Host[d] \notin dead PROVE Fresh(d)'
      <3>1. pc[d] \notin Inside
        BY <1>6, <2>4, AloneInside DEF Publish, Inside
      <3> QED BY <1>0, <1>6, <2>4, <3>1 DEF Publish, Fresh, Inside
    <2>5. Fresh(c)'
      BY <1>0, <1>6, <2>1 DEF Publish, Fresh
    <2> QED BY <1>6, <2>2, <2>3, <2>4, <2>5 DEF Publish, DataInv
  <1>7. CASE Reread(c)
    BY <1>0, <1>7 DEF Reread, Leaves, DataInv, AppendedIsDurable, Fresh
  <1>8. CASE PublishCache(c)
    <2> SUFFICES ASSUME ~stolen PROVE DataInv'
      BY <1>8 DEF PublishCache, DataInv
    <2>1. cache' = journal /\ journal' = journal /\ journal \in Journals
      BY <1>8 DEF PublishCache, DataInv, Fresh, TypeOK
    <2>2. IsPrefix(cache', journal')
      BY <2>1, PrefixSelf
    <2>3. ASSUME NEW d \in Calls, d # c, Host[d] \notin dead PROVE Fresh(d)'
      <3>1. pc[d] \notin Inside
        BY <1>8, <2>3, AloneInside DEF PublishCache, Inside
      <3> QED BY <1>0, <1>8, <2>3, <3>1 DEF PublishCache, Fresh, Inside
    <2>4. Fresh(c)' /\ AppendedIsDurable'
      BY <1>0, <1>8, <2>1 DEF PublishCache, Fresh, DataInv, AppendedIsDurable
    <2> QED BY <1>8, <2>2, <2>3, <2>4 DEF PublishCache, DataInv
  <1>9. CASE RereadCache(c)
    <2> SUFFICES ASSUME ~stolen PROVE DataInv'
      BY <1>9 DEF RereadCache, DataInv
    <2>1. Holds(journal, request[c])
      <3>1. request[c] \in Events /\ journal = Append(snap[c], request[c]) /\ snap[c] \in Journals
        BY <1>9 DEF RereadCache, DataInv, Fresh, TypeOK
      <3> QED BY <3>1, HoldsAppend
    <2> QED BY <1>0, <1>9, <2>1
            DEF RereadCache, Leaves, DataInv, AppendedIsDurable, Fresh
  <1> QED BY <1>1, <1>2, <1>3, <1>4, <1>5, <1>6, <1>7, <1>8, <1>9 DEF Step

LEMMA SafeNext == SafeInv /\ [Next]_vars => SafeInv'
  <1> SUFFICES ASSUME SafeInv, [Next]_vars PROVE DataInv'
    BY TypeNext, HoldNext, PendingNext DEF SafeInv
  <1>0. pc \in [Calls -> PCs] /\ result \in [Calls -> Answers] /\ snap \in [Calls -> Journals]
    BY DEF SafeInv, TypeOK, PCs, Answers
  <1>1. CASE UNCHANGED vars
    BY <1>1 DEF vars, SafeInv, DataInv, AppendedIsDurable, Fresh
  <1>2. ASSUME NEW c \in Calls, Begin(c) PROVE DataInv'
    <2>1. CASE Create(c)
      BY <1>0, <2>1, DataKept DEF Create, Made, Goto, Tells, local, SafeInv
    <2>2. ASSUME NEW e \in Wanted, AppendEvent(c, e) PROVE DataInv'
      <3>1. result[c] = "pending" /\ pc[c] = "idle"
        BY <2>2 DEF AppendEvent, Made, SafeInv, PendingInv
      <3>2. \A d \in Calls \ {c} : request'[d] = request[d] /\ pc'[d] = pc[d] /\ result'[d] = result[d]
        BY <2>2 DEF AppendEvent, Goto, Tells, SafeInv, TypeOK
      <3>3. result'[c] \notin {"appended", "deduped"} /\ pc'[c] \in {"queued", "done"}
        BY <1>0, <2>2, <3>1 DEF AppendEvent, Goto, Tells
      <3> QED BY <2>2, <3>1, <3>2, <3>3
              DEF AppendEvent, SafeInv, DataInv, AppendedIsDurable, Fresh
    <2> QED BY <1>2, <2>1, <2>2 DEF Begin
  <1>3. ASSUME NEW c \in Calls, Fails(c) PROVE DataInv'
    BY <1>0, <1>3, DataKept DEF Fails, StepFails, GivesUp, RecheckFails, Forgets, Leaves, Goto, Tells, SafeInv
  <1>4. CASE LockAges
    BY <1>4, DataKept DEF LockAges, local, SafeInv
  <1>5. ASSUME NEW p \in Processes, Crash(p) PROVE DataInv'
    BY <1>5, DataKept DEF Crash, local, SafeInv
  <1> QED BY <1>1, <1>2, <1>3, <1>4, <1>5, DataStep DEF Next

LEMMA SafeAlways == Spec => []SafeInv
  BY SafeInit, SafeNext, PTL DEF Spec

\* As long as no live lock was broken, an entry a caller was told of is in the
\* journal, crashes and failed steps notwithstanding (commitAppend).
THEOREM JournalDurable == Spec => [](NoTheft => AppendedIsDurable)
  <1>1. SafeInv => (NoTheft => AppendedIsDurable)
    BY DEF SafeInv, DataInv, NoTheft
  <1> QED BY <1>1, SafeAlways, PTL

\* As long as no live lock was broken, the cache never runs ahead of the journal
\* (republishStateCache after atomicPublish; auditStateCache).
THEOREM JournalCache == Spec => []CacheBehind
  <1>1. SafeInv => CacheBehind
    BY DEF SafeInv, DataInv, CacheBehind
  <1> QED BY <1>1, SafeAlways, PTL

\* Without a broken live lock no entry is lost or rewritten (commitAppend).
THEOREM JournalAppendOnly == Spec /\ []NoTheft => AppendOnly
  <1>1. SafeInv /\ NoTheft /\ [Next]_vars => [IsPrefix(journal, journal')]_vars
    <2> SUFFICES ASSUME SafeInv, ~stolen, Next PROVE IsPrefix(journal, journal')
      BY DEF NoTheft
    <2>1. ASSUME NEW c \in Calls, Publish(c) PROVE IsPrefix(journal, journal')
      <3>1. /\ journal' = Append(journal, request[c])
            /\ request[c] \in Events /\ journal \in Journals
        BY <2>1 DEF Publish, SafeInv, DataInv, Fresh, TypeOK, At
      <3> QED BY <3>1, PrefixSelf, PrefixOfAppend
    <2>2. CASE UNCHANGED journal
      BY <2>2, PrefixSelf DEF SafeInv, TypeOK
    <2>3. UNCHANGED journal \/ \E c \in Calls : Publish(c)
      BY DEF Next, Begin, Create, AppendEvent, Fails, StepFails, GivesUp, RecheckFails, LockAges, Crash, Step, Stamp, Enter,
             Link, Verify, Inspect, Judge, TimesOut, Recheck, Steal, Audit, Reread, PublishCache,
             RereadCache, Check, Unlink
    <2> QED BY <2>1, <2>2, <2>3
  <1> QED BY <1>1, SafeAlways, PTL DEF Spec, AppendOnly

------------------------------------------------------------------------------
(* Two processes *)

Active == Inside \cup {"link", "inspect", "judge", "recheck", "steal"}

\* withRunChain: the calls of a process take turns.
ChainInv ==
  \A c, d \in Calls : Host[c] = Host[d] /\ pc[c] \in Active /\ pc[d] \in Active => c = d

\* As long as no lock file was left, a lock is only broken by the last process alive.
LastAlone ==
  /\ ~stolen
  /\ lock # NoLock /\ lock.old => Host[lock.call] \in dead
  /\ \A c \in Calls : pc[c] \in {"recheck", "steal"} /\ Host[c] \notin dead
       => \A p \in Processes \ {Host[c]} : p \in dead

LastInv == left = {} => LastAlone

LEMMA LeftKept == [Next]_vars => left \subseteq left'
  BY DEF Next, vars, Begin, Create, AppendEvent, Fails, StepFails, GivesUp, RecheckFails, LockAges,
         Crash, Step, Stamp, Enter, Link, Verify, Inspect, Judge, TimesOut, Recheck, Steal, Audit,
         Publish, Reread, PublishCache, RereadCache, Check, Unlink, Abandons, local

LEMMA ChainNext == TypeOK /\ ChainInv /\ [Next]_vars => ChainInv'
  <1> SUFFICES ASSUME TypeOK, ChainInv, [Next]_vars PROVE ChainInv'
    OBVIOUS
  <1> USE DEF TypeOK, ChainInv, Active, Inside, Waiting, local, Goto, At
  <1>1. CASE UNCHANGED vars
    BY <1>1 DEF vars
  <1>2. ASSUME NEW c \in Calls, Begin(c) PROVE ChainInv'
    BY <1>2 DEF Begin, Create, AppendEvent, Made
  <1>3. ASSUME NEW c \in Calls, Fails(c) PROVE ChainInv'
    BY <1>3 DEF Fails, StepFails, GivesUp, RecheckFails, Forgets, Leaves
  <1>4. CASE LockAges \/ \E p \in Processes : Crash(p)
    BY <1>4 DEF LockAges, Crash
  <1>5. ASSUME NEW c \in Calls, Step(c) PROVE ChainInv'
    <2>1. CASE Enter(c)
      BY <2>1 DEF Enter
    <2>2. CASE Stamp(c) \/ Link(c) \/ Verify(c) \/ Inspect(c) \/ Check(c) \/ Unlink(c)
      BY <2>2 DEF Stamp, Link, Verify, Inspect, Check, Unlink, Abandons
    <2>3. CASE Judge(c) \/ TimesOut(c)
      BY <2>3 DEF Judge, TimesOut, Forgets
    <2>4. CASE Recheck(c) \/ Steal(c)
      BY <2>4 DEF Recheck, Steal
    <2>5. CASE Audit(c)
      <3>1. pc' = [pc EXCEPT ![c] = "check"] \/ pc' = [pc EXCEPT ![c] = "publish"]
        BY <2>5 DEF Audit, Leaves
      <3> QED BY <2>5, <3>1 DEF Audit
    <2>6. CASE Publish(c) \/ Reread(c) \/ PublishCache(c) \/ RereadCache(c)
      <3>1. /\ pc[c] \in Inside
            /\ \E place \in Inside : pc' = [pc EXCEPT ![c] = place]
        BY <2>6 DEF Publish, Reread, PublishCache, RereadCache, Leaves
      <3> QED BY <3>1
    <2> QED BY <1>5, <2>1, <2>2, <2>3, <2>4, <2>5, <2>6 DEF Step
  <1> QED BY <1>1, <1>2, <1>3, <1>4, <1>5 DEF Next

\* Every action but the ones that look at locks.
LEMMA LastKept ==
  ASSUME TypeOK, LastAlone, stolen' = stolen, lock' = lock \/ lock'.old = FALSE, dead \subseteq dead',
         \A c \in Calls : pc'[c] \in {"recheck", "steal"} => pc[c] \in {"recheck", "steal"}
  PROVE  LastAlone'
  BY DEF LastAlone

LEMMA LastStep ==
  ASSUME NEW p, NEW q, Processes \subseteq {p, q},
         TypeOK, HoldInv, ChainInv, LastAlone, left = {}, NEW c \in Calls, Step(c)
  PROVE  LastAlone'
  <1> USE DEF local, Goto, Tells, At
  <1>0. /\ pc \in [Calls -> PCs]
        /\ \A d \in Calls : Host[d] \in Processes
        /\ lock # NoLock => lock.call \in Calls
        /\ \A d \in Calls : seen[d] # NoLock => seen[d].call \in Calls
        /\ NoLock.old = FALSE
    BY JournalAssumption DEF TypeOK, PCs, Locks, NoLock, JournalAssumption
  <1>1. CASE Stamp(c) \/ Enter(c) \/ Verify(c) \/ Inspect(c) \/ Check(c)
    BY <1>0, <1>1, LastKept DEF Stamp, Enter, Verify, Inspect, Check, Abandons
  <1>2. CASE Link(c)
    <2>1. lock' = lock \/ lock'.old = FALSE
      BY <1>2 DEF Link
    <2> QED BY <1>0, <1>2, <2>1, LastKept DEF Link
  <1>3. CASE Judge(c) \/ TimesOut(c)
    <2>1. ASSUME pc'[c] = "recheck" PROVE \A r \in Processes \ {Host[c]} : r \in dead
      <3>1. Stale(c) /\ Host[c] \notin dead /\ seen[c] # NoLock
        BY <1>0, <1>3, <2>1 DEF Judge, TimesOut, Forgets, TypeOK
      <3>2. \E d \in Calls : Host[d] \in dead
        BY <1>0, <3>1 DEF Stale, LastAlone
      <3> QED BY <1>0, <3>1, <3>2
    <2>2. \A d \in Calls \ {c} : pc'[d] = pc[d]
      BY <1>0, <1>3 DEF Judge, TimesOut, Forgets
    <2>3. pc'[c] # "steal" /\ UNCHANGED <<lock, dead, stolen>>
      BY <1>0, <1>3 DEF Judge, TimesOut, Forgets
    <2> QED BY <2>1, <2>2, <2>3 DEF LastAlone
  <1>4. CASE Recheck(c)
    BY <1>0, <1>4, LastKept DEF Recheck
  <1>5. CASE Steal(c)
    <2>1. ASSUME lock # NoLock PROVE Host[lock.call] \in dead
      <3>1. pc[lock.call] \in Inside
        BY <2>1 DEF HoldInv, NoLockLeft
      <3>2. lock.call # c /\ pc[c] = "steal"
        BY <1>5, <3>1 DEF Steal, Inside
      <3>3. Host[lock.call] # Host[c]
        BY <1>0, <2>1, <3>1, <3>2 DEF ChainInv, Active
      <3> QED BY <1>0, <1>5, <2>1, <3>3 DEF LastAlone, Steal
    <2>2. stolen' = stolen
      <3>1. stolen = FALSE
        BY DEF TypeOK, LastAlone
      <3>2. stolen' = (stolen \/ InUse)
        BY <1>5 DEF Steal
      <3>3. stolen' = FALSE
        BY <2>1, <3>1, <3>2 DEF InUse
      <3> QED BY <3>1, <3>3
    <2> QED BY <1>0, <1>5, <2>2, LastKept DEF Steal
  <1>6. CASE Audit(c)
    <2>1. pc' = [pc EXCEPT ![c] = "check"] \/ pc' = [pc EXCEPT ![c] = "publish"]
      BY <1>6 DEF Audit, Leaves
    <2> QED BY <1>0, <1>6, <2>1, LastKept DEF Audit
  <1>7. CASE Publish(c) \/ Reread(c) \/ PublishCache(c) \/ RereadCache(c)
    BY <1>0, <1>7, LastKept DEF Publish, Reread, PublishCache, RereadCache, Leaves
  <1>8. CASE Unlink(c)
    <2>1. Mine(c)
      BY <1>8 DEF Unlink, HoldInv, LastAlone, Inside, Abandons
    <2>2. stolen' = stolen
      <3>1. stolen = FALSE
        BY DEF TypeOK, LastAlone
      <3>2. stolen' = (stolen \/ (InUse /\ ~Mine(c))) \/ stolen' = stolen
        BY <1>8 DEF Unlink
      <3>3. stolen' = FALSE
        BY <2>1, <3>1, <3>2
      <3> QED BY <3>1, <3>3
    <2> QED BY <1>0, <1>8, <2>2, LastKept DEF Unlink, Abandons
  <1> QED BY <1>1, <1>2, <1>3, <1>4, <1>5, <1>6, <1>7, <1>8 DEF Step

LEMMA LastNext ==
  ASSUME ~SlowHolder, NEW p, NEW q, Processes \subseteq {p, q}
  PROVE  TypeOK /\ HoldInv /\ ChainInv /\ LastInv /\ [Next]_vars => LastInv'
  <1> SUFFICES ASSUME TypeOK, HoldInv, ChainInv, LastAlone, left = {}, [Next]_vars PROVE LastAlone'
    BY LeftKept DEF LastInv
  <1> USE DEF local, Goto
  <1>0. pc \in [Calls -> PCs]
    BY DEF TypeOK, PCs
  <1>1. CASE UNCHANGED vars
    BY <1>1 DEF vars, LastAlone
  <1>2. ASSUME NEW c \in Calls, Begin(c) PROVE LastAlone'
    BY <1>0, <1>2, LastKept DEF Begin, Create, AppendEvent, Made
  <1>3. ASSUME NEW c \in Calls, Fails(c) PROVE LastAlone'
    BY <1>0, <1>3, LastKept DEF Fails, StepFails, GivesUp, RecheckFails, Forgets, Leaves, At
  <1>4. CASE LockAges
    <2>1. pc[lock.call] \in Inside
      BY <1>4 DEF LockAges, HoldInv, NoLockLeft
    <2>2. Host[lock.call] \in dead /\ lock'.call = lock.call
      BY <1>4, <2>1 DEF LockAges, TypeOK, Locks, NoLock
    <2> QED BY <1>4, <2>2 DEF LockAges, LastAlone
  <1>5. ASSUME NEW r \in Processes, Crash(r) PROVE LastAlone'
    BY <1>5, LastKept DEF Crash
  <1> QED BY <1>1, <1>2, <1>3, <1>4, <1>5, LastStep DEF Next

\* Between two processes whose holders are not slow, recovery breaks a live lock only
\* where a call left its lock file: else it takes a third process for the race of
\* recheck and unlink (acquireRunLock, releaseRunLock).
THEOREM JournalNoTheft ==
  ASSUME ~SlowHolder, NEW p, NEW q, Processes \subseteq {p, q}
  PROVE  Spec => []TheftNeedsLeftLock
  <1>1. Init => ChainInv /\ LastInv
    BY DEF Init, ChainInv, LastInv, LastAlone, Active, Inside
  <1>2. TypeOK /\ HoldInv /\ ChainInv /\ LastInv /\ [Next]_vars => LastInv'
    BY LastNext
  <1>3. LastInv => TheftNeedsLeftLock
    BY DEF LastInv, LastAlone, TheftNeedsLeftLock
  <1> QED BY <1>1, <1>2, <1>3, ChainNext, HoldInit, HoldNext, JournalType, PTL DEF Spec

------------------------------------------------------------------------------
(* The journal implements the log *)

\* The call that makes the directory, or made it and was not told of a failure.
Creator(c) == request[c] = Creation /\ pc[c] # "idle" /\ result[c] # "failed"

CreatorInv ==
  /\ \A c, d \in Calls : Creator(c) /\ Creator(d) => c = d
  /\ \A c \in Calls :
       /\ Creator(c) => dir # "none"
       /\ result[c] = "created" => Creator(c)
       /\ pc[c] \in {"idle", "stamp"} => request[c] = Creation

LEMMA CreatorKept ==
  ASSUME CreatorInv, request' = request, dir # "none" => dir' # "none",
         \A d \in Calls : /\ pc'[d] \in {"idle", "stamp"} => pc'[d] = pc[d]
                          /\ pc[d] = "idle" => pc'[d] = "idle"
                          /\ result[d] = "failed" => result'[d] = "failed"
                          /\ result'[d] = "created" => Creator(d)
                          /\ result'[d] = "created" => pc'[d] # "idle"
  PROVE  CreatorInv'
  BY DEF CreatorInv, Creator

LEMMA CreatorNext == TypeOK /\ PendingInv /\ CreatorInv /\ [Next]_vars => CreatorInv'
  <1> SUFFICES ASSUME TypeOK, PendingInv, CreatorInv, [Next]_vars PROVE CreatorInv'
    OBVIOUS
  <1> USE DEF local, Goto, Tells, At
  <1>0. /\ pc \in [Calls -> PCs] /\ result \in [Calls -> Answers]
        /\ request \in [Calls -> Events \cup {Creation}]
        /\ \A d \in Calls : pc[d] \notin {"check", "unlink", "done"} => result[d] = "pending"
    BY DEF TypeOK, PCs, Answers, PendingInv
  <1>1. CASE UNCHANGED vars
    BY <1>1 DEF vars, CreatorInv, Creator
  <1>2. ASSUME NEW c \in Calls, Create(c) PROVE CreatorInv'
    BY <1>0, <1>2 DEF Create, Made, CreatorInv, Creator
  <1>3. ASSUME NEW c \in Calls, NEW e \in Wanted, AppendEvent(c, e) PROVE CreatorInv'
    <2>1. e # Creation
      BY CreationIsNoEvent, JournalAssumption DEF JournalAssumption
    <2> QED BY <1>0, <1>3, <2>1 DEF AppendEvent, Made, CreatorInv, Creator
  <1>4. ASSUME NEW c \in Calls, Fails(c) PROVE CreatorInv'
    BY <1>0, <1>4 DEF Fails, StepFails, GivesUp, RecheckFails, Forgets, Leaves, CreatorInv, Creator
  <1>5. CASE LockAges \/ \E p \in Processes : Crash(p)
    BY <1>5 DEF LockAges, Crash, CreatorInv, Creator
  <1>6. ASSUME NEW c \in Calls, Step(c) PROVE CreatorInv'
    <2>1. CASE Stamp(c)
      BY <1>0, <2>1 DEF Stamp, CreatorInv, Creator
    <2>2. CASE Enter(c) \/ Link(c) \/ Verify(c) \/ Inspect(c) \/ Check(c) \/ Unlink(c)
      BY <1>0, <2>2 DEF Enter, Link, Verify, Inspect, Check, Unlink, CreatorInv, Creator, Abandons
    <2>3. CASE Judge(c) \/ TimesOut(c)
      BY <1>0, <2>3 DEF Judge, TimesOut, Forgets, CreatorInv, Creator
    <2>4. CASE Recheck(c) \/ Steal(c)
      BY <1>0, <2>4 DEF Recheck, Steal, CreatorInv, Creator
    <2>5. CASE Audit(c)
      <3>1. CASE request[c] = Creation /\ Leaves(c, "created")
        BY <1>0, <2>5, <3>1 DEF Audit, Leaves, CreatorInv, Creator
      <3>2. CASE Leaves(c, "deduped") \/ Leaves(c, "failed")
        BY <1>0, <2>5, <3>2 DEF Audit, Leaves, CreatorInv, Creator
      <3>3. CASE Goto(c, "publish") /\ UNCHANGED result
        BY <1>0, <2>5, <3>3 DEF Audit, CreatorInv, Creator
      <3> QED BY <2>5, <3>1, <3>2, <3>3 DEF Audit
    <2>6. CASE Publish(c) \/ Reread(c) \/ PublishCache(c) \/ RereadCache(c)
      BY <1>0, <2>6 DEF Publish, Reread, PublishCache, RereadCache, Leaves, CreatorInv, Creator
    <2> QED BY <1>6, <2>1, <2>2, <2>3, <2>4, <2>5, <2>6 DEF Step
  <1> QED BY <1>1, <1>2, <1>3, <1>4, <1>5, <1>6 DEF Next, Begin

\* The two modules speak of events in the same words.
LEMMA SameWords ==
  /\ Log!Events = Events
  /\ \A e, j : /\ Log!Accepts(j, e) <=> Accepts(j, e)
               /\ Log!Keyed(j, e) <=> Keyed(j, e)
               /\ Log!Newest(j, e) <=> Newest(j, e)
  <1>1. Log!Events = Events
    BY DEF Log!Events, Events, Log!Open, Open, Log!Start, Start, Log!Progress, Progress,
           Log!End, End, Log!Finish, Finish, Log!Nobody, Nobody
  <1> SUFFICES ASSUME NEW e, NEW j
               PROVE  /\ Log!Accepts(j, e) <=> Accepts(j, e)
                      /\ Log!Keyed(j, e) <=> Keyed(j, e)
                      /\ Log!Newest(j, e) <=> Newest(j, e)
    BY <1>1
  <1>2. /\ Log!Keyed(j, e) <=> Keyed(j, e)
        /\ Log!Newest(j, e) <=> Newest(j, e)
    BY DEF Log!Keyed, Keyed, Log!Newest, Newest, Log!Key, Key
  <1>3. Log!Accepts(j, e) <=> Accepts(j, e)
    BY DEF Log!Accepts, Accepts, Log!Holds, Holds, Log!Open, Open, Log!Start, Start,
           Log!End, End, Log!Finish, Finish, Log!Nobody, Nobody, Log!Started, Started,
           Log!Ended, Ended, Log!Finished, Finished
  <1> QED BY <1>2, <1>3

\* The calls whose entry is committed and that have no answer yet.
Committed == {c \in Calls : pc[c] \in {"reread", "cache", "recache"}}

LEMMA FailImplements ==
  ASSUME TypeOK, NEW c \in Calls, result[c] = "pending", journal' = journal, Tells(c, "failed"),
         Committed' = Committed \ {c}
  PROVE  Log!Fail(c)
  BY DEF Log!Fail, Log!Told, Tells, Committed

LEMMA StepLogs ==
  ASSUME SafeInv, CreatorInv, ~stolen, NEW c \in Calls, Step(c)
  PROVE  [Log!LogNext]_(Log!logVars)
  <1> USE DEF local, Goto, Tells, At, Committed
  <1>0. /\ pc \in [Calls -> PCs] /\ result \in [Calls -> Answers]
        /\ pc[c] \notin {"check", "unlink", "done"} => result[c] = "pending"
    BY DEF SafeInv, TypeOK, PCs, Answers, PendingInv
  <1>1. CASE Stamp(c) \/ Enter(c) \/ Link(c) \/ Inspect(c) \/ Check(c)
    BY <1>0, <1>1 DEF Stamp, Enter, Link, Inspect, Check, Log!logVars, Abandons
  <1>2. CASE Recheck(c) \/ Steal(c) \/ Unlink(c) \/ PublishCache(c)
    BY <1>0, <1>2 DEF Recheck, Steal, Unlink, PublishCache, Log!logVars, Abandons
  <1>3. CASE Verify(c) \/ Judge(c) \/ TimesOut(c)
    <2>1. CASE UNCHANGED result
      BY <1>0, <1>3, <2>1 DEF Verify, Abandons, Judge, TimesOut, Log!logVars
    <2>2. CASE Tells(c, "failed")
      BY <1>0, <1>3, <2>2, FailImplements DEF Verify, Abandons, Judge, TimesOut, Log!LogNext, SafeInv
    <2> QED BY <1>3, <2>1, <2>2 DEF Verify, Abandons, Judge, TimesOut
  <1>4. CASE Audit(c)
    <2>0. result[c] = "pending" /\ UNCHANGED journal /\ UNCHANGED Committed /\ c \notin Committed
      BY <1>0, <1>4 DEF Audit, Leaves
    <2>1. CASE request[c] = Creation /\ Leaves(c, "created")
      <3>1. Creator(c)
        BY <1>0, <1>4, <2>1 DEF Creator, Audit
      <3>2. \A d \in Calls : result[d] # "created"
        BY <2>0, <3>1 DEF CreatorInv
      <3>3. Log!Create(c)
        BY <2>0, <2>1, <3>2 DEF Log!Create, Log!Told, Leaves
      <3> QED BY <3>3 DEF Log!LogNext
    <2>2. CASE Newest(journal, request[c]) /\ Leaves(c, "deduped")
      <3>1. request[c] \in Log!Events /\ Log!Newest(journal, request[c])
        BY <2>2, NewestHolds, SameWords DEF SafeInv, TypeOK
      <3>2. Log!Dedupe(c, request[c])
        BY <2>0, <2>2, <3>1 DEF Log!Dedupe, Log!Told, Leaves
      <3> QED BY <3>1, <3>2 DEF Log!LogNext
    <2>3. CASE Leaves(c, "failed")
      BY <2>0, <2>3, FailImplements DEF Log!LogNext, Leaves, SafeInv
    <2>4. CASE UNCHANGED result
      BY <2>0, <2>4 DEF Log!logVars
    <2> QED BY <1>4, <2>1, <2>2, <2>3, <2>4 DEF Audit
  <1>5. CASE Publish(c)
    <2>1. PICK e \in Log!Events : e = request[c]
      BY <1>5, SameWords DEF Publish, SafeInv, TypeOK
    <2>2. /\ journal' = Append(journal, e)
          /\ ~Log!Keyed(journal, e) /\ Log!Accepts(journal, e)
      BY <1>5, <2>1, SameWords DEF Publish, SafeInv, DataInv, Fresh
    <2>3. Log!Commit(c, e)
      BY <1>0, <1>5, <2>2 DEF Log!Commit, Publish
    <2> QED BY <2>3 DEF Log!LogNext
  <1>6. CASE Reread(c)
    BY <1>0, <1>6 DEF Reread, SafeInv, DataInv, Fresh, Log!logVars
  <1>7. CASE RereadCache(c)
    <2>1. cache = Append(snap[c], request[c])
      BY <1>7 DEF RereadCache, SafeInv, DataInv, Fresh
    <2>2. Log!Confirm(c)
      BY <1>0, <1>7, <2>1 DEF RereadCache, Leaves, Log!Confirm, Log!Told
    <2> QED BY <2>2 DEF Log!LogNext
  <1> QED BY <1>1, <1>2, <1>3, <1>4, <1>5, <1>6, <1>7 DEF Step

LEMMA TheftKept == [Next]_vars /\ stolen => stolen'
  BY Zenon DEF Next, vars, Begin, Create, AppendEvent, Fails, StepFails, GivesUp, RecheckFails,
         LockAges, Crash, Step, Stamp, Enter, Link, Verify, Inspect, Judge, TimesOut, Recheck,
         Steal, Audit, Publish, Reread, PublishCache, RereadCache, Check, Unlink

LEMMA NextLogs == SafeInv /\ CreatorInv /\ NoTheft /\ [Next]_vars => [Log!LogNext]_(Log!logVars)
  <1> SUFFICES ASSUME SafeInv, CreatorInv, ~stolen, [Next]_vars PROVE [Log!LogNext]_(Log!logVars)
    BY DEF NoTheft
  <1> USE DEF local, Goto, Tells, Committed
  <1>0. /\ pc \in [Calls -> PCs] /\ result \in [Calls -> Answers]
        /\ \A c \in Calls : pc[c] \notin {"check", "unlink", "done"} => result[c] = "pending"
    BY DEF SafeInv, TypeOK, PCs, Answers, PendingInv
  <1>1. CASE UNCHANGED vars
    BY <1>1 DEF vars, Log!logVars
  <1>2. ASSUME NEW c \in Calls, Begin(c) PROVE [Log!LogNext]_(Log!logVars)
    <2>1. CASE UNCHANGED result
      BY <1>0, <1>2, <2>1 DEF Begin, Create, AppendEvent, Made, Log!logVars
    <2>2. CASE Tells(c, "failed")
      <3>1. result[c] = "pending" /\ journal' = journal /\ Committed' = Committed \ {c}
        BY <1>0, <1>2 DEF Begin, Create, AppendEvent, Made
      <3> QED BY <2>2, <3>1, FailImplements DEF Log!LogNext, SafeInv
    <2> QED BY <1>2, <2>1, <2>2 DEF Begin, Create, AppendEvent
  <1>3. ASSUME NEW c \in Calls, Fails(c) PROVE [Log!LogNext]_(Log!logVars)
    <2>1. result[c] = "pending" /\ journal' = journal /\ Committed' = Committed \ {c}
      BY <1>0, <1>3 DEF Fails, StepFails, GivesUp, RecheckFails, Leaves, At
    <2>2. CASE RecheckFails(c)
      BY <1>0, <2>2 DEF RecheckFails, At, Log!logVars
    <2>3. CASE Tells(c, "failed")
      BY <2>1, <2>3, FailImplements DEF Log!LogNext, SafeInv
    <2> QED BY <1>3, <2>2, <2>3 DEF Fails, StepFails, GivesUp, Leaves
  <1>4. CASE LockAges \/ \E p \in Processes : Crash(p)
    BY <1>4 DEF LockAges, Crash, Log!logVars
  <1> QED BY <1>1, <1>2, <1>3, <1>4, StepLogs DEF Next

\* Until a live lock is broken, directory, lock, files and cache amount to one
\* append-only log with an entry per key, whatever crashes or throws (run-journal.mjs:1906).
THEOREM JournalIsLog == Spec => AtomicLog
  <1>1. Init => Log!LogInit
    BY DEF Init, Log!LogInit
  <1>2. Init => CreatorInv
    BY DEF Init, CreatorInv, Creator
  <1>3. SafeInv /\ CreatorInv /\ [Next]_vars => CreatorInv'
    BY CreatorNext DEF SafeInv
  <1>4. SafeInv /\ CreatorInv /\ [Next]_vars => [Log!LogNext \/ stolen']_(Log!logVars)
    <2>1. [Next]_vars /\ stolen => stolen'
      BY TheftKept
    <2> QED BY <2>1, NextLogs DEF NoTheft
  <1> QED BY <1>1, <1>2, <1>3, <1>4, SafeAlways, PTL DEF Spec, AtomicLog
=============================================================================
