-------------------------- MODULE CloudLedgerProofs --------------------------
(***************************************************************************)
(* Proofs about the submission ledger of the cloud plug-in, for any number *)
(* of servers, calls and requests, whatever fails or dies: types, that     *)
(* receipts are true, and, until the lock of a live call is removed by     *)
(* another, that no request is accepted twice; that two servers never      *)
(* remove the lock of a live call.                                         *)
(***************************************************************************)
EXTENDS CloudLedger, TLAPS

\* Places of a call whose lock directory has no owner file, and of one whose file it has.
Building == {"owner", "breakDir", "rmdir"}
Owning == {"load", "recover", "operate", "release", "unlink"}

\* The directory without an owner file belongs to the one call that fills or removes it,
\* whatever was stolen; until something is, the owner file belongs to the call that works
\* under the lock.
LockInv ==
  /\ \A c \in Calls : pc[c] \in Building => lock.made /\ lock.owner = Nobody
  /\ \A c, d \in Calls : pc[c] \in Building /\ pc[d] \in Building => c = d
  /\ ~stolen => \A c \in Calls : pc[c] \in Owning => lock.owner = c
  /\ \A c \in Calls : Host[c] \in dead => pc[c] = "idle"

\* Places after the operation.
Past == {"release", "unlink", "rmdir", "ended"}

\* What a begin has come to is known until the call goes on.
CallInv ==
  \A c \in Calls :
    /\ pc[c] = "idle" => op[c] = "lookup"
    /\ pc[c] = "ask" => op[c] = "begin"
    /\ outcome[c] \notin {"ok", "thrown"} => op[c] = "begin" /\ pc[c] \in Past

\* The provider has accepted what a record or a memory of it calls completed, what a call
\* is about to complete, and what it found to be a duplicate.
ReceiptInv ==
  /\ ReceiptsAreTrue
  /\ \A r \in Requests : file[r].status = "completed" => accepted[r] > 0
  /\ \A c \in Calls, r \in Requests : mem[c][r].status = "completed" => accepted[r] > 0
  /\ \A c \in Calls :
       op[c] = "complete" \/ outcome[c] = "duplicate" => accepted[want[c]] > 0

Reserved == {"pending", "completed", "uncertain"}

\* The submission of a request is the call's: it may ask the provider, or the provider has answered
\* and the answer is not yet in the record.
Submits(c, r) ==
  /\ want[c] = r
  /\ \/ pc[c] = "ask" \/ outcome[c] = "go"
     \/ op[c] \in {"complete", "uncertain"}
     \/ op[c] = "fail" /\ pc[c] \notin Past

\* What the holder of the lock has read is the file, but for what it has recovered.
Agrees(read, record) ==
  read = record \/ (record.status = "pending" /\ read = [record EXCEPT !.status = "uncertain"])
ReadInv ==
  \A c \in Calls :
    /\ pc[c] = "operate" => mem[c] = file
    /\ pc[c] = "recover" => \A r \in Requests : Agrees(mem[c][r], file[r])

\* A request that was accepted, or is being submitted, is reserved in the file; one call submits
\* it, and before it knows of an acceptance there was none.
SoleInv(r) ==
  /\ accepted[r] < 2
  /\ accepted[r] > 0 => file[r].status \in Reserved
  /\ \A c \in Calls : Submits(c, r) =>
       /\ file[r].status \in Reserved
       /\ op[c] \in {"begin", "fail"} => accepted[r] = 0
       /\ \A d \in Calls : Submits(d, r) => c = d
SubmissionInv ==
  ~stolen => ReadInv /\ \A r \in Requests \ (garbled \cup forgotten) : SoleInv(r)

------------------------------------------------------------------------------
(* Types *)

LEMMA BlankType ==
  /\ Blank \in [Requests -> Records]
  /\ Unowned \in [Requests -> Calls \cup {Nobody}]
  /\ NoLock \in [made : BOOLEAN, owner : Calls \cup {Nobody}, old : BOOLEAN]
  /\ NoLock.owner = Nobody
BY DEF Blank, NoRecord, Unowned, NoLock, Records

LEMMA InitType == Init => TypeOK /\ CallInv
<1> SUFFICES ASSUME Init PROVE TypeOK /\ CallInv
  OBVIOUS
<1>1. /\ file \in [Requests -> Records] /\ mem \in [Calls -> [Requests -> Records]]
      /\ owners \in [Processes -> [Requests -> Calls \cup {Nobody}]]
      /\ lock \in [made : BOOLEAN, owner : Calls \cup {Nobody}, old : BOOLEAN]
      /\ lock.owner = Nobody
  BY BlankType DEF Init
<1>2. /\ want \in [Calls -> Requests \cup {Nobody}]
      /\ \A c \in Calls : want[c] = Nobody <=> op[c] = "lookup"
  BY DEF Init
<1>3. /\ pc \in [Calls -> {"idle", "queued", "ask", "ended"} \cup Locking \cup Holding]
      /\ op \in [Calls -> {"lookup", "begin"} \cup DOMAIN Final]
      /\ outcome \in [Calls -> {"ok", "go", "refused", "duplicate", "thrown"}]
  BY DEF Init
<1>6. accepted \in [Requests -> 0..2] /\ faults \in 0..MaxFaults
  BY LedgerAssumption DEF Init
<1>7. stolen \in BOOLEAN
  BY Zenon DEF Init
<1>4. dead \subseteq Processes /\ {aged, garbled, forgotten, receipts} \subseteq SUBSET Requests
  BY DEF Init
<1>5. CallInv
  BY DEF Init, CallInv
<1> QED BY <1>1, <1>2, <1>3, <1>4, <1>5, <1>6, <1>7 DEF TypeOK

\* The operations that end a submission.
LEMMA Names ==
  /\ DOMAIN Final = {"complete", "fail", "uncertain"}
  /\ Final["complete"] = "completed" /\ Final["fail"] = "failed"
  /\ Final["uncertain"] = "uncertain"
BY DEF Final

\* Whatever becomes of a write, the file is as it was or what was to be written.
LEMMA AttemptType ==
  ASSUME TypeOK, NEW c \in Calls, NEW records \in [Requests -> Records],
         NEW result \in {"ok", "go", "refused", "duplicate", "thrown"},
         Attempt(c, records, result)
  PROVE  /\ file' \in [Requests -> Records]
         /\ aged' \in SUBSET Requests
         /\ forgotten' = forgotten
         /\ outcome' \in [Calls -> {"ok", "go", "refused", "duplicate", "thrown"}]
         /\ \E got \in {result, "thrown"} : outcome' = [outcome EXCEPT ![c] = got]
         /\ faults' \in 0..MaxFaults
         /\ file' = records \/ file' = file
         /\ outcome'[c] = "thrown" \/ (file' = records /\ outcome'[c] = result)
<1> USE LedgerAssumption DEF TypeOK, Attempt, Gets
<1>1. CASE Writes(records) /\ Gets(c, result) /\ UNCHANGED faults
  BY <1>1 DEF Writes
<1>2. CASE /\ faults < MaxFaults /\ faults' = faults + 1
           /\ Writes(records) \/ UNCHANGED <<file, aged>>
           /\ Gets(c, "thrown")
  BY <1>2 DEF Writes
<1> QED BY <1>1, <1>2

\* The records that an operation may write.
LEMMA RecordType ==
  ASSUME TypeOK, NEW c \in Calls, want[c] \in Requests
  PROVE  /\ Found(c) \in Records
         /\ \A record \in Records : [mem[c] EXCEPT ![want[c]] = record] \in [Requests -> Records]
         /\ \A d \in Calls \cup {Nobody} : [status |-> "pending", owner |-> d] \in Records
         /\ [status |-> "uncertain", owner |-> Nobody] \in Records
         /\ \A s \in {"pending", "completed", "failed", "uncertain"} :
              [Found(c) EXCEPT !.status = s] \in Records
<1>1. mem[c] \in [Requests -> Records] /\ Found(c) \in Records
  BY DEF TypeOK, Found
<1>2. \A record \in Records : [mem[c] EXCEPT ![want[c]] = record] \in [Requests -> Records]
  BY <1>1
<1>3. \A s \in {"pending", "completed", "failed", "uncertain"} :
        [Found(c) EXCEPT !.status = s] \in Records
  BY <1>1 DEF Records
<1> QED BY <1>1, <1>2, <1>3 DEF Records

LEMMA OwnerType ==
  ASSUME TypeOK, NEW c \in Calls, want[c] \in Requests, NEW d \in Calls \cup {Nobody},
         SetOwner(c, d)
  PROVE  owners' \in [Processes -> [Requests -> Calls \cup {Nobody}]]
BY LedgerAssumption DEF TypeOK, SetOwner

\* The types of the places and results of the calls, and of everything else.
CallType ==
  /\ pc \in [Calls -> {"idle", "queued", "ask", "ended"} \cup Locking \cup Holding]
  /\ op \in [Calls -> {"lookup", "begin"} \cup DOMAIN Final]
  /\ want \in [Calls -> Requests \cup {Nobody}]
  /\ \A c \in Calls : want[c] = Nobody <=> op[c] = "lookup"
  /\ outcome \in [Calls -> {"ok", "go", "refused", "duplicate", "thrown"}]
LockType ==
  /\ lock \in [made : BOOLEAN, owner : Calls \cup {Nobody}, old : BOOLEAN]
  /\ lock.owner # Nobody => lock.made
FileType ==
  /\ file \in [Requests -> Records]
  /\ mem \in [Calls -> [Requests -> Records]]
  /\ aged \subseteq Requests /\ forgotten \subseteq Requests
  /\ owners \in [Processes -> [Requests -> Calls \cup {Nobody}]]
  /\ faults \in 0..MaxFaults
HistoryType ==
  /\ garbled \subseteq Requests /\ receipts \subseteq Requests
  /\ dead \subseteq Processes
  /\ accepted \in [Requests -> 0..2]

LEMMA TypeParts ==
  TypeOK <=> CallType /\ LockType /\ FileType /\ HistoryType /\ stolen \in BOOLEAN
BY DEF TypeOK, CallType, LockType, FileType, HistoryType

\* A write under the lock leaves the call's place and its result.
LEMMA OperatesType ==
  ASSUME TypeOK, NEW c \in Calls,
         Lookup(c) \/ Begin(c) \/ (\E name \in DOMAIN Final : Finish(c, name))
  PROVE  /\ pc' = [pc EXCEPT ![c] = "release"] /\ pc[c] = "operate"
         /\ mem' = [mem EXCEPT ![c] = Blank]
         /\ UNCHANGED <<lock, op, want, receipts, dead, provider, stolen>>
         /\ \E got \in {"ok", "go", "refused", "duplicate", "thrown"} :
              outcome' = [outcome EXCEPT ![c] = got]
         /\ file' \in [Requests -> Records] /\ aged' \subseteq Requests
         /\ forgotten' \subseteq Requests
         /\ owners' \in [Processes -> [Requests -> Calls \cup {Nobody}]]
         /\ faults' \in 0..MaxFaults
<1> USE LedgerAssumption DEF Operates, Goto, At
<1>1. CASE Lookup(c)
  BY <1>1 DEF Lookup, Leaves, Gets, ledger, TypeOK
<1>2. ASSUME op[c] # "lookup" PROVE want[c] \in Requests
  BY <1>2 DEF TypeOK
<1>3. ASSUME NEW result \in {"ok", "go", "refused", "duplicate", "thrown"}, Leaves(c, result)
      PROVE  /\ \E got \in {"ok", "go", "refused", "duplicate", "thrown"} :
                   outcome' = [outcome EXCEPT ![c] = got]
             /\ file' \in [Requests -> Records] /\ aged' \subseteq Requests
             /\ forgotten' \subseteq Requests /\ faults' \in 0..MaxFaults
  BY <1>3 DEF Leaves, Gets, ledger, TypeOK
<1>4. ASSUME NEW result \in {"ok", "go", "refused", "duplicate", "thrown"}, op[c] # "lookup",
             NEW record \in Records, Stores(c, record, result)
      PROVE  /\ \E got \in {"ok", "go", "refused", "duplicate", "thrown"} :
                   outcome' = [outcome EXCEPT ![c] = got]
             /\ file' \in [Requests -> Records] /\ aged' \subseteq Requests
             /\ forgotten' \subseteq Requests /\ faults' \in 0..MaxFaults
  <2> DEFINE records == [mem[c] EXCEPT ![want[c]] = record]
  <2>1. records \in [Requests -> Records]
    BY <1>2, <1>4, RecordType
  <2>2. Attempt(c, records, result)
    BY <1>4 DEF Stores
  <2> HIDE DEF records
  <2>3. /\ file' \in [Requests -> Records] /\ aged' \in SUBSET Requests
        /\ forgotten' = forgotten /\ faults' \in 0..MaxFaults
        /\ \E got \in {result, "thrown"} : outcome' = [outcome EXCEPT ![c] = got]
    BY <1>4, <2>1, <2>2, AttemptType
  <2> QED BY <2>3, <1>4 DEF TypeOK
<1>5. ASSUME NEW d \in Calls \cup {Nobody}, op[c] # "lookup", SetOwner(c, d) \/ UNCHANGED owners
      PROVE  owners' \in [Processes -> [Requests -> Calls \cup {Nobody}]]
  BY <1>2, <1>5, OwnerType DEF TypeOK
<1>6. CASE Begin(c)
  <2>1. op[c] # "lookup"
    BY <1>6 DEF Begin
  <2>2. /\ [status |-> "pending", owner |-> c] \in Records
        /\ [Found(c) EXCEPT !.status = "uncertain"] \in Records
    BY <1>2, <2>1, RecordType
  <2>3. /\ Leaves(c, "refused") \/ Leaves(c, "duplicate")
           \/ Stores(c, [status |-> "pending", owner |-> c], "go")
           \/ Stores(c, [Found(c) EXCEPT !.status = "uncertain"], "refused")
        /\ SetOwner(c, c) \/ UNCHANGED owners
    BY <1>6 DEF Begin
  <2>4. /\ \E got \in {"ok", "go", "refused", "duplicate", "thrown"} :
               outcome' = [outcome EXCEPT ![c] = got]
        /\ file' \in [Requests -> Records] /\ aged' \subseteq Requests
        /\ forgotten' \subseteq Requests /\ faults' \in 0..MaxFaults
    BY <1>3, <1>4, <2>1, <2>2, <2>3
  <2>5. owners' \in [Processes -> [Requests -> Calls \cup {Nobody}]]
    BY <1>5, <2>1, <2>3
  <2> QED BY <1>6, <2>4, <2>5 DEF Begin
<1>7. ASSUME NEW name \in DOMAIN Final, Finish(c, name)
      PROVE  /\ \E got \in {"ok", "go", "refused", "duplicate", "thrown"} :
                   outcome' = [outcome EXCEPT ![c] = got]
             /\ file' \in [Requests -> Records] /\ aged' \subseteq Requests
             /\ forgotten' \subseteq Requests /\ faults' \in 0..MaxFaults
             /\ owners' \in [Processes -> [Requests -> Calls \cup {Nobody}]]
             /\ Operates(c, name)
  <2>1. op[c] # "lookup" /\ Operates(c, name)
    BY <1>7, Names DEF Finish
  <2>2. /\ [status |-> "uncertain", owner |-> Nobody] \in Records
        /\ [Found(c) EXCEPT !.status = Final[name]] \in Records
    BY <1>2, <2>1, RecordType, Names
  <2>3. /\ Leaves(c, "thrown")
           \/ Stores(c, [status |-> "uncertain", owner |-> Nobody], "ok")
           \/ Stores(c, [Found(c) EXCEPT !.status = Final[name]], "ok")
        /\ SetOwner(c, Nobody) \/ UNCHANGED owners
    BY <1>7 DEF Finish
  <2>4. owners' \in [Processes -> [Requests -> Calls \cup {Nobody}]]
    BY <1>5, <2>1, <2>3
  <2> QED BY <1>3, <1>4, <2>1, <2>2, <2>3, <2>4
<1> QED BY <1>1, <1>6, <1>7

LEMMA NextCallType ==
  ASSUME TypeOK, CallInv, [Next]_vars
  PROVE  CallType'
<1>1. CallType
  BY TypeParts
<1> USE DEF vars, call, Goto, Gets
<1>2. ASSUME NEW c \in Calls,
             Status(c) \/ (\E r \in Requests : Submit(c, r)) \/ Enter(c)
               \/ MakeLock(c) \/ WriteOwner(c)
      PROVE  CallType'
  BY <1>1, <1>2, LedgerAssumption
     DEF CallType, Status, Submit, Starts, Enter, MakeLock, WriteOwner, Locking, Holding
<1>3. ASSUME NEW c \in Calls, Judge(c) \/ BreakOwner(c) \/ BreakDir(c) PROVE CallType'
  BY <1>1, <1>3 DEF CallType, Judge, BreakOwner, BreakDir, TriesAgain, Locking
<1>4. ASSUME NEW c \in Calls,
             Release(c) \/ UnlinkOwner(c) \/ RemoveDir(c) \/ LoadFails(c) \/ ReleaseFails(c)
      PROVE  CallType'
  BY <1>1, <1>4 DEF CallType, Release, UnlinkOwner, RemoveDir, LoadFails, ReleaseFails, Holding
<1>5. ASSUME NEW c \in Calls, Load(c) PROVE CallType'
  BY <1>1, <1>5 DEF CallType, Load, Holding
<1>6. ASSUME NEW c \in Calls, Recover(c) PROVE CallType'
  <2>1. /\ mem[c] \in [Requests -> Records] /\ Attempt(c, mem[c], "ok")
        /\ UNCHANGED <<op, want>>
        /\ pc' = [pc EXCEPT ![c] = IF outcome'[c] = "ok" THEN "operate" ELSE "release"]
    BY <1>6 DEF Recover, TypeOK
  <2>2. outcome' \in [Calls -> {"ok", "go", "refused", "duplicate", "thrown"}]
    BY <2>1, AttemptType
  <2> QED BY <1>1, <2>1, <2>2 DEF CallType, Holding
<1>7. ASSUME NEW c \in Calls,
             Lookup(c) \/ Begin(c) \/ (\E name \in DOMAIN Final : Finish(c, name))
      PROVE  CallType'
  BY <1>1, <1>7, OperatesType DEF CallType, Holding
<1>8. ASSUME NEW c \in Calls, Ended(c) PROVE CallType'
  BY <1>1, <1>8, Names DEF CallType, Ended, Tells, Continues
<1>9. ASSUME NEW c \in Calls, Answer(c) PROVE CallType'
  <2>1. op[c] = "begin"
    BY <1>9 DEF Answer, At, CallInv
  <2> QED BY <1>1, <1>9, <2>1, Names DEF CallType, Answer, Continues
<1>10. ASSUME NEW p \in Processes, Crash(p) PROVE CallType'
  BY <1>1, <1>10 DEF CallType, Crash
<1>11. CASE LockAges \/ (\E r \in Requests : RecordAges(r) \/ Drop(r)) \/ UNCHANGED vars
  BY <1>1, <1>11 DEF CallType, LockAges, RecordAges, Drop
<1> QED
  BY <1>2, <1>3, <1>4, <1>5, <1>6, <1>7, <1>8, <1>9, <1>10, <1>11 DEF Next, Step

LEMMA NextLockType ==
  ASSUME TypeOK, LockInv, [Next]_vars
  PROVE  LockType'
<1>1. LockType
  BY TypeParts
<1>2. ASSUME NEW c \in Calls, MakeLock(c) \/ WriteOwner(c) PROVE LockType'
  BY <1>1, <1>2 DEF LockType, MakeLock, WriteOwner, LockInv, Building, NoLock, At
<1>3. ASSUME NEW c \in Calls, BreakOwner(c) \/ BreakDir(c) \/ UnlinkOwner(c) \/ RemoveDir(c)
      PROVE  LockType'
  <2>1. lock' = [lock EXCEPT !.owner = Nobody, !.old = FALSE] \/ lock' = NoLock \/ lock' = lock
    BY <1>3 DEF BreakOwner, BreakDir, UnlinkOwner, RemoveDir, TakeOwner
  <2> QED BY <1>1, <2>1, BlankType DEF LockType
<1>4. CASE LockAges
  BY <1>1, <1>4 DEF LockType, LockAges
<1>5. ASSUME UNCHANGED lock PROVE LockType'
  BY <1>1, <1>5 DEF LockType
<1>6. ASSUME NEW c \in Calls,
             Lookup(c) \/ Begin(c) \/ (\E name \in DOMAIN Final : Finish(c, name))
      PROVE  UNCHANGED lock
  BY <1>6, OperatesType
<1> QED
  BY <1>2, <1>3, <1>4, <1>5, <1>6
     DEF Next, Step, vars, Status, Submit, Starts, Enter, Judge, Load, Recover, Release, Ended,
         Answer, LoadFails, ReleaseFails, RecordAges, Drop, Crash

LEMMA NextFileType ==
  ASSUME TypeOK, [Next]_vars
  PROVE  FileType'
<1>1. FileType
  BY TypeParts
<1> USE DEF ledger, call
<1>2. ASSUME NEW c \in Calls, Load(c) PROVE FileType'
  <2> DEFINE records == [r \in Requests |-> IF Abandoned(Host[c], r, file[r])
                                            THEN [file[r] EXCEPT !.status = "uncertain"]
                                            ELSE file[r]]
  <2>1. \A r \in Requests : file[r] \in Records /\ [file[r] EXCEPT !.status = "uncertain"] \in Records
    BY <1>1 DEF FileType, Records
  <2>2. records \in [Requests -> Records]
    BY <2>1
  <2>3. mem' = [mem EXCEPT ![c] = records] /\ UNCHANGED <<ledger, owners, faults>>
    BY <1>2 DEF Load
  <2> HIDE DEF records
  <2> QED BY <1>1, <2>2, <2>3 DEF FileType
<1>3. ASSUME NEW c \in Calls, Recover(c) PROVE FileType'
  <2>1. /\ mem[c] \in [Requests -> Records] /\ Attempt(c, mem[c], "ok")
        /\ UNCHANGED <<owners, mem>>
    BY <1>3 DEF Recover, TypeOK
  <2> QED BY <1>1, <2>1, AttemptType DEF FileType
<1>4. ASSUME NEW c \in Calls,
             Lookup(c) \/ Begin(c) \/ (\E name \in DOMAIN Final : Finish(c, name))
      PROVE  FileType'
  BY <1>1, <1>4, OperatesType, BlankType DEF FileType
<1>5. ASSUME NEW c \in Calls, LoadFails(c) \/ ReleaseFails(c) PROVE FileType'
  BY <1>1, <1>5, LedgerAssumption DEF FileType, LoadFails, ReleaseFails
<1>6. ASSUME NEW r \in Requests, RecordAges(r) \/ Drop(r) PROVE FileType'
  <2>1. NoRecord \in Records
    BY DEF NoRecord, Records
  <2> QED BY <1>1, <1>6, <2>1 DEF FileType, RecordAges, Drop, Writes
<1>7. ASSUME NEW p \in Processes, Crash(p) PROVE FileType'
  BY <1>1, <1>7, BlankType DEF FileType, Crash
<1>8. ASSUME UNCHANGED <<ledger, mem, owners, faults>> PROVE FileType'
  BY <1>1, <1>8 DEF FileType
<1> QED
  BY <1>2, <1>3, <1>4, <1>5, <1>6, <1>7, <1>8
     DEF Next, Step, vars, Status, Submit, Starts, Enter, MakeLock, WriteOwner, Judge, BreakOwner,
         BreakDir, Release, UnlinkOwner, RemoveDir, Ended, Answer, LockAges

LEMMA NextHistoryType ==
  ASSUME TypeOK, CallInv, [Next]_vars
  PROVE  HistoryType'
<1>1. HistoryType
  BY TypeParts
<1> USE DEF provider, call
<1>2. ASSUME NEW c \in Calls, Ended(c) PROVE HistoryType'
  <2>1. op[c] # "lookup" => want[c] \in Requests
    BY DEF TypeOK
  <2>2. receipts' = receipts \/ (op[c] # "lookup" /\ receipts' = receipts \cup {want[c]})
    BY <1>2 DEF Ended, Tells, Continues
  <2> QED BY <1>1, <1>2, <2>1, <2>2 DEF HistoryType, Ended
<1>3. ASSUME NEW c \in Calls, Answer(c) PROVE HistoryType'
  <2>1. want[c] \in Requests
    BY <1>3 DEF TypeOK, CallInv, Answer, At
  <2>2. More(accepted[want[c]]) \in 0..2
    BY DEF More
  <2>3. /\ accepted' = accepted \/ accepted' = [accepted EXCEPT ![want[c]] = More(@)]
        /\ garbled' = garbled \/ garbled' = garbled \cup {want[c]}
        /\ UNCHANGED <<receipts, dead>>
    BY <1>3 DEF Answer, Continues
  <2> QED BY <1>1, <2>1, <2>2, <2>3 DEF HistoryType
<1>4. ASSUME NEW p \in Processes, Crash(p) PROVE HistoryType'
  BY <1>1, <1>4 DEF HistoryType, Crash
<1>5. ASSUME UNCHANGED <<garbled, receipts, dead, accepted>> PROVE HistoryType'
  BY <1>1, <1>5 DEF HistoryType
<1>6. ASSUME NEW c \in Calls,
             Lookup(c) \/ Begin(c) \/ (\E name \in DOMAIN Final : Finish(c, name))
      PROVE  UNCHANGED <<garbled, receipts, dead, accepted>>
  BY <1>6, OperatesType
<1> QED
  BY <1>2, <1>3, <1>4, <1>5, <1>6
     DEF Next, Step, vars, Status, Submit, Starts, Enter, MakeLock, WriteOwner, Judge, BreakOwner,
         BreakDir, Load, Recover, LoadFails, ReleaseFails, Release, UnlinkOwner, RemoveDir,
         RecordAges, Drop, LockAges

------------------------------------------------------------------------------
(* The lock *)

LEMMA InitLock == Init => LockInv
BY DEF Init, LockInv, Building, Owning

\* A call that goes to a place without the lock, or stays where it had it.
LEMMA GoesLock ==
  ASSUME TypeOK, LockInv, NEW c \in Calls, NEW place, UNCHANGED <<lock, dead, stolen>>,
         At(c, pc[c]), pc' = [pc EXCEPT ![c] = place],
         place \in Building => pc[c] \in Building,
         place \in Owning => pc[c] \in Owning
  PROVE  LockInv'
BY DEF LockInv, TypeOK, At

LEMMA NextLock ==
  ASSUME TypeOK, LockInv, [Next]_vars
  PROVE  LockInv'
<1> USE DEF At, Goto
<1>1. ASSUME NEW c \in Calls, MakeLock(c) PROVE LockInv'
  <2>1. CASE lock.made
    BY <1>1, <2>1, GoesLock DEF MakeLock, Building, Owning
  <2>2. CASE ~lock.made
    <3>1. lock' = [made |-> TRUE, owner |-> Nobody, old |-> FALSE]
          /\ pc' = [pc EXCEPT ![c] = "owner"] /\ UNCHANGED <<dead, stolen>>
          /\ Host[c] \notin dead
      BY <1>1, <2>2 DEF MakeLock, NoLock
    <3>2. \A d \in Calls : pc[d] \notin Building
      BY <2>2 DEF LockInv
    <3>3. ~stolen => \A d \in Calls : pc[d] \notin Owning
      BY <2>2, LedgerAssumption DEF LockInv, TypeOK
    <3> QED BY <3>1, <3>2, <3>3 DEF LockInv, TypeOK, Building, Owning
  <2> QED BY <2>1, <2>2
<1>2. ASSUME NEW c \in Calls, WriteOwner(c) PROVE LockInv'
  <2>1. /\ pc[c] = "owner" /\ Host[c] \notin dead /\ lock' = [lock EXCEPT !.owner = c]
        /\ pc' = [pc EXCEPT ![c] = "load"] /\ UNCHANGED <<dead, stolen>>
    BY <1>2 DEF WriteOwner
  <2>2. lock.owner = Nobody /\ \A d \in Calls : pc[d] \in Building => c = d
    BY <2>1 DEF LockInv, Building
  <2>3. ~stolen => \A d \in Calls : pc[d] \notin Owning
    BY <2>2, LedgerAssumption DEF LockInv
  <2>4. lock'.owner = c
    BY <2>1 DEF TypeOK
  <2> QED BY <2>1, <2>2, <2>3, <2>4 DEF LockInv, TypeOK, Building, Owning
<1>3. ASSUME NEW c \in Calls, NEW place \in {"breakDir", "rmdir"},
             TakeOwner(c), pc' = [pc EXCEPT ![c] = place], Host[c] \notin dead, UNCHANGED dead,
             lock.owner # Nobody
      PROVE  LockInv'
  <2>1. lock.made /\ \A d \in Calls : pc[d] \notin Building
    BY <1>3 DEF TypeOK, LockInv
  <2>2. /\ lock'.owner = Nobody /\ lock'.made = lock.made
        /\ stolen' = (stolen \/ (lock.owner # c /\ Host[lock.owner] \notin dead))
    BY <1>3 DEF TakeOwner, TypeOK
  <2>3. ~stolen' => \A d \in Calls : d # c => pc[d] \notin Owning
    <3> SUFFICES ASSUME ~stolen', NEW d \in Calls, d # c, pc[d] \in Owning PROVE FALSE
      OBVIOUS
    <3>1. lock.owner = d
      BY <2>2 DEF LockInv
    <3>2. Host[d] \in dead
      BY <2>2, <3>1
    <3> QED BY <3>2 DEF LockInv, Owning
  <2> QED BY <1>3, <2>1, <2>2, <2>3 DEF LockInv, TypeOK, Building, Owning
<1>4. ASSUME NEW c \in Calls, NEW place \in {"mkdir", "ended"},
             pc[c] \in {"breakDir", "rmdir"}, lock' = NoLock,
             pc' = [pc EXCEPT ![c] = place], Host[c] \notin dead, UNCHANGED <<dead, stolen>>
      PROVE  LockInv'
  <2>1. lock.owner = Nobody /\ \A d \in Calls : pc[d] \in Building => c = d
    BY <1>4 DEF LockInv, Building
  <2>2. ~stolen => \A d \in Calls : pc[d] \notin Owning
    BY <2>1, LedgerAssumption DEF LockInv
  <2> QED BY <1>4, <2>1, <2>2 DEF LockInv, TypeOK, Building, Owning
<1>5. ASSUME NEW c \in Calls, Judge(c) PROVE LockInv'
  <2>1. \E place \in {"mkdir", "ended", "breakOwner"} : pc' = [pc EXCEPT ![c] = place]
    BY <1>5 DEF Judge, TriesAgain
  <2> QED BY <1>5, <2>1, GoesLock DEF Judge, Building, Owning
<1>6. ASSUME NEW c \in Calls, BreakOwner(c) PROVE LockInv'
  <2>1. CASE lock.owner = Nobody
    <3>1. /\ \E place \in {"mkdir", "ended"} : pc' = [pc EXCEPT ![c] = place]
          /\ UNCHANGED <<lock, stolen, dead>> /\ At(c, pc[c])
      BY <1>6, <2>1 DEF BreakOwner, TriesAgain
    <3> QED BY <3>1, GoesLock DEF Building, Owning
  <2>2. CASE lock.owner # Nobody
    BY <1>3, <1>6, <2>2 DEF BreakOwner
  <2> QED BY <2>1, <2>2
<1>7. ASSUME NEW c \in Calls, BreakDir(c) \/ RemoveDir(c) PROVE LockInv'
  <2>1. /\ \E place \in {"mkdir", "ended"} : pc' = [pc EXCEPT ![c] = place]
        /\ pc[c] \in {"breakDir", "rmdir"} /\ Host[c] \notin dead
        /\ lock' = NoLock /\ UNCHANGED <<dead, stolen>>
    BY <1>7 DEF BreakDir, RemoveDir, TriesAgain
  <2> QED BY <1>4, <2>1
<1>8. ASSUME NEW c \in Calls, UnlinkOwner(c) PROVE LockInv'
  <2>1. CASE lock.owner = Nobody
    BY <1>8, <2>1, GoesLock DEF UnlinkOwner, Building, Owning
  <2>2. CASE lock.owner # Nobody
    BY <1>3, <1>8, <2>2 DEF UnlinkOwner
  <2> QED BY <2>1, <2>2
<1>9. ASSUME NEW c \in Calls, Release(c) PROVE LockInv'
  <2>1. \E place \in {"unlink", "ended"} : pc' = [pc EXCEPT ![c] = place]
    BY <1>9 DEF Release
  <2>2. pc[c] = "release" /\ Host[c] \notin dead /\ UNCHANGED <<lock, dead, stolen>>
    BY <1>9 DEF Release
  <2> QED BY <2>1, <2>2, GoesLock DEF Building, Owning
<1>10. ASSUME NEW c \in Calls, Status(c) \/ (\E r \in Requests : Submit(c, r)) \/ Enter(c)
       PROVE  LockInv'
  <2>1. \E place \in {"queued", "mkdir"} : pc' = [pc EXCEPT ![c] = place]
    BY <1>10 DEF Status, Submit, Starts, Enter
  <2> QED BY <1>10, <2>1, GoesLock DEF Status, Submit, Starts, Enter, Building, Owning
<1>11. ASSUME NEW c \in Calls, Load(c) \/ Recover(c) \/ LoadFails(c) \/ ReleaseFails(c)
       PROVE  LockInv'
  <2>1. \E place \in {"operate", "recover", "release", "ended"} : pc' = [pc EXCEPT ![c] = place]
    BY <1>11 DEF Load, Recover, LoadFails, ReleaseFails
  <2>2. pc[c] \in Owning /\ Host[c] \notin dead /\ UNCHANGED <<lock, dead, stolen>>
    BY <1>11 DEF Load, Recover, LoadFails, ReleaseFails, Owning
  <2> QED BY <2>1, <2>2, GoesLock DEF Building, Owning
<1>12. ASSUME NEW c \in Calls,
              Lookup(c) \/ Begin(c) \/ (\E name \in DOMAIN Final : Finish(c, name))
       PROVE  LockInv'
  <2>1. Host[c] \notin dead
    BY <1>12 DEF Lookup, Begin, Finish, Operates
  <2> QED BY <1>12, <2>1, OperatesType, GoesLock DEF Building, Owning
<1>13. ASSUME NEW c \in Calls, Ended(c) \/ Answer(c) PROVE LockInv'
  <2>1. \E place \in {"queued", "ask", "idle"} : pc' = [pc EXCEPT ![c] = place]
    BY <1>13 DEF Ended, Answer, Tells, Continues
  <2>2. Host[c] \notin dead /\ UNCHANGED <<lock, dead, stolen>>
    BY <1>13 DEF Ended, Answer
  <2> QED BY <2>1, <2>2, GoesLock DEF Building, Owning
<1>14. ASSUME NEW p \in Processes, Crash(p) PROVE LockInv'
  <2>1. /\ pc' = [c \in Calls |-> IF Host[c] = p THEN "idle" ELSE pc[c]]
        /\ UNCHANGED <<lock, stolen>> /\ dead' = dead \cup {p}
    BY <1>14 DEF Crash
  <2> QED BY <2>1 DEF LockInv, Building, Owning
<1>15. CASE LockAges
  BY <1>15 DEF LockAges, LockInv, TypeOK
<1>16. CASE (\E r \in Requests : RecordAges(r) \/ Drop(r)) \/ UNCHANGED vars
  BY <1>16 DEF LockInv, RecordAges, Drop, vars
<1> QED
  BY <1>1, <1>2, <1>5, <1>6, <1>7, <1>8, <1>9, <1>10, <1>11, <1>12, <1>13, <1>14, <1>15, <1>16
     DEF Next, Step

------------------------------------------------------------------------------
(* Results *)

\* What an operation under the lock has come to, by the operation.
LEMMA OperatesResult ==
  ASSUME TypeOK, CallInv, NEW c \in Calls,
         Lookup(c) \/ Begin(c) \/ (\E name \in DOMAIN Final : Finish(c, name))
  PROVE  outcome'[c] \notin {"ok", "thrown"} => op[c] = "begin"
<1> USE DEF Operates
<1>1. CASE Lookup(c)
  BY <1>1 DEF Lookup, Leaves, Gets, TypeOK
<1>2. CASE Begin(c)
  BY <1>2 DEF Begin
<1>3. ASSUME NEW name \in DOMAIN Final, Finish(c, name) PROVE outcome'[c] \in {"ok", "thrown"}
  <2>1. \/ \E record : Stores(c, record, "ok")
        \/ Leaves(c, "thrown")
    BY <1>3 DEF Finish
  <2> QED BY <2>1 DEF Stores, Leaves, Attempt, Gets, TypeOK
<1> QED BY <1>1, <1>2, <1>3

LEMMA NextCall ==
  ASSUME TypeOK, CallInv, [Next]_vars
  PROVE  CallInv'
<1> USE DEF Goto, Gets, At, call
<1>1. ASSUME NEW c \in Calls,
             Status(c) \/ (\E r \in Requests : Submit(c, r)) \/ Enter(c)
               \/ MakeLock(c) \/ WriteOwner(c) \/ RemoveDir(c) \/ Load(c)
      PROVE  CallInv'
  BY <1>1 DEF CallInv, TypeOK, Past, Status, Submit, Starts, Enter, MakeLock, WriteOwner,
              RemoveDir, Load
<1>2. ASSUME NEW c \in Calls, Judge(c) \/ BreakOwner(c) \/ BreakDir(c) PROVE CallInv'
  BY <1>2 DEF CallInv, TypeOK, Past, Judge, BreakOwner, BreakDir, TriesAgain
<1>3. ASSUME NEW c \in Calls, Release(c) \/ UnlinkOwner(c) \/ LoadFails(c) \/ ReleaseFails(c)
      PROVE  CallInv'
  BY <1>3 DEF CallInv, TypeOK, Past, Release, UnlinkOwner, LoadFails, ReleaseFails
<1>4. ASSUME NEW c \in Calls, Recover(c) PROVE CallInv'
  <2>1. /\ mem[c] \in [Requests -> Records] /\ Attempt(c, mem[c], "ok") /\ UNCHANGED op
        /\ pc' = [pc EXCEPT ![c] = IF outcome'[c] = "ok" THEN "operate" ELSE "release"]
    BY <1>4 DEF Recover, TypeOK
  <2>2. \E got \in {"ok", "thrown"} : outcome' = [outcome EXCEPT ![c] = got]
    BY <2>1, AttemptType
  <2> QED BY <2>1, <2>2 DEF CallInv, TypeOK
<1>5. ASSUME NEW c \in Calls,
             Lookup(c) \/ Begin(c) \/ (\E name \in DOMAIN Final : Finish(c, name))
      PROVE  CallInv'
  BY <1>5, OperatesType, OperatesResult DEF CallInv, TypeOK, Past
<1>6. ASSUME NEW c \in Calls, Ended(c) PROVE CallInv'
  BY <1>6 DEF CallInv, TypeOK, Ended, Tells, Continues
<1>7. ASSUME NEW c \in Calls, Answer(c) PROVE CallInv'
  <2>1. outcome[c] \in {"ok", "thrown"} /\ outcome' = outcome
    BY <1>7 DEF Answer, CallInv, Past
  <2>2. \E name \in {"complete", "fail", "uncertain"} : Continues(c, "queued", name)
    BY <1>7 DEF Answer
  <2> QED BY <2>1, <2>2 DEF CallInv, TypeOK, Continues
<1>8. ASSUME NEW p \in Processes, Crash(p) PROVE CallInv'
  BY <1>8 DEF CallInv, Crash
<1>9. CASE LockAges \/ (\E r \in Requests : RecordAges(r) \/ Drop(r)) \/ UNCHANGED vars
  BY <1>9 DEF CallInv, LockAges, RecordAges, Drop, vars
<1> QED
  BY <1>1, <1>2, <1>3, <1>4, <1>5, <1>6, <1>7, <1>8, <1>9 DEF Next, Step

LEMMA NextStolen ==
  ASSUME TypeOK, [Next]_vars
  PROVE  stolen' \in BOOLEAN
<1>1. ASSUME NEW c \in Calls, BreakOwner(c) \/ UnlinkOwner(c) PROVE stolen' \in BOOLEAN
  <2>1. CASE UNCHANGED stolen
    BY <2>1 DEF TypeOK
  <2>2. CASE TakeOwner(c)
    BY <2>2, Zenon DEF TakeOwner
  <2> QED BY <1>1, <2>1, <2>2, Zenon DEF BreakOwner, UnlinkOwner
<1>2. ASSUME UNCHANGED stolen PROVE stolen' \in BOOLEAN
  BY <1>2 DEF TypeOK
<1>3. ASSUME NEW c \in Calls,
             Lookup(c) \/ Begin(c) \/ (\E name \in DOMAIN Final : Finish(c, name))
      PROVE  UNCHANGED stolen
  BY <1>3, OperatesType
<1> QED
  BY <1>1, <1>2, <1>3
     DEF Next, Step, vars, Status, Submit, Starts, Enter, MakeLock, WriteOwner, Judge, BreakDir,
         Load, Recover, LoadFails, ReleaseFails, Release, RemoveDir, Ended, Answer, RecordAges,
         Drop, LockAges, Crash

\* Types, the lock's turns and the results of calls hold in every state.
BaseInv == TypeOK /\ LockInv /\ CallInv

LEMMA Base == Spec => []BaseInv
<1>1. Init => BaseInv
  BY InitType, InitLock DEF BaseInv
<1>2. BaseInv /\ [Next]_vars => BaseInv'
  <2> SUFFICES ASSUME BaseInv, [Next]_vars PROVE BaseInv'
    OBVIOUS
  <2>1. CallType' /\ LockType' /\ FileType' /\ HistoryType'
    BY NextCallType, NextLockType, NextFileType, NextHistoryType DEF BaseInv
  <2>2. stolen' \in BOOLEAN
    BY NextStolen DEF BaseInv
  <2>3. TypeOK'
    BY <2>1, <2>2 DEF TypeOK, CallType, LockType, FileType, HistoryType
  <2> QED BY <2>3, NextLock, NextCall DEF BaseInv
<1> QED BY <1>1, <1>2, PTL DEF Spec

\* The ledger file, its lock and every call keep their shape, whatever is stolen, fails or dies.
THEOREM LedgerTyped == Spec => []TypeOK
<1>1. BaseInv => TypeOK
  BY DEF BaseInv
<1> QED BY <1>1, Base, PTL

------------------------------------------------------------------------------
(* Receipts *)

\* What a write under the lock leaves: the file as it was, or what the call has read with one
\* record replaced.
LEMMA StoresFile ==
  ASSUME TypeOK, NEW c \in Calls, want[c] \in Requests, NEW record \in Records,
         NEW result \in {"ok", "go", "refused", "duplicate", "thrown"},
         Stores(c, record, result)
  PROVE  /\ \/ file' = file
            \/ \A r \in Requests : file'[r] = IF r = want[c] THEN record ELSE mem[c][r]
         /\ outcome'[c] = "thrown"
              \/ (outcome'[c] = result /\ file'[want[c]] = record)
         /\ forgotten' = forgotten
<1> DEFINE records == [mem[c] EXCEPT ![want[c]] = record]
<1>1. records \in [Requests -> Records]
  BY RecordType
<1>2. \A r \in Requests : records[r] = IF r = want[c] THEN record ELSE mem[c][r]
  BY DEF TypeOK
<1>3. Attempt(c, records, result)
  BY DEF Stores
<1> HIDE DEF records
<1>4. /\ file' = records \/ file' = file
      /\ outcome'[c] = "thrown" \/ (file' = records /\ outcome'[c] = result)
      /\ forgotten' = forgotten
  BY <1>1, <1>3, AttemptType
<1> QED BY <1>2, <1>4

\* A status put into a record that was found.
LEMMA FoundStatus ==
  ASSUME TypeOK, NEW c \in Calls, want[c] \in Requests,
         NEW s \in {"pending", "completed", "failed", "uncertain"}
  PROVE  /\ [Found(c) EXCEPT !.status = s] \in Records
         /\ [Found(c) EXCEPT !.status = s].status = s
         /\ Found(c) = mem[c][want[c]]
<1>1. Found(c) \in Records
  BY RecordType
<1> QED BY <1>1 DEF Records, Found

\* The ways in which a begin ends.
LEMMA BeginCases ==
  ASSUME TypeOK, NEW c \in Calls, Begin(c)
  PROVE  /\ want[c] \in Requests /\ op[c] = "begin"
         /\ \/ \E record \in Records : /\ record.status = "pending" /\ Stores(c, record, "go")
                                      /\ mem[c][want[c]].status \in {"none", "failed"}
            \/ \E record \in Records : /\ record.status = "uncertain"
                                      /\ Stores(c, record, "refused")
                                      /\ mem[c][want[c]].status = "pending"
            \/ Leaves(c, "refused")
            \/ Leaves(c, "duplicate") /\ mem[c][want[c]].status = "completed"
<1>1. want[c] \in Requests /\ op[c] = "begin"
  BY DEF TypeOK, Begin, Operates
<1>2. CASE Found(c).status \in {"none", "failed"}
           /\ Stores(c, [status |-> "pending", owner |-> c], "go")
  <2>1. [status |-> "pending", owner |-> c] \in Records
    BY <1>1, RecordType
  <2>2. mem[c][want[c]].status \in {"none", "failed"}
    BY <1>2 DEF Found
  <2> QED BY <1>1, <1>2, <2>1, <2>2
<1>3. CASE Abandoned(Host[c], want[c], Found(c))
           /\ Stores(c, [Found(c) EXCEPT !.status = "uncertain"], "refused")
  <2>1. mem[c][want[c]].status = "pending"
    BY <1>3 DEF Found, Abandoned
  <2> QED BY <1>1, <1>3, <2>1, FoundStatus
<1>4. CASE Leaves(c, "refused")
  BY <1>1, <1>4
<1>5. CASE Leaves(c, "duplicate") /\ Found(c).status = "completed"
  BY <1>1, <1>5 DEF Found
<1> QED BY <1>2, <1>3, <1>4, <1>5 DEF Begin

\* The ways in which complete, fail and uncertain end.
LEMMA FinishCases ==
  ASSUME TypeOK, NEW c \in Calls, NEW name \in DOMAIN Final, Finish(c, name)
  PROVE  /\ want[c] \in Requests /\ op[c] = name
         /\ \/ \E record \in Records : record.status = Final[name] /\ Stores(c, record, "ok")
            \/ /\ mem[c][want[c]].status = "none" /\ name # "uncertain"
               /\ Leaves(c, "thrown")
<1>1. want[c] \in Requests /\ op[c] = name
  BY Names DEF TypeOK, Finish, Operates
<1>2. CASE Stores(c, [Found(c) EXCEPT !.status = Final[name]], "ok")
  BY <1>1, <1>2, FoundStatus, Names
<1>3. CASE name = "uncertain" /\ Stores(c, [status |-> "uncertain", owner |-> Nobody], "ok")
  <2>1. [status |-> "uncertain", owner |-> Nobody] \in Records
    BY <1>1, RecordType
  <2>2. [status |-> "uncertain", owner |-> Nobody].status = Final[name]
    BY <1>3, Names
  <2> QED BY <1>1, <1>3, <2>1, <2>2
<1>4. CASE /\ Found(c).status = "none" /\ name # "uncertain"
           /\ Leaves(c, "thrown")
  BY <1>1, <1>4 DEF Found
<1> QED BY <1>2, <1>3, <1>4 DEF Finish

LEMMA InitReceipts == Init => ReceiptInv
BY DEF Init, ReceiptInv, ReceiptsAreTrue, Blank, NoRecord

LEMMA NextReceipts ==
  ASSUME BaseInv, ReceiptInv, [Next]_vars
  PROVE  ReceiptInv'
<1> USE DEF BaseInv, Goto, Gets, At, call, provider, ledger
<1>1. ASSUME UNCHANGED <<file, mem, op, want, receipts, accepted>>,
             \A c \in Calls : outcome'[c] = "duplicate" => outcome[c] = "duplicate"
      PROVE  ReceiptInv'
  BY <1>1 DEF ReceiptInv, ReceiptsAreTrue
<1>2. ASSUME NEW c \in Calls,
             Enter(c) \/ MakeLock(c) \/ WriteOwner(c) \/ RemoveDir(c) \/ Judge(c) \/ BreakOwner(c)
               \/ BreakDir(c) \/ Release(c) \/ UnlinkOwner(c) \/ LoadFails(c) \/ ReleaseFails(c)
      PROVE  ReceiptInv'
  <2>1. /\ UNCHANGED <<file, mem, op, want, receipts, accepted>>
        /\ outcome' = outcome \/ outcome' = [outcome EXCEPT ![c] = "thrown"]
    BY <1>2 DEF Enter, MakeLock, WriteOwner, RemoveDir, Judge, BreakOwner, BreakDir, Release,
                UnlinkOwner, LoadFails, ReleaseFails, TriesAgain
  <2> QED BY <1>1, <2>1 DEF TypeOK
<1>3. ASSUME NEW c \in Calls, Status(c) \/ (\E r \in Requests : Submit(c, r)) PROVE ReceiptInv'
  <2>1. /\ UNCHANGED <<file, mem, outcome, receipts, accepted>>
        /\ \E first \in {"begin", "lookup"}, r \in Requests \cup {Nobody} :
             op' = [op EXCEPT ![c] = first] /\ want' = [want EXCEPT ![c] = r]
        /\ outcome[c] # "duplicate"
    BY <1>3 DEF Status, Submit, Starts, CallInv, Past
  <2> QED BY <2>1 DEF ReceiptInv, ReceiptsAreTrue, TypeOK
<1>4. ASSUME NEW c \in Calls, Load(c) PROVE ReceiptInv'
  <2>1. /\ UNCHANGED <<file, op, want, receipts, accepted, outcome>>
        /\ \A d \in Calls : d # c => mem'[d] = mem[d]
        /\ \A r \in Requests : mem'[c][r] = file[r] \/ mem'[c][r] = [file[r] EXCEPT !.status = "uncertain"]
    BY <1>4 DEF Load, TypeOK
  <2>2. \A r \in Requests : [file[r] EXCEPT !.status = "uncertain"].status = "uncertain"
    BY DEF TypeOK, Records
  <2>3. \A r \in Requests : mem'[c][r].status = "completed" => file[r].status = "completed"
    BY <2>1, <2>2
  <2> QED BY <2>1, <2>3 DEF ReceiptInv, ReceiptsAreTrue
<1>5. ASSUME NEW c \in Calls, Recover(c) PROVE ReceiptInv'
  <2>1. mem[c] \in [Requests -> Records] /\ Attempt(c, mem[c], "ok")
        /\ UNCHANGED <<mem, op, want, receipts, accepted>>
    BY <1>5 DEF Recover, TypeOK
  <2>2. /\ file' = mem[c] \/ file' = file
        /\ \E got \in {"ok", "thrown"} : outcome' = [outcome EXCEPT ![c] = got]
    BY <2>1, AttemptType
  <2> QED BY <2>1, <2>2 DEF ReceiptInv, ReceiptsAreTrue, TypeOK
<1>6. ASSUME NEW c \in Calls,
             Lookup(c) \/ Begin(c) \/ (\E name \in DOMAIN Final : Finish(c, name))
      PROVE  ReceiptInv'
  <2>1. /\ mem' = [mem EXCEPT ![c] = Blank] /\ UNCHANGED <<op, want, receipts, accepted>>
        /\ \A d \in Calls : d # c => outcome'[d] = outcome[d]
    BY <1>6, OperatesType DEF TypeOK
  <2>2. \A d \in Calls, r \in Requests : mem'[d][r].status = "completed" => accepted[r] > 0
    BY <2>1 DEF ReceiptInv, TypeOK, Blank, NoRecord
  <2>3. /\ \A r \in Requests : file'[r].status = "completed" => accepted[r] > 0
        /\ outcome'[c] = "duplicate" => accepted[want[c]] > 0
    <3>1. CASE Lookup(c)
      BY <3>1 DEF Lookup, Leaves, ReceiptInv, TypeOK
    <3>2. CASE Begin(c)
      <4>1. want[c] \in Requests
        BY <3>2, BeginCases
      <4>2. ASSUME NEW record \in Records, record.status # "completed",
                   NEW result \in {"go", "refused"}, Stores(c, record, result)
            PROVE  (\A r \in Requests : file'[r].status = "completed" => accepted[r] > 0)
                   /\ outcome'[c] # "duplicate"
          <5>1. /\ \/ file' = file
                   \/ \A r \in Requests : file'[r] = IF r = want[c] THEN record ELSE mem[c][r]
                /\ outcome'[c] \in {"thrown", result}
            BY <4>1, <4>2, StoresFile
          <5>2. \A r \in Requests : file'[r].status = "completed" => accepted[r] > 0
            BY <4>1, <4>2, <5>1 DEF ReceiptInv
          <5> QED BY <5>1, <5>2
      <4>3. ASSUME NEW result \in {"refused", "duplicate"}, Leaves(c, result)
            PROVE  (\A r \in Requests : file'[r].status = "completed" => accepted[r] > 0)
                   /\ outcome'[c] = result
        BY <4>3 DEF Leaves, ReceiptInv, TypeOK
      <4>4. mem[c][want[c]].status = "completed" => accepted[want[c]] > 0
        BY <4>1 DEF ReceiptInv
      <4>5. \A record \in Records : record.status \in {"pending", "uncertain"} => record.status # "completed"
        OBVIOUS
      <4> QED BY <3>2, <4>2, <4>3, <4>4, BeginCases
    <3>3. ASSUME NEW name \in DOMAIN Final, Finish(c, name)
          PROVE  /\ \A r \in Requests : file'[r].status = "completed" => accepted[r] > 0
                 /\ outcome'[c] # "duplicate"
      <4>1. want[c] \in Requests /\ (Final[name] = "completed" => accepted[want[c]] > 0)
        BY <3>3, FinishCases, Names DEF ReceiptInv
      <4>2. CASE Leaves(c, "thrown")
        BY <4>2 DEF Leaves, ReceiptInv, TypeOK
      <4>3. ASSUME NEW record \in Records, record.status = Final[name], Stores(c, record, "ok")
            PROVE  /\ \A r \in Requests : file'[r].status = "completed" => accepted[r] > 0
                   /\ outcome'[c] # "duplicate"
          <5>1. /\ \/ file' = file
                   \/ \A r \in Requests : file'[r] = IF r = want[c] THEN record ELSE mem[c][r]
                /\ outcome'[c] \in {"thrown", "ok"}
            BY <4>1, <4>3, StoresFile
          <5>2. \A r \in Requests : file'[r].status = "completed" => accepted[r] > 0
            BY <4>1, <4>3, <5>1 DEF ReceiptInv
          <5> QED BY <5>1, <5>2
      <4> QED BY <3>3, <4>2, <4>3, FinishCases
    <3> QED BY <1>6, <3>1, <3>2, <3>3
  <2> QED BY <2>1, <2>2, <2>3 DEF ReceiptInv, ReceiptsAreTrue
<1>7. ASSUME NEW c \in Calls, Ended(c) PROVE ReceiptInv'
  <2>1. UNCHANGED <<file, mem, accepted>> /\ outcome' = [outcome EXCEPT ![c] = "ok"]
    BY <1>7 DEF Ended
  <2>2. /\ op' \in {[op EXCEPT ![c] = name] : name \in {"lookup", "begin", "uncertain"}}
        /\ \A d \in Calls : d # c => want'[d] = want[d]
        /\ \A r \in receipts' : r \in receipts \/ accepted[r] > 0
    BY <1>7 DEF Ended, Tells, Continues, ReceiptInv, TypeOK
  <2> QED BY <2>1, <2>2 DEF ReceiptInv, ReceiptsAreTrue, TypeOK
<1>8. ASSUME NEW c \in Calls, Answer(c) PROVE ReceiptInv'
  <2>1. want[c] \in Requests
    BY <1>8 DEF TypeOK, CallInv, Answer
  <2>2. \A n \in Nat : More(n) > 0
    BY DEF More
  <2>3. /\ UNCHANGED <<file, mem, want, receipts, outcome>>
        /\ accepted' = accepted \/ accepted' = [accepted EXCEPT ![want[c]] = More(@)]
        /\ \E name \in {"complete", "fail", "uncertain"} :
             /\ op' = [op EXCEPT ![c] = name]
             /\ name = "complete" => accepted' = [accepted EXCEPT ![want[c]] = More(@)]
    BY <1>8 DEF Answer, Continues
  <2>4. /\ \A r \in Requests : accepted[r] > 0 => accepted'[r] > 0
        /\ op'[c] = "complete" => accepted'[want[c]] > 0
    BY <2>1, <2>2, <2>3 DEF TypeOK
  <2>5. \A d \in Calls : op'[d] = "complete" \/ outcome[d] = "duplicate" => accepted'[want[d]] > 0
    <3> SUFFICES ASSUME NEW d \in Calls, op'[d] = "complete" \/ outcome[d] = "duplicate"
                 PROVE  accepted'[want[d]] > 0
      OBVIOUS
    <3>1. CASE d = c
      BY <2>4, <3>1, <1>8 DEF CallInv, Answer, Past
    <3>2. CASE d # c
      <4>1. op[d] = "complete" \/ outcome[d] = "duplicate"
        BY <2>3, <3>2 DEF TypeOK
      <4>2. op[d] # "lookup"
        BY <4>1 DEF CallInv
      <4>3. want[d] \in Requests
        BY <4>2 DEF TypeOK
      <4> QED BY <2>4, <4>1, <4>3 DEF ReceiptInv
    <3> QED BY <3>1, <3>2
  <2> QED BY <2>3, <2>4, <2>5 DEF ReceiptInv, ReceiptsAreTrue, TypeOK
<1>9. ASSUME NEW r \in Requests, RecordAges(r) \/ Drop(r) PROVE ReceiptInv'
  <2>1. /\ UNCHANGED <<mem, op, want, receipts, accepted, outcome>>
        /\ file' = file \/ file' = [file EXCEPT ![r] = NoRecord]
    BY <1>9 DEF RecordAges, Drop, Writes
  <2> QED BY <2>1 DEF ReceiptInv, ReceiptsAreTrue, TypeOK, NoRecord
<1>10. ASSUME NEW p \in Processes, Crash(p) PROVE ReceiptInv'
  BY <1>10 DEF ReceiptInv, ReceiptsAreTrue, Crash, Blank, NoRecord
<1>11. CASE LockAges \/ UNCHANGED vars
  BY <1>1, <1>11 DEF LockAges, vars
<1> QED
  BY <1>2, <1>3, <1>4, <1>5, <1>6, <1>7, <1>8, <1>9, <1>10, <1>11 DEF Next, Step

\* A caller is told that its request was submitted, now or before, only when the provider has
\* accepted it, even by calls whose lock was stolen.
THEOREM LedgerReceipts == Spec => []ReceiptsAreTrue
<1>1. BaseInv /\ ReceiptInv /\ [Next]_vars => ReceiptInv'
  BY NextReceipts
<1>2. ReceiptInv => ReceiptsAreTrue
  BY DEF ReceiptInv
<1> QED BY <1>1, <1>2, InitReceipts, Base, PTL DEF Spec

------------------------------------------------------------------------------
(* Submissions *)

\* Until a lock is stolen one call works under it.
LEMMA OneOwner ==
  ASSUME BaseInv, ~stolen
  PROVE  /\ \A c, d \in Calls : pc[c] \in Owning /\ pc[d] \in Owning => c = d
         /\ \A c \in Calls : pc[c] \in Owning => lock.made
BY LedgerAssumption DEF BaseInv, LockInv, TypeOK

LEMMA StolenStays ==
  ASSUME TypeOK, [Next]_vars, ~stolen'
  PROVE  ~stolen
<1>1. ASSUME NEW c \in Calls,
             Lookup(c) \/ Begin(c) \/ (\E name \in DOMAIN Final : Finish(c, name))
      PROVE  UNCHANGED stolen
  BY <1>1, OperatesType
<1> QED
  BY <1>1
     DEF Next, Step, vars, Status, Submit, Starts, Enter, MakeLock, WriteOwner, Judge, BreakOwner,
         BreakDir, TakeOwner, Load, Recover, LoadFails, ReleaseFails, Release, UnlinkOwner,
         RemoveDir, Ended, Answer, RecordAges, Drop, LockAges, Crash

LEMMA InitSubmission == Init => SubmissionInv
BY DEF Init, SubmissionInv, ReadInv, SoleInv, Submits

\* A step that leaves the file and what calls have read, and takes none to its operation.
LEMMA KeepsRead ==
  ASSUME ReadInv, UNCHANGED file,
         \A c \in Calls : pc'[c] \in {"operate", "recover"} => pc'[c] = pc[c] /\ mem'[c] = mem[c]
  PROVE  ReadInv'
BY DEF ReadInv

\* A step that only the holder of the lock can take, and after which it is past its operation or
\* has the file in its memory.
LEMMA HolderRead ==
  ASSUME BaseInv, ~stolen, ReadInv, NEW c \in Calls, pc[c] \in Owning,
         \A d \in Calls : d # c => pc'[d] = pc[d],
         pc'[c] = "release" \/ (pc'[c] = "operate" /\ mem'[c] = file')
  PROVE  ReadInv'
<1>1. \A d \in Calls : pc[d] \in {"operate", "recover"} => d = c
  BY OneOwner DEF Owning
<1> QED BY <1>1 DEF ReadInv

LEMMA NextRead ==
  ASSUME BaseInv, ~stolen, ReadInv, [Next]_vars
  PROVE  ReadInv'
<1> USE DEF At, Goto, call, ledger, BaseInv
<1>1. ASSUME NEW c \in Calls, Load(c) PROVE ReadInv'
  <2> DEFINE records == [r \in Requests |-> IF Abandoned(Host[c], r, file[r])
                                            THEN [file[r] EXCEPT !.status = "uncertain"]
                                            ELSE file[r]]
  <2>1. /\ mem' = [mem EXCEPT ![c] = records] /\ UNCHANGED file
        /\ pc' = [pc EXCEPT ![c] = IF records = file THEN "operate" ELSE "recover"]
    BY <1>1 DEF Load
  <2>2. \A r \in Requests : Agrees(records[r], file[r])
    BY DEF Agrees, Abandoned
  <2> HIDE DEF records
  <2> QED BY <2>1, <2>2 DEF ReadInv, TypeOK
<1>2. ASSUME NEW c \in Calls, Recover(c) PROVE ReadInv'
  <2>1. /\ mem[c] \in [Requests -> Records] /\ Attempt(c, mem[c], "ok") /\ UNCHANGED mem
        /\ pc' = [pc EXCEPT ![c] = IF outcome'[c] = "ok" THEN "operate" ELSE "release"]
        /\ pc[c] \in Owning
    BY <1>2 DEF Recover, TypeOK, Owning
  <2>2. outcome'[c] = "thrown" \/ file' = mem[c]
    BY <2>1, AttemptType
  <2> QED BY <2>1, <2>2, HolderRead DEF TypeOK
<1>3. ASSUME NEW c \in Calls,
             Lookup(c) \/ Begin(c) \/ (\E name \in DOMAIN Final : Finish(c, name))
      PROVE  ReadInv'
  <2>1. pc' = [pc EXCEPT ![c] = "release"] /\ pc[c] \in Owning
    BY <1>3, OperatesType DEF Owning
  <2> QED BY <2>1, HolderRead DEF TypeOK
<1>4. ASSUME NEW r \in Requests, Drop(r) PROVE ReadInv'
  <2>1. \A c \in Calls : pc[c] \notin Owning
    BY <1>4, OneOwner DEF Drop
  <2> QED BY <1>4, <2>1 DEF Drop, ReadInv, Owning
<1>5. ASSUME NEW c \in Calls, NEW place, UNCHANGED <<file, mem>>,
             pc' = [pc EXCEPT ![c] = place], place \notin {"operate", "recover"}
      PROVE  ReadInv'
  BY <1>5, KeepsRead DEF TypeOK
<1>6. ASSUME NEW c \in Calls,
             Status(c) \/ (\E r \in Requests : Submit(c, r)) \/ Enter(c) \/ MakeLock(c)
               \/ WriteOwner(c) \/ Judge(c) \/ BreakOwner(c) \/ BreakDir(c)
      PROVE  ReadInv'
  <2>1. /\ UNCHANGED <<file, mem>>
        /\ \E place \in {"queued", "mkdir", "judge", "owner", "load", "breakOwner", "breakDir", "ended"} :
             pc' = [pc EXCEPT ![c] = place]
    BY <1>6 DEF Status, Submit, Starts, Enter, MakeLock, WriteOwner, Judge, BreakOwner, BreakDir,
                TriesAgain
  <2> QED BY <1>5, <2>1
<1>7. ASSUME NEW c \in Calls,
             LoadFails(c) \/ ReleaseFails(c) \/ Release(c) \/ UnlinkOwner(c) \/ RemoveDir(c)
               \/ Ended(c) \/ Answer(c)
      PROVE  ReadInv'
  <2>1. /\ UNCHANGED <<file, mem>>
        /\ \E place \in {"release", "ended", "unlink", "rmdir", "queued", "ask", "idle"} :
             pc' = [pc EXCEPT ![c] = place]
    BY <1>7 DEF LoadFails, ReleaseFails, Release, UnlinkOwner, RemoveDir, Ended, Answer, Tells,
                Continues
  <2> QED BY <1>5, <2>1
<1>8. ASSUME NEW p \in Processes, Crash(p) PROVE ReadInv'
  BY <1>8, KeepsRead DEF Crash
<1>9. CASE LockAges \/ (\E r \in Requests : RecordAges(r)) \/ UNCHANGED vars
  BY <1>9, KeepsRead DEF LockAges, RecordAges, vars
<1> QED
  BY <1>1, <1>2, <1>3, <1>4, <1>6, <1>7, <1>8, <1>9 DEF Next, Step

\* A step that keeps the request reserved, and by which no call comes to submit it.
LEMMA KeepsSole ==
  ASSUME NEW r \in Requests, SoleInv(r), accepted'[r] = accepted[r],
         file[r].status \in Reserved => file'[r].status \in Reserved,
         \A c \in Calls : Submits(c, r)' =>
           Submits(c, r) /\ (op'[c] \in {"begin", "fail"} => op[c] \in {"begin", "fail"})
  PROVE  SoleInv(r)'
BY DEF SoleInv

\* A step of a call that leaves what it submits, and is past its operation if it was.
LEMMA StepSole ==
  ASSUME TypeOK, NEW r \in Requests, SoleInv(r), UNCHANGED <<accepted, op, want>>, NEW c \in Calls,
         file[r].status \in Reserved => file'[r].status \in Reserved,
         \A d \in Calls : d # c => pc'[d] = pc[d] /\ outcome'[d] = outcome[d],
         pc'[c] # "ask", outcome'[c] = "go" => outcome[c] = "go",
         pc[c] \in Past => pc'[c] \in Past
  PROVE  SoleInv(r)'
<1>1. \A d \in Calls : Submits(d, r)' => Submits(d, r)
  BY DEF Submits
<1> QED BY <1>1, KeepsSole

\* begin reserves a request that nobody has submitted, or leaves it reserved.
LEMMA BeginSole ==
  ASSUME BaseInv, ReadInv, NEW r \in Requests, SoleInv(r), NEW c \in Calls, Begin(c)
  PROVE  SoleInv(r)'
<1> USE DEF BaseInv
<1>1. /\ pc[c] = "operate" /\ pc'[c] = "release" /\ mem[c] = file
      /\ want[c] \in Requests /\ op[c] = "begin"
      /\ UNCHANGED <<accepted, op, want>>
      /\ \A d \in Calls : d # c => pc'[d] = pc[d] /\ outcome'[d] = outcome[d]
  BY OperatesType, BeginCases DEF TypeOK, ReadInv, provider
<1>2. ~Submits(c, r)
  BY <1>1 DEF Submits, CallInv, Past
<1>3. ASSUME NEW result \in {"refused", "duplicate"}, Leaves(c, result) PROVE SoleInv(r)'
  <2>1. UNCHANGED file /\ outcome'[c] # "go"
    BY <1>3 DEF Leaves, ledger, Gets, TypeOK
  <2> QED BY <1>1, <2>1, StepSole DEF Past
<1>4. ASSUME NEW record \in Records, NEW result \in {"go", "refused"}, Stores(c, record, result)
      PROVE  /\ file'[r] = file[r] \/ (r = want[c] /\ file'[r] = record)
             /\ outcome'[c] = "thrown" \/ (outcome'[c] = result /\ file'[want[c]] = record)
  BY <1>1, <1>4, StoresFile
<1>5. ASSUME NEW record \in Records, record.status = "uncertain", Stores(c, record, "refused")
      PROVE  SoleInv(r)'
  BY <1>1, <1>4, <1>5, StepSole DEF Past, Reserved
<1>6. ASSUME NEW record \in Records, record.status = "pending", Stores(c, record, "go"),
             file[want[c]].status \in {"none", "failed"}
      PROVE  SoleInv(r)'
  <2>1. CASE r # want[c]
    <3>1. \A d \in Calls : Submits(d, r)' => Submits(d, r)
      BY <1>1, <2>1 DEF Submits
    <3> QED BY <1>1, <1>4, <1>6, <2>1, <3>1, KeepsSole
  <2>2. CASE r = want[c]
    <3>1. accepted[r] = 0 /\ \A d \in Calls : ~Submits(d, r)
      BY <1>6, <2>2 DEF SoleInv, Reserved, TypeOK
    <3>2. \A d \in Calls : Submits(d, r)' => d = c
      BY <1>1, <3>1 DEF Submits
    <3>3. Submits(c, r)' => file'[r].status = "pending"
      BY <1>1, <1>4, <1>6, <2>2 DEF Submits, Past
    <3> QED BY <1>1, <3>1, <3>2, <3>3 DEF SoleInv, Reserved
  <2> QED BY <2>1, <2>2
<1> QED BY <1>1, <1>3, <1>5, <1>6, BeginCases

\* complete and uncertain keep the request reserved; fail gives it up, after which nobody submits
\* it.
LEMMA FinishSole ==
  ASSUME BaseInv, ReadInv, NEW r \in Requests, SoleInv(r), NEW c \in Calls,
         NEW name \in DOMAIN Final, Finish(c, name)
  PROVE  SoleInv(r)'
<1> USE DEF BaseInv
<1>1. /\ pc[c] = "operate" /\ pc'[c] = "release" /\ mem[c] = file
      /\ want[c] \in Requests /\ op[c] = name
      /\ UNCHANGED <<accepted, op, want>>
      /\ \A d \in Calls : d # c => pc'[d] = pc[d] /\ outcome'[d] = outcome[d]
  BY OperatesType, FinishCases DEF TypeOK, ReadInv, provider
<1>2. outcome'[c] # "go"
  BY <1>1, OperatesResult, Names
<1>3. \/ file'[r] = file[r]
      \/ r = want[c] /\ file'[r].status = Final[name]
  <2>1. CASE Leaves(c, "thrown")
    BY <2>1 DEF Leaves, ledger
  <2>2. ASSUME NEW record \in Records, record.status = Final[name], Stores(c, record, "ok")
        PROVE  file'[r] = file[r] \/ (r = want[c] /\ file'[r].status = Final[name])
    <3>1. \/ file' = file
          \/ \A q \in Requests : file'[q] = IF q = want[c] THEN record ELSE mem[c][q]
      BY <1>1, <2>2, StoresFile
    <3> QED BY <1>1, <2>2, <3>1
  <2> QED BY <2>1, <2>2, FinishCases
<1>4. CASE name # "fail" \/ r # want[c]
  BY <1>1, <1>2, <1>3, <1>4, Names, StepSole DEF Past, Reserved
<1>5. CASE name = "fail" /\ r = want[c]
  <2>1. Submits(c, r)
    BY <1>1, <1>5 DEF Submits, Past
  <2>2. accepted[r] = 0 /\ \A d \in Calls : Submits(d, r) => d = c
    BY <1>1, <1>5, <2>1 DEF SoleInv
  <2>3. \A d \in Calls : ~Submits(d, r)'
    BY <1>1, <1>2, <1>5, <2>2 DEF Submits, Past
  <2> QED BY <1>1, <2>2, <2>3 DEF SoleInv
<1> QED BY <1>4, <1>5

\* The provider answers the one call that submits the request.
LEMMA AnswerSole ==
  ASSUME BaseInv, NEW r \in Requests, SoleInv(r), NEW c \in Calls, Answer(c), r \notin garbled'
  PROVE  SoleInv(r)'
<1> USE DEF BaseInv
<1>1. /\ pc[c] = "ask" /\ op[c] = "begin" /\ pc' = [pc EXCEPT ![c] = "queued"]
      /\ UNCHANGED <<file, want, outcome>>
      /\ outcome[c] # "go"
  BY DEF Answer, At, CallInv, Continues, Goto, ledger, Past
<1>2. /\ \E name \in {"complete", "fail", "uncertain"} : op' = [op EXCEPT ![c] = name]
      /\ accepted' = accepted \/ accepted' = [accepted EXCEPT ![want[c]] = More(@)]
      /\ op'[c] = "fail" /\ r = want[c] => accepted' = accepted
  BY DEF Answer, Continues, provider, TypeOK
<1>3. CASE r # want[c]
  <2>1. accepted'[r] = accepted[r]
    BY <1>2, <1>3 DEF TypeOK
  <2>2. \A d \in Calls : d # c => pc'[d] = pc[d] /\ op'[d] = op[d]
    BY <1>1, <1>2 DEF TypeOK
  <2>3. \A d \in Calls : Submits(d, r)' => Submits(d, r) /\ op'[d] = op[d]
    BY <1>1, <1>3, <2>2 DEF Submits
  <2> QED BY <1>1, <2>1, <2>3, KeepsSole
<1>4. CASE r = want[c]
  <2>1. Submits(c, r)
    BY <1>1, <1>4 DEF Submits
  <2>2. /\ accepted[r] = 0 /\ file[r].status \in Reserved
        /\ \A d \in Calls : Submits(d, r) => d = c
    BY <1>1, <2>1 DEF SoleInv
  <2>3. \A d \in Calls : Submits(d, r)' => d = c
    BY <1>1, <1>2, <2>2 DEF Submits, TypeOK
  <2>4. accepted'[r] \in {0, 1}
    BY <1>2, <1>4, <2>2 DEF TypeOK, More
  <2>5. op'[c] \in {"begin", "fail"} => accepted'[r] = 0
    BY <1>2, <1>4, <2>2 DEF TypeOK
  <2> QED BY <1>1, <2>2, <2>3, <2>4, <2>5 DEF SoleInv
<1> QED BY <1>3, <1>4

LEMMA NextSole ==
  ASSUME BaseInv, ~stolen, ReadInv, [Next]_vars,
         NEW r \in Requests, SoleInv(r), r \notin garbled' \cup forgotten'
  PROVE  SoleInv(r)'
<1> USE DEF At, Goto, Gets, call, ledger, provider, BaseInv
<1>1. ASSUME NEW c \in Calls,
             Enter(c) \/ MakeLock(c) \/ WriteOwner(c) \/ Judge(c) \/ BreakOwner(c) \/ BreakDir(c)
               \/ Load(c)
      PROVE  SoleInv(r)'
  <2>1. /\ UNCHANGED <<file, accepted, op, want>> /\ pc[c] \notin Past
        /\ outcome' = outcome \/ outcome' = [outcome EXCEPT ![c] = "thrown"]
        /\ \E place \in {"mkdir", "judge", "owner", "load", "breakOwner", "breakDir", "ended",
                       "operate", "recover"} : pc' = [pc EXCEPT ![c] = place]
    BY <1>1 DEF Enter, MakeLock, WriteOwner, Judge, BreakOwner, BreakDir, TriesAgain, Load, Past
  <2> QED BY <2>1, StepSole DEF TypeOK
<1>2. ASSUME NEW c \in Calls,
             LoadFails(c) \/ ReleaseFails(c) \/ Release(c) \/ UnlinkOwner(c) \/ RemoveDir(c)
      PROVE  SoleInv(r)'
  <2>1. /\ UNCHANGED <<file, accepted, op, want>>
        /\ outcome' = outcome \/ outcome' = [outcome EXCEPT ![c] = "thrown"]
        /\ \E place \in {"release", "ended", "unlink", "rmdir"} : pc' = [pc EXCEPT ![c] = place]
    BY <1>2 DEF LoadFails, ReleaseFails, Release, UnlinkOwner, RemoveDir
  <2> QED BY <2>1, StepSole DEF TypeOK, Past
<1>3. ASSUME NEW c \in Calls, Recover(c) PROVE SoleInv(r)'
  <2>1. /\ mem[c] \in [Requests -> Records] /\ Attempt(c, mem[c], "ok")
        /\ UNCHANGED <<accepted, op, want>>
        /\ \E place \in {"operate", "release"} : pc' = [pc EXCEPT ![c] = place]
        /\ pc[c] = "recover"
    BY <1>3 DEF Recover, TypeOK
  <2>2. /\ file' = mem[c] \/ file' = file
        /\ \E got \in {"ok", "thrown"} : outcome' = [outcome EXCEPT ![c] = got]
    BY <2>1, AttemptType
  <2>3. mem[c][r] = file[r] \/ mem[c][r].status = "uncertain"
    <3>1. [file[r] EXCEPT !.status = "uncertain"].status = "uncertain"
      BY DEF TypeOK, Records
    <3> QED BY <2>1, <3>1 DEF ReadInv, Agrees
  <2> QED BY <2>1, <2>2, <2>3, StepSole DEF TypeOK, Past, Reserved
<1>4. ASSUME NEW c \in Calls, Lookup(c) PROVE SoleInv(r)'
  <2>1. /\ UNCHANGED <<file, accepted, op, want>>
        /\ pc' = [pc EXCEPT ![c] = "release"] /\ outcome' = [outcome EXCEPT ![c] = "ok"]
    BY <1>4 DEF Lookup, Operates, Leaves
  <2> QED BY <2>1, StepSole DEF TypeOK, Past
<1>5. ASSUME NEW c \in Calls, Status(c) \/ (\E q \in Requests : Submit(c, q)) PROVE SoleInv(r)'
  <2>1. /\ UNCHANGED <<file, outcome, accepted>> /\ pc' = [pc EXCEPT ![c] = "queued"]
        /\ \E first \in {"begin", "lookup"}, q \in Requests \cup {Nobody} :
             op' = [op EXCEPT ![c] = first] /\ want' = [want EXCEPT ![c] = q]
        /\ outcome[c] # "go"
    BY <1>5 DEF Status, Submit, Starts, CallInv, Past
  <2>2. \A d \in Calls : Submits(d, r)' => d # c
    BY <2>1 DEF Submits, TypeOK
  <2>3. \A d \in Calls : Submits(d, r)' => Submits(d, r) /\ op'[d] = op[d]
    BY <2>1, <2>2 DEF Submits, TypeOK
  <2> QED BY <2>1, <2>3, KeepsSole
<1>6. ASSUME NEW c \in Calls, Ended(c) PROVE SoleInv(r)'
  <2>1. UNCHANGED <<file, accepted>> /\ outcome' = [outcome EXCEPT ![c] = "ok"] /\ pc[c] = "ended"
    BY <1>6 DEF Ended
  <2>2. \/ want' = [want EXCEPT ![c] = Nobody]
        \/ /\ op[c] = "begin" /\ outcome[c] = "go" /\ UNCHANGED want
           /\ pc' = [pc EXCEPT ![c] = "ask"] /\ op' = [op EXCEPT ![c] = "begin"]
        \/ /\ op[c] = "complete" /\ UNCHANGED want
           /\ pc' = [pc EXCEPT ![c] = "queued"] /\ op' = [op EXCEPT ![c] = "uncertain"]
    BY <1>6 DEF Ended, Tells, Continues
  <2>3. \A d \in Calls : d # c => pc'[d] = pc[d] /\ op'[d] = op[d] /\ want'[d] = want[d]
    BY <1>6 DEF Ended, Tells, Continues, TypeOK
  <2>4. Submits(c, r)' => Submits(c, r) /\ (op'[c] \in {"begin", "fail"} => op[c] \in {"begin", "fail"})
    BY <2>1, <2>2, LedgerAssumption DEF Submits, TypeOK
  <2>5. \A d \in Calls : d # c => (Submits(d, r)' => Submits(d, r) /\ op'[d] = op[d])
    BY <2>1, <2>3 DEF Submits, TypeOK
  <2> QED BY <2>1, <2>4, <2>5, KeepsSole
<1>7. ASSUME NEW q \in Requests, RecordAges(q) \/ Drop(q) PROVE SoleInv(r)'
  <2>1. /\ UNCHANGED <<pc, op, want, outcome, accepted>>
        /\ file' = file \/ (file' = [file EXCEPT ![q] = NoRecord] /\ q # r)
    BY <1>7 DEF RecordAges, Drop, Writes
  <2>2. \A d \in Calls : Submits(d, r)' => Submits(d, r)
    BY <2>1 DEF Submits
  <2> QED BY <2>1, <2>2, KeepsSole DEF TypeOK
<1>8. ASSUME NEW p \in Processes, Crash(p) PROVE SoleInv(r)'
  <2>1. \A d \in Calls : Submits(d, r)' => Submits(d, r) /\ op'[d] = op[d]
    BY <1>8, LedgerAssumption DEF Crash, Submits
  <2> QED BY <1>8, <2>1, KeepsSole DEF Crash
<1>9. CASE LockAges \/ UNCHANGED vars
  <2>1. \A d \in Calls : Submits(d, r)' => Submits(d, r)
    BY <1>9 DEF LockAges, vars, Submits
  <2> QED BY <1>9, <2>1, KeepsSole DEF LockAges, vars
<1> QED
  BY <1>1, <1>2, <1>3, <1>4, <1>5, <1>6, <1>7, <1>8, <1>9, BeginSole, FinishSole, AnswerSole
     DEF Next, Step

\* A history only grows.
LEMMA HistoriesGrow ==
  ASSUME TypeOK, [Next]_vars
  PROVE  garbled \subseteq garbled' /\ forgotten \subseteq forgotten'
<1> USE DEF ledger, provider
<1>1. ASSUME NEW c \in Calls, Begin(c) PROVE UNCHANGED <<garbled, forgotten>>
  BY <1>1, OperatesType, BeginCases, StoresFile DEF Leaves
<1>2. ASSUME NEW c \in Calls, NEW name \in DOMAIN Final, Finish(c, name)
      PROVE  UNCHANGED <<garbled, forgotten>>
  BY <1>2, OperatesType, FinishCases, StoresFile DEF Leaves
<1> QED
  BY <1>1, <1>2
     DEF Next, Step, vars, Status, Submit, Starts, Enter, MakeLock, WriteOwner, Judge, BreakOwner,
         BreakDir, Load, Recover, Attempt, LoadFails, ReleaseFails, Lookup, Operates, Leaves,
         Release, UnlinkOwner, RemoveDir, Ended, Answer, RecordAges, Drop, LockAges, Crash

\* Until the lock of a live call is removed by another, the provider accepts a request once, over
\* timeouts, deaths and failing writes, unless an answer could not be read or the record was
\* dropped: the reservation in the file outlives everybody who may still ask.
THEOREM LedgerOneAcceptance == Spec => []OneAcceptance
<1>1. BaseInv /\ SubmissionInv /\ [Next]_vars => SubmissionInv'
  <2> SUFFICES ASSUME BaseInv, SubmissionInv, [Next]_vars, ~stolen' PROVE SubmissionInv'
    BY DEF SubmissionInv
  <2>1. ~stolen
    BY StolenStays DEF BaseInv
  <2>2. ReadInv'
    BY <2>1, NextRead DEF SubmissionInv
  <2>3. ASSUME NEW r \in Requests, r \notin garbled' \cup forgotten' PROVE SoleInv(r)'
    <3>1. SoleInv(r)
      BY <2>1, <2>3, HistoriesGrow DEF SubmissionInv, BaseInv
    <3> QED BY <2>1, <2>3, <3>1, NextSole DEF SubmissionInv
  <2> QED BY <2>2, <2>3 DEF SubmissionInv
<1>2. SubmissionInv => OneAcceptance
  BY DEF SubmissionInv, SoleInv, OneAcceptance
<1> QED BY <1>1, <1>2, InitSubmission, Base, PTL DEF Spec

------------------------------------------------------------------------------
(* Two servers: the lock is broken only after the death of its owner, so no  *)
(* live call loses it.                                                       *)

\* Of any three servers two are the same.
TwoServers == \A p, q, r \in Processes : p = q \/ q = r \/ p = r

\* Places between the turn of a call in its server and the end of its operation.
Busy == Locking \cup Holding

\* One call of a server at a time is busy, and one that is about to break the lock has found its
\* owner dead.
TurnInv ==
  /\ \A c, d \in Calls : Host[c] = Host[d] /\ pc[c] \in Busy /\ pc[d] \in Busy => c = d
  /\ \A c \in Calls : pc[c] = "breakOwner" =>
       dead # {} /\ (lock.owner = Nobody \/ Host[lock.owner] \in dead)

\* A call takes a step.
Moves(c) ==
  Status(c) \/ Step(c) \/ LoadFails(c) \/ ReleaseFails(c) \/ (\E r \in Requests : Submit(c, r))

\* What a step of a call does to its place and to the lock.
LEMMA CallPlaces ==
  ASSUME TypeOK, NEW c \in Calls, Moves(c)
  PROVE  /\ Host[c] \notin dead /\ dead' = dead
         /\ \E place : /\ pc' = [pc EXCEPT ![c] = place]
                       /\ place \in Busy => pc[c] \in Busy \/ Enter(c)
                       /\ place = "breakOwner" => Stale /\ lock' = lock
         /\ pc[c] \notin Busy => lock' = lock
<1> USE DEF At, Goto, Busy, Locking, Holding
<1>1. CASE Status(c) \/ (\E r \in Requests : Submit(c, r)) \/ Enter(c)
  BY <1>1 DEF Status, Submit, Starts, Enter
<1>2. CASE MakeLock(c) \/ WriteOwner(c) \/ Judge(c) \/ BreakOwner(c) \/ BreakDir(c)
  BY <1>2 DEF MakeLock, WriteOwner, Judge, BreakOwner, BreakDir, TriesAgain
<1>3. CASE Load(c) \/ Recover(c) \/ LoadFails(c) \/ ReleaseFails(c)
  BY <1>3 DEF Load, Recover, LoadFails, ReleaseFails
<1>4. CASE Lookup(c) \/ Begin(c) \/ (\E name \in DOMAIN Final : Finish(c, name))
  <2>1. pc' = [pc EXCEPT ![c] = "release"] /\ pc[c] = "operate" /\ dead' = dead
    BY <1>4, OperatesType
  <2>2. Host[c] \notin dead
    BY <1>4 DEF Lookup, Begin, Finish, Operates
  <2>3. "release" # "breakOwner" /\ pc[c] \in Busy
    BY <2>1
  <2> HIDE DEF Busy
  <2> QED BY <2>1, <2>2, <2>3
<1>5. CASE Release(c) \/ UnlinkOwner(c) \/ RemoveDir(c)
  BY <1>5 DEF Release, UnlinkOwner, RemoveDir
<1>6. CASE Ended(c) \/ Answer(c)
  BY <1>6 DEF Ended, Tells, Continues, Answer
<1> QED BY <1>1, <1>2, <1>3, <1>4, <1>5, <1>6 DEF Moves, Step

LEMMA NextTurn ==
  ASSUME TwoServers, BaseInv, TurnInv, [Next]_vars
  PROVE  TurnInv'
<1> USE DEF BaseInv
<1>1. ASSUME NEW c \in Calls, Moves(c) PROVE TurnInv'
  <2>1. PICK place : /\ pc' = [pc EXCEPT ![c] = place]
                     /\ place \in Busy => pc[c] \in Busy \/ Enter(c)
                     /\ place = "breakOwner" => Stale /\ lock' = lock
    BY <1>1, CallPlaces
  <2>2. Host[c] \notin dead /\ dead' = dead /\ (pc[c] \notin Busy => lock' = lock)
    BY <1>1, CallPlaces
  <2>3. /\ pc'[c] = place /\ \A d \in Calls : d # c => pc'[d] = pc[d]
        /\ Host \in [Calls -> Processes]
    BY <2>1, LedgerAssumption DEF TypeOK
  <2>4. ASSUME NEW d \in Calls, d # c, Host[d] = Host[c], place \in Busy PROVE pc[d] \notin Busy
    <3>1. CASE Enter(c)
      BY <2>4, <3>1 DEF Enter, Busy
    <3>2. CASE pc[c] \in Busy
      BY <2>4, <3>2 DEF TurnInv
    <3> QED BY <2>1, <2>4, <3>1, <3>2
  <2>5. ASSUME NEW d \in Calls, pc'[d] = "breakOwner"
        PROVE  dead' # {} /\ (lock'.owner = Nobody \/ Host[lock'.owner] \in dead')
    <3>1. CASE d = c
      BY <2>1, <2>2, <2>3, <2>5, <3>1 DEF Stale
    <3>2. CASE d # c
      <4>1. pc[d] = "breakOwner" /\ pc[d] \in Busy
        BY <2>3, <2>5, <3>2 DEF Busy, Locking
      <4>2. PICK q : q \in dead
        BY <4>1 DEF TurnInv
      <4>3. Host[d] \notin dead
        BY <4>1 DEF LockInv
      <4>4. Host[c] = Host[d]
        <5>1. q \in Processes /\ Host[c] \in Processes /\ Host[d] \in Processes
          BY <2>3, <4>2 DEF TypeOK
        <5>2. q # Host[c] /\ q # Host[d]
          BY <2>2, <4>2, <4>3
        <5> QED BY <5>1, <5>2 DEF TwoServers
      <4>5. lock' = lock
        BY <2>2, <3>2, <4>1, <4>4 DEF TurnInv
      <4> QED BY <2>2, <4>1, <4>5 DEF TurnInv
    <3> QED BY <3>1, <3>2
  <2> QED BY <2>3, <2>4, <2>5 DEF TurnInv
<1>2. ASSUME NEW p \in Processes, Crash(p) PROVE TurnInv'
  <2>1. /\ dead \subseteq dead' /\ lock' = lock
        /\ \A c \in Calls : pc'[c] = pc[c] \/ pc'[c] = "idle"
    BY <1>2 DEF Crash
  <2> QED BY <2>1 DEF TurnInv, Busy, Locking, Holding
<1>3. CASE LockAges \/ (\E r \in Requests : RecordAges(r) \/ Drop(r)) \/ UNCHANGED vars
  <2>1. UNCHANGED <<pc, dead>> /\ lock'.owner = lock.owner
    BY <1>3 DEF LockAges, RecordAges, Drop, vars, TypeOK
  <2> QED BY <2>1 DEF TurnInv
<1> QED BY <1>1, <1>2, <1>3 DEF Next, Moves

\* Who removes an owner file removes its own, or that of a dead server.
LEMMA NextTheft ==
  ASSUME BaseInv, TurnInv, ~stolen, [Next]_vars
  PROVE  ~stolen'
<1> USE DEF BaseInv
<1>1. ASSUME NEW c \in Calls, BreakOwner(c) PROVE ~stolen'
  BY <1>1 DEF BreakOwner, TakeOwner, TurnInv, At
<1>2. ASSUME NEW c \in Calls, UnlinkOwner(c) PROVE ~stolen'
  BY <1>2 DEF UnlinkOwner, TakeOwner, LockInv, Owning, At
<1>3. CASE ~\E c \in Calls : BreakOwner(c) \/ UnlinkOwner(c)
  <2>1. ASSUME NEW c \in Calls, Lookup(c) \/ Begin(c) \/ (\E name \in DOMAIN Final : Finish(c, name))
        PROVE  stolen' = stolen
    BY <2>1, OperatesType
  <2> QED BY <1>3, <2>1
          DEF Next, Step, vars, Status, Submit, Starts, Enter, MakeLock, WriteOwner, Judge, BreakDir,
              Load, Recover, LoadFails, ReleaseFails, Release, RemoveDir, Ended, Answer, LockAges,
              RecordAges, Drop, Crash
<1> QED BY <1>1, <1>2, <1>3

\* Two servers never remove the lock of a live call: removeStaleLock takes a lock whose owner is
\* dead, and the calls of the one server that is left come one after the other
\* (withProcessStateLock).
THEOREM LedgerNoTheft == ASSUME TwoServers PROVE Spec => []~stolen
<1>1. Init => TurnInv /\ ~stolen
  BY DEF Init, TurnInv, Busy, Locking, Holding
<1>2. BaseInv /\ TurnInv /\ ~stolen /\ [Next]_vars => TurnInv' /\ ~stolen'
  BY NextTurn, NextTheft
<1> QED BY <1>1, <1>2, Base, PTL DEF Spec

\* So with two servers the provider accepts a request once, whatever fails or dies, but for answers
\* that cannot be read and records that were dropped.
THEOREM LedgerTwoServers ==
  ASSUME TwoServers
  PROVE  Spec => [](\A r \in Requests \ (garbled \cup forgotten) : accepted[r] < 2)
<1>1. OneAcceptance /\ ~stolen => \A r \in Requests \ (garbled \cup forgotten) : accepted[r] < 2
  BY DEF OneAcceptance
<1> QED BY <1>1, LedgerOneAcceptance, LedgerNoTheft, PTL
=============================================================================
