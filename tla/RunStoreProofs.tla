--------------------------- MODULE RunStoreProofs ---------------------------
(***************************************************************************)
(* Theorems about RunStore for any calls, processes and submissions, with  *)
(* failing steps and crashes.  FileInv is about pointers and records,      *)
(* ToldInv about what the calls were told; with both, every step of the    *)
(* store is one of SubmissionTable or none.                                *)
(***************************************************************************)
EXTENDS RunStore, TLAPS

PCs == Publishing \cup {"idle", "submit", "get", "done"}
Answers == {"pending", "created", "existing", "conflict", "found", "missing", "failed"}

LEMMA WantedType ==
  ASSUME TypeOK, NEW c \in Calls
  PROVE  /\ wanted[c] \in Submissions
         /\ wanted[c].run \in Runs
         /\ wanted[c].key \in Keys
         /\ wanted[c] = [run |-> wanted[c].run, key |-> wanted[c].key, body |-> wanted[c].body]
         /\ c # NoFile
  BY StoreAssumption DEF TypeOK, Runs, Keys, StoreAssumption

LEMMA FileType ==
  ASSUME TypeOK
  PROVE  /\ \A r \in Runs : records[r] # NoFile => records[r] \in Calls
         /\ \A k \in Keys : keys[k] # NoFile => keys[k] \in Calls
  BY DEF TypeOK

LEMMA TypeInit == Init => TypeOK
  <1> SUFFICES ASSUME Init PROVE TypeOK
    OBVIOUS
  <1>1. owner \in [Calls -> Runs]
    BY DEF Init, Runs
  <1> QED BY <1>1 DEF Init, TypeOK, Publishing, Reading

LEMMA TypeNext == TypeOK /\ [Next]_vars => TypeOK'
  <1> SUFFICES ASSUME TypeOK, [Next]_vars PROVE TypeOK'
    OBVIOUS
  <1> USE DEF TypeOK, files, Goto, Tells, At, Publishing, Reading
  <1>1. CASE UNCHANGED vars
    BY <1>1 DEF vars
  <1>2. ASSUME NEW c \in Calls, Begin(c, "submit") \/ Begin(c, "get") PROVE TypeOK'
    BY <1>2 DEF Begin
  <1>3. ASSUME NEW c \in Calls, Fails(c) \/ FailsAtOnce(c) PROVE TypeOK'
    BY <1>3 DEF Fails, FailsAtOnce
  <1>4. ASSUME NEW p \in Processes, Crash(p) PROVE TypeOK'
    BY <1>4 DEF Crash
  <1>5. ASSUME NEW c \in Calls, Step(c) PROVE TypeOK'
    <2>1. CASE Audit(c)
      BY <2>1 DEF Audit, Compared
    <2>2. CASE LookUp(c)
      BY <2>2 DEF LookUp
    <2>3. ASSUME NEW which \in {"record", "key"}, NEW place \in PCs, NEW next \in PCs,
                 WriteTemp(c, which, place, next) \/ DropTemp(c, which, place, next)
          PROVE  TypeOK'
      BY <2>3 DEF WriteTemp, DropTemp, PCs
    <2>4. CASE LinkKey(c)
      BY <2>4, WantedType DEF LinkKey
    <2>5. CASE ReadKey(c)
      BY <2>5, WantedType, FileType DEF ReadKey
    <2>6. CASE ReadRecord(c)
      BY <2>6 DEF ReadRecord, Compared
    <2>7. CASE LinkRecord(c)
      BY <2>7, WantedType DEF LinkRecord
    <2>8. CASE UnlinkKey(c)
      BY <2>8, WantedType DEF UnlinkKey
    <2>9. CASE Reread(c)
      BY <2>9 DEF Reread
    <2> QED BY <1>5, <2>1, <2>2, <2>3, <2>4, <2>5, <2>6, <2>7, <2>8, <2>9 DEF Step, PCs
  <1> QED BY <1>1, <1>2, <1>3, <1>4, <1>5 DEF Next

\* The files and the calls keep their shape, for any calls and submissions.
THEOREM StoreType == Spec => []TypeOK
  BY TypeInit, TypeNext, PTL DEF Spec

------------------------------------------------------------------------------
(* Pointers and records *)

HasRecord == {"dropRecord", "dropKey", "reread"}
Over == {"cleanRecord", "cleanKey", "done"}

\* A pointer belongs to a call of its key that goes on to publish the record, did
\* so, or is turned down; a record belongs to the call its pointer belongs to.
FileInv ==
  /\ \A k \in Keys : keys[k] # NoFile =>
       /\ wanted[keys[k]].key = k
       /\ pc[keys[k]] \in {"linkRecord", "unlinkKey", "readRecord"} \cup HasRecord \cup Over
       /\ pc[keys[k]] \in Over =>
            answer[keys[k]] \in {"failed", "conflict"} \/ records[wanted[keys[k]].run] = keys[k]
  /\ \A r \in Runs : records[r] # NoFile =>
       /\ wanted[records[r]].run = r
       /\ keys[wanted[records[r]].key] = records[r]
       /\ pc[records[r]] \in HasRecord \cup Over
  /\ \A c \in Calls :
       /\ pc[c] \in {"linkRecord", "unlinkKey"} => keys[wanted[c].key] = c
       /\ pc[c] \in HasRecord => records[wanted[c].run] = c
       /\ pc[c] \notin {"readRecord"} \cup Over => owner[c] = wanted[c].run
       /\ pc[c] = "readRecord" /\ keys[wanted[c].key] = c => owner[c] = wanted[c].run

LEMMA FileInit == Init => FileInv
  BY DEF Init, FileInv, HasRecord

\* Steps that leave the files alone.
LEMMA FileKept ==
  ASSUME TypeOK, FileInv, UNCHANGED <<records, keys, wanted>>,
         \A c \in Calls :
           \/ pc'[c] = pc[c] /\ answer'[c] = answer[c] /\ owner'[c] = owner[c]
           \/ /\ pc[c] \notin {"linkRecord", "unlinkKey", "readRecord"} \cup HasRecord \cup Over
              /\ pc'[c] \notin {"linkRecord", "unlinkKey"} \cup HasRecord
           \/ pc[c] \in Over /\ pc'[c] \in Over /\ answer'[c] = answer[c]
           \/ pc[c] \in HasRecord /\ pc'[c] \in HasRecord \cup Over
           \/ pc[c] = "linkRecord" /\ pc'[c] = "unlinkKey"
           \/ /\ pc[c] \in {"linkRecord", "readRecord"} /\ pc'[c] \in Over
              /\ answer'[c] \in {"failed", "conflict"} \/ keys[wanted[c].key] # c,
         \A c \in Calls : pc'[c] \notin {"readRecord"} \cup Over => owner'[c] = owner[c]
  PROVE  FileInv'
  <1>1. \A k \in Keys : keys[k] # NoFile => keys[k] \in Calls /\ wanted[keys[k]].run \in Runs
    BY FileType, WantedType
  <1>2. \A r \in Runs : records[r] # NoFile => records[r] \in Calls
    BY FileType
  <1>3. ASSUME NEW k \in Keys, keys[k] # NoFile
        PROVE  /\ wanted[keys[k]].key = k
               /\ pc'[keys[k]] \in {"linkRecord", "unlinkKey", "readRecord"} \cup HasRecord \cup Over
               /\ pc'[keys[k]] \in Over =>
                    answer'[keys[k]] \in {"failed", "conflict"} \/ records[wanted[keys[k]].run] = keys[k]
    BY <1>1, <1>3 DEF FileInv, HasRecord, Over
  <1>4. ASSUME NEW r \in Runs, records[r] # NoFile
        PROVE  pc'[records[r]] \in HasRecord \cup Over
    BY <1>2, <1>4 DEF FileInv, HasRecord, Over
  <1>5. ASSUME NEW c \in Calls
        PROVE  /\ pc'[c] \in {"linkRecord", "unlinkKey"} => keys[wanted[c].key] = c
               /\ pc'[c] \in HasRecord => records[wanted[c].run] = c
               /\ pc'[c] \notin {"readRecord"} \cup Over => owner'[c] = wanted[c].run
    BY DEF FileInv, HasRecord, Over
  <1>6. ASSUME NEW c \in Calls, pc'[c] = "readRecord", keys[wanted[c].key] = c
        PROVE  owner'[c] = wanted[c].run
    <2>0. wanted[c].key \in Keys /\ c # NoFile
      BY WantedType
    <2>1. pc[c] \in {"linkRecord", "unlinkKey", "readRecord"} \cup HasRecord \cup Over
      BY <1>6, <2>0 DEF FileInv
    <2> QED BY <1>6, <2>1 DEF FileInv, HasRecord, Over
  <1> QED BY <1>3, <1>4, <1>5, <1>6 DEF FileInv

LEMMA FileStep ==
  ASSUME TypeOK, FileInv, NEW c \in Calls, Step(c)
  PROVE  FileInv'
  <1> USE DEF files, Goto, Tells, At
  <1>0. pc \in [Calls -> PCs] /\ answer \in [Calls -> Answers]
    BY DEF TypeOK, PCs, Answers
  <1>1. CASE Audit(c) \/ LookUp(c)
    <2>1. /\ pc[c] \in {"submit", "get"} /\ UNCHANGED <<records, keys, wanted, owner>>
          /\ pc' = [pc EXCEPT ![c] = "done"] \/ pc' = [pc EXCEPT ![c] = "tempRecord"]
          /\ \A d \in Calls \ {c} : answer'[d] = answer[d]
      BY <1>0, <1>1 DEF Audit, LookUp
    <2> QED BY <1>0, <2>1, FileKept DEF HasRecord, Over
  <1>2. CASE \/ WriteTemp(c, "record", "tempRecord", "tempKey")
             \/ WriteTemp(c, "key", "tempKey", "linkKey")
    BY <1>0, <1>2, FileKept DEF WriteTemp, HasRecord, Over
  <1>3. CASE LinkKey(c)
    <2>1. CASE keys[wanted[c].key] = NoFile
      BY <1>0, <1>3, <2>1, FileType, WantedType DEF LinkKey, FileInv, HasRecord, Over, TypeOK
    <2>2. CASE keys[wanted[c].key] # NoFile
      BY <1>0, <1>3, <2>2, FileKept DEF LinkKey, HasRecord, Over
    <2> QED BY <2>1, <2>2
  <1>4. CASE ReadKey(c)
    <2>1. /\ pc[c] = "readKey" /\ UNCHANGED <<records, keys, wanted>>
          /\ pc' = [pc EXCEPT ![c] = "readRecord"] \/ pc' = [pc EXCEPT ![c] = "cleanRecord"]
          /\ \A d \in Calls \ {c} : answer'[d] = answer[d] /\ owner'[d] = owner[d]
      BY <1>0, <1>4 DEF ReadKey, TypeOK
    <2> QED BY <1>0, <2>1, FileKept DEF HasRecord, Over
  <1>4a. CASE ReadRecord(c)
    <2>1. /\ pc[c] = "readRecord" /\ UNCHANGED <<records, keys, wanted, owner>>
          /\ pc' = [pc EXCEPT ![c] = "cleanRecord"]
          /\ \A d \in Calls \ {c} : answer'[d] = answer[d]
      BY <1>0, <1>4a DEF ReadRecord
    \* A call that reads the record that beat its own is not told of its own.
    <2>2. ASSUME keys[wanted[c].key] = c PROVE answer'[c] \in {"failed", "conflict"}
      <3>1. owner[c] = wanted[c].run /\ wanted[c].run \in Runs /\ c # NoFile
        BY <2>1, <2>2, WantedType DEF FileInv
      <3>2. records[owner[c]] # c
        BY <2>1, <3>1 DEF FileInv, HasRecord, Over
      <3>3. records[owner[c]] # NoFile => wanted[records[owner[c]]] # wanted[c]
        BY <2>2, <3>1, <3>2 DEF FileInv
      <3> QED BY <1>0, <1>4a, <3>3 DEF ReadRecord, Compared
    <2> QED BY <1>0, <2>1, <2>2, FileKept DEF HasRecord, Over
  <1>5. CASE LinkRecord(c)
    <2>1. CASE records[wanted[c].run] = NoFile
      BY <1>0, <1>5, <2>1, FileType, WantedType DEF LinkRecord, FileInv, HasRecord, Over, TypeOK
    <2>2. CASE records[wanted[c].run] # NoFile
      BY <1>0, <1>5, <2>2, FileKept DEF LinkRecord, HasRecord, Over
    <2> QED BY <2>1, <2>2
  <1>6. CASE UnlinkKey(c)
    <2>0. /\ pc[c] = "unlinkKey" /\ pc' = [pc EXCEPT ![c] = "readRecord"]
          /\ UNCHANGED <<records, wanted, owner, answer>>
      BY <1>6 DEF UnlinkKey
    <2>1. CASE keys' = [keys EXCEPT ![wanted[c].key] = NoFile]
      BY <1>0, <2>0, <2>1, FileType, WantedType DEF FileInv, HasRecord, Over, TypeOK
    <2>2. CASE UNCHANGED keys
      <3>1. owner[c] = wanted[c].run
        BY <2>0 DEF FileInv, Over
      <3> QED BY <1>0, <2>0, <2>2, <3>1, FileType, WantedType DEF FileInv, HasRecord, Over
    <2> QED BY <1>6, <2>1, <2>2 DEF UnlinkKey
  <1>7. CASE DropTemp(c, "record", "dropRecord", "dropKey") \/ DropTemp(c, "key", "dropKey", "reread")
    BY <1>0, <1>7, FileKept DEF DropTemp, HasRecord, Over
  <1>8. CASE Reread(c)
    BY <1>0, <1>8, FileKept DEF Reread, HasRecord, Over
  <1>9. CASE DropTemp(c, "record", "cleanRecord", "cleanKey") \/ DropTemp(c, "key", "cleanKey", "done")
    BY <1>0, <1>9, FileKept DEF DropTemp, HasRecord, Over
  <1> QED BY <1>1, <1>2, <1>3, <1>4, <1>4a, <1>5, <1>6, <1>7, <1>8, <1>9 DEF Step

LEMMA FileNext == TypeOK /\ FileInv /\ [Next]_vars => FileInv'
  <1> SUFFICES ASSUME TypeOK, FileInv, [Next]_vars PROVE FileInv'
    OBVIOUS
  <1> USE DEF files, Goto, Tells, At
  <1>0. pc \in [Calls -> PCs] /\ answer \in [Calls -> Answers]
    BY DEF TypeOK, PCs, Answers
  <1>1. CASE UNCHANGED vars \/ \E p \in Processes : Crash(p)
    BY <1>1, FileKept DEF vars, Crash
  <1>2. ASSUME NEW c \in Calls, Begin(c, "submit") \/ Begin(c, "get") PROVE FileInv'
    BY <1>0, <1>2, FileKept DEF Begin, HasRecord, Over
  <1>3. ASSUME NEW c \in Calls, Fails(c) PROVE FileInv'
    BY <1>0, <1>3, FileKept DEF Fails, HasRecord, Over, Reading
  <1>4. ASSUME NEW c \in Calls, FailsAtOnce(c) PROVE FileInv'
    BY <1>0, <1>4, FileKept DEF FailsAtOnce, HasRecord, Over
  <1> QED BY <1>1, <1>2, <1>3, <1>4, FileStep DEF Next

\* Whatever fails or dies, a published record has its pointer, and both come from
\* one call (publishRecord, exclusiveLink).
THEOREM StorePairs == Spec => []RecordsHaveKeys
  <1>1. FileInv => RecordsHaveKeys
    BY DEF FileInv, RecordsHaveKeys
  <1> QED BY <1>1, FileInit, FileNext, StoreType, PTL DEF Spec

------------------------------------------------------------------------------
(* What the calls were told *)

\* A call has an answer once its submission is over; a creator has its record;
\* whoever was told of a record can read it; a pointer that has no record yet has
\* its temporary name, until its call is over; and a call goes on to read the
\* record of its own run, or one that has its key, unless its key is stuck.

ToldCall(c) ==
  /\ pc[c] \notin Over => answer[c] = "pending"
  /\ answer[c] = "created" => records[wanted[c].run] = c
  /\ pc[c] \in {"linkKey", "readKey", "readRecord", "linkRecord", "unlinkKey"} =>
       <<c, "key">> \in temps
  /\ pc[c] = "readRecord" =>
       \/ owner[c] = wanted[c].run
       \/ wanted[c].key \in Stuck
       \/ records[owner[c]] # NoFile /\ wanted[records[owner[c]]].key = wanted[c].key

ToldInv == ToldIsFinished /\ \A c \in Calls : ToldCall(c)

LEMMA ToldInit == Init => ToldInv
  BY DEF Init, ToldInv, ToldCall, ToldIsFinished, Over

\* What a step of a call may do to the published files: link its own record and
\* pointer, and take back the pointer, until it is over.
OwnFiles(c) ==
  /\ \A r \in Runs :
       \/ records'[r] = records[r]
       \/ pc[c] \notin Over /\ records[r] = NoFile /\ records'[r] = c
  /\ \A k \in Keys :
       \/ keys'[k] = keys[k]
       \/ pc[c] \notin Over /\ keys[k] \in {NoFile, c} /\ keys'[k] \in {NoFile, c}

\* Keys get stuck by calls that are over, and stay so.
LEMMA StuckGrows ==
  ASSUME TypeOK, ToldInv, NEW c \in Calls, UNCHANGED wanted, OwnFiles(c),
         \A d \in Calls \ {c} : answer'[d] = answer[d],
         answer'[c] = answer[c] \/ pc[c] \notin Over
  PROVE  /\ Stuck \subseteq Stuck'
         /\ UNCHANGED answer => Stuck' = Stuck
  <1>1. \A d \in Calls : answer[d] \in {"failed", "conflict"} => pc[d] \in Over
    BY DEF ToldInv, ToldCall
  <1>2. \A d \in Calls : wanted[d].run \in Runs /\ d # NoFile
    BY WantedType
  <1>3. ASSUME NEW k \in Stuck PROVE k \in Stuck'
    <2>1. keys[k] \in Calls /\ pc[keys[k]] \in Over
      BY <1>1, <1>3, FileType DEF Stuck
    <2>2. keys'[k] = keys[k] /\ answer'[keys[k]] = answer[keys[k]]
      BY <1>3, <2>1 DEF Stuck, OwnFiles
    <2>3. records'[wanted[keys[k]].run] # keys[k]
      BY <1>2, <1>3, <2>1 DEF Stuck, OwnFiles
    <2> QED BY <1>3, <2>1, <2>2, <2>3 DEF Stuck
  <1>4. ASSUME UNCHANGED answer, NEW k \in Stuck' PROVE k \in Stuck
    <2>1. keys'[k] = keys[k]
      BY <1>1, <1>4 DEF Stuck, OwnFiles
    <2>2. keys[k] \in Calls /\ wanted[keys[k]].run \in Runs
      BY <1>2, <1>4, <2>1, FileType DEF Stuck
    <2> QED BY <1>2, <1>4, <2>1, <2>2 DEF Stuck, OwnFiles
  <1> QED BY <1>3, <1>4

\* A step of one call leaves the others' invariant alone.
LEMMA ToldOthers ==
  ASSUME TypeOK, ToldInv, NEW c \in Calls, UNCHANGED wanted, OwnFiles(c),
         \A f \in temps : f[1] # c => f \in temps',
         \A d \in Calls \ {c} : pc'[d] = pc[d] /\ owner'[d] = owner[d] /\ answer'[d] = answer[d],
         answer'[c] = answer[c] \/ pc[c] \notin Over,
         ToldIsFinished', ToldCall(c)'
  PROVE  ToldInv'
  <1>1. Stuck \subseteq Stuck'
    BY StuckGrows
  <1>2. ASSUME NEW d \in Calls \ {c} PROVE ToldCall(d)'
    <2>1. ToldCall(d) /\ pc'[d] = pc[d] /\ owner'[d] = owner[d] /\ answer'[d] = answer[d]
      BY DEF ToldInv
    <2>2. /\ owner[d] \in Runs /\ wanted[d].run \in Runs /\ <<d, "key">>[1] # c
          /\ d # NoFile /\ wanted' = wanted
      BY WantedType DEF TypeOK
    <2>3. records[wanted[d].run] = d => records'[wanted[d].run] = d
      BY <2>2 DEF OwnFiles
    <2>4. records[owner[d]] # NoFile => records'[owner[d]] = records[owner[d]]
      BY <2>2 DEF OwnFiles
    <2>5. <<d, "key">> \in temps => <<d, "key">> \in temps'
      BY <2>2
    <2> QED BY <1>1, <2>1, <2>2, <2>3, <2>4, <2>5 DEF ToldCall
  <1> QED BY <1>2 DEF ToldInv

\* Steps that publish nothing, finish no file and tell nobody of a record.
LEMMA ToldKept ==
  ASSUME TypeOK, ToldInv, NEW c \in Calls, UNCHANGED <<records, temps, wanted>>, OwnFiles(c),
         \A d \in Calls \ {c} : pc'[d] = pc[d] /\ owner'[d] = owner[d] /\ answer'[d] = answer[d],
         answer'[c] = answer[c] \/ pc[c] \notin Over,
         pc'[c] \notin Over => answer'[c] = "pending",
         answer'[c] \notin {"created", "existing", "found"},
         pc'[c] \in {"linkKey", "readKey", "readRecord", "linkRecord", "unlinkKey"} =>
           <<c, "key">> \in temps,
         pc'[c] \notin Over => owner'[c] = wanted[c].run
  PROVE  ToldInv'
  <1>1. ToldIsFinished'
    BY DEF ToldInv, ToldIsFinished, Unshared
  <1>2. ToldCall(c)'
    BY DEF ToldCall, Over
  <1> QED BY <1>1, <1>2, ToldOthers

\* Temporary names come and go: the one of a published record goes only.
LEMMA ToldTemps ==
  ASSUME TypeOK, ToldInv, NEW c \in Calls, UNCHANGED <<records, keys, wanted, owner, answer>>,
         \A d \in Calls \ {c} : pc'[d] = pc[d],
         \A f \in temps : f[1] # c => f \in temps',
         \A f \in temps' \ temps : f[1] = c /\ \A r \in Runs : records[r] # c,
         pc[c] \in Over => pc'[c] \in Over,
         pc[c] # "readRecord" /\ pc'[c] # "readRecord",
         pc'[c] \in {"linkKey", "readKey", "linkRecord", "unlinkKey"} => <<c, "key">> \in temps'
  PROVE  ToldInv'
  <1>1. ToldIsFinished'
    <2> SUFFICES ASSUME NEW d \in Calls, answer[d] \in {"created", "existing", "found"}
                 PROVE  records[wanted[d].run] # NoFile
                        /\ <<records[wanted[d].run], "record">> \notin temps'
      BY DEF ToldIsFinished, Unshared
    <2>1. wanted[d].run \in Runs /\ records[wanted[d].run] # NoFile
          /\ <<records[wanted[d].run], "record">> \notin temps
      BY WantedType DEF ToldInv, ToldIsFinished, Unshared
    <2> DEFINE f == <<records[wanted[d].run], "record">>
    <2>2. f[1] = records[wanted[d].run]
      OBVIOUS
    <2> QED BY <2>1, <2>2
  <1>2. ToldCall(c)'
    <2>1. ToldCall(c)
      BY DEF ToldInv
    <2> QED BY <2>1 DEF ToldCall, Over
  <1>3. OwnFiles(c)
    BY DEF OwnFiles
  <1> QED BY <1>1, <1>2, <1>3, ToldOthers

\* A call is told of a record that is there and finished.
LEMMA ToldOfRecord ==
  ASSUME TypeOK, ToldInv, NEW c \in Calls, UNCHANGED <<records, keys, wanted>>, temps' = temps,
         \A d \in Calls \ {c} : pc'[d] = pc[d] /\ owner'[d] = owner[d] /\ answer'[d] = answer[d],
         pc[c] \notin Over, pc'[c] \in Over,
         records[wanted[c].run] # NoFile,
         Unshared(records[wanted[c].run], "record"),
         answer'[c] = "created" => records[wanted[c].run] = c
  PROVE  ToldInv'
  <1>1. ToldIsFinished'
    BY DEF ToldInv, ToldIsFinished, Unshared
  <1>2. ToldCall(c)'
    BY DEF ToldCall, Over
  <1>3. OwnFiles(c)
    BY DEF OwnFiles
  <1> QED BY <1>1, <1>2, <1>3, ToldOthers

LEMMA ToldStep ==
  ASSUME TypeOK, FileInv, ToldInv, NEW c \in Calls, Step(c)
  PROVE  ToldInv'
  <1> USE DEF files, Goto, Tells, At
  <1>0. /\ pc \in [Calls -> PCs] /\ answer \in [Calls -> Answers] /\ owner \in [Calls -> Runs]
        /\ records \in [Runs -> Calls \cup {NoFile}] /\ keys \in [Keys -> Calls \cup {NoFile}]
    BY DEF TypeOK, PCs, Answers
  <1>00. ToldCall(c) /\ (pc[c] \notin {"readRecord"} \cup Over => owner[c] = wanted[c].run)
    BY DEF ToldInv, FileInv
  <1>000. /\ wanted[c].run \in Runs /\ wanted[c].key \in Keys /\ c # NoFile
    BY WantedType
  <1>K. UNCHANGED <<records, keys>> => OwnFiles(c)
    BY DEF OwnFiles
  <1>1. CASE Audit(c)
    <2>1. /\ pc[c] = "submit" /\ UNCHANGED <<records, keys, temps, wanted, owner>>
          /\ \/ pc' = [pc EXCEPT ![c] = "tempRecord"] /\ UNCHANGED answer
             \/ /\ pc' = [pc EXCEPT ![c] = "done"]
                /\ \/ answer' = [answer EXCEPT ![c] = "failed"]
                   \/ answer' = [answer EXCEPT ![c] = "conflict"]
                   \/ /\ answer' = [answer EXCEPT ![c] = "existing"]
                      /\ Sound /\ records[wanted[c].run] # NoFile
      BY <1>1 DEF Audit, Compared
    <2>2. CASE answer'[c] = "existing"
      <3>1. Sound /\ records[wanted[c].run] # NoFile /\ pc' = [pc EXCEPT ![c] = "done"]
        BY <1>0, <1>00, <1>K, <2>1, <2>2 DEF ToldCall, Over
      <3>2. Unshared(records[wanted[c].run], "record")
        BY <3>1 DEF Sound, Unshared
      <3> QED BY <1>0, <2>1, <2>2, <3>1, <3>2, ToldOfRecord DEF Over
    <2>3. CASE answer'[c] # "existing"
      BY <1>0, <1>00, <1>K, <2>1, <2>3, ToldKept DEF ToldCall, Over
    <2> QED BY <2>2, <2>3
  <1>2. CASE LookUp(c)
    <2>1. /\ pc[c] = "get" /\ UNCHANGED <<records, keys, temps, wanted, owner>>
          /\ pc' = [pc EXCEPT ![c] = "done"]
          /\ \/ answer' = [answer EXCEPT ![c] = "failed"]
             \/ answer' = [answer EXCEPT ![c] = "missing"]
             \/ /\ answer' = [answer EXCEPT ![c] = "found"]
                /\ Sound /\ records[wanted[c].run] # NoFile
      BY <1>2 DEF LookUp
    <2>2. CASE answer'[c] = "found"
      <3>1. Sound /\ records[wanted[c].run] # NoFile
        BY <1>0, <2>1, <2>2
      <3>2. Unshared(records[wanted[c].run], "record")
        BY <3>1 DEF Sound, Unshared
      <3> QED BY <1>0, <2>1, <2>2, <3>1, <3>2, ToldOfRecord DEF Over
    <2>3. CASE answer'[c] # "found"
      BY <1>0, <1>00, <1>K, <2>1, <2>3, ToldKept DEF ToldCall, Over
    <2> QED BY <2>2, <2>3
  <1>3. CASE \/ WriteTemp(c, "record", "tempRecord", "tempKey")
             \/ WriteTemp(c, "key", "tempKey", "linkKey")
    <2>1. /\ pc[c] \in {"tempRecord", "tempKey"} /\ UNCHANGED <<records, keys, wanted, owner, answer>>
          /\ temps \subseteq temps' /\ \A f \in temps' \ temps : f[1] = c
          /\ \/ pc' = [pc EXCEPT ![c] = "tempKey"]
             \/ pc' = [pc EXCEPT ![c] = "linkKey"] /\ <<c, "key">> \in temps'
      BY <1>3 DEF WriteTemp
    <2>2. \A r \in Runs : records[r] # c
      <3> SUFFICES ASSUME NEW r \in Runs, records[r] = c PROVE FALSE
        OBVIOUS
      <3>1. pc[c] \in HasRecord \cup Over
        BY <1>000 DEF FileInv
      <3> QED BY <2>1, <3>1 DEF HasRecord, Over
    <2> QED BY <1>0, <2>1, <2>2, ToldTemps DEF Over
  <1>4. CASE LinkKey(c)
    <2>1. /\ pc[c] = "linkKey" /\ UNCHANGED <<records, temps, wanted, owner, answer>>
          /\ pc' = [pc EXCEPT ![c] = "linkRecord"] \/ pc' = [pc EXCEPT ![c] = "readKey"]
          /\ OwnFiles(c)
      BY <1>0, <1>4 DEF LinkKey, OwnFiles, Over
    <2> QED BY <1>0, <1>00, <2>1, ToldKept DEF ToldCall, Over
  <1>5. CASE ReadKey(c)
    <2> DEFINE file == keys[wanted[c].key]
    <2>1. CASE file = NoFile
      <3>1. /\ pc[c] = "readKey" /\ pc' = [pc EXCEPT ![c] = "readRecord"]
            /\ UNCHANGED <<files, wanted, owner, answer>>
        BY <1>5, <2>1 DEF ReadKey
      <3> QED BY <1>0, <1>00, <1>K, <3>1, ToldKept DEF ToldCall, Over
    <2>2. CASE file # NoFile /\ ~Unshared(file, "key")
      BY <1>0, <1>00, <1>K, <1>5, <2>2, ToldKept DEF ReadKey, ToldCall, Over
    <2>3. CASE file # NoFile /\ Unshared(file, "key")
      <3>1. wanted[c].key \in Keys /\ file \in Calls /\ wanted[file].run \in Runs
        BY <2>3, WantedType, FileType
      <3>2. /\ pc[c] = "readKey" /\ pc' = [pc EXCEPT ![c] = "readRecord"]
            /\ owner' = [owner EXCEPT ![c] = wanted[file].run]
            /\ UNCHANGED <<files, wanted, answer>>
        BY <1>5, <2>3 DEF ReadKey
      <3>3. wanted[file].key = wanted[c].key
        BY <2>3, <3>1 DEF FileInv
      <3>4. wanted[c].key \in Stuck \/ records[wanted[file].run] = file
        <4>1. pc[file] \notin {"linkRecord", "unlinkKey", "readRecord"}
          BY <2>3, <3>1 DEF ToldInv, ToldCall, Unshared
        <4>2. /\ pc[file] \in {"linkRecord", "unlinkKey", "readRecord"} \cup HasRecord \cup Over
              /\ pc[file] \in Over =>
                   answer[file] \in {"failed", "conflict"} \/ records[wanted[file].run] = file
          BY <2>3, <3>1 DEF FileInv
        <4>3. pc[file] \in HasRecord => records[wanted[file].run] = file
          BY <3>1 DEF FileInv
        <4> QED BY <3>1, <2>3, <4>1, <4>2, <4>3 DEF Stuck
      <3>5. ToldIsFinished'
        BY <3>2 DEF ToldInv, ToldIsFinished, Unshared
      <3>6. wanted[c].key \in Stuck => wanted'[c].key \in Stuck'
        BY <3>2 DEF Stuck
      <3>7. ToldCall(c)'
        BY <1>0, <1>00, <1>K, <2>3, <3>1, <3>2, <3>3, <3>4, <3>6 DEF ToldCall, Over
      <3> QED BY <1>0, <1>K, <3>2, <3>5, <3>7, ToldOthers DEF Over
    <2> QED BY <2>1, <2>2, <2>3
  <1>6. CASE ReadRecord(c)
    <2>1. CASE answer'[c] = "existing"
      <3>1. /\ pc[c] = "readRecord" /\ UNCHANGED <<files, wanted, owner>>
            /\ pc' = [pc EXCEPT ![c] = "cleanRecord"]
            /\ answer' = [answer EXCEPT ![c] = "existing"]
            /\ records[owner[c]] # NoFile /\ Unshared(records[owner[c]], "record")
            /\ wanted[records[owner[c]]] = wanted[c]
        BY <1>0, <1>6, <2>1 DEF ReadRecord, Compared
      <3>2. records[wanted[c].run] = records[owner[c]]
        BY <1>0, <3>1 DEF FileInv
      <3> QED BY <1>0, <2>1, <3>1, <3>2, ToldOfRecord DEF Over
    <2>2. CASE answer'[c] # "existing"
      BY <1>0, <1>00, <1>K, <1>6, <2>2, ToldKept DEF ReadRecord, Compared, ToldCall, Over
    <2> QED BY <2>1, <2>2
  <1>7. CASE LinkRecord(c)
    <2>1. CASE records[wanted[c].run] = NoFile
      <3>1. /\ pc[c] = "linkRecord" /\ pc' = [pc EXCEPT ![c] = "dropRecord"]
            /\ UNCHANGED <<temps, wanted, owner, answer>>
            /\ OwnFiles(c)
        BY <1>0, <1>7, <2>1 DEF LinkRecord, OwnFiles, Over
      <3>2. ToldIsFinished'
        BY <3>1, WantedType DEF ToldInv, ToldIsFinished, Unshared, OwnFiles
      <3>3. ToldCall(c)'
        BY <1>0, <1>00, <1>K, <3>1 DEF ToldCall, Over
      <3> QED BY <1>0, <3>1, <3>2, <3>3, ToldOthers
    <2>2. CASE records[wanted[c].run] # NoFile
      BY <1>0, <1>00, <1>K, <1>7, <2>2, ToldKept DEF LinkRecord, ToldCall, Over
    <2> QED BY <2>1, <2>2
  <1>8. CASE UnlinkKey(c)
    <2>1. /\ pc[c] = "unlinkKey" /\ UNCHANGED <<records, temps, wanted, owner, answer>>
          /\ pc' = [pc EXCEPT ![c] = "readRecord"]
      BY <1>8 DEF UnlinkKey
    <2>2. OwnFiles(c)
      BY <1>0, <1>8 DEF UnlinkKey, FileInv, OwnFiles, Over
    <2> QED BY <1>0, <1>00, <2>1, <2>2, ToldKept DEF ToldCall, Over
  <1>9. CASE DropTemp(c, "record", "dropRecord", "dropKey") \/ DropTemp(c, "key", "dropKey", "reread")
    <2>1. /\ pc[c] \in {"dropRecord", "dropKey"} /\ UNCHANGED <<records, keys, wanted, owner, answer>>
          /\ pc' = [pc EXCEPT ![c] = "dropKey"] \/ pc' = [pc EXCEPT ![c] = "reread"]
          /\ temps' \subseteq temps /\ \A f \in temps : f[1] # c => f \in temps'
      BY <1>9 DEF DropTemp
    <2> QED BY <1>0, <2>1, ToldTemps DEF Over
  <1>10. CASE Reread(c)
    <2>1. CASE Unshared(c, "record")
      <3>1. /\ pc[c] = "reread" /\ pc' = [pc EXCEPT ![c] = "cleanRecord"]
            /\ answer' = [answer EXCEPT ![c] = "created"]
            /\ UNCHANGED <<files, wanted, owner>>
        BY <1>10, <2>1 DEF Reread
      <3>2. records[wanted[c].run] = c
        BY <3>1 DEF FileInv, HasRecord
      <3> QED BY <1>0, <1>000, <2>1, <3>1, <3>2, ToldOfRecord DEF Over
    <2>2. CASE ~Unshared(c, "record")
      BY <1>0, <1>00, <1>K, <1>10, <2>2, ToldKept DEF Reread, ToldCall, Over
    <2> QED BY <2>1, <2>2
  <1>11. CASE DropTemp(c, "record", "cleanRecord", "cleanKey") \/ DropTemp(c, "key", "cleanKey", "done")
    <2>1. /\ pc[c] \in Over /\ UNCHANGED <<records, keys, wanted, owner, answer>>
          /\ pc' = [pc EXCEPT ![c] = "cleanKey"] \/ pc' = [pc EXCEPT ![c] = "done"]
          /\ temps' \subseteq temps /\ \A f \in temps : f[1] # c => f \in temps'
      BY <1>11 DEF DropTemp, Over
    <2> QED BY <1>0, <2>1, ToldTemps DEF Over
  <1> QED BY <1>1, <1>2, <1>3, <1>4, <1>5, <1>6, <1>7, <1>8, <1>9, <1>10, <1>11 DEF Step

LEMMA ToldNext == TypeOK /\ FileInv /\ ToldInv /\ [Next]_vars => ToldInv'
  <1> SUFFICES ASSUME TypeOK, FileInv, ToldInv, [Next]_vars PROVE ToldInv'
    OBVIOUS
  <1> USE DEF files, Goto, Tells, At
  <1>0. pc \in [Calls -> PCs] /\ answer \in [Calls -> Answers] /\ owner \in [Calls -> Runs]
    BY DEF TypeOK, PCs, Answers
  <1>1. CASE UNCHANGED vars \/ \E p \in Processes : Crash(p)
    <2>1. UNCHANGED <<records, keys, temps, wanted, pc, owner, answer>>
      BY <1>1 DEF vars, Crash
    <2>2. ToldIsFinished'
      BY <2>1 DEF ToldInv, ToldIsFinished, Unshared
    <2>3. ASSUME NEW d \in Calls PROVE ToldCall(d)'
      BY <2>1 DEF ToldInv, ToldCall, Stuck
    <2> QED BY <2>2, <2>3 DEF ToldInv
  <1>2. ASSUME NEW c \in Calls, Begin(c, "submit") \/ Begin(c, "get") PROVE ToldInv'
    <2>1. /\ pc[c] = "idle" /\ UNCHANGED <<files, wanted, owner, answer>>
          /\ pc' = [pc EXCEPT ![c] = "submit"] \/ pc' = [pc EXCEPT ![c] = "get"]
      BY <1>2 DEF Begin
    <2>2. ToldCall(c) /\ owner[c] = wanted[c].run /\ OwnFiles(c)
      BY <2>1 DEF ToldInv, FileInv, OwnFiles, Over
    <2> QED BY <1>0, <2>1, <2>2, ToldKept DEF ToldCall, Over
  <1>3. ASSUME NEW c \in Calls, Fails(c) \/ FailsAtOnce(c) PROVE ToldInv'
    <2>1. OwnFiles(c)
      BY <1>3 DEF Fails, FailsAtOnce, OwnFiles
    <2> QED BY <1>0, <1>3, <2>1, ToldKept
            DEF Fails, FailsAtOnce, ToldInv, ToldCall, Over, Reading
  <1> QED BY <1>1, <1>2, <1>3, ToldStep DEF Next

LEMMA StoreInvariant == Spec => [](TypeOK /\ FileInv /\ ToldInv)
  BY TypeInit, TypeNext, FileInit, FileNext, ToldInit, ToldNext, PTL DEF Spec

\* One run, or one key, has one creator (publishRecord, submit).
THEOREM StoreOneCreator == Spec => []OneCreator
  <1>1. TypeOK /\ FileInv /\ ToldInv => OneCreator
    <2> SUFFICES ASSUME TypeOK, FileInv, ToldInv, NEW c \in Calls, NEW d \in Calls,
                        answer[c] = "created", answer[d] = "created",
                        wanted[c].run = wanted[d].run \/ wanted[c].key = wanted[d].key
                 PROVE  c = d
      BY DEF OneCreator
    <2>1. records[wanted[c].run] = c /\ records[wanted[d].run] = d
      BY DEF ToldInv, ToldCall
    <2>2. keys[wanted[c].key] = c /\ keys[wanted[d].key] = d
      <3>1. c # NoFile /\ d # NoFile /\ wanted[c].run \in Runs /\ wanted[d].run \in Runs
        BY WantedType
      <3> QED BY <2>1, <3>1 DEF FileInv
    <2> QED BY <2>1, <2>2
  <1> QED BY <1>1, StoreInvariant, PTL

\* A caller is told of a record only when everyone can read it from then on
\* (assertRegularUnsharedFile).
THEOREM StoreTold == Spec => []ToldIsFinished
  <1>1. ToldInv => ToldIsFinished
    BY DEF ToldInv, ToldCall
  <1> QED BY <1>1, StoreInvariant, PTL

------------------------------------------------------------------------------
(* The table of submissions *)

OpenCalls == {c \in Calls : pc[c] \in HasRecord}

\* What the table says of the files.
LEMMA TableRun ==
  ASSUME TypeOK, FileInv, NEW r \in Runs
  PROVE  /\ records[r] # NoFile => wanted[records[r]] \in Table /\ wanted[records[r]].run = r
         /\ records[r] = NoFile => \A t \in Table : t.run # r
  BY DEF FileInv, Table

\* Two submissions of one key are one.
LEMMA TableKey ==
  ASSUME TypeOK, FileInv, NEW k \in Keys, NEW t \in Table, t.key = k
  PROVE  \E r \in Runs : records[r] # NoFile /\ keys[k] = records[r] /\ t = wanted[records[r]]
  BY DEF FileInv, Table

\* A refusal leaves its key stuck when its pointer stays without a record.
LEMMA StuckAnswer ==
  ASSUME TypeOK, FileInv, ToldInv, NEW c \in Calls, UNCHANGED <<records, keys, wanted>>,
         pc[c] \notin Over, NEW a, answer' = [answer EXCEPT ![c] = a]
  PROVE  /\ Submitted!MayStick(c)
         /\ a \notin {"failed", "conflict"} => Stuck' = Stuck
  <1> DEFINE k == wanted[c].key
  <1>00. /\ answer[c] = "pending"
         /\ answer'[c] = a /\ \A d \in Calls \ {c} : answer'[d] = answer[d]
    BY DEF ToldInv, ToldCall, TypeOK
  <1>000. \A q \in Keys : keys[q] # NoFile => keys[q] \in Calls /\ wanted[keys[q]].key = q
    BY FileType DEF FileInv
  <1>0. /\ answer[c] = "pending" /\ c # NoFile /\ k \in Keys /\ wanted[c].run \in Runs
        /\ answer'[c] = a /\ \A d \in Calls \ {c} : answer'[d] = answer[d]
        /\ \A q \in Keys : keys[q] # NoFile => keys[q] \in Calls /\ wanted[keys[q]].key = q
    BY <1>00, <1>000, WantedType
  <1>1. CASE a \in {"failed", "conflict"} /\ keys[k] = c /\ records[wanted[c].run] # c
    <2>1. Stuck' = Stuck \cup {k}
      BY <1>0, <1>1 DEF Stuck
    <2>2. pc[c] \notin HasRecord
      BY <1>1 DEF FileInv
    <2>3. \A t \in Table : t.key # k
      <3> SUFFICES ASSUME NEW t \in Table, t.key = k PROVE FALSE
        OBVIOUS
      <3>1. PICK r \in Runs : records[r] # NoFile /\ keys[k] = records[r]
        BY <1>0, TableKey
      <3> QED BY <1>1, <3>1 DEF FileInv
    <2> QED BY <1>1, <2>1, <2>2, <2>3 DEF Submitted!MayStick, HasRecord
  <1>2. CASE ~(a \in {"failed", "conflict"} /\ keys[k] = c /\ records[wanted[c].run] # c)
    <2>1. Stuck' = Stuck
      BY <1>0, <1>2 DEF Stuck
    <2> QED BY <2>1 DEF Submitted!MayStick
  <1> QED BY <1>1, <1>2

LEMMA TableKept ==
  ASSUME UNCHANGED <<records, wanted>>
  PROVE  Table' = Table
  BY DEF Table

\* A step that changes no file's publisher, and one answer at most.
LEMMA AnswerImplements ==
  ASSUME TypeOK, FileInv, ToldInv, NEW c \in Calls, UNCHANGED <<records, keys, wanted>>,
         pc[c] \notin Over, OpenCalls' = OpenCalls \ {c},
         answer' = [answer EXCEPT ![c] = "failed"]
  PROVE  Submitted!Fail(c)
  <1>1. Table' = Table /\ answer[c] = "pending" /\ Submitted!MayStick(c)
    BY TableKept, StuckAnswer DEF ToldInv, ToldCall
  <1> QED BY <1>1 DEF Submitted!Fail, Submitted!Told, OpenCalls, HasRecord

LEMMA OpenStep ==
  ASSUME TypeOK, NEW c \in Calls, NEW place \in PCs, pc' = [pc EXCEPT ![c] = place]
  PROVE  /\ place \notin HasRecord => OpenCalls' = OpenCalls \ {c}
         /\ place \in HasRecord => OpenCalls' = OpenCalls \cup {c}
         /\ pc[c] \notin HasRecord => OpenCalls \ {c} = OpenCalls
         /\ pc[c] \in HasRecord => OpenCalls \cup {c} = OpenCalls
  BY DEF OpenCalls, TypeOK

\* A step that tells nothing and publishes no record is none of the table's.
LEMMA Stutters ==
  ASSUME TypeOK, ToldInv, NEW c \in Calls, NEW place \in PCs,
         UNCHANGED <<records, wanted, answer>>, OwnFiles(c),
         pc' = [pc EXCEPT ![c] = place], pc[c] \in HasRecord <=> place \in HasRecord
  PROVE  UNCHANGED Submitted!tableVars
  <1>1. Table' = Table /\ OpenCalls' = OpenCalls /\ Stuck' = Stuck
    BY TableKept, OpenStep, StuckGrows
  <1> QED BY <1>1 DEF Submitted!tableVars, OpenCalls, HasRecord

\* A refusal, a repetition and a look-up.
LEMMA OneAnswer ==
  ASSUME TypeOK, FileInv, ToldInv, NEW c \in Calls, NEW place \in Over,
         UNCHANGED <<records, keys, wanted>>, pc' = [pc EXCEPT ![c] = place],
         pc[c] \notin HasRecord \cup Over,
         \/ answer' = [answer EXCEPT ![c] = "failed"]
         \/ answer' = [answer EXCEPT ![c] = "existing"] /\ wanted[c] \in Table
         \/ /\ answer' = [answer EXCEPT ![c] = "conflict"]
            /\ wanted[c].key \in Stuck \/ \E t \in Table : Submitted!Clash(t, wanted[c])
         \/ /\ answer' = [answer EXCEPT ![c] = "found"]
            /\ \E t \in Table : t.run = wanted[c].run
         \/ /\ answer' = [answer EXCEPT ![c] = "missing"]
            /\ \A t \in Table : t.run # wanted[c].run
  PROVE  Submitted!TableNext
  <1>1. place \in PCs /\ place \notin HasRecord
    BY DEF Over, PCs, Publishing, HasRecord
  <1>2. Table' = Table /\ OpenCalls' = OpenCalls /\ OpenCalls' = OpenCalls \ {c}
    BY <1>1, TableKept, OpenStep
  <1>3. answer[c] = "pending" /\ pc[c] \notin Over
    BY DEF ToldInv, ToldCall
  <1>3a. /\ UNCHANGED answer \/ Submitted!MayStick(c)
         /\ answer'[c] \notin {"failed", "conflict"} => Stuck' = Stuck
    BY <1>3, StuckAnswer DEF TypeOK
  <1>4. CASE answer' = [answer EXCEPT ![c] = "failed"]
    BY <1>2, <1>4, AnswerImplements DEF Submitted!TableNext
  <1>5. CASE answer' = [answer EXCEPT ![c] = "existing"] /\ wanted[c] \in Table
    <2>1. Submitted!Repeat(c)
      BY <1>2, <1>3, <1>3a, <1>5 DEF TypeOK, Submitted!Repeat, Submitted!Told, OpenCalls, HasRecord
    <2> QED BY <2>1 DEF Submitted!TableNext
  <1>6. CASE /\ answer' = [answer EXCEPT ![c] = "conflict"]
             /\ wanted[c].key \in Stuck \/ \E t \in Table : Submitted!Clash(t, wanted[c])
    <2>1. Submitted!Refuse(c)
      BY <1>2, <1>3, <1>3a, <1>6 DEF TypeOK, Submitted!Refuse, Submitted!Told, OpenCalls, HasRecord
    <2> QED BY <2>1 DEF Submitted!TableNext
  <1>7. CASE \/ /\ answer' = [answer EXCEPT ![c] = "found"]
                /\ \E t \in Table : t.run = wanted[c].run
             \/ /\ answer' = [answer EXCEPT ![c] = "missing"]
                /\ \A t \in Table : t.run # wanted[c].run
    <2>1. Submitted!LookUp(c)
      BY <1>2, <1>3, <1>3a, <1>7 DEF TypeOK, Submitted!LookUp, Submitted!Told, OpenCalls, HasRecord
    <2> QED BY <2>1 DEF Submitted!TableNext
  <1> QED BY <1>4, <1>5, <1>6, <1>7

LEMMA StepImplements ==
  ASSUME TypeOK, FileInv, ToldInv, NEW c \in Calls, Step(c)
  PROVE  [Submitted!TableNext]_(Submitted!tableVars)
  <1> USE DEF files, Goto, Tells, At
  <1>0. /\ wanted[c] \in Submissions /\ wanted[c].run \in Runs /\ wanted[c].key \in Keys
        /\ c # NoFile /\ owner[c] \in Runs /\ records \in [Runs -> Calls \cup {NoFile}]
        /\ ToldCall(c)
    BY WantedType DEF TypeOK, ToldInv
  <1>K. UNCHANGED <<records, keys>> => OwnFiles(c)
    BY DEF OwnFiles
  <1>1. CASE Audit(c)
    <2> DEFINE s == wanted[c]
    <2>1. CASE Sound /\ records[s.run] = NoFile /\ keys[s.key] = NoFile
      BY <1>1, <2>1, <1>K, Stutters DEF Audit, PCs, Publishing, HasRecord
    <2>2. CASE ~Sound
      BY <1>1, <2>2, OneAnswer DEF Audit, Over, HasRecord
    <2>3. CASE Sound /\ records[s.run] # NoFile
      <3>1. wanted[records[s.run]] \in Table /\ wanted[records[s.run]].run = s.run
        BY <1>0, <2>3, TableRun
      <3>2. \/ answer' = [answer EXCEPT ![c] = "existing"] /\ wanted[c] \in Table
            \/ /\ answer' = [answer EXCEPT ![c] = "conflict"]
               /\ \E t \in Table : Submitted!Clash(t, wanted[c])
        BY <1>1, <2>3, <3>1 DEF Audit, Compared, Submitted!Clash
      <3>3. pc[c] = "submit" /\ pc' = [pc EXCEPT ![c] = "done"] /\ UNCHANGED <<records, keys, wanted>>
        BY <1>1, <2>3 DEF Audit
      <3> QED BY <3>2, <3>3, OneAnswer DEF Over, HasRecord
    <2>4. CASE Sound /\ records[s.run] = NoFile /\ keys[s.key] # NoFile
      <3>1. PICK r \in Runs : records[r] # NoFile /\ wanted[records[r]].key = s.key
        BY <1>0, <2>4 DEF Sound
      <3>2. wanted[records[r]] \in Table /\ wanted[records[r]].run = r /\ r # s.run
        BY <2>4, <3>1, TableRun
      <3>3. Submitted!Clash(wanted[records[r]], wanted[c])
        BY <3>1, <3>2 DEF Submitted!Clash
      <3>4. /\ pc[c] = "submit" /\ pc' = [pc EXCEPT ![c] = "done"] /\ UNCHANGED <<records, keys, wanted>>
            /\ answer' = [answer EXCEPT ![c] = "conflict"]
        BY <1>1, <2>4 DEF Audit
      <3> QED BY <3>2, <3>3, <3>4, OneAnswer DEF Over, HasRecord
    <2> QED BY <2>1, <2>2, <2>3, <2>4
  <1>2. CASE LookUp(c)
    <2>1. /\ pc[c] = "get" /\ pc' = [pc EXCEPT ![c] = "done"] /\ UNCHANGED <<records, keys, wanted>>
          /\ \/ answer' = [answer EXCEPT ![c] = "failed"]
             \/ answer' = [answer EXCEPT ![c] = "found"] /\ records[wanted[c].run] # NoFile
             \/ answer' = [answer EXCEPT ![c] = "missing"] /\ records[wanted[c].run] = NoFile
      BY <1>2 DEF LookUp
    <2>2. /\ records[wanted[c].run] # NoFile => \E t \in Table : t.run = wanted[c].run
          /\ records[wanted[c].run] = NoFile => \A t \in Table : t.run # wanted[c].run
      BY <1>0, TableRun
    <2> QED BY <2>1, <2>2, OneAnswer DEF Over, HasRecord
  <1>3. CASE \/ WriteTemp(c, "record", "tempRecord", "tempKey")
             \/ WriteTemp(c, "key", "tempKey", "linkKey")
    BY <1>3, <1>K, Stutters DEF WriteTemp, PCs, Publishing, HasRecord
  <1>4. CASE LinkKey(c)
    <2>1. OwnFiles(c)
      BY <1>4 DEF LinkKey, OwnFiles, Over, TypeOK
    <2> QED BY <1>4, <2>1, Stutters DEF LinkKey, PCs, Publishing, Reading, HasRecord
  <1>5. CASE ReadKey(c)
    <2>1. CASE pc' = [pc EXCEPT ![c] = "readRecord"] /\ UNCHANGED answer
      BY <1>5, <2>1, <1>K, Stutters DEF ReadKey, PCs, Publishing, Reading, HasRecord
    <2>2. CASE pc' = [pc EXCEPT ![c] = "cleanRecord"] /\ answer' = [answer EXCEPT ![c] = "failed"]
      BY <1>5, <2>2, OneAnswer DEF ReadKey, Over, HasRecord
    <2> QED BY <1>5, <2>1, <2>2 DEF ReadKey
  <1>6. CASE ReadRecord(c)
    <2> DEFINE file == records[owner[c]]
    <2>1. pc[c] = "readRecord" /\ pc' = [pc EXCEPT ![c] = "cleanRecord"] /\ UNCHANGED <<records, keys, wanted>>
      BY <1>6 DEF ReadRecord
    <2>2. CASE file # NoFile /\ Unshared(file, "record")
      <3>1. wanted[file] \in Table /\ wanted[file].run = owner[c]
        BY <1>0, <2>2, TableRun
      <3>2. \/ owner[c] = wanted[c].run \/ wanted[c].key \in Stuck \/ wanted[file].key = wanted[c].key
        BY <1>0, <2>1 DEF ToldCall
      <3>3. \/ answer' = [answer EXCEPT ![c] = "existing"] /\ wanted[c] \in Table
            \/ /\ answer' = [answer EXCEPT ![c] = "conflict"]
               /\ wanted[c].key \in Stuck \/ \E t \in Table : Submitted!Clash(t, wanted[c])
        BY <1>6, <2>2, <3>1, <3>2 DEF ReadRecord, Compared, Submitted!Clash
      <3> QED BY <2>1, <3>3, OneAnswer DEF Over, HasRecord
    <2>3. CASE ~(file # NoFile /\ Unshared(file, "record"))
      BY <1>6, <2>1, <2>3, OneAnswer DEF ReadRecord, Over, HasRecord
    <2> QED BY <2>2, <2>3
  <1>7. CASE LinkRecord(c)
    <2>1. CASE records[wanted[c].run] = NoFile
      <3>1. /\ pc[c] = "linkRecord" /\ pc' = [pc EXCEPT ![c] = "dropRecord"]
            /\ records' = [records EXCEPT ![wanted[c].run] = c] /\ UNCHANGED <<wanted, answer>>
        BY <1>7, <2>1 DEF LinkRecord
      <3>2. Table' = Table \cup {wanted[c]}
        BY <1>0, <2>1, <3>1 DEF Table
      <3>3. c \notin OpenCalls /\ OpenCalls' = OpenCalls \cup {c} /\ answer[c] = "pending"
        <4>1. OpenCalls' = OpenCalls \cup {c}
          BY <3>1, OpenStep DEF PCs, Publishing, HasRecord
        <4> QED BY <1>0, <3>1, <4>1 DEF OpenCalls, HasRecord, ToldCall, Over
      <3>4. \A t \in Table : t.run # wanted[c].run
        BY <1>0, <2>1, TableRun
      <3>5. ASSUME NEW t \in Table, t.key = wanted[c].key PROVE FALSE
        <4>1. PICK r \in Runs : records[r] # NoFile /\ keys[wanted[c].key] = records[r]
          BY <1>0, <3>5, TableKey
        <4>2. keys[wanted[c].key] = c
          BY <3>1 DEF FileInv
        <4> QED BY <3>1, <4>1, <4>2 DEF FileInv, HasRecord, Over
      <3>6. Stuck' = Stuck /\ wanted[c].key \notin Stuck
        <4>1. OwnFiles(c)
          BY <1>7, <2>1 DEF LinkRecord, OwnFiles, Over, TypeOK
        <4>2. keys[wanted[c].key] = c
          BY <3>1 DEF FileInv
        <4> QED BY <3>1, <3>3, <4>1, <4>2, StuckGrows DEF Stuck
      <3>7. Submitted!Accept(c)
        BY <3>1, <3>2, <3>3, <3>4, <3>5, <3>6
           DEF Submitted!Accept, Submitted!Clash, OpenCalls, HasRecord
      <3> QED BY <3>7 DEF Submitted!TableNext
    <2>2. CASE records[wanted[c].run] # NoFile
      BY <1>7, <2>2, <1>K, Stutters DEF LinkRecord, PCs, Publishing, HasRecord
    <2> QED BY <2>1, <2>2
  <1>8. CASE UnlinkKey(c)
    <2>1. pc[c] = "unlinkKey" /\ pc' = [pc EXCEPT ![c] = "readRecord"]
      BY <1>8 DEF UnlinkKey
    <2>2. OwnFiles(c)
      BY <1>8 DEF UnlinkKey, OwnFiles, Over, FileInv, TypeOK
    <2> QED BY <1>8, <2>1, <2>2, Stutters DEF UnlinkKey, PCs, Publishing, Reading, HasRecord
  <1>9. CASE DropTemp(c, "record", "dropRecord", "dropKey") \/ DropTemp(c, "key", "dropKey", "reread")
    BY <1>9, <1>K, Stutters DEF DropTemp, PCs, Publishing, HasRecord
  <1>10. CASE Reread(c)
    <2>1. /\ pc[c] = "reread" /\ UNCHANGED <<records, keys, wanted>>
          /\ pc' = [pc EXCEPT ![c] = "cleanRecord"]
      BY <1>10 DEF Reread
    <2>2. c \in OpenCalls /\ OpenCalls' = OpenCalls \ {c} /\ Table' = Table /\ answer[c] = "pending"
      <3>1. OpenCalls' = OpenCalls \ {c}
        BY <2>1, OpenStep DEF PCs, Publishing, HasRecord
      <3> QED BY <1>0, <2>1, <3>1, TableKept DEF OpenCalls, HasRecord, ToldCall, Over
    <2>3. CASE answer' = [answer EXCEPT ![c] = "created"]
      <3>0. Stuck' = Stuck
        <4>1. pc[c] \notin Over
          BY <2>1 DEF Over
        <4>2. "created" \notin {"failed", "conflict"}
          OBVIOUS
        <4> QED BY <2>1, <2>3, <4>1, <4>2, StuckAnswer
      <3>1. Submitted!Confirm(c)
        BY <2>1, <2>2, <2>3, <3>0 DEF Submitted!Confirm, Submitted!Told, OpenCalls, HasRecord
      <3> QED BY <3>1 DEF Submitted!TableNext
    <2>4. CASE answer' = [answer EXCEPT ![c] = "failed"]
      BY <2>1, <2>2, <2>4, AnswerImplements DEF Submitted!TableNext, Over
    <2> QED BY <1>10, <2>3, <2>4 DEF Reread
  <1>11. CASE DropTemp(c, "record", "cleanRecord", "cleanKey") \/ DropTemp(c, "key", "cleanKey", "done")
    BY <1>11, <1>K, Stutters DEF DropTemp, PCs, Publishing, HasRecord
  <1> QED BY <1>1, <1>2, <1>3, <1>4, <1>5, <1>6, <1>7, <1>8, <1>9, <1>10, <1>11 DEF Step

LEMMA NextImplements ==
  TypeOK /\ FileInv /\ ToldInv /\ [Next]_vars => [Submitted!TableNext]_(Submitted!tableVars)
  <1> SUFFICES ASSUME TypeOK, FileInv, ToldInv, [Next]_vars
               PROVE  [Submitted!TableNext]_(Submitted!tableVars)
    OBVIOUS
  <1> USE DEF files, Goto, Tells, At
  <1>1. CASE UNCHANGED vars \/ \E p \in Processes : Crash(p)
    <2>1. UNCHANGED <<records, keys, wanted, pc, answer>>
      BY <1>1 DEF vars, Crash
    <2> QED BY <2>1, TableKept DEF Submitted!tableVars, Stuck
  <1>2. ASSUME NEW c \in Calls, Begin(c, "submit") \/ Begin(c, "get")
        PROVE  [Submitted!TableNext]_(Submitted!tableVars)
    BY <1>2, Stutters DEF Begin, PCs, HasRecord, OwnFiles
  <1>3. ASSUME NEW c \in Calls, Fails(c) PROVE [Submitted!TableNext]_(Submitted!tableVars)
    <2>1. /\ pc[c] \in Reading \cup {"tempKey", "linkKey", "linkRecord", "reread"}
          /\ pc' = [pc EXCEPT ![c] = "cleanRecord"] /\ UNCHANGED <<records, keys, wanted>>
          /\ answer' = [answer EXCEPT ![c] = "failed"]
      BY <1>3 DEF Fails
    <2>2. OpenCalls' = OpenCalls \ {c}
      BY <2>1, OpenStep DEF PCs, Publishing, HasRecord
    <2> QED BY <2>1, <2>2, AnswerImplements DEF Submitted!TableNext, Over, Reading
  <1>4. ASSUME NEW c \in Calls, FailsAtOnce(c) PROVE [Submitted!TableNext]_(Submitted!tableVars)
    <2>1. /\ pc[c] \in {"submit", "get", "tempRecord"}
          /\ pc' = [pc EXCEPT ![c] = "done"] /\ UNCHANGED <<records, keys, wanted>>
          /\ answer' = [answer EXCEPT ![c] = "failed"]
      BY <1>4 DEF FailsAtOnce
    <2> QED BY <2>1, OneAnswer DEF Over, HasRecord
  <1> QED BY <1>1, <1>2, <1>3, <1>4, StepImplements DEF Next

\* The directory is a table of submissions accepted in one instant each, whatever
\* fails or dies (publishRecord): accepted when the record is linked.
THEOREM StoreIsTable == Spec => AtomicTable
  <1>1. Init => Submitted!TableInit
    BY DEF Init, Submitted!TableInit, Table, Stuck
  <1> QED BY <1>1, NextImplements, StoreInvariant, PTL DEF Spec, AtomicTable, Submitted!TableSpec
=============================================================================
