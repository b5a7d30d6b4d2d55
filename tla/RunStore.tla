------------------------------ MODULE RunStore ------------------------------
(***************************************************************************)
(* The run store (run-store.mjs): a directory with a record file per run   *)
(* and a pointer file per request key.  Several processes submit to it     *)
(* with no lock between them.  A submission writes both files under        *)
(* temporary names and links them, the pointer first; a link fails when    *)
(* the name is taken.  A file is only read when it has one link, so not    *)
(* before its temporary name is gone, and every operation starts with an   *)
(* audit that refuses a directory in which anything is unfinished.         *)
(*                                                                         *)
(* The audit is one step: files do not change once published, and any      *)
(* temporary name or missing half it meets makes it fail, so what it tells *)
(* is what the directory held when it was listed.  SubmissionTable is what *)
(* this protocol has to amount to.                                         *)
(***************************************************************************)
EXTENDS Naturals, FiniteSets

CONSTANTS
  Calls,        \* calls of submit and getByRunId
  Processes,    \* processes that make them
  Host,         \* the process of each call
  Submissions,  \* what may be submitted: run, key and body
  Faults,       \* may reads, writes and links fail?
  MaxCrashes    \* bound on the deaths of processes

Runs == {s.run : s \in Submissions}
Keys == {s.key : s \in Submissions}

NoFile == "none"

ASSUME StoreAssumption ==
  /\ NoFile \notin Calls
  /\ Host \in [Calls -> Processes]
  /\ \A s \in Submissions : s = [run |-> s.run, key |-> s.key, body |-> s.body]
  /\ Faults \in BOOLEAN
  /\ MaxCrashes \in Nat

VARIABLES
  records,  \* the record file of each run: the call that published it
  keys,     \* the pointer file of each key: the call that published it
  temps,    \* the temporary names: call and which of its two files
  wanted,   \* what each call submits, or whose run it looks up
  pc,       \* where each call is
  owner,    \* the run whose record it goes on to read
  answer,   \* what its caller is told, or would be
  dead      \* processes that died

vars == <<records, keys, temps, wanted, pc, owner, answer, dead>>
files == <<records, keys, temps>>

\* A file has the contents its publisher was called with.
Table == {wanted[records[r]] : r \in {r \in Runs : records[r] # NoFile}}

Reading == {"readKey", "readRecord"}
Publishing == {"tempRecord", "tempKey", "linkKey", "linkRecord", "unlinkKey",
               "dropRecord", "dropKey", "reread", "cleanRecord", "cleanKey"} \cup Reading

At(c, place) == pc[c] = place /\ Host[c] \notin dead
Goto(c, place) == pc' = [pc EXCEPT ![c] = place]
Tells(c, a) == answer' = [answer EXCEPT ![c] = a]

\* assertRegularUnsharedFile: the file has lost its temporary name.
Unshared(file, which) == <<file, which>> \notin temps

Init ==
  /\ records = [r \in Runs |-> NoFile]
  /\ keys = [k \in Keys |-> NoFile]
  /\ temps = {}
  /\ wanted \in [Calls -> Submissions]
  /\ pc = [c \in Calls |-> "idle"]
  /\ owner = [c \in Calls |-> wanted[c].run]
  /\ answer = [c \in Calls |-> "pending"]
  /\ dead = {}

------------------------------------------------------------------------------
(* The audit *)

\* withStoreChain: one operation of a process at a time.
Begin(c, op) ==
  /\ At(c, "idle")
  /\ \A d \in Calls : Host[d] = Host[c] => pc[d] \in {"idle", "done"}
  /\ Goto(c, op)
  /\ UNCHANGED <<files, wanted, owner, answer, dead>>

\* auditStore: no temporary names, and records and pointers in pairs.
Sound ==
  /\ temps = {}
  /\ \A r \in Runs : records[r] # NoFile =>
       LET k == wanted[records[r]].key
       IN keys[k] # NoFile /\ wanted[keys[k]].run = r
  /\ \A k \in Keys : keys[k] # NoFile =>
       \E r \in Runs : records[r] # NoFile /\ wanted[records[r]].key = k

\* conflictFor
Compared(existing, s) == IF existing = s THEN "existing" ELSE "conflict"

\* submit decides by the audit when the run or the key is known.
Audit(c) ==
  /\ At(c, "submit")
  /\ LET s == wanted[c]
     IN \/ ~Sound /\ Goto(c, "done") /\ Tells(c, "failed")
        \/ /\ Sound /\ records[s.run] # NoFile
           /\ Goto(c, "done") /\ Tells(c, Compared(wanted[records[s.run]], s))
        \/ /\ Sound /\ records[s.run] = NoFile /\ keys[s.key] # NoFile
           /\ Goto(c, "done") /\ Tells(c, "conflict")
        \/ /\ Sound /\ records[s.run] = NoFile /\ keys[s.key] = NoFile
           /\ Goto(c, "tempRecord") /\ UNCHANGED answer
  /\ UNCHANGED <<files, wanted, owner, dead>>

\* getByRunId
LookUp(c) ==
  /\ At(c, "get")
  /\ Goto(c, "done")
  /\ Tells(c, IF ~Sound THEN "failed"
              ELSE IF records[wanted[c].run] # NoFile THEN "found" ELSE "missing")
  /\ UNCHANGED <<files, wanted, owner, dead>>

------------------------------------------------------------------------------
(* publishRecord *)

WriteTemp(c, which, place, next) ==
  /\ At(c, place)
  /\ temps' = temps \cup {<<c, which>>}
  /\ Goto(c, next)
  /\ UNCHANGED <<records, keys, wanted, owner, answer, dead>>

\* exclusiveLink of the pointer
LinkKey(c) ==
  /\ At(c, "linkKey")
  /\ IF keys[wanted[c].key] = NoFile
     THEN keys' = [keys EXCEPT ![wanted[c].key] = c] /\ Goto(c, "linkRecord")
     ELSE Goto(c, "readKey") /\ UNCHANGED keys
  /\ UNCHANGED <<records, temps, wanted, owner, answer, dead>>

\* Variant for mutation: a pointer is read while it has its temporary name.
ReadKeyShared(c) ==
  /\ At(c, "readKey")
  /\ keys[wanted[c].key] # NoFile
  /\ Goto(c, "readRecord")
  /\ owner' = [owner EXCEPT ![c] = wanted[keys[wanted[c].key]].run]
  /\ UNCHANGED <<files, wanted, answer, dead>>

\* Variant for mutation: a pointer that is gone stands for no run.
ReadKeyNull(c) ==
  /\ At(c, "readKey")
  /\ Goto(c, "readRecord")
  /\ owner' = [owner EXCEPT ![c] = IF keys[wanted[c].key] = NoFile THEN NoFile
                                   ELSE wanted[keys[wanted[c].key]].run]
  /\ UNCHANGED <<files, wanted, answer, dead>>

\* readKeyPointer: a pointer that is gone by now stands for the own run.
ReadKey(c) ==
  LET file == keys[wanted[c].key]
  IN /\ At(c, "readKey")
     /\ \/ /\ file = NoFile
           /\ Goto(c, "readRecord") /\ UNCHANGED <<owner, answer>>
        \/ /\ file # NoFile /\ Unshared(file, "key")
           /\ Goto(c, "readRecord") /\ UNCHANGED answer
           /\ owner' = [owner EXCEPT ![c] = wanted[file].run]
        \/ /\ file # NoFile /\ ~Unshared(file, "key")
           /\ Goto(c, "cleanRecord") /\ Tells(c, "failed") /\ UNCHANGED owner
     /\ UNCHANGED <<files, wanted, dead>>

\* The record in the way decides; one that is missing or unfinished is an error.
ReadRecord(c) ==
  LET file == records[owner[c]]
  IN /\ At(c, "readRecord")
     /\ Goto(c, "cleanRecord")
     /\ Tells(c, IF file # NoFile /\ Unshared(file, "record")
                 THEN Compared(wanted[file], wanted[c]) ELSE "failed")
     /\ UNCHANGED <<files, wanted, owner, dead>>

\* exclusiveLink of the record
LinkRecord(c) ==
  /\ At(c, "linkRecord")
  /\ IF records[wanted[c].run] = NoFile
     THEN records' = [records EXCEPT ![wanted[c].run] = c] /\ Goto(c, "dropRecord")
     ELSE Goto(c, "unlinkKey") /\ UNCHANGED records
  /\ UNCHANGED <<keys, temps, wanted, owner, answer, dead>>

\* The run is taken: the pointer goes again.  When that fails it stays for good,
\* and the call reads the record and answers all the same.
UnlinkKey(c) ==
  /\ At(c, "unlinkKey")
  /\ \/ keys' = [keys EXCEPT ![wanted[c].key] = NoFile]
     \/ Faults /\ UNCHANGED keys
  /\ Goto(c, "readRecord")
  /\ UNCHANGED <<records, temps, wanted, owner, answer, dead>>

\* unlinkPrivateTemp, which swallows its errors
DropTemp(c, which, place, next) ==
  /\ At(c, place)
  /\ \/ temps' = temps \ {<<c, which>>}
     \/ Faults /\ UNCHANGED temps
  /\ Goto(c, next)
  /\ UNCHANGED <<records, keys, wanted, owner, answer, dead>>

\* The published record is read back.
Reread(c) ==
  /\ At(c, "reread")
  /\ Goto(c, "cleanRecord")
  /\ Tells(c, IF Unshared(c, "record") THEN "created" ELSE "failed")
  /\ UNCHANGED <<files, wanted, owner, dead>>

\* A read, write or link throws: only the temporary names are removed.
Fails(c) ==
  /\ Faults
  /\ \E place \in Reading \cup {"tempKey", "linkKey", "linkRecord", "reread"} : At(c, place)
  /\ Goto(c, "cleanRecord")
  /\ Tells(c, "failed")
  /\ UNCHANGED <<files, wanted, owner, dead>>

\* The first write throws, or the audit does.
FailsAtOnce(c) ==
  /\ Faults
  /\ \E place \in {"submit", "get", "tempRecord"} : At(c, place)
  /\ Goto(c, "done")
  /\ Tells(c, "failed")
  /\ UNCHANGED <<files, wanted, owner, dead>>

Crash(p) ==
  /\ p \notin dead
  /\ Cardinality(dead) < MaxCrashes
  /\ dead' = dead \cup {p}
  /\ UNCHANGED <<files, wanted, pc, owner, answer>>

------------------------------------------------------------------------------
(* The specification *)

Step(c) ==
  \/ Audit(c) \/ LookUp(c)
  \/ WriteTemp(c, "record", "tempRecord", "tempKey") \/ WriteTemp(c, "key", "tempKey", "linkKey")
  \/ LinkKey(c) \/ ReadKey(c) \/ ReadRecord(c) \/ LinkRecord(c) \/ UnlinkKey(c)
  \/ DropTemp(c, "record", "dropRecord", "dropKey") \/ DropTemp(c, "key", "dropKey", "reread")
  \/ Reread(c)
  \/ DropTemp(c, "record", "cleanRecord", "cleanKey") \/ DropTemp(c, "key", "cleanKey", "done")

Next ==
  \/ \E c \in Calls :
       \/ Begin(c, "submit") \/ Begin(c, "get")
       \/ Step(c) \/ Fails(c) \/ FailsAtOnce(c)
  \/ \E p \in Processes : Crash(p)

Spec == Init /\ [][Next]_vars

------------------------------------------------------------------------------
(* Properties *)

\* The files, and what every call has in memory, keep their shape.
TypeOK ==
  /\ records \in [Runs -> Calls \cup {NoFile}]
  /\ keys \in [Keys -> Calls \cup {NoFile}]
  /\ temps \subseteq Calls \X {"record", "key"}
  /\ wanted \in [Calls -> Submissions]
  /\ pc \in [Calls -> Publishing \cup {"idle", "submit", "get", "done"}]
  /\ owner \in [Calls -> Runs]
  /\ answer \in [Calls -> {"pending", "created", "existing", "conflict", "found", "missing", "failed"}]
  /\ dead \subseteq Processes

\* A published record has its pointer, published by the same call: two calls
\* never give one key two runs, or one run two keys (publishRecord).
RecordsHaveKeys ==
  \A r \in Runs : records[r] # NoFile =>
    wanted[records[r]].run = r /\ keys[wanted[records[r]].key] = records[r]

\* Of the calls that submit one run, or one key, at most one is ever told that it
\* created the record: that call dispatches the run (run-runtime.mjs, created).
OneCreator ==
  \A c, d \in Calls :
    answer[c] = "created" /\ answer[d] = "created"
      /\ (wanted[c].run = wanted[d].run \/ wanted[c].key = wanted[d].key)
    => c = d

\* What a caller was told of as stored has its own name only, and can be read by
\* everyone after it (assertRegularUnsharedFile).
ToldIsFinished ==
  \A c \in Calls : answer[c] \in {"created", "existing", "found"} =>
    LET file == records[wanted[c].run]
    IN file # NoFile /\ Unshared(file, "record")

\* Pointers that no record goes with, left by a submission that was turned down:
\* it failed before its record was linked, or could not take its pointer back.
Stuck == {k \in Keys :
  /\ keys[k] # NoFile
  /\ answer[keys[k]] \in {"failed", "conflict"}
  /\ records[wanted[keys[k]].run] # keys[k]}

\* The directory is a table of submissions that are accepted in one instant
\* each, whatever fails or dies; nobody is refused but for a submission in the
\* table, or a pointer that a refused one left (publishRecord).
Submitted == INSTANCE SubmissionTable WITH
  table <- Table,
  open <- {c \in Calls : pc[c] \in {"dropRecord", "dropKey", "reread"}},
  stuck <- Stuck
AtomicTable == Submitted!TableSpec
=============================================================================
