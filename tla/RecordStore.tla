----------------------------- MODULE RecordStore -----------------------------
(***************************************************************************)
(* What updateTask promises its callers, with nothing said about locks or  *)
(* processes: every update takes effect at one instant, on the record that *)
(* all the updates before it left behind, and reports how it ended.        *)
(*                                                                         *)
(* UpdateLock is the protocol that has to implement this.                  *)
(***************************************************************************)
EXTENDS TaskStatus

CONSTANT Updates       \* identities of the update calls (their lock nonces)

VARIABLES
  record,              \* the task record: its status and the updates merged in it
  result               \* how each update ended

storeVars == <<record, result>>

Results == {"pending", "written", "ignored", "failed"}
Records == [status : Statuses, fields : SUBSET Updates]

StoreInit ==
  /\ record \in {[status |-> s, fields |-> {}] : s \in Active}
  /\ result = [u \in Updates |-> "pending"]

\* The merge { ...task, ...changes, revision: task.revision + 1 } of update u.
Merge(rec, u, change) ==
  [status |-> NextStatus(rec.status, change), fields |-> rec.fields \cup {u}]

Commit(u, change) ==
  /\ result[u] = "pending"
  /\ Accepts(record.status, change)
  /\ record' = Merge(record, u, change)
  /\ result' = [result EXCEPT ![u] = "written"]

Ignore(u, change) ==
  /\ result[u] = "pending"
  /\ ~Accepts(record.status, change)
  /\ result' = [result EXCEPT ![u] = "ignored"]
  /\ UNCHANGED record

Fail(u) ==
  /\ result[u] = "pending"
  /\ result' = [result EXCEPT ![u] = "failed"]
  /\ UNCHANGED record

StoreNext ==
  \E u \in Updates :
    \/ \E change \in Changes : Commit(u, change) \/ Ignore(u, change)
    \/ Fail(u)

StoreSpec == StoreInit /\ [][StoreNext]_storeVars
=============================================================================
