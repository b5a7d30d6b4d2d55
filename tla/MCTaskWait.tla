----------------------------- MODULE MCTaskWait -----------------------------
(* Instances of TaskWait for TLC. *)
EXTENDS TaskWait, TLC

CONSTANTS t1, t2

\* One task changes; the other is only in the way.
Once == [t \in {t1, t2} |-> IF t = t1 THEN 0 ELSE 1]

\* The watcher of the other may fail, until the waiter polls; that of the task works.
FailsTwice == [t \in {t1, t2} |-> IF t = t1 THEN 2 ELSE 0]
=============================================================================
