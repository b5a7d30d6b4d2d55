----------------------------- MODULE TaskStatus -----------------------------
(***************************************************************************)
(* The statuses of a durable task record (contract.mjs) and the guard that *)
(* updateTask in task-store.mjs puts in front of every write: which        *)
(* requested status may replace the stored one.                            *)
(***************************************************************************)

\* STORED_TERMINAL
Terminal == {"completed", "failed", "cancelled", "timeout", "environment_blocked"}

\* ACTIVE_STATUSES
Active == {"accepted", "starting", "running", "cancelling", "transport_lost",
           "needs_attention"}

Statuses == Terminal \cup Active

\* A change that carries no status field: it only adds or replaces other fields.
KeepStatus == "no_status"

Changes == Statuses \cup {KeepStatus}

\* The two early returns of updateTaskWithFileLock: a stored terminal status is
\* never replaced by another one, and a cancelling task only accepts the outcomes
\* of its cancellation.  A refused change is dropped whole, its other fields too.
Accepts(current, requested) ==
  \/ requested = KeepStatus
  \/ requested = current
  \/ /\ current \notin Terminal
     /\ current = "cancelling" => requested \in {"cancelling", "cancelled", "transport_lost"}

\* Variant for mutation: a change without a status overwrites the stored one.
NextStatusAlways(current, requested) == requested

\* The status of { ...task, ...changes } once the change was accepted.
NextStatus(current, requested) ==
  IF requested = KeepStatus THEN current ELSE requested
=============================================================================
