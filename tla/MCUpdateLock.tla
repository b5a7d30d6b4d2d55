---------------------------- MODULE MCUpdateLock ----------------------------
(***************************************************************************)
(* Small instances of UpdateLock for TLC.                                  *)
(***************************************************************************)
EXTENDS UpdateLock

\* What a supervisor and a worker race with: the cancellation, the result of the
\* provider and an update of other fields.
RaceRequests == {"cancelled", "completed", KeepStatus}

\* Both sides of the guard in front of a cancelling task.
GuardRequests == {"cancelling", "cancelled", "completed", "transport_lost", KeepStatus}
=============================================================================
