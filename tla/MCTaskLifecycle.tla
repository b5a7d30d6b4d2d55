-------------------------- MODULE MCTaskLifecycle --------------------------
(* Instances of TaskLifecycle for TLC: calls are interchangeable. *)
EXTENDS TaskLifecycle, TLC

MCSymmetry == Permutations(Calls)
=============================================================================
