------------------------- MODULE MCRunCoordination -------------------------
(* Instances of RunCoordination for TLC. *)
EXTENDS RunCoordination, TLC

CONSTANTS a, b, p, q

TwoServers == {a, b}
OneServer == {a}
OneLane == {p}
TwoLanes == {p, q}
Nobody == {}
ServerSymmetry == Permutations(Servers)
=============================================================================
