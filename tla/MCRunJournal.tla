---------------------------- MODULE MCRunJournal ----------------------------
(* Instances of RunJournal for TLC. *)
EXTENDS RunJournal, TLC

CONSTANTS p, q, x

TwoProcesses == {p, q}
ThreeCalls == 1..3
SplitThree == 1 :> p @@ 2 :> q @@ 3 :> q
OneChild == {x}
OneOutcome == {"completed"}
OpenAndStart == {Open, Start(x)}
=============================================================================
