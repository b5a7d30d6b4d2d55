--------------------------- MODULE MCRunAdmission ---------------------------
(***************************************************************************)
(* Small instances of RunAdmission for TLC.                                *)
(***************************************************************************)
EXTENDS RunAdmission, TLC

CONSTANTS a, b

OneServer == {a}
TwoServers == {a, b}
ServerSymmetry == Permutations(Servers)
=============================================================================
