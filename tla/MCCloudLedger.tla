--------------------------- MODULE MCCloudLedger ---------------------------
(* Instances of CloudLedger for TLC. *)
EXTENDS CloudLedger, TLC

CONSTANTS c1, c2, p1, p2, r1

\* Two servers with a call each.
OneEach == c1 :> p1 @@ c2 :> p2
=============================================================================
