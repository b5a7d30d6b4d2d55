----------------------------- MODULE MCMailbox -----------------------------
(* Instances of Mailbox for TLC. *)
EXTENDS Mailbox, TLC

CONSTANTS q1, q2, r1, r2, r3

\* Two replies to the first question, one to the second.
AboutTwo == [r \in {r1, r2, r3} |-> IF r = r3 THEN q2 ELSE q1]
=============================================================================
