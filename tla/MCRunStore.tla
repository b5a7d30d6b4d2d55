----------------------------- MODULE MCRunStore -----------------------------
(* Instances of RunStore for TLC. *)
EXTENDS RunStore, TLC

CONSTANTS c1, c2, c3

\* Every call is made by a process of its own, which has its name.
ThreeCalls == {c1, c2, c3}
OneEach == [c \in ThreeCalls |-> c]
Sub(run, key, body) == [run |-> run, key |-> key, body |-> body]
\* The same again, another body, another run of the key, another key of the run.
Rivals == {Sub("r1", "k1", 1), Sub("r1", "k1", 2), Sub("r2", "k1", 1), Sub("r1", "k2", 1)}
CallSymmetry == Permutations(ThreeCalls)
=============================================================================
