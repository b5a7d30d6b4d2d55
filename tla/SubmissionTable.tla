-------------------------- MODULE SubmissionTable --------------------------
(***************************************************************************)
(* What the run store promises its callers: a table of accepted            *)
(* submissions with one entry per run and one per request key.  A          *)
(* submission is accepted at one instant; whoever submits the same again   *)
(* is told that it exists, and whoever submits another body, key or run is *)
(* refused.  A submission that is turned down may leave its request key    *)
(* stuck: bound to nothing in the table, and accepted no more.             *)
(* RunStore is the protocol of files that has to implement this.           *)
(***************************************************************************)
CONSTANTS Calls, Submissions

VARIABLES
  table,    \* accepted submissions
  wanted,   \* what each call submits, or whose run it looks up
  open,     \* calls whose submission was accepted and that have no answer yet
  answer,
  stuck     \* keys that a submission which was turned down left bound

tableVars == <<table, wanted, open, answer, stuck>>

Clash(s, t) == s # t /\ (s.run = t.run \/ s.key = t.key)
Told(c, a) == answer[c] = "pending" /\ answer' = [answer EXCEPT ![c] = a]

\* Only a submission that was not accepted leaves its key stuck, and never the
\* key of one that was.
MayStick(c) ==
  \/ UNCHANGED stuck
  \/ /\ c \notin open
     /\ \A t \in table : t.key # wanted[c].key
     /\ stuck' = stuck \cup {wanted[c].key}

TableInit ==
  /\ table = {}
  /\ wanted \in [Calls -> Submissions]
  /\ open = {}
  /\ answer = [c \in Calls |-> "pending"]
  /\ stuck = {}

Accept(c) ==
  /\ c \notin open
  /\ answer[c] = "pending"
  /\ \A t \in table : t # wanted[c] /\ ~Clash(t, wanted[c])
  /\ wanted[c].key \notin stuck
  /\ table' = table \cup {wanted[c]}
  /\ open' = open \cup {c}
  /\ UNCHANGED <<wanted, answer, stuck>>

Confirm(c) ==
  /\ c \in open
  /\ Told(c, "created")
  /\ open' = open \ {c}
  /\ UNCHANGED <<table, wanted, stuck>>

Repeat(c) ==
  /\ wanted[c] \in table
  /\ Told(c, "existing")
  /\ UNCHANGED <<table, wanted, open, stuck>>

\* A refusal names an accepted submission in the way, or a key that is stuck.
Refuse(c) ==
  /\ (\E t \in table : Clash(t, wanted[c])) \/ wanted[c].key \in stuck
  /\ Told(c, "conflict")
  /\ MayStick(c)
  /\ UNCHANGED <<table, wanted, open>>

LookUp(c) ==
  /\ \/ (\E t \in table : t.run = wanted[c].run) /\ Told(c, "found")
     \/ (\A t \in table : t.run # wanted[c].run) /\ Told(c, "missing")
  /\ UNCHANGED <<table, wanted, open, stuck>>

Fail(c) ==
  /\ Told(c, "failed")
  /\ MayStick(c)
  /\ open' = open \ {c}
  /\ UNCHANGED <<table, wanted>>

TableNext ==
  \E c \in Calls :
    Accept(c) \/ Confirm(c) \/ Repeat(c) \/ Refuse(c) \/ LookUp(c) \/ Fail(c)

TableSpec == TableInit /\ [][TableNext]_tableVars
=============================================================================
