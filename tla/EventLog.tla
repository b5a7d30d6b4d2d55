------------------------------ MODULE EventLog ------------------------------
(***************************************************************************)
(* What the run journal promises its callers, with nothing said about      *)
(* files, locks or processes: one append-only log with one entry per key.  *)
(* An entry takes effect at one instant, and its caller hears of it later, *)
(* not at all, or, when a later step of the call fails, as of a failure.   *)
(*                                                                         *)
(* RunJournal is the protocol that has to implement this.                  *)
(***************************************************************************)
EXTENDS JournalEvents

CONSTANT Calls           \* calls of create and append

VARIABLES
  log,                   \* the committed entries
  open,                  \* calls whose entry is committed and that have no answer yet
  answer                 \* what each call was told

logVars == <<log, open, answer>>

Answers == {"pending", "created", "appended", "deduped", "failed"}

LogInit ==
  /\ log = << >>
  /\ open = {}
  /\ answer = [c \in Calls |-> "pending"]

Told(c, a) == answer[c] = "pending" /\ answer' = [answer EXCEPT ![c] = a]

\* One call ever is told that it created the journal.
Create(c) ==
  /\ \A d \in Calls : answer[d] # "created"
  /\ Told(c, "created")
  /\ UNCHANGED <<log, open>>

Commit(c, e) ==
  /\ c \notin open
  /\ answer[c] = "pending"
  /\ ~Keyed(log, e)
  /\ Accepts(log, e)
  /\ log' = Append(log, e)
  /\ open' = open \cup {c}
  /\ UNCHANGED answer

Confirm(c) ==
  /\ c \in open
  /\ Told(c, "appended")
  /\ open' = open \ {c}
  /\ UNCHANGED log

\* The event is the newest entry already.
Dedupe(c, e) ==
  /\ c \notin open
  /\ Newest(log, e)
  /\ Told(c, "deduped")
  /\ UNCHANGED <<log, open>>

Fail(c) ==
  /\ Told(c, "failed")
  /\ open' = open \ {c}
  /\ UNCHANGED log

LogNext ==
  \E c \in Calls :
    \/ Create(c)
    \/ \E e \in Events : Commit(c, e) \/ Dedupe(c, e)
    \/ Confirm(c)
    \/ Fail(c)

LogSpec == LogInit /\ [][LogNext]_logVars
=============================================================================
