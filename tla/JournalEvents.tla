--------------------------- MODULE JournalEvents ---------------------------
(***************************************************************************)
(* The events of a run journal and the order in which its reducer takes    *)
(* them (run-reducer.mjs), on a journal that is a sequence of events.      *)
(*                                                                         *)
(* Sequence number and hash chain of an entry are its position: an entry   *)
(* extends the chain of exactly the entries before it.  The data of an     *)
(* event is its child and its outcome.                                     *)
(***************************************************************************)
EXTENDS Naturals, Sequences

CONSTANTS
  Children,   \* assignments of the run
  Outcomes    \* outcomes of a child and of the run

Nobody == "nobody"
Open == [kind |-> "run_opened", child |-> Nobody, outcome |-> Nobody]
Start(a) == [kind |-> "child_started", child |-> a, outcome |-> Nobody]
Progress(a) == [kind |-> "child_progress", child |-> a, outcome |-> Nobody]
End(a, o) == [kind |-> "child_terminal", child |-> a, outcome |-> o]
Finish(o) == [kind |-> "run_terminal", child |-> Nobody, outcome |-> o]

Events ==
  {Open} \cup {Start(a) : a \in Children} \cup {Progress(a) : a \in Children}
  \cup {End(a, o) : a \in Children, o \in Outcomes} \cup {Finish(o) : o \in Outcomes}

\* The dedupe key the runtime gives an event: the outcome is not part of it.
Key(e) == <<e.kind, e.child>>

Holds(journal, e) == \E i \in DOMAIN journal : journal[i] = e
Keyed(journal, e) == \E i \in DOMAIN journal : Key(journal[i]) = Key(e)
Newest(journal, e) == journal # << >> /\ journal[Len(journal)] = e

Started(journal, a) == Holds(journal, Start(a))
Ended(journal, a) == \E o \in Outcomes : Holds(journal, End(a, o))
Finished(journal) == \E o \in Outcomes : Holds(journal, Finish(o))

\* applyRunJournalEntryV1 does not throw.
Accepts(journal, e) ==
  IF e.kind = "run_opened" THEN journal = << >>
  ELSE /\ Holds(journal, Open)
       /\ ~Finished(journal)
       /\ e.kind = "child_started" => ~Started(journal, e.child)
       /\ e.kind \in {"child_progress", "child_terminal"}
            => Started(journal, e.child) /\ ~Ended(journal, e.child)
       /\ e.kind = "run_terminal"
            => /\ \E a \in Children : Started(journal, a)
               /\ \A a \in Children : Started(journal, a) => Ended(journal, a)
=============================================================================
