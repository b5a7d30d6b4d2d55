------------------------------ MODULE Mailbox ------------------------------
(***************************************************************************)
(* Questions of a worker and the replies of its clients (mailbox.mjs).     *)
(* A handler of the worker (acp-worker.mjs) puts its question into         *)
(* attention.json and into the task record and then waits in the directory *)
(* of replies.  A client, in another process, checks the question and      *)
(* creates the reply file, which only one client can; the waiter takes it, *)
(* creates the accepted file beside it, sets the task running again and    *)
(* removes attention.json.                                                 *)
(*                                                                         *)
(* An update of the task record is one step here: UpdateLock has the lock  *)
(* behind it.  Events of a directory watcher are delivered late, and reach *)
(* the waiter only while it has its callback set.                          *)
(***************************************************************************)
EXTENDS Naturals

CONSTANTS
  Questions,   \* calls of handlePermissionRequest and handleElicitationRequest
  Replies,     \* calls of submitReply
  About,       \* the question each of them answers
  Overlap,     \* may a provider ask while another question is open?
  Faults,      \* may the worker die, or a file operation of it throw?
  ClientsDie,  \* may a client die while it writes its reply?
  Impatient    \* may a wait be aborted or run out?

None == "none"
Outcomes == {"asking", "failed", "unanswered"}

ASSUME MailboxAssumption ==
  /\ None \notin Questions \cup Replies
  /\ Replies \cap Outcomes = {}
  /\ About \in [Replies -> Questions]
  /\ {Overlap, Faults, ClientsDie, Impatient} \subseteq BOOLEAN

VARIABLES
  status,     \* of the task; "ended" has every status that takes no other any more
  revision,   \* of the task
  shown,      \* the attention field of the task
  attention,  \* attention.json: the question it names
  draft,      \* who has made its temporary file
  pending,    \* the reply file of each question: the call that created it
  written,    \* reply files that have their contents
  accepted,   \* the accepted file of each question
  alive,      \* the worker
  pc, round,  \* where each handler is, and in which look at the replies
  events,     \* waiters whose watcher has something to deliver
  broken,     \* errors of each waiter's watcher
  due,        \* waiters whose time is up, or whose signal is aborted
  outcome,    \* of each question, for its handler
  rpc         \* where each reply is; "recorded" once its file is written

task == <<status, revision, shown>>
question == <<attention, draft>>
replies == <<pending, written, accepted>>
wait == <<round, events, broken, due>>
waiter == <<pc, outcome, wait>>
mailVars == <<task, question, replies, alive, waiter, rpc>>

Armed(q) == pc[q] \in {"look", "sleep", "accept", "settle", "unlink"} /\ round[q] # "first"
At(q, place) == alive /\ pc[q] = place
Goto(q, place) == pc' = [pc EXCEPT ![q] = place]

\* The handler returns: its watcher is closed and its wait forgotten.
Ends(q, result) ==
  /\ Goto(q, "done")
  /\ outcome' = [outcome EXCEPT ![q] = result]
  /\ round' = [round EXCEPT ![q] = "first"]
  /\ events' = events \ {q}
  /\ broken' = [broken EXCEPT ![q] = 0]
  /\ due' = due \ {q}

\* A change in the directory of replies.
Stirs == events' = events \cup {q \in Questions : Armed(q)}

\* updateTask leaves a task alone that has ended or is being cancelled.
Update(s, q) ==
  IF status = "ended" THEN UNCHANGED task
  ELSE status' = s /\ shown' = q /\ revision' = revision + 1

MailInit ==
  /\ status = "running" /\ revision = 0 /\ shown = None
  /\ attention = None /\ draft = None
  /\ pending = [q \in Questions |-> None]
  /\ written = {}
  /\ accepted = [q \in Questions |-> None]
  /\ alive = TRUE
  /\ pc = [q \in Questions |-> "idle"]
  /\ round = [q \in Questions |-> "first"]
  /\ events = {}
  /\ broken = [q \in Questions |-> 0]
  /\ due = {}
  /\ outcome = [q \in Questions |-> "asking"]
  /\ rpc = [r \in Replies |-> "idle"]

------------------------------------------------------------------------------
(* recordNeedsAttention *)

Ask(q) ==
  /\ At(q, "idle")
  /\ Overlap \/ \A p \in Questions \ {q} : pc[p] \in {"idle", "done"}
  /\ Goto(q, "check")
  /\ UNCHANGED <<task, question, replies, alive, wait, outcome, rpc>>

\* Variant for mutation: the question in the way is not looked at.
CheckNothing(q) ==
  /\ At(q, "check")
  /\ Goto(q, "draft")
  /\ UNCHANGED <<task, question, replies, alive, wait, outcome, rpc>>

\* Another question that is open refuses this one.
Check(q) ==
  /\ At(q, "check")
  /\ \/ attention = None /\ Goto(q, "draft") /\ UNCHANGED <<outcome, wait>>
     \/ attention # None /\ Ends(q, "failed")
  /\ UNCHANGED <<task, question, replies, alive, rpc>>

\* writeAtomicJson: the temporary file is made exclusively and renamed.
Draft(q) ==
  /\ At(q, "draft")
  /\ \/ draft = None /\ draft' = q /\ Goto(q, "rename") /\ UNCHANGED <<outcome, wait>>
     \/ draft # None /\ UNCHANGED draft /\ Ends(q, "failed")
  /\ UNCHANGED <<task, attention, replies, alive, rpc>>

Rename(q) ==
  /\ At(q, "rename")
  /\ attention' = q /\ draft' = None
  /\ Goto(q, "show")
  /\ UNCHANGED <<task, replies, alive, wait, outcome, rpc>>

Show(q) ==
  /\ At(q, "show")
  /\ Update("needs_attention", q)
  /\ Goto(q, "look")
  /\ UNCHANGED <<question, replies, alive, wait, outcome, rpc>>

------------------------------------------------------------------------------
(* waitForReply and consumeReply *)

\* Variant for mutation: the wait goes on when its time is up.
LookAgain(q) ==
  /\ At(q, "look")
  /\ IF q \in written THEN Goto(q, "accept") /\ UNCHANGED round
     ELSE Goto(q, "sleep") /\ round' = [round EXCEPT ![q] = "loop"]
  /\ UNCHANGED <<task, question, replies, alive, events, broken, due, outcome, rpc>>

\* Only this handler makes the accepted file of its question, so there is none yet.
\* A reply that is being written does not parse.  Without a reply the first look is
\* followed by the watcher and a second look, and any look by the end when it is due.
Look(q) ==
  /\ At(q, "look")
  /\ \/ /\ q \in written
        /\ Goto(q, "accept") /\ UNCHANGED <<wait, outcome>>
     \/ /\ pending[q] # None /\ q \notin written
        /\ Ends(q, "failed")
     \/ /\ pending[q] = None /\ round[q] = "first"
        /\ round' = [round EXCEPT ![q] = "raced"]
        /\ UNCHANGED <<pc, events, broken, due, outcome>>
     \/ /\ pending[q] = None /\ round[q] # "first" /\ q \notin due
        /\ Goto(q, "sleep") /\ round' = [round EXCEPT ![q] = "loop"]
        /\ UNCHANGED <<events, broken, due, outcome>>
     \/ /\ pending[q] = None /\ q \in due
        /\ Ends(q, "unanswered")
  /\ UNCHANGED <<task, question, replies, alive, rpc>>

Wakes(q) == pc' = IF pc[q] = "sleep" THEN [pc EXCEPT ![q] = "look"] ELSE pc

\* The callback is set only while the waiter sleeps: else the event is gone.
Deliver(q) ==
  /\ alive /\ q \in events
  /\ events' = events \ {q}
  /\ Wakes(q)
  /\ UNCHANGED <<task, question, replies, alive, round, broken, due, outcome, rpc>>

\* Variant for mutation: the watcher is armed again every time.
WatchErrorAgain(q) ==
  /\ Faults /\ alive /\ Armed(q)
  /\ broken' = [broken EXCEPT ![q] = IF @ < 3 THEN @ + 1 ELSE @]
  /\ events' = events \ {q}
  /\ Wakes(q)
  /\ UNCHANGED <<task, question, replies, alive, round, due, outcome, rpc>>

\* onWatchError: another watcher the first time, no watcher after that.
WatchError(q) ==
  /\ Faults /\ alive /\ Armed(q) /\ broken[q] < 2
  /\ broken' = [broken EXCEPT ![q] = @ + 1]
  /\ events' = events \ {q}
  /\ Wakes(q)
  /\ UNCHANGED <<task, question, replies, alive, round, due, outcome, rpc>>

\* The fallback timer of a waiter without a watcher.
Poll(q) ==
  /\ At(q, "sleep") /\ broken[q] = 2
  /\ Goto(q, "look")
  /\ UNCHANGED <<task, question, replies, alive, wait, outcome, rpc>>

\* The deadline of the wait passes, or the provider or the worker aborts it.
FallsDue(q) ==
  /\ Impatient /\ alive /\ pc[q] \notin {"idle", "done"} /\ q \notin due
  /\ due' = due \cup {q}
  /\ UNCHANGED <<task, question, replies, alive, pc, round, events, broken, outcome, rpc>>

\* The waiter wakes then and looks once more.
GiveUp(q) ==
  /\ At(q, "sleep") /\ q \in due
  /\ Goto(q, "look")
  /\ UNCHANGED <<task, question, replies, alive, wait, outcome, rpc>>

Accept(q) ==
  /\ At(q, "accept")
  /\ accepted' = [accepted EXCEPT ![q] = pending[q]]
  /\ Stirs
  /\ Goto(q, "settle")
  /\ UNCHANGED <<task, question, pending, written, alive, round, broken, due, outcome, rpc>>

Settle(q) ==
  /\ At(q, "settle")
  /\ Update("running", None)
  /\ Goto(q, "unlink")
  /\ UNCHANGED <<question, replies, alive, wait, outcome, rpc>>

\* Variant for mutation: attention.json stays.
UnlinkNothing(q) ==
  /\ At(q, "unlink")
  /\ Ends(q, accepted[q])
  /\ UNCHANGED <<task, question, replies, alive, rpc>>

\* attention.json goes, whatever question it names.
Unlink(q) ==
  /\ At(q, "unlink")
  /\ attention' = None
  /\ Ends(q, accepted[q])
  /\ UNCHANGED <<task, draft, replies, alive, rpc>>

\* A file operation of the handler throws: what is on the disk stays.
Throws(q) ==
  /\ Faults /\ alive
  /\ pc[q] \in {"check", "draft", "rename", "show", "look", "accept", "settle", "unlink"}
  /\ Ends(q, "failed")
  /\ UNCHANGED <<task, question, replies, alive, rpc>>

WorkerDies ==
  /\ Faults /\ alive
  /\ alive' = FALSE
  /\ UNCHANGED <<task, question, replies, waiter, rpc>>

------------------------------------------------------------------------------
(* submitReply *)

Replying(r, place) == rpc[r] = place
ReplyGoto(r, place) == rpc' = [rpc EXCEPT ![r] = place]

ReadStatus(r) ==
  /\ Replying(r, "idle")
  /\ ReplyGoto(r, IF status = "needs_attention" THEN "match" ELSE "refused")
  /\ UNCHANGED <<task, question, replies, alive, waiter>>

Match(r) ==
  /\ Replying(r, "match")
  /\ ReplyGoto(r, IF attention = About[r] THEN "create" ELSE "refused")
  /\ UNCHANGED <<task, question, replies, alive, waiter>>

\* Variant for mutation: a reply replaces the one that is there.
CreateOver(r) ==
  /\ Replying(r, "create")
  /\ pending' = [pending EXCEPT ![About[r]] = r]
  /\ ReplyGoto(r, "write") /\ Stirs
  /\ UNCHANGED <<task, question, written, accepted, alive, pc, round, broken, due, outcome>>

\* writeExclusiveJson creates the file, which only one reply can, and then writes it.
Create(r) ==
  /\ Replying(r, "create")
  /\ IF pending[About[r]] = None
     THEN /\ pending' = [pending EXCEPT ![About[r]] = r]
          /\ ReplyGoto(r, "write") /\ Stirs
     ELSE ReplyGoto(r, "already") /\ UNCHANGED <<pending, events>>
  /\ UNCHANGED <<task, question, written, accepted, alive, pc, round, broken, due, outcome>>

\* The reply is on disk.  submitReply then appends an event and reads the task; a client for
\* which one of the two throws has a reply recorded that it was not told of.
Write(r) ==
  /\ Replying(r, "write")
  /\ written' = written \cup {About[r]}
  /\ ReplyGoto(r, "recorded") /\ Stirs
  /\ UNCHANGED <<task, question, pending, accepted, alive, pc, round, broken, due, outcome>>

ClientDies(r) ==
  /\ ClientsDie /\ rpc[r] \in {"match", "create", "write"}
  /\ ReplyGoto(r, "dead")
  /\ UNCHANGED <<task, question, replies, alive, waiter>>

\* The task ends, or is cancelled, by other hands.
EndTask ==
  /\ status # "ended"
  /\ status' = "ended" /\ revision' = revision + 1
  /\ UNCHANGED <<shown, question, replies, alive, waiter, rpc>>

------------------------------------------------------------------------------
(* The specification *)

Handle(q) ==
  \/ Check(q) \/ Draft(q) \/ Rename(q) \/ Show(q)
  \/ Look(q) \/ Accept(q) \/ Settle(q) \/ Unlink(q)

MailNext ==
  \/ \E q \in Questions :
       \/ Ask(q) \/ Handle(q) \/ Throws(q)
       \/ Deliver(q) \/ WatchError(q) \/ Poll(q) \/ FallsDue(q) \/ GiveUp(q)
  \/ \E r \in Replies : ReadStatus(r) \/ Match(r) \/ Create(r) \/ Write(r) \/ ClientDies(r)
  \/ WorkerDies \/ EndTask

\* The worker goes on with what it does, and its timers run out.
MailFairness ==
  \A q \in Questions :
    WF_mailVars(Handle(q)) /\ WF_mailVars(FallsDue(q)) /\ WF_mailVars(GiveUp(q))

MailSpec == MailInit /\ [][MailNext]_mailVars
FairMailSpec == MailSpec /\ MailFairness

------------------------------------------------------------------------------
(* Properties *)

\* The files, the handlers and the clients keep their shape.
MailTypeOK ==
  /\ status \in {"running", "needs_attention", "ended"}
  /\ revision \in Nat
  /\ {shown, attention, draft} \subseteq Questions \cup {None}
  /\ pending \in [Questions -> Replies \cup {None}]
  /\ written \subseteq Questions
  /\ accepted \in [Questions -> Replies \cup {None}]
  /\ alive \in BOOLEAN
  /\ pc \in [Questions -> {"idle", "check", "draft", "rename", "show", "look", "sleep",
                           "accept", "settle", "unlink", "done"}]
  /\ round \in [Questions -> {"first", "raced", "loop"}]
  /\ events \subseteq Questions
  /\ broken \in [Questions -> 0..2]
  /\ due \subseteq Questions
  /\ outcome \in [Questions -> Outcomes \cup Replies]
  /\ rpc \in [Replies -> {"idle", "match", "create", "write", "refused", "already", "recorded", "dead"}]

\* What a handler is told is the one reply that was recorded for its question, whole and in
\* a file that no other client writes (writeExclusiveJson, submitReply, consumeReply).
OneReply ==
  /\ \A q \in Questions : outcome[q] \in Replies =>
       About[outcome[q]] = q /\ rpc[outcome[q]] = "recorded" /\ accepted[q] = outcome[q]
  /\ \A r, s \in Replies :
       About[r] = About[s] /\ rpc[r] = "recorded" /\ rpc[s] \in {"write", "recorded"} => r = s

\* A task that asks for attention names the question clients can answer: the record and
\* attention.json agree, which submitReply requires (recordNeedsAttention, consumeReply).
Answerable == status = "needs_attention" => attention # None /\ attention = shown

\* A question that was answered is neither in attention.json nor in the record of a live
\* task any more, so that the next one can be asked (consumeReply, attention_pending).
AnsweredIsClosed ==
  \A q \in Questions : outcome[q] \in Replies =>
    attention # q /\ (status # "ended" => shown # q)

\* Every question ends, answered or not, while the worker lives (waitForReply: its
\* deadline and the last look after it).
EveryQuestionEnds ==
  \A q \in Questions : pc[q] # "idle" ~> (pc[q] = "done" \/ ~alive)
=============================================================================
