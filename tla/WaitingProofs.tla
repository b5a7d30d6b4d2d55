---------------------------- MODULE WaitingProofs ----------------------------
(***************************************************************************)
(* Proofs about the two components that wait on a watched directory.       *)
(*                                                                         *)
(* The mailbox: what becomes of a question and of the replies to it, for   *)
(* any number of them, whoever dies or fails.  Only that the task asks     *)
(* nothing clients cannot answer needs providers that ask one question at  *)
(* a time.                                                                 *)
(*                                                                         *)
(* The client that waits for tasks: for any tasks, however often they      *)
(* change and reads and watchers of others fail, it sleeps through no      *)
(* change of a task that it could read and that it has a watcher on.       *)
(*                                                                         *)
(* Neither reads the state of the other: each theorem is about the         *)
(* behaviours of one of them, MailSpec or Spec.                            *)
(***************************************************************************)
EXTENDS Mailbox, TaskWait, TLAPS

Open(q) == pc[q] \notin {"idle", "done"}

\* The reply file of a question belongs to the one client that created it, is complete once that
\* client was told so, and is what the waiter accepts.
ReplyInv ==
  /\ \A r \in Replies : rpc[r] \in {"write", "recorded"} => pending[About[r]] = r
  /\ \A q \in Questions : pending[q] # None => About[pending[q]] = q
  /\ \A q \in written : pending[q] # None /\ rpc[pending[q]] = "recorded"
  /\ \A q \in Questions : accepted[q] # None => q \in written /\ accepted[q] = pending[q]
  /\ \A q \in Questions : pc[q] = "accept" => q \in written
  /\ \A q \in Questions : pc[q] \in {"settle", "unlink"} => accepted[q] # None
  /\ \A q \in Questions : outcome[q] \in Replies => accepted[q] = outcome[q]

\* What an answered question leaves behind, step by step.
ClosedInv ==
  /\ \A q \in Questions : outcome[q] \in Replies => pc[q] = "done"
  /\ \A q \in Questions : pc[q] = "unlink" /\ status # "ended" => shown # q
  /\ AnsweredIsClosed

\* One question is open at a time, and attention.json is its.
SoleInv ==
  /\ \A p, q \in Questions : Open(p) /\ Open(q) => p = q
  /\ \A q \in Questions : pc[q] \in {"draft", "rename"} => attention = None
  /\ \A q \in Questions : pc[q] = "show" => attention = q
  /\ \A q \in Questions : pc[q] = "unlink" => status # "needs_attention"
  /\ Answerable

------------------------------------------------------------------------------
(* Types *)

LEMMA MailInitType == MailInit => MailTypeOK
BY MailboxAssumption DEF MailInit, MailTypeOK, Outcomes

LEMMA EndsType ==
  ASSUME MailTypeOK, NEW q \in Questions, NEW result \in Outcomes \cup Replies, Ends(q, result)
  PROVE  /\ pc' = [pc EXCEPT ![q] = "done"]
         /\ outcome' = [outcome EXCEPT ![q] = result]
         /\ pc' \in [Questions -> {"idle", "check", "draft", "rename", "show", "look", "sleep",
                                   "accept", "settle", "unlink", "done"}]
         /\ round' \in [Questions -> {"first", "raced", "loop"}]
         /\ events' \subseteq Questions
         /\ broken' \in [Questions -> 0..2]
         /\ due' \subseteq Questions
         /\ outcome' \in [Questions -> Outcomes \cup Replies]
BY DEF Ends, Goto, MailTypeOK

LEMMA MailNextType ==
  ASSUME MailTypeOK, ReplyInv, [MailNext]_mailVars
  PROVE  MailTypeOK'
<1> USE MailboxAssumption DEF mailVars, task, question, replies, wait, waiter, Goto, At
<1>1. ASSUME NEW q \in Questions, Check(q) \/ Draft(q) \/ Look(q) \/ Throws(q)
      PROVE  MailTypeOK'
  <2>1. CASE Ends(q, "failed") \/ Ends(q, "unanswered")
    BY <1>1, <2>1, EndsType DEF MailTypeOK, Check, Draft, Look, Throws, Outcomes
  <2>2. CASE ~(Ends(q, "failed") \/ Ends(q, "unanswered"))
    BY <1>1, <2>2 DEF MailTypeOK, Check, Draft, Look, Throws
  <2> QED BY <2>1, <2>2
<1>2. ASSUME NEW q \in Questions, Unlink(q) PROVE MailTypeOK'
  <2>1. accepted[q] \in Outcomes \cup Replies
    BY <1>2 DEF Unlink, ReplyInv, MailTypeOK
  <2> QED BY <1>2, <2>1, EndsType DEF MailTypeOK, Unlink
<1>3. ASSUME NEW q \in Questions, Ask(q) \/ Rename(q) \/ Show(q) PROVE MailTypeOK'
  BY <1>3 DEF MailTypeOK, Ask, Rename, Show, Update
<1>4. ASSUME NEW q \in Questions, Deliver(q) \/ WatchError(q) \/ Poll(q) \/ FallsDue(q) \/ GiveUp(q)
      PROVE  MailTypeOK'
  BY <1>4 DEF MailTypeOK, Deliver, WatchError, Poll, FallsDue, GiveUp, Wakes
<1>5. ASSUME NEW q \in Questions, Accept(q) \/ Settle(q) PROVE MailTypeOK'
  BY <1>5 DEF MailTypeOK, Accept, Settle, Stirs, Update
<1>6. ASSUME NEW r \in Replies,
             ReadStatus(r) \/ Match(r) \/ Create(r) \/ Write(r) \/ ClientDies(r)
      PROVE  MailTypeOK'
  BY <1>6 DEF MailTypeOK, ReadStatus, Match, Create, Write, ClientDies, Replying, ReplyGoto, Stirs
<1>7. CASE WorkerDies \/ EndTask
  <2>1. CASE WorkerDies
    <3>1. alive' \in BOOLEAN
      BY <2>1, Zenon DEF WorkerDies
    <3> QED BY <2>1, <3>1 DEF MailTypeOK, WorkerDies
  <2>2. CASE EndTask
    BY <2>2 DEF MailTypeOK, EndTask
  <2> QED BY <1>7, <2>1, <2>2
<1>8. CASE UNCHANGED mailVars
  BY <1>8 DEF MailTypeOK
<1> QED BY <1>1, <1>2, <1>3, <1>4, <1>5, <1>6, <1>7, <1>8 DEF MailNext, Handle

------------------------------------------------------------------------------
(* One reply *)

\* A step of handlers that leaves the replies and what was accepted alone.
LEMMA HandlersReply ==
  ASSUME MailTypeOK, ReplyInv, UNCHANGED <<replies, rpc>>,
         \A q \in Questions : pc'[q] = "accept" => q \in written,
         \A q \in Questions : pc'[q] \in {"settle", "unlink"} => accepted[q] # None,
         \A q \in Questions : outcome'[q] \in Replies => accepted[q] = outcome'[q]
  PROVE  ReplyInv'
BY DEF ReplyInv, replies

\* A handler goes to a place where it holds nothing, with the outcome it had.
LEMMA GoesReply ==
  ASSUME MailTypeOK, ReplyInv, UNCHANGED <<replies, rpc, outcome>>,
         \A q \in Questions :
           pc'[q] = pc[q] \/ pc'[q] \notin {"accept", "settle", "unlink"}
  PROVE  ReplyInv'
BY HandlersReply DEF ReplyInv

LEMMA EndsReply ==
  ASSUME MailTypeOK, ReplyInv, UNCHANGED <<replies, rpc>>,
         NEW q \in Questions, NEW result \in Outcomes \cup Replies, Ends(q, result),
         result \in Replies => accepted[q] = result
  PROVE  ReplyInv'
<1>1. /\ pc' = [pc EXCEPT ![q] = "done"]
      /\ outcome' = [outcome EXCEPT ![q] = result]
  BY EndsType
<1> QED BY <1>1, HandlersReply DEF ReplyInv, MailTypeOK

LEMMA HandleReply ==
  ASSUME MailTypeOK, ReplyInv, NEW q \in Questions, Handle(q) \/ Throws(q)
  PROVE  ReplyInv'
<1> USE DEF task, question, wait, waiter, At, Goto
<1>1. \A result \in {"failed", "unanswered"} :
        result \in Outcomes \cup Replies /\ result \notin Replies
  BY MailboxAssumption DEF Outcomes
<1>2. CASE \E result \in {"failed", "unanswered"} : Ends(q, result) /\ UNCHANGED <<replies, rpc>>
  BY <1>1, <1>2, EndsReply
<1>3. CASE Unlink(q)
  <2>1. accepted[q] \in Replies /\ Ends(q, accepted[q]) /\ UNCHANGED <<replies, rpc>>
    BY <1>3 DEF Unlink, ReplyInv, MailTypeOK, replies
  <2> QED BY <2>1, EndsReply
<1>4. CASE Accept(q)
  <2>1. /\ pc' = [pc EXCEPT ![q] = "settle"] /\ q \in written
        /\ accepted' = [accepted EXCEPT ![q] = pending[q]]
        /\ UNCHANGED <<pending, written, rpc, outcome>>
    BY <1>4 DEF Accept, ReplyInv
  <2>2. accepted'[q] = pending[q] /\ pending[q] # None
    BY <2>1 DEF ReplyInv, MailTypeOK
  <2>3. \A p \in Questions : accepted'[p] = accepted[p] \/ p = q
    BY <2>1 DEF MailTypeOK
  <2>4. outcome[q] \in Replies => outcome[q] = accepted'[q]
    BY <2>2, MailboxAssumption DEF ReplyInv, MailTypeOK
  <2>5. \A p \in Questions : pc'[p] = pc[p] \/ (p = q /\ pc'[p] = "settle")
    BY <2>1 DEF MailTypeOK
  <2> QED BY <2>1, <2>2, <2>3, <2>4, <2>5 DEF ReplyInv
<1>5. CASE Settle(q)
  BY <1>5, HandlersReply DEF Settle, ReplyInv, MailTypeOK
<1>6. CASE Look(q) /\ q \in written /\ Goto(q, "accept") /\ UNCHANGED outcome
  BY <1>6, HandlersReply DEF Look, ReplyInv, MailTypeOK
<1>7. CASE Look(q) /\ (UNCHANGED pc \/ Goto(q, "sleep")) /\ UNCHANGED outcome
  BY <1>7, GoesReply DEF Look, MailTypeOK
<1>8. CASE Rename(q) \/ Show(q)
  BY <1>8, GoesReply DEF Rename, Show, MailTypeOK
<1>9. CASE Check(q) \/ Draft(q)
  BY <1>2, <1>9, GoesReply DEF Check, Draft, MailTypeOK
<1> QED
  BY <1>2, <1>3, <1>4, <1>5, <1>6, <1>7, <1>8, <1>9 DEF Handle, Throws, Look

LEMMA RepliesReply ==
  ASSUME MailTypeOK, ReplyInv, NEW r \in Replies,
         ReadStatus(r) \/ Match(r) \/ Create(r) \/ Write(r) \/ ClientDies(r)
  PROVE  ReplyInv'
<1> USE DEF waiter, Replying, ReplyGoto
<1>1. CASE /\ rpc[r] # "recorded" /\ UNCHANGED <<pc, outcome, replies>>
           /\ \E p \in {"match", "refused", "create", "already", "dead"} : ReplyGoto(r, p)
  <2>1. \A s \in Replies : rpc'[s] = rpc[s] \/ (s = r /\ rpc'[s] \notin {"write", "recorded"})
    BY <1>1 DEF MailTypeOK
  <2> QED BY <1>1, <2>1 DEF ReplyInv, replies, MailTypeOK
<1>2. CASE Create(r) /\ pending[About[r]] = None
  <2>1. /\ pending' = [pending EXCEPT ![About[r]] = r] /\ rpc' = [rpc EXCEPT ![r] = "write"]
        /\ rpc[r] = "create" /\ UNCHANGED <<written, accepted, pc, outcome>>
    BY <1>2 DEF Create
  <2>2. About[r] \in Questions /\ r # None
    BY MailboxAssumption
  <2>3. /\ pending'[About[r]] = r
        /\ \A q \in Questions : q # About[r] => pending'[q] = pending[q]
        /\ rpc'[r] = "write" /\ \A s \in Replies : s # r => rpc'[s] = rpc[s]
    BY <2>1, <2>2 DEF MailTypeOK
  <2>4. About[r] \notin written /\ accepted[About[r]] = None
    BY <1>2, <2>2 DEF ReplyInv
  <2>5. \A s \in Replies : rpc[s] \in {"write", "recorded"} => About[s] # About[r]
    BY <1>2, MailboxAssumption DEF ReplyInv
  <2> QED BY <2>1, <2>2, <2>3, <2>4, <2>5, MailboxAssumption DEF ReplyInv, MailTypeOK
<1>3. CASE Write(r)
  <2>1. /\ written' = written \cup {About[r]} /\ rpc' = [rpc EXCEPT ![r] = "recorded"]
        /\ rpc[r] = "write" /\ UNCHANGED <<pending, accepted, pc, outcome>>
    BY <1>3 DEF Write
  <2>2. About[r] \in Questions /\ r # None /\ pending[About[r]] = r
    BY <2>1, MailboxAssumption DEF ReplyInv
  <2>3. rpc'[r] = "recorded" /\ \A s \in Replies : s # r => rpc'[s] = rpc[s]
    BY <2>1 DEF MailTypeOK
  <2> QED BY <2>1, <2>2, <2>3 DEF ReplyInv, MailTypeOK
<1> QED
  BY <1>1, <1>2, <1>3 DEF ReadStatus, Match, Create, Write, ClientDies, replies

LEMMA MailNextReply ==
  ASSUME MailTypeOK, ReplyInv, [MailNext]_mailVars
  PROVE  ReplyInv'
<1> USE DEF waiter, wait, At, Goto
<1>1. ASSUME NEW q \in Questions,
             Ask(q) \/ Deliver(q) \/ WatchError(q) \/ Poll(q) \/ FallsDue(q) \/ GiveUp(q)
      PROVE  ReplyInv'
  BY <1>1, GoesReply DEF Ask, Deliver, WatchError, Poll, FallsDue, GiveUp, Wakes, MailTypeOK
<1>2. CASE WorkerDies \/ EndTask \/ UNCHANGED mailVars
  BY <1>2, GoesReply DEF WorkerDies, EndTask, mailVars
<1> QED BY <1>1, <1>2, HandleReply, RepliesReply DEF MailNext

LEMMA MailReply == MailSpec => [](MailTypeOK /\ ReplyInv)
<1>1. MailInit => MailTypeOK /\ ReplyInv
  BY MailInitType, MailboxAssumption DEF MailInit, ReplyInv, Outcomes
<1>2. (MailTypeOK /\ ReplyInv) /\ [MailNext]_mailVars => (MailTypeOK /\ ReplyInv)'
  BY MailNextType, MailNextReply
<1> QED BY <1>1, <1>2, PTL DEF MailSpec

------------------------------------------------------------------------------
(* Questions that are closed *)

\* A step that ends no question with a reply, opens none again and shows none that was answered.
LEMMA QuietlyClosed ==
  ASSUME ClosedInv,
         \A q \in Questions : outcome'[q] \in Replies => outcome[q] \in Replies /\ pc'[q] = pc[q],
         \A q \in Questions : pc'[q] = "unlink" => pc[q] = "unlink",
         \A q \in Questions : attention' = q => attention = q \/ pc[q] # "done",
         status = "ended" => status' = "ended",
         \A q \in Questions : shown' = q => shown = q \/ pc[q] \notin {"unlink", "done"}
  PROVE  ClosedInv'
BY DEF ClosedInv, AnsweredIsClosed

LEMMA HandleClosed ==
  ASSUME MailTypeOK, ReplyInv, ClosedInv, NEW q \in Questions, Handle(q) \/ Throws(q)
  PROVE  ClosedInv'
<1> USE DEF task, question, wait, waiter, At, Goto
<1>1. CASE \E result \in {"failed", "unanswered"} :
             Ends(q, result) /\ UNCHANGED <<status, shown, attention>>
  <2>1. PICK result \in Outcomes \ Replies :
          Ends(q, result) /\ UNCHANGED <<status, shown, attention>>
    BY <1>1, MailboxAssumption DEF Outcomes
  <2>2. /\ pc' = [pc EXCEPT ![q] = "done"]
        /\ outcome' = [outcome EXCEPT ![q] = result]
    BY <2>1, EndsType
  <2> QED BY <2>1, <2>2, QuietlyClosed DEF MailTypeOK
<1>2. CASE Unlink(q)
  <2>1. accepted[q] \in Outcomes \cup Replies
    BY <1>2 DEF Unlink, ReplyInv, MailTypeOK
  <2>2. /\ pc' = [pc EXCEPT ![q] = "done"]
        /\ outcome' = [outcome EXCEPT ![q] = accepted[q]]
        /\ pc[q] = "unlink" /\ attention' = None /\ UNCHANGED <<status, shown>>
    BY <1>2, <2>1, EndsType DEF Unlink
  <2>3. \A p \in Questions : p # None
    BY MailboxAssumption
  <2> QED BY <2>2, <2>3 DEF ClosedInv, AnsweredIsClosed, MailTypeOK
<1>3. CASE Settle(q)
  <2>1. /\ pc' = [pc EXCEPT ![q] = "unlink"] /\ pc[q] = "settle"
        /\ UNCHANGED <<attention, outcome>>
        /\ \/ status = "ended" /\ UNCHANGED <<status, shown>>
           \/ status # "ended" /\ shown' = None
    BY <1>3 DEF Settle, Update
  <2>2. \A p \in Questions : p # None
    BY MailboxAssumption
  <2> QED BY <2>1, <2>2 DEF ClosedInv, AnsweredIsClosed, MailTypeOK
<1>4. CASE /\ UNCHANGED <<status, shown, attention, outcome>> /\ pc[q] # "done"
           /\ \E place : place # "unlink" /\ pc' = [pc EXCEPT ![q] = place]
  <2>1. \A p \in Questions : outcome[p] \in Replies => p # q
    BY <1>4 DEF ClosedInv
  <2> QED BY <1>4, <2>1, QuietlyClosed DEF MailTypeOK
<1>5. CASE Rename(q)
  <2>1. /\ pc' = [pc EXCEPT ![q] = "show"] /\ pc[q] = "rename" /\ attention' = q
        /\ UNCHANGED <<status, shown, outcome>>
    BY <1>5 DEF Rename
  <2> QED BY <2>1, QuietlyClosed DEF MailTypeOK, ClosedInv
<1>6. CASE Show(q)
  <2>1. /\ pc' = [pc EXCEPT ![q] = "look"] /\ pc[q] = "show" /\ UNCHANGED <<attention, outcome>>
        /\ \/ UNCHANGED <<status, shown>>
           \/ status # "ended" /\ shown' = q
    BY <1>6 DEF Show, Update
  <2> QED BY <2>1, QuietlyClosed DEF MailTypeOK, ClosedInv
<1>7. CASE UNCHANGED <<status, shown, attention, outcome, pc>>
  BY <1>7, QuietlyClosed
<1>8. CASE Check(q) \/ Draft(q) \/ Accept(q) \/ Throws(q)
  BY <1>1, <1>4, <1>8 DEF Check, Draft, Accept, Throws
<1>9. CASE Look(q)
  <2>1. pc[q] = "look" /\ UNCHANGED <<status, shown, attention>>
    BY <1>9 DEF Look
  <2>2. \/ Ends(q, "failed") \/ Ends(q, "unanswered")
        \/ UNCHANGED outcome /\ (Goto(q, "accept") \/ Goto(q, "sleep"))
        \/ UNCHANGED <<outcome, pc>>
    BY <1>9 DEF Look
  <2> QED BY <2>1, <2>2, <1>1, <1>4, <1>7
<1> QED BY <1>2, <1>3, <1>5, <1>6, <1>8, <1>9 DEF Handle

LEMMA MailNextClosed ==
  ASSUME MailTypeOK, ReplyInv, ClosedInv, [MailNext]_mailVars
  PROVE  ClosedInv'
<1> USE DEF task, question, waiter, wait, At, Goto
<1>1. ASSUME NEW q \in Questions,
             Ask(q) \/ Deliver(q) \/ WatchError(q) \/ Poll(q) \/ FallsDue(q) \/ GiveUp(q)
      PROVE  ClosedInv'
  <2>1. /\ UNCHANGED <<status, shown, attention, outcome>>
        /\ \/ UNCHANGED pc
           \/ pc[q] # "done" /\ \E place \in {"check", "look"} : pc' = [pc EXCEPT ![q] = place]
    BY <1>1 DEF Ask, Deliver, WatchError, Poll, FallsDue, GiveUp, Wakes
  <2>2. \A p \in Questions : outcome[p] \in Replies => pc[p] = "done"
    BY DEF ClosedInv
  <2> QED BY <2>1, <2>2, QuietlyClosed DEF MailTypeOK
<1>2. ASSUME NEW r \in Replies,
             ReadStatus(r) \/ Match(r) \/ Create(r) \/ Write(r) \/ ClientDies(r)
      PROVE  ClosedInv'
  BY <1>2, QuietlyClosed DEF ReadStatus, Match, Create, Write, ClientDies
<1>3. CASE WorkerDies \/ EndTask \/ UNCHANGED mailVars
  BY <1>3, QuietlyClosed DEF WorkerDies, EndTask, mailVars
<1> QED BY <1>1, <1>2, <1>3, HandleClosed DEF MailNext

------------------------------------------------------------------------------
(* One question at a time *)

\* A step that opens no question, and leaves record and attention.json alone.
LEMMA QuietlySole ==
  ASSUME SoleInv, UNCHANGED <<status, shown, attention>>,
         \A q \in Questions :
           \/ pc'[q] = pc[q]
           \/ pc'[q] = "done"
           \/ pc[q] \notin {"idle", "done"} /\ pc'[q] \in {"look", "sleep", "accept", "settle"}
           \/ pc[q] = "draft" /\ pc'[q] = "rename"
  PROVE  SoleInv'
BY DEF SoleInv, Open, Answerable

LEMMA HandleSole ==
  ASSUME MailTypeOK, ReplyInv, SoleInv, NEW q \in Questions, Handle(q) \/ Throws(q)
  PROVE  SoleInv'
<1> USE DEF task, question, wait, waiter, At, Goto
<1>1. ASSUME NEW result, Ends(q, result), UNCHANGED <<status, shown, attention>>
      PROVE  SoleInv'
  BY <1>1, QuietlySole DEF Ends, MailTypeOK
<1>2. \A p \in Questions : Open(q) /\ p # q => ~Open(p)
  BY DEF SoleInv
<1>3. CASE Unlink(q)
  <2>1. /\ pc' = [pc EXCEPT ![q] = "done"] /\ pc[q] = "unlink" /\ UNCHANGED <<status, shown>>
        /\ attention' = None
    BY <1>3 DEF Unlink, Ends
  <2> QED BY <1>2, <2>1 DEF SoleInv, Open, Answerable, MailTypeOK
<1>4. CASE Settle(q)
  <2>1. /\ pc' = [pc EXCEPT ![q] = "unlink"] /\ pc[q] = "settle" /\ UNCHANGED attention
        /\ status' \in {"ended", "running"}
    BY <1>4 DEF Settle, Update
  <2> QED BY <1>2, <2>1 DEF SoleInv, Open, Answerable, MailTypeOK
<1>5. CASE Rename(q)
  <2>1. /\ pc' = [pc EXCEPT ![q] = "show"] /\ pc[q] = "rename" /\ UNCHANGED <<status, shown>>
        /\ attention' = q
    BY <1>5 DEF Rename
  <2>2. status # "needs_attention"
    BY <2>1 DEF SoleInv, Answerable
  <2> QED BY <1>2, <2>1, <2>2 DEF SoleInv, Open, Answerable, MailTypeOK
<1>6. CASE Show(q)
  <2>1. /\ pc' = [pc EXCEPT ![q] = "look"] /\ pc[q] = "show" /\ UNCHANGED attention
        /\ status' # "needs_attention" \/ shown' = q
    BY <1>6 DEF Show, Update
  <2>2. attention = q /\ q # None
    BY <2>1, MailboxAssumption DEF SoleInv
  <2> QED BY <1>2, <2>1, <2>2 DEF SoleInv, Open, Answerable, MailTypeOK
<1>7. CASE Check(q) /\ attention = None /\ Goto(q, "draft")
  <2>1. pc' = [pc EXCEPT ![q] = "draft"] /\ pc[q] = "check" /\ UNCHANGED <<status, shown, attention>>
    BY <1>7 DEF Check
  <2> QED BY <1>2, <1>7, <2>1 DEF SoleInv, Open, Answerable, MailTypeOK
<1>8. CASE Check(q) \/ Draft(q) \/ Accept(q) \/ Throws(q)
  BY <1>1, <1>7, <1>8, QuietlySole DEF Check, Draft, Accept, Throws, MailTypeOK
<1>9. CASE Look(q)
  <2>1. pc[q] = "look" /\ UNCHANGED <<status, shown, attention>>
    BY <1>9 DEF Look
  <2>2. \/ Ends(q, "failed") \/ Ends(q, "unanswered")
        \/ Goto(q, "accept") \/ Goto(q, "sleep") \/ UNCHANGED pc
    BY <1>9 DEF Look
  <2> QED BY <2>1, <2>2, <1>1, QuietlySole DEF MailTypeOK
<1> QED BY <1>3, <1>4, <1>5, <1>6, <1>8, <1>9 DEF Handle

LEMMA MailNextSole ==
  ASSUME ~Overlap, MailTypeOK, ReplyInv, SoleInv, [MailNext]_mailVars
  PROVE  SoleInv'
<1> USE DEF task, question, waiter, wait, At, Goto
<1>1. ASSUME NEW q \in Questions, Ask(q) PROVE SoleInv'
  <2>1. /\ pc' = [pc EXCEPT ![q] = "check"] /\ UNCHANGED <<status, shown, attention>>
        /\ \A p \in Questions \ {q} : ~Open(p)
    BY <1>1 DEF Ask, Open
  <2> QED BY <2>1 DEF SoleInv, Open, Answerable, MailTypeOK
<1>2. ASSUME NEW q \in Questions,
             Deliver(q) \/ WatchError(q) \/ Poll(q) \/ FallsDue(q) \/ GiveUp(q)
      PROVE  SoleInv'
  BY <1>2, QuietlySole DEF Deliver, WatchError, Poll, FallsDue, GiveUp, Wakes, MailTypeOK
<1>3. ASSUME NEW r \in Replies,
             ReadStatus(r) \/ Match(r) \/ Create(r) \/ Write(r) \/ ClientDies(r)
      PROVE  SoleInv'
  BY <1>3, QuietlySole DEF ReadStatus, Match, Create, Write, ClientDies
<1>4. CASE WorkerDies \/ UNCHANGED mailVars
  BY <1>4, QuietlySole DEF WorkerDies, mailVars
<1>5. CASE EndTask
  BY <1>5 DEF EndTask, SoleInv, Open, Answerable
<1> QED BY <1>1, <1>2, <1>3, <1>4, <1>5, HandleSole DEF MailNext

------------------------------------------------------------------------------
(* The theorems *)

\* The task record, the files and all calls keep their shape (recordNeedsAttention, consumeReply,
\* submitReply).
THEOREM MailType == MailSpec => []MailTypeOK
BY MailReply, PTL

\* However many clients reply, die or find the question closed, a handler is told the one reply
\* whose client was told that it is recorded (writeExclusiveJson).
THEOREM MailOneReply == MailSpec => []OneReply
<1>1. MailTypeOK /\ ReplyInv => OneReply
  <2> SUFFICES ASSUME MailTypeOK, ReplyInv PROVE OneReply
    OBVIOUS
  <2>1. ASSUME NEW q \in Questions, outcome[q] \in Replies
        PROVE  About[outcome[q]] = q /\ rpc[outcome[q]] = "recorded" /\ accepted[q] = outcome[q]
    <3>1. accepted[q] = outcome[q] /\ accepted[q] # None
      BY <2>1, MailboxAssumption DEF ReplyInv
    <3>2. q \in written /\ accepted[q] = pending[q] /\ pending[q] # None
      BY <3>1 DEF ReplyInv
    <3> QED BY <3>1, <3>2 DEF ReplyInv
  <2>2. ASSUME NEW r \in Replies, NEW s \in Replies, About[r] = About[s], rpc[r] = "recorded",
               rpc[s] \in {"write", "recorded"}
        PROVE  r = s
    BY <2>2 DEF ReplyInv
  <2> QED BY <2>1, <2>2 DEF OneReply
<1> QED BY <1>1, MailReply, PTL

\* A question that was answered is neither in attention.json nor in the record of a live task,
\* whatever other handlers do (consumeReply).
THEOREM MailAnsweredIsClosed == MailSpec => []AnsweredIsClosed
<1>1. MailInit => ClosedInv
  BY MailboxAssumption DEF MailInit, ClosedInv, AnsweredIsClosed, Outcomes
<1>2. (MailTypeOK /\ ReplyInv) /\ ClosedInv /\ [MailNext]_mailVars => ClosedInv'
  BY MailNextClosed
<1>3. ClosedInv => AnsweredIsClosed
  BY DEF ClosedInv
<1> QED BY <1>1, <1>2, <1>3, MailReply, PTL DEF MailSpec

\* When the provider asks one question at a time, a task that needs attention shows the question
\* that clients can answer (recordNeedsAttention).
THEOREM MailAnswerable == ~Overlap /\ MailSpec => []Answerable
<1>1. MailInit => SoleInv
  BY DEF MailInit, SoleInv, Open, Answerable
<1>2. ~Overlap /\ MailTypeOK /\ ReplyInv /\ SoleInv /\ [MailNext]_mailVars => SoleInv'
  BY MailNextSole
<1>3. SoleInv => Answerable
  BY DEF SoleInv
<1>4. CASE Overlap
  BY <1>4
<1>5. CASE ~Overlap
  <2>1. MailTypeOK /\ ReplyInv /\ SoleInv /\ [MailNext]_mailVars => SoleInv'
    BY <1>2, <1>5
  <2> QED BY <1>1, <1>3, <2>1, MailReply, PTL DEF MailSpec
<1> QED BY <1>4, <1>5

------------------------------------------------------------------------------
(* The client that waits for tasks: from the second reading on, what it has  *)
(* not seen of a task that it could read is still on its way to it.          *)

Files == [status : {"running", "needs_attention", "ended"}, revision : Nat, logged : Nat, text : Nat]
Views == [status : {"running", "needs_attention", "ended", "task_not_found", "task_unavailable"},
          revision : Nat, logged : Nat, text : Nat]
Notices == {Empty} \cup {Notice("timer", Nothing)}
             \cup {Notice(why, t) : why \in {"watch", "watch-error"}, t \in Tasks}

WaitType ==
  /\ TypeOK
  /\ seen \in [Tasks -> Views] /\ first \in [Tasks -> Views]
  /\ changes \in [Tasks -> Nat] /\ errors \in [Tasks -> Nat]
  /\ gate \in Notices /\ woken \in Notices

\* While the waiter watches, a task that it could read at first, and whose watcher had no error,
\* has a watcher; and what it has not seen of it since is still to be read, or the watcher has an
\* event, or a notice is in the slot, or its last read failed.  Only watchers that had an error are
\* armed again.
WatchInv ==
  /\ phase = "sleep" => unread = {}
  /\ phase = "initial" => \A t \in Tasks \ unread : seen[t] = first[t]
  /\ \A n \in {gate, woken} : n.why = "watch-error" => errors[n.task] # 0
  /\ phase \in {"snapshot", "reread", "sleep"} =>
       \A t \in Tasks : errors[t] = 0 /\ Legible(first[t]) =>
         /\ t \in armed
         /\ \/ seen[t] = files[t] \/ ~Legible(seen[t])
            \/ t \in stirred \/ gate # Empty \/ t \in unread

LEMMA NoticeFacts ==
  /\ Empty \in Notices /\ Notice("timer", Nothing) \in Notices
  /\ \A t \in Tasks : /\ Notice("watch", t) \in Notices /\ Notice("watch", t) # Empty
                      /\ Notice("watch-error", t) \in Notices /\ Notice("watch-error", t) # Empty
  /\ \A n \in Notices : n.why = "watch-error" => n.task \in Tasks
<1>1. ASSUME NEW n \in Notices, n.why = "watch-error" PROVE n.task \in Tasks
  <2>1. PICK why \in {"watch", "watch-error"}, t \in Tasks : n = Notice(why, t)
    BY <1>1 DEF Notices, Empty, Notice
  <2> QED BY <2>1 DEF Notice
<1>2. \A t \in Tasks, why \in {"watch", "watch-error"} :
        Notice(why, t) \in Notices /\ Notice(why, t).why = why
  BY DEF Notices, Notice
<1>3. Empty.why = "none" /\ Empty \in Notices /\ Notice("timer", Nothing) \in Notices
  BY DEF Empty, Notices, Notice
<1>4. ASSUME NEW t \in Tasks, NEW why \in {"watch", "watch-error"} PROVE Notice(why, t) # Empty
  BY <1>2, <1>3
<1> QED BY <1>1, <1>2, <1>3, <1>4

LEMMA WaitInit == Init => WaitType /\ WatchInv
<1> SUFFICES ASSUME Init PROVE WaitType /\ WatchInv
  OBVIOUS
<1>1. files \in [Tasks -> Files] /\ seen = files /\ first = files
  BY DEF Init, Files
<1>2. TypeOK
  BY <1>1 DEF Init, TypeOK, Files, Reading, Nothing, Empty, Notice
<1>3. seen \in [Tasks -> Views] /\ first \in [Tasks -> Views]
  BY DEF Init, Views
<1>4. gate.why # "watch-error" /\ woken.why # "watch-error"
  BY DEF Init, Empty, Notice
<1> QED BY <1>1, <1>2, <1>3, <1>4, NoticeFacts DEF Init, WaitType, WatchInv

\* Watchers are set up on what could be read, or had an error; other tasks keep theirs.
LEMMA Attached ==
  ASSUME WaitType, NEW ts \in SUBSET Tasks, Attach(ts)
  PROVE  /\ armed' \in SUBSET Tasks /\ stirred' \in SUBSET Tasks /\ stirred' \subseteq armed'
         /\ errors' \in [Tasks -> Nat]
         /\ \A t \in Tasks : errors'[t] = 0 => errors[t] = 0
         /\ \A t \in Tasks \ ts : (t \in armed => t \in armed') /\ (t \in stirred => t \in stirred')
         /\ \A t \in ts : errors'[t] = 0 /\ Legible(seen[t]) => t \in armed'
<1>1. PICK ok \in SUBSET (ts \cap Readable) :
        /\ armed' = (armed \ ts) \cup ok
        /\ stirred' = stirred \ ts
        /\ errors' = [t \in Tasks |-> errors[t]
                                       + (IF t \in (ts \cap Readable) \ ok THEN 1 ELSE 0)]
  BY DEF Attach
<1>2. armed \in SUBSET Tasks /\ stirred \in SUBSET Tasks /\ stirred \subseteq armed
      /\ errors \in [Tasks -> Nat]
  BY DEF WaitType, TypeOK
<1>3. errors' \in [Tasks -> Nat] /\ \A t \in Tasks : errors'[t] = 0 => errors[t] = 0
  BY <1>1, <1>2
<1>4. ASSUME NEW t \in ts, errors'[t] = 0, Legible(seen[t]) PROVE t \in armed'
  <2>1. t \in Readable /\ t \in Tasks
    BY <1>4 DEF Readable
  <2> QED BY <1>1, <1>2, <1>4, <2>1
<1> QED BY <1>1, <1>2, <1>3, <1>4

\* What wakes the waiter, or is left in the slot for it.
LEMMA Notified ==
  ASSUME WaitType, NEW n \in Notices, n # Empty, Notify(n)
  PROVE  /\ phase' \in Reading \cup {"sleep", "done"} /\ unread' \in SUBSET Tasks
         /\ gate' \in Notices /\ woken' \in Notices
         /\ phase' # "sleep"
         /\ phase' = "done" <=> phase = "done"
         /\ \A m \in {gate', woken'} : m \in {gate, woken, n, Empty}
         /\ \/ phase = "sleep" /\ phase' = "reread" /\ unread' = Tasks
            \/ phase' = phase /\ unread' = unread /\ gate' # Empty
  BY NoticeFacts DEF Notify, LooksAgain, WaitType, TypeOK, Reading

LEMMA Slept ==
  ASSUME WaitType, Sleeps
  PROVE  /\ phase' \in {"final", "reread", "sleep"} /\ unread' \in SUBSET Tasks
         /\ gate' \in Notices /\ woken' \in Notices
         /\ phase' = "sleep" => gate = Empty /\ gate' = Empty /\ unread' = unread
         /\ phase' \in {"reread", "final"} => unread' = Tasks
         /\ \A m \in {gate', woken'} : m \in {gate, Empty}
  BY NoticeFacts DEF Sleeps, LooksAgain, WaitType, TypeOK, Reading

\* The tasks and their watchers.
LEMMA WatchersType ==
  ASSUME WaitType, NEW t \in Tasks, Change(t) \/ WatchEvent(t) \/ WatcherFails(t) \/ HoldEnds(t)
  PROVE  WaitType'
<1> USE DEF WaitType, TypeOK
<1>1. CASE Change(t)
  <2>1. PICK file \in Changed(files[t]) : files' = [files EXCEPT ![t] = file]
    BY <1>1 DEF Change
  <2>2. file \in Files
    <3> DEFINE f == files[t]
    <3>1. f \in Files /\ f.revision \in Nat /\ f.logged \in Nat /\ f.text \in Nat
      BY DEF Files
    <3>2. /\ \A s \in {"running", "needs_attention", "ended"}, n \in Nat :
               [f EXCEPT !.status = s, !.revision = n] \in Files
          /\ \A n \in Nat : [f EXCEPT !.logged = n] \in Files /\ [f EXCEPT !.text = n] \in Files
      <4> HIDE DEF f
      <4> QED BY <3>1 DEF Files
    <3>3. file \in {[f EXCEPT !.status = s, !.revision = f.revision + 1] :
                       s \in {"running", "needs_attention", "ended"}}
                    \cup {[f EXCEPT !.logged = f.logged + 1], [f EXCEPT !.text = f.text + 1]}
      BY <2>1 DEF Changed
    <3>4. f.revision + 1 \in Nat /\ f.logged + 1 \in Nat /\ f.text + 1 \in Nat
      BY <3>1
    <3> HIDE DEF f
    <3> QED BY <3>2, <3>3, <3>4
  <2>3. files' \in [Tasks -> Files] /\ changes' \in [Tasks -> Nat]
    BY <1>1, <2>1, <2>2 DEF Change, Files
  <2> QED BY <1>1, <2>3 DEF Change, readVars, flagVars, callVars, Files
<1>2. CASE WatchEvent(t)
  BY <1>2, Notified, NoticeFacts DEF WatchEvent, taskVars, flagVars, callVars
<1>3. CASE WatcherFails(t)
  BY <1>3, Notified, NoticeFacts DEF WatcherFails, taskVars, flagVars, callVars
<1>4. CASE HoldEnds(t)
  BY <1>4 DEF HoldEnds, taskVars, watchVars, flagVars, callVars
<1> QED BY <1>1, <1>2, <1>3, <1>4

LEMMA WaiterType == ASSUME WaitType, Waiter \/ Passes PROVE WaitType'
<1> USE DEF WaitType, TypeOK
<1>1. CASE Passes
  BY <1>1 DEF Passes, taskVars, watchVars, readVars, callVars
<1>2. ASSUME NEW t \in Tasks, Read(t) PROVE WaitType'
  <2>1. PICK file \in {files[t], Unread("task_not_found"), Unread("task_unavailable")} :
          /\ seen' = [seen EXCEPT ![t] = file]
          /\ first' = IF phase = "initial" THEN [first EXCEPT ![t] = file] ELSE first
    BY <1>2 DEF Read
  <2>2. file \in Views
    BY DEF Unread, Views
  <2> QED BY <1>2, <2>1, <2>2 DEF Read, taskVars, watchVars, flagVars, callVars, Reading
<1>3. CASE Returns
  <2>1. \A t : WakeReason(t) \in {Nothing, "task_not_found", "terminal", "attention", "progress", "throws"}
    BY DEF WakeReason
  <2>2. reason' \in {"task_not_found", "terminal", "attention", "progress"}
    BY <1>3, <2>1 DEF Returns, Candidates
  <2> QED BY <1>3, <2>2 DEF Returns, taskVars, watchVars, readVars, flagVars, callVars, Nothing
<1>3a. CASE Raises
  BY <1>3a DEF Raises, taskVars, watchVars, readVars, flagVars, callVars, Nothing
<1>5. Holds => held' \in [Tasks -> {"no", "held", "over"}]
  BY DEF Holds
<1>4. CASE Arm
  BY <1>4, <1>5, Attached DEF Arm, taskVars, callVars, Reading
<1>6. CASE Settles
  BY <1>5, <1>6, Slept DEF Settles, taskVars, watchVars, flagVars, callVars, Reading
<1>7. CASE GoesOn
  <2>1. /\ armed' \in SUBSET Tasks /\ stirred' \in SUBSET Tasks /\ stirred' \subseteq armed'
        /\ again' \in SUBSET Tasks /\ errors' \in [Tasks -> Nat]
    <3>1. woken.why = "watch-error" => {woken.task} \in SUBSET Tasks
      BY NoticeFacts
    <3> QED BY <1>7, <3>1, Attached DEF GoesOn, Rewatches, watchVars
  <2> QED BY <1>5, <1>7, <2>1, Slept DEF GoesOn, taskVars, callVars, Reading
<1>8. CASE TimesOut
  BY <1>8 DEF TimesOut, taskVars, watchVars, readVars, flagVars, callVars, Nothing
<1>9. CASE TimerWakes
  BY <1>9, NoticeFacts DEF TimerWakes, LooksAgain, taskVars, watchVars, flagVars, callVars, Reading
<1> QED BY <1>1, <1>2, <1>3, <1>3a, <1>4, <1>6, <1>7, <1>8, <1>9 DEF Waiter

LEMMA NextType == WaitType /\ [Next]_vars => WaitType'
<1>1. ASSUME WaitType, UNCHANGED vars PROVE WaitType'
  BY <1>1 DEF vars, taskVars, watchVars, readVars, flagVars, callVars, WaitType, TypeOK
<1> QED BY <1>1, WatchersType, WaiterType DEF Next

\* A change stirs the watcher, an event that is delivered wakes the waiter or takes the slot.
LEMMA WatchersWatch ==
  ASSUME WaitType, WatchInv, NEW t \in Tasks, Change(t) \/ WatchEvent(t) \/ WatcherFails(t) \/ HoldEnds(t)
  PROVE  WatchInv'
<1>1. CASE Change(t)
  <2>1. UNCHANGED <<armed, errors, readVars, phase, gate, woken>> /\ stirred' = stirred \cup ({t} \cap armed)
        /\ \A u \in Tasks \ {t} : files'[u] = files[u]
    BY <1>1 DEF Change, WaitType, TypeOK
  <2> QED BY <2>1 DEF WatchInv, readVars
<1>2. CASE WatchEvent(t)
  <2>1. UNCHANGED <<taskVars, armed, errors, first, seen>> /\ stirred' = stirred \ {t}
        /\ Notify(Notice("watch", t))
    BY <1>2 DEF WatchEvent
  <2>2. /\ \/ phase = "sleep" /\ phase' = "reread" /\ unread' = Tasks
           \/ phase' = phase /\ phase # "sleep" /\ unread' = unread /\ gate' # Empty
        /\ \A m \in {gate', woken'} : m.why = "watch-error" => m \in {gate, woken}
    <3>1. Notice("watch", t).why = "watch" /\ Empty.why = "none"
      BY DEF Empty, Notice
    <3> QED BY <2>1, <3>1, Notified, NoticeFacts
  <2>3. \A u \in Tasks \ {t} : u \in stirred => u \in stirred'
    BY <2>1
  <2>4. t \in stirred /\ UNCHANGED <<files, armed, errors, first, seen>>
    BY <1>2 DEF WatchEvent, taskVars
  <2>4a. \A m \in {gate', woken'} : m.why = "watch-error" => errors'[m.task] # 0
    BY <2>2, <2>4 DEF WatchInv
  <2>5. CASE phase = "sleep" /\ phase' = "reread" /\ unread' = Tasks
    BY <2>4, <2>4a, <2>5 DEF WatchInv
  <2>6. CASE phase' = phase /\ phase # "sleep" /\ unread' = unread /\ gate' # Empty
    BY <2>4, <2>4a, <2>6 DEF WatchInv
  <2> QED BY <2>2, <2>5, <2>6
<1>3. CASE WatcherFails(t)
  <2>1. UNCHANGED <<taskVars, first, seen>> /\ stirred' = stirred \ {t} /\ armed' = armed \ {t}
        /\ Notify(Notice("watch-error", t)) /\ errors' = [errors EXCEPT ![t] = @ + 1]
    BY <1>3 DEF WatcherFails
  <2>2. errors'[t] # 0 /\ \A u \in Tasks \ {t} : errors'[u] = errors[u]
    BY <2>1 DEF WaitType
  <2>2a. \A m \in {gate', woken'} : m.why = "watch-error" => errors'[m.task] # 0
    <3>1. Notice("watch-error", t).task = t /\ Empty.why = "none"
      BY DEF Empty, Notice
    <3>2. \A m \in {gate', woken'} : m \in {gate, woken, Notice("watch-error", t), Empty}
      BY <2>1, Notified, NoticeFacts
    <3>3. \A m \in {gate, woken} : m.why = "watch-error" => m.task \in Tasks /\ errors[m.task] # 0
      BY NoticeFacts DEF WaitType, WatchInv
    <3> QED BY <2>2, <3>1, <3>2, <3>3
  <2>3. \/ phase = "sleep" /\ phase' = "reread" /\ unread' = Tasks
        \/ phase' = phase /\ phase # "sleep" /\ unread' = unread /\ gate' # Empty
    BY <2>1, Notified, NoticeFacts
  <2>4. ASSUME NEW u \in Tasks \ {t}
        PROVE  /\ u \in armed => u \in armed'
               /\ u \in stirred => u \in stirred'
               /\ seen'[u] = seen[u] /\ files'[u] = files[u]
    BY <2>1 DEF taskVars
  <2> QED BY <2>1, <2>2, <2>2a, <2>3, <2>4 DEF WatchInv
<1>4. CASE HoldEnds(t)
  BY <1>4 DEF HoldEnds, taskVars, watchVars, WatchInv
<1> QED BY <1>1, <1>2, <1>3, <1>4

\* The waiter sleeps only when it has read everything and nothing is in the slot.
LEMMA WaiterWatches == ASSUME WaitType, WatchInv, Waiter \/ Passes PROVE WatchInv'
<1>0. Empty.why # "watch-error" /\ Notice("timer", Nothing).why # "watch-error"
  BY DEF Empty, Notice
<1>1. CASE Passes
  BY <1>1 DEF Passes, taskVars, watchVars, readVars, WatchInv
<1>2. ASSUME NEW t \in Tasks, Read(t) PROVE WatchInv'
  <2>1. PICK file \in {files[t], Unread("task_not_found"), Unread("task_unavailable")} :
          /\ seen' = [seen EXCEPT ![t] = file]
          /\ first' = IF phase = "initial" THEN [first EXCEPT ![t] = file] ELSE first
    BY <1>2 DEF Read
  <2>2. /\ UNCHANGED <<files, armed, stirred, errors, phase, gate, woken>> /\ unread' = unread \ {t}
        /\ phase # "sleep" /\ seen'[t] = file /\ \A u \in Tasks \ {t} : seen'[u] = seen[u]
        /\ phase # "initial" => first' = first
        /\ phase = "initial" => first'[t] = file /\ \A u \in Tasks \ {t} : first'[u] = first[u]
    BY <1>2, <2>1 DEF Read, taskVars, watchVars, Reading, WaitType
  <2>3. file = files[t] \/ ~Legible(file)
    BY DEF Unread, Legible
  <2> QED BY <2>2, <2>3 DEF WatchInv
<1>3. CASE Returns \/ Raises \/ TimesOut
  BY <1>3 DEF Returns, Raises, TimesOut, WatchInv, watchVars
<1>4. CASE Arm
  <2>1. /\ phase = "initial" /\ phase' = "snapshot" /\ unread = {} /\ unread' = Tasks
        /\ UNCHANGED <<first, seen, gate, woken>> /\ Attach(Tasks)
    BY <1>4 DEF Arm
  <2>2. \A t \in Tasks : errors'[t] = 0 => errors[t] = 0
    BY <2>1, Attached
  <2>3. \A t \in Tasks : errors'[t] = 0 /\ Legible(first[t]) => t \in armed'
    BY <2>1, Attached DEF WatchInv
  <2>4. \A n \in {gate, woken} : n.why = "watch-error" => errors'[n.task] # 0
    BY <2>2, NoticeFacts DEF WaitType, WatchInv
  <2> QED BY <2>1, <2>3, <2>4 DEF WatchInv
<1>5. CASE Settles
  BY <1>0, <1>5, Slept DEF Settles, taskVars, watchVars, WatchInv
<1>6. CASE GoesOn
  <2>1. /\ UNCHANGED <<files, first, seen>> /\ unread = {} /\ phase = "reread"
        /\ Rewatches /\ Sleeps
    BY <1>6 DEF GoesOn, taskVars
  <2>2. \A n \in {gate, woken} : n.why = "watch-error" => n.task \in Tasks /\ errors[n.task] # 0
    BY NoticeFacts DEF WaitType, WatchInv
  <2>3. \A t \in Tasks : errors'[t] = 0 =>
          errors[t] = 0 /\ (t \in armed => t \in armed') /\ (t \in stirred => t \in stirred')
    <3>1. CASE woken.why # "watch-error"
      BY <2>1, <3>1 DEF Rewatches, watchVars
    <3>2. CASE woken.why = "watch-error" /\ woken.task \notin again
      <4>1. Attach({woken.task}) /\ {woken.task} \in SUBSET Tasks
        BY <2>1, <2>2, <3>2 DEF Rewatches
      <4> QED BY <2>2, <3>2, <4>1, Attached
    <3>3. CASE woken.why = "watch-error" /\ woken.task \in again
      BY <2>1, <2>2, <3>3 DEF Rewatches
    <3> QED BY <3>1, <3>2, <3>3
  <2>4. \A n \in {gate', woken'} : n.why = "watch-error" => errors'[n.task] # 0
    BY <1>0, <2>1, <2>2, <2>3, Slept
  <2>5. phase' \in {"final", "reread", "sleep"} /\ (phase' = "sleep" => gate = Empty /\ unread' = {})
        /\ (phase' = "reread" => unread' = Tasks)
    BY <2>1, Slept
  <2> QED BY <2>1, <2>3, <2>4, <2>5 DEF WatchInv
<1>7. CASE TimerWakes
  BY <1>0, <1>7 DEF TimerWakes, LooksAgain, taskVars, watchVars, WatchInv
<1> QED BY <1>1, <1>2, <1>3, <1>4, <1>5, <1>6, <1>7 DEF Waiter

LEMMA NextWatch == WaitType /\ WatchInv /\ [Next]_vars => WatchInv'
<1>1. ASSUME WatchInv, UNCHANGED vars PROVE WatchInv'
  BY <1>1 DEF vars, taskVars, watchVars, readVars, flagVars, WatchInv
<1> QED BY <1>1, WatchersWatch, WaiterWatches DEF Next

\* Tasks, waiter, watchers and gate keep their shape, whatever the tasks, timers and watchers do
\* between two awaits of waitForAnyTaskProgress (task-store.mjs:1067-1237).
THEOREM WaitTyped == Spec => []TypeOK
<1>1. WaitType => TypeOK
  BY DEF WaitType
<1> QED BY <1>1, WaitInit, NextType, PTL DEF Spec

\* No change of a task is slept through, once it could be read, while its watcher works and unless
\* the last read of it failed: waitForAnyTaskProgress reads again after it has armed its watchers,
\* and createNotifyGate keeps what comes while nobody waits in a slot that is looked at before the
\* sleep, whatever reads and watchers of other tasks do (task-store.mjs:623-654, 914-950, 1139-1196).
THEOREM WaitNothingLost == Spec => []NothingSleptThrough
<1>1. WaitType /\ WatchInv => NothingSleptThrough
  BY DEF WaitType, TypeOK, WatchInv, NothingSleptThrough
<1> QED BY <1>1, WaitInit, NextType, NextWatch, PTL DEF Spec
=============================================================================
