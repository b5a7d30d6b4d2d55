----------------------- MODULE RunCoordinationProofs -----------------------
(***************************************************************************)
(* Proofs about RunCoordination for any number of servers and lanes and    *)
(* whatever fails: types, one delegation per lane, and that what a run     *)
(* says of its tasks is true.                                              *)
(***************************************************************************)
EXTENDS RunCoordination, TLAPS

\* The server that was told it created the submission, until its dispatch is
\* over.
Creates(m) == m.pc \in {"create", "plan", "delegate"} \/ (m.pc = "open" /\ m.op = "submit")

\* There is one creator, after the submission is stored; no lane is delegated
\* before it dispatches, nor while it is still to do.
DelegationInv ==
  /\ \A s \in Servers : Creates(server[s]) => store /\ server[s].record = "full"
  /\ \A s, r \in Servers : Creates(server[s]) /\ Creates(server[r]) => s = r
  /\ ~store => \A l \in Lanes : delegated[l] = 0
  /\ \A s \in Servers :
       Creates(server[s]) /\ server[s].pc # "delegate" => \A l \in Lanes : delegated[l] = 0
  /\ \A s \in Servers :
       server[s].pc = "delegate" => \A l \in server[s].todo : delegated[l] = 0

\* Only lanes that have ended are settled, and only by a settling server.
EndedMemory(m) ==
  /\ m.pc = "settle" => \A l \in m.todo \cup m.ending : m.lane[l].status \in Outcomes
  /\ m.pc # "settle" => m.ending = {}
EndedInv == \A s \in Servers : EndedMemory(server[s])

IInv == TypeOK /\ DelegationInv /\ EndedInv /\ OneDelegation

ServerPCs == Fallible \cup {"idle", "delegate", "lanes"}

------------------------------------------------------------------------------
(* What all steps of a server have in common *)

LEMMA BecomesType ==
  ASSUME server \in [Servers -> Memory], NEW s \in Servers, NEW m \in Memory, Becomes(s, m)
  PROVE  /\ server' \in [Servers -> Memory]
         /\ server'[s] = m
         /\ \A r \in Servers : r # s => server'[r] = server[r]
  BY DEF Becomes

\* A step after which the server is no creator keeps the count.
LEMMA QuietStep ==
  ASSUME TypeOK, DelegationInv, OneDelegation, NEW s \in Servers, NEW m \in Memory,
         Becomes(s, m), ~Creates(m), store => store', delegated' = delegated
  PROVE  DelegationInv' /\ OneDelegation'
<1>1. /\ server'[s] = m
      /\ \A r \in Servers : r # s => server'[r] = server[r]
  BY BecomesType DEF TypeOK
<1>2. \A r \in Servers : Creates(server'[r]) => r # s /\ Creates(server[r])
  BY <1>1
<1>3. server'[s].pc # "delegate"
  BY <1>1 DEF Creates
<1> QED BY <1>1, <1>2, <1>3 DEF DelegationInv, OneDelegation

LEMMA EndedStep ==
  ASSUME TypeOK, EndedInv, NEW s \in Servers, NEW m \in Memory, Becomes(s, m), EndedMemory(m)
  PROVE  EndedInv'
  BY BecomesType DEF TypeOK, EndedInv, EndedMemory

\* The memories a server can be left with.
LEMMA NoLanesType == NoLanes \in [Lanes -> LaneStates] /\ Undispatched \in LaneStates
                     /\ Running \in LaneStates
  BY DEF NoLanes, Undispatched, Running, LaneStates, Outcomes

LEMMA RestType ==
  ASSUME NEW m \in Memory
  PROVE  /\ Rest(m) \in Memory /\ Rest(m).pc = "idle" /\ ~Creates(Rest(m))
         /\ Rest(m).known = m.known /\ Rest(m).record = m.record /\ EndedMemory(Rest(m))
  BY NoLanesType DEF Rest, Memory, Fallible, Submitting, Creates, EndedMemory

LEMMA FreshType == Fresh \in Memory /\ Fresh.pc = "idle" /\ ~Creates(Fresh) /\ ~Fresh.known
                    /\ EndedMemory(Fresh)
  BY NoLanesType DEF Fresh, Memory, Fallible, Submitting, Creates, EndedMemory

LEMMA UnresolvedType ==
  ASSUME NEW lane \in LaneStates, NEW code \in {"unsupported", "cancel_unconfirmed", "other"}
  PROVE  Unresolved(lane, code) \in LaneStates
  BY DEF Unresolved, LaneStates

------------------------------------------------------------------------------
(* The type invariant *)

LEMMA InitInv == Init => IInv
<1> SUFFICES ASSUME Init PROVE IInv
  OBVIOUS
<1>1. TypeOK
  <2>1. \A s \in Servers : server[s] = Fresh
    BY DEF Init
  <2>2. server \in [Servers -> Memory] /\ \A s \in Servers : ~server[s].known
    BY <2>1, FreshType DEF Init
  <2>3. crashes \in 0..MaxCrashes
    BY RunAssumption DEF Init
  <2> QED BY <2>2, <2>3 DEF Init, TypeOK, TaskViews
<1>2. DelegationInv /\ EndedInv
  <2>1. \A s \in Servers : server[s] = Fresh
    BY DEF Init
  <2> QED BY <2>1, FreshType DEF Init, DelegationInv, EndedInv
<1>3. OneDelegation
  BY DEF Init, OneDelegation
<1> QED BY <1>1, <1>2, <1>3 DEF IInv

\* The part of TypeOK that speaks of the servers.
ServersOK ==
  /\ server \in [Servers -> Memory]
  /\ \A s \in Servers : server[s].known => server[s].record = "full"

LEMMA ServersStep ==
  ASSUME TypeOK, NEW s \in Servers, NEW m \in Memory, Becomes(s, m),
         m.known => m.record = "full"
  PROVE  ServersOK'
  BY BecomesType DEF TypeOK, ServersOK

\* Where a call ends, goes on, or never began.
LEMMA EndsStep ==
  ASSUME TypeOK, EndedInv, DelegationInv, OneDelegation, NEW s \in Servers, Ends(s),
         store => store', delegated' = delegated
  PROVE  ServersOK' /\ EndedInv' /\ DelegationInv' /\ OneDelegation'
<1>1. /\ Rest(server[s]) \in Memory /\ Rest(server[s]).pc = "idle"
      /\ ~Creates(Rest(server[s])) /\ Becomes(s, Rest(server[s]))
      /\ Rest(server[s]).known => Rest(server[s]).record = "full"
      /\ EndedMemory(Rest(server[s]))
  BY RestType DEF TypeOK, Ends
<1>2. ServersOK'
  BY <1>1, ServersStep
<1>3. EndedInv'
  BY <1>1, EndedStep
<1> QED BY <1>1, <1>2, <1>3, QuietStep

\* A server that is no creator and settles nothing goes on.
LEMMA GoesOn ==
  ASSUME TypeOK, EndedInv, DelegationInv, OneDelegation, NEW s \in Servers, NEW m \in Memory,
         Becomes(s, m), m.known => m.record = "full", ~Creates(m), EndedMemory(m),
         store => store', delegated' = delegated
  PROVE  ServersOK' /\ EndedInv' /\ DelegationInv' /\ OneDelegation'
  BY ServersStep, EndedStep, QuietStep

\* The rest of TypeOK.
FilesOK ==
  /\ store \in BOOLEAN
  /\ plan \in [saved : BOOLEAN, dispatched : SUBSET Lanes]
  /\ journal \in [made : BOOLEAN, opened : BOOLEAN, started : SUBSET Lanes,
                  outcome : [Lanes -> Outcomes \cup {"none"}], ended : Outcomes \cup {"none"}]
  /\ task \in [Lanes -> TaskViews]
  /\ crashes \in 0..MaxCrashes
  /\ delegated \in [Lanes -> Nat]
  /\ answered \in BOOLEAN

LEMMA TypeParts == TypeOK <=> ServersOK /\ FilesOK
  BY DEF TypeOK, ServersOK, FilesOK

\* What every step has to establish.
StepOK == FilesOK' /\ ServersOK' /\ EndedInv' /\ DelegationInv' /\ OneDelegation'

LEMMA ServerFacts ==
  ASSUME IInv, NEW s \in Servers
  PROVE  /\ server[s] \in Memory
         /\ server[s].known => server[s].record = "full"
         /\ server[s].pc # "settle" => server[s].ending = {}
         /\ server[s].pc = "settle" => \A l \in server[s].todo \cup server[s].ending :
                                         server[s].lane[l].status \in Outcomes
         /\ Creates(server[s]) => server[s].record = "full" /\ store
  BY DEF IInv, TypeOK, EndedInv, EndedMemory, DelegationInv

\* A step that only moves on to a state in which the server creates nothing.
LEMMA MoveOn ==
  ASSUME IInv, NEW s \in Servers, NEW pc \in ServerPCs,
         server[s].pc # "settle" \/ server[s].ending = {}, pc # "settle",
         pc \notin {"create", "plan", "delegate"}, pc = "open" => server[s].op # "submit",
         Goto(s, pc), store => store', delegated' = delegated
  PROVE  ServersOK' /\ EndedInv' /\ DelegationInv' /\ OneDelegation'
<1> DEFINE m == [server[s] EXCEPT !.pc = pc]
<1>1. server[s] \in Memory /\ (server[s].known => server[s].record = "full") /\ server[s].ending = {}
  BY ServerFacts
<1>2. /\ m \in Memory /\ m.pc = pc /\ (m.known => m.record = "full") /\ m.ending = {}
      /\ m.op = server[s].op
  BY <1>1 DEF Memory, ServerPCs
<1>3. ~Creates(m) /\ EndedMemory(m)
  BY <1>2 DEF Creates, EndedMemory
<1>4. Becomes(s, m)
  BY DEF Goto
<1> HIDE DEF m
<1> QED BY <1>2, <1>3, <1>4, GoesOn DEF IInv

\* A step of the creator before its dispatch.
LEMMA CreatorStep ==
  ASSUME IInv, NEW s \in Servers, NEW m \in Memory, Creates(server[s]),
         server[s].pc # "delegate", Becomes(s, m), m.record = "full", EndedMemory(m),
         store' = store, delegated' = delegated
  PROVE  ServersOK' /\ EndedInv' /\ DelegationInv' /\ OneDelegation'
<1>1. /\ server'[s] = m
      /\ \A r \in Servers : r # s => server'[r] = server[r]
  BY BecomesType DEF IInv, TypeOK
<1>2. /\ \A l \in Lanes : delegated[l] = 0
      /\ \A r \in Servers : r # s => ~Creates(server[r])
      /\ store
  BY DEF IInv, DelegationInv
<1>3. m.todo \subseteq Lanes
  BY DEF Memory
<1>4. \A r \in Servers : r # s => server[r].pc # "delegate"
  BY <1>2 DEF Creates
<1>5. DelegationInv' /\ OneDelegation'
  BY <1>1, <1>2, <1>3, <1>4 DEF DelegationInv, OneDelegation
<1> QED BY <1>5, ServersStep, EndedStep DEF IInv

------------------------------------------------------------------------------
(* The calls until the dispatch *)

LEMMA BeginStep ==
  ASSUME IInv, NEW s \in Servers, NEW op \in {"submit", "inspect", "resume", "cancel"},
         NEW sel \in SUBSET Lanes, Begin(s, op, sel)
  PROVE  StepOK
<1> DEFINE m == [server[s] EXCEPT !.pc = "recover", !.op = op, !.sel = sel]
<1>1. server[s] \in Memory /\ (server[s].known => server[s].record = "full") /\ server[s].ending = {}
  BY ServerFacts DEF Begin, At
<1>2. m \in Memory /\ m.pc = "recover" /\ (m.known => m.record = "full") /\ m.ending = {}
  BY <1>1 DEF Memory, Fallible, Submitting
<1>3. ~Creates(m) /\ EndedMemory(m)
  BY <1>2 DEF Creates, EndedMemory
<1>4. Becomes(s, m)
  BY DEF Begin
<1> HIDE DEF m
<1> QED BY <1>2, <1>3, <1>4, GoesOn DEF IInv, Begin, StepOK, FilesOK, TypeOK

LEMMA RecoverStep ==
  ASSUME IInv, NEW s \in Servers, Recover(s)
  PROVE  StepOK
<1>1. CASE Ends(s)
  BY <1>1, EndsStep DEF IInv, Recover, StepOK, FilesOK, TypeOK
<1>2. CASE ~Ends(s)
  <2>1. PICK m \in Memory : /\ Becomes(s, m) /\ m.pc \in {"store", "bind"} /\ m.ending = {}
                            /\ m.known => m.record = "full"
    <3> DEFINE submits == server[s].op = "submit"
               next == [server[s] EXCEPT !.pc = IF submits THEN "store" ELSE "bind"]
    <3>0. /\ server[s] \in Memory /\ (server[s].known => server[s].record = "full")
          /\ server[s].ending = {}
      BY ServerFacts DEF Recover, At
    <3>1. /\ next \in Memory /\ next.pc \in {"store", "bind"} /\ next.ending = {}
          /\ next.known => next.record = "full"
      BY <3>0 DEF Memory, Fallible
    <3>2. CASE server[s].record # "none"
      <4>1. Becomes(s, next) \/ Becomes(s, [next EXCEPT !.sel = {}])
        BY <1>2, <3>2 DEF Recover
      <4> HIDE DEF next
      <4>2. /\ [next EXCEPT !.sel = {}] \in Memory
            /\ [next EXCEPT !.sel = {}].pc = next.pc
            /\ [next EXCEPT !.sel = {}].known = next.known
            /\ [next EXCEPT !.sel = {}].record = next.record
            /\ [next EXCEPT !.sel = {}].ending = next.ending
        BY <3>1 DEF Memory
      <4> QED BY <3>1, <4>1, <4>2
    <3>3. CASE server[s].record = "none"
      <4>1. ~server[s].known
        BY <3>3 DEF IInv, TypeOK
      <4>2. PICK r \in {"none", "bare", "full"} : Becomes(s, [next EXCEPT !.record = r])
        BY <1>2, <3>3 DEF Recover
      <4>3. next.known = server[s].known
        BY <3>0 DEF Memory
      <4> HIDE DEF next
      <4>4. /\ [next EXCEPT !.record = r] \in Memory
            /\ [next EXCEPT !.record = r].pc = next.pc
            /\ [next EXCEPT !.record = r].known = next.known
            /\ [next EXCEPT !.record = r].ending = next.ending
        BY <3>1 DEF Memory
      <4> QED BY <3>1, <4>1, <4>2, <4>3, <4>4
    <3> QED BY <3>2, <3>3
  <2>2. ~Creates(m) /\ EndedMemory(m)
    BY <2>1 DEF Creates, EndedMemory
  <2> QED BY <2>1, <2>2, GoesOn DEF IInv, Recover, StepOK, FilesOK, TypeOK
<1> QED BY <1>1, <1>2

LEMMA SubmitStoreStep ==
  ASSUME IInv, NEW s \in Servers, SubmitStore(s)
  PROVE  StepOK
<1> DEFINE m == [server[s] EXCEPT !.record = "full",
                  !.pc = IF store THEN "bind" ELSE "create",
                  !.op = IF ~store THEN "submit"
                         ELSE IF server[s].record = "full" THEN "refresh" ELSE "repeat"]
<1>1. server[s] \in Memory /\ server[s].ending = {} /\ store'
  BY ServerFacts DEF SubmitStore, At
<1>2. /\ m \in Memory /\ m.pc = (IF store THEN "bind" ELSE "create") /\ m.record = "full"
      /\ m.ending = {}
  BY <1>1 DEF Memory, Fallible, Submitting
<1>3. EndedMemory(m)
  BY <1>2 DEF EndedMemory
<1>4. Becomes(s, m) /\ delegated' = delegated
  BY DEF SubmitStore
<1> HIDE DEF m
<1>5. CASE store
  BY <1>1, <1>2, <1>3, <1>4, <1>5, GoesOn DEF Creates, IInv, SubmitStore, StepOK, FilesOK, TypeOK
<1>6. CASE ~store
  <2>1. /\ server'[s] = m
        /\ \A r \in Servers : r # s => server'[r] = server[r]
    BY <1>2, <1>4, BecomesType DEF IInv, TypeOK
  <2>2. /\ \A l \in Lanes : delegated[l] = 0
        /\ \A r \in Servers : ~Creates(server[r])
    BY <1>6 DEF IInv, DelegationInv
  <2>3. \A r \in Servers : r # s => server[r].pc # "delegate"
    BY <2>2 DEF Creates
  <2>4. DelegationInv' /\ OneDelegation'
    BY <1>1, <1>2, <1>4, <1>6, <2>1, <2>2, <2>3 DEF DelegationInv, OneDelegation
  <2>5. ServersOK' /\ EndedInv'
    BY <1>2, <1>3, <1>4, ServersStep, EndedStep DEF IInv
  <2> QED BY <2>4, <2>5 DEF IInv, SubmitStore, StepOK, FilesOK, TypeOK
<1> QED BY <1>5, <1>6

LEMMA CreateJournalStep ==
  ASSUME IInv, NEW s \in Servers, CreateJournal(s)
  PROVE  StepOK
<1>1. FilesOK'
  BY DEF IInv, CreateJournal, FilesOK, TypeOK
<1>2. CASE journal.made
  BY <1>1, <1>2, EndsStep DEF IInv, CreateJournal, StepOK
<1>3. CASE ~journal.made
  <2> DEFINE m == [server[s] EXCEPT !.pc = "open"]
  <2>1. /\ server[s] \in Memory /\ server[s].ending = {} /\ Creates(server[s])
        /\ server[s].record = "full" /\ server[s].pc # "delegate"
    BY ServerFacts DEF CreateJournal, At, Creates
  <2>2. m \in Memory /\ m.pc = "open" /\ m.record = "full" /\ m.ending = {}
    BY <2>1 DEF Memory, Fallible
  <2>3. EndedMemory(m) /\ Becomes(s, m) /\ store' = store /\ delegated' = delegated
    BY <1>3, <2>2 DEF EndedMemory, CreateJournal
  <2> HIDE DEF m
  <2> QED BY <1>1, <2>1, <2>2, <2>3, CreatorStep DEF StepOK
<1> QED BY <1>2, <1>3

LEMMA BindJournalStep ==
  ASSUME IInv, NEW s \in Servers, BindJournal(s)
  PROVE  StepOK
<1> DEFINE pc == CASE server[s].op = "repeat" -> "open"
                   [] server[s].op = "cancel" -> "cancel"
                   [] OTHER -> "resume"
<1>1. FilesOK'
  BY DEF IInv, BindJournal, FilesOK, TypeOK
<1>2. /\ pc \in {"open", "cancel", "resume"} /\ (pc = "open" => server[s].op = "repeat")
  OBVIOUS
<1>3. Goto(s, pc) /\ store' = store /\ delegated' = delegated /\ server[s].pc # "settle"
  BY DEF BindJournal, Goto, At
<1> HIDE DEF pc
<1> QED BY <1>1, <1>2, <1>3, MoveOn DEF StepOK, ServerPCs, Fallible

LEMMA OpenJournalStep ==
  ASSUME IInv, NEW s \in Servers, OpenJournal(s)
  PROVE  StepOK
<1>1. FilesOK'
  BY DEF IInv, OpenJournal, FilesOK, TypeOK
<1>2. store' = store /\ delegated' = delegated /\ server[s].pc = "open"
  BY DEF OpenJournal, At
<1>3. CASE server[s].op = "submit"
  <2> DEFINE m == [server[s] EXCEPT !.pc = "plan"]
  <2>1. /\ server[s] \in Memory /\ server[s].ending = {} /\ Creates(server[s])
        /\ server[s].record = "full" /\ server[s].pc # "delegate"
    BY <1>2, <1>3, ServerFacts DEF Creates
  <2>2. m \in Memory /\ m.pc = "plan" /\ m.record = "full" /\ m.ending = {}
    BY <2>1 DEF Memory, Fallible
  <2>3. EndedMemory(m) /\ Becomes(s, m)
    BY <1>3, <2>2 DEF EndedMemory, OpenJournal, Goto
  <2> HIDE DEF m
  <2> QED BY <1>1, <1>2, <2>1, <2>2, <2>3, CreatorStep DEF StepOK
<1>4. CASE server[s].op # "submit"
  BY <1>1, <1>2, <1>4, MoveOn DEF OpenJournal, StepOK, ServerPCs, Fallible
<1> QED BY <1>3, <1>4

LEMMA EndingSteps ==
  ASSUME IInv, NEW s \in Servers, Answer(s) \/ CallFails(s)
  PROVE  StepOK
<1>1. Ends(s) /\ store' = store /\ delegated' = delegated
  BY DEF Answer, CallFails
<1>2. FilesOK'
  BY DEF IInv, Answer, CallFails, FilesOK, TypeOK
<1> QED BY <1>1, <1>2, EndsStep DEF IInv, StepOK

LEMMA CrashStep ==
  ASSUME IInv, NEW s \in Servers, Crash(s)
  PROVE  StepOK
<1>1. FilesOK'
  BY RunAssumption DEF IInv, Crash, FilesOK, TypeOK
<1> QED BY <1>1, FreshType, GoesOn DEF IInv, Crash, StepOK

------------------------------------------------------------------------------
(* The dispatch *)

LEMMA PlanStep ==
  ASSUME IInv, NEW s \in Servers, Plan(s)
  PROVE  StepOK
<1>1. FilesOK' /\ store' = store /\ delegated' = delegated
  BY DEF IInv, Plan, FilesOK, TypeOK
<1>2. CASE Ends(s)
  BY <1>1, <1>2, EndsStep DEF IInv, StepOK
<1>3. CASE ~Ends(s)
  <2> DEFINE m == [server[s] EXCEPT !.pc = "delegate", !.todo = Lanes,
                                    !.known = TRUE, !.lane = NoLanes]
  <2>1. /\ server[s] \in Memory /\ server[s].ending = {} /\ Creates(server[s])
        /\ server[s].record = "full" /\ server[s].pc # "delegate"
    BY ServerFacts DEF Plan, At, Creates
  <2>2. m \in Memory /\ m.pc = "delegate" /\ m.record = "full" /\ m.ending = {}
    BY <2>1, NoLanesType DEF Memory
  <2>3. EndedMemory(m) /\ Becomes(s, m)
    BY <1>3, <2>2 DEF EndedMemory, Plan
  <2> HIDE DEF m
  <2> QED BY <1>1, <2>1, <2>2, <2>3, CreatorStep DEF StepOK
<1> QED BY <1>2, <1>3

LEMMA DelegateStep ==
  ASSUME IInv, NEW s \in Servers, NEW l \in Lanes, Delegate(s, l)
  PROVE  StepOK
<1>1. PICK lane \in {Running, Undispatched} :
        Becomes(s, [server[s] EXCEPT !.todo = @ \ {l}, !.lane[l] = lane])
  BY DEF Delegate
<1> DEFINE m == [server[s] EXCEPT !.todo = @ \ {l}, !.lane[l] = lane]
<1>2. /\ server[s] \in Memory /\ server[s].pc = "delegate" /\ server[s].ending = {}
      /\ Creates(server[s]) /\ server[s].record = "full" /\ store
      /\ lane \in LaneStates
  BY ServerFacts, NoLanesType DEF Delegate, At, Creates
<1>3. /\ m \in Memory /\ m.pc = "delegate" /\ m.record = "full" /\ m.ending = {}
      /\ m.todo = server[s].todo \ {l}
  BY <1>2 DEF Memory
<1>4. EndedMemory(m)
  BY <1>3 DEF EndedMemory
<1> HIDE DEF m
<1>5. /\ delegated' = [delegated EXCEPT ![l] = @ + 1] /\ store' = store
      /\ l \in server[s].todo /\ delegated \in [Lanes -> Nat]
  BY DEF Delegate, IInv, TypeOK
<1>6. FilesOK'
  <2>1. delegated' \in [Lanes -> Nat]
    BY <1>5
  <2>2. task' \in [Lanes -> TaskViews]
    <3>1. PICK view \in TaskViews : task' = [task EXCEPT ![l] = view]
      <4>1. task[l] \in TaskViews
        BY DEF IInv, TypeOK
      <4> QED BY <4>1 DEF Delegate, TaskViews, Outcomes
    <3> QED BY <3>1 DEF IInv, TypeOK
  <2> QED BY <2>1, <2>2 DEF Delegate, IInv, TypeOK, FilesOK
<1>7. /\ server'[s] = m
      /\ \A r \in Servers : r # s => server'[r] = server[r] /\ ~Creates(server[r])
  BY <1>1, <1>2, <1>3, BecomesType DEF m, IInv, TypeOK, DelegationInv
<1>8. delegated[l] = 0
  BY <1>2, <1>5 DEF IInv, DelegationInv
<1>9. DelegationInv'
  <2>1. \A r \in Servers : r # s => server[r].pc # "delegate"
    BY <1>7 DEF Creates
  <2>2. \A k \in m.todo : delegated'[k] = 0
    BY <1>2, <1>3, <1>5 DEF IInv, DelegationInv, Memory
  <2> QED BY <1>2, <1>3, <1>5, <1>7, <2>1, <2>2 DEF DelegationInv, Creates
<1>10. OneDelegation'
  BY <1>5, <1>8 DEF IInv, OneDelegation
<1>11. ServersOK' /\ EndedInv'
  BY <1>1, <1>3, <1>4, ServersStep, EndedStep DEF m, IInv
<1> QED BY <1>6, <1>9, <1>10, <1>11 DEF StepOK

LEMMA FactsStep ==
  ASSUME IInv, NEW s \in Servers, Facts(s)
  PROVE  StepOK
<1> DEFINE accepted == {l \in Lanes : server[s].lane[l].dispatched}
           m == [server[s] EXCEPT !.pc = "children", !.todo = accepted]
<1>1. /\ server[s] \in Memory /\ server[s].ending = {} /\ accepted \subseteq Lanes
      /\ server[s].known => server[s].record = "full"
  BY ServerFacts DEF Facts, At
<1>2. FilesOK' /\ store' = store /\ delegated' = delegated /\ Becomes(s, m)
  BY <1>1 DEF IInv, Facts, FilesOK, TypeOK
<1> HIDE DEF accepted
<1>3. /\ m \in Memory /\ m.pc = "children" /\ m.ending = {}
      /\ m.known => m.record = "full"
  BY <1>1 DEF Memory, Fallible
<1>4. ~Creates(m) /\ EndedMemory(m)
  BY <1>3 DEF Creates, EndedMemory
<1> HIDE DEF m
<1> QED BY <1>2, <1>3, <1>4, GoesOn DEF IInv, StepOK

------------------------------------------------------------------------------
(* Inspecting and cancelling lanes *)

\* A step to or within the work on the lanes.
LEMMA LanesStep ==
  ASSUME IInv, NEW s \in Servers, NEW m \in Memory, Becomes(s, m), m.pc = "lanes",
         m.ending = server[s].ending, m.known = server[s].known, m.record = server[s].record,
         server[s].pc # "settle", store' = store, delegated' = delegated, FilesOK'
  PROVE  StepOK
<1>1. m.ending = {} /\ (m.known => m.record = "full")
  BY ServerFacts
<1>2. ~Creates(m) /\ EndedMemory(m)
  BY <1>1 DEF Creates, EndedMemory
<1> QED BY <1>1, <1>2, GoesOn DEF IInv, StepOK

LEMMA ResumeCancelStep ==
  ASSUME IInv, NEW s \in Servers, Resume(s) \/ Cancel(s)
  PROVE  StepOK
<1>1. FilesOK' /\ store' = store /\ delegated' = delegated /\ server[s].pc # "settle"
  BY DEF IInv, Resume, Cancel, FilesOK, TypeOK, At
<1>2. CASE Ends(s)
  BY <1>1, <1>2, EndsStep DEF IInv, StepOK
<1>3. ASSUME NEW todo \in SUBSET Lanes, NEW kill \in SUBSET Lanes,
             NEW m, Becomes(s, m),
             \/ m = [server[s] EXCEPT !.pc = "lanes", !.todo = todo]
             \/ m = [server[s] EXCEPT !.pc = "lanes", !.kill = kill]
             \/ m = [server[s] EXCEPT !.pc = "lanes", !.kill = kill, !.todo = todo]
      PROVE  StepOK
  <2>1. server[s] \in Memory
    BY ServerFacts
  <2>2. /\ m \in Memory /\ m.pc = "lanes" /\ m.ending = server[s].ending
        /\ m.known = server[s].known /\ m.record = server[s].record
    BY <1>3, <2>1 DEF Memory
  <2> QED BY <1>1, <1>3, <2>2, LanesStep
<1>4. CASE ~Ends(s)
  <2>1. server[s].sel \in SUBSET Lanes /\ plan.dispatched \in SUBSET Lanes
    BY ServerFacts DEF IInv, TypeOK, Memory
  <2>2. CASE Resume(s)
    <3>1. \/ Becomes(s, [server[s] EXCEPT !.pc = "lanes", !.todo = server[s].sel])
          \/ Becomes(s, [server[s] EXCEPT !.pc = "lanes", !.todo = plan.dispatched])
      BY <1>4, <2>2 DEF Resume
    <3> QED BY <1>3, <2>1, <3>1
  <2>3. CASE Cancel(s)
    <3>1. \/ Becomes(s, [server[s] EXCEPT !.pc = "lanes", !.kill = server[s].sel])
          \/ Becomes(s, [server[s] EXCEPT !.pc = "lanes",
                !.kill = server[s].sel \cap plan.dispatched,
                !.todo = plan.dispatched \ server[s].sel])
      BY <1>4, <2>3 DEF Cancel
    <3> QED BY <1>3, <2>1, <3>1
  <2> QED BY <2>2, <2>3
<1> QED BY <1>2, <1>4

LEMMA InspectedType ==
  ASSUME NEW l \in Lanes, NEW lane \in LaneStates, NEW throws \in BOOLEAN,
         task[l] \in TaskViews, ~throws => task[l] # "none"
  PROVE  /\ Inspected(l, lane, throws) \in LaneStates
         /\ Reconstructed(IF throws THEN "unresolved" ELSE Seen(l)) \in LaneStates
<1>1. /\ Unresolved(lane, "other") \in LaneStates
      /\ Unresolved(lane, "unsupported") \in LaneStates
  BY UnresolvedType
<1>2. ~throws => Seen(l) \in {"running", "lost"} \cup Outcomes
  BY DEF Seen, TaskViews
<1>3. ~throws => [lane EXCEPT !.status = Seen(l)] \in LaneStates
  BY <1>2 DEF LaneStates
<1>4. lane.status \in {"running", "lost", "unresolved"} \cup Outcomes /\ lane.dispatched \in BOOLEAN
  BY DEF LaneStates
<1>5. Inspected(l, lane, throws) \in LaneStates
  <2>1. CASE ~lane.dispatched
    BY <2>1 DEF Inspected
  <2>2. CASE lane.dispatched /\ lane.status = "cancelled"
    BY <2>2, <1>1 DEF Inspected
  <2>3. CASE lane.dispatched /\ lane.status \in (Settled \cup {"unresolved"}) \ {"cancelled"}
    BY <2>3 DEF Inspected, Settled, Outcomes
  <2>4. CASE lane.dispatched /\ lane.status = "running"
    BY <2>4, <1>1, <1>3 DEF Inspected, Settled, Outcomes
  <2> QED BY <1>4, <2>1, <2>2, <2>3, <2>4 DEF Settled
<1>6. Reconstructed(IF throws THEN "unresolved" ELSE Seen(l)) \in LaneStates
  BY <1>2, NoLanesType DEF Reconstructed, LaneStates
<1> QED BY <1>5, <1>6

LEMMA InspectLaneStep ==
  ASSUME IInv, NEW s \in Servers, NEW l \in Lanes, InspectLane(s, l)
  PROVE  StepOK
<1>1. PICK fails \in BOOLEAN :
        LET throws == fails \/ task[l] = "none"
            lane == IF server[s].known THEN Inspected(l, server[s].lane[l], throws)
                    ELSE Reconstructed(IF throws THEN "unresolved" ELSE Seen(l))
        IN Becomes(s, [server[s] EXCEPT !.todo = @ \ {l}, !.lane[l] = lane,
             !.kill = IF server[s].known /\ lane.code = "unsupported" THEN @ \cup {l} ELSE @])
  BY RunAssumption DEF InspectLane
<1> DEFINE throws == fails \/ task[l] = "none"
           lane == IF server[s].known THEN Inspected(l, server[s].lane[l], throws)
                   ELSE Reconstructed(IF throws THEN "unresolved" ELSE Seen(l))
           unsupported == server[s].known /\ lane.code = "unsupported"
           m == [server[s] EXCEPT !.todo = @ \ {l}, !.lane[l] = lane,
                                  !.kill = IF unsupported THEN @ \cup {l} ELSE @]
<1>2. server[s] \in Memory /\ server[s].lane[l] \in LaneStates /\ task[l] \in TaskViews
  BY ServerFacts DEF IInv, TypeOK, Memory
<1>3. lane \in LaneStates
  BY <1>2, InspectedType
<1>4. Becomes(s, m) /\ server[s].pc = "lanes" /\ store' = store /\ delegated' = delegated
  BY <1>1 DEF InspectLane, At
<1>5. FilesOK'
  BY DEF InspectLane, IInv, TypeOK, FilesOK
<1> HIDE DEF lane, unsupported
<1>6. /\ m \in Memory /\ m.pc = "lanes" /\ m.ending = server[s].ending
      /\ m.known = server[s].known /\ m.record = server[s].record
  BY <1>2, <1>3, <1>4 DEF Memory
<1> HIDE DEF m
<1> QED BY <1>4, <1>5, <1>6, LanesStep

LEMMA CancelLaneStep ==
  ASSUME IInv, NEW s \in Servers, NEW l \in Lanes, CancelLaneQuietly(s, l) \/ CancelLane(s, l)
  PROVE  StepOK
<1>1. server[s] \in Memory /\ server[s].lane[l] \in LaneStates /\ task[l] \in TaskViews
  BY ServerFacts DEF IInv, TypeOK, Memory
<1>2. PICK lane \in LaneStates :
        Becomes(s, [server[s] EXCEPT !.kill = @ \ {l}, !.lane[l] = lane])
  <2>1. CASE CancelLaneQuietly(s, l)
    <3>1. [server[s].lane[l] EXCEPT !.status = "cancelled", !.confirmed = TRUE] \in LaneStates
      BY <1>1 DEF LaneStates, Outcomes
    <3> QED BY <2>1, <3>1, <1>1 DEF CancelLaneQuietly
  <2>2. CASE CancelLane(s, l)
    <3>1. Confirmed(server[s].lane[l]) \in LaneStates
      BY <1>1 DEF Confirmed, LaneStates, Outcomes
    <3>2. Unconfirmed(server[s], server[s].lane[l]) \in LaneStates
      <4>1. [server[s].lane[l] EXCEPT !.confirmed = FALSE] \in LaneStates
        BY <1>1 DEF LaneStates
      <4>2. [Running EXCEPT !.status = "unresolved", !.code = "cancel_unconfirmed"] \in LaneStates
        BY NoLanesType DEF LaneStates
      <4> QED BY <4>1, <4>2, UnresolvedType DEF Unconfirmed
    <3> QED BY <2>2, <3>1, <3>2 DEF CancelLane
  <2> QED BY <2>1, <2>2
<1>3. server[s].pc = "lanes" /\ store' = store /\ delegated' = delegated
  BY DEF CancelLaneQuietly, CancelLane, At
<1>4. FilesOK'
  <2>1. task' \in [Lanes -> TaskViews]
    <3>1. CASE CancelLaneQuietly(s, l)
      BY <3>1 DEF CancelLaneQuietly, IInv, TypeOK
    <3>2. CASE CancelLane(s, l)
      <4>1. PICK view \in TaskViews : task' = [task EXCEPT ![l] = view]
        BY <1>1, <3>2 DEF CancelLane, CancelViews, TaskViews, Outcomes
      <4> QED BY <4>1 DEF IInv, TypeOK
    <3> QED BY <3>1, <3>2
  <2> QED BY <2>1 DEF CancelLaneQuietly, CancelLane, IInv, TypeOK, FilesOK
<1> DEFINE m == [server[s] EXCEPT !.kill = @ \ {l}, !.lane[l] = lane]
<1>5. /\ m \in Memory /\ m.pc = "lanes" /\ m.ending = server[s].ending
      /\ m.known = server[s].known /\ m.record = server[s].record
  BY <1>1, <1>3 DEF Memory
<1>6. Becomes(s, m)
  BY <1>2
<1> HIDE DEF m
<1> QED BY <1>3, <1>4, <1>5, <1>6, LanesStep

LEMMA LanesDoneStep ==
  ASSUME IInv, NEW s \in Servers, LanesDone(s)
  PROVE  StepOK
<1> DEFINE ended == {l \in server[s].sel : IF server[s].op = "cancel"
                       THEN ConfirmedCancelled(server[s].lane[l]) ELSE Acceptable(server[s].lane[l])}
           m == IF server[s].op \in {"inspect", "refresh"} THEN [server[s] EXCEPT !.pc = "answer"]
                ELSE [server[s] EXCEPT !.pc = "settle", !.todo = ended]
<1>1. /\ server[s] \in Memory /\ server[s].ending = {}
      /\ server[s].known => server[s].record = "full"
  BY ServerFacts DEF LanesDone, At
<1>2. /\ ended \subseteq Lanes
      /\ \A l \in ended : server[s].lane[l].status \in Outcomes
  BY <1>1 DEF Memory, ConfirmedCancelled, Acceptable, Outcomes
<1>3. FilesOK' /\ store' = store /\ delegated' = delegated /\ Becomes(s, m)
  BY DEF LanesDone, IInv, TypeOK, FilesOK
<1> HIDE DEF ended
<1>4. /\ m \in Memory /\ m.ending = {} /\ m.pc \in {"answer", "settle"}
      /\ m.lane = server[s].lane /\ (m.known => m.record = "full")
      /\ m.pc = "settle" => m.todo = ended
  BY <1>1, <1>2 DEF Memory, Fallible
<1>5. ~Creates(m) /\ EndedMemory(m)
  BY <1>2, <1>4 DEF Creates, EndedMemory
<1> HIDE DEF m
<1> QED BY <1>3, <1>4, <1>5, GoesOn DEF IInv, StepOK

------------------------------------------------------------------------------
(* Settling lanes and ending the run *)

\* A step within the settling of lanes, or the journalling of the dispatch.
LEMMA SettlingStep ==
  ASSUME IInv, NEW s \in Servers, NEW m \in Memory, Becomes(s, m),
         server[s].pc \in {"children", "settle"}, m.pc = server[s].pc,
         m.todo \subseteq server[s].todo, m.ending \subseteq server[s].ending \cup server[s].todo,
         m.pc = "children" => m.ending = server[s].ending,
         m.lane = server[s].lane, m.known = server[s].known, m.record = server[s].record,
         store' = store, delegated' = delegated
  PROVE  ServersOK' /\ EndedInv' /\ DelegationInv' /\ OneDelegation'
<1>1. m.known => m.record = "full"
  BY ServerFacts
<1>2. ~Creates(m)
  BY DEF Creates
<1>3. EndedMemory(m)
  BY ServerFacts DEF EndedMemory
<1> QED BY <1>1, <1>2, <1>3, GoesOn DEF IInv

LEMMA StartChildStep ==
  ASSUME IInv, NEW s \in Servers, NEW l \in Lanes, StartChild(s, l)
  PROVE  StepOK
<1>1. /\ store' = store /\ delegated' = delegated /\ server[s].pc \in {"children", "settle"}
      /\ server[s] \in Memory
  BY ServerFacts DEF StartChild, At
<1>2. FilesOK'
  BY DEF StartChild, IInv, TypeOK, FilesOK
<1>3. CASE Ends(s)
  BY <1>1, <1>2, <1>3, EndsStep DEF IInv, StepOK
<1>4. CASE ~Ends(s)
  <2> DEFINE m == IF server[s].pc = "settle" THEN server[s]
                  ELSE [server[s] EXCEPT !.todo = @ \ {l}]
  <2>1. Becomes(s, m)
    BY <1>4 DEF StartChild, At
  <2>2. /\ m \in Memory /\ m.pc = server[s].pc /\ m.todo \subseteq server[s].todo
        /\ m.ending = server[s].ending /\ m.lane = server[s].lane
        /\ m.known = server[s].known /\ m.record = server[s].record
    BY <1>1 DEF Memory
  <2> HIDE DEF m
  <2> QED BY <1>1, <1>2, <2>1, <2>2, SettlingStep DEF StepOK
<1> QED BY <1>3, <1>4

LEMMA SettleStep ==
  ASSUME IInv, NEW s \in Servers, NEW l \in Lanes, Settle(s, l)
  PROVE  StepOK
<1>1. /\ store' = store /\ delegated' = delegated /\ server[s].pc = "settle"
      /\ server[s] \in Memory /\ l \in server[s].todo
  BY ServerFacts DEF Settle, At
<1>2. FilesOK'
  BY DEF Settle, IInv, TypeOK, FilesOK
<1>3. PICK m : /\ Becomes(s, m)
               /\ \/ m = [server[s] EXCEPT !.todo = @ \ {l}, !.final = @ \cup {l}, !.ending = {l}]
                  \/ m = [server[s] EXCEPT !.todo = @ \ {l}]
  BY DEF Settle
<1>4. /\ m \in Memory /\ m.pc = server[s].pc /\ m.todo \subseteq server[s].todo
      /\ m.ending \subseteq server[s].ending \cup server[s].todo /\ m.lane = server[s].lane
      /\ m.known = server[s].known /\ m.record = server[s].record
  <2>1. CASE m = [server[s] EXCEPT !.todo = @ \ {l}]
    BY <1>1, <2>1 DEF Memory
  <2>2. CASE m = [server[s] EXCEPT !.todo = @ \ {l}, !.final = @ \cup {l}, !.ending = {l}]
    <3>1. m \in Memory /\ m.ending = {l} /\ m.todo = server[s].todo \ {l}
      BY <1>1, <2>2 DEF Memory
    <3>2. /\ m.pc = server[s].pc /\ m.lane = server[s].lane
          /\ m.known = server[s].known /\ m.record = server[s].record
      BY <1>1, <2>2 DEF Memory
    <3> QED BY <1>1, <3>1, <3>2
  <2> QED BY <1>3, <2>1, <2>2
<1> QED BY <1>1, <1>2, <1>3, <1>4, SettlingStep DEF StepOK

LEMMA EndChildStep ==
  ASSUME IInv, NEW s \in Servers, NEW l \in Lanes, EndChild(s, l)
  PROVE  StepOK
<1>1. /\ store' = store /\ delegated' = delegated /\ server[s].pc = "settle"
      /\ server[s] \in Memory /\ server[s].lane[l].status \in Outcomes
  BY ServerFacts DEF EndChild, At
<1>2. FilesOK'
  BY <1>1 DEF EndChild, IInv, TypeOK, FilesOK
<1>3. CASE Ends(s)
  BY <1>1, <1>2, <1>3, EndsStep DEF IInv, StepOK
<1>4. CASE ~Ends(s)
  <2> DEFINE m == [server[s] EXCEPT !.ending = {}]
  <2>1. Becomes(s, m)
    BY <1>4 DEF EndChild
  <2>2. /\ m \in Memory /\ m.pc = server[s].pc /\ m.todo = server[s].todo
        /\ m.ending = {} /\ m.lane = server[s].lane
        /\ m.known = server[s].known /\ m.record = server[s].record
    BY <1>1 DEF Memory
  <2> HIDE DEF m
  <2> QED BY <1>1, <1>2, <2>1, <2>2, SettlingStep DEF StepOK
<1> QED BY <1>3, <1>4

LEMMA MovingSteps ==
  ASSUME IInv, NEW s \in Servers, ChildrenStarted(s) \/ Settling(s)
  PROVE  StepOK
<1>1. /\ Goto(s, "answer") \/ Goto(s, "run")
      /\ server[s].pc # "settle" \/ server[s].ending = {}
  BY DEF ChildrenStarted, Settling, At
<1>2. FilesOK'
  BY DEF ChildrenStarted, Settling, IInv, TypeOK, FilesOK
<1>3. store' = store /\ delegated' = delegated
  BY DEF ChildrenStarted, Settling
<1> QED BY <1>1, <1>2, <1>3, MoveOn DEF StepOK, ServerPCs, Fallible

LEMMA RunEndStep ==
  ASSUME IInv, NEW s \in Servers, RunEnd(s)
  PROVE  StepOK
<1>1. store' = store /\ delegated' = delegated /\ server[s].pc # "settle"
  BY DEF RunEnd, At
<1>2. FilesOK'
  <2>1. \A statuses : RunOutcome(statuses) \in Outcomes
    BY DEF RunOutcome, Outcomes
  <2> HIDE DEF RunOutcome
  <2> QED BY <2>1 DEF RunEnd, IInv, TypeOK, FilesOK
<1>3. CASE Ends(s)
  BY <1>1, <1>2, <1>3, EndsStep DEF IInv, StepOK
<1>4. CASE Goto(s, "answer")
  BY <1>1, <1>2, <1>4, MoveOn DEF StepOK, ServerPCs, Fallible
<1> QED BY <1>3, <1>4 DEF RunEnd

------------------------------------------------------------------------------
(* The theorems *)

LEMMA TaskStep ==
  ASSUME IInv, NEW l \in Lanes, TaskEnds(l) \/ TaskAsks(l) \/ TaskDisturbed(l)
  PROVE  IInv'
<1>1. /\ UNCHANGED <<store, plan, journal, server, crashes, delegated, answered>>
      /\ task' \in [Lanes -> TaskViews]
  BY DEF TaskEnds, TaskAsks, TaskDisturbed, IInv, TypeOK, TaskViews, Outcomes
<1> QED BY <1>1 DEF IInv, TypeOK, DelegationInv, EndedInv, OneDelegation

LEMMA NextInv == IInv /\ [Next]_vars => IInv'
<1> SUFFICES ASSUME IInv, [Next]_vars PROVE IInv'
  OBVIOUS
<1>1. ASSUME NEW s \in Servers, Calls(s) PROVE StepOK
  BY <1>1, BeginStep DEF Calls
<1>2. ASSUME NEW s \in Servers, Works(s) PROVE StepOK
  BY <1>2, RecoverStep, SubmitStoreStep, CreateJournalStep, BindJournalStep, OpenJournalStep,
     PlanStep, DelegateStep, FactsStep, ResumeCancelStep, InspectLaneStep, CancelLaneStep,
     LanesDoneStep, StartChildStep, MovingSteps, SettleStep, EndChildStep, RunEndStep,
     EndingSteps DEF Works
<1>3. ASSUME NEW s \in Servers, CallFails(s) \/ Crash(s) PROVE StepOK
  BY <1>3, EndingSteps, CrashStep
<1>4. StepOK => IInv'
  BY DEF StepOK, IInv, TypeOK, ServersOK, FilesOK
<1>5. CASE UNCHANGED vars
  BY <1>5 DEF vars, IInv, TypeOK, DelegationInv, EndedInv, OneDelegation
<1>6. CASE Next
  BY <1>1, <1>2, <1>3, <1>4, <1>6, TaskStep DEF Next
<1> QED BY <1>5, <1>6

\* The inductive invariant behind the two theorems that follow.
LEMMA Inductive == Spec => []IInv
  BY InitInv, NextInv, PTL DEF Spec

\* The files, the tasks and every server's memory keep their shape, however
\* many servers and lanes there are.
THEOREM RunType == Spec => []TypeOK
<1>1. IInv => TypeOK
  BY DEF IInv
<1> QED BY <1>1, Inductive, PTL

\* A lane is handed to delegateTask at most once, whatever is submitted again,
\* fails or dies, and however many servers share the state root.
THEOREM RunOneDelegation == Spec => []OneDelegation
<1>1. IInv => OneDelegation
  BY DEF IInv
<1> QED BY <1>1, Inductive, PTL

------------------------------------------------------------------------------
(* What a run says of its tasks.  Journal, plan and memory of every server   *)
(* are true, although they are read long before they are used, because a     *)
(* task that has ended stays as it is and a lane is only settled on an       *)
(* answer about its task.                                                    *)

\* A lane that the scheduler calls dispatched has a task, and the outcome of the lane is the
\* task's.
LaneTrue(view, lane) ==
  lane.dispatched => view # "none" /\ (lane.status \in Outcomes => view = lane.status)

\* What a server knows, where it is in a call.
MemoryTrue(m, tasks) ==
  /\ \A l \in Lanes : LaneTrue(tasks[l], m.lane[l])
  /\ ~m.known => \A l \in m.kill : tasks[l] # "none"
  /\ m.pc = "lanes" /\ ~m.known => \A l \in m.todo : tasks[l] # "none"
  /\ m.pc = "settle" => \A l \in m.todo \cup m.ending : Acceptable(m.lane[l])
  /\ \A l \in m.final : Acceptable(m.lane[l])
  /\ m.pc \notin {"settle", "run", "answer"} => m.final = {}

PlanTrue == \A l \in plan.dispatched : task[l] # "none"

TruthInv == (\A s \in Servers : MemoryTrue(server[s], task)) /\ PlanTrue /\ OutcomeTruthful

\* What most steps leave of a server's memory.
Keeps(s, m) ==
  /\ m.lane = server[s].lane /\ m.final = server[s].final
  /\ m.kill = server[s].kill /\ m.known = server[s].known

\* A task does not vanish, and one that has ended stays as it is.
TasksGoOn ==
  \A l \in Lanes : /\ task[l] # "none" => task'[l] # "none"
                   /\ task[l] \in Outcomes => task'[l] = task[l]

------------------------------------------------------------------------------
(* Steps *)

LEMMA TasksStay ==
  ASSUME UNCHANGED task
  PROVE  TasksGoOn
  BY DEF TasksGoOn

LEMMA DelegateTasks ==
  ASSUME IInv, NEW s \in Servers, NEW l \in Lanes, Delegate(s, l)
  PROVE  TasksGoOn
<1>1. PICK view : /\ task' = [task EXCEPT ![l] = view]
                  /\ task[l] # "none" => view = task[l]
  BY DEF Delegate
<1> QED BY <1>1 DEF TasksGoOn, IInv, TypeOK, Outcomes

LEMMA CancelTasks ==
  ASSUME IInv, NEW s \in Servers, NEW l \in Lanes, CancelLane(s, l)
  PROVE  TasksGoOn
<1>1. PICK view \in CancelViews(l) : task' = [task EXCEPT ![l] = view]
  BY DEF CancelLane
<1>2. /\ task[l] # "none" => view # "none"
      /\ task[l] \in Outcomes => view = task[l]
  BY DEF CancelViews, Outcomes
<1> QED BY <1>1, <1>2 DEF TasksGoOn, IInv, TypeOK

LEMMA TaskTasks ==
  ASSUME IInv, NEW l \in Lanes, TaskEnds(l) \/ TaskAsks(l) \/ TaskDisturbed(l)
  PROVE  TasksGoOn
  BY DEF TaskEnds, TaskAsks, TaskDisturbed, TasksGoOn, Outcomes, IInv, TypeOK

LEMMA LaneStays ==
  ASSUME NEW lane \in LaneStates, NEW l \in Lanes, LaneTrue(task[l], lane), TasksGoOn
  PROVE  LaneTrue(task'[l], lane)
  BY DEF LaneTrue, TasksGoOn

LEMMA MemoryStays ==
  ASSUME NEW m \in Memory, MemoryTrue(m, task), TasksGoOn
  PROVE  MemoryTrue(m, task')
<1>1. \A l \in Lanes : m.lane[l] \in LaneStates
  BY DEF Memory
<1>2. \A l \in Lanes : LaneTrue(task'[l], m.lane[l])
  BY <1>1, LaneStays DEF MemoryTrue
<1>3. m.todo \subseteq Lanes /\ m.kill \subseteq Lanes
  BY DEF Memory
<1> QED BY <1>2, <1>3 DEF MemoryTrue, TasksGoOn

LEMMA OutcomesStay ==
  ASSUME IInv, TruthInv, TasksGoOn, journal'.outcome = journal.outcome
  PROVE  OutcomeTruthful'
<1>1. \A l \in Lanes : journal.outcome[l] \in Outcomes \cup {"none"}
  BY DEF IInv, TypeOK
<1> QED BY <1>1 DEF TruthInv, OutcomeTruthful, TasksGoOn

LEMMA TruthStep ==
  ASSUME IInv, TruthInv, NEW s \in Servers, NEW m \in Memory, Becomes(s, m), TasksGoOn,
         MemoryTrue(m, task'), PlanTrue', OutcomeTruthful'
  PROVE  TruthInv'
<1>1. /\ server'[s] = m
      /\ \A r \in Servers : r # s => server'[r] = server[r]
  BY BecomesType DEF IInv, TypeOK
<1>2. ASSUME NEW r \in Servers PROVE MemoryTrue(server'[r], task')
  <2>1. server[r] \in Memory /\ MemoryTrue(server[r], task)
    BY ServerFacts DEF TruthInv
  <2> QED BY <1>1, <2>1, MemoryStays
<1>3. (\A r \in Servers : MemoryTrue(server[r], task))'
  BY <1>2 DEF MemoryTrue, LaneTrue, Acceptable, ConfirmedCancelled
<1> QED BY <1>3 DEF TruthInv

\* A step that changes neither tasks nor outcomes, and calls no further lane dispatched.
LEMMA MemoryStep ==
  ASSUME IInv, TruthInv, NEW s \in Servers, NEW m \in Memory, Becomes(s, m),
         MemoryTrue(m, task), UNCHANGED task,
         plan'.dispatched \subseteq plan.dispatched, journal'.outcome = journal.outcome
  PROVE  TruthInv'
<1>1. TasksGoOn
  BY TasksStay
<1>2. PlanTrue'
  BY DEF PlanTrue, TruthInv
<1>3. MemoryTrue(m, task')
  BY DEF MemoryTrue
<1> QED BY <1>1, <1>2, <1>3, OutcomesStay, TruthStep

LEMMA EndsTruth ==
  ASSUME IInv, TruthInv, NEW s \in Servers, Ends(s), UNCHANGED task,
         plan'.dispatched \subseteq plan.dispatched, journal'.outcome = journal.outcome
  PROVE  TruthInv'
<1> DEFINE m == Rest(server[s])
<1>1. server[s] \in Memory /\ MemoryTrue(server[s], task)
  BY ServerFacts DEF TruthInv
<1>2. /\ m \in Memory /\ m.pc = "idle" /\ m.final = {} /\ m.kill = {}
      /\ m.lane \in {server[s].lane, NoLanes}
  BY <1>1, RestType DEF Rest, Memory
<1>3. \A l \in Lanes : LaneTrue(task[l], m.lane[l])
  BY <1>1, <1>2 DEF MemoryTrue, LaneTrue, NoLanes, Undispatched
<1> HIDE DEF m
<1>4. MemoryTrue(m, task)
  BY <1>2, <1>3 DEF MemoryTrue
<1>5. Becomes(s, m)
  BY DEF Ends, m
<1> QED BY <1>2, <1>4, <1>5, MemoryStep

\* A step after which the server neither asks about lanes nor settles them.
LEMMA QuietTruth ==
  ASSUME IInv, TruthInv, NEW s \in Servers, NEW m \in Memory, Becomes(s, m),
         Keeps(s, m), m.pc \notin {"lanes", "settle"},
         m.pc \in {"run", "answer"} \/ server[s].pc \notin {"settle", "run", "answer"},
         UNCHANGED task, plan' = plan, journal'.outcome = journal.outcome
  PROVE  TruthInv'
<1>1. MemoryTrue(server[s], task)
  BY DEF TruthInv
<1>2. MemoryTrue(m, task)
  BY <1>1 DEF MemoryTrue, Keeps
<1> QED BY <1>2, MemoryStep

LEMMA GotoTruth ==
  ASSUME IInv, TruthInv, NEW s \in Servers, NEW pc \in ServerPCs \ {"lanes", "settle"}, Goto(s, pc),
         pc \in {"run", "answer"} \/ server[s].pc \notin {"settle", "run", "answer"},
         UNCHANGED task, plan' = plan, journal'.outcome = journal.outcome
  PROVE  TruthInv'
<1> DEFINE m == [server[s] EXCEPT !.pc = pc]
<1>1. server[s] \in Memory
  BY ServerFacts
<1>2. m \in Memory /\ Keeps(s, m) /\ m.pc = pc
  BY <1>1 DEF Memory, ServerPCs, Keeps
<1>3. Becomes(s, m)
  BY DEF Goto
<1> HIDE DEF m
<1> QED BY <1>2, <1>3, QuietTruth

\* The same for a step that is known to keep the types.
LEMMA MovesTruth ==
  ASSUME IInv, StepOK, TruthInv, NEW s \in Servers, NEW m, Becomes(s, m),
         Keeps(s, m), m.pc \notin {"lanes", "settle"},
         m.pc \in {"run", "answer"} \/ server[s].pc \notin {"settle", "run", "answer"},
         UNCHANGED task, plan' = plan, journal'.outcome = journal.outcome
  PROVE  TruthInv'
<1>1. server'[s] = m /\ server'[s] \in Memory
  BY DEF Becomes, StepOK, ServersOK, IInv, TypeOK
<1> QED BY <1>1, QuietTruth

LEMMA NewMemory ==
  ASSUME StepOK, IInv, NEW s \in Servers, NEW m, Becomes(s, m)
  PROVE  m \in Memory
<1>1. server'[s] = m /\ server'[s] \in Memory
  BY DEF Becomes, StepOK, ServersOK, IInv, TypeOK
<1> QED BY <1>1

------------------------------------------------------------------------------
(* The actions *)

LEMMA BeginTruth ==
  ASSUME IInv, TruthInv, NEW s \in Servers, Calls(s)
  PROVE  TruthInv'
<1>1. PICK op \in {"submit", "inspect", "resume", "cancel"}, sel \in SUBSET Lanes : Begin(s, op, sel)
  BY DEF Calls
<1> DEFINE m == [server[s] EXCEPT !.pc = "recover", !.op = op, !.sel = sel]
<1>2. Keeps(s, m) /\ m.pc = "recover"
  BY ServerFacts DEF Memory, Keeps
<1>3. Becomes(s, m) /\ server[s].pc = "idle" /\ UNCHANGED <<task, plan, journal>>
  BY <1>1 DEF Begin, At
<1> HIDE DEF m
<1> QED BY <1>1, <1>2, <1>3, BeginStep, MovesTruth

LEMMA RecoverTruth ==
  ASSUME IInv, TruthInv, NEW s \in Servers, Recover(s)
  PROVE  TruthInv'
<1> DEFINE next(pc) == [server[s] EXCEPT !.pc = pc]
<1>1. UNCHANGED <<task, plan, journal>> /\ server[s].pc = "recover"
  BY DEF Recover, At
<1>2. CASE Ends(s)
  BY <1>1, <1>2, EndsTruth
<1>3. CASE ~Ends(s)
  <2>1. PICK pc \in {"store", "bind"} :
          \/ Becomes(s, next(pc))
          \/ Becomes(s, [next(pc) EXCEPT !.sel = {}])
          \/ \E r : Becomes(s, [next(pc) EXCEPT !.record = r])
    BY <1>3 DEF Recover
  <2>2. /\ Keeps(s, next(pc)) /\ next(pc).pc = pc
        /\ Keeps(s, [next(pc) EXCEPT !.sel = {}]) /\ [next(pc) EXCEPT !.sel = {}].pc = pc
        /\ \A r : /\ Keeps(s, [next(pc) EXCEPT !.record = r])
                  /\ [next(pc) EXCEPT !.record = r].pc = pc
    BY ServerFacts DEF Memory, Keeps
  <2>3. PICK m : Becomes(s, m) /\ Keeps(s, m) /\ m.pc = pc
    <3> HIDE DEF next
    <3>1. CASE Becomes(s, next(pc)) \/ Becomes(s, [next(pc) EXCEPT !.sel = {}])
      BY <2>2, <3>1
    <3>2. CASE \E r : Becomes(s, [next(pc) EXCEPT !.record = r])
      BY <2>2, <3>2
    <3> QED BY <2>1, <3>1, <3>2
  <2> QED BY <1>1, <2>3, RecoverStep, MovesTruth
<1> QED BY <1>2, <1>3

LEMMA StoreTruth ==
  ASSUME IInv, TruthInv, NEW s \in Servers,
         SubmitStore(s) \/ CreateJournal(s) \/ BindJournal(s) \/ OpenJournal(s)
  PROVE  TruthInv'
<1>1. /\ UNCHANGED <<task, plan>> /\ journal'.outcome = journal.outcome
      /\ server[s].pc \notin {"settle", "run", "answer"}
  BY DEF SubmitStore, CreateJournal, BindJournal, OpenJournal, At, IInv, TypeOK
<1>2. StepOK /\ server[s] \in Memory
  BY SubmitStoreStep, CreateJournalStep, BindJournalStep, OpenJournalStep, ServerFacts
<1>3. CASE Ends(s)
  BY <1>1, <1>3, EndsTruth
<1>4. CASE ~Ends(s)
  <2>1. PICK m : /\ Becomes(s, m) /\ Keeps(s, m)
                 /\ m.pc \in {"bind", "create", "open", "cancel", "resume", "plan", "answer"}
    <3>1. CASE SubmitStore(s)
      <4> DEFINE m == [server[s] EXCEPT !.record = "full",
                        !.pc = IF store THEN "bind" ELSE "create",
                        !.op = IF ~store THEN "submit"
                               ELSE IF server[s].record = "full" THEN "refresh" ELSE "repeat"]
      <4>1. Keeps(s, m) /\ m.pc \in {"bind", "create"}
        BY <1>2 DEF Memory, Keeps
      <4>2. Becomes(s, m)
        BY <3>1 DEF SubmitStore
      <4> HIDE DEF m
      <4> QED BY <4>1, <4>2
    <3>2. CASE CreateJournal(s)
      BY <1>2, <1>4, <3>2 DEF CreateJournal, Memory, Keeps
    <3>3. CASE BindJournal(s)
      BY <1>2, <3>3 DEF BindJournal, Memory, Keeps
    <3>4. CASE OpenJournal(s)
      BY <1>2, <3>4 DEF OpenJournal, Goto, Memory, Keeps
    <3> QED BY <3>1, <3>2, <3>3, <3>4
  <2> QED BY <1>1, <1>2, <2>1, MovesTruth
<1> QED BY <1>3, <1>4

LEMMA EndingTruth ==
  ASSUME IInv, TruthInv, NEW s \in Servers, Answer(s) \/ CallFails(s) \/ Crash(s)
  PROVE  TruthInv'
<1>1. CASE Answer(s) \/ CallFails(s)
  BY <1>1, EndsTruth DEF Answer, CallFails
<1>2. CASE Crash(s)
  <2>1. Becomes(s, Fresh) /\ UNCHANGED <<task, plan, journal>>
    BY <1>2 DEF Crash
  <2>2. /\ Fresh.pc = "idle" /\ Fresh.final = {} /\ Fresh.kill = {} /\ Fresh \in Memory
        /\ \A l \in Lanes : ~Fresh.lane[l].dispatched
    BY FreshType DEF Fresh, NoLanes, Undispatched
  <2>3. MemoryTrue(Fresh, task)
    <3> HIDE DEF Fresh
    <3> QED BY <2>2 DEF MemoryTrue, LaneTrue
  <2> QED BY <2>1, <2>2, <2>3, MemoryStep
<1> QED BY <1>1, <1>2

LEMMA PlanTruth ==
  ASSUME IInv, TruthInv, NEW s \in Servers, Plan(s)
  PROVE  TruthInv'
<1>1. /\ UNCHANGED <<task, journal>> /\ plan'.dispatched = {}
  BY DEF Plan
<1>2. CASE Ends(s)
  BY <1>1, <1>2, EndsTruth
<1>3. CASE ~Ends(s)
  <2> DEFINE m == [server[s] EXCEPT !.pc = "delegate", !.todo = Lanes, !.known = TRUE,
                                    !.lane = NoLanes]
  <2>1. Becomes(s, m) /\ server[s].pc = "plan"
    BY <1>3 DEF Plan, At
  <2>2. server[s] \in Memory /\ server[s].final = {}
    BY <2>1, ServerFacts DEF TruthInv, MemoryTrue
  <2>3. m.pc = "delegate" /\ m.lane = NoLanes /\ m.final = {} /\ m.known
    BY <2>2 DEF Memory
  <2>4. m \in Memory
    BY <2>1, PlanStep, NewMemory
  <2>5. MemoryTrue(m, task)
    <3> HIDE DEF m
    <3> QED BY <2>3 DEF MemoryTrue, LaneTrue, NoLanes, Undispatched
  <2> HIDE DEF m
  <2> QED BY <1>1, <2>1, <2>4, <2>5, MemoryStep
<1> QED BY <1>2, <1>3

LEMMA DelegateTruth ==
  ASSUME IInv, TruthInv, NEW s \in Servers, NEW l \in Lanes, Delegate(s, l)
  PROVE  TruthInv'
<1>1. PICK accepted \in {task[l] = "none", task[l] = "none" /\ ~Faults} :
        /\ \E view \in IF accepted THEN {"running"}
                       ELSE IF task[l] = "none" THEN {"none", "failed", "lost"} ELSE {task[l]} :
             task' = [task EXCEPT ![l] = view]
        /\ Becomes(s, [server[s] EXCEPT !.todo = @ \ {l},
                         !.lane[l] = IF accepted THEN Running ELSE Undispatched])
  BY DEF Delegate
<1> DEFINE lane == IF accepted THEN Running ELSE Undispatched
           m == [server[s] EXCEPT !.todo = @ \ {l}, !.lane[l] = lane]
<1>2. TasksGoOn /\ server[s] \in Memory /\ MemoryTrue(server[s], task')
  BY DelegateTasks, ServerFacts, MemoryStays DEF TruthInv
<1>3. LaneTrue(task'[l], lane)
  <2>1. CASE accepted
    BY <1>1, <2>1 DEF LaneTrue, Running, Outcomes, IInv, TypeOK
  <2>2. CASE ~accepted
    BY <2>2 DEF LaneTrue, Undispatched
  <2> QED BY <2>1, <2>2
<1>4. Becomes(s, m) /\ server[s].pc = "delegate"
  BY <1>1 DEF Delegate, At
<1> HIDE DEF lane
<1>5. /\ m.pc = "delegate" /\ m.lane = [server[s].lane EXCEPT ![l] = lane]
      /\ m.final = server[s].final /\ m.kill = server[s].kill /\ m.known = server[s].known
  BY <1>2, <1>4 DEF Memory
<1>6. m.final = {}
  BY <1>2, <1>4, <1>5 DEF MemoryTrue
<1>7. \A k \in Lanes : LaneTrue(task'[k], m.lane[k])
  BY <1>2, <1>3, <1>5 DEF MemoryTrue, Memory
<1>8. m \in Memory
  BY <1>4, DelegateStep, NewMemory
<1> HIDE DEF m
<1>9. MemoryTrue(m, task')
  BY <1>2, <1>5, <1>6, <1>7 DEF MemoryTrue
<1>10. PlanTrue' /\ OutcomeTruthful'
  <2>1. UNCHANGED <<plan, journal>>
    BY DEF Delegate
  <2> QED BY <1>2, <2>1, OutcomesStay DEF PlanTrue, TruthInv, TasksGoOn, IInv, TypeOK
<1> QED BY <1>2, <1>4, <1>8, <1>9, <1>10, TruthStep

LEMMA FactsTruth ==
  ASSUME IInv, TruthInv, NEW s \in Servers, Facts(s)
  PROVE  TruthInv'
<1> DEFINE accepted == {l \in Lanes : server[s].lane[l].dispatched}
           m == [server[s] EXCEPT !.pc = "children", !.todo = accepted]
<1>1. /\ Becomes(s, m) /\ server[s].pc = "delegate" /\ UNCHANGED <<task, journal>>
      /\ plan' = [plan EXCEPT !.dispatched = accepted]
  BY DEF Facts, At
<1>2. server[s] \in Memory /\ MemoryTrue(server[s], task)
  BY ServerFacts DEF TruthInv
<1>3. \A l \in accepted : task[l] # "none"
  BY <1>2 DEF MemoryTrue, LaneTrue
<1> HIDE DEF accepted
<1>4. m.pc = "children" /\ Keeps(s, m)
  BY <1>2 DEF Memory, Keeps
<1>5. m \in Memory
  BY <1>1, FactsStep, NewMemory DEF accepted
<1> HIDE DEF m
<1>6. MemoryTrue(m, task')
  BY <1>1, <1>2, <1>4 DEF MemoryTrue, Keeps
<1>7. TasksGoOn /\ PlanTrue' /\ OutcomeTruthful'
  BY <1>1, <1>3, TasksStay, OutcomesStay DEF PlanTrue, IInv, TypeOK
<1> QED BY <1>1, <1>5, <1>6, <1>7, TruthStep

\* The lanes a scheduler that knows nothing is sent to have tasks.
LEMMA ResumeCancelTruth ==
  ASSUME IInv, TruthInv, NEW s \in Servers, Resume(s) \/ Cancel(s)
  PROVE  TruthInv'
<1>1. UNCHANGED <<task, plan, journal>> /\ server[s].pc \in {"resume", "cancel"}
  BY DEF Resume, Cancel, At
<1>2. CASE Ends(s)
  BY <1>1, <1>2, EndsTruth
<1>3. CASE ~Ends(s)
  <2>1. server[s] \in Memory /\ MemoryTrue(server[s], task) /\ PlanTrue /\ server[s].final = {}
    BY <1>1, ServerFacts DEF TruthInv, MemoryTrue
  <2>2. PICK m : /\ Becomes(s, m) /\ m.lane = server[s].lane /\ m.final = {} /\ m.pc = "lanes"
                 /\ ~m.known => \A l \in m.todo \cup m.kill : task[l] # "none"
    <3> DEFINE asked == [server[s] EXCEPT !.pc = "lanes", !.todo = server[s].sel]
               planned == [server[s] EXCEPT !.pc = "lanes", !.todo = plan.dispatched]
               killed == [server[s] EXCEPT !.pc = "lanes", !.kill = server[s].sel]
               split == [server[s] EXCEPT !.pc = "lanes",
                           !.kill = server[s].sel \cap plan.dispatched,
                           !.todo = plan.dispatched \ server[s].sel]
    <3>1. \/ server[s].known /\ Becomes(s, asked)
          \/ ~server[s].known /\ Becomes(s, planned)
          \/ server[s].known /\ Becomes(s, killed)
          \/ ~server[s].known /\ Becomes(s, split)
      BY <1>3 DEF Resume, Cancel
    <3>2. \A m \in {asked, planned, killed, split} :
            m.lane = server[s].lane /\ m.final = {} /\ m.pc = "lanes" /\ m.known = server[s].known
      BY <2>1 DEF Memory
    <3>3. /\ planned.todo = plan.dispatched /\ planned.kill = server[s].kill
          /\ split.todo \cup split.kill \subseteq plan.dispatched
      BY <2>1 DEF Memory
    <3>4. ~server[s].known => \A m \in {planned, split} :
            \A l \in m.todo \cup m.kill : task[l] # "none"
      <4> HIDE DEF planned, split
      <4> QED BY <2>1, <3>3 DEF MemoryTrue, PlanTrue
    <3> HIDE DEF asked, planned, killed, split
    <3> QED BY <3>1, <3>2, <3>4
  <2>3. m \in Memory
    BY <2>2, ResumeCancelStep, NewMemory
  <2>4. MemoryTrue(m, task)
    BY <2>1, <2>2 DEF MemoryTrue
  <2> QED BY <1>1, <2>2, <2>3, <2>4, MemoryStep
<1> QED BY <1>2, <1>3

\* A step that gives one lane of a server another state while it asks about lanes.
LEMMA LaneStep ==
  ASSUME IInv, StepOK, TruthInv, NEW s \in Servers, NEW l \in Lanes, NEW m, Becomes(s, m),
         NEW lane, m.lane = [server[s].lane EXCEPT ![l] = lane], LaneTrue(task'[l], lane),
         server[s].pc = "lanes", m.pc = "lanes", m.final = server[s].final,
         m.known = server[s].known, m.todo \subseteq server[s].todo,
         ~m.known => m.kill \subseteq server[s].kill,
         TasksGoOn, plan' = plan, journal' = journal
  PROVE  TruthInv'
<1>1. server[s] \in Memory /\ MemoryTrue(server[s], task') /\ m \in Memory
  BY NewMemory, ServerFacts, MemoryStays DEF TruthInv
<1>2. \A k \in Lanes : LaneTrue(task'[k], m.lane[k])
  BY <1>1 DEF MemoryTrue, Memory
<1>3. m.final = {}
  BY <1>1 DEF MemoryTrue
<1>4. MemoryTrue(m, task')
  BY <1>1, <1>2, <1>3 DEF MemoryTrue
<1>5. PlanTrue' /\ OutcomeTruthful'
  BY OutcomesStay DEF PlanTrue, TruthInv, TasksGoOn, IInv, TypeOK
<1> QED BY <1>1, <1>4, <1>5, TruthStep

LEMMA InspectTruth ==
  ASSUME IInv, TruthInv, NEW s \in Servers, NEW l \in Lanes, InspectLane(s, l)
  PROVE  TruthInv'
<1>1. PICK fails \in {FALSE, Faults} :
        LET throws == fails \/ task[l] = "none"
            lane == IF server[s].known THEN Inspected(l, server[s].lane[l], throws)
                    ELSE Reconstructed(IF throws THEN "unresolved" ELSE Seen(l))
        IN Becomes(s, [server[s] EXCEPT !.todo = @ \ {l}, !.lane[l] = lane,
             !.kill = IF server[s].known /\ lane.code = "unsupported" THEN @ \cup {l} ELSE @])
  BY DEF InspectLane
<1> DEFINE throws == fails \/ task[l] = "none"
           lane == IF server[s].known THEN Inspected(l, server[s].lane[l], throws)
                   ELSE Reconstructed(IF throws THEN "unresolved" ELSE Seen(l))
           unsupported == server[s].known /\ lane.code = "unsupported"
           m == [server[s] EXCEPT !.todo = @ \ {l}, !.lane[l] = lane,
                                  !.kill = IF unsupported THEN @ \cup {l} ELSE @]
<1>2. /\ server[s] \in Memory /\ server[s].lane[l] \in LaneStates /\ task[l] \in TaskViews
      /\ MemoryTrue(server[s], task) /\ server[s].pc = "lanes" /\ l \in server[s].todo
  BY ServerFacts DEF InspectLane, At, TruthInv, IInv, TypeOK, Memory
<1>3. LaneTrue(task[l], server[s].lane[l])
  BY <1>2 DEF MemoryTrue
<1>4. LaneTrue(task[l], lane)
  <2>1. CASE server[s].known
    <3> DEFINE old == server[s].lane[l]
    <3>1. \A code \in {"other", "unsupported"} : LaneTrue(task[l], Unresolved(old, code))
      BY <1>2, <1>3 DEF Unresolved, LaneTrue, LaneStates, Outcomes
    <3>2. old.dispatched /\ old.status = "running" /\ ~throws =>
            LaneTrue(task[l], [old EXCEPT !.status = Seen(l)])
      BY <1>2, <1>3 DEF Seen, LaneTrue, LaneStates, Outcomes
    <3> HIDE DEF throws
    <3>3. /\ old.status \in {"running", "lost", "unresolved"} \cup Outcomes
          /\ old.dispatched \in BOOLEAN
      BY <1>2 DEF LaneStates
    <3> QED BY <1>3, <2>1, <3>1, <3>2, <3>3 DEF Inspected, Settled, Outcomes
  <2>2. CASE ~server[s].known
    <3>1. task[l] # "none"
      BY <1>2, <2>2 DEF MemoryTrue
    <3>2. \A x : LaneTrue(task[l], Reconstructed(x)) <=> (x \in Outcomes => task[l] = x)
      BY <3>1 DEF Reconstructed, Running, LaneTrue
    <3>3. Seen(l) \in Outcomes => task[l] = Seen(l)
      BY DEF Seen, Outcomes
    <3>4. "unresolved" \notin Outcomes
      BY DEF Outcomes
    <3> QED BY <2>2, <3>2, <3>3, <3>4
  <2> QED BY <2>1, <2>2
<1>5. Becomes(s, m) /\ UNCHANGED <<task, plan, journal>>
  BY <1>1 DEF InspectLane
<1> HIDE DEF lane
<1>6. /\ m.lane = [server[s].lane EXCEPT ![l] = lane] /\ m.pc = "lanes"
      /\ m.final = server[s].final /\ m.known = server[s].known
      /\ m.todo \subseteq server[s].todo /\ (~m.known => m.kill = server[s].kill)
  BY <1>2 DEF Memory
<1> HIDE DEF m
<1> QED BY <1>2, <1>4, <1>5, <1>6, TasksStay, InspectLaneStep, LaneStep

LEMMA CancelQuietlyTruth ==
  ASSUME IInv, TruthInv, NEW s \in Servers, NEW l \in Lanes, CancelLaneQuietly(s, l)
  PROVE  TruthInv'
<1> DEFINE old == server[s].lane[l]
           lane == IF old.dispatched THEN old
                   ELSE [old EXCEPT !.status = "cancelled", !.confirmed = TRUE]
           m == [server[s] EXCEPT !.kill = @ \ {l}, !.lane[l] = lane]
<1>1. /\ server[s] \in Memory /\ server[s].lane[l] \in LaneStates
      /\ MemoryTrue(server[s], task) /\ server[s].pc = "lanes"
  BY ServerFacts DEF CancelLaneQuietly, At, TruthInv, Memory
<1>2. LaneTrue(task[l], lane)
  BY <1>1 DEF MemoryTrue, LaneTrue, LaneStates
<1>3. Becomes(s, m) /\ UNCHANGED <<task, plan, journal>>
  BY DEF CancelLaneQuietly
<1> HIDE DEF lane
<1>4. /\ m.lane = [server[s].lane EXCEPT ![l] = lane] /\ m.pc = "lanes"
      /\ m.final = server[s].final /\ m.known = server[s].known
      /\ m.todo \subseteq server[s].todo /\ m.kill \subseteq server[s].kill
  BY <1>1 DEF Memory
<1> HIDE DEF m
<1> QED BY <1>1, <1>2, <1>3, <1>4, TasksStay, CancelLaneStep, LaneStep

LEMMA CancelTruth ==
  ASSUME IInv, TruthInv, NEW s \in Servers, NEW l \in Lanes, CancelLane(s, l)
  PROVE  TruthInv'
<1> DEFINE old == server[s].lane[l]
<1>1. PICK view \in CancelViews(l), fails \in {FALSE, Faults} :
        /\ task' = [task EXCEPT ![l] = view]
        /\ Becomes(s, [server[s] EXCEPT !.kill = @ \ {l},
             !.lane[l] = IF ~fails /\ view = "cancelled" THEN Confirmed(server[s].lane[l])
                         ELSE Unconfirmed(server[s], server[s].lane[l])])
  BY DEF CancelLane
<1> DEFINE lane == IF ~fails /\ view = "cancelled" THEN Confirmed(old)
                   ELSE Unconfirmed(server[s], old)
           m == [server[s] EXCEPT !.kill = @ \ {l}, !.lane[l] = lane]
<1>2. /\ server[s] \in Memory /\ old \in LaneStates /\ l \in server[s].kill
      /\ MemoryTrue(server[s], task) /\ server[s].pc = "lanes"
      /\ server[s].known => old.dispatched /\ old.status \notin Settled
  BY ServerFacts DEF CancelLane, At, TruthInv, Memory
<1>3. task[l] # "none" /\ task'[l] = view /\ view # "none" /\ TasksGoOn
  <2>1. task[l] # "none"
    BY <1>2 DEF MemoryTrue, LaneTrue
  <2>2. TasksGoOn
    BY CancelTasks
  <2> QED BY <1>1, <2>1, <2>2 DEF TasksGoOn, IInv, TypeOK
<1>4. LaneTrue(task'[l], lane)
  <2>1. view = "cancelled" => LaneTrue(task'[l], Confirmed(old))
    BY <1>2, <1>3 DEF Confirmed, LaneTrue, LaneStates
  <2>2. LaneTrue(task'[l], Unconfirmed(server[s], old))
    BY <1>2, <1>3 DEF Unconfirmed, Unresolved, Running, LaneTrue, LaneStates, Settled, Outcomes
  <2> QED BY <2>1, <2>2
<1>5. Becomes(s, m) /\ UNCHANGED <<plan, journal>>
  BY <1>1 DEF CancelLane
<1> HIDE DEF lane
<1>6. /\ m.lane = [server[s].lane EXCEPT ![l] = lane] /\ m.pc = "lanes"
      /\ m.final = server[s].final /\ m.known = server[s].known
      /\ m.todo \subseteq server[s].todo /\ m.kill \subseteq server[s].kill
  BY <1>2 DEF Memory
<1> HIDE DEF m
<1> QED BY <1>2, <1>3, <1>4, <1>5, <1>6, CancelLaneStep, LaneStep

LEMMA LanesDoneTruth ==
  ASSUME IInv, TruthInv, NEW s \in Servers, LanesDone(s)
  PROVE  TruthInv'
<1> DEFINE ended == {l \in server[s].sel : IF server[s].op = "cancel"
                       THEN ConfirmedCancelled(server[s].lane[l]) ELSE Acceptable(server[s].lane[l])}
           answers == [server[s] EXCEPT !.pc = "answer"]
           settles == [server[s] EXCEPT !.pc = "settle", !.todo = ended]
<1>1. /\ server[s] \in Memory /\ server[s].ending = {} /\ server[s].pc = "lanes"
      /\ MemoryTrue(server[s], task)
  BY ServerFacts DEF LanesDone, At, TruthInv
<1>2. /\ Becomes(s, answers) \/ Becomes(s, settles)
      /\ UNCHANGED <<task, plan, journal>>
  BY DEF LanesDone
<1>3. \A l \in ended : Acceptable(server[s].lane[l])
  BY DEF Acceptable
<1> HIDE DEF ended
<1>4. CASE Becomes(s, answers)
  <2>1. Keeps(s, answers) /\ answers.pc = "answer"
    BY <1>1 DEF Keeps, Memory
  <2> QED BY <1>1, <1>2, <1>4, <2>1, LanesDoneStep, MovesTruth
<1>5. CASE Becomes(s, settles)
  <2>1. Keeps(s, settles) /\ settles.pc = "settle" /\ settles.todo = ended /\ settles.ending = {}
    BY <1>1 DEF Keeps, Memory
  <2>2. settles \in Memory
    BY <1>5, LanesDoneStep, NewMemory
  <2> HIDE DEF settles
  <2>3. MemoryTrue(settles, task)
    BY <1>1, <1>3, <2>1 DEF MemoryTrue, Keeps
  <2> QED BY <1>2, <1>5, <2>2, <2>3, MemoryStep
<1> QED BY <1>2, <1>4, <1>5

\* A step within the settling of lanes, or the journalling of the dispatch.
LEMMA SettleStepTruth ==
  ASSUME IInv, StepOK, TruthInv, NEW s \in Servers, NEW m, Becomes(s, m),
         m.lane = server[s].lane, m.kill = server[s].kill, m.known = server[s].known,
         server[s].pc \in {"children", "settle"}, m.pc = server[s].pc,
         m.todo \subseteq server[s].todo, m.ending \subseteq server[s].ending \cup server[s].todo,
         \/ m.final = server[s].final
         \/ server[s].pc = "settle" /\ m.final \subseteq server[s].final \cup server[s].todo,
         UNCHANGED <<task, plan>>, OutcomeTruthful'
  PROVE  TruthInv'
<1>1. MemoryTrue(server[s], task) /\ m \in Memory
  BY NewMemory DEF TruthInv
<1>2. MemoryTrue(m, task)
  BY <1>1 DEF MemoryTrue
<1>3. MemoryTrue(m, task') /\ PlanTrue' /\ TasksGoOn
  BY <1>2, TasksStay DEF MemoryTrue, PlanTrue, TruthInv
<1> QED BY <1>1, <1>3, TruthStep

LEMMA StartTruth ==
  ASSUME IInv, TruthInv, NEW s \in Servers, NEW l \in Lanes, StartChild(s, l)
  PROVE  TruthInv'
<1>1. UNCHANGED <<task, plan>> /\ journal'.outcome = journal.outcome
  BY DEF StartChild, IInv, TypeOK
<1>2. CASE Ends(s)
  BY <1>1, <1>2, EndsTruth
<1>3. CASE ~Ends(s)
  <2> DEFINE less == [server[s] EXCEPT !.todo = @ \ {l}]
  <2>1. /\ \/ At(s, "settle") /\ Becomes(s, server[s])
           \/ At(s, "children") /\ Becomes(s, less)
        /\ OutcomeTruthful'
    BY <1>1, <1>3, TasksStay, OutcomesStay DEF StartChild, At
  <2>2. /\ less.lane = server[s].lane /\ less.kill = server[s].kill
        /\ less.known = server[s].known /\ less.pc = server[s].pc
        /\ less.todo \subseteq server[s].todo /\ less.ending = server[s].ending
        /\ less.final = server[s].final
    BY ServerFacts DEF Memory
  <2> HIDE DEF less
  <2> QED BY <1>1, <2>1, <2>2, StartChildStep, SettleStepTruth DEF At
<1> QED BY <1>2, <1>3

LEMMA SettleTruth ==
  ASSUME IInv, TruthInv, NEW s \in Servers, NEW l \in Lanes, Settle(s, l)
  PROVE  TruthInv'
<1> DEFINE kept == [server[s] EXCEPT !.todo = @ \ {l}, !.final = @ \cup {l}, !.ending = {l}]
           left == [server[s] EXCEPT !.todo = @ \ {l}]
<1>1. /\ UNCHANGED <<task, plan, journal>> /\ server[s].pc = "settle" /\ l \in server[s].todo
      /\ Becomes(s, kept) \/ Becomes(s, left)
  BY DEF Settle, At
<1>2. /\ kept.lane = server[s].lane /\ kept.kill = server[s].kill
      /\ kept.known = server[s].known /\ kept.pc = server[s].pc
      /\ kept.todo = server[s].todo \ {l} /\ kept.ending = {l}
      /\ kept.final = server[s].final \cup {l}
  BY ServerFacts DEF Memory
<1>3. /\ left.lane = server[s].lane /\ left.kill = server[s].kill
      /\ left.known = server[s].known /\ left.pc = server[s].pc
      /\ left.todo = server[s].todo \ {l} /\ left.ending = server[s].ending
      /\ left.final = server[s].final
  BY ServerFacts DEF Memory
<1>4. OutcomeTruthful'
  BY <1>1, TasksStay, OutcomesStay
<1> HIDE DEF kept, left
<1>5. CASE Becomes(s, kept)
  BY <1>1, <1>2, <1>4, <1>5, SettleStep, SettleStepTruth
<1>6. CASE Becomes(s, left)
  BY <1>1, <1>3, <1>4, <1>6, SettleStep, SettleStepTruth
<1> QED BY <1>1, <1>5, <1>6

\* The outcome that enters the journal is the task's.
LEMMA EndChildTruth ==
  ASSUME IInv, TruthInv, NEW s \in Servers, NEW l \in Lanes, EndChild(s, l)
  PROVE  TruthInv'
<1>1. UNCHANGED <<task, plan>> /\ server[s].pc = "settle" /\ l \in server[s].ending
  BY DEF EndChild, At
<1>2. CASE Ends(s) /\ UNCHANGED journal
  BY <1>1, <1>2, EndsTruth
<1>3. CASE ~(Ends(s) /\ UNCHANGED journal)
  <2> DEFINE m == [server[s] EXCEPT !.ending = {}]
  <2>1. /\ Becomes(s, m)
        /\ journal' = [journal EXCEPT !.outcome[l] =
                         IF @ = "none" THEN server[s].lane[l].status ELSE @]
    BY <1>3 DEF EndChild
  <2>2. server[s] \in Memory /\ MemoryTrue(server[s], task)
    BY ServerFacts DEF TruthInv
  <2>3. server[s].lane[l].status = task[l]
    BY <1>1, <2>2 DEF MemoryTrue, LaneTrue, Acceptable, ConfirmedCancelled, Outcomes
  <2>4. \A k \in Lanes : journal'.outcome[k] \in {journal.outcome[k], "none"} \/ k = l
    BY <2>1 DEF IInv, TypeOK
  <2>5. journal'.outcome[l] = (IF journal.outcome[l] = "none" THEN task[l] ELSE journal.outcome[l])
    BY <2>1, <2>3 DEF IInv, TypeOK
  <2>6. OutcomeTruthful'
    BY <1>1, <2>4, <2>5 DEF TruthInv, OutcomeTruthful
  <2>7. /\ m.lane = server[s].lane /\ m.kill = server[s].kill /\ m.known = server[s].known
        /\ m.pc = server[s].pc /\ m.todo = server[s].todo /\ m.ending = {}
        /\ m.final = server[s].final
    BY <2>2 DEF Memory
  <2> HIDE DEF m
  <2> QED BY <1>1, <2>1, <2>6, <2>7, EndChildStep, SettleStepTruth
<1> QED BY <1>2, <1>3

LEMMA MovingTruth ==
  ASSUME IInv, TruthInv, NEW s \in Servers, ChildrenStarted(s) \/ Settling(s) \/ RunEnd(s)
  PROVE  TruthInv'
<1>1. UNCHANGED <<task, plan>> /\ journal'.outcome = journal.outcome
  BY DEF ChildrenStarted, Settling, RunEnd, IInv, TypeOK
<1>2. Ends(s) \/ Goto(s, "answer") \/ Goto(s, "run")
  BY DEF ChildrenStarted, Settling, RunEnd
<1> QED BY <1>1, <1>2, EndsTruth, GotoTruth DEF ServerPCs, Fallible

LEMMA InitTruth == Init => TruthInv
<1> SUFFICES ASSUME Init PROVE TruthInv
  OBVIOUS
<1>1. \A s \in Servers : server[s] = Fresh
  BY DEF Init
<1>2. MemoryTrue(Fresh, task)
  BY DEF MemoryTrue, LaneTrue, Fresh, NoLanes, Undispatched
<1> QED BY <1>1, <1>2 DEF Init, TruthInv, PlanTrue, OutcomeTruthful

LEMMA NextTruth == IInv /\ TruthInv /\ [Next]_vars => TruthInv'
<1> SUFFICES ASSUME IInv, TruthInv, [Next]_vars PROVE TruthInv'
  OBVIOUS
<1>1. ASSUME NEW s \in Servers, Works(s) PROVE TruthInv'
  BY <1>1, RecoverTruth, StoreTruth, PlanTruth, DelegateTruth, FactsTruth, ResumeCancelTruth,
     InspectTruth, CancelQuietlyTruth, CancelTruth, LanesDoneTruth, StartTruth, MovingTruth,
     SettleTruth, EndChildTruth, EndingTruth DEF Works
<1>2. ASSUME UNCHANGED <<plan, journal, server>>, TasksGoOn PROVE TruthInv'
  <2>1. \A s \in Servers : MemoryTrue(server[s], task')
    BY <1>2, ServerFacts, MemoryStays DEF TruthInv
  <2>2. (\A s \in Servers : MemoryTrue(server[s], task))'
    BY <1>2, <2>1 DEF MemoryTrue, LaneTrue, Acceptable, ConfirmedCancelled
  <2>3. PlanTrue' /\ OutcomeTruthful'
    BY <1>2, OutcomesStay DEF PlanTrue, TruthInv, TasksGoOn, IInv, TypeOK
  <2> QED BY <2>2, <2>3 DEF TruthInv
<1>3. ASSUME NEW l \in Lanes, TaskEnds(l) \/ TaskAsks(l) \/ TaskDisturbed(l) PROVE TruthInv'
  BY <1>2, <1>3, TaskTasks DEF TaskEnds, TaskAsks, TaskDisturbed
<1>4. CASE UNCHANGED vars
  BY <1>2, <1>4, TasksStay DEF vars
<1> QED BY <1>1, <1>3, <1>4, BeginTruth, EndingTruth DEF Next

LEMMA Truth == Spec => [](IInv /\ TruthInv)
<1>1. Init => IInv /\ TruthInv
  BY InitInv, InitTruth
<1>2. (IInv /\ TruthInv) /\ [Next]_vars => (IInv /\ TruthInv)'
  BY NextInv, NextTruth
<1> QED BY <1>1, <1>2, PTL DEF Spec

------------------------------------------------------------------------------
(* The end of a run.  Only a submission that fails between its recovery    *)
(* and the store leaves a record without assignments in memory.            *)

BareMemory(m) == m.record = "bare" => m.pc = "store"
BareInv == \A s \in Servers : BareMemory(server[s])

LEMMA BareStep ==
  ASSUME IInv, BareInv, NEW s \in Servers, NEW m, Becomes(s, m), BareMemory(m)
  PROVE  BareInv'
<1>1. /\ server'[s] = m
      /\ \A r \in Servers : r # s => server'[r] = server[r]
  BY DEF Becomes, IInv, TypeOK
<1> QED BY <1>1 DEF BareInv, BareMemory

\* A step that leaves the record alone.
LEMMA RecordStep ==
  ASSUME IInv, BareInv, NEW s \in Servers, NEW m, Becomes(s, m), m.record = server[s].record,
         server[s].record = "bare" => server[s].pc # "store"
  PROVE  BareInv'
<1>1. BareMemory(m)
  BY DEF BareInv, BareMemory
<1> QED BY <1>1, BareStep

LEMMA EndsBare ==
  ASSUME IInv, BareInv, NEW s \in Servers, Ends(s),
         server[s].record = "bare" => server[s].pc # "store"
  PROVE  BareInv'
<1>1. Rest(server[s]).record = server[s].record
  BY ServerFacts, RestType
<1> QED BY <1>1, RecordStep DEF Ends

LEMMA RecoverBare ==
  ASSUME IInv, BareInv, NEW s \in Servers, Recover(s)
  PROVE  BareInv'
<1> DEFINE next(pc) == [server[s] EXCEPT !.pc = pc]
<1>1. server[s].record # "bare" /\ server[s] \in Memory
  BY ServerFacts DEF Recover, At, BareInv, BareMemory
<1>2. CASE Ends(s)
  BY <1>1, <1>2, EndsBare
<1>3. CASE ~Ends(s)
  <2>1. \/ \E pc : Becomes(s, next(pc))
        \/ Becomes(s, [next("bind") EXCEPT !.record = "full"])
        \/ \E r : Becomes(s, [next("store") EXCEPT !.record = r])
    BY <1>1, <1>3 DEF Recover
  <2>2. /\ \A pc : next(pc).record = server[s].record
        /\ [next("bind") EXCEPT !.record = "full"].record = "full"
        /\ \A r : [next("store") EXCEPT !.record = r].pc = "store"
    BY <1>1 DEF Memory
  <2> HIDE DEF next
  <2>3. CASE \E pc : Becomes(s, next(pc))
    BY <1>1, <2>2, <2>3, RecordStep
  <2>4. CASE Becomes(s, [next("bind") EXCEPT !.record = "full"])
    BY <2>2, <2>4, BareStep DEF BareMemory
  <2>5. CASE \E r : Becomes(s, [next("store") EXCEPT !.record = r])
    BY <2>2, <2>5, BareStep DEF BareMemory
  <2> QED BY <2>1, <2>3, <2>4, <2>5
<1> QED BY <1>2, <1>3

LEMMA WorksBare ==
  ASSUME IInv, BareInv, NEW s \in Servers, Works(s) \/ Calls(s)
  PROVE  BareInv'
<1>1. server[s] \in Memory
  BY ServerFacts
<1>2. CASE Recover(s)
  BY <1>2, RecoverBare
<1>3. CASE SubmitStore(s)
  <2> DEFINE m == [server[s] EXCEPT !.record = "full",
                     !.pc = IF store THEN "bind" ELSE "create",
                     !.op = IF ~store THEN "submit"
                            ELSE IF server[s].record = "full" THEN "refresh" ELSE "repeat"]
  <2>1. m.record = "full"
    BY <1>1 DEF Memory
  <2>2. Becomes(s, m)
    BY <1>3 DEF SubmitStore
  <2> HIDE DEF m
  <2> QED BY <2>1, <2>2, BareStep DEF BareMemory
<1>4. ASSUME server[s].pc # "store", Ends(s) PROVE BareInv'
  BY <1>4, EndsBare
<1>5. ASSUME server[s].pc # "store", NEW m, Becomes(s, m), m.record = server[s].record
      PROVE  BareInv'
  BY <1>5, RecordStep
<1>6. CASE Calls(s)
  <2>1. PICK op, sel : Begin(s, op, sel)
    BY <1>6 DEF Calls
  <2>2. [server[s] EXCEPT !.pc = "recover", !.op = op, !.sel = sel].record = server[s].record
    BY <1>1 DEF Memory
  <2> QED BY <1>5, <2>1, <2>2 DEF Begin, At
<1>7. CASE CreateJournal(s) \/ BindJournal(s) \/ OpenJournal(s) \/ ChildrenStarted(s) \/ Settling(s)
           \/ RunEnd(s) \/ Answer(s)
  <2>1. server[s].pc # "store"
    BY <1>7 DEF CreateJournal, BindJournal, OpenJournal, ChildrenStarted, Settling, RunEnd, Answer, At
  <2>2. Ends(s) \/ \E pc : Becomes(s, [server[s] EXCEPT !.pc = pc])
    BY <1>7 DEF CreateJournal, BindJournal, OpenJournal, ChildrenStarted, Settling, RunEnd, Answer,
       Goto
  <2>3. \A pc : [server[s] EXCEPT !.pc = pc].record = server[s].record
    BY <1>1 DEF Memory
  <2> QED BY <1>4, <1>5, <2>1, <2>2, <2>3
<1>8. CASE Plan(s) \/ Facts(s) \/ Resume(s) \/ Cancel(s) \/ LanesDone(s)
  <2>1. server[s].pc # "store"
    BY <1>8 DEF Plan, Facts, Resume, Cancel, LanesDone, At
  <2> DEFINE does(pc, todo) == [server[s] EXCEPT !.pc = pc, !.todo = todo]
             kills(pc, kill) == [server[s] EXCEPT !.pc = pc, !.kill = kill]
             both(pc, kill, todo) == [server[s] EXCEPT !.pc = pc, !.kill = kill, !.todo = todo]
             goes(pc) == [server[s] EXCEPT !.pc = pc]
             plans == [server[s] EXCEPT !.pc = "delegate", !.todo = Lanes, !.known = TRUE,
                                        !.lane = NoLanes]
  <2>2. \A a, b : does(a, b).record = server[s].record /\ kills(a, b).record = server[s].record
    BY <1>1 DEF Memory
  <2>3. /\ \A a, b, c : both(a, b, c).record = server[s].record
        /\ \A a : goes(a).record = server[s].record
    BY <1>1 DEF Memory
  <2>4. plans.record = server[s].record
    BY <1>1 DEF Memory
  <2>5. CASE Plan(s)
    <3>1. Ends(s) \/ Becomes(s, plans)
      BY <2>5 DEF Plan
    <3> HIDE DEF plans
    <3> QED BY <1>4, <1>5, <2>1, <2>4, <3>1
  <2>6. CASE Facts(s)
    <3>1. \E a, b : Becomes(s, does(a, b))
      BY <2>6 DEF Facts
    <3> HIDE DEF does
    <3> QED BY <1>5, <2>1, <2>2, <3>1
  <2>7. CASE Resume(s)
    <3>1. Ends(s) \/ \E a, b : Becomes(s, does(a, b))
      BY <2>7 DEF Resume
    <3> HIDE DEF does
    <3> QED BY <1>4, <1>5, <2>1, <2>2, <3>1
  <2>8. CASE Cancel(s)
    <3>1. Ends(s) \/ \E a, b, c : Becomes(s, kills(a, b)) \/ Becomes(s, both(a, b, c))
      BY <2>8 DEF Cancel
    <3> HIDE DEF kills, both
    <3> QED BY <1>4, <1>5, <2>1, <2>2, <2>3, <3>1
  <2>9. CASE LanesDone(s)
    <3>1. \E a, b : Becomes(s, goes(a)) \/ Becomes(s, does(a, b))
      BY <2>9 DEF LanesDone
    <3> HIDE DEF goes, does
    <3> QED BY <1>5, <2>1, <2>2, <2>3, <3>1
  <2> QED BY <1>8, <2>5, <2>6, <2>7, <2>8, <2>9
<1>9. ASSUME NEW l \in Lanes,
             \/ Delegate(s, l) \/ InspectLane(s, l) \/ CancelLaneQuietly(s, l) \/ CancelLane(s, l)
             \/ StartChild(s, l) \/ Settle(s, l) \/ EndChild(s, l)
      PROVE  BareInv'
  <2>1. server[s].pc # "store"
    BY <1>9 DEF Delegate, InspectLane, CancelLaneQuietly, CancelLane, StartChild, Settle, EndChild, At
  <2> DEFINE asks(todo, lane, kill) == [server[s] EXCEPT !.todo = todo, !.lane[l] = lane, !.kill = kill]
             gives(todo, lane) == [server[s] EXCEPT !.todo = todo, !.lane[l] = lane]
             kills(kill, lane) == [server[s] EXCEPT !.kill = kill, !.lane[l] = lane]
             settles(todo, f, e) == [server[s] EXCEPT !.todo = todo, !.final = f, !.ending = e]
             does(todo) == [server[s] EXCEPT !.todo = todo]
             ends(e) == [server[s] EXCEPT !.ending = e]
  <2>2. \A a, b, c :
          /\ asks(a, b, c).record = server[s].record
          /\ gives(a, b).record = server[s].record
          /\ kills(a, b).record = server[s].record
          /\ settles(a, b, c).record = server[s].record
          /\ does(a).record = server[s].record
          /\ ends(a).record = server[s].record
    BY <1>1 DEF Memory
  <2>3. CASE Delegate(s, l)
    <3>1. \E a, b : Becomes(s, gives(a, b))
      BY <2>3 DEF Delegate
    <3> HIDE DEF gives
    <3> QED BY <1>5, <2>1, <2>2, <3>1
  <2>4. CASE InspectLane(s, l)
    <3>1. \E a, b, c : Becomes(s, asks(a, b, c))
      BY <2>4 DEF InspectLane
    <3> HIDE DEF asks
    <3> QED BY <1>5, <2>1, <2>2, <3>1
  <2>5. CASE CancelLaneQuietly(s, l) \/ CancelLane(s, l)
    <3>1. \E a, b : Becomes(s, kills(a, b))
      BY <2>5 DEF CancelLaneQuietly, CancelLane
    <3> HIDE DEF kills
    <3> QED BY <1>5, <2>1, <2>2, <3>1
  <2>6. CASE StartChild(s, l) \/ Settle(s, l) \/ EndChild(s, l)
    <3>1. \/ Ends(s) \/ Becomes(s, server[s])
          \/ \E a, b, c : Becomes(s, settles(a, b, c)) \/ Becomes(s, does(a)) \/ Becomes(s, ends(a))
      BY <2>6 DEF StartChild, Settle, EndChild
    <3> HIDE DEF settles, does, ends
    <3> QED BY <1>4, <1>5, <2>1, <2>2, <3>1
  <2> QED BY <1>9, <2>3, <2>4, <2>5, <2>6
<1> QED BY <1>2, <1>3, <1>6, <1>7, <1>8, <1>9 DEF Works

LEMMA NextBare ==
  ASSUME ~StoreFails, IInv, BareInv, [Next]_vars
  PROVE  BareInv'
<1>1. ASSUME NEW s \in Servers, CallFails(s) PROVE BareInv'
  BY <1>1, EndsBare DEF CallFails, At
<1>2. ASSUME NEW s \in Servers, Crash(s) PROVE BareInv'
  <2>1. Becomes(s, Fresh) /\ BareMemory(Fresh)
    BY <1>2 DEF Crash, BareMemory, Fresh
  <2> QED BY <2>1, BareStep
<1>3. ASSUME UNCHANGED server PROVE BareInv'
  BY <1>3 DEF BareInv, BareMemory
<1>4. ASSUME NEW l \in Lanes, TaskEnds(l) \/ TaskAsks(l) \/ TaskDisturbed(l) PROVE BareInv'
  BY <1>3, <1>4 DEF TaskEnds, TaskAsks, TaskDisturbed
<1> QED BY <1>1, <1>2, <1>3, <1>4, WorksBare DEF Next, vars

\* The run ends over lanes that this call has found ended.
LEMMA RunEndTruth ==
  ASSUME IInv, TruthInv, BareInv, RunOutcomeTruthful, NEW s \in Servers, RunEnd(s)
  PROVE  RunOutcomeTruthful'
<1>1. server[s].pc = "run" /\ server[s].record # "bare" /\ UNCHANGED task
  BY DEF RunEnd, At, BareInv, BareMemory
<1>2. CASE UNCHANGED journal
  BY <1>1, <1>2 DEF RunOutcomeTruthful
<1>3. CASE ~UNCHANGED journal
  <2>1. /\ Deciding \subseteq server[s].final
        /\ journal' = [journal EXCEPT
                         !.ended = RunOutcome({server[s].lane[l].status : l \in Deciding})]
    BY <1>1, <1>3 DEF RunEnd
  <2>2. ASSUME NEW l \in Deciding
        PROVE  task[l] \in Outcomes /\ server[s].lane[l].status = task[l]
    <3>1. l \in Lanes /\ Acceptable(server[s].lane[l]) /\ LaneTrue(task[l], server[s].lane[l])
      BY <2>1, ServerFacts DEF TruthInv, MemoryTrue, Memory
    <3> QED BY <3>1 DEF Acceptable, ConfirmedCancelled, LaneTrue, Outcomes
  <2>3. {server[s].lane[l].status : l \in Deciding} = {task[l] : l \in Deciding}
    BY <2>2
  <2>4. journal'.ended = RunOutcome({task[l] : l \in Deciding})
    BY <2>1, <2>3 DEF IInv, TypeOK
  <2> QED BY <1>1, <2>2, <2>4 DEF RunOutcomeTruthful
<1> QED BY <1>2, <1>3

LEMMA OutcomeStays ==
  ASSUME IInv, RunOutcomeTruthful, TasksGoOn, journal'.ended = journal.ended
  PROVE  RunOutcomeTruthful'
<1>1. Deciding \subseteq Lanes
  BY RunAssumption DEF Deciding
<1>2. CASE journal.ended = "none"
  BY <1>2 DEF RunOutcomeTruthful
<1>3. CASE journal.ended # "none"
  <2>1. \A l \in Deciding : task'[l] = task[l] /\ task[l] \in Outcomes
    BY <1>1, <1>3 DEF RunOutcomeTruthful, TasksGoOn
  <2>2. {task'[l] : l \in Deciding} = {task[l] : l \in Deciding}
    BY <2>1
  <2> QED BY <1>3, <2>1, <2>2 DEF RunOutcomeTruthful
<1> QED BY <1>2, <1>3

LEMMA NextRunOutcome ==
  ASSUME IInv, TruthInv, BareInv, RunOutcomeTruthful, [Next]_vars
  PROVE  RunOutcomeTruthful'
<1>1. ASSUME NEW s \in Servers, Works(s), ~RunEnd(s)
      PROVE  TasksGoOn /\ journal'.ended = journal.ended
  <2>1. CASE \E l \in Lanes : Delegate(s, l) \/ CancelLane(s, l)
    BY <2>1, DelegateTasks, CancelTasks DEF Delegate, CancelLane
  <2>2. CASE ~\E l \in Lanes : Delegate(s, l) \/ CancelLane(s, l)
    <3>1. UNCHANGED task /\ journal'.ended = journal.ended
      BY <1>1, <2>2 DEF Works, Recover, SubmitStore, CreateJournal, BindJournal, OpenJournal, Plan,
         Facts, Resume, Cancel, LanesDone, ChildrenStarted, Settling, Answer, InspectLane,
         CancelLaneQuietly, StartChild, Settle, EndChild, IInv, TypeOK
    <3> QED BY <3>1, TasksStay
  <2> QED BY <2>1, <2>2
<1>2. ASSUME NEW s \in Servers, Calls(s) \/ CallFails(s) \/ Crash(s)
      PROVE  TasksGoOn /\ journal'.ended = journal.ended
  BY <1>2, TasksStay DEF Calls, Begin, CallFails, Crash
<1>3. ASSUME NEW l \in Lanes, TaskEnds(l) \/ TaskAsks(l) \/ TaskDisturbed(l)
      PROVE  TasksGoOn /\ journal'.ended = journal.ended
  BY <1>3, TaskTasks DEF TaskEnds, TaskAsks, TaskDisturbed
<1>4. CASE UNCHANGED vars
  BY <1>4, TasksStay, OutcomeStays DEF vars
<1> QED BY <1>1, <1>2, <1>3, <1>4, RunEndTruth, OutcomeStays DEF Next

------------------------------------------------------------------------------
(* The theorems *)

\* An outcome in the journal is what the task of the lane came to, whichever server wrote it, and
\* however old what it knew of the lane was (acceptChildTerminal).
THEOREM RunOutcomesTrue == Spec => []OutcomeTruthful
<1>1. TruthInv => OutcomeTruthful
  BY DEF TruthInv
<1> QED BY <1>1, Truth, PTL

\* A cancel that any server calls confirmed has cancelled the task, and the plan calls no lane
\* dispatched whose task was refused (cancelLane; Facts).
THEOREM RunCancelsTrue == Spec => []CancelTruthful
<1>1. TruthInv => CancelTruthful
  <2> SUFFICES ASSUME TruthInv PROVE CancelTruthful
    OBVIOUS
  <2>1. ASSUME NEW s \in Servers, NEW l \in Lanes, ConfirmedCancelled(server[s].lane[l])
        PROVE  task[l] = "cancelled"
    BY <2>1 DEF TruthInv, MemoryTrue, LaneTrue, ConfirmedCancelled, Outcomes
  <2> QED BY <2>1 DEF CancelTruthful, TruthInv, PlanTrue
<1> QED BY <1>1, Truth, PTL

\* Unless a submission fails after its recovery and before the store, a run is only ended when the
\* tasks of all deciding lanes are, with the outcome they amount to (maybeRunTerminal).
THEOREM RunEndsTruthfully == ~StoreFails /\ Spec => []RunOutcomeTruthful
<1> DEFINE Inv == IInv /\ TruthInv /\ BareInv /\ RunOutcomeTruthful
<1>1. Init => BareInv /\ RunOutcomeTruthful
  BY DEF Init, BareInv, BareMemory, Fresh, RunOutcomeTruthful
<1>2. Init => Inv
  BY <1>1, InitInv, InitTruth
<1>3. ~StoreFails /\ Inv /\ [Next]_vars => Inv'
  BY NextInv, NextTruth, NextBare, NextRunOutcome
<1>4. Inv => RunOutcomeTruthful
  OBVIOUS
<1> HIDE DEF Inv
<1>5. CASE StoreFails
  BY <1>5
<1>6. CASE ~StoreFails
  <2>1. Inv /\ [Next]_vars => Inv'
    BY <1>3, <1>6
  <2> QED BY <1>2, <1>4, <2>1, PTL DEF Spec
<1> QED BY <1>5, <1>6
=============================================================================
