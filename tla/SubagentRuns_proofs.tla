------------------------ MODULE SubagentRuns_proofs ------------------------
(***************************************************************************)
(* Proofs about the runs that use the subagent registry, for every number  *)
(* of chats, subagents, runs, rounds, slots and levels.  What is proved of *)
(* the registry alone is used here through the refinement                  *)
(* RegistryImplemented: the runs change the registry by its methods only.  *)
(***************************************************************************)
EXTENDS SubagentRuns, FiniteSetTheorems, TLAPS

Calls == INSTANCE SubagentRegistry_proofs

-----------------------------------------------------------------------------
(* The inductive invariant                                                 *)

Asking == {"launching", "launched", "refused"}

Held == Registered \union {"starting"}

(* A session has one turn at a time: evidence::begin refuses a second.     *)
OneTurn ==
    \A r, q \in RunIds :
        /\ turn[r].phase \in Registered /\ turn[q].phase \in Registered
        /\ turn[r].session = turn[q].session
        => r = q

(* Whoever waits for the supervisor asked for a child of its own chat.     *)
AskersKnown ==
    \A r \in RunIds : turn[r].phase \in Asking =>
        /\ turn[r].child \in AgentIds
        /\ agents[turn[r].child].chat = ChatOf(r)

(* Every queued request has an asker of its own that still waits for it.   *)
RequestsWait ==
    /\ \A i \in 1 .. Len(queue) :
           /\ turn[queue[i].asker].phase = "launching"
           /\ turn[queue[i].asker].child = queue[i].agent
    /\ \A i, j \in 1 .. Len(queue) : queue[i].asker = queue[j].asker => i = j

(* The run on the supervisor's desk is the one being started, for the      *)
(* request at the head of the queue.                                       *)
DeskServesHead ==
    /\ \A r \in RunIds : turn[r].phase = "starting" <=> desk = r
    /\ desk # None => queue # << >> /\ turn[desk].session = Head(queue).agent

(* The chat a run works for is there while the run is.                     *)
ChatsKept ==
    \A r \in RunIds : turn[r].phase \in Held =>
        turn[r].session # None /\ ChatOf(r) \in Chats

Arranged ==
    /\ \A a \in AgentIds : agents[a].status = "absent" => agents[a].chat = None
    /\ OneTurn
    /\ AskersKnown
    /\ RequestsWait
    /\ DeskServesHead
    /\ ChatsKept

-----------------------------------------------------------------------------
(* The registry's proofs, for the registry the runs use                    *)

(* The two instances of the registry have the same types.                  *)
LEMMA SameTypes == Registry!TypeOK <=> Calls!TypeOK
BY DEF Registry!TypeOK, Calls!TypeOK, Registry!Agents, Calls!Agents, Registry!Mail,
       Calls!Mail, Registry!Sessions, Calls!Sessions, Registry!Live, Calls!Live,
       Registry!Final, Calls!Final

(* So are their initial states,                                            *)
LEMMA SameInit == Registry!Init <=> Calls!Init
BY DEF Registry!Init, Calls!Init, Registry!Blank, Calls!Blank, Registry!Sessions,
       Calls!Sessions

(* and their steps.                                                        *)
LEMMA SameNext == Registry!Next <=> Calls!Next
<1> USE DEF Registry!Live, Calls!Live, Registry!Final, Calls!Final, Registry!Sessions,
            Calls!Sessions, Registry!Present, Calls!Present
<1>1. \A a \in AgentIds : Registry!AgentStep(a) <=> Calls!AgentStep(a)
  BY Zenon
     DEF Registry!AgentStep, Calls!AgentStep, Registry!Reserve, Calls!Reserve,
         Registry!Restart, Calls!Restart, Registry!Restartable, Calls!Restartable,
         Registry!SlotFree, Calls!SlotFree, Registry!Cardinality, Calls!Cardinality,
         Registry!Active, Calls!Active, Registry!OwnChat, Calls!OwnChat,
         Registry!DepthAllowed, Calls!DepthAllowed, Registry!Caller, Calls!Caller,
         Registry!CallerDepth, Calls!CallerDepth, Registry!AttachRun, Calls!AttachRun,
         Registry!Attachable, Calls!Attachable, Registry!FailReserved,
         Calls!FailReserved, Registry!RequestStop, Calls!RequestStop,
         Registry!SendMessage, Calls!SendMessage, Registry!Steerable, Calls!Steerable
<1>2. \A r \in RunIds : Registry!RunStep(r) <=> Calls!RunStep(r)
  BY Zenon
     DEF Registry!RunStep, Calls!RunStep, Registry!Outcomes, Calls!Outcomes,
         Registry!CompleteRun, Calls!CompleteRun, Registry!CompletionApplies,
         Calls!CompletionApplies, Registry!EndStatus, Calls!EndStatus,
         Registry!Recipient, Calls!Recipient
<1>3. \A s : Registry!Drain(s) <=> Calls!Drain(s)
  BY DEF Registry!Drain, Calls!Drain
<1>4. \A c : Registry!RemoveRoot(c) <=> Calls!RemoveRoot(c)
  BY Zenon DEF Registry!RemoveRoot, Calls!RemoveRoot, Registry!Blank, Calls!Blank
<1>5. \A n : Registry!SetLimit(n) <=> Calls!SetLimit(n)
  BY DEF Registry!SetLimit, Calls!SetLimit
<1>6. QED
  BY <1>1, <1>2, <1>3, <1>4, <1>5, Zenon DEF Registry!Next, Calls!Next

(* The registry's part of the type invariant.                              *)
LEMMA RegistryTyped ==
    ASSUME Registry!TypeOK, [Registry!Next]_registryVars
    PROVE  Registry!TypeOK'
<1>1. Calls!TypeOK /\ [Calls!Next]_(Calls!registryVars)
  BY SameTypes, SameNext, Zenon DEF registryVars, Calls!registryVars
<1>2. Calls!TypeOK'
  BY <1>1, RunsAssumption, Calls!TypedStep
<1>3. QED
  BY <1>2, SameTypes, PTL

-----------------------------------------------------------------------------
(* The runs and the queue                                                  *)

(* The fields of a run have their types.                                   *)
LEMMA TurnTyped ==
    ASSUME TypeOK, NEW r \in RunIds
    PROVE  /\ turn[r].phase \in Phases
           /\ turn[r].session \in Chats \union AgentIds \union {None}
           /\ turn[r].rounds \in 0 .. MaxRounds
           /\ turn[r].child \in AgentIds \union {None}
BY DEF TypeOK, Registry!Sessions

(* The request at the head of the queue, and the queue without it.         *)
LEMMA HeadTyped ==
    ASSUME TypeOK, queue # << >>
    PROVE  /\ Head(queue) = queue[1]
           /\ Head(queue).agent \in AgentIds /\ Head(queue).asker \in RunIds
           /\ Len(queue) \in Nat \ {0} /\ Tail(queue) \in Seq(Requests)
           /\ Len(Tail(queue)) = Len(queue) - 1
           /\ \A i \in 1 .. Len(Tail(queue)) : Tail(queue)[i] = queue[i + 1]
<1>1. queue \in Seq(Requests)
  BY DEF TypeOK
<1>2. Head(queue) \in Requests
  BY <1>1
<1>3. QED
  BY <1>1, <1>2 DEF Requests

(* What a step does to the registry, unless it deletes a chat: one call,   *)
(* or none.                                                                *)
Called ==
    \/ \E a \in AgentIds : Registry!AgentStep(a)
    \/ \E r \in RunIds : Registry!RunStep(r)
    \/ \E s \in Registry!Sessions : Registry!Drain(s)
    \/ UNCHANGED registryVars

(* Every action of the runs is one call of the registry, or none.          *)
LEMMA CallStep ==
    ASSUME TypeOK, Arranged, [Next]_vars
    PROVE  Called \/ \E c \in Chats : DeleteChat(c)
<1> USE DEF Registered, Held, Asking, Registry!Sessions
<1>0. \A r \in RunIds : turn[r].phase \in Held =>
          /\ turn[r].session \in Chats \union AgentIds
          /\ ChatOf(r) \in Chats
          /\ turn[r].session \notin AgentIds => turn[r].session = ChatOf(r)
  BY TurnTyped DEF Arranged, ChatsKept, ChatOf
<1>1. ASSUME NEW r \in RunIds, BeginRound(r)
      PROVE  Called
  BY <1>0, <1>1 DEF BeginRound, Called
<1>2. ASSUME NEW r \in RunIds, NEW a \in AgentIds, Spawn(r, a)
      PROVE  Called
  <2>1. Registry!Reserve(a, ChatOf(r), turn[r].session, r) /\ turn[r].phase = "acting"
    BY <1>2 DEF Spawn
  <2>2. Registry!AgentStep(a)
    BY <1>0, <2>1 DEF Registry!AgentStep
  <2>3. QED
    BY <2>2 DEF Called
<1>3. ASSUME NEW r \in RunIds, NEW a \in AgentIds, Followup(r, a)
      PROVE  Called
  BY <1>3 DEF Followup, Called, Registry!AgentStep
<1>4. ASSUME NEW r \in RunIds, LaunchReply(r)
      PROVE  Called
  <2>1. CASE turn[r].phase = "refused" /\ FailLaunch(turn[r].child)
    <3>1. turn[r].child \in AgentIds
      BY <2>1 DEF Arranged, AskersKnown
    <3>2. QED
      BY <2>1, <3>1 DEF FailLaunch, Called, Registry!AgentStep
  <2>2. QED
    BY <1>4, <2>1 DEF LaunchReply, Called
<1>5. ASSUME NEW r \in RunIds, NEW outcome \in Registry!Outcomes, Report(r, outcome)
      PROVE  Called
  BY <1>5 DEF Report, Called, Registry!RunStep
<1>6. ASSUME NEW r \in RunIds, EndOk(r) \/ EndErr(r)
      PROVE  Called
  BY <1>5, <1>6 DEF EndOk, EndErr, ErrorNotes, Registry!Outcomes
<1>7. ASSUME NEW r \in RunIds, AttachLaunch(r)
      PROVE  Called
  <2>1. Head(queue).agent \in AgentIds
    BY <1>7, HeadTyped DEF AttachLaunch
  <2>2. QED
    BY <1>7, <2>1 DEF AttachLaunch, Called, Registry!AgentStep
<1>8. ASSUME NEW a \in AgentIds, Interrupt(a) \/ Steer(a)
      PROVE  Called
  BY <1>8 DEF Interrupt, Steer, Called, Registry!AgentStep
<1>9. ASSUME \/ UNCHANGED vars
             \/ \E r \in RunIds :
                    \/ OtherTool(r) \/ AskPermission(r) \/ Answered(r) \/ BeginAnswer(r) \/ FinishRun(r)
                    \/ StopRun(r) \/ VisitStopped(r)
                    \/ \E c \in Chats : StartTurn(c, r)
             \/ RefuseLaunch \/ RegisterLaunch \/ AbandonLaunch
      PROVE  Called
  BY <1>9
     DEF Called, vars, OtherTool, AskPermission, Answered, BeginAnswer, FinishRun, StopRun, VisitStopped, StartTurn,
         RefuseLaunch, RegisterLaunch, AbandonLaunch
<1>10. ASSUME NEW r \in RunIds, Task(r)
       PROVE  Called
  BY <1>1, <1>2, <1>3, <1>4, <1>6, <1>9, <1>10 DEF Task
<1>11. ASSUME Supervisor
       PROVE  Called
  BY <1>7, <1>9, <1>11 DEF Supervisor
<1>12. ASSUME Operator
       PROVE  Called \/ \E c \in Chats : DeleteChat(c)
  BY <1>8, <1>9, <1>12 DEF Operator
<1>13. QED
  BY <1>9, <1>10, <1>11, <1>12 DEF Next

(* The runs change the registry by its methods only.                       *)
LEMMA RegistryStep ==
    ASSUME TypeOK, Arranged, [Next]_vars
    PROVE  [Registry!Next]_registryVars
BY CallStep DEF Called, DeleteChat, Registry!Next

-----------------------------------------------------------------------------
(* Type correctness                                                        *)

Turns ==
    [phase : Phases, session : Registry!Sessions \union {None},
     rounds : 0 .. MaxRounds, child : AgentIds \union {None}]

(* A run whose phase and child are set stays a run.                        *)
LEMMA MoveTyped ==
    ASSUME NEW f \in [RunIds -> Turns], NEW r \in RunIds, NEW phase \in Phases,
           NEW child \in AgentIds \union {None}
    PROVE  /\ [f EXCEPT ![r].phase = phase] \in [RunIds -> Turns]
           /\ [f EXCEPT ![r].phase = phase, ![r].child = child] \in [RunIds -> Turns]
<1>1. f[r] \in Turns
  OBVIOUS
<1>2. /\ [f[r] EXCEPT !.phase = phase] \in Turns
      /\ [f[r] EXCEPT !.phase = phase, !.child = child] \in Turns
  BY <1>1 DEF Turns
<1>3. QED
  BY <1>2

(* A run that starts, or ends, is a run.                                   *)
LEMMA StartTyped ==
    ASSUME NEW phase \in Phases, NEW s \in Registry!Sessions \union {None}
    PROVE  /\ [Unused EXCEPT !.phase = phase, !.session = s] \in Turns
           /\ [Unused EXCEPT !.phase = phase] \in Turns
<1>1. Unused \in Turns
  BY RunsAssumption DEF Unused, Turns, Phases
<1>2. ASSUME NEW u \in Turns
      PROVE  /\ [u EXCEPT !.phase = phase, !.session = s] \in Turns
             /\ [u EXCEPT !.phase = phase] \in Turns
  BY DEF Turns
<1>3. QED
  BY <1>1, <1>2

(* No step leaves a run, the queue, the desk or a set of runs untyped.     *)
LEMMA TypeStep ==
    ASSUME TypeOK, Arranged, [Next]_vars
    PROVE  TypeOK'
<1>p. /\ {"idle", "acting", "gated", "launching", "launched", "refused", "answering",
          "reported", "leaked", "starting", "done"} \subseteq Phases
      /\ AgentIds \union Chats \subseteq Registry!Sessions
  BY DEF Registered, Phases, Registry!Sessions
<1>0. Registry!TypeOK'
  BY RegistryStep, RegistryTyped DEF TypeOK
<1>t. /\ turn \in [RunIds -> Turns] /\ cancelled \in [RunIds -> BOOLEAN]
      /\ queue \in Seq(Requests) /\ desk \in RunIds \union {None}
      /\ stopping \in SUBSET RunIds /\ open \in SUBSET Chats
  BY DEF TypeOK, Turns
<1>q. ASSUME /\ turn' \in [RunIds -> Turns] /\ cancelled' \in [RunIds -> BOOLEAN]
             /\ queue' \in Seq(Requests) /\ desk' \in RunIds \union {None}
             /\ stopping' \in SUBSET RunIds /\ open' \in SUBSET Chats
      PROVE  TypeOK'
  BY <1>0, <1>q DEF TypeOK, Turns
<1>1. ASSUME NEW c \in Chats, NEW r \in RunIds, StartTurn(c, r)
      PROVE  TypeOK'
  <2>1. \A phase \in {"idle", "leaked"} :
            [Unused EXCEPT !.phase = phase, !.session = c] \in Turns
    BY <1>p, StartTyped
  <2>2. PICK phase \in {"idle", "leaked"} :
            turn' = [turn EXCEPT ![r] = [Unused EXCEPT !.phase = phase, !.session = c]]
    BY <1>1, Zenon DEF StartTurn
  <2>t. turn' \in [RunIds -> Turns]
    BY <1>t, <2>1, <2>2
  <2>3. QED
    BY <1>1, <1>t, <1>q, <2>t DEF StartTurn
<1>2. ASSUME NEW r \in RunIds, BeginRound(r)
      PROVE  TypeOK'
  <2>1. [turn[r] EXCEPT !.phase = "acting", !.rounds = @ + 1] \in Turns
    <3>1. turn[r] \in Turns /\ turn[r].rounds < MaxRounds
      BY <1>2, <1>t DEF BeginRound, RoundsLeft
    <3>2. turn[r].rounds + 1 \in 0 .. MaxRounds
      BY <3>1, RunsAssumption DEF Turns
    <3>3. QED
      BY <1>p, <3>1, <3>2 DEF Turns
  <2>2. turn' \in [RunIds -> Turns]
    BY <1>2, <1>t, <2>1 DEF BeginRound
  <2>3. QED
    BY <1>2, <1>t, <1>q, <2>2 DEF BeginRound
<1>3. ASSUME NEW r \in RunIds,
             \/ OtherTool(r) \/ AskPermission(r) \/ Answered(r) \/ LaunchReply(r) \/ BeginAnswer(r) \/ EndOk(r) \/ EndErr(r)
      PROVE  TypeOK'
  <2>1. ASSUME NEW phase \in {"idle", "gated", "answering", "reported"}, Move(r, phase)
        PROVE  turn' \in [RunIds -> Turns]
    <3>1. phase \in Phases
      BY <1>p
    <3>2. QED
      BY <1>t, <2>1, <3>1, MoveTyped DEF Move
  <2>2. ASSUME turn' = [turn EXCEPT ![r].phase = "idle", ![r].child = None]
        PROVE  turn' \in [RunIds -> Turns]
    <3>1. "idle" \in Phases
      BY <1>p
    <3>2. QED
      BY <1>t, <2>2, <3>1, MoveTyped
  <2>3. turn' \in [RunIds -> Turns]
    BY <1>3, <2>1, <2>2 DEF OtherTool, AskPermission, Answered, LaunchReply, BeginAnswer, EndOk, EndErr
  <2>4. QED
    BY <1>3, <1>t, <1>q, <2>3 DEF OtherTool, AskPermission, Answered, LaunchReply, BeginAnswer, EndOk, EndErr
<1>4. ASSUME NEW r \in RunIds, NEW a \in AgentIds, AwaitLaunch(r, a)
      PROVE  turn' \in [RunIds -> Turns] /\ queue' \in Seq(Requests)
  <2>1. [agent |-> a, asker |-> r] \in Requests
    BY DEF Requests
  <2>2. turn' \in [RunIds -> Turns]
    BY <1>4, <1>p, <1>t, MoveTyped DEF AwaitLaunch
  <2>3. queue' \in Seq(Requests)
    BY <1>4, <1>t, <2>1 DEF AwaitLaunch
  <2>4. QED
    BY <2>2, <2>3
<1>5. ASSUME NEW r \in RunIds, NEW a \in AgentIds, Spawn(r, a)
      PROVE  TypeOK'
  <2>1. CASE AwaitLaunch(r, a)
    BY <1>4, <1>5, <1>t, <1>q, <2>1 DEF Spawn
  <2>2. CASE ForkRefused(r)
    <3>1. turn' \in [RunIds -> Turns]
      BY <1>p, <1>t, <2>2, MoveTyped DEF ForkRefused, Move
    <3>2. QED
      BY <1>5, <1>t, <1>q, <2>2, <3>1 DEF Spawn, ForkRefused
  <2>3. QED
    BY <1>5, <2>1, <2>2 DEF Spawn
<1>6. ASSUME NEW r \in RunIds, NEW a \in AgentIds, Followup(r, a)
      PROVE  TypeOK'
  BY <1>4, <1>6, <1>t, <1>q DEF Followup
<1>7. ASSUME NEW r \in RunIds, FinishRun(r)
      PROVE  TypeOK'
  <2>1. [Unused EXCEPT !.phase = "done"] \in Turns
    BY <1>p, StartTyped DEF Unused
  <2>2. QED
    BY <1>7, <1>t, <1>q, <2>1 DEF FinishRun
<1>8. ASSUME NEW r \in RunIds, AttachLaunch(r)
      PROVE  TypeOK'
  <2>1. [Unused EXCEPT !.phase = "starting", !.session = Head(queue).agent] \in Turns
    <3>1. Head(queue).agent \in Registry!Sessions
      BY <1>8, <1>p, HeadTyped DEF AttachLaunch
    <3>2. QED
      BY <1>p, <3>1, StartTyped
  <2>2. QED
    BY <1>8, <1>t, <1>q, <2>1 DEF AttachLaunch
<1>9. CASE RefuseLaunch
  <2>1. Head(queue).asker \in RunIds /\ Tail(queue) \in Seq(Requests)
    BY <1>9, HeadTyped DEF RefuseLaunch
  <2>2. turn' \in [RunIds -> Turns]
    BY <1>9, <1>p, <1>t, <2>1, MoveTyped DEF RefuseLaunch
  <2>3. QED
    BY <1>9, <1>t, <1>q, <2>1, <2>2 DEF RefuseLaunch
<1>10. CASE RegisterLaunch \/ AbandonLaunch
  <2>1. desk \in RunIds /\ Head(queue).asker \in RunIds /\ Tail(queue) \in Seq(Requests)
    BY <1>10, <1>t, HeadTyped DEF RegisterLaunch, AbandonLaunch, Arranged, DeskServesHead
  <2>2. \A p, q \in Phases : [turn EXCEPT ![desk].phase = p, ![Head(queue).asker].phase = q]
                                 \in [RunIds -> Turns]
    <3> TAKE p, q \in Phases
    <3>1. [turn EXCEPT ![desk].phase = p] \in [RunIds -> Turns]
      BY <1>t, <2>1, MoveTyped
    <3>2. [[turn EXCEPT ![desk].phase = p] EXCEPT ![Head(queue).asker].phase = q]
              \in [RunIds -> Turns]
      BY <2>1, <3>1, MoveTyped
    <3>3. QED
      BY <3>2
  <2>3. turn' \in [RunIds -> Turns]
    <3>1. PICK p, q \in Phases : turn' = [turn EXCEPT ![desk].phase = p,
                                                   ![Head(queue).asker].phase = q]
      BY <1>10, <1>p, Zenon DEF RegisterLaunch, AbandonLaunch
    <3>2. QED
      BY <2>2, <3>1
  <2>4. QED
    BY <1>10, <1>t, <1>q, <2>1, <2>3 DEF RegisterLaunch, AbandonLaunch
<1>11. ASSUME NEW r \in RunIds, StopRun(r)
       PROVE  TypeOK'
  BY <1>11, <1>t, <1>q DEF StopRun
<1>12. ASSUME NEW r \in RunIds, VisitStopped(r)
       PROVE  TypeOK'
  <2>1. DescendantRuns(r) \subseteq RunIds
    BY DEF DescendantRuns, TypeOK, Registry!TypeOK, Registry!Agents
  <2>2. QED
    BY <1>12, <1>t, <1>q, <2>1 DEF VisitStopped
<1>13. ASSUME NEW a \in AgentIds, Interrupt(a)
       PROVE  TypeOK'
  <2>1. agents[a].run \in RunIds \union {None}
    BY DEF TypeOK, Registry!TypeOK, Registry!Agents
  <2>2. QED
    BY <1>13, <1>t, <1>q, <2>1 DEF Interrupt
<1>14. ASSUME NEW a \in AgentIds, Steer(a)
       PROVE  TypeOK'
  BY <1>14, <1>t, <1>q DEF Steer, runVars
<1>15. ASSUME NEW c \in Chats, DeleteChat(c)
       PROVE  TypeOK'
  BY <1>15, <1>t, <1>q DEF DeleteChat
<1>16. CASE UNCHANGED vars
  BY <1>16, <1>t, <1>q DEF vars, runVars
<1>17. QED
  BY <1>1, <1>2, <1>3, <1>5, <1>6, <1>7, <1>8, <1>9, <1>10, <1>11, <1>12, <1>13,
     <1>14, <1>15, <1>16 DEF Next, Task, Supervisor, Operator

-----------------------------------------------------------------------------
(* What a step leaves of the chats, and of the other runs                  *)

Kept ==
    \A a \in AgentIds :
        /\ agents[a].chat # None => agents'[a].chat = agents[a].chat
        /\ agents'[a].status = "absent" => agents'[a].chat = None

Onto(r, phase, child) ==
    /\ turn'[r].phase = phase /\ turn'[r].child = child
    /\ turn'[r].session = turn[r].session
    /\ \A q \in RunIds \ {r} : turn'[q] = turn[q]

(* What an assignment to a run does to the runs.                           *)
LEMMA Moved ==
    ASSUME TypeOK, NEW r \in RunIds, NEW phase
    PROVE  /\ Move(r, phase) => Onto(r, phase, turn[r].child)
           /\ \A a : turn' = [turn EXCEPT ![r].phase = phase, ![r].child = a]
                       => Onto(r, phase, a)
           /\ turn' = [turn EXCEPT ![r].phase = phase, ![r].rounds = @ + 1]
                       => Onto(r, phase, turn[r].child)
BY DEF TypeOK, Move, Onto

(* No method of the registry but remove_root parts a subagent from its     *)
(* chat.                                                                   *)
LEMMA AgentsKept ==
    ASSUME TypeOK, Arranged, Called
    PROVE  Kept
<1> USE DEF Kept, Registry!Live, Registry!Final
<1>t. /\ agents \in [AgentIds -> Registry!Agents]
      /\ \A a \in AgentIds : agents[a].status = "absent" => agents[a].chat = None
  BY DEF TypeOK, Registry!TypeOK, Arranged
<1>r. \A a \in AgentIds : agents[a] \in Registry!Agents
  BY <1>t
<1> USE DEF Registry!Agents
<1>1. ASSUME NEW a \in AgentIds, NEW c \in Chats, NEW s, NEW p, Registry!Reserve(a, c, s, p)
      PROVE  Kept
  BY <1>1, <1>t DEF Registry!Reserve
<1>2. ASSUME NEW a \in AgentIds, NEW p, Registry!Restart(a, p)
      PROVE  Kept
  BY <1>2, <1>t, <1>r DEF Registry!Restart
<1>3. ASSUME NEW a \in AgentIds, NEW r, Registry!AttachRun(a, r)
      PROVE  Kept
  BY <1>3, <1>t, <1>r DEF Registry!AttachRun
<1>4. ASSUME NEW a \in AgentIds, Registry!FailReserved(a)
      PROVE  Kept
  BY <1>4, <1>t, <1>r DEF Registry!FailReserved
<1>5. ASSUME NEW a \in AgentIds, Registry!RequestStop(a)
      PROVE  Kept
  BY <1>5, <1>t, <1>r DEF Registry!RequestStop
<1>6. ASSUME NEW a \in AgentIds, Registry!SendMessage(a)
      PROVE  Kept
  BY <1>6, <1>t, <1>r DEF Registry!SendMessage
<1>7. ASSUME NEW r \in RunIds, NEW outcome \in Registry!Outcomes,
             Registry!CompleteRun(r, outcome)
      PROVE  Kept
  <2> DEFINE a == runToAgent[r]
             status == Registry!EndStatus(a, outcome)
  <2>1. a \in AgentIds
    BY <1>7 DEF Registry!CompleteRun, Registry!CompletionApplies, TypeOK, Registry!TypeOK
  <2>2. status \in Registry!Final
    BY DEF Registry!EndStatus, Registry!Outcomes
  <2>3. agents' = [agents EXCEPT ![a].status = status]
    BY <1>7 DEF Registry!CompleteRun
  <2> HIDE DEF a, status
  <2>4. QED
    BY <1>t, <1>r, <2>1, <2>2, <2>3
<1>8. ASSUME UNCHANGED agents
      PROVE  Kept
  BY <1>8, <1>t
<1>9. QED
  BY <1>1, <1>2, <1>3, <1>4, <1>5, <1>6, <1>7, <1>8
     DEF Called, Registry!AgentStep, Registry!RunStep, Registry!Drain, registryVars

-----------------------------------------------------------------------------
(* The arrangement is inductive                                            *)

(* A run that neither starts nor takes up waiting moves on alone.          *)
LEMMA ArrangedMove ==
    ASSUME TypeOK, Arranged, Kept, UNCHANGED <<queue, desk>>,
           NEW r \in RunIds, NEW phase, NEW child, Onto(r, phase, child),
           turn[r].phase \in Registered \ {"launching"},
           phase \in {"idle", "acting", "gated", "answering", "reported"}
    PROVE  Arranged'
<1> USE RunsAssumption DEF Onto, Kept, Registered, Held, Asking
<1>t. \A q \in RunIds : turn[q].session \in Chats \union AgentIds \union {None}
  BY TurnTyped
<1>q. \A i \in 1 .. Len(queue) : queue[i].asker \in RunIds \ {r}
  <2>1. queue \in Seq(Requests)
    BY DEF TypeOK
  <2>2. \A i \in 1 .. Len(queue) : queue[i] \in Requests
    BY <2>1
  <2>3. QED
    BY <2>2 DEF Requests, Arranged, RequestsWait
<1>d. desk # None => desk \in RunIds \ {r}
  BY DEF TypeOK, Arranged, DeskServesHead
<1>1. OneTurn'
  BY DEF Arranged, OneTurn
<1>2. ChatsKept'
  BY <1>t DEF Arranged, ChatsKept, ChatOf
<1>3. AskersKnown'
  BY <1>t DEF Arranged, AskersKnown, ChatsKept, ChatOf
<1>4. RequestsWait'
  BY <1>q DEF Arranged, RequestsWait
<1>5. DeskServesHead'
  BY <1>d DEF Arranged, DeskServesHead
<1>6. QED
  BY <1>1, <1>2, <1>3, <1>4, <1>5 DEF Arranged

(* Nothing happens to the runs and the queue.                              *)
LEMMA ArrangedStill ==
    ASSUME TypeOK, Arranged, Kept, UNCHANGED <<turn, queue, desk>>
    PROVE  Arranged'
<1> USE RunsAssumption DEF Kept, Registered, Held, Asking
<1>t. \A q \in RunIds : turn[q].session \in Chats \union AgentIds \union {None}
  BY TurnTyped
<1>1. ChatsKept'
  BY <1>t DEF Arranged, ChatsKept, ChatOf
<1>2. AskersKnown'
  BY <1>t DEF Arranged, AskersKnown, ChatsKept, ChatOf
<1>3. QED
  BY <1>1, <1>2 DEF Arranged, OneTurn, RequestsWait, DeskServesHead

(* A run asks for a child of its chat and waits.                           *)
LEMMA ArrangedAsk ==
    ASSUME TypeOK, Arranged, Kept, UNCHANGED desk,
           NEW r \in RunIds, NEW a \in AgentIds, AwaitLaunch(r, a),
           turn[r].phase = "acting", agents'[a].chat = ChatOf(r)
    PROVE  Arranged'
<1> USE RunsAssumption DEF Kept, Registered, Held, Asking
<1>t. \A q \in RunIds : turn[q].session \in Chats \union AgentIds \union {None}
  BY TurnTyped
<1>o. Onto(r, "launching", a)
  BY Moved DEF AwaitLaunch
<1> USE DEF Onto
<1>q. /\ queue \in Seq(Requests) /\ Len(queue) \in Nat
      /\ \A i \in 1 .. Len(queue) : queue[i].asker \in RunIds \ {r}
  <2>1. queue \in Seq(Requests)
    BY DEF TypeOK
  <2>2. \A i \in 1 .. Len(queue) : queue[i] \in Requests
    BY <2>1
  <2>3. QED
    BY <2>1, <2>2 DEF Requests, Arranged, RequestsWait
<1>a. /\ Len(queue') = Len(queue) + 1
      /\ \A i \in 1 .. Len(queue) : queue'[i] = queue[i]
      /\ queue'[Len(queue) + 1] = [agent |-> a, asker |-> r]
      /\ queue # << >> => Head(queue') = Head(queue) /\ queue' # << >>
  <2>1. queue' = Append(queue, [agent |-> a, asker |-> r])
    BY DEF AwaitLaunch
  <2>2. QED
    BY <1>q, <2>1
<1>1. OneTurn'
  BY <1>o DEF Arranged, OneTurn
<1>2. ChatsKept'
  BY <1>o, <1>t DEF Arranged, ChatsKept, ChatOf
<1>3. AskersKnown'
  <2>1. ASSUME NEW q \in RunIds, turn'[q].phase \in Asking
        PROVE  turn'[q].child \in AgentIds /\ agents'[turn'[q].child].chat = ChatOf(q)'
    <3>1. ChatOf(q)' = ChatOf(q)
      BY <1>o, <1>t, <2>1 DEF Arranged, ChatsKept, ChatOf
    <3>2. CASE q = r
      BY <1>o, <3>1, <3>2
    <3>3. CASE q # r
      BY <1>o, <2>1, <3>1, <3>3 DEF Arranged, AskersKnown, ChatsKept
    <3>4. QED
      BY <3>2, <3>3
  <2>2. QED
    BY <2>1 DEF AskersKnown
<1>4. RequestsWait'
  <2>1. \A i \in 1 .. Len(queue') :
            \/ i \in 1 .. Len(queue) /\ queue'[i] = queue[i]
            \/ i = Len(queue) + 1 /\ queue'[i] = [agent |-> a, asker |-> r]
    BY <1>a, <1>q
  <2>2. ASSUME NEW i \in 1 .. Len(queue')
        PROVE  /\ turn'[queue'[i].asker].phase = "launching"
               /\ turn'[queue'[i].asker].child = queue'[i].agent
    <3>1. CASE i \in 1 .. Len(queue) /\ queue'[i] = queue[i]
      BY <1>o, <1>q, <3>1 DEF Arranged, RequestsWait
    <3>2. CASE queue'[i] = [agent |-> a, asker |-> r]
      BY <1>o, <3>2
    <3>3. QED
      BY <2>1, <2>2, <3>1, <3>2
  <2>3. ASSUME NEW i \in 1 .. Len(queue'), NEW j \in 1 .. Len(queue'),
               queue'[i].asker = queue'[j].asker
        PROVE  i = j
    <3>1. [agent |-> a, asker |-> r].asker = r
      OBVIOUS
    <3>2. CASE i \in 1 .. Len(queue) /\ j \in 1 .. Len(queue)
      BY <2>1, <2>3, <1>q, <1>a, <3>2 DEF Arranged, RequestsWait
    <3>3. QED
      BY <1>q, <2>1, <2>3, <3>1, <3>2
  <2>4. QED
    BY <2>2, <2>3, Zenon DEF RequestsWait
<1>5. DeskServesHead'
  <2>1. \A q \in RunIds : turn'[q].phase = "starting" <=> turn[q].phase = "starting"
    BY <1>o
  <2>2. ASSUME desk # None
        PROVE  queue' # << >> /\ turn'[desk].session = Head(queue').agent
    <3>1. /\ desk \in RunIds \ {r}
          /\ queue # << >> /\ turn[desk].session = Head(queue).agent
      BY <2>2 DEF TypeOK, Arranged, DeskServesHead
    <3>2. QED
      BY <1>o, <1>a, <3>1
  <2>3. QED
    BY <2>1, <2>2 DEF Arranged, DeskServesHead
<1>6. QED
  BY <1>1, <1>2, <1>3, <1>4, <1>5 DEF Arranged

(* A turn starts or its run is removed: nobody waits on it.                *)
LEMMA ArrangedStartEnd ==
    ASSUME TypeOK, Arranged, Kept, UNCHANGED <<queue, desk>>, NEW r \in RunIds,
           \A q \in RunIds \ {r} : turn'[q] = turn[q],
           \/ /\ turn[r].phase = "unused" /\ turn'[r].phase \in {"idle", "leaked"}
              /\ turn'[r].session \in Chats /\ ~TurnOpen(turn'[r].session)
           \/ turn[r].phase = "reported" /\ turn'[r].phase = "done"
    PROVE  Arranged'
<1> USE RunsAssumption DEF Kept, Registered, Held, Asking
<1>t. \A q \in RunIds : turn[q].session \in Chats \union AgentIds \union {None}
  BY TurnTyped
<1>q. \A i \in 1 .. Len(queue) : queue[i].asker \in RunIds \ {r}
  <2>1. queue \in Seq(Requests)
    BY DEF TypeOK
  <2>2. \A i \in 1 .. Len(queue) : queue[i] \in Requests
    BY <2>1
  <2>3. QED
    BY <2>2 DEF Requests, Arranged, RequestsWait
<1>d. desk # None => desk \in RunIds \ {r}
  BY DEF TypeOK, Arranged, DeskServesHead
<1>1. OneTurn'
  BY DEF Arranged, OneTurn, TurnOpen
<1>2. ChatsKept'
  BY <1>t DEF Arranged, ChatsKept, ChatOf
<1>3. AskersKnown'
  <2>1. ASSUME NEW q \in RunIds, turn'[q].phase \in Asking
        PROVE  turn'[q].child \in AgentIds /\ agents'[turn'[q].child].chat = ChatOf(q)'
    <3>1. q # r /\ turn'[q] = turn[q] /\ turn[q].phase \in Asking
      BY <2>1
    <3>2. ChatOf(q)' = ChatOf(q)
      BY <1>t, <3>1 DEF Arranged, ChatsKept, ChatOf
    <3>3. QED
      BY <3>1, <3>2 DEF Arranged, AskersKnown, ChatsKept
  <2>2. QED
    BY <2>1 DEF AskersKnown
<1>4. RequestsWait'
  BY <1>q DEF Arranged, RequestsWait
<1>5. DeskServesHead'
  BY <1>d DEF Arranged, DeskServesHead
<1>6. QED
  BY <1>1, <1>2, <1>3, <1>4, <1>5 DEF Arranged

(* The request at the head: its asker waits for a child of its chat, and   *)
(* nobody else waits for that request.                                     *)
LEMMA HeadKnown ==
    ASSUME TypeOK, Arranged, queue # << >>
    PROVE  /\ turn[Head(queue).asker].phase = "launching"
           /\ turn[Head(queue).asker].child = Head(queue).agent
           /\ agents[Head(queue).agent].chat = ChatOf(Head(queue).asker)
           /\ ChatOf(Head(queue).asker) \in Chats
           /\ \A i \in 1 .. Len(Tail(queue)) :
                  Tail(queue)[i].asker \in RunIds \ {Head(queue).asker}
<1>1. 1 \in 1 .. Len(queue) /\ \A i \in 1 .. Len(Tail(queue)) : i + 1 \in 1 .. Len(queue)
  BY HeadTyped
<1>2. \A i \in 1 .. Len(queue) : queue[i] \in Requests
  BY DEF TypeOK
<1>3. /\ turn[Head(queue).asker].phase = "launching"
      /\ turn[Head(queue).asker].child = Head(queue).agent
  BY <1>1, HeadTyped DEF Arranged, RequestsWait
<1>4. \A i \in 1 .. Len(Tail(queue)) : Tail(queue)[i].asker \in RunIds \ {Head(queue).asker}
  <2>1. ASSUME NEW i \in 1 .. Len(Tail(queue))
        PROVE  Tail(queue)[i].asker \in RunIds \ {Head(queue).asker}
    <3>1. Tail(queue)[i] = queue[i + 1] /\ Head(queue) = queue[1]
      BY HeadTyped
    <3>2. i + 1 # 1
      OBVIOUS
    <3>3. QED
      BY <1>1, <1>2, <3>1, <3>2 DEF Requests, Arranged, RequestsWait
  <2>2. QED
    BY <2>1
<1>5. QED
  BY <1>3, <1>4, HeadTyped DEF Arranged, AskersKnown, ChatsKept, Asking, Held, Registered

(* The supervisor attaches a run to the child at the head.                 *)
LEMMA ArrangedAttach ==
    ASSUME TypeOK, Arranged, Kept, NEW r \in RunIds, AttachLaunch(r)
    PROVE  Arranged'
<1> USE RunsAssumption DEF Kept, Registered, Held, Asking
<1>t. \A q \in RunIds : turn[q].session \in Chats \union AgentIds \union {None}
  BY TurnTyped
<1>o. /\ turn'[r].phase = "starting" /\ turn'[r].session = Head(queue).agent
      /\ \A q \in RunIds \ {r} : turn'[q] = turn[q]
      /\ turn[r].phase = "unused" /\ queue # << >> /\ queue' = queue
      /\ desk = None /\ desk' = r
  BY DEF AttachLaunch, FreshRun, TypeOK, Unused
<1>h. /\ agents[Head(queue).agent].chat \in Chats /\ Head(queue).agent \in AgentIds
  BY <1>o, HeadKnown, HeadTyped
<1>q. \A i \in 1 .. Len(queue) : queue[i].asker \in RunIds \ {r}
  <2>1. \A i \in 1 .. Len(queue) : queue[i] \in Requests
    BY DEF TypeOK
  <2>2. QED
    BY <1>o, <2>1 DEF Requests, Arranged, RequestsWait
<1>1. OneTurn'
  BY <1>o DEF Arranged, OneTurn
<1>2. ChatsKept'
  <2>1. turn'[r].session # None /\ ChatOf(r)' \in Chats
    BY <1>o, <1>h DEF ChatOf
  <2>2. QED
    BY <1>o, <1>t, <2>1 DEF Arranged, ChatsKept, ChatOf
<1>3. AskersKnown'
  <2>1. ASSUME NEW q \in RunIds, turn'[q].phase \in Asking
        PROVE  turn'[q].child \in AgentIds /\ agents'[turn'[q].child].chat = ChatOf(q)'
    <3>1. q # r /\ turn'[q] = turn[q] /\ turn[q].phase \in Asking
      BY <1>o, <2>1
    <3>2. ChatOf(q)' = ChatOf(q)
      BY <1>t, <3>1 DEF Arranged, ChatsKept, ChatOf
    <3>3. QED
      BY <3>1, <3>2 DEF Arranged, AskersKnown, ChatsKept
  <2>2. QED
    BY <2>1 DEF AskersKnown
<1>4. RequestsWait'
  BY <1>o, <1>q DEF Arranged, RequestsWait
<1>5. DeskServesHead'
  BY <1>o DEF Arranged, DeskServesHead
<1>6. QED
  BY <1>1, <1>2, <1>3, <1>4, <1>5 DEF Arranged

(* The request at the head is answered: its asker goes on waiting for the  *)
(* reply, and the run on the desk, if there is one, starts or is given up. *)
LEMMA ArrangedServed ==
    ASSUME TypeOK, Arranged, Kept, RefuseLaunch \/ RegisterLaunch \/ AbandonLaunch
    PROVE  Arranged'
<1> USE RunsAssumption DEF Kept, Registered, Held, Asking
<1> DEFINE asker == Head(queue).asker
<1>t. \A q \in RunIds : turn[q].session \in Chats \union AgentIds \union {None}
  BY TurnTyped
<1>e. queue # << >> /\ queue' = Tail(queue) /\ desk' = None
  BY DEF RefuseLaunch, RegisterLaunch, AbandonLaunch, Arranged, DeskServesHead
<1>h. /\ asker \in RunIds /\ turn[asker].phase = "launching"
      /\ desk # None => desk \in RunIds /\ turn[desk].phase = "starting" /\ desk # asker
  BY <1>e, HeadTyped, HeadKnown DEF TypeOK, Arranged, DeskServesHead
<1>o. /\ \A q \in RunIds \ {asker, desk} : turn'[q] = turn[q]
      /\ turn'[asker].phase \in {"launched", "refused"}
      /\ turn'[asker].session = turn[asker].session
      /\ turn'[asker].child = turn[asker].child
      /\ desk # None =>
             /\ turn'[desk].session = turn[desk].session
             /\ \/ turn'[desk].phase = "done"
                \/ /\ turn'[desk].phase \in {"idle", "leaked"}
                   /\ ~TurnOpen(turn[desk].session)
  <2> HIDE DEF asker
  <2>1. CASE RefuseLaunch
    <3>1. turn' = [turn EXCEPT ![asker].phase = "refused"] /\ desk = None
      BY <2>1 DEF RefuseLaunch, asker
    <3>2. QED
      BY <1>h, <3>1 DEF TypeOK
  <2>2. CASE RegisterLaunch
    <3>1. /\ turn' = [turn EXCEPT ![desk].phase = "idle", ![asker].phase = "launched"]
          /\ desk # None /\ ~TurnOpen(turn[desk].session)
      BY <2>2 DEF RegisterLaunch, asker
    <3>2. QED
      BY <1>h, <3>1 DEF TypeOK
  <2>3. CASE AbandonLaunch
    <3>1. PICK phase \in {"done", "leaked"} :
              /\ phase = "leaked" => ~TurnOpen(turn[desk].session)
              /\ turn' = [turn EXCEPT ![desk].phase = phase, ![asker].phase = "refused"]
              /\ desk # None
      BY <2>3, Zenon DEF AbandonLaunch, asker
    <3>2. QED
      BY <1>h, <3>1 DEF TypeOK
  <2>4. QED
    BY <2>1, <2>2, <2>3
<1>q. \A i \in 1 .. Len(queue') : /\ queue'[i].asker \in RunIds \ {asker, desk}
                                  /\ i + 1 \in 1 .. Len(queue) /\ queue'[i] = queue[i + 1]
  <2>1. ASSUME NEW i \in 1 .. Len(Tail(queue))
        PROVE  /\ i + 1 \in 1 .. Len(queue) /\ Tail(queue)[i] = queue[i + 1]
               /\ Tail(queue)[i].asker \in RunIds \ {asker}
               /\ turn[Tail(queue)[i].asker].phase = "launching"
    <3>1. i + 1 \in 1 .. Len(queue) /\ Tail(queue)[i] = queue[i + 1]
      BY <1>e, HeadTyped
    <3>2. QED
      BY <1>e, <3>1, HeadKnown DEF Arranged, RequestsWait
  <2>2. QED
    BY <1>e, <1>h, <2>1
<1> HIDE DEF asker
<1>1. OneTurn'
  <2>1. \A q \in RunIds : turn'[q].session = turn[q].session
    BY <1>o, <1>h
  <2>2. \A q \in RunIds : turn'[q].phase \in Registered =>
            \/ turn[q].phase \in Registered
            \/ q = desk /\ ~TurnOpen(turn[q].session)
    BY <1>o, <1>h
  <2>3. QED
    BY <1>h, <2>1, <2>2 DEF Arranged, OneTurn, TurnOpen
<1>2. \A q \in RunIds : turn'[q].phase \in Held =>
          turn[q].phase \in Held /\ turn'[q].session = turn[q].session
  BY <1>o, <1>h
<1>3. \A q \in RunIds : turn'[q].phase \in Held => ChatOf(q)' = ChatOf(q)
  BY <1>t, <1>2 DEF Arranged, ChatsKept, ChatOf
<1>4. ChatsKept'
  BY <1>2, <1>3 DEF Arranged, ChatsKept
<1>5. AskersKnown'
  <2>1. ASSUME NEW q \in RunIds, turn'[q].phase \in Asking
        PROVE  turn'[q].child \in AgentIds /\ agents'[turn'[q].child].chat = ChatOf(q)'
    <3>1. turn[q].phase \in Asking /\ turn'[q].child = turn[q].child
      BY <1>o, <1>h, <2>1
    <3>2. QED
      BY <1>3, <2>1, <3>1 DEF Arranged, AskersKnown, ChatsKept
  <2>2. QED
    BY <2>1 DEF AskersKnown
<1>6. RequestsWait'
  <2>1. \A i \in 1 .. Len(queue') : turn'[queue'[i].asker] = turn[queue[i + 1].asker]
    BY <1>o, <1>q
  <2>2. ASSUME NEW i \in 1 .. Len(queue'), NEW j \in 1 .. Len(queue'),
               queue'[i].asker = queue'[j].asker
        PROVE  i = j
    <3>1. i + 1 = j + 1
      BY <1>q, <2>2 DEF Arranged, RequestsWait
    <3>2. QED
      BY <3>1
  <2>3. ASSUME NEW i \in 1 .. Len(queue')
        PROVE  /\ turn'[queue'[i].asker].phase = "launching"
               /\ turn'[queue'[i].asker].child = queue'[i].agent
    BY <1>q, <2>1, <2>3 DEF Arranged, RequestsWait
  <2>4. QED
    BY <2>2, <2>3, Zenon DEF RequestsWait
<1>7. DeskServesHead'
  BY <1>e, <1>o, <1>h DEF Arranged, DeskServesHead
<1>8. QED
  BY <1>1, <1>4, <1>5, <1>6, <1>7 DEF Arranged

(* A chat is deleted: no run works for it, none that starts included.      *)
LEMMA ArrangedDelete ==
    ASSUME TypeOK, Arranged, NEW c \in Chats, DeleteChat(c)
    PROVE  /\ Arranged'
           /\ \A a \in AgentIds : agents[a].chat # c => agents'[a] = agents[a]
           /\ \A r \in RunIds : turn[r].phase \in Held => ChatOf(r) # c
<1> USE RunsAssumption DEF Registered, Held, Asking
<1>t. \A q \in RunIds : turn[q].session \in Chats \union AgentIds \union {None}
  BY TurnTyped
<1>u. UNCHANGED <<turn, queue, desk>>
  BY DEF DeleteChat
<1>a. /\ \A a \in AgentIds : agents[a].chat # c => agents'[a] = agents[a]
      /\ \A a \in AgentIds : agents'[a].status = "absent" => agents'[a].chat = None
  BY DEF DeleteChat, Registry!RemoveRoot, Registry!Blank, Arranged
<1>r. \A r \in RunIds : turn[r].phase \in Held => ChatOf(r) # c
  <2>1. \A r \in RunIds : turn[r].phase \in Registered => ChatOf(r) # c
    BY DEF DeleteChat
  <2>2. ASSUME NEW r \in RunIds, turn[r].phase = "starting"
        PROVE  ChatOf(r) # c
    <3>1. /\ desk = r /\ queue # << >> /\ turn[r].session = Head(queue).agent
      BY <2>2 DEF Arranged, DeskServesHead, TypeOK
    <3>2. ChatOf(r) = ChatOf(Head(queue).asker)
      BY <3>1, HeadKnown, HeadTyped DEF ChatOf
    <3>3. QED
      BY <2>1, <3>1, <3>2, HeadKnown, HeadTyped
  <2>3. QED
    BY <2>1, <2>2
<1>1. \A r \in RunIds : turn[r].phase \in Held => ChatOf(r)' = ChatOf(r)
  BY <1>a, <1>r, <1>t, <1>u DEF ChatOf
<1>2. ChatsKept'
  BY <1>1, <1>u DEF Arranged, ChatsKept
<1>3. AskersKnown'
  BY <1>1, <1>a, <1>r, <1>u DEF Arranged, AskersKnown
<1>4. QED
  BY <1>a, <1>r, <1>u, <1>2, <1>3 DEF Arranged, OneTurn, RequestsWait, DeskServesHead

(* Every step keeps the arrangement.                                       *)
LEMMA ArrangedStep ==
    ASSUME TypeOK, Arranged, [Next]_vars
    PROVE  Arranged'
<1> USE DEF Registered
<1>1. CASE \E c \in Chats : DeleteChat(c)
  BY <1>1, ArrangedDelete
<1>2. CASE Called
  <2>k. Kept
    BY <1>2, AgentsKept
  <2>1. ASSUME NEW r \in RunIds, NEW phase \in {"idle", "acting", "gated", "answering", "reported"},
               NEW child, Onto(r, phase, child), UNCHANGED <<queue, desk>>,
               turn[r].phase \in Registered \ {"launching"}
        PROVE  Arranged'
    BY <2>k, <2>1, ArrangedMove
  <2>2. ASSUME NEW r \in RunIds,
               \/ BeginRound(r) \/ OtherTool(r) \/ AskPermission(r) \/ Answered(r) \/ LaunchReply(r)
               \/ BeginAnswer(r) \/ EndOk(r) \/ EndErr(r)
        PROVE  Arranged'
    <3>1. CASE BeginRound(r)
      BY <2>1, <3>1, Moved DEF BeginRound
    <3>2. CASE OtherTool(r) \/ AskPermission(r) \/ Answered(r) \/ BeginAnswer(r) \/ EndOk(r) \/ EndErr(r)
      <4>1. PICK phase \in {"idle", "gated", "answering", "reported"} : Move(r, phase)
        BY <3>2 DEF OtherTool, AskPermission, Answered, BeginAnswer, EndOk, EndErr
      <4>2. Onto(r, phase, turn[r].child)
        BY <4>1, Moved
      <4>3. UNCHANGED <<queue, desk>> /\ turn[r].phase \in {"idle", "acting", "gated", "answering"}
        BY <3>2 DEF OtherTool, AskPermission, Answered, BeginAnswer, EndOk, EndErr, MayFail
      <4>4. QED
        BY <2>1, <4>2, <4>3
    <3>3. CASE LaunchReply(r)
      <4>1. Onto(r, "idle", None)
        BY <3>3, Moved DEF LaunchReply
      <4>2. UNCHANGED <<queue, desk>> /\ turn[r].phase \in {"launched", "refused"}
        BY <3>3 DEF LaunchReply
      <4>3. QED
        BY <2>1, <4>1, <4>2
    <3>4. QED
      BY <2>2, <3>1, <3>2, <3>3
  <2>3. ASSUME NEW r \in RunIds, NEW a \in AgentIds, Spawn(r, a)
        PROVE  Arranged'
    <3>1. CASE AwaitLaunch(r, a)
      <4>1. agents'[a].chat = ChatOf(r) /\ turn[r].phase = "acting" /\ UNCHANGED desk
        BY <2>3 DEF Spawn, Registry!Reserve, TypeOK, Registry!TypeOK
      <4>2. QED
        BY <2>k, <3>1, <4>1, ArrangedAsk
    <3>2. CASE ForkRefused(r)
      <4>1. Onto(r, "idle", turn[r].child)
        BY <3>2, Moved DEF ForkRefused
      <4>2. UNCHANGED <<queue, desk>> /\ turn[r].phase = "acting"
        BY <2>3, <3>2 DEF Spawn, ForkRefused
      <4>3. QED
        BY <2>1, <4>1, <4>2
    <3>3. QED
      BY <2>3, <3>1, <3>2 DEF Spawn
  <2>4. ASSUME NEW r \in RunIds, NEW a \in AgentIds, Followup(r, a)
        PROVE  Arranged'
    <3>1. ChatOf(r) \in Chats
      BY <2>4 DEF Followup, Arranged, ChatsKept, Held
    <3>2. agents'[a].chat = ChatOf(r) /\ turn[r].phase = "acting" /\ UNCHANGED desk
      BY <2>4, <2>k, <3>1, RunsAssumption DEF Followup, Kept
    <3>3. QED
      BY <2>4, <2>k, <3>2, ArrangedAsk DEF Followup
  <2>5. ASSUME NEW r \in RunIds, NEW c \in Chats, StartTurn(c, r)
        PROVE  Arranged'
    <3>1. PICK phase \in {"idle", "leaked"} :
              turn' = [turn EXCEPT ![r] = [Unused EXCEPT !.phase = phase, !.session = c]]
      BY <2>5, Zenon DEF StartTurn
    <3>2. /\ turn'[r].phase \in {"idle", "leaked"} /\ turn'[r].session = c
          /\ \A q \in RunIds \ {r} : turn'[q] = turn[q]
      BY <3>1 DEF Unused, TypeOK
    <3>3. turn[r].phase = "unused" /\ ~TurnOpen(c) /\ UNCHANGED <<queue, desk>>
      BY <2>5 DEF StartTurn, FreshRun
    <3>4. QED
      BY <2>k, <3>2, <3>3, ArrangedStartEnd
  <2>6. ASSUME NEW r \in RunIds, FinishRun(r)
        PROVE  Arranged'
    <3>1. turn'[r].phase = "done" /\ \A q \in RunIds \ {r} : turn'[q] = turn[q]
      BY <2>6 DEF FinishRun, Unused, TypeOK
    <3>2. turn[r].phase = "reported" /\ UNCHANGED <<queue, desk>>
      BY <2>6 DEF FinishRun
    <3>3. QED
      BY <2>k, <3>1, <3>2, ArrangedStartEnd
  <2>7. ASSUME NEW r \in RunIds, AttachLaunch(r)
        PROVE  Arranged'
    BY <2>k, <2>7, ArrangedAttach
  <2>8. CASE RefuseLaunch \/ RegisterLaunch \/ AbandonLaunch
    BY <2>k, <2>8, ArrangedServed
  <2>9. CASE \/ UNCHANGED vars
             \/ \E r \in RunIds : StopRun(r) \/ VisitStopped(r)
             \/ \E a \in AgentIds : Interrupt(a) \/ Steer(a)
    <3>1. UNCHANGED <<turn, queue, desk>>
      BY <2>9 DEF vars, runVars, StopRun, VisitStopped, Interrupt, Steer
    <3>2. QED
      BY <2>k, <3>1, ArrangedStill
  <2>10. QED
    BY <1>1, <2>2, <2>3, <2>4, <2>5, <2>6, <2>7, <2>8, <2>9
       DEF Next, Task, Supervisor, Operator
<1>3. QED
  BY <1>1, <1>2, CallStep

(* Together with the types the arrangement is an inductive invariant.      *)
LEMMA Arranges ==
    /\ Init => TypeOK /\ Arranged
    /\ TypeOK /\ Arranged /\ [Next]_vars => TypeOK' /\ Arranged'
<1>1. ASSUME Init
      PROVE  TypeOK /\ Arranged
  <2>1. Registry!TypeOK
    <3>1. Calls!Init => Calls!TypeOK
      BY RunsAssumption, Calls!TypedInit
    <3>2. QED
      BY <1>1, <3>1, SameInit, SameTypes DEF Init
  <2>2. Unused \in Turns
    BY RunsAssumption DEF Unused, Turns, Phases
  <2>3. TypeOK
    BY <1>1, <2>1, <2>2 DEF Init, TypeOK, Turns
  <2>4. Arranged
    BY <1>1, RunsAssumption
       DEF Init, Registry!Init, Registry!Blank, Unused, Registered, Held, Asking, Arranged,
           OneTurn, AskersKnown, RequestsWait, DeskServesHead, ChatsKept
  <2>5. QED
    BY <2>3, <2>4
<1>2. QED
  BY <1>1, TypeStep, ArrangedStep

(* The type invariant: run ids, phases, requests and the registry's maps   *)
(* stay typed whatever the runs, the supervisor and the operator do.       *)
THEOREM TypeCorrect == Spec => []TypeOK
BY Arranges, PTL DEF Spec

(* A session never has two registered turns.                               *)
THEOREM OneTurnAtATime == Spec => []OneTurn
<1>1. Spec => [](TypeOK /\ Arranged)
  BY Arranges, PTL DEF Spec
<1>2. Arranged => OneTurn
  BY DEF Arranged
<1>3. QED
  BY <1>1, <1>2, PTL

(* The runs implement the registry: everything proved of it holds of them. *)
THEOREM RegistryImplemented == Spec => Registry!Spec
<1>1. Spec => [](TypeOK /\ Arranged)
  BY Arranges, PTL DEF Spec
<1>2. Init => Registry!Init
  BY DEF Init
<1>3. TypeOK /\ Arranged /\ [Next]_vars => [Registry!Next]_(Registry!registryVars)
  BY RegistryStep DEF registryVars, Registry!registryVars
<1>4. QED
  BY <1>1, <1>2, <1>3, PTL DEF Spec, Registry!Spec

-----------------------------------------------------------------------------
(* One slot: a working child holds it                                      *)

(* No run works on a child whose launch somebody still waits for or was    *)
(* refused, but the one on the desk.                                       *)
NobodyYet ==
    \A r, q \in RunIds :
        /\ turn[r].phase \in {"launching", "refused"}
        /\ turn[q].phase \in Working /\ turn[q].session = turn[r].child
        => q = desk /\ Head(queue).asker = r

(* A run that waits for a launch belongs to the operator: a child's run    *)
(* has the only slot itself.                                               *)
RootsAsk == \A r \in RunIds : turn[r].phase \in Asking => ~IsChild(r)

Alone ==
    /\ limit = 1
    /\ RootsAsk
    /\ NobodyYet
    /\ LiveChildHoldsSlot

(* While the slot is free no child works.                                  *)
LEMMA FreeSlot ==
    ASSUME TypeOK, Alone, Calls!SlotsCounted, Registry!SlotFree
    PROVE  \A q \in RunIds : turn[q].phase \in Working => ~IsChild(q)
<1>1. Registry!Active = Calls!Active
  BY DEF Registry!Active, Calls!Active, Registry!Live, Calls!Live
<1>2. IsFiniteSet(Registry!Active)
  BY <1>1, Zenon DEF Calls!SlotsCounted, Calls!IsFiniteSet, IsFiniteSet
<1>3. Cardinality(Registry!Active) < 1
  <2>1. Registry!Cardinality(Registry!Active) < 1
    BY DEF Registry!SlotFree, Alone
  <2>2. Registry!Cardinality(Registry!Active) = Cardinality(Registry!Active)
    BY Zenon DEF Registry!Cardinality, Cardinality
  <2>3. QED
    BY <2>1, <2>2
<1>4. Registry!Active = {}
  <2>1. Cardinality(Registry!Active) \in Nat
    BY <1>2, FS_CardinalityType
  <2>2. Cardinality(Registry!Active) = 0
    BY <1>3, <2>1
  <2>3. QED
    BY <1>2, <2>2, FS_EmptySet
<1>5. QED
  BY <1>4 DEF Alone, LiveChildHoldsSlot, IsChild, Registry!Active

(* With one slot two runs never wait for the same child.                   *)
LEMMA OneAsker ==
    ASSUME TypeOK, Arranged, Alone, NEW r \in RunIds, NEW q \in RunIds,
           turn[r].phase \in Asking, turn[q].phase \in Asking,
           turn[r].child = turn[q].child
    PROVE  r = q
<1>1. turn[r].session = ChatOf(r) /\ turn[q].session = ChatOf(q)
  BY DEF Alone, RootsAsk, IsChild, ChatOf
<1>2. ChatOf(r) = ChatOf(q)
  BY DEF Arranged, AskersKnown
<1>3. QED
  BY <1>1, <1>2 DEF Arranged, OneTurn, Asking, Registered

(* What a working run holds, it goes on holding.                           *)
HeldOn ==
    \A q \in RunIds :
        IsChild(q) /\ turn[q].phase \in Working /\ turn'[q].phase \in Working =>
            /\ agents'[turn[q].session].status \in Registry!Live
            /\ agents'[turn[q].session].run = q

(* A call that neither ends nor fails a child takes no working run's slot. *)
LEMMA HeldOnByCall ==
    ASSUME TypeOK, Alone, Calls!PendingFree,
           \/ \E a \in AgentIds :
                 \/ \E c, s, p : Registry!Reserve(a, c, s, p)
                 \/ \E p : Registry!Restart(a, p)
                 \/ \E r \in RunIds : Registry!AttachRun(a, r)
                 \/ Registry!RequestStop(a) \/ Registry!SendMessage(a)
           \/ UNCHANGED agents
    PROVE  HeldOn
<1> USE DEF HeldOn, Registry!Live, Registry!Final
<1>1. /\ agents \in [AgentIds -> Registry!Agents]
      /\ \A a \in AgentIds : agents[a] \in Registry!Agents
  BY DEF TypeOK, Registry!TypeOK
<1>2. \A q \in RunIds : IsChild(q) /\ turn[q].phase \in Working =>
          /\ turn[q].session \in AgentIds
          /\ agents[turn[q].session].status \in Registry!Live \ {"Pending"}
          /\ agents[turn[q].session].run = q /\ q # None
  BY RunsAssumption DEF Alone, LiveChildHoldsSlot, IsChild, Calls!PendingFree
<1> USE DEF Registry!Agents
<1>3. ASSUME NEW a \in AgentIds, NEW c, NEW s, NEW p, Registry!Reserve(a, c, s, p)
      PROVE  HeldOn
  BY <1>1, <1>2, <1>3 DEF Registry!Reserve
<1>4. ASSUME NEW a \in AgentIds, NEW p, Registry!Restart(a, p)
      PROVE  HeldOn
  BY <1>1, <1>2, <1>4 DEF Registry!Restart, Registry!Restartable
<1>5. ASSUME NEW a \in AgentIds, NEW r \in RunIds, Registry!AttachRun(a, r)
      PROVE  HeldOn
  BY <1>1, <1>2, <1>5 DEF Registry!AttachRun, Registry!Attachable
<1>6. ASSUME NEW a \in AgentIds, Registry!RequestStop(a)
      PROVE  HeldOn
  BY <1>1, <1>2, <1>6 DEF Registry!RequestStop
<1>7. ASSUME NEW a \in AgentIds, Registry!SendMessage(a)
      PROVE  HeldOn
  BY <1>1, <1>2, <1>7 DEF Registry!SendMessage
<1>8. ASSUME UNCHANGED agents
      PROVE  HeldOn
  BY <1>2, <1>8
<1>9. QED
  BY <1>3, <1>4, <1>5, <1>6, <1>7, <1>8

(* A run that does not start, or take up waiting, moves on alone.          *)
LEMMA AloneMove ==
    ASSUME TypeOK, Arranged, Alone, HeldOn, UNCHANGED <<limit, queue, desk>>,
           NEW r \in RunIds, \A q \in RunIds \ {r} : turn'[q] = turn[q],
           turn'[r].phase \notin Asking,
           turn'[r].phase \in Working =>
               \/ turn[r].phase \in Working /\ turn'[r].session = turn[r].session
               \/ turn'[r].session \in Chats
    PROVE  Alone'
<1> USE RunsAssumption DEF Asking
<1>1. RootsAsk'
  BY DEF Alone, RootsAsk, IsChild
<1>2. NobodyYet'
  <2>1. ASSUME NEW p \in RunIds, NEW q \in RunIds, turn'[p].phase \in {"launching", "refused"},
               turn'[q].phase \in Working, turn'[q].session = turn'[p].child
        PROVE  q = desk /\ Head(queue).asker = p
    <3>1. p # r /\ turn'[p] = turn[p] /\ turn[p].child \in AgentIds
      BY <2>1 DEF Arranged, AskersKnown
    <3>2. turn[q].phase \in Working /\ turn[q].session = turn[p].child
      BY <2>1, <3>1
    <3>3. QED
      BY <2>1, <3>1, <3>2 DEF Alone, NobodyYet
  <2>2. QED
    BY <2>1 DEF NobodyYet
<1>3. LiveChildHoldsSlot'
  BY DEF LiveChildHoldsSlot, HeldOn, IsChild, Registry!Live
<1>4. QED
  BY <1>1, <1>2, <1>3 DEF Alone

(* Nothing happens to the runs and the queue.                              *)
LEMMA AloneStill ==
    ASSUME Alone, HeldOn, UNCHANGED <<limit, turn, queue, desk>>
    PROVE  Alone'
BY DEF Alone, RootsAsk, NobodyYet, LiveChildHoldsSlot, HeldOn, IsChild, Registry!Live

(* A run asks for a child: the slot was free, so only turns of the         *)
(* operator's work.                                                        *)
LEMMA AloneAsk ==
    ASSUME TypeOK, Arranged, Alone, Calls!SlotsCounted, Registry!SlotFree,
           UNCHANGED <<limit, desk>>, NEW r \in RunIds, NEW a \in AgentIds,
           AwaitLaunch(r, a), turn[r].phase = "acting"
    PROVE  Alone'
<1> USE DEF Asking
<1>1. Onto(r, "launching", a)
  BY Moved DEF AwaitLaunch
<1>2. \A q \in RunIds : turn'[q].phase \in Working => turn'[q].session \notin AgentIds
  BY <1>1, FreeSlot DEF Onto, IsChild, Working, Registered
<1>3. \A q \in RunIds : turn'[q].phase \in Asking => turn'[q].child \in AgentIds
  BY <1>1 DEF Onto, Arranged, AskersKnown
<1>4. RootsAsk'
  BY <1>2 DEF RootsAsk, IsChild, Working, Registered
<1>5. NobodyYet'
  BY <1>2, <1>3 DEF NobodyYet
<1>6. LiveChildHoldsSlot'
  BY <1>2 DEF LiveChildHoldsSlot, IsChild
<1>7. QED
  BY <1>4, <1>5, <1>6 DEF Alone

(* The supervisor attaches a run to a child no run works on.               *)
LEMMA AloneAttach ==
    ASSUME TypeOK, Arranged, Alone, HeldOn, NEW r \in RunIds, AttachLaunch(r)
    PROVE  Alone'
<1> USE RunsAssumption DEF Asking
<1>o. /\ turn'[r].phase = "starting" /\ turn'[r].session = Head(queue).agent
      /\ \A q \in RunIds \ {r} : turn'[q] = turn[q]
      /\ queue # << >> /\ queue' = queue
      /\ desk = None /\ desk' = r /\ turn[r].phase = "unused"
  BY DEF AttachLaunch, FreshRun, TypeOK, Unused
<1>a. /\ UNCHANGED limit
      /\ agents'[Head(queue).agent].status = "Running"
      /\ agents'[Head(queue).agent].run = r
  <2>1. Head(queue).agent \in AgentIds
    BY <1>o, HeadTyped
  <2>2. QED
    BY <2>1 DEF AttachLaunch, Registry!AttachRun, TypeOK, Registry!TypeOK, Registry!Agents
<1>1. RootsAsk'
  BY <1>o DEF Alone, RootsAsk, IsChild
<1>2. NobodyYet'
  <2>1. ASSUME NEW p \in RunIds, NEW q \in RunIds, turn'[p].phase \in {"launching", "refused"},
               turn'[q].phase \in Working, turn'[q].session = turn'[p].child
        PROVE  q = r /\ Head(queue).asker = p
    <3>1. p # r /\ turn'[p] = turn[p]
      BY <1>o, <2>1
    <3>2. q = r
      <4>1. ASSUME q # r PROVE FALSE
        <5>1. turn'[q] = turn[q]
          BY <1>o, <4>1
        <5>2. q = desk
          BY <2>1, <3>1, <5>1 DEF Alone, NobodyYet
        <5>3. QED
          BY <1>o, <5>2
      <4>2. QED
        BY <4>1
    <3>3. turn[p].child = turn[Head(queue).asker].child
      BY <1>o, <2>1, <3>1, <3>2, HeadKnown
    <3>4. turn[Head(queue).asker].phase \in Asking /\ Head(queue).asker \in RunIds
      BY <1>o, HeadKnown, HeadTyped
    <3>5. QED
      BY <2>1, <3>1, <3>2, <3>3, <3>4, OneAsker
  <2>2. QED
    BY <1>o, <2>1 DEF NobodyYet
<1>3. LiveChildHoldsSlot'
  BY <1>o, <1>a DEF LiveChildHoldsSlot, HeldOn, IsChild, Registry!Live
<1>4. QED
  BY <1>a, <1>1, <1>2, <1>3 DEF Alone

(* The request at the head is answered.                                    *)
LEMMA AloneServed ==
    ASSUME TypeOK, Arranged, Alone, HeldOn, RefuseLaunch \/ RegisterLaunch \/ AbandonLaunch
    PROVE  Alone'
<1> USE RunsAssumption DEF Asking
<1> DEFINE asker == Head(queue).asker
<1>e. queue # << >> /\ desk' = None /\ UNCHANGED limit
  BY DEF RefuseLaunch, RegisterLaunch, AbandonLaunch, Arranged, DeskServesHead, registryVars
<1>h. /\ asker \in RunIds /\ turn[asker].phase = "launching"
      /\ desk # None => desk \in RunIds /\ turn[desk].phase = "starting" /\ desk # asker
  BY <1>e, HeadTyped, HeadKnown DEF TypeOK, Arranged, DeskServesHead
<1>o. /\ \A q \in RunIds : turn'[q].session = turn[q].session
      /\ \A q \in RunIds : turn'[q].child = turn[q].child
      /\ \A q \in RunIds \ {asker, desk} : turn'[q] = turn[q]
      /\ \/ desk = None /\ turn'[asker].phase = "refused"
         \/ desk # None /\ turn'[asker].phase = "launched" /\ turn'[desk].phase = "idle"
         \/ /\ desk # None /\ turn'[asker].phase = "refused"
            /\ turn'[desk].phase \in {"done", "leaked"}
  <2> HIDE DEF asker
  <2>1. CASE RefuseLaunch
    <3>1. turn' = [turn EXCEPT ![asker].phase = "refused"] /\ desk = None
      BY <2>1 DEF RefuseLaunch, asker
    <3>2. QED
      BY <1>h, <3>1 DEF TypeOK
  <2>2. CASE RegisterLaunch
    <3>1. /\ turn' = [turn EXCEPT ![desk].phase = "idle", ![asker].phase = "launched"]
          /\ desk # None
      BY <2>2 DEF RegisterLaunch, asker
    <3>2. QED
      BY <1>h, <3>1 DEF TypeOK
  <2>3. CASE AbandonLaunch
    <3>1. PICK phase \in {"done", "leaked"} :
              /\ turn' = [turn EXCEPT ![desk].phase = phase, ![asker].phase = "refused"]
              /\ desk # None
      BY <2>3, Zenon DEF AbandonLaunch, asker
    <3>2. QED
      BY <1>h, <3>1 DEF TypeOK
  <2>4. QED
    BY <2>1, <2>2, <2>3
<1> HIDE DEF asker
<1>w. \A q \in RunIds : turn'[q].phase \in Working => turn[q].phase \in Working
  BY <1>h, <1>o DEF Working, Registered
<1>1. RootsAsk'
  BY <1>h, <1>o DEF Alone, RootsAsk, IsChild
<1>2. NobodyYet'
  <2>1. ASSUME NEW p \in RunIds, NEW q \in RunIds, turn'[p].phase \in {"launching", "refused"},
               turn'[q].phase \in Working, turn'[q].session = turn'[p].child
        PROVE  FALSE
    <3>1. turn[p].phase \in {"launching", "refused"}
      BY <1>h, <1>o, <2>1
    <3>2. q = desk /\ asker = p
      BY <1>o, <1>w, <2>1, <3>1 DEF Alone, NobodyYet, asker
    <3>3. QED
      BY <1>h, <1>o, <2>1, <3>2 DEF Working, Registered
  <2>2. QED
    BY <2>1 DEF NobodyYet
<1>3. LiveChildHoldsSlot'
  BY <1>o, <1>w DEF LiveChildHoldsSlot, HeldOn, IsChild, Registry!Live
<1>4. QED
  BY <1>e, <1>1, <1>2, <1>3 DEF Alone

(* The end of a run takes the slot of no other.                            *)
LEMMA AloneEnd ==
    ASSUME TypeOK, Arranged, Alone, NEW r \in RunIds, EndOk(r) \/ EndErr(r)
    PROVE  Alone'
<1>1. turn' = [turn EXCEPT ![r].phase = "reported"] /\ UNCHANGED <<queue, desk>>
  BY DEF EndOk, EndErr, Move
<1>2. turn'[r].phase = "reported" /\ \A q \in RunIds \ {r} : turn'[q] = turn[q]
  BY <1>1 DEF TypeOK
<1>3. PICK outcome : Report(r, outcome)
  BY DEF EndOk, EndErr
<1>4. CASE UNCHANGED registryVars
  <2>1. HeldOn
    BY <1>4 DEF registryVars, HeldOn, Alone, LiveChildHoldsSlot
  <2>2. QED
    BY <1>1, <1>2, <1>4, <2>1, AloneMove DEF registryVars, Asking, Working, Registered
<1>5. CASE Registry!CompleteRun(r, outcome)
  <2> DEFINE a == runToAgent[r]
             status == Registry!EndStatus(a, outcome)
  <2>1. /\ agents' = [agents EXCEPT ![a].status = status] /\ agents[a].run = r
        /\ UNCHANGED limit
    BY <1>5 DEF Registry!CompleteRun, Registry!CompletionApplies
  <2> HIDE DEF a, status
  <2>2. \A b \in AgentIds : agents[b].run # r => agents'[b] = agents[b]
    BY <2>1 DEF TypeOK, Registry!TypeOK
  <2>3. HeldOn
    BY <1>2, <2>2 DEF HeldOn, Alone, LiveChildHoldsSlot, IsChild, Working, Registered
  <2>4. QED
    BY <1>1, <1>2, <2>1, <2>3, AloneMove DEF Asking, Working, Registered
<1>6. QED
  BY <1>3, <1>4, <1>5 DEF Report

(* The reply to a launch: a refused one fails a child no run works on.     *)
LEMMA AloneReply ==
    ASSUME TypeOK, Arranged, Alone, NEW r \in RunIds, LaunchReply(r)
    PROVE  Alone'
<1>1. /\ turn'[r].phase = "idle" /\ turn'[r].session = turn[r].session
      /\ \A q \in RunIds \ {r} : turn'[q] = turn[q]
      /\ UNCHANGED <<queue, desk>> /\ turn[r].phase \in {"launched", "refused"}
  BY Moved DEF LaunchReply, Onto
<1>2. CASE UNCHANGED registryVars
  <2>1. HeldOn
    BY <1>2 DEF registryVars, HeldOn, Alone, LiveChildHoldsSlot
  <2>2. QED
    BY <1>1, <1>2, <2>1, AloneMove DEF registryVars, Asking, Working, Registered
<1>3. CASE turn[r].phase = "refused" /\ Registry!FailReserved(turn[r].child)
  <2> DEFINE a == turn[r].child
  <2>1. a \in AgentIds
    BY <1>3 DEF Arranged, AskersKnown, Asking
  <2>2. /\ \A b \in AgentIds \ {a} : agents'[b] = agents[b]
        /\ UNCHANGED limit
    BY <1>3, <2>1 DEF Registry!FailReserved, TypeOK, Registry!TypeOK
  <2>3. ASSUME NEW q \in RunIds, turn[q].phase \in Working, turn[q].session = a
        PROVE  FALSE
    <3>1. q = desk /\ Head(queue).asker = r
      BY <1>3, <2>3 DEF Alone, NobodyYet
    <3>2. queue # << >>
      BY <3>1, RunsAssumption DEF Arranged, DeskServesHead
    <3>3. QED
      BY <1>3, <3>1, <3>2, HeadKnown
  <2> HIDE DEF a
  <2>4. HeldOn
    BY <2>2, <2>3 DEF HeldOn, Alone, LiveChildHoldsSlot, IsChild
  <2>5. QED
    BY <1>1, <2>2, <2>4, AloneMove DEF Asking, Working, Registered
<1>4. QED
  BY <1>2, <1>3 DEF LaunchReply, FailLaunch

(* With one slot every step keeps it with the run that works.              *)
LEMMA AloneStep ==
    ASSUME TypeOK, Arranged, Alone, Calls!SlotsCounted, Calls!PendingFree, [Next]_vars
    PROVE  Alone'
<1> USE DEF Working, Registered, Asking
<1>s. ASSUME UNCHANGED registryVars
      PROVE  HeldOn /\ UNCHANGED limit
  BY <1>s DEF registryVars, HeldOn, Alone, LiveChildHoldsSlot
<1>1. ASSUME NEW c \in Chats, NEW r \in RunIds, StartTurn(c, r)
      PROVE  Alone'
  <2>1. PICK phase \in {"idle", "leaked"} :
            turn' = [turn EXCEPT ![r] = [Unused EXCEPT !.phase = phase, !.session = c]]
    BY <1>1, Zenon DEF StartTurn
  <2>2. /\ turn'[r].phase \in {"idle", "leaked"} /\ turn'[r].session = c
        /\ \A q \in RunIds \ {r} : turn'[q] = turn[q]
    BY <2>1 DEF Unused, TypeOK
  <2>3. HeldOn /\ UNCHANGED <<limit, queue, desk>>
    BY <1>1, <1>s DEF StartTurn
  <2>4. QED
    BY <2>2, <2>3, AloneMove
<1>2. ASSUME NEW r \in RunIds, BeginRound(r)
      PROVE  Alone'
  <2>1. Onto(r, "acting", turn[r].child) /\ turn[r].phase = "idle"
    BY <1>2, Moved DEF BeginRound
  <2>2. UNCHANGED <<agents, limit, queue, desk>>
    BY <1>2 DEF BeginRound, Registry!Drain
  <2>3. HeldOn
    BY <2>2, HeldOnByCall
  <2>4. QED
    BY <2>1, <2>2, <2>3, AloneMove DEF Onto
<1>3. ASSUME NEW r \in RunIds, OtherTool(r) \/ AskPermission(r) \/ Answered(r) \/ BeginAnswer(r)
      PROVE  Alone'
  <2>1. PICK phase \in {"idle", "gated", "answering"} : Move(r, phase)
    BY <1>3 DEF OtherTool, AskPermission, Answered, BeginAnswer
  <2>2. Onto(r, phase, turn[r].child)
    BY <2>1, Moved
  <2>3. HeldOn /\ UNCHANGED <<limit, queue, desk>> /\ turn[r].phase \in {"acting", "gated", "idle"}
    BY <1>3, <1>s DEF OtherTool, AskPermission, Answered, BeginAnswer
  <2>4. QED
    BY <2>2, <2>3, AloneMove DEF Onto
<1>4. ASSUME NEW r \in RunIds, FinishRun(r)
      PROVE  Alone'
  <2>1. turn'[r].phase = "done" /\ \A q \in RunIds \ {r} : turn'[q] = turn[q]
    BY <1>4 DEF FinishRun, Unused, TypeOK
  <2>2. HeldOn /\ UNCHANGED <<limit, queue, desk>>
    BY <1>4, <1>s DEF FinishRun
  <2>3. QED
    BY <2>1, <2>2, AloneMove
<1>5. ASSUME NEW r \in RunIds, NEW a \in AgentIds, Spawn(r, a)
      PROVE  Alone'
  <2>1. /\ Registry!SlotFree /\ UNCHANGED <<limit, desk>> /\ turn[r].phase = "acting"
        /\ \E c, s, p : Registry!Reserve(a, c, s, p)
    BY <1>5 DEF Spawn, Registry!Reserve
  <2>2. CASE AwaitLaunch(r, a)
    BY <2>1, <2>2, AloneAsk
  <2>3. CASE ForkRefused(r)
    <3>1. Onto(r, "idle", turn[r].child) /\ UNCHANGED queue
      BY <2>3, Moved DEF ForkRefused
    <3>2. HeldOn
      BY <2>1, HeldOnByCall
    <3>3. QED
      BY <2>1, <3>1, <3>2, AloneMove DEF Onto
  <2>4. QED
    BY <1>5, <2>2, <2>3 DEF Spawn
<1>6. ASSUME NEW r \in RunIds, NEW a \in AgentIds, Followup(r, a)
      PROVE  Alone'
  BY <1>6, AloneAsk DEF Followup, Registry!Restart, Registry!Restartable
<1>7. ASSUME NEW r \in RunIds, LaunchReply(r) \/ EndOk(r) \/ EndErr(r)
      PROVE  Alone'
  BY <1>7, AloneReply, AloneEnd
<1>8. ASSUME NEW r \in RunIds, AttachLaunch(r)
      PROVE  Alone'
  <2>1. queue # << >> /\ Registry!AttachRun(Head(queue).agent, r)
    BY <1>8 DEF AttachLaunch
  <2>2. HeldOn
    BY <2>1, HeadTyped, HeldOnByCall
  <2>3. QED
    BY <1>8, <2>2, AloneAttach
<1>9. CASE RefuseLaunch \/ RegisterLaunch \/ AbandonLaunch
  <2>1. HeldOn
    BY <1>9, <1>s DEF RefuseLaunch, RegisterLaunch, AbandonLaunch
  <2>2. QED
    BY <1>9, <2>1, AloneServed
<1>10. CASE \/ UNCHANGED vars
            \/ \E r \in RunIds : StopRun(r) \/ VisitStopped(r)
            \/ \E a \in AgentIds : Interrupt(a) \/ Steer(a)
  <2>1. UNCHANGED <<limit, turn, queue, desk>>
    BY <1>10 DEF vars, registryVars, runVars, StopRun, VisitStopped, Interrupt, Steer,
                 Registry!RequestStop, Registry!SendMessage
  <2>2. HeldOn
    BY <1>10, HeldOnByCall
       DEF vars, registryVars, StopRun, VisitStopped, Interrupt, Steer
  <2>3. QED
    BY <2>1, <2>2, AloneStill
<1>11. ASSUME NEW c \in Chats, DeleteChat(c)
       PROVE  Alone'
  <2>1. UNCHANGED <<limit, turn, queue, desk>>
    BY <1>11 DEF DeleteChat, Registry!RemoveRoot
  <2>2. HeldOn
    BY <1>11, ArrangedDelete DEF HeldOn, Alone, LiveChildHoldsSlot, IsChild, ChatOf, Held
  <2>3. QED
    BY <2>1, <2>2, AloneStill
<1>12. QED
  BY <1>1, <1>2, <1>3, <1>4, <1>5, <1>6, <1>7, <1>8, <1>9, <1>10, <1>11
     DEF Next, Task, Supervisor, Operator

(* On the small GPU profile, where subagent_limits allows one subagent, a  *)
(* child whose task can work holds the slot under its own run.  With two   *)
(* slots it does not hold: a refused launch that is answered late fails    *)
(* the reservation of a child another run has restarted meanwhile          *)
(* (agent.rs:5306).                                                        *)
THEOREM OneSlotIsHeld ==
    ASSUME MaxAgents = 1
    PROVE  Spec => []LiveChildHoldsSlot
<1>1. Spec => [](TypeOK /\ Arranged)
  BY Arranges, PTL DEF Spec
<1>2. Spec => [](Calls!SlotsCounted /\ Calls!PendingFree)
  <2>1. Calls!Spec => [](Calls!SlotsCounted /\ Calls!PendingFree)
    <3>1. Calls!Spec => []Calls!SlotsCounted
      BY RunsAssumption, Calls!SlotsAreCounted
    <3>2. Calls!Spec => []Calls!PendingFree
      BY RunsAssumption, Calls!PendingIsFree
    <3>3. QED
      BY <3>1, <3>2, PTL
  <2>2. Registry!Init => Calls!Init
    BY SameInit
  <2>3. [Registry!Next]_(Registry!registryVars) => [Calls!Next]_(Calls!registryVars)
    BY SameNext DEF Registry!registryVars, Calls!registryVars
  <2>4. QED
    BY <2>1, <2>2, <2>3, RegistryImplemented, PTL DEF Registry!Spec, Calls!Spec
<1>3. Init => Alone
  BY RunsAssumption
     DEF Init, Alone, RootsAsk, NobodyYet, LiveChildHoldsSlot, Unused, Asking, Working, Registered
<1>4. TypeOK /\ Arranged /\ Calls!SlotsCounted /\ Calls!PendingFree /\ Alone
          /\ [Next]_vars => Alone'
  BY AloneStep
<1>5. Alone => LiveChildHoldsSlot
  BY DEF Alone
<1>6. QED
  BY <1>1, <1>2, <1>3, <1>4, <1>5, PTL DEF Spec
=============================================================================
