---------------------------- MODULE SubagentRuns ----------------------------
(***************************************************************************)
(* The runs that use the subagent registry: turns the operator starts,     *)
(* child runs the launch supervisor starts for them, Stop on a run         *)
(* (agent::cancel) and Stop on a child (multi_agent::interrupt).           *)
(*                                                                         *)
(* A run is a task of its own.  It is split where the code awaits or       *)
(* releases a lock another actor needs: the round boundary, the tool call  *)
(* inside a round, the wait for the supervisor's reply, the answer phase,  *)
(* the report to the registry, the removal from AppState.runs.  A launch   *)
(* is split at the store gate's await and between attach_run and           *)
(* register_run.  A cancellation visits one run per step, as each of its   *)
(* lookups takes and releases the registry lock.                           *)
(*                                                                         *)
(* Tools that touch neither the registry nor another run are `OtherTool`;  *)
(* wait_agent is one of them, as it only reads and is bounded by its       *)
(* timeout.  A tool that changes something may first stand at the gate,    *)
(* for as long as the operator likes.  The tools send_message and          *)
(* interrupt_agent do what the panel commands of the same name do, and are *)
(* those actions.                                                          *)
(*                                                                         *)
(* A definition whose name extends the name of the next one is a seeded    *)
(* slip: what that definition would be if the code had the named mistake.  *)
(***************************************************************************)
EXTENDS Naturals, FiniteSets, Sequences

CONSTANTS
    Chats, AgentIds, RunIds, None, MaxAgents, MaxDepth, MailBound,
    MaxRounds,    \* MAX_TOOL_ROUNDS
    ForkErrors,   \* the model may name a history fork the parser refuses
    StoreFaults   \* reading the chat's stored attachments may fail

ASSUME RunsAssumption ==
    /\ None \notin Chats \union AgentIds \union RunIds
    /\ Chats \intersect AgentIds = {}
    /\ MaxAgents \in Nat \ {0} /\ MaxDepth \in Nat \ {0} /\ MailBound \in Nat
    /\ MaxRounds \in Nat \ {0}
    /\ ForkErrors \in BOOLEAN
    /\ StoreFaults \in BOOLEAN

VARIABLES
    agents, runToAgent, mailbox, limit, issued, delivered,
    turn,       \* where each run's task is
    cancelled,  \* RunHandle.cancelled, by run
    queue,      \* launch requests; the supervisor serves the head
    desk,       \* the run the supervisor has attached and not yet registered
    stopping,   \* runs agent::cancel has still to visit
    open        \* chats not deleted

registryVars == <<agents, runToAgent, mailbox, limit, issued, delivered>>

runVars == <<turn, cancelled, queue, desk, stopping, open>>

vars == <<registryVars, runVars>>

Registry == INSTANCE SubagentRegistry

(* Phases in which AppState.runs holds the run.  A "leaked" run is one     *)
(* whose start failed after register_run: no task is left to remove it.    *)
Registered ==
    {"idle", "acting", "gated", "launching", "launched", "refused", "answering",
     "reported", "leaked"}

(* Phases in which the run's task may still do work of the chat's.         *)
Working == {"starting"} \union (Registered \ {"reported", "leaked"})

Phases == Registered \union {"unused", "starting", "done"}

Unused == [phase |-> "unused", session |-> None, rounds |-> 0, child |-> None]

ChatOf(r) ==
    IF turn[r].session \in AgentIds
    THEN agents[turn[r].session].chat
    ELSE turn[r].session

IsChild(r) == turn[r].session \in AgentIds

Move(r, phase) == turn' = [turn EXCEPT ![r].phase = phase]

Init ==
    /\ Registry!Init
    /\ limit = MaxAgents
    /\ turn = [r \in RunIds |-> Unused]
    /\ cancelled = [r \in RunIds |-> FALSE]
    /\ queue = << >>
    /\ desk = None
    /\ stopping = {}
    /\ open = Chats

(* new_id never repeats.  Which unused id it hands out is immaterial, so a *)
(* fixed one is taken.                                                     *)
FreshRun(r) ==
    /\ turn[r].phase = "unused"
    /\ r = CHOOSE q \in RunIds : turn[q].phase = "unused"

FreshAgent(a) ==
    /\ agents[a].status = "absent"
    /\ a = CHOOSE b \in AgentIds : agents[b].status = "absent"

-----------------------------------------------------------------------------
(* A turn the operator starts                                              *)

(* The run's receipt is "running" from evidence::begin, just ahead of      *)
(* register_run, to agent://done, and begin refuses a second one in the    *)
(* same session.  A receipt nobody closes shuts its session.               *)
TurnOpen(s) ==
    \E r \in RunIds : turn[r].session = s /\ turn[r].phase \in Registered

StartTurn(c, r) ==
    /\ c \in open
    /\ ~TurnOpen(c)
    /\ FreshRun(r)
    /\ \E phase \in {"idle"} \union (IF StoreFaults THEN {"leaked"} ELSE {}) :
           turn' = [turn EXCEPT ![r] = [Unused EXCEPT !.phase = phase, !.session = c]]
    /\ UNCHANGED <<registryVars, cancelled, queue, desk, stopping, open>>

-----------------------------------------------------------------------------
(* The tool loop of one run                                                *)

RoundsLeftOneMore(r) == turn[r].rounds <= MaxRounds

RoundsLeft(r) == turn[r].rounds < MaxRounds

BeginRound(r) ==
    /\ turn[r].phase = "idle"
    /\ ~cancelled[r]
    /\ RoundsLeft(r)
    /\ turn' = [turn EXCEPT ![r].phase = "acting", ![r].rounds = @ + 1]
    /\ Registry!Drain(turn[r].session)
    /\ UNCHANGED <<cancelled, queue, desk, stopping, open>>

OtherTool(r) ==
    /\ turn[r].phase = "acting"
    /\ Move(r, "idle")
    /\ UNCHANGED <<registryVars, cancelled, queue, desk, stopping, open>>

(* A tool call that asks for permission waits without a deadline.          *)
AskPermission(r) ==
    /\ turn[r].phase = "acting"
    /\ Move(r, "gated")
    /\ UNCHANGED <<registryVars, cancelled, queue, desk, stopping, open>>

(* The operator answers, or a Stop that found the prompt rejects it: either *)
(* way the call returns, with a result or a refusal.                       *)
Answered(r) ==
    /\ turn[r].phase = "gated"
    /\ Move(r, "idle")
    /\ UNCHANGED <<registryVars, cancelled, queue, desk, stopping, open>>

(* launch_subagent queues the request and waits for the reply.  The        *)
(* history fork is parsed first, and its error returns before the launch.  *)
AwaitLaunch(r, a) ==
    /\ turn' = [turn EXCEPT ![r].phase = "launching", ![r].child = a]
    /\ queue' = Append(queue, [agent |-> a, asker |-> r])

ForkRefused(r) ==
    /\ ForkErrors
    /\ Move(r, "idle")
    /\ UNCHANGED queue

Spawn(r, a) ==
    /\ turn[r].phase = "acting"
    /\ FreshAgent(a)
    /\ Registry!Reserve(a, ChatOf(r), turn[r].session, r)
    /\ AwaitLaunch(r, a) \/ ForkRefused(r)
    /\ UNCHANGED <<cancelled, desk, stopping, open>>

Followup(r, a) ==
    /\ turn[r].phase = "acting"
    /\ agents[a].chat = ChatOf(r)
    /\ Registry!Restart(a, r)
    /\ AwaitLaunch(r, a)
    /\ UNCHANGED <<cancelled, desk, stopping, open>>

FailLaunchForgotten(a) == UNCHANGED registryVars

FailLaunch(a) ==
    IF agents[a].status \in Registry!Live
    THEN Registry!FailReserved(a)
    ELSE UNCHANGED registryVars

LaunchReply(r) ==
    /\ \/ /\ turn[r].phase = "launched"
          /\ UNCHANGED registryVars
       \/ /\ turn[r].phase = "refused"
          /\ FailLaunch(turn[r].child)
    /\ turn' = [turn EXCEPT ![r].phase = "idle", ![r].child = None]
    /\ UNCHANGED <<cancelled, queue, desk, stopping, open>>

BeginAnswer(r) ==
    /\ turn[r].phase = "idle"
    /\ ~cancelled[r]
    /\ Move(r, "answering")
    /\ UNCHANGED <<registryVars, cancelled, queue, desk, stopping, open>>

(* complete_run is called for a child only, and answers None when the run  *)
(* is no longer its child's live run.                                      *)
Report(r, outcome) ==
    IF IsChild(r) /\ Registry!CompletionApplies(r)
    THEN Registry!CompleteRun(r, outcome)
    ELSE UNCHANGED registryVars

EndOk(r) ==
    /\ turn[r].phase = "answering"
    /\ Report(r, "ok")
    /\ Move(r, "reported")
    /\ UNCHANGED <<cancelled, queue, desk, stopping, open>>

(* The note of a run that was stopped is "Stopped by the operator.", which *)
(* does not contain "cancel"; any other error brings its own text.         *)
ErrorNotes(r) == IF cancelled[r] THEN {"error"} ELSE {"error", "cancel text"}

MayFailMidRoundOnly(r) == turn[r].phase \in {"acting", "answering"}

MayFail(r) ==
    \/ turn[r].phase = "idle" /\ cancelled[r]
    \/ turn[r].phase \in {"acting", "answering"}

EndErr(r) ==
    /\ MayFail(r)
    /\ \E note \in ErrorNotes(r) : Report(r, note)
    /\ Move(r, "reported")
    /\ UNCHANGED <<cancelled, queue, desk, stopping, open>>

(* agent://done closes the receipt, and finish_run follows it.             *)
FinishRun(r) ==
    /\ turn[r].phase = "reported"
    /\ turn' = [turn EXCEPT ![r] = [Unused EXCEPT !.phase = "done"]]
    /\ UNCHANGED <<registryVars, cancelled, queue, desk, stopping, open>>

-----------------------------------------------------------------------------
(* The launch supervisor: one request at a time, agent::start for each     *)

AttachLaunch(r) ==
    /\ queue # << >>
    /\ desk = None
    /\ FreshRun(r)
    /\ Registry!AttachRun(Head(queue).agent, r)
    /\ turn' = [turn EXCEPT ![r] =
           [Unused EXCEPT !.phase = "starting", !.session = Head(queue).agent]]
    /\ desk' = r
    /\ UNCHANGED <<cancelled, queue, stopping, open>>

(* The store gate, an attachment snapshot, or attach_run says no.          *)
RefuseLaunch ==
    /\ queue # << >>
    /\ desk = None
    /\ turn' = [turn EXCEPT ![Head(queue).asker].phase = "refused"]
    /\ queue' = Tail(queue)
    /\ UNCHANGED <<registryVars, cancelled, desk, stopping, open>>

RegisterLaunch ==
    /\ desk # None
    /\ ~TurnOpen(turn[desk].session)
    /\ turn' = [turn EXCEPT ![desk].phase = "idle",
                            ![Head(queue).asker].phase = "launched"]
    /\ queue' = Tail(queue)
    /\ desk' = None
    /\ UNCHANGED <<registryVars, cancelled, stopping, open>>

(* evidence::begin fails before register_run, or the attachment read after *)
(* it; the second leaves the run registered with no task to remove it.     *)
AbandonLaunch ==
    /\ desk # None
    /\ \E phase \in {"done", "leaked"} :
        /\ phase = "done" => TurnOpen(turn[desk].session) \/ StoreFaults
        /\ phase = "leaked" => ~TurnOpen(turn[desk].session) /\ StoreFaults
        /\ turn' = [turn EXCEPT ![desk].phase = phase,
                             ![Head(queue).asker].phase = "refused"]
    /\ queue' = Tail(queue)
    /\ desk' = None
    /\ UNCHANGED <<registryVars, cancelled, stopping, open>>

-----------------------------------------------------------------------------
(* Stop on a run, Stop on a child, a steering message, a deleted chat      *)

StopRun(r) ==
    /\ turn[r].phase \in Registered
    /\ stopping' = stopping \union {r}
    /\ UNCHANGED <<registryVars, turn, cancelled, queue, desk, open>>

DescendantRuns(p) ==
    {agents[a].run : a \in {b \in AgentIds :
        /\ agents[b].parentRun = p
        /\ agents[b].status \in Registry!Live
        /\ agents[b].run # None}}

VisitStopped(p) ==
    /\ p \in stopping
    /\ cancelled' = IF turn[p].phase \in Registered
                    THEN [cancelled EXCEPT ![p] = TRUE]
                    ELSE cancelled
    /\ stopping' = (stopping \ {p}) \union DescendantRuns(p)
    /\ UNCHANGED <<registryVars, turn, queue, desk, open>>

InterruptAtOnce(a) ==
    /\ agents[a].status \in Registry!Live
    /\ agents' = [agents EXCEPT ![a].status = "Interrupted"]
    /\ stopping' = stopping \union ({agents[a].run} \ {None})
    /\ UNCHANGED <<runToAgent, mailbox, limit, issued, delivered>>
    /\ UNCHANGED <<turn, cancelled, queue, desk, open>>

Interrupt(a) ==
    /\ Registry!RequestStop(a)
    /\ stopping' = stopping \union ({agents[a].run} \ {None})
    /\ UNCHANGED <<turn, cancelled, queue, desk, open>>

Steer(a) ==
    /\ Registry!SendMessage(a)
    /\ UNCHANGED runVars

(* The sidebar offers deletion only while no run of the chat or of its     *)
(* subagents is in progress (Sidebar.tsx:902, AppContext.tsx:1491).        *)
DeleteChat(c) ==
    /\ c \in open
    /\ \A r \in RunIds : ChatOf(r) = c => turn[r].phase \notin Registered
    /\ open' = open \ {c}
    /\ Registry!RemoveRoot(c)
    /\ UNCHANGED <<turn, cancelled, queue, desk, stopping>>

-----------------------------------------------------------------------------

Task(r) ==
    \/ BeginRound(r)
    \/ OtherTool(r) \/ AskPermission(r)
    \/ \E a \in AgentIds : Spawn(r, a) \/ Followup(r, a)
    \/ LaunchReply(r)
    \/ BeginAnswer(r)
    \/ EndOk(r)
    \/ EndErr(r)
    \/ FinishRun(r)

Supervisor ==
    \/ \E r \in RunIds : AttachLaunch(r)
    \/ RefuseLaunch
    \/ RegisterLaunch
    \/ AbandonLaunch

Operator ==
    \/ \E c \in Chats, r \in RunIds : StartTurn(c, r)
    \/ \E r \in RunIds : StopRun(r) \/ Answered(r)
    \/ \E a \in AgentIds : Interrupt(a) \/ Steer(a)
    \/ \E c \in Chats : DeleteChat(c)

Next ==
    \/ \E r \in RunIds : Task(r)
    \/ Supervisor
    \/ \E p \in RunIds : VisitStopped(p)
    \/ Operator

Spec == Init /\ [][Next]_vars

(* Every run is a tokio task and the supervisor is another: both are       *)
(* polled until they end, every model request and tool call in them is     *)
(* bounded by a timeout, and a cancellation is straight-line code.  A call *)
(* at the gate is not bounded (state.rs:671): nothing says that anybody    *)
(* answers.                                                                *)
FairSpec ==
    /\ Spec
    /\ \A r \in RunIds : WF_vars(Task(r)) /\ WF_vars(VisitStopped(r))
    /\ WF_vars(Supervisor)

-----------------------------------------------------------------------------
(* Properties                                                              *)

Requests == [agent : AgentIds, asker : RunIds]

TypeOK ==
    /\ Registry!TypeOK
    /\ turn \in [RunIds ->
           [phase : Phases, session : Registry!Sessions \union {None},
            rounds : 0..MaxRounds, child : AgentIds \union {None}]]
    /\ cancelled \in [RunIds -> BOOLEAN]
    /\ queue \in Seq(Requests)
    /\ desk \in RunIds \union {None}
    /\ stopping \in SUBSET RunIds
    /\ open \in SUBSET Chats

(* While a child's task can still work, its record is live and names that  *)
(* run: the slot the workstation counts is the work it really does, a      *)
(* child has one turn at a time, and a deleted chat leaves none running.   *)
(* multi_agent.rs:278, "Keep the slot until the running turn acknowledges  *)
(* cancellation".                                                          *)
LiveChildHoldsSlot ==
    \A r \in RunIds :
        IsChild(r) /\ turn[r].phase \in Working =>
            /\ agents[turn[r].session].status \in Registry!Live
            /\ agents[turn[r].session].run = r
=============================================================================
