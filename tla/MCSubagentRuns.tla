--------------------------- MODULE MCSubagentRuns ---------------------------
(***************************************************************************)
(* Runs and their subagents, with every failure the code handles and the   *)
(* two it does not: a fork that cannot be parsed, whose reservation nobody *)
(* fails, and a start that fails after register_run.                       *)
(***************************************************************************)
EXTENDS SubagentRuns, TLC

VARIABLE forgotten    \* children that were reserved and never asked for

AllVars == <<forgotten, vars>>

(* Chats are interchangeable in every action of SubagentRuns; the property *)
(* this is used with is safety.  Subagent and run ids are not: the next    *)
(* unused one is chosen.                                                   *)
Symmetry == Permutations(Chats)

(* A reservation that queues no launch is forgotten, until its slot is     *)
(* given back by the operator.                                             *)
Forgets ==
    forgotten' = {a \in AgentIds : /\ agents'[a].status \in Registry!Live
                                   /\ \/ a \in forgotten
                                      \/ a \notin Registry!Active /\ queue' = queue}

MCInit == Init /\ forgotten = {}

MCNext == Next /\ Forgets

MCSpec == MCInit /\ [][MCNext]_AllVars

(* FairSpec, with the history.                                             *)
MCFairSpec ==
    /\ MCSpec
    /\ \A r \in RunIds : WF_AllVars(Task(r) /\ Forgets) /\ WF_AllVars(VisitStopped(r) /\ Forgets)
    /\ WF_AllVars(Supervisor /\ Forgets)

-----------------------------------------------------------------------------
(* The operator answers the prompts of the runs of a session, every time.  *)
Attended(s) == \A r \in RunIds : []<>~(turn[r].session = s /\ turn[r].phase = "gated")

(* Every reservation gives its slot back, if the operator answers what its *)
(* own runs ask, and whatever other runs are left standing at the gate:    *)
(* launched, refused, stopped, steered or abandoned, a child does not stay *)
(* live for ever.  The one whose fork was refused after reserve does       *)
(* (agent.rs:5268).                                                        *)
SlotsComeBack ==
    \A a \in AgentIds :
        Attended(a) => (a \in Registry!Active ~> a \notin Registry!Active \/ a \in forgotten)

(* Every run AppState.runs holds is removed from it, stopped or not, if    *)
(* the operator answers what it asks: a run does not wait for the answer   *)
(* to another's prompt, though it launched it.  The run whose start failed *)
(* once it was registered stays (agent.rs:9094).                           *)
RunsEnd ==
    \A r \in RunIds :
        []<>(turn[r].phase # "gated") =>
            (turn[r].phase \in Registered ~> turn[r].phase \in {"done", "leaked"})
=============================================================================
