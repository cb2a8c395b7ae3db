----------------------------- MODULE MCServices -----------------------------
(***************************************************************************)
(* What a core has going beside its turns: the development server of a     *)
(* workspace, the pooled connection of an MCP server, a command in the     *)
(* sandbox, the indexing of a watched document and the wait for a          *)
(* subagent.  They share nothing, so a behaviour has one of them move and  *)
(* the others stay as they start.                                          *)
(***************************************************************************)
EXTENDS Naturals, Sequences, FiniteSets

CONSTANTS Callers, Commands, MaxSpawns, Saves, Configs, MaxRequests,
          MaxSaid, MaxLines, Jobs, Sizes, MaxSaves, Children

ASSUME ServicesAssumption ==
    /\ IsFiniteSet(Callers) /\ IsFiniteSet(Saves) /\ IsFiniteSet(Jobs)
    /\ Callers \intersect Saves = {} /\ "free" \notin Callers \union Saves
    /\ Configs # {}
    /\ {MaxSpawns, MaxRequests, MaxSaid, MaxLines} \subseteq Nat
    /\ MaxSaves \in Nat \ {0}

VARIABLES
    part,                                                          \* which one moves
    entry, live, spawned, watching, call,                          \* DevServers
    settings, pool, slot, holder, wire, task, asked, misled,       \* McpPool
    exec, leader, said, shut, kids, handle, stop, cancelled,       \* SandboxRuns
    late, row,                                                     \* SandboxRuns
    file, source, passages, fts, job, toggle, watcher,             \* KnowledgeIndex
    tried, robbed,                                                 \* KnowledgeIndex
    child, wait                                                    \* SubagentWait

Dev == INSTANCE DevServers
Mcp == INSTANCE McpPool WITH Calls <- Callers
Cmd == INSTANCE SandboxRuns
Index == INSTANCE KnowledgeIndex WITH watching <- toggle, Watchers <- Jobs
Wait == INSTANCE SubagentWait
devVars == <<entry, live, spawned, watching, call>>
mcpVars == <<settings, pool, slot, holder, wire, task, asked, misled>>
cmdVars == <<exec, leader, said, shut, kids, handle, stop, cancelled, late, row>>
indexVars == <<file, source, passages, fts, job, toggle, watcher, tried, robbed>>
waitVars == <<child, wait>>
vars == <<part, devVars, mcpVars, cmdVars, indexVars, waitVars>>

Init ==
    /\ part \in {"dev", "mcp", "command", "index", "wait"}
    /\ Dev!Init /\ Mcp!Init /\ Cmd!Init /\ Index!Init /\ Wait!Init
    /\ part # "index" => file.size = CHOOSE size \in Sizes : TRUE
    /\ part # "wait" => child = [c \in Children |-> "gone"]

(* What a step of each part leaves alone.                                  *)
InDev == part = "dev" /\ UNCHANGED <<part, mcpVars, cmdVars, indexVars, waitVars>>
InMcp == part = "mcp" /\ UNCHANGED <<part, devVars, cmdVars, indexVars, waitVars>>
InCmd == part = "command" /\ UNCHANGED <<part, devVars, mcpVars, indexVars, waitVars>>
InIndex == part = "index" /\ UNCHANGED <<part, devVars, mcpVars, cmdVars, waitVars>>
InWait == part = "wait" /\ UNCHANGED <<part, devVars, mcpVars, cmdVars, indexVars>>

Next ==
    \/ InDev /\ Dev!Next
    \/ InMcp /\ Mcp!Next
    \/ InCmd /\ Cmd!Next
    \/ InIndex /\ Index!Next
    \/ InWait /\ Wait!Next

(* Each module's own fairness.  Only one part moves, so what the parts owe *)
(* a task of one name is one condition: a caller of the server and of the  *)
(* pool, the command's task and the indexing jobs; the clocks of the       *)
(* former; and the settings' saves and the watchers.                       *)
TaskStep(c) ==
    \/ InDev /\ Dev!Caller(c)
    \/ InMcp /\ Mcp!Call(c)
    \/ InCmd /\ Cmd!Exec
    \/ InIndex /\ \E j \in Jobs : Index!Work(j)
Clock(c) == (InDev /\ Dev!DeadlinePasses(c)) \/ (InCmd /\ Cmd!DeadlinePasses)
SaveStep(v) == InMcp /\ Mcp!Reconcile(v)
Fairness ==
    /\ \A c \in Callers : WF_vars(TaskStep(c)) /\ WF_vars(Clock(c))
    /\ \A v \in Saves : WF_vars(SaveStep(v))
    /\ \A w \in Jobs : SF_vars(InIndex /\ Index!Watch(w))

Spec == Init /\ [][Next]_vars /\ Fairness

-----------------------------------------------------------------------------
(* The type invariants of all.                                             *)
TypeOK == Dev!TypeOK /\ Mcp!TypeOK /\ Cmd!TypeOK /\ Index!TypeOK /\ Wait!TypeOK

(* No process outlives what would end it: a stop of the workspace, the     *)
(* next save of the settings, or the end of a command's task, leaves       *)
(* nothing running that nobody can stop.                                   *)
ProcessesOwned == Dev!NoStray /\ Mcp!OneProcess /\ Cmd!NobodyForgotten

(* What is shown or returned is of the process asked for: a dead server is *)
(* noticed, a late answer is not taken for another request's, the row of a *)
(* command says how it ended, and no wait sleeps through a child's end.    *)
NothingStale ==
    Dev!DeadIsNoticed /\ Mcp!OwnAnswer /\ Cmd!RowTellsTheEnd /\ Wait!NoLostWakeup

(* Every start, call, save and command returns, though servers die or stay *)
(* silent, programs run on and tasks wait for each other's locks; and what *)
(* is saved in a watched folder is read.                                   *)
Busy(t) ==
    \/ t \in Callers /\ call[t].at # "idle"
    \/ Mcp!Busy(t)
    \/ exec.at \notin {"idle", "over", "down"}
RequestsEnd ==
    /\ \A t \in Callers \union Saves : Busy(t) ~> ~Busy(t)
    /\ Index!SavesAreRead
=============================================================================
