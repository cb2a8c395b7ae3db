-------------------------- MODULE SubagentRegistry --------------------------
(***************************************************************************)
(* The subagent registry of src-tauri/src/multi_agent.rs: the four maps of *)
(* `Inner`, guarded by one mutex, and one action per method.  A method     *)
(* holds the mutex from its first read to its last write, so each is one   *)
(* step; who calls it, and when, is left open here and settled in          *)
(* SubagentRuns.  A call the code answers with an error changes nothing    *)
(* and is a stuttering step.                                               *)
(*                                                                         *)
(* Two maps are folded away.  A subagent has one private session, created  *)
(* and removed with it, so the session is named by the subagent and        *)
(* session_to_agent is `Caller`.  Task names are taken fresh: a name whose *)
(* path exists is refused (lines 125-131) and changes nothing.  The depth  *)
(* limit is a constant, so restart's own depth check (line 198) always     *)
(* passes and is left out.                                                 *)
(*                                                                         *)
(* A definition whose name extends the name of the next one is a seeded    *)
(* slip: what that definition would be if the code had the named mistake.  *)
(***************************************************************************)
EXTENDS Naturals, FiniteSets, Sequences

CONSTANTS
    Chats,      \* root chat sessions
    AgentIds,   \* subagent ids; each also names that subagent's session
    RunIds,     \* run ids
    None,       \* the absent optional value
    MaxAgents,  \* the top of the clamp on the capacity setting
    MaxDepth,   \* the delegation depth limit
    MailBound   \* bound on steering messages waiting for one subagent

ASSUME IdAssumption ==
    /\ None \notin Chats \union AgentIds \union RunIds
    /\ Chats \intersect AgentIds = {}

ASSUME LimitAssumption ==
    /\ MaxAgents \in Nat \ {0}
    /\ MaxDepth \in Nat \ {0}
    /\ MailBound \in Nat

VARIABLES
    agents,      \* Inner.agents, total: "absent" before, "removed" after
    runToAgent,  \* Inner.run_to_agent
    mailbox,     \* Inner.mailboxes, by session; a missing queue is empty
    limit,       \* AppSettings.max_subagents, as constrain_subagents clamps it
    issued,      \* run ids new_id has handed out to attach_run
    delivered    \* history: completions pushed to a mailbox, by run

registryVars == <<agents, runToAgent, mailbox, limit, issued, delivered>>

Sessions == Chats \union AgentIds

Live == {"Pending", "Running", "Stopping"}

Final == {"Completed", "Failed", "Interrupted"}

Outcomes == {"ok", "error", "cancel text"}

Blank ==
    [status |-> "absent", chat |-> None, parent |-> None,
     parentRun |-> None, depth |-> 0, run |-> None]

Agents ==
    [status : Live \union Final \union {"absent", "removed"},
     chat : Chats \union {None},
     parent : AgentIds \union {None},
     parentRun : RunIds \union {None},
     depth : 0..MaxDepth,
     run : RunIds \union {None}]

Mail == [kind : {"note", "completed", "ended"}, run : RunIds \union {None}]

Present(a) == agents[a].status \in Live \union Final

Active == {a \in AgentIds : agents[a].status \in Live}

Init ==
    /\ agents = [a \in AgentIds |-> Blank]
    /\ runToAgent = [r \in RunIds |-> None]
    /\ mailbox = [s \in Sessions |-> << >>]
    /\ limit \in 1..MaxAgents
    /\ issued = {}
    /\ delivered = [r \in RunIds |-> 0]

-----------------------------------------------------------------------------
(* reserve and restart: the two ways to take a slot                        *)

Caller(s) == IF s \in AgentIds /\ Present(s) THEN s ELSE None

CallerDepth(s) == IF Caller(s) = None THEN 0 ELSE agents[Caller(s)].depth

SlotFreeAtLimit == Cardinality(Active) <= limit

SlotFree == Cardinality(Active) < limit

DepthAllowed(s) == CallerDepth(s) + 1 <= MaxDepth

OwnChatUnchecked(s, c) == TRUE

OwnChat(s, c) == Caller(s) # None => agents[Caller(s)].chat = c

Reserve(a, c, s, p) ==
    /\ agents[a].status = "absent"
    /\ OwnChat(s, c)
    /\ DepthAllowed(s)
    /\ SlotFree
    /\ agents' = [agents EXCEPT ![a] =
           [status |-> "Pending", chat |-> c, parent |-> Caller(s),
            parentRun |-> p, depth |-> CallerDepth(s) + 1, run |-> None]]
    /\ UNCHANGED <<runToAgent, mailbox, limit, issued, delivered>>

RestartableAnyTime(a) == agents[a].status \in Final

Restartable(a) == SlotFree /\ agents[a].status \in Final

Restart(a, p) ==
    /\ Restartable(a)
    /\ agents' = [agents EXCEPT ![a] =
           [@ EXCEPT !.status = "Pending", !.run = None, !.parentRun = p]]
    /\ UNCHANGED <<runToAgent, mailbox, limit, issued, delivered>>

-----------------------------------------------------------------------------
(* attach_run and fail_reserved: a launch succeeds or fails                *)

Attachable(a) == agents[a].status = "Pending"

AttachRun(a, r) ==
    /\ Attachable(a)
    /\ r \notin issued
    /\ agents' = [agents EXCEPT ![a] =
           [@ EXCEPT !.status = "Running", !.run = r]]
    /\ runToAgent' = [runToAgent EXCEPT ![r] = a]
    /\ issued' = issued \union {r}
    /\ UNCHANGED <<mailbox, limit, delivered>>

FailReserved(a) ==
    /\ agents[a].status \in Live
    /\ agents' = [agents EXCEPT ![a].status = "Failed"]
    /\ UNCHANGED <<runToAgent, mailbox, limit, issued, delivered>>

-----------------------------------------------------------------------------
(* complete_run: the only way a running child gives its slot back          *)

EndStatus(a, outcome) ==
    CASE agents[a].status = "Stopping" \/ outcome = "cancel text" -> "Interrupted"
      [] agents[a].status # "Stopping" /\ outcome = "ok" -> "Completed"
      [] agents[a].status # "Stopping" /\ outcome = "error" -> "Failed"

Recipient(a) ==
    IF agents[a].parent # None /\ Present(agents[a].parent)
    THEN agents[a].parent
    ELSE agents[a].chat

CompletionAppliesTwice(r) ==
    /\ runToAgent[r] # None
    /\ agents[runToAgent[r]].run = r
    /\ agents[runToAgent[r]].status \in Live \union Final

CompletionApplies(r) ==
    /\ runToAgent[r] # None
    /\ agents[runToAgent[r]].run = r
    /\ agents[runToAgent[r]].status \in Live

CompleteRun(r, outcome) ==
    LET a == runToAgent[r]
        status == EndStatus(a, outcome)
        kind == IF status = "Completed" THEN "completed" ELSE "ended"
    IN  /\ CompletionApplies(r)
        /\ agents' = [agents EXCEPT ![a].status = status]
        /\ mailbox' = [mailbox EXCEPT ![Recipient(a)] =
                           Append(@, [kind |-> kind, run |-> r])]
        /\ delivered' = [delivered EXCEPT ![r] = @ + 1]
        /\ UNCHANGED <<runToAgent, limit, issued>>

-----------------------------------------------------------------------------
(* request_stop, send_message, drain_messages                              *)

RequestStopAlwaysWaits(a) ==
    /\ agents[a].status \in Live
    /\ agents' = [agents EXCEPT ![a].status = "Stopping"]
    /\ UNCHANGED <<runToAgent, mailbox, limit, issued, delivered>>

RequestStop(a) ==
    /\ agents[a].status \in Live
    /\ agents' = [agents EXCEPT ![a].status =
                      IF agents[a].run # None THEN "Stopping" ELSE "Interrupted"]
    /\ UNCHANGED <<runToAgent, mailbox, limit, issued, delivered>>

SteerableWhileStopping(a) == agents[a].status \in Live

Steerable(a) == agents[a].status \in Live \ {"Stopping"}

SendMessage(a) ==
    /\ Steerable(a)
    /\ Len(mailbox[a]) < MailBound
    /\ mailbox' = [mailbox EXCEPT ![a] = Append(@, [kind |-> "note", run |-> None])]
    /\ agents' = [agents EXCEPT ![a].status = "Running"]
    /\ UNCHANGED <<runToAgent, limit, issued, delivered>>

Drain(s) ==
    /\ mailbox' = [mailbox EXCEPT ![s] = << >>]
    /\ UNCHANGED <<agents, runToAgent, limit, issued, delivered>>

-----------------------------------------------------------------------------
(* remove_root: a deleted chat takes its subagents with it                 *)

RemoveRoot(c) ==
    LET gone == {a \in AgentIds : Present(a) /\ agents[a].chat = c}
    IN  /\ agents' = [a \in AgentIds |->
               IF a \in gone THEN [Blank EXCEPT !.status = "removed"] ELSE agents[a]]
        /\ runToAgent' = [r \in RunIds |->
               IF \E a \in gone : agents[a].run = r THEN None ELSE runToAgent[r]]
        /\ mailbox' = [s \in Sessions |->
               IF s \in gone THEN << >> ELSE mailbox[s]]
        /\ UNCHANGED <<limit, issued, delivered>>

SetLimitUnclamped(n) ==
    /\ limit' = n - 1
    /\ UNCHANGED <<agents, runToAgent, mailbox, issued, delivered>>

SetLimit(n) ==
    /\ limit' = n
    /\ UNCHANGED <<agents, runToAgent, mailbox, issued, delivered>>

-----------------------------------------------------------------------------

AgentStep(a) ==
    \/ \E c \in Chats, s \in Sessions, p \in RunIds :
           s \in AgentIds \union {c} /\ Reserve(a, c, s, p)
    \/ \E p \in RunIds : Restart(a, p)
    \/ \E r \in RunIds : AttachRun(a, r)
    \/ FailReserved(a)
    \/ RequestStop(a)
    \/ SendMessage(a)

RunStep(r) == \E outcome \in Outcomes : CompleteRun(r, outcome)

Next ==
    \/ \E a \in AgentIds : AgentStep(a)
    \/ \E r \in RunIds : RunStep(r)
    \/ \E s \in Sessions : Drain(s)
    \/ \E c \in Chats : RemoveRoot(c)
    \/ \E n \in 1..MaxAgents : SetLimit(n)

Spec == Init /\ [][Next]_registryVars

-----------------------------------------------------------------------------
(* Properties                                                              *)

TypeOK ==
    /\ agents \in [AgentIds -> Agents]
    /\ runToAgent \in [RunIds -> AgentIds \union {None}]
    /\ mailbox \in [Sessions -> Seq(Mail)]
    /\ limit \in 1..MaxAgents
    /\ issued \in SUBSET RunIds
    /\ delivered \in [RunIds -> Nat]

(* The subagents that hold a slot never outnumber the top of the clamp,    *)
(* over every order of reserve, restart, stop, completion, chat deletion   *)
(* and settings change.  multi_agent.rs:35, "capacity is shared by every   *)
(* chat on this device".                                                   *)
Capacity == Cardinality(Active) <= MaxAgents

(* The end of a live child's run finds the child: whatever run id a record *)
(* carries, run_to_agent leads back to that record, and a child in         *)
(* Stopping has such a run.  Otherwise complete_run answers None and the   *)
(* slot is never given back.                                               *)
EveryRunFindsItsChild ==
    \A a \in AgentIds :
        /\ agents[a].run # None => runToAgent[agents[a].run] = a
        /\ agents[a].status = "Stopping" => agents[a].run # None

(* The delegation tree is well formed across deletions and restarts: a     *)
(* child sits one level below a parent of the same chat, that parent is    *)
(* still recorded, and no depth exceeds the limit.                         *)
DelegationTree ==
    \A a \in AgentIds : Present(a) =>
        /\ agents[a].depth \in 1..MaxDepth
        /\ agents[a].parent = None => agents[a].depth = 1
        /\ agents[a].parent # None =>
               LET up == agents[a].parent
               IN  /\ Present(up)
                   /\ agents[up].chat = agents[a].chat
                   /\ agents[a].depth = agents[up].depth + 1

(* A run's completion reaches a mailbox at most once, however often the    *)
(* child is restarted and however late a duplicate report arrives          *)
(* (prior_completion_cannot_end_a_restarted_child_or_deliver_twice).       *)
DeliveredOnce == \A r \in RunIds : delivered[r] <= 1

(* A stop request is never undone: a child in Stopping leaves that state   *)
(* only by ending as Interrupted, by a failed launch, or with its chat.    *)
(* No message, late result or follow-up turns it back into work.           *)
StopIsKept ==
    [][\A a \in AgentIds :
           agents[a].status = "Stopping" =>
               agents'[a].status \in {"Stopping", "Interrupted", "Failed", "removed"}]_registryVars

Pool == INSTANCE SlotPool WITH
    Workers <- AgentIds, MaxSlots <- MaxAgents, held <- Active, limit <- limit

(* The registry is a slot pool: each of its steps takes one free slot,     *)
(* gives slots back, moves the limit, or leaves the slots alone.           *)
ImplementsSlotPool == Pool!Spec
=============================================================================
