----------------------------- MODULE RunRecords -----------------------------
(***************************************************************************)
(* What the store keeps of runs: a receipt per turn, a row per subagent.   *)
(*                                                                         *)
(* Cores (processes with a window of their own, all on one workbench.db)   *)
(* start turns, one chat each.  A chat is the operator's, or the thread of *)
(* the one subagent modelled, which its parent restarts once it is over.   *)
(* Each change of the subagent in the registry is written to its row by a  *)
(* later step, with the snapshot taken under the registry's lock.  A core  *)
(* may be killed between any two steps; another may open the store while   *)
(* it lives, and opens it in several steps of its own.                     *)
(*                                                                         *)
(* A definition whose name extends the name of the next one is a seeded    *)
(* slip: what that definition would be if the code had the named mistake.  *)
(***************************************************************************)
EXTENDS Naturals, FiniteSets

CONSTANTS
    Cores,       \* processes
    MaxTurns,    \* bound: turns started between them
    MaxLives     \* bound: times the cores are started

VARIABLES
    life,        \* each core's life, 0 while it is not running
    lives,       \* lives begun so far
    turn,        \* each turn: its chat, its core's life and its step
    receipt,     \* run_receipts: each turn's status and owner
    agent,       \* the subagent in each core's registry: status and turn
    row,         \* its row in subagents
    note,        \* a snapshot each core's operator or parent has yet to persist
    opening      \* what each core still has to do before it serves
vars == <<life, lives, turn, receipt, agent, row, note, opening>>

Final == {"completed", "failed", "interrupted"}
Statuses == Final \union {"pending", "running", "stopping"}
Turns == 1 .. MaxTurns
NoTurn == [at |-> "none"]
NoReceipt == [status |-> "none", owner |-> 0]
Opened == [at |-> "opened"]
Fresh == [status |-> "completed", turn |-> 0]   \* an earlier turn of it is over

Init ==
    /\ life = [p \in Cores |-> 0] /\ lives = 0
    /\ turn = [t \in Turns |-> NoTurn]
    /\ receipt = [t \in Turns |-> NoReceipt]
    /\ agent = [p \in Cores |-> Fresh] /\ row = "completed"
    /\ note = [p \in Cores |-> "none"]
    /\ opening = [p \in Cores |-> Opened]

At(t, step) == turn[t].at = step
Goto(t, step) == turn' = [turn EXCEPT ![t].at = step]
NextTurn(t) == turn[t] = NoTurn /\ \A u \in 1 .. t - 1 : turn[u] # NoTurn
Mine(t, p) == turn[t] # NoTurn /\ life[p] # 0 /\ turn[t].life = life[p]
CoreOf(t) == CHOOSE p \in Cores : Mine(t, p)
Lives(t) == \E p \in Cores : Mine(t, p)
Serves(p) == life[p] # 0 /\ opening[p] = Opened
Alive(owner) == \E p \in Cores : life[p] # 0 /\ life[p] = owner

-----------------------------------------------------------------------------
(* db::open: evidence::recover reads the receipts that run, asks of each   *)
(* whether its owner lives, and writes what it concludes without another   *)
(* look at the receipt.                                                    *)
Open(p) ==
    /\ life[p] = 0 /\ lives < MaxLives
    /\ lives' = lives + 1
    /\ life' = [life EXCEPT ![p] = lives']
    /\ opening' = [opening EXCEPT ![p] =
           [at |-> "check", todo |-> {t \in Turns : receipt[t].status = "running"}]]
    /\ UNCHANGED <<turn, receipt, agent, row, note>>

CheckOwner(p, t) ==
    /\ opening[p].at = "check" /\ t \in opening[p].todo
    /\ opening' = [opening EXCEPT ![p] =
           IF Alive(receipt[t].owner) THEN [at |-> "check", todo |-> @.todo \ {t}]
           ELSE [at |-> "interrupt", todo |-> @.todo \ {t}, turn |-> t]]
    /\ UNCHANGED <<life, lives, turn, receipt, agent, row, note>>

Interrupt(p) ==
    /\ opening[p].at = "interrupt"
    /\ receipt' = [receipt EXCEPT ![opening[p].turn].status = "interrupted"]
    /\ opening' = [opening EXCEPT ![p] = [at |-> "check", todo |-> @.todo]]
    /\ UNCHANGED <<life, lives, turn, agent, row, note>>

(* Then the rows of agents at work, whoever runs them.                     *)
Reaped == IF row \in {"pending", "running"} THEN "interrupted" ELSE row

Reap(p) ==
    /\ opening[p].at = "check" /\ opening[p].todo = {}
    /\ row' = Reaped
    /\ opening' = [opening EXCEPT ![p] = [at |-> "restore"]]
    /\ UNCHANGED <<life, lives, turn, receipt, agent, note>>

(* AppState's registry is restored from the rows as they are by then.      *)
RestoredAsStored(status) == status
Restored(status) == IF status \in Final THEN status ELSE "interrupted"

Restore(p) ==
    /\ opening[p].at = "restore"
    /\ agent' = [agent EXCEPT ![p] = [status |-> Restored(row), turn |-> 0]]
    /\ opening' = [opening EXCEPT ![p] = Opened]
    /\ UNCHANGED <<life, lives, turn, receipt, row, note>>

(* Killed, or the power fails: what the core had in memory is gone.        *)
Crash(p) ==
    /\ life[p] # 0
    /\ life' = [life EXCEPT ![p] = 0]
    /\ turn' = [t \in Turns |-> IF Mine(t, p) THEN [turn[t] EXCEPT !.at = "over"] ELSE turn[t]]
    /\ note' = [note EXCEPT ![p] = "none"]
    /\ agent' = [agent EXCEPT ![p] = Fresh]
    /\ opening' = [opening EXCEPT ![p] = Opened]
    /\ UNCHANGED <<lives, receipt, row>>

-----------------------------------------------------------------------------
(* A turn of the operator's chat.                                          *)
Send(p, t) ==
    /\ Serves(p) /\ NextTurn(t)
    /\ turn' = [turn EXCEPT ![t] = [chat |-> "operator", life |-> life[p], at |-> "begin"]]
    /\ UNCHANGED <<life, lives, receipt, agent, row, note, opening>>

(* followup_task: restart, which takes an agent that is over, and its row. *)
FollowUp(p, t) ==
    /\ Serves(p) /\ NextTurn(t)
    /\ agent[p].status \in Final
    /\ agent' = [agent EXCEPT ![p] = [status |-> "pending", turn |-> 0]]
    /\ turn' = [turn EXCEPT ![t] = [chat |-> "agent", life |-> life[p], at |-> "restarted"]]
    /\ UNCHANGED <<life, lives, receipt, row, note, opening>>

(* multi_agent::persist, with the status taken under the registry's lock.  *)
Persisted(t, status, before, after) ==
    /\ Lives(t) /\ At(t, before)
    /\ row' = status
    /\ Goto(t, after)
    /\ UNCHANGED <<life, lives, receipt, agent, note, opening>>

(* start, in the supervisor: attach_run refuses an agent stopped meanwhile.*)
Attach(t) ==
    LET p == CoreOf(t)
    IN  /\ Lives(t) /\ At(t, "launch")
        /\ IF agent[p].status = "pending"
           THEN /\ agent' = [agent EXCEPT ![p] = [status |-> "running", turn |-> t]]
                /\ Goto(t, "attached")
           ELSE UNCHANGED agent /\ Goto(t, "refused")
        /\ UNCHANGED <<life, lives, receipt, row, note, opening>>

(* evidence::begin: the check and the insert are two statements, under the *)
(* lock on the connection of this core.                                    *)
Locked(p) == \E t \in Turns : Mine(t, p) /\ At(t, "insert")
ChatIsBusy(t) == \E u \in Turns :
    receipt[u].status = "running" /\ turn[u].chat = turn[t].chat

Begin(t) ==
    /\ Lives(t) /\ At(t, "begin") /\ ~Locked(CoreOf(t))
    /\ Goto(t, IF ~ChatIsBusy(t) THEN "insert"
               ELSE IF turn[t].chat = "agent" THEN "refused" ELSE "over")
    /\ UNCHANGED <<life, lives, receipt, agent, row, note, opening>>

Insert(t) ==
    /\ Lives(t) /\ At(t, "insert")
    /\ receipt' = [receipt EXCEPT ![t] = [status |-> "running", owner |-> turn[t].life]]
    /\ \/ Goto(t, "work")
       \/ Goto(t, IF turn[t].chat = "agent" THEN "refused" ELSE "over")   \* 9093 fails
    /\ UNCHANGED <<life, lives, agent, row, note, opening>>

(* launch_subagent's error arm: fail_reserved.                             *)
FailReserved(t) ==
    LET p == CoreOf(t)
        status == IF agent[p].status \in Final THEN agent[p].status ELSE "failed"
    IN  /\ Lives(t) /\ At(t, "refused")
        /\ agent' = [agent EXCEPT ![p].status = status]
        /\ turn' = [turn EXCEPT ![t] = [chat |-> "agent", life |-> @.life,
                                        at |-> "failed", status |-> status]]
        /\ UNCHANGED <<life, lives, receipt, row, note, opening>>

(* The last steps of a turn, answered or failed: complete_run, the row,    *)
(* agent://done.                                                           *)
Outcomes(status) == IF status = "stopping" THEN {"interrupted"} ELSE Final

Complete(t) ==
    LET p == CoreOf(t)
    IN  /\ Lives(t) /\ At(t, "work") /\ turn[t].chat = "agent"
        /\ IF agent[p].turn = t /\ agent[p].status \notin Final
           THEN \E status \in Outcomes(agent[p].status) :
                /\ agent' = [agent EXCEPT ![p].status = status]
                /\ turn' = [turn EXCEPT ![t] = [chat |-> "agent", life |-> @.life,
                                                at |-> "completed", status |-> status]]
           ELSE Goto(t, "done") /\ UNCHANGED agent
        /\ UNCHANGED <<life, lives, receipt, row, note, opening>>

(* observe settles a receipt that is running, as finished, failed, stopped *)
(* or incomplete; the store may refuse it.                                 *)
Settles(status) == status = "running"

Done(t) ==
    /\ Lives(t) /\ (At(t, "done") \/ (At(t, "work") /\ turn[t].chat = "operator"))
    /\ \/ /\ Settles(receipt[t].status)
          /\ receipt' = [receipt EXCEPT ![t].status = "settled"]
       \/ UNCHANGED receipt
    /\ Goto(t, "over")
    /\ UNCHANGED <<life, lives, agent, row, note, opening>>

Turn(t) ==
    \/ Persisted(t, "pending", "restarted", "launch")
    \/ Attach(t)
    \/ Persisted(t, "running", "attached", "begin")
    \/ Begin(t) \/ Insert(t) \/ FailReserved(t) \/ Complete(t) \/ Done(t)
    \/ Persisted(t, turn[t].status, "failed", "over")
    \/ Persisted(t, turn[t].status, "completed", "done")

-----------------------------------------------------------------------------
(* interrupt, send_message: the registry, then the row.                    *)
Stop(p) ==
    /\ Serves(p) /\ note[p] = "none"
    /\ LET status == IF agent[p].status \in Final THEN agent[p].status
                     ELSE IF agent[p].turn # 0 THEN "stopping" ELSE "interrupted"
       IN  /\ agent' = [agent EXCEPT ![p].status = status]
           /\ note' = [note EXCEPT ![p] = status]
    /\ UNCHANGED <<life, lives, turn, receipt, row, opening>>

Message(p) ==
    /\ Serves(p) /\ note[p] = "none" /\ agent[p].status \in {"pending", "running"}
    /\ agent' = [agent EXCEPT ![p].status = "running"]
    /\ note' = [note EXCEPT ![p] = "running"]
    /\ UNCHANGED <<life, lives, turn, receipt, row, opening>>

PersistNote(p) ==
    /\ note[p] # "none"
    /\ row' = note[p]
    /\ note' = [note EXCEPT ![p] = "none"]
    /\ UNCHANGED <<life, lives, turn, receipt, agent, opening>>

Next ==
    \/ \E p \in Cores :
         \/ Open(p) \/ Interrupt(p) \/ Reap(p) \/ Restore(p)
         \/ Crash(p) \/ Stop(p) \/ Message(p) \/ PersistNote(p)
    \/ \E p \in Cores, t \in Turns : CheckOwner(p, t) \/ Send(p, t) \/ FollowUp(p, t)
    \/ \E t \in Turns : Turn(t)

Spec == Init /\ [][Next]_vars

-----------------------------------------------------------------------------
TypeOK ==
    /\ life \in [Cores -> 0 .. MaxLives] /\ lives \in 0 .. MaxLives
    /\ \A t \in Turns : turn[t] = NoTurn \/ turn[t].life \in 1 .. MaxLives
    /\ receipt \in [Turns -> [status : {"none", "running", "settled", "interrupted"},
                            owner : 0 .. MaxLives]]
    /\ agent \in [Cores -> [status : Statuses, turn : Turns \union {0}]]
    /\ row \in Statuses /\ note \in [Cores -> Statuses \union {"none"}]
    /\ opening \in [Cores -> {Opened, [at |-> "restore"]}
           \union [at : {"check"}, todo : SUBSET Turns]
           \union [at : {"interrupt"}, todo : SUBSET Turns, turn : Turns]]

(* What a receipt says of a turn that is over stays, through restarts and  *)
(* whatever arrives late; and no core that starts gives a turn of another  *)
(* one up while that core lives.  One receipt is lost, and excepted: that  *)
(* of a turn that ends, and whose core ends, after a starting core has     *)
(* read the receipt as running and before it writes.                       *)
ReadAsRunning(p, t) ==
    /\ opening[p].at \in {"check", "interrupt"}
    /\ t \in opening[p].todo \/ (opening[p].at = "interrupt" /\ opening[p].turn = t)

ReceiptsHold ==
    [][\A t \in Turns :
         /\ receipt[t].status \notin {"none", "running"} =>
                \/ receipt'[t] = receipt[t]
                \/ /\ receipt[t].status = "settled" /\ receipt'[t].status = "interrupted"
                   /\ \E p \in Cores : ReadAsRunning(p, t)
         /\ receipt'[t].status = "interrupted" /\ receipt[t].status # "interrupted" =>
                ~Alive(receipt[t].owner)]_vars

(* One turn works in a chat at a time, in the windows of one core.         *)
Works(t) == At(t, "work") \/ At(t, "completed") \/ At(t, "done")
OneTurn ==
    \A t, u \in Turns :
        t # u /\ Works(t) /\ Works(u) /\ turn[t].chat = turn[u].chat =>
            turn[t].life # turn[u].life

(* A subagent a core shows at work is some turn's of that core: a crash    *)
(* leaves no agent that occupies a slot for ever.                          *)
NoGhost ==
    \A p \in Cores :
        life[p] # 0 /\ agent[p].status \notin Final =>
            \E t \in Turns : Mine(t, p) /\ turn[t].chat = "agent" /\ ~At(t, "over")
=============================================================================
