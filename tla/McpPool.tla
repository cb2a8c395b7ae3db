------------------------------ MODULE McpPool ------------------------------
(***************************************************************************)
(* The pooled stdio connection of one MCP server.                          *)
(*                                                                         *)
(* The pool maps the server's id to a slot; a slot's mutex is held by one  *)
(* call, or by reconcile, at a time.  A call reads the settings once; a    *)
(* tools/list call then asks for page after page under that configuration. *)
(* Saving settings retires the slot of a configuration that is not in them *)
(* any more.  A server may die, stay silent, or answer a request twice.    *)
(*                                                                         *)
(* A slot stands for its process too: a connection is "up" while the       *)
(* process runs and "dead" when it exited by itself.                       *)
(* A definition whose name extends the name of the next one is a seeded    *)
(* slip: what that definition would be if the code had the named mistake.  *)
(***************************************************************************)
EXTENDS Naturals, Sequences, FiniteSets

CONSTANTS
    Calls,        \* tasks that use the server
    Saves,        \* settings_set requests, each handled once
    Configs,      \* configurations the server may be given
    MaxRequests   \* bound: requests asked, pages included

VARIABLES
    settings,     \* the enabled configuration in the settings, or "off"
    pool,         \* the slot the server's id maps to, 0 for none
    slot,         \* each slot: configuration, retired, connection, last id
    holder,       \* who holds each slot's mutex
    wire,         \* answers on each slot's connection nobody has read
    task,         \* each call's and save's step
    asked,        \* requests asked so far
    misled        \* calls that took the answer to another request (history)
vars == <<settings, pool, slot, holder, wire, task, asked, misled>>

Tasks == Calls \union Saves
Slots == 1 .. Cardinality(Tasks) + 1   \* never all in use at once
Unused == [config |-> "none", retired |-> FALSE, connection |-> "none", id |-> 1]
Idle == [at |-> "idle"]
At(t, step) == task[t].at = step
Done == [at |-> "done"]
Busy(t) == task[t] \notin {Idle, Done}
Return(t) == task' = [task EXCEPT ![t] = IF t \in Saves THEN Done ELSE Idle]
Goto(t, step) == task' = [task EXCEPT ![t].at = step]
Live(s) == slot[s].connection = "up"

Init ==
    /\ settings = CHOOSE config \in Configs : TRUE
    /\ pool = 0 /\ slot = [s \in Slots |-> Unused]
    /\ holder = [s \in Slots |-> "free"] /\ wire = [s \in Slots |-> <<>>]
    /\ task = [t \in Tasks |-> Idle]
    /\ asked = 0 /\ misled = {}

(* The slot's mutex; reconcile waits for a call that holds it.             *)
LockableByReconcile(t, s) == t \in Saves \/ holder[s] = "free"
Lockable(t, s) == holder[s] = "free"
Unlock(s) == holder' = [holder EXCEPT ![s] = "free"]

(* close: takes the connection out and waits for the killed child.  The    *)
(* unread answers go with the connection.                                  *)
Closed(s) == [slot[s] EXCEPT !.connection = "none", !.id = 1]
DroppedWire(s) == [wire EXCEPT ![s] = <<>>]

-----------------------------------------------------------------------------
(* Every entry point looks the server up in the settings of that moment.   *)
ReadSettings(c) ==
    /\ At(c, "idle") /\ settings # "off" /\ asked < MaxRequests
    /\ asked' = asked + 1
    /\ task' = [task EXCEPT ![c] = [at |-> "pool", config |-> settings, slot |-> 0,
                                    request |-> asked']]
    /\ UNCHANGED <<settings, pool, slot, holder, wire, misled>>

(* session: the slot under the pool's lock, inserted if there is none.     *)
InUse == {pool} \union {task[t].slot : t \in {u \in Tasks : Busy(u)}}
FindSlot(c) ==
    /\ At(c, "pool")
    /\ LET s == IF pool # 0 THEN pool ELSE CHOOSE n \in Slots : n \notin InUse
       IN  /\ slot' = IF pool # 0 THEN slot
                       ELSE [slot EXCEPT ![s] = [Unused EXCEPT !.config = task[c].config]]
           /\ pool' = s
           /\ task' = [task EXCEPT ![c].at = "lock", ![c].slot = s]
    /\ UNCHANGED <<settings, holder, wire, asked, misled>>

(* Under the slot's mutex: refused if reconcile retired it meanwhile.      *)
RefusedIfRetired(s) == slot[s].retired

LockSlot(c) ==
    LET s == task[c].slot
    IN  /\ At(c, "lock") /\ Lockable(c, s)
        /\ IF RefusedIfRetired(s)
           THEN /\ Return(c)
                /\ UNCHANGED <<slot, wire, holder>>
           ELSE LET other == slot[s].config # task[c].config
                IN  /\ holder' = [holder EXCEPT ![s] = c]
                    /\ slot' = [slot EXCEPT ![s] =
                           IF other THEN [Closed(s) EXCEPT !.config = task[c].config] ELSE @]
                    /\ wire' = IF other THEN DroppedWire(s) ELSE wire
                    /\ Goto(c, IF other \/ slot[s].connection = "none"
                               THEN "connect" ELSE "send")
        /\ UNCHANGED <<settings, pool, asked, misled>>

(* connect: the child is spawned; initialize is answered before the request *)
(* is sent.                                                                *)
Spawn(c) ==
    /\ At(c, "connect")
    /\ slot' = [slot EXCEPT ![task[c].slot].connection = "up"]
    /\ Goto(c, "send")
    /\ UNCHANGED <<settings, pool, holder, wire, asked, misled>>

(* The next id of the connection.                                          *)
NextIdAgain(s) == slot[s].id
NextId(s) == slot[s].id + 1

Send(c) ==
    LET s == task[c].slot
    IN  /\ At(c, "send")
        /\ slot' = [slot EXCEPT ![s].id = NextId(s)]
        /\ Goto(c, "receive")
        /\ UNCHANGED <<settings, pool, holder, wire, asked, misled>>

(* request: skips everything that does not carry the id it waits for; a    *)
(* page of tools/list that names a cursor not seen yet asks for the next   *)
(* one, through the pool again.                                            *)
Receive(c) ==
    LET s == task[c].slot
    IN  /\ At(c, "receive") /\ wire[s] # <<>>
        /\ wire' = [wire EXCEPT ![s] = Tail(@)]
        /\ IF Head(wire[s]).id # slot[s].id
           THEN UNCHANGED <<task, holder, asked, misled>>
           ELSE /\ misled' = IF Head(wire[s]).request = task[c].request
                             THEN misled ELSE misled \union {c}
                /\ Unlock(s)
                /\ \/ Return(c) /\ UNCHANGED asked
                   \/ /\ asked < MaxRequests
                      /\ asked' = asked + 1
                      /\ task' = [task EXCEPT ![c] = [@ EXCEPT !.at = "pool", !.slot = 0,
                                                                !.request = asked']]
        /\ UNCHANGED <<settings, pool, slot>>

(* An error answer, no answer within thirty seconds, a dead process, a     *)
(* child that cannot be started: the connection is closed.                 *)
AfterError(s) == [slot EXCEPT ![s] = Closed(s)]

Failed(c) ==
    LET s == task[c].slot
    IN  /\ task[c].at \in {"connect", "send", "receive"}
        /\ slot' = AfterError(s)
        /\ wire' = DroppedWire(s)
        /\ Unlock(s) /\ Return(c)
        /\ UNCHANGED <<settings, pool, asked, misled>>

-----------------------------------------------------------------------------
(* The server's process.                                                   *)
Answer(c) ==
    /\ At(c, "receive") /\ Live(task[c].slot) /\ Len(wire[task[c].slot]) < 2
    /\ wire' = [wire EXCEPT ![task[c].slot] =
           Append(@, [id |-> slot[task[c].slot].id, request |-> task[c].request])]
    /\ UNCHANGED <<settings, pool, slot, holder, task, asked, misled>>

Die(s) ==
    /\ Live(s)
    /\ slot' = [slot EXCEPT ![s].connection = "dead"]
    /\ UNCHANGED <<settings, pool, holder, wire, task, asked, misled>>

-----------------------------------------------------------------------------
(* settings_set, then reconcile with the settings as they are by then.     *)
Save(v, config) ==
    /\ At(v, "idle") /\ config # settings
    /\ settings' = config
    /\ task' = [task EXCEPT ![v] = [at |-> "saved", config |-> config, slot |-> 0]]
    /\ UNCHANGED <<pool, slot, holder, wire, asked, misled>>

Snapshot(v) ==
    /\ At(v, "saved")
    /\ task' = [task EXCEPT ![v] = IF pool = 0 THEN Done
                    ELSE [at |-> "lock", config |-> settings, slot |-> pool]]
    /\ UNCHANGED <<settings, pool, slot, holder, wire, asked, misled>>

Retire(v) ==
    LET s == task[v].slot
    IN  /\ At(v, "lock") /\ Lockable(v, s)
        /\ IF slot[s].config = task[v].config
           THEN Return(v) /\ UNCHANGED <<slot, wire, holder>>
           ELSE /\ slot' = [slot EXCEPT ![s] = [Closed(s) EXCEPT !.retired = TRUE]]
                /\ wire' = DroppedWire(s)
                /\ holder' = [holder EXCEPT ![s] = v]
                /\ Goto(v, "remove")
        /\ UNCHANGED <<settings, pool, asked, misled>>

(* The pool's lock, asked for while the slot's is held: no call waits for  *)
(* a slot with the pool's lock in its hands.                               *)
PoolIsFreeIfNoneWaits == \A c \in Calls : ~At(c, "lock")
PoolIsFree == TRUE

(* Only if the id still maps to this slot.                                 *)
Remove(v) ==
    LET s == task[v].slot
    IN  /\ At(v, "remove") /\ PoolIsFree
        /\ pool' = IF pool = s THEN 0 ELSE pool
        /\ Unlock(s) /\ Return(v)
        /\ UNCHANGED <<settings, slot, wire, asked, misled>>

Call(c) ==
    \/ FindSlot(c) \/ LockSlot(c) \/ Spawn(c)
    \/ Send(c) \/ Receive(c) \/ Failed(c)
Reconcile(v) == Snapshot(v) \/ Retire(v) \/ Remove(v)

Next ==
    \/ \E c \in Calls : ReadSettings(c) \/ Call(c) \/ Answer(c)
    \/ \E s \in Slots : Die(s)
    \/ \E v \in Saves : Reconcile(v)
                     \/ \E config \in Configs \union {"off"} : Save(v, config)

(* Tasks are polled, and every wait for the server ends with its timeout.  *)
Fairness == \A t \in Tasks : WF_vars(IF t \in Calls THEN Call(t) ELSE Reconcile(t))

Spec == Init /\ [][Next]_vars /\ Fairness

-----------------------------------------------------------------------------
Stages ==
    [at : {"pool", "lock", "connect", "send", "receive"}, config : Configs,
     slot : Slots \union {0}, request : 1 .. MaxRequests]
Reviews ==
    [at : {"saved", "lock", "remove"}, config : Configs \union {"off"},
     slot : Slots \union {0}]

TypeOK ==
    /\ settings \in Configs \union {"off"}
    /\ pool \in Slots \union {0}
    /\ slot \in [Slots -> [config : Configs \union {"none"}, retired : BOOLEAN,
                           connection : {"none", "up", "dead"}, id : Nat \ {0}]]
    /\ holder \in [Slots -> Tasks \union {"free"}]
    /\ asked \in 0 .. MaxRequests /\ misled \subseteq Calls
    /\ wire \in [Slots -> Seq([id : Nat \ {0}, request : 1 .. MaxRequests])]
    /\ task \in [Tasks -> {Idle, Done} \union Stages \union Reviews]
    /\ \A c \in Calls : task[c] \in {Idle} \union Stages
    /\ \A v \in Saves : task[v] \in {Idle, Done} \union Reviews
    /\ \A t \in Tasks : task[t].at \in {"connect", "send", "receive", "remove"} =>
          holder[task[t].slot] = t

(* However calls, saves and retired slots overlap, at most one process of  *)
(* the server runs, and the pool leads to it: the next save can end it.    *)
OneProcess == \A s \in Slots : Live(s) => s = pool

(* What a call returns was said in answer to its own request, never to one *)
(* that was given up before.                                               *)
OwnAnswer == misled = {}

(* Every call, and every save of the settings, returns.                    *)
Ends(t) == Busy(t) ~> ~Busy(t)
TasksEnd == \A t \in Tasks : Ends(t)
=============================================================================
