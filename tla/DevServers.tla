----------------------------- MODULE DevServers -----------------------------
(***************************************************************************)
(* The development server of one workspace.                                *)
(*                                                                         *)
(* start decides under the lock whether to reuse the entry, wait for it or *)
(* start afresh; stopping the old server, spawning the new one and putting *)
(* it in the table happen outside, so starts overlap.  A spawned process   *)
(* lives while somebody holds its job handle: its entry (in the kill       *)
(* closure) or the start that spawned it, until that returns.              *)
(*                                                                         *)
(* What the steps of a start and the watcher thread of a process do to the *)
(* table they do to the workspace's entry, whichever process it names.     *)
(* A definition whose name extends the name of the next one is a seeded    *)
(* slip: what that definition would be if the code had the named mistake.  *)
(***************************************************************************)
EXTENDS Naturals

CONSTANTS
    Callers,     \* tasks that call devserver::start
    Commands,    \* command lines
    MaxSpawns    \* bound: processes that are spawned

VARIABLES
    entry,       \* the workspace's entry in DevServers.entries
    live,        \* processes that run
    spawned,     \* processes spawned so far
    watching,    \* processes whose watcher thread has not reported yet
    call         \* each caller's step, command, process and deadline
vars == <<entry, live, spawned, watching, call>>

NoEntry == [pid |-> 0]
Idle == [at |-> "idle"]
At(c, step) == call[c].at = step
Goto(c, step) == call' = [call EXCEPT ![c].at = step]
Return(c) == call' = [call EXCEPT ![c] = Idle]

Init ==
    /\ entry = NoEntry /\ live = {} /\ spawned = 0 /\ watching = {}
    /\ call = [c \in Callers |-> Idle]

(* Who holds a job handle: dropping the last one ends the process tree.    *)
HeldBy(c, p) == call[c].at \in {"insert", "loop", "probe"} /\ call[c].pid = p
Held(p) == \E c \in Callers : HeldBy(c, p)

Starting(e) == e # NoEntry /\ e.status = "starting"
Showing(e) == e # NoEntry /\ e.status \in {"starting", "running"}

-----------------------------------------------------------------------------
(* The reuse decision, under the lock.  A command no dev server may be     *)
(* started through, or that cannot be spawned, returns an error later.     *)
Start(c, command) ==
    /\ At(c, "idle")
    /\ LET same == Showing(entry) /\ entry.pid \in live /\ entry.command = command
           step == IF ~same THEN "stop" ELSE IF Starting(entry) THEN "wait" ELSE "idle"
       IN  call' = [call EXCEPT ![c] =
               IF step = "idle" THEN Idle
               ELSE [at |-> step, command |-> command, pid |-> 0, late |-> FALSE]]
    /\ UNCHANGED <<entry, live, spawned, watching>>

(* wait_for_start: each quarter of a second, until its deadline.           *)
Waited(c) ==
    /\ At(c, "wait")
    /\ ~Starting(entry) \/ call[c].late
    /\ Return(c)
    /\ UNCHANGED <<entry, live, spawned, watching>>

(* stop: takes the entry out and kills its leader.                         *)
Stopped ==
    /\ entry' = NoEntry
    /\ live' = live \ {entry.pid}

StopFirst(c) ==
    /\ At(c, "stop") /\ Stopped /\ Goto(c, "spawn")
    /\ UNCHANGED <<spawned, watching>>

OperatorStops == Stopped /\ entry # NoEntry /\ UNCHANGED <<spawned, watching, call>>

Refused(c) == At(c, "spawn") /\ Return(c) /\ UNCHANGED <<entry, live, spawned, watching>>

Spawn(c) ==
    /\ At(c, "spawn") /\ spawned < MaxSpawns
    /\ spawned' = spawned + 1
    /\ live' = live \union {spawned'}
    /\ call' = [call EXCEPT ![c].at = "insert", ![c].pid = spawned']
    /\ UNCHANGED <<entry, watching>>

(* The entry that is overwritten gives up its handle.                      *)
InsertUncontained(c) ==
    /\ At(c, "insert")
    /\ entry' = [pid |-> call[c].pid, command |-> call[c].command, status |-> "starting"]
    /\ watching' = watching \union {call[c].pid}
    /\ Goto(c, "loop")
    /\ UNCHANGED <<live, spawned>>

Insert(c) ==
    LET p == call[c].pid
    IN  /\ At(c, "insert")
        /\ entry' = [pid |-> p, command |-> call[c].command, status |-> "starting"]
        /\ live' = IF Held(entry.pid) THEN live ELSE live \ {entry.pid}
        /\ watching' = watching \union {p}
        /\ Goto(c, "loop")
        /\ UNCHANGED spawned

DeadlinePasses(c) ==
    /\ call[c].at \in {"wait", "loop", "probe"} /\ ~call[c].late
    /\ call' = [call EXCEPT ![c].late = TRUE]
    /\ UNCHANGED <<entry, live, spawned, watching>>

(* Waiting for a port and an answer on it.                                 *)
DeadlineHit(c) == call[c].late

Probe(c) ==
    /\ At(c, "loop") /\ ~DeadlineHit(c) /\ call[c].pid \in live
    /\ Goto(c, "probe")
    /\ UNCHANGED <<entry, live, spawned, watching>>

NoAnswer(c) == At(c, "probe") /\ Goto(c, "loop") /\ UNCHANGED <<entry, live, spawned, watching>>

(* An answer turns the entry to Running if its process lives; the start    *)
(* returns and gives up its own handle.                                    *)
EntryLives == entry # NoEntry /\ entry.pid \in live

Answered(c) ==
    /\ At(c, "probe") /\ EntryLives
    /\ entry' = [entry EXCEPT !.status = "running"]
    /\ live' = IF call[c].pid = entry.pid THEN live ELSE live \ {call[c].pid}
    /\ Return(c)
    /\ UNCHANGED <<spawned, watching>>

(* Dead, or out of time: the entry is removed and its process killed.      *)
NotReady(c) ==
    /\ At(c, "loop") /\ (DeadlineHit(c) \/ call[c].pid \notin live)
    /\ entry' = NoEntry
    /\ live' = live \ {entry.pid, call[c].pid}
    /\ Return(c)
    /\ UNCHANGED <<spawned, watching>>

-----------------------------------------------------------------------------
Exit(p) ==
    /\ p \in live
    /\ live' = live \ {p}
    /\ UNCHANGED <<entry, spawned, watching, call>>

(* The watcher of a process that has gone reports it on the entry.         *)
Watch(p) ==
    /\ p \in watching \ live
    /\ watching' = watching \ {p}
    /\ entry' = IF entry = NoEntry THEN entry ELSE [entry EXCEPT !.status = "failed"]
    /\ UNCHANGED <<live, spawned, call>>

(* status asks the system before it shows an entry.                        *)
Status ==
    /\ Showing(entry) /\ entry.pid \notin live
    /\ entry' = [entry EXCEPT !.status = "failed"]
    /\ UNCHANGED <<live, spawned, watching, call>>

Caller(c) ==
    \/ StopFirst(c) \/ Refused(c) \/ Spawn(c) \/ Insert(c)
    \/ Probe(c) \/ NoAnswer(c) \/ Answered(c) \/ NotReady(c) \/ Waited(c)

Next ==
    \/ \E c \in Callers :
         (\E command \in Commands : Start(c, command)) \/ Caller(c) \/ DeadlinePasses(c)
    \/ OperatorStops \/ Status
    \/ \E p \in 1 .. MaxSpawns : Exit(p) \/ Watch(p)

(* Deadlines come and tasks are polled.                                    *)
Fairness ==
    \A c \in Callers : WF_vars(Caller(c)) /\ WF_vars(DeadlinePasses(c))

Spec == Init /\ [][Next]_vars /\ Fairness

-----------------------------------------------------------------------------
Pids == 1 .. MaxSpawns

TypeOK ==
    /\ entry \in {NoEntry} \union [pid : Pids, command : Commands,
                                   status : {"starting", "running", "failed"}]
    /\ live \subseteq Pids /\ watching \subseteq Pids
    /\ spawned \in 0 .. MaxSpawns
    /\ call \in [Callers -> {Idle} \union
                     [at : {"wait", "stop", "spawn", "insert", "loop", "probe"},
                      command : Commands, pid : Pids \union {0}, late : BOOLEAN]]

(* However starts, stops and exits overlap, no process runs on that the    *)
(* table does not show and no start will still put there or give up: a     *)
(* stop of the workspace leaves nothing of it running.                     *)
NoStray == \A p \in live : entry.pid = p \/ Held(p)

(* An entry whose process has gone shows it, once its watcher has spoken.  *)
DeadIsNoticed ==
    Showing(entry) /\ entry.pid \notin live => entry.pid \in watching

(* A start returns, with a server or with the reason.                      *)
StartsEnd == \A c \in Callers : call[c].at # "idle" ~> call[c].at = "idle"
=============================================================================
