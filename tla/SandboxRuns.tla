----------------------------- MODULE SandboxRuns -----------------------------
(***************************************************************************)
(* One sandboxed command, from its start to its row in the history.        *)
(*                                                                         *)
(* exec runs the program under a job object, registers a handle, stores a  *)
(* row, reads the output line by line and decides how the command ended.   *)
(* Whoever takes the handle out of the map ends the command: the Stop      *)
(* button, a cancelled agent run, the deadline or the shutdown.  The       *)
(* program ends by itself meanwhile, and may leave a child that holds the  *)
(* pipes open.  A process dies with the last holder of its job object: the *)
(* task, the handle or a Stop in progress.                                 *)
(***************************************************************************)
EXTENDS Naturals

CONSTANTS
    MaxSaid,     \* bound: lines the program writes
    MaxLines     \* MAX_LINES: lines of output a run stores

VARIABLES
    exec,        \* exec: its step, verdict, lines received, and lines kept
    leader,      \* the program's process
    said,        \* lines the program has written
    shut,        \* whether the program has closed its own ends of the pipes
    kids,        \* whether a child of the program holds the pipes open
    handle,      \* whether the run's handle is in AppState.sandbox
    stop,        \* kill: its step, and exec's when it took the handle
    cancelled,   \* whether the agent run that issued the command is cancelled
    late,        \* whether the deadline has passed
    row          \* the status in sandbox_runs
vars == <<exec, leader, said, shut, kids, handle, stop, cancelled, late, row>>

NoRow == "none"
At(step) == exec.at = step
Goto(step) == exec' = [exec EXCEPT !.at = step]
Verdict(step, status) == exec' = [exec EXCEPT !.at = step, !.status = status]
Gone == leader \in {"exited", "killed"}
PipesClosed == (Gone \/ shut) /\ ~kids
Queued == said - exec.got

Init ==
    /\ exec = [at |-> "idle", status |-> "", got |-> 0, kept |-> 0,
               truncated |-> FALSE, wedged |-> FALSE]
    /\ leader = "none" /\ said = 0 /\ shut = FALSE /\ kids = FALSE /\ handle = FALSE
    /\ stop = [at |-> "idle", during |-> "idle"]
    /\ cancelled = FALSE /\ late = FALSE /\ row = NoRow

(* The killer closure: terminates the leader, which dies a little later.   *)
Terminated(l) == IF l = "runs" THEN "doomed" ELSE l

(* Take the handle out of the map and, if it was there, kill.              *)
TakeAndKill ==
    /\ handle' = FALSE
    /\ leader' = IF handle THEN Terminated(leader) ELSE leader

-----------------------------------------------------------------------------
(* A command the policy or an operator rule refuses leaves a denied row,   *)
(* unless the store fails.                                                 *)
Refuse ==
    /\ At("idle") /\ Goto("over")
    /\ row' \in {NoRow, "denied"}
    /\ UNCHANGED <<leader, said, shut, kids, handle, stop, cancelled, late>>

Spawn ==
    /\ At("idle") /\ Goto("spawned")
    /\ leader' = "runs"
    /\ UNCHANGED <<said, shut, kids, handle, stop, cancelled, late, row>>

Register ==
    /\ At("spawned") /\ Goto("registered")
    /\ handle' = TRUE
    /\ UNCHANGED <<leader, said, shut, kids, stop, cancelled, late, row>>

InsertRow ==
    /\ At("registered") /\ Goto("drain")
    /\ row' = "running"
    /\ UNCHANGED <<leader, said, shut, kids, handle, stop, cancelled, late>>

(* The store refuses the row: exec returns, and the handle stays.          *)
InsertFails ==
    /\ At("registered") /\ Goto("over")
    /\ UNCHANGED <<leader, said, shut, kids, handle, stop, cancelled, late, row>>

(* The head of the drain loop: who asked for an end, in this order.        *)
Drain ==
    /\ At("drain")
    /\ \/ /\ cancelled
          /\ Verdict("look", "killed") /\ TakeAndKill
       \/ /\ ~cancelled /\ ~handle
          /\ Verdict("look", "killed") /\ UNCHANGED <<leader, handle>>
       \/ /\ ~cancelled /\ handle /\ late
          /\ Verdict("look", "timeout") /\ TakeAndKill
       \/ /\ ~cancelled /\ handle /\ ~late
          /\ Goto("receive") /\ UNCHANGED <<leader, handle>>
    /\ UNCHANGED <<said, shut, kids, stop, cancelled, late, row>>

(* A line arrived: stored, or at the limit counted and not stored.         *)
TakeLine ==
    LET full == At("receive") /\ exec.kept >= MaxLines
    IN  exec' = [exec EXCEPT !.at = "drain", !.got = @ + 1,
                             !.kept = IF full THEN @ ELSE @ + 1,
                             !.truncated = @ \/ full]

(* Quiet pipes: if the process is gone the readers get a moment to flush.  *)
Receive ==
    /\ At("receive") \/ At("flush")
    /\ \/ Queued > 0 /\ TakeLine
       \/ Queued = 0 /\ (At("flush") \/ PipesClosed) /\ Goto("look")
       \/ Queued = 0 /\ At("receive") /\ ~PipesClosed
             /\ Goto(IF Gone THEN "flush" ELSE "drain")
    /\ UNCHANGED <<leader, said, shut, kids, handle, stop, cancelled, late, row>>

(* A stop that landed while the pipes were closing is still a stop.        *)
Look ==
    /\ At("look")
    /\ LET status == IF exec.status = "" /\ ~handle THEN "killed" ELSE exec.status
       IN  /\ Verdict("wait", status)
           /\ IF status # "" THEN TakeAndKill ELSE UNCHANGED <<leader, handle>>
    /\ UNCHANGED <<said, shut, kids, stop, cancelled, late, row>>

(* wait_for_exit: the process is reaped, or two seconds pass.  A program   *)
(* nobody stopped that still lives then is wedged and is ended.            *)
WaitForExit ==
    /\ At("wait")
    /\ \/ /\ Gone \/ exec.status # ""
          /\ Goto("settle") /\ UNCHANGED <<leader, handle>>
       \/ /\ ~Gone /\ exec.status = ""
          /\ exec' = [exec EXCEPT !.at = "settle", !.status = "killed", !.wedged = TRUE]
          /\ TakeAndKill
    /\ UNCHANGED <<said, shut, kids, stop, cancelled, late, row>>

(* The handle goes, and with it and the task the job object.               *)
Settle ==
    /\ At("settle")
    /\ Verdict("finish", IF exec.status = "" THEN "exited" ELSE exec.status)
    /\ handle' = FALSE
    /\ UNCHANGED <<leader, said, shut, kids, stop, cancelled, late, row>>

(* finish_sandbox_run; when the store fails the row stays as it is.        *)
Finish ==
    /\ At("finish") /\ Goto("over")
    /\ row' \in {row, exec.status}
    /\ UNCHANGED <<leader, said, shut, kids, handle, stop, cancelled, late>>

-----------------------------------------------------------------------------
(* kill: takes the handle, terminates, and polls the process table.        *)
StopTakes ==
    /\ stop.at = "idle" /\ handle
    /\ handle' = FALSE
    /\ stop' = [at |-> "kill", during |-> exec.at]
    /\ UNCHANGED <<exec, leader, said, shut, kids, cancelled, late, row>>

StopKills ==
    /\ stop.at = "kill"
    /\ leader' = Terminated(leader)
    /\ stop' = [stop EXCEPT !.at = "poll"]
    /\ UNCHANGED <<exec, said, shut, kids, handle, cancelled, late, row>>

StopReports ==
    /\ stop.at = "poll"
    /\ stop' = [stop EXCEPT !.at = "told"]
    /\ UNCHANGED <<exec, leader, said, shut, kids, handle, cancelled, late, row>>

CancelRun ==
    /\ ~cancelled /\ cancelled' = TRUE
    /\ UNCHANGED <<exec, leader, said, shut, kids, handle, stop, late, row>>

DeadlinePasses ==
    /\ exec.at \in {"drain", "receive", "flush"} /\ ~late
    /\ late' = TRUE
    /\ UNCHANGED <<exec, leader, said, shut, kids, handle, stop, cancelled, row>>

(* kill_all at the exit of the application, which then is gone with its    *)
(* job objects, or a crash, which marks nothing; the store is opened again *)
(* and the rows still running are reaped.                                  *)
Restart ==
    /\ exec.at \notin {"idle", "down"}
    /\ Goto("down")
    /\ leader' = IF Gone \/ leader = "none" THEN leader ELSE "killed"
    /\ \E orderly \in BOOLEAN :
          row' = IF row # "running" THEN row
                 ELSE IF orderly /\ handle THEN "killed" ELSE "interrupted"
    /\ kids' = FALSE /\ handle' = FALSE
    /\ stop' = [stop EXCEPT !.at = "told"]
    /\ UNCHANGED <<said, shut, cancelled, late>>

-----------------------------------------------------------------------------
(* The program writes, closes its output, leaves a child behind, and ends. *)
Write ==
    /\ leader \in {"runs", "doomed"} /\ ~shut /\ said < MaxSaid
    /\ said' = said + 1
    /\ UNCHANGED <<exec, leader, shut, kids, handle, stop, cancelled, late, row>>

CloseOutput ==
    /\ leader = "runs" /\ ~shut /\ shut' = TRUE
    /\ UNCHANGED <<exec, leader, said, kids, handle, stop, cancelled, late, row>>

Fork ==
    /\ leader = "runs" /\ ~kids /\ kids' = TRUE
    /\ UNCHANGED <<exec, leader, said, shut, handle, stop, cancelled, late, row>>

KidEnds ==
    /\ kids /\ kids' = FALSE
    /\ UNCHANGED <<exec, leader, said, shut, handle, stop, cancelled, late, row>>

Exit ==
    /\ leader = "runs" /\ leader' = "exited"
    /\ UNCHANGED <<exec, said, shut, kids, handle, stop, cancelled, late, row>>

KillLands ==
    /\ leader = "doomed" /\ leader' = "killed"
    /\ UNCHANGED <<exec, said, shut, kids, handle, stop, cancelled, late, row>>

(* Who holds the job object; dropping the last handle ends the tree.       *)
Working == exec.at \notin {"idle", "finish", "over", "down"}
Held == Working \/ handle \/ stop.at \in {"kill", "poll"}

JobCloses ==
    /\ ~Held /\ (kids \/ leader \in {"runs", "doomed"})
    /\ kids' = FALSE
    /\ leader' = IF Gone THEN leader ELSE "killed"
    /\ UNCHANGED <<exec, said, shut, handle, stop, cancelled, late, row>>

Exec ==
    \/ Refuse \/ Spawn \/ Register \/ InsertRow \/ InsertFails
    \/ Drain \/ Receive \/ Look \/ WaitForExit \/ Settle \/ Finish

Next ==
    \/ Exec \/ StopTakes \/ StopKills \/ StopReports
    \/ CancelRun \/ DeadlinePasses \/ Restart
    \/ Write \/ CloseOutput \/ Fork \/ KidEnds \/ Exit \/ KillLands \/ JobCloses

Spec == Init /\ [][Next]_vars /\ WF_vars(Exec) /\ WF_vars(DeadlinePasses)

-----------------------------------------------------------------------------
TypeOK ==
    /\ exec \in [at : {"idle", "spawned", "registered", "drain", "receive", "flush",
                       "look", "wait", "settle", "finish", "over", "down"},
                 status : {"", "killed", "timeout", "exited"},
                 got : 0..MaxSaid, kept : 0..MaxSaid,
                 truncated : BOOLEAN, wedged : BOOLEAN]
    /\ leader \in {"none", "runs", "doomed", "exited", "killed"}
    /\ said \in 0..MaxSaid
    /\ {shut, kids, handle, cancelled, late} \subseteq BOOLEAN
    /\ stop \in [at : {"idle", "kill", "poll", "told"},
                 during : {"idle", "registered", "drain", "receive", "flush", "look",
                           "wait", "settle", "over"}]
    /\ row \in {NoRow, "denied", "running", "killed", "timeout", "exited", "interrupted"}

(* Once the command's task has given its job object up, its processes have *)
(* been told to end, or a handle in the map, or a Stop under way, still    *)
(* can end them.                                                           *)
NobodyForgotten ==
    /\ ~Working /\ leader = "runs" => handle \/ stop.at = "kill"
    /\ row \in {"killed", "timeout", "exited"} => leader # "runs" \/ stop.at = "kill"

(* The row says what happened: a program somebody stopped is "exited" only *)
(* if the stop came in the wait after the last look at the handle, one     *)
(* that ended by itself is "killed" only if a stop was asked for, and the  *)
(* output of one that exited is complete, or says that it is not.          *)
RowTellsTheEnd ==
    /\ row = "exited" =>
          /\ Gone
          /\ leader = "killed" => stop.during \in {"wait", "settle"}
          /\ exec.got = said /\ (exec.kept = said \/ exec.truncated)
    /\ row = "killed" /\ leader = "exited" =>
          cancelled \/ exec.wedged \/ stop.at # "idle" \/ At("down")
=============================================================================
