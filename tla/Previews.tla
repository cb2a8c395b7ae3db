------------------------------ MODULE Previews ------------------------------
(***************************************************************************)
(* Folders served to the operator's browser: the listener, the binding by  *)
(* folder, the row a restart reads, and the entry the workbench shows.     *)
(*                                                                         *)
(* serve_folder and the restorer at start-up go the same way, step by      *)
(* step, each step under a lock of its own.  A link stays in the chat that *)
(* named it, so the folder is to come back under its port until somebody   *)
(* stops it.                                                               *)
(***************************************************************************)
EXTENDS Naturals, Sequences, FiniteSets

CONSTANTS
    Folders,    \* folders that can be served
    Spaces,     \* workspaces
    Servers,    \* tasks that serve: the runs' calls, and Boot
    Boot,       \* the restorer
    MaxBinds,   \* bound: listeners bound
    MaxTroubles \* bound: failures and ends of the core

VARIABLES
    listener,   \* every listener bound so far: its folder and port
    up,         \* those that answer
    bound,      \* previews.servers: the listener remembered for a folder, or 0
    rows,       \* the previews table: workspace and port, or NoRow
    shown,      \* dev_servers.entries: folder and listener by workspace, or NoEntry
    present,    \* folders on disk
    task,       \* what each server is doing
    restoring,  \* rows the restorer has read and not come to, by folder
    core,       \* is it running?
    promised,   \* history: the port a folder was served under until it is stopped, or 0,
                \* or Unkept where its row could not be written
    exited,     \* history: folders served when the core was closed
    tangled,    \* history: folders whose serving crossed another serving or stop
    troubles
previewVars == <<listener, up, bound, rows, shown, present, task, restoring, core,
                 promised, exited, tangled, troubles>>

NoRow == [port |-> 0]
NoEntry == [of |-> 0]
Idle == [at |-> "idle"]
Ids == 1 .. MaxBinds
Ports == 1 .. MaxBinds
Unkept == MaxBinds + 1
Working(c) == task[c] # Idle
On(f) == {c \in Servers : Working(c) /\ task[c].root = f}
In(w) == {c \in Servers : Working(c) /\ task[c].space = w}
Trouble == troubles < MaxTroubles /\ troubles' = troubles + 1
Goto(c, step) == task' = [task EXCEPT ![c].at = step]

Init ==
    /\ listener = <<>> /\ up = {} /\ present = Folders
    /\ bound = [f \in Folders |-> 0] /\ rows = [f \in Folders |-> NoRow]
    /\ shown = [w \in Spaces |-> NoEntry]
    /\ task = [c \in Servers |-> Idle] /\ restoring = rows /\ core = TRUE
    /\ promised = bound /\ exited = {} /\ tangled = {} /\ troubles = 0

-----------------------------------------------------------------------------
(* Servings of one folder, or for one workspace, cross.                    *)
Pending(f) == restoring[f] # NoRow
Crossing(w, f) ==
    {task[d].root : d \in On(f) \union In(w)}
      \union {g \in Folders : Pending(g) /\ (g = f \/ restoring[g].space = w)}
Crossed(w, f) == IF Crossing(w, f) = {} THEN {} ELSE Crossing(w, f) \union {f}

(* serve_with_preferred: a folder that is bound is probed first.           *)
Begin(c, w, f, preferred) ==
    task' = [task EXCEPT ![c] =
        [at |-> IF bound[f] = 0 THEN "bind" ELSE "probe", space |-> w, root |-> f,
         preferred |-> preferred, mine |-> bound[f]]]

Serve(c, w, f) ==
    /\ core /\ c # Boot /\ ~Working(c) /\ f \in present
    /\ Begin(c, w, f, 0)
    /\ tangled' = tangled \union Crossed(w, f)
    /\ UNCHANGED <<listener, up, bound, rows, shown, present, restoring, core,
                   promised, exited, troubles>>

(* Whatever answers on the port will do.                                   *)
Answers(port) == \E l \in up : listener[l].port = port
Probe(c) ==
    /\ task[c].at = "probe"
    /\ IF Answers(listener[task[c].mine].port)
       THEN /\ task' = [task EXCEPT ![c].at = "displace", ![c].preferred = 0]
            /\ UNCHANGED <<up, bound>>
       ELSE Goto(c, "bind") /\ bound' = [bound EXCEPT ![task[c].root] = 0]
                            /\ up' = up \ {task[c].mine}
    /\ UNCHANGED <<listener, rows, shown, present, restoring, core,
                   promised, exited, tangled, troubles>>

(* The port of the row, the one the path hashes to, or any that is free.   *)
(* All folders hash to the first port here.                                *)
StablePort == 1
Free == {p \in Ports : ~Answers(p)}
Candidates(preferred) ==
    IF preferred \in Free THEN {preferred} ELSE IF StablePort \in Free THEN {StablePort} ELSE Free

Bind(c) ==
    /\ task[c].at = "bind" /\ Len(listener) < MaxBinds
    /\ \E port \in Candidates(task[c].preferred) :
         listener' = Append(listener, [root |-> task[c].root, port |-> port])
    /\ up' = up \union {Len(listener) + 1}
    /\ task' = [task EXCEPT ![c].at = "verify", ![c].mine = Len(listener) + 1,
                            ![c].preferred = IF @ \in Free THEN @ ELSE 0]
    /\ UNCHANGED <<bound, rows, shown, present, restoring, core,
                   promised, exited, tangled, troubles>>

Verified(c) ==
    /\ task[c].at = "verify" /\ Goto(c, "persist")
    /\ UNCHANGED <<listener, up, bound, rows, shown, present, restoring, core,
                   promised, exited, tangled, troubles>>
NeverAnswered(c) ==
    /\ task[c].at = "verify" /\ Trouble
    /\ up' = up \ {task[c].mine}
    /\ task' = [task EXCEPT ![c] = Idle]
    /\ promised' = [promised EXCEPT ![task[c].root] = 0]
    /\ UNCHANGED <<listener, bound, rows, shown, present, restoring, core, exited, tangled>>

(* The row first, so that a crash cannot leave an entry no restart knows.  *)
(* A row that cannot be written is only logged.                            *)
Persist(c) ==
    /\ task[c].at = "persist" /\ Goto(c, "place")
    /\ \/ /\ rows' = [rows EXCEPT ![task[c].root] =
                [port |-> listener[task[c].mine].port, space |-> task[c].space]]
          /\ UNCHANGED troubles
       \/ Trouble /\ UNCHANGED rows
    /\ UNCHANGED <<listener, up, bound, shown, present, restoring, core,
                   promised, exited, tangled>>

Place(c) ==
    /\ task[c].at = "place" /\ Goto(c, "displace")
    /\ bound' = [bound EXCEPT ![task[c].root] = task[c].mine]
    /\ UNCHANGED <<listener, up, rows, shown, present, restoring, core,
                   promised, exited, tangled, troubles>>

-----------------------------------------------------------------------------
(* devserver::stop and the kill closure: the entry goes, what is bound to  *)
(* its folder, the row, and the listener the entry was made for.           *)
Kill(w, others) ==
    LET f == shown[w].root IN
    /\ shown' = [shown EXCEPT ![w] = NoEntry]
    /\ bound' = [bound EXCEPT ![f] = 0]
    /\ rows' = [rows EXCEPT ![f] = NoRow]
    /\ up' = up \ {shown[w].of}
    /\ promised' = [promised EXCEPT ![f] = 0]
    /\ tangled' = tangled \union
           (IF others # {} \/ Pending(f) \/ \E v \in Spaces \ {w} : shown[v] # NoEntry /\ shown[v].root = f
            THEN {f} ELSE {})

(* register_inprocess: the workspace's entry is stopped, unless it is for  *)
(* the same folder.                                                        *)
Another(w, f) == shown[w] # NoEntry /\ shown[w].root # f
Displace(c) ==
    /\ task[c].at = "displace" /\ Goto(c, "enter")
    /\ IF Another(task[c].space, task[c].root)
       THEN Kill(task[c].space, On(shown[task[c].space].root) \ {c})
       ELSE UNCHANGED <<shown, bound, rows, up, promised, tangled>>
    /\ UNCHANGED <<listener, present, restoring, core, exited, troubles>>

Enter(c) ==
    LET t == task[c] IN
    /\ t.at = "enter"
    /\ shown' = [shown EXCEPT ![t.space] = [root |-> t.root, of |-> t.mine]]
    /\ promised' = [promised EXCEPT ![t.root] =
           IF t.preferred # 0 THEN t.preferred
           ELSE IF rows[t.root].port = listener[t.mine].port THEN rows[t.root].port ELSE Unkept]
    /\ task' = [task EXCEPT ![c] = Idle]
    /\ exited' = exited \ {t.root}
    /\ UNCHANGED <<listener, up, bound, rows, present, restoring, core, tangled, troubles>>

(* The operator's Stop, or a development server started in its place.      *)
Stop(w) ==
    /\ core /\ shown[w] # NoEntry
    /\ Kill(w, On(shown[w].root))
    /\ UNCHANGED <<listener, present, task, restoring, core, exited, troubles>>

-----------------------------------------------------------------------------
Vanish(f) ==
    /\ f \in present /\ present' = present \ {f}
    /\ UNCHANGED <<listener, up, bound, rows, shown, task, restoring, core,
                   promised, exited, tangled, troubles>>

Down ==
    /\ core /\ Trouble /\ core' = FALSE
    /\ up' = {} /\ bound' = [f \in Folders |-> 0]
    /\ shown' = [w \in Spaces |-> NoEntry]
    /\ task' = [c \in Servers |-> Idle] /\ restoring' = [f \in Folders |-> NoRow]
    /\ tangled' = {}
    /\ UNCHANGED <<listener, present>>

Crash == Down /\ UNCHANGED <<rows, promised, exited>>

(* stop_all: every entry is stopped as the operator would.                 *)
Served == {shown[w].root : w \in {v \in Spaces : shown[v] # NoEntry}}
Exit ==
    /\ Down
    /\ rows' = [f \in Folders |-> IF f \in Served THEN NoRow ELSE rows[f]]
    /\ exited' = exited \union Served
    /\ UNCHANGED promised

(* restore_all reads the rows once and comes to one after the other.       *)
Start ==
    /\ ~core /\ core' = TRUE
    /\ restoring' = rows
    /\ UNCHANGED <<listener, up, bound, rows, shown, present, task,
                   promised, exited, tangled, troubles>>

Remembered(f) == [rows EXCEPT ![f] = IF f \in present THEN @ ELSE NoRow]
Restore(f) ==
    /\ core /\ ~Working(Boot) /\ Pending(f)
    /\ restoring' = [restoring EXCEPT ![f] = NoRow] /\ rows' = Remembered(f)
    /\ IF f \in present
       THEN /\ Begin(Boot, restoring[f].space, f, restoring[f].port)
            /\ tangled' = tangled \union
                 {task[d].root : d \in On(f) \union In(restoring[f].space)}
       ELSE UNCHANGED <<task, tangled>>
    /\ UNCHANGED <<listener, up, bound, shown, present, core, promised, exited, troubles>>

Work(c) == core /\ Working(c) /\
    (Probe(c) \/ Bind(c) \/ Verified(c) \/ NeverAnswered(c) \/ Persist(c)
        \/ Place(c) \/ Displace(c) \/ Enter(c))

Next ==
    \/ \E c \in Servers : Work(c)
    \/ \E c \in Servers, w \in Spaces, f \in Folders : Serve(c, w, f)
    \/ \E w \in Spaces : Stop(w)
    \/ \E f \in Folders : Vanish(f) \/ Restore(f)
    \/ Crash \/ Exit \/ Start

Spec == Init /\ [][Next]_previewVars

-----------------------------------------------------------------------------
TypeOK ==
    /\ listener \in Seq([root : Folders, port : Ports]) /\ up \subseteq DOMAIN listener
    /\ bound \in [Folders -> 0 .. Len(listener)]
    /\ \A w \in Spaces : shown[w] # NoEntry => shown[w].of \in DOMAIN listener
    /\ \A l, k \in up : l # k => listener[l].port # listener[k].port

Settled == core /\ ~(\E f \in Folders : Pending(f)) /\ \A c \in Servers : ~Working(c)

(* What the workbench shows as running answers with its own folder, unless *)
(* the serving of the folder crossed another one, or a stop.               *)
ShownAnswers ==
    \A w \in Spaces : shown[w] # NoEntry /\ shown[w].root \notin tangled =>
        shown[w].of \in up /\ listener[shown[w].of].root = shown[w].root

(* And what answers is shown, so that it can be stopped.                   *)
AnsweringIsShown ==
    Settled => \A l \in up : listener[l].root \notin tangled =>
        \E w \in Spaces : shown[w] # NoEntry /\ shown[w].of = l

(* A folder that was served and not stopped comes back, under its port     *)
(* unless that is taken, if the core crashed; what was stopped does not    *)
(* come back.  The header of preview.rs (22-26) promises as much for every *)
(* restart, and the code breaks it when the core is closed: stop_all stops *)
(* each entry with its kill closure, which deletes the row, so that these  *)
(* folders are the ones that stay away, as the third conjunct says.        *)
Back(f) == bound[f] # 0 /\ listener[bound[f]].port = promised[f]
ComesBack ==
    Settled => \A f \in present \ tangled :
        /\ promised[f] \in Ports /\ f \notin exited => Back(f)
        /\ promised[f] = 0 => f \notin Served
        /\ f \in exited => rows[f] = NoRow /\ f \notin Served
=============================================================================
