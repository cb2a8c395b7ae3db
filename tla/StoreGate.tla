------------------------------ MODULE StoreGate ------------------------------
(***************************************************************************)
(* The lock on a store that something replicates off the machine.          *)
(*                                                                         *)
(* A start of a turn, and every change of a folder, measures the folders   *)
(* of the settings and of the projects: the registered sync roots are read *)
(* first, then folder after folder is looked at, while the operator        *)
(* changes settings and a sync client comes and goes.  Only a folder the   *)
(* application owns locks, and only one that was found replicated.         *)
(***************************************************************************)
EXTENDS Naturals, FiniteSets

CONSTANTS
    Stores,     \* folder settings of the application
    Projects,   \* folders of projects
    Names,      \* paths as they are written
    Places,     \* folders on disk
    PlaceOf,    \* what each path leads to
    Starts,     \* starts of turns
    Refreshes,  \* background checks
    MaxChanges  \* bound: changes of settings and of the disk

VARIABLES
    folder,     \* settings and projects: the path of each target
    override,   \* settings.allow_replicated_store
    facts,      \* of each place: can it be opened, is it under a sync root, is it marked
    check,      \* each start and refresh
    gateLog,    \* store_gate
    shown,      \* the targets of the report published last
    changes,
    late        \* history: an older report was published over a newer one
gateVars == <<folder, override, facts, check, gateLog, shown, changes, late>>

Targets == Stores \union Projects
Checks == Starts \union Refreshes
Idle == [at |-> "idle"]
At(c, step) == check[c].at = step
Running == {c \in Checks : ~At(c, "idle")}
Change == changes < MaxChanges /\ changes' = changes + 1

States == [at : {"open", "closed", "absent"}, rooted : BOOLEAN, marked : BOOLEAN]
Fact(name) == facts[PlaceOf[name]]

(* What shows that a path is replicated, were it looked at now.            *)
Shows(name) == {kind \in {"rooted", "marked"} : Fact(name)[kind]}
Evidence(name) == IF Fact(name).at = "open" THEN Shows(name) ELSE {}

Init ==
    /\ facts \in [Places -> {f \in States : f.at = "open" /\ ~f.marked}]
    /\ folder = [t \in Targets |-> CHOOSE name \in Names : TRUE]
    /\ override \in BOOLEAN
    /\ check = [c \in Checks |-> Idle]
    /\ gateLog = {} /\ shown = folder /\ changes = 0 /\ late = FALSE

-----------------------------------------------------------------------------
(* exposure_report reads the settings and the projects.  steady and ever   *)
(* are history: the evidence there was all the time, and at any time.      *)
Begin(c, targets) ==
    [at |-> "merge", folder |-> targets, old |-> FALSE,
     steady |-> [n \in Names |-> Evidence(n)], ever |-> [n \in Names |-> Shows(n)]]

StartTurn(c) ==
    /\ c \in Starts /\ At(c, "idle")
    /\ check' = [check EXCEPT ![c] = Begin(c, folder)]
    /\ UNCHANGED <<folder, override, facts, gateLog, shown, changes, late>>

(* Targets that resolve to one place are one row, and owned if any is.     *)
Key(name) == IF Fact(name).at = "open" THEN <<"place", PlaceOf[name]>> ELSE <<"text", name>>
Keys(c) ==
    {[key |-> Key(n), owned |-> \E t \in Stores : Key(check[c].folder[t]) = Key(n)] :
        n \in {check[c].folder[t] : t \in Targets}}

Merge(c) ==
    /\ At(c, "merge")
    /\ check' = [check EXCEPT ![c] =
           [at |-> "gather", folder |-> @.folder, old |-> @.old, steady |-> @.steady,
            ever |-> @.ever, left |-> Keys(c)]]
    /\ UNCHANGED <<folder, override, facts, gateLog, shown, changes, late>>

(* The roots, once for the whole report.                                   *)
Gather(c) ==
    /\ At(c, "gather")
    /\ check' = [check EXCEPT ![c] =
           [at |-> "measure", folder |-> @.folder, old |-> @.old, steady |-> @.steady,
            ever |-> @.ever, left |-> @.left, found |-> FALSE,
            roots |-> {p \in Places : facts[p].rooted}]]
    /\ UNCHANGED <<folder, override, facts, gateLog, shown, changes, late>>

(* exposure_with: a path that does not open is not found replicated,       *)
(* whatever contains it.                                                   *)
PlaceOfKey(key) == IF key[1] = "place" THEN key[2] ELSE PlaceOf[key[2]]
Replicated(c, place) ==
    facts[place].at = "open" /\ (place \in check[c].roots \/ facts[place].marked)

Measure(c) ==
    /\ At(c, "measure")
    /\ \E row \in check[c].left :
         check' = [check EXCEPT ![c].left = @ \ {row},
                                ![c].found = @ \/ (row.owned /\ Replicated(c, PlaceOfKey(row.key)))]
    /\ UNCHANGED <<folder, override, facts, gateLog, shown, changes, late>>

(* The report is published; a refresh is over with it.                     *)
Publish(c) ==
    /\ At(c, "measure") /\ check[c].left = {}
    /\ shown' = check[c].folder
    /\ late' = (late \/ check[c].old)
    /\ check' = [d \in Checks |->
           IF d = c THEN IF c \in Starts THEN [check[c] EXCEPT !.at = "judge"] ELSE Idle
           ELSE IF d \in Running /\ check[c].folder = folder /\ check[d].folder # folder
                THEN [check[d] EXCEPT !.old = TRUE] ELSE check[d]]
    /\ UNCHANGED <<folder, override, facts, gateLog, changes>>

(* agent_gate.  A row that cannot be written is only dropped.              *)
Verdict(c) ==
    IF ~check[c].found THEN "allowed" ELSE IF override THEN "overridden" ELSE "refused"

Judge(c) ==
    /\ At(c, "judge")
    /\ \E row \in {"written", "lost"} :
         /\ check' = [check EXCEPT ![c] =
                [at |-> Verdict(c), folder |-> @.folder, old |-> FALSE, steady |-> @.steady,
                 ever |-> @.ever, row |-> row]]
         /\ gateLog' = IF Verdict(c) # "allowed" /\ row = "written"
                       THEN gateLog \union {<<c, Verdict(c)>>} ELSE gateLog
    /\ UNCHANGED <<folder, override, facts, shown, changes, late>>

-----------------------------------------------------------------------------
(* settings_set and the commands that change a project: a check is started *)
(* in the background.                                                      *)
SetFolder(t, name) ==
    /\ folder[t] # name /\ Change
    /\ folder' = [folder EXCEPT ![t] = name]
    /\ \E c \in Refreshes : /\ At(c, "idle")
                            /\ check' = [check EXCEPT ![c] = Begin(c, folder')]
    /\ UNCHANGED <<override, facts, gateLog, shown, late>>

SetOverride ==
    /\ Change /\ override' = ~override
    /\ UNCHANGED <<folder, facts, check, gateLog, shown, late>>

(* A sync client, a drive or another program changes what a place is.      *)
Disk(place) ==
    /\ Change
    /\ \/ \E kind \in {"rooted", "marked"} :
              /\ kind = "marked" => facts[place].at # "absent"
              /\ facts' = [facts EXCEPT ![place][kind] = ~@]
       \/ facts[place].at # "open" /\ facts' = [facts EXCEPT ![place].at = "open"]
       \/ facts[place].at = "open" /\ facts' = [facts EXCEPT ![place].at = "closed"]
       \/ /\ facts[place].at # "absent"
          /\ facts' = [facts EXCEPT ![place].at = "absent", ![place].marked = FALSE]
    /\ check' = [c \in Checks |-> IF c \notin Running THEN check[c] ELSE
           [check[c] EXCEPT !.steady = [n \in Names |-> @[n] \intersect Evidence(n)'],
                            !.ever = [n \in Names |-> @[n] \union Shows(n)']]]
    /\ UNCHANGED <<folder, override, gateLog, shown, late>>

Step(c) == StartTurn(c) \/ Merge(c) \/ Gather(c) \/ Measure(c) \/ Publish(c) \/ Judge(c)

Next ==
    \/ \E c \in Checks : Step(c)
    \/ \E t \in Targets, name \in Names : SetFolder(t, name)
    \/ SetOverride
    \/ \E place \in Places : Disk(place)

Spec == Init /\ [][Next]_gateVars

-----------------------------------------------------------------------------
Judged(c) == check[c].at \in {"allowed", "overridden", "refused"}
Seen(c, when) ==
    {n \in {check[c].folder[t] : t \in Stores} : check[c][when][n] # {}}

(* A turn that was let through had no owned folder that one kind of        *)
(* evidence showed replicated while it was measured, or the operator's     *)
(* override; it is refused only for an owned folder that was shown so; and *)
(* every refusal and override is on record, unless the row was lost.       *)
LockHolds ==
    \A c \in Starts : Judged(c) =>
        /\ check[c].at = "allowed" => Seen(c, "steady") = {}
        /\ check[c].at # "allowed" =>
             /\ Seen(c, "ever") # {}
             /\ check[c].row = "written" => <<c, check[c].at>> \in gateLog

(* The panel comes to show the folders as they are set, unless an older    *)
(* report overtook a newer one.                                            *)
PanelShowsTheFolders == Running \subseteq {c \in Starts : Judged(c)} => shown = folder \/ late
=============================================================================
