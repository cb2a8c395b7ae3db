---------------------------- MODULE FileChanges ----------------------------
(***************************************************************************)
(* What runs change in the open folder, and what discarding brings back.   *)
(*                                                                         *)
(* write_file and edit_file read the file, build a diff, wait at the gate  *)
(* and write what the operator was shown; each write is queued in          *)
(* pending_changes under its run.  The list reaches the review panel with  *)
(* agent://done (take_changes), so a change is discarded only when its run *)
(* has ended.  Other runs, and editors, write the same files meanwhile.    *)
(*                                                                         *)
(* Every queued change is already on disk (applied: true at 5992 and 6067),*)
(* so apply_change and apply_all_changes return before they do anything.   *)
(* A definition whose name extends the name of the next one is a seeded    *)
(* slip: what that definition would be if the code had the named mistake.  *)
(***************************************************************************)
EXTENDS Naturals

CONSTANTS
    Runs,      \* runs whose tools write into one folder
    Files,     \* paths relative to the folder
    Texts      \* contents of files: "empty" is one, "none" is not

VARIABLES
    disk,      \* contents of each file, "none" when it is not there
    tool,      \* each run's tool call between its read and its write
    changes,   \* pending_changes: at most one entry per run and file
    ended,     \* runs whose changes the panel shows
    found,     \* what each run's first change to a path found there (history)
    wrote      \* what each run last wrote under a path (history)
vars == <<disk, tool, changes, ended, found, wrote>>

NoFile == "none"
Idle == [file |-> "none"]
NoEntry == [status |-> "none"]

(* What a diff starts from: a file that is not there reads as empty.       *)
ContentsAsFound(text) == text
Contents(text) == IF text = NoFile THEN "empty" ELSE text

Init ==
    /\ disk \in [Files -> {NoFile, CHOOSE t \in Texts : t # "empty"}]
    /\ tool = [r \in Runs |-> Idle]
    /\ changes = [r \in Runs |-> [f \in Files |-> NoEntry]]
    /\ ended = {}
    /\ found = [r \in Runs |-> [f \in Files |-> "unseen"]]
    /\ wrote = found

(* The call has read the file and stands at the gate with its diff.        *)
AtGate(r, f, status, text) ==
    /\ r \notin ended /\ tool[r] = Idle
    /\ tool' = [tool EXCEPT ![r] = [file |-> f, status |-> status, was |-> disk[f],
                                    old |-> Contents(disk[f]), new |-> text]]
    /\ UNCHANGED <<disk, changes, ended, found, wrote>>

(* write_file: a file that holds exactly the text already is left alone.   *)
WriteFile(r, f, text) ==
    /\ disk[f] # text
    /\ AtGate(r, f, IF disk[f] = NoFile THEN "created" ELSE "modified", text)

(* edit_file: the file must be there, and the snippet in it once.          *)
EditFile(r, f, text) ==
    /\ disk[f] \notin {NoFile, "empty"}
    /\ AtGate(r, f, "modified", text)

(* A second change to a path keeps what the first one started from.        *)
MergedLatest(entry, change) == change
Merged(entry, change) ==
    IF entry = NoEntry THEN change ELSE [change EXCEPT !.old = entry.old]

(* The operator allows it: write_now and queue_change, one after the other *)
(* in the task.  The entries of a run that has not ended are its own.      *)
Allow(r) ==
    /\ tool[r] # Idle
    /\ LET f == tool[r].file
           change == [status |-> tool[r].status, old |-> tool[r].old,
                      new |-> tool[r].new]
       IN  /\ disk' = [disk EXCEPT ![f] = change.new]
           /\ changes' = [changes EXCEPT ![r][f] = Merged(@, change)]
           /\ wrote' = [wrote EXCEPT ![r][f] = change.new]
           /\ found' = [found EXCEPT ![r][f] = IF @ = "unseen" THEN tool[r].was ELSE @]
    /\ tool' = [tool EXCEPT ![r] = Idle]
    /\ UNCHANGED ended

(* Declined, stopped, or the write fails before anything is on disk.       *)
Refuse(r) ==
    /\ tool[r] # Idle
    /\ tool' = [tool EXCEPT ![r] = Idle]
    /\ UNCHANGED <<disk, changes, ended, found, wrote>>

EndRun(r) ==
    /\ r \notin ended /\ tool[r] = Idle
    /\ ended' = ended \union {r}
    /\ UNCHANGED <<disk, tool, changes, found, wrote>>

(* An editor, a command or the operator in the folder.                     *)
Edit(f, text) ==
    /\ disk' = [disk EXCEPT ![f] = text]
    /\ UNCHANGED <<tool, changes, ended, found, wrote>>

(* restore_plan: what putting the file back requires.                      *)
RestorePlan(entry, now) ==
    IF now = NoFile
    THEN IF entry.status = "created" THEN "already there" ELSE "refuse"
    ELSE IF now # entry.new THEN "refuse"
    ELSE IF entry.status = "created" THEN "remove" ELSE "write"

(* discard_change: the entry, the file and the entry again, without a wait *)
(* between; a revert that is refused keeps the entry.                      *)
Discardable(r, f) ==
    /\ r \in ended /\ changes[r][f] # NoEntry
    /\ RestorePlan(changes[r][f], disk[f]) # "refuse"

Restored(r, f) ==
    LET entry == changes[r][f]
        plan == RestorePlan(entry, disk[f])
    IN  CASE plan = "remove" -> NoFile
          [] plan = "write" -> entry.old
          [] OTHER -> disk[f]

Forgotten(r, gone) ==     \* with them the history of what they stood for
    /\ changes' = [changes EXCEPT ![r] = [f \in Files |-> IF f \in gone THEN NoEntry ELSE @[f]]]
    /\ found' = [found EXCEPT ![r] = [f \in Files |-> IF f \in gone THEN "unseen" ELSE @[f]]]
    /\ wrote' = [wrote EXCEPT ![r] = [f \in Files |-> IF f \in gone THEN "unseen" ELSE @[f]]]

Discard(r, f) ==
    /\ Discardable(r, f)
    /\ disk' = [disk EXCEPT ![f] = Restored(r, f)]
    /\ Forgotten(r, {f})
    /\ UNCHANGED <<tool, ended>>

(* discard_all_changes: each file by itself; a refusal leaves the others.  *)
DiscardAll(r) ==
    LET gone == {f \in Files : Discardable(r, f)}
    IN  /\ gone # {}
        /\ disk' = [f \in Files |-> IF f \in gone THEN Restored(r, f) ELSE disk[f]]
        /\ Forgotten(r, gone)
        /\ UNCHANGED <<tool, ended>>

Next ==
    \/ \E r \in Runs, f \in Files, t \in Texts : WriteFile(r, f, t) \/ EditFile(r, f, t)
    \/ \E r \in Runs : Allow(r) \/ Refuse(r) \/ EndRun(r) \/ DiscardAll(r)
    \/ \E f \in Files, t \in Texts \union {NoFile} : Edit(f, t)
    \/ \E r \in Runs, f \in Files : Discard(r, f)

Spec == Init /\ [][Next]_vars

-----------------------------------------------------------------------------
Entry == [status : {"created", "modified"}, old : Texts, new : Texts]

TypeOK ==
    /\ disk \in [Files -> Texts \union {NoFile}]
    /\ \A r \in Runs :
         \/ tool[r] = Idle
         \/ tool[r] \in [file : Files, status : {"created", "modified"},
                         was : Texts \union {NoFile}, old : Texts, new : Texts]
    /\ changes \in [Runs -> [Files -> Entry \union {NoEntry}]]
    /\ ended \subseteq Runs

(* Discarding acts only on what the run itself wrote last, so a text that  *)
(* somebody else left there stays; and it leaves the path as the run found *)
(* it before its first change, without a file if there was none, however   *)
(* often it wrote since.  The promise is broken, and excepted, where the   *)
(* last change found a file and the first none, or the other way round:    *)
(* the entry's text is then that of the first and its status of the last.  *)
Turned(r, f) == (found[r][f] = NoFile) # (changes[r][f].status = "created")

DiscardBringsBack ==
    [][\A r \in Runs, f \in Files :
           changes[r][f] # NoEntry /\ changes'[r][f] = NoEntry =>
               /\ disk'[f] # disk[f] => disk[f] = wrote[r][f]
               /\ disk'[f] = found[r][f] \/ Turned(r, f)]_vars
=============================================================================
