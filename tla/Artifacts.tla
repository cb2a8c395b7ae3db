----------------------------- MODULE Artifacts -----------------------------
(***************************************************************************)
(* Generated files: the bytes beside their target, the swap, the row, and  *)
(* the check that reopens them.                                            *)
(*                                                                         *)
(* A chat writes into a folder of its own, one call at a time; a name it   *)
(* uses again replaces the file and its row.  The operator asks for checks *)
(* of any row, and edits, empties or removes files outside; the power may  *)
(* fail at any step.                                                       *)
(***************************************************************************)
EXTENDS Naturals, FiniteSets

CONSTANTS
    Outputs,        \* target paths of one chat
    MaxArtifacts,   \* bound: artifacts generated
    MaxMishaps      \* bound: edits outside, failures and crashes

VARIABLES
    onDisk,     \* at each target: None, Partial, Empty, or the number of what was written there
    beside,     \* the temporary file of each target
    damaged,    \* files that do not parse
    rows,       \* artifacts: by id, which is the number of the writing, or Absent
    writer,     \* record, in the task of the run
    checker,    \* verify, asked for by a run or by the operator
    made,       \* writings begun
    mishaps,    \* mishaps so far
    touched,    \* history: targets changed outside since they were written
    gap,        \* history: targets whose old file was removed for a new one that never came
    unlisted    \* history: targets that hold a new file without a row of its own
history == <<touched, gap, unlisted>>
artifactVars == <<onDisk, beside, damaged, rows, writer, checker, made, mishaps, history>>

Ids == 1 .. MaxArtifacts
None == 0
Partial == MaxArtifacts + 1
Empty == MaxArtifacts + 2
Absent == [path |-> "none"]
Idle == [at |-> "idle"]
Row(id) == rows[id] # Absent
At(step) == writer.at = step
Goto(step) == writer' = [writer EXCEPT !.at = step]
Mishap == mishaps < MaxMishaps /\ mishaps' = mishaps + 1

Init ==
    /\ onDisk = [p \in Outputs |-> None] /\ beside = onDisk
    /\ damaged = {} /\ rows = [id \in Ids |-> Absent]
    /\ writer = Idle /\ checker = Idle
    /\ made = 0 /\ mishaps = 0 /\ touched = {} /\ gap = {} /\ unlisted = {}

-----------------------------------------------------------------------------
(* resolve: the folder is made where it is missing; then write_atomic.     *)
Create(p) ==
    /\ At("idle") /\ made < MaxArtifacts /\ made' = made + 1
    /\ beside' = [beside EXCEPT ![p] = Partial]
    /\ writer' = [at |-> "fill", path |-> p, id |-> made + 1]
    /\ UNCHANGED <<onDisk, damaged, rows, checker, mishaps, history>>

(* What the writer of the format made may not parse.                       *)
Filled ==
    /\ At("fill")
    /\ beside' = [beside EXCEPT ![writer.path] = writer.id]
    /\ damaged' \in {damaged, damaged \union {writer.id}}
    /\ Goto("clear")
    /\ UNCHANGED <<onDisk, rows, checker, made, mishaps, history>>

(* What is there is removed, then the new file takes its name.             *)
Cleared ==
    /\ At("clear")
    /\ onDisk' = [onDisk EXCEPT ![writer.path] = None]
    /\ gap' = IF onDisk[writer.path] = None THEN gap ELSE gap \union {writer.path}
    /\ Goto("rename")
    /\ UNCHANGED <<beside, damaged, rows, checker, made, mishaps, touched, unlisted>>

Renamed ==
    /\ At("rename")
    /\ onDisk' = [onDisk EXCEPT ![writer.path] = beside[writer.path]]
    /\ beside' = [beside EXCEPT ![writer.path] = None]
    /\ touched' = touched \ {writer.path} /\ gap' = gap \ {writer.path}
    /\ unlisted' = unlisted \union {writer.path}
    /\ Goto("record")
    /\ UNCHANGED <<damaged, rows, checker, made, mishaps>>

(* The error path of write_atomic removes the temporary file and says that *)
(* the existing file is unchanged, after "clear" too, when it is gone;     *)
(* once the file has its name, a query that fails leaves it without a row  *)
(* of its own.                                                             *)
Fails ==
    /\ writer.at \in {"fill", "clear", "rename", "record"} /\ Mishap
    /\ beside' = [beside EXCEPT ![writer.path] = None]
    /\ writer' = Idle
    /\ UNCHANGED <<onDisk, damaged, rows, checker, made, history>>

(* insert_artifact: the row of an earlier file of that path goes.          *)
Inserted(id, p) == [i \in Ids |->
    IF i = id THEN [path |-> p, verified |-> FALSE]
    ELSE IF Row(i) /\ rows[i].path = p THEN Absent ELSE rows[i]]

Record ==
    /\ At("record")
    /\ rows' = Inserted(writer.id, writer.path)
    /\ unlisted' = unlisted \ {writer.path}
    /\ \/ Goto("check")
       \/ writer' = Idle       \* settings.verify_artifacts is off
    /\ UNCHANGED <<onDisk, beside, damaged, checker, made, mishaps, touched, gap>>

-----------------------------------------------------------------------------
(* verify: the file is read and parsed, then the row is set.               *)
Parses(p) == onDisk[p] \in Ids \ damaged

Reopened(id) ==
    LET p == rows[id].path IN
    IF onDisk[p] = None THEN "gone"
    ELSE IF onDisk[p] = Empty THEN "empty" ELSE IF Parses(p) THEN "parses" ELSE "damaged"

(* What a check writes: a row whose file is gone goes as well; one that    *)
(* does not parse is left as it is, unless the check is the one of record. *)
Judged(row, outcome, own) ==
    CASE outcome = "gone" -> Absent
      [] outcome = "parses" -> [row EXCEPT !.verified = TRUE]
      [] outcome = "empty" \/ own -> [row EXCEPT !.verified = FALSE]
      [] OTHER -> row

(* A row that went meanwhile leaves the result with nowhere to go.         *)
Settle(id, outcome, own) ==
    rows' = IF Row(id) THEN [rows EXCEPT ![id] = Judged(@, outcome, own)] ELSE rows

CheckOwn ==
    /\ At("check")
    /\ writer' = IF Row(writer.id)
                 THEN [at |-> "settle", id |-> writer.id, path |-> writer.path,
                       outcome |-> Reopened(writer.id)]
                 ELSE Idle
    /\ UNCHANGED <<onDisk, beside, damaged, rows, checker, made, mishaps, history>>
SettleOwn ==
    /\ At("settle")
    /\ Settle(writer.id, writer.outcome, TRUE)
    /\ writer' = Idle
    /\ UNCHANGED <<onDisk, beside, damaged, checker, made, mishaps, history>>

Check(id) ==
    /\ checker = Idle /\ Row(id)
    /\ checker' = [at |-> "settle", id |-> id, outcome |-> Reopened(id)]
    /\ UNCHANGED <<onDisk, beside, damaged, rows, writer, made, mishaps, history>>
SettleCheck ==
    /\ checker # Idle
    /\ Settle(checker.id, checker.outcome, FALSE)
    /\ checker' = Idle
    /\ UNCHANGED <<onDisk, beside, damaged, writer, made, mishaps, history>>

-----------------------------------------------------------------------------
Outside(p) ==
    /\ onDisk[p] # None /\ Mishap
    /\ \/ onDisk' = [onDisk EXCEPT ![p] = None] /\ UNCHANGED damaged
       \/ onDisk' = [onDisk EXCEPT ![p] = Empty] /\ UNCHANGED damaged
       \/ damaged' = damaged \union {onDisk[p]} /\ UNCHANGED onDisk
    /\ touched' = touched \union {p}
    /\ UNCHANGED <<beside, rows, writer, checker, made, gap, unlisted>>

Crash ==
    /\ writer # Idle \/ checker # Idle
    /\ Mishap
    /\ writer' = Idle /\ checker' = Idle
    /\ UNCHANGED <<onDisk, beside, damaged, rows, made, history>>

Next ==
    \/ \E p \in Outputs : Create(p) \/ Outside(p)
    \/ Filled \/ Cleared \/ Renamed \/ Fails \/ Record \/ CheckOwn \/ SettleOwn
    \/ \E id \in Ids : Check(id)
    \/ SettleCheck \/ Crash

Spec == Init /\ [][Next]_artifactVars

-----------------------------------------------------------------------------
TypeOK ==
    /\ onDisk \in [Outputs -> {None, Partial, Empty} \union Ids]
    /\ \A id \in Ids : Row(id) =>
         rows[id] \in [path : Outputs, verified : BOOLEAN]
    /\ made \in 0 .. MaxArtifacts
    /\ touched \subseteq Outputs /\ gap \subseteq Outputs /\ unlisted \subseteq Outputs

(* A target holds no half-written file, whatever fails and when.           *)
WritesWhole == \A p \in Outputs : onDisk[p] # Partial

(* The panel against the disk, for every target nobody changed outside.    *)
(* Each row has its path for itself, and the file there is the one the row *)
(* was written for, which parses if the row says so.  Two states of the    *)
(* code are otherwise, and only these.  Between the rename and the row,    *)
(* and for good when one of them is cut off there, a newer file stands     *)
(* under the older row.  And a write that stops between the removal and    *)
(* the rename leaves nothing at all: write_atomic promises the complete    *)
(* new file or an untouched path (artifacts.rs:276-278) and reports that   *)
(* the existing file is unchanged (307), which is not so; the property     *)
(* holds the loss to that one window, and to targets that had a file.      *)
RowsMatchFiles ==
    \A id \in Ids : Row(id) =>
        LET p == rows[id].path IN
        /\ \A other \in Ids : Row(other) /\ rows[other].path = p => other = id
        /\ \/ p \in touched
           \/ onDisk[p] = id /\ (rows[id].verified => Parses(p))
           \/ onDisk[p] \in (id + 1) .. MaxArtifacts /\ p \in unlisted
           \/ onDisk[p] = None /\ p \in gap

(* A file that was recorded stays on the panel, though checks that found   *)
(* its path empty are settled after it was written.                        *)
FilesAreListed ==
    \A p \in Outputs : onDisk[p] \in Ids => Row(onDisk[p]) \/ p \in touched \union unlisted

ListedFilesAreWhole == WritesWhole /\ RowsMatchFiles /\ FilesAreListed
=============================================================================
