----------------------------- MODULE ToolCalls -----------------------------
(***************************************************************************)
(* One tool call of a run, from dispatch to its effect.                    *)
(*                                                                         *)
(* dispatch_write refuses a role or a mode that may not write, asks the    *)
(* operator's safety rules, resolves the target, and stands at the gate    *)
(* for as long as the operator takes; what is then done is done to what    *)
(* was resolved before.  Meanwhile the operator edits rules and settings,  *)
(* saves files in the panel, and the folder changes.                       *)
(***************************************************************************)
EXTENDS FolderPaths

CONSTANTS
    Patterns,   \* folders a rule can protect
    Outputs     \* folders the artifacts can be written to

VARIABLES
    seat,       \* the run: its mode and the role of its agent
    rules,      \* settings: path rules in force, and "cmd" while one forbids the command
    outputs,    \* settings.artifact_root
    call,       \* the call in progress
    landed      \* what the last call acted on, until the next
toolVars == <<tree, seat, rules, outputs, call, landed>>

FileTools == {"write_file", "edit_file", "create_directory"}
Commands == {"run_command", "execute_python", "start_dev_server"}
WriteTools == FileTools \union Commands \union {"serve_folder", "generate"}
None == <<>>
Idle == [at |-> "idle"]

Init ==
    /\ tree = [p \in Spots |-> "none"]
    /\ seat \in [mode : {"Plan", "Agent"}, reads : BOOLEAN]
    /\ rules = {} /\ outputs \in Outputs
    /\ call = Idle /\ landed = None

-----------------------------------------------------------------------------
(* guards: check_path, check_command                                       *)
CheckPath(p) == \E pattern \in rules \intersect Patterns : Within(pattern, p)
CheckCommand == <<"cmd">> \in rules

(* guard_refusal: the target as the tool itself resolves it; a generator   *)
(* is judged by the folder it writes to.  A dev server that is started     *)
(* without a command runs the project's own, which no rule is asked about. *)
GuardRefusalLexical(tool, rel) ==
    \/ tool \in FileTools \union {"serve_folder"} /\ CheckPath(Root \o rel)
    \/ tool \in Commands /\ rel # <<>> /\ CheckCommand
    \/ tool = "generate" /\ CheckPath(outputs)

GuardRefusal(tool, rel) ==
    \/ tool \in FileTools \union {"serve_folder"} /\ CheckPath(Resolve(rel))
    \/ tool \in Commands /\ rel # <<>> /\ CheckCommand
    \/ tool = "generate" /\ CheckPath(outputs)

(* What each arm requires before it asks.  Nothing is done for a file that *)
(* already reads so, or a folder that is there.                            *)
Ready(tool, rel) ==
    LET p == Resolve(rel) IN
    CASE tool = "write_file" -> p # Refused
      [] tool = "edit_file" -> p # Refused /\ IsFile(p)
      [] tool = "create_directory" -> p # Refused /\ ~IsFolder(p)
      [] tool = "serve_folder" -> p # Refused
      [] OTHER -> TRUE

(* Whether the tool may be called at all; a write of a run that has read   *)
(* nothing may be held, which the model answers by calling again.          *)
MayWrite(tool) == tool \in WriteTools => seat.mode = "Agent" /\ ~seat.reads

(* gate: passes at once under a policy or a grant that allows the tool.    *)
Dispatch(tool, rel) ==
    /\ call = Idle /\ MayWrite(tool)
    /\ ~GuardRefusal(tool, rel) /\ Ready(tool, rel)
    /\ \E at \in {"gate", "allowed"} :
         call' = [at |-> at, tool |-> tool, rel |-> rel, stirred |-> FALSE,
                  full |-> IF tool \in FileTools \union {"serve_folder"} THEN Resolve(rel) ELSE None]
    /\ landed' = None
    /\ UNCHANGED <<tree, seat, rules, outputs>>

Allow ==
    /\ call.at = "gate"
    /\ call' = [call EXCEPT !.at = "allowed"]
    /\ UNCHANGED <<tree, seat, rules, outputs, landed>>

Finish(place) ==
    /\ call' = Idle /\ landed' = place
    /\ UNCHANGED <<seat, rules, outputs>>

(* Declined, stopped, or it fails before anything is done.                 *)
Refuse == call # Idle /\ Finish(None) /\ UNCHANGED tree

(* create_dir_all and write: the folders above it, then the file.          *)
Above(p) == {SubSeq(p, 1, n) : n \in 1 .. Len(p) - 1}
CanPut(p) == p \in Spots /\ (\A q \in Above(p) : Kind(q) \in {"none", "folder"})
PutAlone(p, kind) == tree' = [tree EXCEPT ![p] = kind]
Put(p, kind) ==
    tree' = [q \in Spots |-> IF q = p THEN kind
                             ELSE IF q \in Above(p) THEN "folder" ELSE tree[q]]

WriteNow ==
    /\ call.at = "allowed" /\ call.tool \in {"write_file", "edit_file"}
    /\ LET p == Settled(call.full)
       IN  CanPut(p) /\ Kind(p) # "folder" /\ Put(p, "file") /\ Finish(p)

CreateDirectory ==
    /\ call.at = "allowed" /\ call.tool = "create_directory"
    /\ LET p == Settled(call.full)
       IN  CanPut(p) /\ Kind(p) # "file" /\ Put(p, "folder") /\ Finish(p)

(* generate_doc, generate_sheet, generate_text: the folder as it is set    *)
(* by then.                                                                *)
Generate ==
    /\ call.at = "allowed" /\ call.tool = "generate"
    /\ LET p == Append(outputs, "a")
       IN  CanPut(p) /\ Kind(p) # "folder" /\ Put(p, "file") /\ Finish(p)

(* A command, a dev server, a preview, an MCP server: what runs is not     *)
(* followed here.                                                          *)
Run ==
    /\ call.at = "allowed" /\ call.tool \in Commands \union {"serve_folder", "mcp_call"}
    /\ Finish(IF call.tool = "serve_folder" THEN Settled(call.full) ELSE <<"cmd">>)
    /\ UNCHANGED tree

-----------------------------------------------------------------------------
(* The operator and the disk, while a call may stand at its gate.          *)
Stir ==
    /\ call' = IF call = Idle THEN Idle ELSE [call EXCEPT !.stirred = TRUE]
    /\ landed' = None

SetRules ==
    /\ \E pattern \in Patterns \union {<<"cmd">>} :
         rules' = IF pattern \in rules THEN rules \ {pattern} ELSE rules \union {pattern}
    /\ Stir /\ UNCHANGED <<tree, seat, outputs>>

SetOutputs ==
    /\ outputs' \in Outputs \ {outputs}
    /\ Stir /\ UNCHANGED <<tree, seat, rules>>

(* Something is made, or removed with what it holds; a link leads to a     *)
(* folder that is there and stays.                                         *)
LinkedTo(p) == \E q \in Spots : Kind(q) \in DOMAIN Leads /\ Within(p, Leads[Kind(q)])
Change(p, kind) ==
    /\ Kind(Parent(p)) = "folder" /\ ~LinkedTo(p)
    /\ kind = "folder" => Parent(p) = Root
    /\ kind \in DOMAIN Leads => p = Append(Root, "a") /\ Kind(Leads[kind]) = "folder"
    /\ tree' = [q \in Spots |-> IF q = p THEN kind
                                ELSE IF Within(p, q) THEN "none" ELSE tree[q]]
    /\ Stir /\ UNCHANGED <<seat, rules, outputs>>

(* permitted_existing_file and save_text: a file in an approved folder or  *)
(* an output folder, which no rule covers.                                 *)
Permitted(p) ==
    \/ Approves /\ Within(Root, Canonical(p))
    \/ Exists(outputs) /\ Within(Canonical(outputs), Canonical(p))
SaveText(p) ==
    /\ IsFile(p) /\ Permitted(p) /\ ~CheckPath(Canonical(p))
    /\ call' = IF call = Idle THEN Idle ELSE [call EXCEPT !.stirred = TRUE]
    /\ landed' = Canonical(p)
    /\ UNCHANGED <<tree, seat, rules, outputs>>

CallStep ==
    \/ \E tool \in FileTools \union {"serve_folder"}, rel \in Rels : Dispatch(tool, rel)
    \/ \E tool \in Commands, rel \in {<<>>, <<"cmd">>} :
           (rel = <<>> => tool = "start_dev_server") /\ Dispatch(tool, rel)
    \/ \E tool \in {"generate", "mcp_call"} : Dispatch(tool, <<>>)
    \/ Allow \/ Refuse \/ WriteNow \/ CreateDirectory \/ Generate \/ Run

Outside ==
    \/ SetRules \/ SetOutputs
    \/ \E p \in Spots, kind \in {"none", "folder", "file", "inner", "outer"} : Change(p, kind)
    \/ \E p \in Spots : SaveText(p)

Next == CallStep \/ Outside

Spec == Init /\ [][Next]_toolVars

-----------------------------------------------------------------------------
TypeOK ==
    /\ tree \in [Spots -> {"none", "folder", "file", "inner", "outer"}]
    /\ rules \subseteq Patterns \union {<<"cmd">>} /\ outputs \in Outputs
    /\ call = Idle \/ (call.at \in {"gate", "allowed"} /\ call.stirred \in BOOLEAN)
    /\ \A p \in Spots : Kind(p) # "none" => Kind(Parent(p)) = "folder"

(* What a call, or a save, does to a file is done inside the folder it was *)
(* asked for, to the path the rules were asked about, and where no rule    *)
(* holds; nothing is done for a run that only plans or reads.  A call      *)
(* whose rules, settings or folder changed while it stood at the gate is   *)
(* the exception: nothing is asked again.                                  *)
Acts == landed' # None /\ landed' # landed
Calls == call # Idle /\ call' = Idle
WritesWhereItMay ==
    [][Acts /\ ~(Calls /\ call.stirred) =>
         /\ ~\E pattern \in rules \intersect Patterns : Within(Canonical(pattern), landed')
         /\ Calls /\ call.tool \in FileTools =>
              Within(Root, landed') /\ landed' = Settled(call.full)
         /\ Calls /\ call.tool \in Commands /\ call.rel # <<>> => <<"cmd">> \notin rules
         /\ Calls /\ call.tool \in WriteTools => seat.mode = "Agent" /\ ~seat.reads]_toolVars
=============================================================================
