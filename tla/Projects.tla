------------------------------ MODULE Projects ------------------------------
(***************************************************************************)
(* Projects: creating one with its folder, adding a folder, changing its   *)
(* folders and removing it, by several clients at once, while the disk may *)
(* refuse any step and the application may die between any two.            *)
(*                                                                         *)
(* A project has a row, a primary folder that no other row has, and an own *)
(* directory under projects/ named by its id: the files of a project that  *)
(* lives there, and what the application keeps for it.  Creation allocates *)
(* the directory first and writes the row last; removal goes the other way.*)
(* A name of a directory is not used again, so the rows here hold the ids. *)
(***************************************************************************)
EXTENDS Naturals, FiniteSets

CONSTANTS
    Clients,     \* callers of the commands
    Names,       \* ids of projects that are created, slugs of their names;
                 \* as a path, the files of the project that lives there
    Added,       \* ids of projects that are added
    Places,      \* folders of the operator
    Chats        \* conversations

VARIABLES
    dir,         \* projects/<id>: whether it is there, its files, its layout
    row,         \* the rows of workspaces, with their folders
    chat,        \* the project each conversation is bound to
    turn,        \* the project a turn that starts there was given
    client       \* each client's command and its step
vars == <<dir, row, chat, turn, client>>

Ids == Names \union Added
Paths == Places \union Names
NoRow == [primary |-> "none"]
NoDir == [made |-> FALSE, files |-> "none", layout |-> FALSE]
Free == [at |-> "free"]

Registered(id) == row[id] # NoRow
Taken(path) == \E id \in Ids : row[id].primary = path
At(c, step) == client[c].at = step
Goto(c, step) == client' = [client EXCEPT ![c].at = step]
Return(c) == client' = [client EXCEPT ![c] = Free]

Init ==
    /\ dir = [id \in Ids |-> NoDir]
    /\ row = [id \in Ids |-> NoRow]
    /\ chat = [x \in Chats |-> "none"] /\ turn = [x \in Chats |-> "none"]
    /\ client = [c \in Clients |-> Free]

-----------------------------------------------------------------------------
(* create_workspace: the name must be new on disk and in the store, and a  *)
(* folder the operator picked must not be a project's already.             *)
Create(c, id, path) ==
    /\ At(c, "free")
    /\ id \in Names /\ path \in {id} \union Places
    /\ ~dir[id].made /\ ~Registered(id) /\ (path \in Places => ~Taken(path))
    /\ client' = [client EXCEPT ![c] = [at |-> "allocate", id |-> id, path |-> path]]
    /\ UNCHANGED <<dir, row, chat, turn>>

MadeFor(c) ==
    [dir EXCEPT ![client[c].id] = [made |-> TRUE, layout |-> FALSE,
        files |-> IF client[c].path \in Places THEN "none" ELSE "part"]]

(* create_dir refuses a directory that is there: one of two callers has    *)
(* it.  If only files/ under it cannot be made, the directory stays.       *)
Allocate(c) ==
    /\ At(c, "allocate")
    /\ \/ ~dir[client[c].id].made /\ dir' = MadeFor(c) /\ Goto(c, "copy")
       \/ ~dir[client[c].id].made /\ Return(c) /\ client[c].path \notin Places
          /\ dir' = [dir EXCEPT ![client[c].id].made = TRUE]
       \/ Return(c) /\ UNCHANGED dir
    /\ UNCHANGED <<row, chat, turn>>

(* Every source is copied, or the first that is not ends it.               *)
Copy(c) ==
    /\ At(c, "copy")
    /\ \/ Goto(c, "lay out")
          /\ dir' = IF client[c].path \in Places THEN dir
                    ELSE [dir EXCEPT ![client[c].id].files = "whole"]
       \/ Goto(c, "roll back") /\ UNCHANGED dir
    /\ UNCHANGED <<row, chat, turn>>

(* ensure_project_layout and the mirrors of the memories.                  *)
LaidOut(id) == [dir EXCEPT ![id].made = TRUE, ![id].layout = TRUE]

LayOut(c) ==
    /\ At(c, "lay out")
    /\ \/ dir' = LaidOut(client[c].id) /\ Goto(c, "register")
       \/ dir' \in {dir, LaidOut(client[c].id)} /\ Goto(c, "roll back")
    /\ UNCHANGED <<row, chat, turn>>

(* insert_workspace: a row that has the folder already is renamed instead. *)
Inserted(id, path, approved) ==
    IF Taken(path) THEN row
    ELSE [row EXCEPT ![id] = [primary |-> path, folders |-> {path}, approved |-> approved]]

Register(c) ==
    /\ At(c, "register")
    /\ \/ ~Registered(client[c].id) /\ Return(c)
          /\ row' = Inserted(client[c].id, client[c].path, TRUE)
       \/ Goto(c, "roll back") /\ UNCHANGED row
    /\ UNCHANGED <<dir, chat, turn>>

(* A create that failed removes the directory it made, and no more.        *)
RollBack(c) ==
    /\ At(c, "roll back") /\ Return(c)
    /\ dir' = [dir EXCEPT ![client[c].id] = NoDir]
    /\ UNCHANGED <<row, chat, turn>>

-----------------------------------------------------------------------------
(* add_workspace: a folder that is a project already is handed back, laid  *)
(* out again; a new one is registered unapproved, and laid out then.       *)
New(id) ==
    /\ id \in Added /\ ~dir[id].made /\ ~Registered(id)
    /\ \A c \in Clients : client[c] # Free => client[c].id # id

Add(c, id, path) ==
    /\ At(c, "free") /\ (path \in Names => dir[path].files # "none")
    /\ \/ New(id) /\ ~Taken(path)
          /\ client' = [client EXCEPT ![c] = [at |-> "add", id |-> id, path |-> path]]
       \/ row[id].primary = path
          /\ client' = [client EXCEPT ![c] = [at |-> "refresh", id |-> id, path |-> path]]
    /\ UNCHANGED <<dir, row, chat, turn>>

AddRow(c) ==
    /\ At(c, "add")
    /\ \/ row' = Inserted(client[c].id, client[c].path, FALSE) /\ Goto(c, "refresh")
       \/ Return(c) /\ UNCHANGED row
    /\ UNCHANGED <<dir, chat, turn>>

(* The layout after a change of a row; its failure leaves the row.         *)
Refresh(c) ==
    /\ At(c, "refresh") /\ Return(c)
    /\ dir' \in {dir, LaidOut(client[c].id)}
    /\ UNCHANGED <<row, chat, turn>>

Approve(id) ==
    /\ Registered(id) /\ row' = [row EXCEPT ![id].approved = TRUE]
    /\ UNCHANGED <<dir, chat, turn, client>>

(* update_workspace: one to five folders, one of them primary; one under   *)
(* projects/ only if the project has it; none that is another's primary.   *)
Update(c, id, folders, primary) ==
    /\ At(c, "free") /\ Registered(id)
    /\ primary \in folders /\ Cardinality(folders) <= 5
    /\ folders \subseteq Places \union row[id].folders
    /\ \A other \in Ids \ {id} : row[other].primary # primary
    /\ row' = [row EXCEPT ![id].primary = primary, ![id].folders = folders]
    /\ client' = [client EXCEPT ![c] = [at |-> "refresh", id |-> id, path |-> primary]]
    /\ UNCHANGED <<dir, chat, turn>>

-----------------------------------------------------------------------------
(* A turn asks for the approval of its project as it starts, and binds its *)
(* conversation to it, or makes it anew, when it stores the request.       *)
Talk(x, id) ==
    /\ turn[x] = "none" /\ Registered(id) /\ row[id].approved
    /\ turn' = [turn EXCEPT ![x] = id]
    /\ UNCHANGED <<dir, row, chat, client>>

Bind(x) ==
    /\ turn[x] # "none"
    /\ chat' = [chat EXCEPT ![x] = turn[x]] /\ turn' = [turn EXCEPT ![x] = "none"]
    /\ UNCHANGED <<dir, row, client>>

(* remove_workspace stops the server of the project first.                 *)
Remove(c, id, kept) ==
    /\ At(c, "free")
    /\ client' = [client EXCEPT ![c] =
           [at |-> "remove", id |-> id, path |-> "none", kept |-> kept]]
    /\ UNCHANGED <<dir, row, chat, turn>>

(* The conversations of the project go, those to be kept become personal.  *)
Deleted(id, kept) ==
    [x \in Chats |-> IF chat[x] # id THEN chat[x] ELSE IF x \in kept THEN "personal" ELSE "none"]

(* delete_workspace_with_sessions, one transaction: refused if there is no *)
(* such project or a conversation to be kept is of another.                *)
RemoveRow(c) ==
    LET id == client[c].id kept == client[c].kept
    IN  /\ At(c, "remove")
        /\ \/ /\ Registered(id) /\ \A x \in kept : chat[x] \in {"none", id}
              /\ row' = [row EXCEPT ![id] = NoRow] /\ chat' = Deleted(id, kept)
              /\ client' = [client EXCEPT ![c] = [at |-> "clear", id |-> id, path |-> "none"]]
           \/ Return(c) /\ UNCHANGED <<row, chat>>
        /\ UNCHANGED <<dir, turn>>

(* remove_project_mirrors: what can be written again.  The directory stays *)
(* for files/ and artifacts/, which the layout has made, so its name too.  *)
ClearLayout(c) ==
    /\ At(c, "clear") /\ Return(c)
    /\ dir' \in {dir, [dir EXCEPT ![client[c].id].layout = FALSE]}
    /\ UNCHANGED <<row, chat, turn>>

Crash ==
    /\ \E c \in Clients : client[c] # Free
    /\ client' = [c \in Clients |-> Free] /\ turn' = [x \in Chats |-> "none"]
    /\ UNCHANGED <<dir, row, chat>>

Client(c) ==
    \/ Allocate(c) \/ Copy(c) \/ LayOut(c) \/ Register(c) \/ RollBack(c)
    \/ AddRow(c) \/ Refresh(c) \/ RemoveRow(c) \/ ClearLayout(c)

Command(c, id) ==
    \/ \E path \in Paths : Create(c, id, path) \/ Add(c, id, path)
    \/ \E folders \in SUBSET Paths : \E primary \in folders : Update(c, id, folders, primary)
    \/ \E kept \in SUBSET Chats : Remove(c, id, kept)

Next ==
    \/ \E c \in Clients : Client(c) \/ \E id \in Ids : Command(c, id)
    \/ \E id \in Ids : Approve(id) \/ \E x \in Chats : Talk(x, id)
    \/ \E x \in Chats : Bind(x)
    \/ Crash

Spec == Init /\ [][Next]_vars

-----------------------------------------------------------------------------
TypeOK ==
    /\ dir \in [Ids -> [made : BOOLEAN, files : {"none", "part", "whole"}, layout : BOOLEAN]]
    /\ \A id \in Ids :
         \/ row[id] = NoRow
         \/ /\ row[id] \in [primary : Paths, folders : SUBSET Paths, approved : BOOLEAN]
            /\ row[id].primary \in row[id].folders
    /\ chat \in [Chats -> Ids \union {"none", "personal"}]
    /\ turn \in [Chats -> Ids \union {"none"}]
    /\ \A c \in Clients :
         \/ client[c] = Free
         \/ /\ client[c].at \in {"allocate", "copy", "lay out", "register", "roll back",
                                 "add", "refresh", "remove", "clear"}
            /\ client[c].id \in Ids /\ client[c].path \in Paths \union {"none"}

(* A project that was created is on disk with everything its create put    *)
(* there, whatever other creates failed, were rolled back or died.         *)
RegisteredIsWhole ==
    \A id \in Names : Registered(id) =>
        /\ dir[id].made
        /\ row[id].primary = id => dir[id].files = "whole"

(* What a project holds on disk stays, also when it is removed: files go   *)
(* only when the create that made them fails before it has registered.     *)
FilesStay ==
    [][\A id \in Names : dir[id].files # "none" /\ dir'[id].files # dir[id].files =>
          ~Registered(id) /\ \E c \in Clients :
              client[c].at \in {"copy", "roll back"} /\ client[c].id = id]_vars

(* A conversation is deleted only by the removal of its own project, and   *)
(* only if it was not to be kept.                                          *)
KeptChatsStay ==
    [][\A x \in Chats : chat[x] # "none" /\ chat'[x] = "none" =>
          \E c \in Clients :
              At(c, "remove") /\ client[c].id = chat[x] /\ x \notin client[c].kept]_vars
=============================================================================
