------------------------------- MODULE Vault -------------------------------
(***************************************************************************)
(* The at-rest vault over the mirrors of a chat and of its memories.       *)
(*                                                                         *)
(* The database is the authority; a mirror is a readable copy of it.  A    *)
(* transcript is appended to, a memory file under the memory root is       *)
(* rewritten whole.  Enabling writes the state file, then seals what is    *)
(* there; disabling restores what is sealed, then removes the state file.  *)
(* A command takes no lock and looks only at the memory root it started    *)
(* with.  Commands of several windows, writers and an operator who moves   *)
(* the root are interleaved, and the core may be killed between any two    *)
(* of their file operations.                                               *)
(*                                                                         *)
(* What a mirror holds is the set of the database's writes it shows.       *)
(* A definition whose name extends the name of the next one is a seeded    *)
(* slip: what that definition would be if the code had the named mistake.  *)
(***************************************************************************)
EXTENDS Naturals

CONSTANTS
    Clients,     \* windows that may enable or disable the vault
    Writers,     \* tasks that store a message or a memory and mirror it
    Roots,       \* folders the memory root may be set to
    MaxWrites,   \* bound: messages and memories stored
    MaxKeys      \* bound: times the vault is enabled

VARIABLES
    state,       \* the key the state file verifies, 0 when there is none
    keys,        \* keys made so far
    db,          \* what the database holds of each kind
    root,        \* the memory root in the settings
    plain,       \* each mirror in the clear
    sealed,      \* each mirror's envelope
    op,          \* each client's command
    writer,      \* each writer's step
    crossed,     \* keys of commands that were under way together (history)
    strayed      \* mirrors sealed outside the folders a disable saw (history)
vars == <<state, keys, db, root, plain, sealed, op, writer, crossed, strayed>>

Transcript == <<"transcript", "sessions">>
Memory(r) == <<"memory", r>>
Paths == {Transcript} \union {Memory(r) : r \in Roots}
NoFile == {0}                 \* no text shows write 0
NoEnvelope == [key |-> 0]
Idle == [at |-> "idle"]
Here(p) == plain[p] # NoFile
IsSealed(p) == sealed[p] # NoEnvelope
Seen(r) == {Transcript, Memory(r)}       \* what payload_files walks

Init ==
    /\ state = 0 /\ keys = 0
    /\ db = [k \in {"transcript", "memory"} |-> {}]
    /\ root = CHOOSE r \in Roots : TRUE
    /\ plain = [p \in Paths |-> NoFile] /\ sealed = [p \in Paths |-> NoEnvelope]
    /\ op = [c \in Clients |-> Idle] /\ writer = [w \in Writers |-> Idle]
    /\ crossed = {} /\ strayed = {}

At(c, step) == op[c].at = step
Command(c, step) == op' = [op EXCEPT ![c] = step]
Busy(c) == op[c].at \in {"state", "files", "remove"}
Others(c) == {d \in Clients \ {c} : Busy(d)}
Crossing(c, key) ==       \* the command of c begins while others are under way
    IF Others(c) = {} THEN {} ELSE {key} \union {op[d].key : d \in Others(c)}
NextFile(c) == Command(c, [op[c] EXCEPT !.at = "files", !.todo = @ \ {op[c].file}])

-----------------------------------------------------------------------------
(* enable_impl: refused while a state file is there.  The check is steps   *)
(* before the write, which asks nothing.                                   *)
Enable(c) ==
    /\ At(c, "idle") /\ state = 0 /\ keys < MaxKeys
    /\ keys' = keys + 1
    /\ Command(c, [at |-> "state", key |-> keys', root |-> root])
    /\ crossed' = crossed \union Crossing(c, keys')
    /\ UNCHANGED <<state, db, root, plain, sealed, writer, strayed>>

WriteState(c) ==
    /\ At(c, "state")
    /\ state' = op[c].key
    /\ Command(c, [at |-> "files", what |-> "seal", key |-> op[c].key, root |-> op[c].root,
                   failed |-> FALSE, todo |-> {p \in Seen(op[c].root) : Here(p)}])
    /\ UNCHANGED <<keys, db, root, plain, sealed, writer, crossed, strayed>>

(* The memories come first, then the sessions.                             *)
NextOf(c, p) == At(c, "files") /\ p \in op[c].todo /\ (p = Transcript => op[c].todo = {p})
Seals(c, p) == NextOf(c, p) /\ op[c].what = "seal"

(* The envelope is whole at its own path before the plaintext is removed.  *)
EnvelopeAfterRemoval(c, p) ==
    /\ Seals(c, p) /\ Here(p)
    /\ plain' = [plain EXCEPT ![p] = NoFile]
    /\ Command(c, [at |-> "envelope", what |-> "seal", key |-> op[c].key, root |-> op[c].root,
                   failed |-> FALSE, todo |-> op[c].todo, file |-> p])
    /\ UNCHANGED <<state, keys, db, root, sealed, writer, crossed, strayed>>
Envelope(c, p) ==
    /\ Seals(c, p) /\ Here(p)
    /\ sealed' = [sealed EXCEPT ![p] = [key |-> op[c].key, text |-> plain[p]]]
    /\ Command(c, [at |-> "remove", what |-> "seal", key |-> op[c].key, root |-> op[c].root,
                   failed |-> FALSE, todo |-> op[c].todo, file |-> p])
    /\ UNCHANGED <<state, keys, db, root, plain, writer, crossed, strayed>>

RemovePlain(c) ==
    /\ At(c, "remove") /\ op[c].what = "seal"
    /\ plain' = [plain EXCEPT ![op[c].file] = NoFile]
    /\ NextFile(c)
    /\ UNCHANGED <<state, keys, db, root, sealed, writer, crossed, strayed>>

(* A file that cannot be read, written or removed is counted and left.     *)
Skip(c, p) ==
    /\ NextOf(c, p)
    /\ Command(c, [op[c] EXCEPT !.todo = @ \ {p}, !.failed = TRUE])
    /\ UNCHANGED <<state, keys, db, root, plain, sealed, writer, crossed, strayed>>

Sealed(c) ==
    /\ At(c, "files") /\ op[c].what = "seal" /\ op[c].todo = {}
    /\ Command(c, Idle)
    /\ UNCHANGED <<state, keys, db, root, plain, sealed, writer, crossed, strayed>>

-----------------------------------------------------------------------------
(* disable_impl, with the passphrase of the state file.                    *)
Disable(c) ==
    /\ At(c, "idle") /\ state # 0
    /\ Command(c, [at |-> "files", what |-> "restore", key |-> state, root |-> root,
                   failed |-> FALSE, todo |-> {p \in Seen(root) : IsSealed(p)}])
    /\ crossed' = crossed \union Crossing(c, state)
    /\ UNCHANGED <<state, keys, db, root, plain, sealed, writer, strayed>>

Restores(c, p) == NextOf(c, p) /\ op[c].what = "restore"

Restore(c, p) ==
    /\ Restores(c, p) /\ sealed[p].key = op[c].key
    /\ plain' = [plain EXCEPT ![p] = sealed[p].text]
    /\ Command(c, [at |-> "remove", what |-> "restore", key |-> op[c].key, root |-> op[c].root,
                   failed |-> op[c].failed, todo |-> op[c].todo, file |-> p])
    /\ UNCHANGED <<state, keys, db, root, sealed, writer, crossed, strayed>>

RemoveEnvelope(c) ==
    /\ At(c, "remove") /\ op[c].what = "restore"
    /\ sealed' = [sealed EXCEPT ![op[c].file] = NoEnvelope]
    /\ NextFile(c)
    /\ UNCHANGED <<state, keys, db, root, plain, writer, crossed, strayed>>

(* The state file goes last, and not while a file it saw is still sealed.  *)
MayDisarmAnyway(c) == At(c, "files") /\ op[c].what = "restore" /\ op[c].todo = {}
MayDisarm(c) == MayDisarmAnyway(c) /\ ~op[c].failed

RemoveState(c) ==
    /\ MayDisarm(c)
    /\ state' = 0
    /\ Command(c, [at |-> "sync"])
    /\ strayed' = strayed \union {p \in Paths \ Seen(op[c].root) : IsSealed(p)}
    /\ UNCHANGED <<keys, db, root, plain, sealed, writer, crossed>>

StayArmed(c) ==
    /\ MayDisarmAnyway(c) /\ op[c].failed
    /\ Command(c, Idle)
    /\ UNCHANGED <<state, keys, db, root, plain, sealed, writer, crossed, strayed>>

(* vault_disable ends with sync_memory_files: the memories' mirrors.       *)
SyncMemories(c) ==
    /\ At(c, "sync")
    /\ plain' = IF state # 0 THEN plain ELSE [plain EXCEPT ![Memory(root)] = db["memory"]]
    /\ Command(c, Idle)
    /\ UNCHANGED <<state, keys, db, root, sealed, writer, crossed, strayed>>

-----------------------------------------------------------------------------
(* A message or a memory is stored, then mirrored if the vault is off when *)
(* the writer looks.                                                       *)
Writes == UNION {db[k] : k \in DOMAIN db}
Store(w, kind) ==
    LET n == CHOOSE i \in 1 .. MaxWrites : i \notin Writes
    IN  /\ writer[w] = Idle /\ Writes # 1 .. MaxWrites
        /\ db' = [db EXCEPT ![kind] = @ \union {n}]
        /\ writer' = [writer EXCEPT ![w] = [at |-> "look", kind |-> kind, item |-> n]]
        /\ UNCHANGED <<state, keys, root, plain, sealed, op, crossed, strayed>>

Look(w) ==
    /\ writer[w].at = "look"
    /\ writer' = [writer EXCEPT ![w] = IF state # 0 THEN Idle ELSE [@ EXCEPT !.at = "write"]]
    /\ UNCHANGED <<state, keys, db, root, plain, sealed, op, crossed, strayed>>

Mirror(w) ==
    /\ writer[w].at = "write"
    /\ plain' = IF writer[w].kind = "memory"
                THEN [plain EXCEPT ![Memory(root)] = db["memory"]]
                ELSE [plain EXCEPT ![Transcript] =
                         (IF @ = NoFile THEN {} ELSE @) \union {writer[w].item}]
    /\ writer' = [writer EXCEPT ![w] = Idle]
    /\ UNCHANGED <<state, keys, db, root, sealed, op, crossed, strayed>>

(* settings_set with another memory root ends with sync_memory_files too.  *)
Move(r) ==
    /\ r # root
    /\ root' = r
    /\ plain' = IF state # 0 THEN plain ELSE [plain EXCEPT ![Memory(r)] = db["memory"]]
    /\ UNCHANGED <<state, keys, db, sealed, op, writer, crossed, strayed>>

Crash ==
    /\ op' = [c \in Clients |-> Idle]
    /\ writer' = [w \in Writers |-> Idle]
    /\ <<op, writer>>' # <<op, writer>>
    /\ UNCHANGED <<state, keys, db, root, plain, sealed, crossed, strayed>>

Seal(c) ==
    \/ Enable(c) \/ WriteState(c) \/ RemovePlain(c) \/ Sealed(c)
    \/ \E p \in Paths : Envelope(c, p) \/ Skip(c, p)
Unseal(c) ==
    \/ Disable(c) \/ RemoveEnvelope(c) \/ RemoveState(c) \/ StayArmed(c) \/ SyncMemories(c)
    \/ \E p \in Paths : Restore(c, p)

Next ==
    \/ \E c \in Clients : Seal(c) \/ Unseal(c)
    \/ \E w \in Writers : Look(w) \/ Mirror(w)
    \/ \E w \in Writers, kind \in {"transcript", "memory"} : Store(w, kind)
    \/ \E r \in Roots : Move(r)
    \/ Crash

Spec == Init /\ [][Next]_vars

-----------------------------------------------------------------------------
Shown == SUBSET (1 .. MaxWrites)

TypeOK ==
    /\ state \in 0 .. MaxKeys /\ keys \in 0 .. MaxKeys
    /\ db \in [{"transcript", "memory"} -> Shown] /\ root \in Roots
    /\ plain \in [Paths -> Shown \union {NoFile}]
    /\ sealed \in [Paths -> [key : 1 .. MaxKeys, text : Shown] \union {NoEnvelope}]
    /\ crossed \subseteq 1 .. MaxKeys /\ strayed \subseteq Paths

(* "Never sealed files with no way back": whatever fails and wherever the  *)
(* core is killed, the state file of an envelope's key is there.  The code *)
(* breaks its word in two cases, and only there: the command that sealed   *)
(* crossed another's, or the root had been moved when the vault went off.  *)
NothingStranded ==
    \A p \in Paths : IsSealed(p) =>
        sealed[p].key = state \/ sealed[p].key \in crossed \/ p \in strayed

(* Sealing and restoring never take the only copy away, but for a command  *)
(* that crossed another's.                                                 *)
CopyStays ==
    [][\A p \in Paths : Here(p) \/ IsSealed(p) =>
           \/ (Here(p) \/ IsSealed(p))'
           \/ \E c \in Clients : At(c, "remove") /\ op[c].file = p /\ op[c].key \in crossed]_vars
=============================================================================
