------------------------------ MODULE StoreOpen ------------------------------
(***************************************************************************)
(* Opening the store: db::open on one file, by the cores of one machine.   *)
(*                                                                         *)
(* A core reads the version once and then runs one transaction for each    *)
(* migration after it, closes the receipts a crash left, and adds the one  *)
(* column a released migration grew after the fact.  The store may come    *)
(* from any older build, another core may be opening it at the same time,  *)
(* and a core may die, or the disk may refuse, between any two statements. *)
(***************************************************************************)
EXTENDS Naturals, Sequences

CONSTANT Cores

VARIABLES
    store,       \* user_version, its tables, the columns added to them, and
                 \* whether an old project has its primary folder on record
    core,        \* each core's step, and the migration it is at
    skipped      \* history: a repair statement has failed
vars == <<store, core, skipped>>

Rel == <<"previews", "rel">>

(* A migration makes tables and adds columns to tables that are there; its *)
(* indexes go with them.                                                   *)
Making(tables) == [tables |-> tables, columns |-> {}]
Adding(columns) == [tables |-> {}, columns |-> columns]

InitialSchema == Making({
    "settings", "workspaces", "documents", "doc_blocks", "doc_tables",
    "knowledge_sources", "chunks", "chunk_vectors", "chunks_fts", "artifacts",
    "audit", "sandbox_runs", "sandbox_lines", "egress"})

ConversationsAndMemory == <<
    Adding({<<"audit", "session_id">>}),
    Adding({<<"documents", "pipeline">>}),
    Making({"sessions", "session_messages"}),
    [tables |-> {"memories"},
     columns |-> {<<"sessions", "use_memories">>, <<"sessions", "contribute_memories">>,
                  <<"artifacts", "workspace_id">>, <<"artifacts", "session_id">>}],
    Making({"memory_rollouts"}) >>

ProjectsAndRecords == <<
    [tables |-> {"workspace_folders"},
     columns |-> {<<"workspaces", "pinned">>, <<"workspaces", "archived">>}],
    [tables |-> {"previews"}, columns |-> {Rel}],
    Adding({<<"audit", "operator">>}),
    Making({"store_gate"}),
    Making({"vault_event"}) >>

ReceiptsAndAgents == <<
    Making({"run_receipts", "network_events"}),
    Adding({<<"sessions", "pinned">>, <<"sessions", "archived">>}),
    Making({"subagents"}) >>

Migrations ==
    <<InitialSchema>> \o ConversationsAndMemory \o ProjectsAndRecords \o ReceiptsAndAgents
Last == Len(Migrations)
Folders == 7     \* the migration that gives every project its folder rows

TablesAt(v) == UNION {Migrations[i].tables : i \in 1 .. v}
ColumnsAt(v) == UNION {Migrations[i].columns : i \in 1 .. v}

-----------------------------------------------------------------------------
(* Stores of older builds, one built before `rel` was part of migration 8  *)
(* among them.                                                             *)
Init ==
    /\ \E v \in 0 .. Last, without \in {{}, {Rel}} :
          store = [version |-> v, tables |-> TablesAt(v),
                   columns |-> ColumnsAt(v) \ without,
                   project |-> IF v \in 1 .. Folders - 1 THEN "rootless" ELSE "rooted"]
    /\ core = [c \in Cores |-> [at |-> "shut", next |-> 0]]
    /\ skipped = FALSE

At(c, step) == core[c].at = step
Goto(c, step) == core' = [core EXCEPT ![c].at = step]
Fail(c) == Goto(c, "failed") /\ UNCHANGED <<store, skipped>>

(* migrate reads user_version once.                                        *)
Connect(c) ==
    /\ core[c].at \in {"shut", "failed"}
    /\ core' = [core EXCEPT ![c] = [at |-> "migrate", next |-> store.version + 1]]
    /\ UNCHANGED <<store, skipped>>

(* SQLite refuses to make what is there, or to add to what is not.         *)
Fits(m) ==
    /\ m.tables \intersect store.tables = {}
    /\ \A column \in m.columns :
          column[1] \in store.tables \union m.tables /\ column \notin store.columns

MigratedTables(i) ==
    [store EXCEPT !.tables = @ \union Migrations[i].tables,
                  !.columns = @ \union Migrations[i].columns,
                  !.project = IF i = Folders THEN "rooted" ELSE @]

Migrated(i) == [MigratedTables(i) EXCEPT !.version = i]

(* BEGIN .. COMMIT: the statements and the new version, or neither.        *)
Migrate(c) ==
    LET i == core[c].next
    IN  /\ At(c, "migrate") /\ i <= Last
        /\ Fits(Migrations[i])
        /\ store' = Migrated(i)
        /\ core' = [core EXCEPT ![c].next = i + 1]
        /\ UNCHANGED skipped

(* What another core has done meanwhile, or a disk that refuses, fails the *)
(* open.                                                                   *)
MigrateFails(c) == At(c, "migrate") /\ core[c].next <= Last /\ Fail(c)

(* evidence::recover; its failure is the open's.                           *)
Recover(c) ==
    /\ At(c, "migrate") /\ core[c].next > Last
    /\ \/ "run_receipts" \in store.tables /\ Goto(c, "repair") /\ UNCHANGED <<store, skipped>>
       \/ Fail(c)

(* repair_drifted_columns looks first and adds then.                       *)
LookForColumn(c) ==
    /\ At(c, "repair")
    /\ Goto(c, IF "previews" \in store.tables /\ Rel \notin store.columns
               THEN "add" ELSE "open")
    /\ UNCHANGED <<store, skipped>>

(* A repair that fails does not fail the open.                             *)
AddColumn(c) ==
    /\ At(c, "add") /\ Goto(c, "open")
    /\ \/ /\ Rel \notin store.columns
          /\ store' = [store EXCEPT !.columns = @ \union {Rel}]
          /\ UNCHANGED skipped
       \/ skipped' = (skipped \/ Rel \notin store.columns) /\ UNCHANGED store

(* The application is closed, or dies on the way.                          *)
Shut(c) ==
    /\ ~At(c, "shut")
    /\ core' = [core EXCEPT ![c] = [at |-> "shut", next |-> 0]]
    /\ UNCHANGED <<store, skipped>>

Open(c) ==
    \/ Connect(c) \/ Migrate(c) \/ MigrateFails(c) \/ Recover(c)
    \/ LookForColumn(c) \/ AddColumn(c)

Next == \E c \in Cores : Open(c) \/ Shut(c)

Spec == Init /\ [][Next]_vars

-----------------------------------------------------------------------------
TypeOK ==
    /\ store.version \in 0 .. Last
    /\ store.tables \subseteq TablesAt(Last) /\ store.columns \subseteq ColumnsAt(Last)
    /\ store.project \in {"rootless", "rooted"}
    /\ core \in [Cores -> [at : {"shut", "migrate", "repair", "add", "open", "failed"},
                           next : 0 .. Last + 1]]
    /\ skipped \in BOOLEAN

(* The version and the schema say the same, whoever else opened the store, *)
(* and wherever an open stopped; `rel` apart, which the version says       *)
(* nothing of.                                                             *)
VersionTellsSchema ==
    /\ store.tables = TablesAt(store.version)
    /\ store.columns \union {Rel} = ColumnsAt(store.version) \union {Rel}
    /\ store.version >= Folders => store.project = "rooted"

(* A core that has opened the store finds every table and column it uses;  *)
(* `rel` it may miss if a repair has failed.                               *)
OpenIsComplete ==
    (\E c \in Cores : At(c, "open")) =>
        /\ store.tables = TablesAt(Last)
        /\ Rel \in store.columns \/ skipped

(* Whatever an open left, the next one can carry on from: no migration it  *)
(* would run makes what is there already.                                  *)
CanBeOpened ==
    \A i \in store.version + 1 .. Last :
        /\ Migrations[i].tables \intersect store.tables = {}
        /\ Migrations[i].columns \intersect store.columns = {}
        /\ \A column \in Migrations[i].columns : column[1] \in TablesAt(i)
=============================================================================
