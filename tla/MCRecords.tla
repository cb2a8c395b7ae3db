------------------------------ MODULE MCRecords ------------------------------
(***************************************************************************)
(* What the core keeps on disk beside the conversation: the files its runs *)
(* change, the records of its runs, the mirrors under the vault, the       *)
(* documents it has read with the index over them, the projects with their *)
(* folders, and the store itself as it is opened.  They share nothing that *)
(* is stated here, so in a behaviour one of them moves and the others stay *)
(* as they start.                                                          *)
(***************************************************************************)
EXTENDS Naturals, FiniteSets, TLC

CONSTANTS Runs, Files, Texts, Cores, MaxTurns, MaxLives,
          Clients, Writers, Roots, MaxWrites, MaxKeys,
          Jobs, Watchers, Sizes, MaxSaves,
          Readers, PageCount, OcrLimit, Kinds, Drafts, Builds,
          Windows, Names, Added, Places, Chats

(* A file's text is not one of the words for a missing or unseen file, a   *)
(* path is that of one project, a file's drafts are told apart by number.  *)
ASSUME RecordsAssumption ==
    /\ IsFiniteSet(Jobs) /\ MaxSaves \in Nat \ {0}
    /\ "empty" \in Texts /\ "none" \notin Texts /\ "unseen" \notin Texts
    /\ \E t \in Texts : t # "empty"
    /\ {MaxTurns, MaxLives} \subseteq Nat
    /\ {MaxWrites, MaxKeys} \subseteq Nat /\ Roots # {}
    /\ PageCount \in Nat /\ Builds \in Nat \ {0} /\ Drafts \subseteq Nat \ {0} /\ Drafts # {}
    /\ "none" \notin Names \union Added \union Places
    /\ Names \intersect (Added \union Places) = {}

VARIABLES
    part,                                                   \* which one moves
    disk, tool, changes, ended, found, wrote,               \* FileChanges
    life, lives, turn, receipt, agent, row, note, opening,  \* RunRecords
    state, keys, db, root, plain, sealed, op, writer,       \* Vault
    crossed, strayed,                                       \* Vault
    file, source, passages, fts, job, watching, watcher,    \* KnowledgeIndex
    tried, robbed,                                          \* KnowledgeIndex
    store, core, skipped,                                   \* StoreOpen
    paper, build, document, reader,                         \* Ingestion
    dir, project, chat, talk, client                        \* Projects

Changes == INSTANCE FileChanges
Records == INSTANCE RunRecords
Mirrors == INSTANCE Vault
Index == INSTANCE KnowledgeIndex
Opening == INSTANCE StoreOpen
Reading == INSTANCE Ingestion WITH source <- paper, record <- document
Folders == INSTANCE Projects WITH Clients <- Windows, row <- project, turn <- talk
changeVars == <<disk, tool, changes, ended, found, wrote>>
recordVars == <<life, lives, turn, receipt, agent, row, note, opening>>
mirrorVars == <<state, keys, db, root, plain, sealed, op, writer, crossed, strayed>>
indexVars == <<file, source, passages, fts, job, watching, watcher, tried, robbed>>
openVars == <<store, core, skipped>>
readVars == <<paper, build, document, reader>>
projectVars == <<dir, project, chat, talk, client>>
vars == <<part, changeVars, recordVars, mirrorVars, indexVars, openVars, readVars, projectVars>>

Parts == {"changes", "records", "mirrors", "index", "open", "reading", "projects"}

Init ==
    /\ part \in Parts
    /\ part # "changes" => disk = [f \in Files |-> "none"]
    /\ Changes!Init /\ Records!Init /\ Mirrors!Init /\ Index!Init
    /\ Opening!Init /\ Reading!Init /\ Folders!Init
    /\ part # "index" => file.size = CHOOSE size \in Sizes : TRUE
    /\ part # "open" => store.version = 0 /\ skipped = FALSE
    /\ part # "reading" => paper.kind = "scan"

Moves(p) == part = p
Next ==
    /\ UNCHANGED part
    /\ \/ Moves("changes") /\ Changes!Next
       \/ part # "changes" /\ UNCHANGED changeVars
    /\ \/ Moves("records") /\ Records!Next
       \/ part # "records" /\ UNCHANGED recordVars
    /\ \/ Moves("mirrors") /\ Mirrors!Next
       \/ part # "mirrors" /\ UNCHANGED mirrorVars
    /\ \/ Moves("index") /\ Index!Next
       \/ part # "index" /\ UNCHANGED indexVars
    /\ \/ Moves("open") /\ Opening!Next
       \/ part # "open" /\ UNCHANGED openVars
    /\ \/ Moves("projects") /\ Folders!Next
       \/ part # "projects" /\ UNCHANGED projectVars
    /\ \/ Moves("reading") /\ Reading!Next
       \/ part # "reading" /\ UNCHANGED readVars

(* The two of each kind are alike in all that is stated below; since one   *)
(* part moves at a time, it is enough to swap all of them at once.         *)
Renamings == {a @@ b @@ c @@ d @@ e @@ f :
    a \in Permutations(Cores), b \in Permutations(Clients), c \in Permutations(Runs),
    d \in Permutations(Jobs), e \in Permutations(Readers), f \in Permutations(Windows)}
Symmetry == {f \in Renamings : \A x, y \in DOMAIN f : f[x] = x <=> f[y] = y}

Spec == Init /\ [][Next]_vars

-----------------------------------------------------------------------------
(* The type invariants of all.                                             *)
TypeOK ==
    /\ part = "changes" => Changes!TypeOK
    /\ part = "records" => Records!TypeOK
    /\ part = "mirrors" => Mirrors!TypeOK
    /\ part = "index" => Index!TypeOK
    /\ part = "open" => Opening!TypeOK
    /\ part = "reading" => Reading!TypeOK
    /\ part = "projects" => Folders!TypeOK

(* Discarding a change brings back what the run found, and nothing else    *)
(* is touched.                                                             *)
DiscardBringsBack == Changes!DiscardBringsBack

(* What is on record stays through crashes and restarts: what a receipt    *)
(* says of a turn that is over, one copy of every mirror, the files of a   *)
(* project and the conversations that were to be kept.                     *)
RecordsStay ==
    /\ Records!ReceiptsHold /\ Mirrors!CopyStays
    /\ Folders!FilesStay /\ Folders!KeptChatsStay

(* One turn works in a chat at a time, in the windows of one core; and no  *)
(* crash leaves what nobody can take up again: a subagent that holds its   *)
(* slot without a turn, a sealed mirror whose key is gone, a store no      *)
(* later open can migrate.                                                 *)
NothingStranded ==
    /\ Records!OneTurn /\ Records!NoGhost /\ Mirrors!NothingStranded
    /\ part = "open" => Opening!CanBeOpened

(* Search finds the passages of one reading of a listed document, however  *)
(* jobs overlap, and finds them while the document says indexed.           *)
SearchFindsWhole ==
    /\ Index!SearchFindsWhole /\ Index!IndexedIsSearchable

(* The store is what it says it is: its schema that of its version, also   *)
(* when two cores open it or one dies on the way, and the record of a file *)
(* the text of the bytes it names, with every page missing from it named;  *)
(* a registered project has its folder and all that was copied there.     *)
StoreIsWhole ==
    /\ part = "open" => Opening!VersionTellsSchema /\ Opening!OpenIsComplete
    /\ Reading!PartialSaysSo /\ Reading!TextIsOfItsHash
    /\ Folders!RegisteredIsWhole
=============================================================================
