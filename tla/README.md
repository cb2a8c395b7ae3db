# Verification of zero-leak

zero-leak ("Sovereign") is a local AI workstation: a Tauri core in Rust (`src/src-tauri/src`), a React workbench
(`src/src`) and a `llama-server` router process that holds the models. Several chats run at once on one card; each
chat's run may start subagents; tools act on the operator's files behind an approval gate. This directory holds TLA+
models of the parts of the core where runs, the operator, background tasks and external processes interleave, the TLC
configurations that check them on small instances, and theorems the TLAPS proof system checks for every instance.

All paths below are under `src/src-tauri/src` unless they start with `src/` or `docs/`.

## 1. Inventory

### Parts that are modelled

| Part | State | Operations | Hard behaviour |
|---|---|---|---|
| Subagent registry (`multi_agent.rs`) | `Inner`: agents, run_to_agent, session_to_agent, mailboxes, under one mutex | reserve, restart, attach_run, fail_reserved, complete_run, request_stop, send_message, drain_messages, remove_root, wait_for | capacity shared by all chats; late and duplicate completions; stop against steering; lost wake-ups |
| Runs and launches (`agent.rs` 7600-9290, `state.rs` 599-665, `multi_agent.rs` 404-418) | `AppState.runs`, the launch queue, each run's task | start, round loop, spawn and follow-up, end, cancel, interrupt, delete chat | a launch is queued, attached and registered in separate steps; Stop falls between any two |
| Turn loop (`agent.rs` `orchestrate`, `tool_round`, `compact_if_needed`) | the conversation of a turn, its counters, what the turn did | prompt, round, corrections, escalation, repairs, compaction, answer | calls and results must pair up whatever is corrected or dropped; the request must survive compaction |
| Approvals and questions (`state.rs` 599-825, `agent.rs` 4933-4995, 5400-5443) | permissions, questions, session_grants, cancelled flags | gate, ask_permission, answer_permission, ask_operator, answer_question, cancel_run | answers, Stop and a deadline race for one channel; runs share the operator |
| Model residency (`router.rs`, `state.rs`) | models cache, models noted by runs, two locks, router handle | ensure_loaded, make_room, unload, refresh_models, poller, idle sweep, start, stop, watcher | decisions on a cache that lags the router; loads and unloads that time out |
| Development servers (`devserver.rs`) | one entry per workspace, a watcher thread per process | start, stop, status, the readiness loop | overlapping starts, stops and exits |
| MCP client (`mcp.rs`) | the pool, a slot per server with its mutex and connection | call, tools/list, reconcile | a retired slot still in use; late and repeated answers |
| Command sandbox (`sandbox.rs`, `winproc.rs`) | handle map, job object, readers, the row | exec, kill, kill_all, sweep | Stop, deadline and exit race; a child holds the pipes |
| Knowledge index (`knowledge.rs`, `db.rs`) | source row, passages, full-text index | index, reindex, remove, watcher | overlapping jobs over a file that changes |
| Passages and retrieval (`knowledge.rs`, `db.rs`) | pieces of a document, their vectors, a search in progress | chunk_text, chunk_table, embed_passages, fts_query, search | cutting at boundaries; halves of a search read at different times |
| Change review (`agent.rs` 5936-6054, 9431-9587) | files, `pending_changes` | write_file, edit_file, queue_change, discard | read, gate and write are apart; others write too |
| Run records (`evidence.rs`, `multi_agent.rs` persist, `db.rs`) | receipts, subagent rows | begin, observe, recover, persist, restore | crash between any two steps; a second core |
| Store opening (`db.rs`) | version, schema | open with every migration and repair | two cores at once; a crash in between |
| Vault (`vault.rs`, `harness.rs`) | state file, sealed and plain mirrors | enable, disable, the mirrors' writers | failures half way; writers that looked before |
| Ingestion (`documents.rs`) | document record | ingest, page by page with two models | overlapping reads of a changing file |
| Projects (`fsops.rs`, `db.rs`) | row, directory, bound chats | create, add, approve, update, remove | several files and rows without a transaction |
| Model catalogue (`registry.rs`, `router.rs`) | entries, models.json, routes, windows | edit, move of the directory, route | memory, file and running router differ |
| Conversations and memories (`harness.rs`, `db.rs`) | messages, memories, bindings | a turn's writes and captures, the operator's edits | every lookup and write locks on its own |
| Store gate (`sovereign.rs`) | report on folders, override | check of a turn, refresh | the folder changes while it is measured |
| Previews (`preview.rs`, `devserver.rs`) | listeners, bindings, rows, entries | serve_folder, stop, restore, exit | four stores for one fact |
| Tool calls and paths (`fsops.rs`, `guards.rs`, `agent.rs`) | rules, mode, the open folder's tree | resolution of a path, dispatch to effect; update_plan | what was checked is not what is there |
| Artifacts (`artifacts.rs`) | file, temporary file, row | write, swap, verify | a failure or crash between any two |
| Answers of the model (`router.rs`, `agent.rs`) | the stream, the calls | read_stream, parse_completion, harvest | cut anywhere by the network |

What makes each of them correct is stated in the modules as their properties; section 3 says which run checks which.

How they interact: a run of the turn loop registers itself and its receipt, asks residency for its model, streams
answers, passes tool calls through rules and gate, queues file changes, starts commands, servers and subagents. The
registry and the runs are modelled together, since each depends on the other's intermediate states. The other parts meet
only through single calls that succeed or fail, which each module has as a choice.

### Parts that are not modelled

| Part | Why |
|---|---|
| Prompts, memory recall, read-only tools | what a round says to the model is data; a tool that only reads changes no state |
| Audit log (`audit.rs`, `log.rs`) | appended rows that nothing decides by |
| Harness instructions and consolidation | files read whole, and a summary written over the last one |
| GGUF header, hardware figures | a parser and a probe; what they yield is a constant of the models |
| Transcription, pasted images, page check | one request served by one external process or one file write |
| Web search | requests and parsers, no state |
| Command surface, transports, error and data types | a table from names to the calls the other parts have |
| Workbench state, services and views (`src/src`) | a reducer fed by the core's events, and rendering |
| Build files, scripts, examples, backups, presentations | not part of the running program |

A part is called "partly" modelled in `PROJECT.json` wherever something of it is left out; its note says what.

## 2. Modules

| Module | Models | Checked in |
|---|---|---|
| `SlotPool` | what the registry promises: a pool of slots with a limit | by refinement |
| `SubagentRegistry` | `multi_agent.rs`, one action per method; refines `SlotPool` | `MCSubagentRegistry` |
| `SubagentRuns` | the runs, the supervisor and the operator around `Registry == INSTANCE SubagentRegistry` | `MCSubagentRuns` |
| `TurnLoop` | one turn, from the prompt to the answer | `MCTurnLoop` |
| `Approvals` | gate, prompts, questions, grants, cancel_run | `MCApprovals` |
| `ModelResidency` | residency, its locks, poller, sweep, watcher and the router | `MCModelResidency` |
| `DevServers`, `McpPool`, `SandboxRuns`, `KnowledgeIndex`, `SubagentWait` | what a core has going beside its turns | `MCServices` |
| `FileChanges`, `RunRecords`, `Vault`, `KnowledgeIndex`, `StoreOpen`, `Ingestion`, `Projects` | what is kept on disk | `MCRecords` |
| `ModelCatalogue`, `Conversations`, `StoreGate` | what the operator sets and the chats say | `MCDesk` |
| `Completion`, `Passages`, `Retrieval`, `FolderPaths`, `ToolCalls` (EXTENDS it), `Plans`, `Artifacts`, `Previews` | what a run works with and shows | `MCWorkbench` |
| `SubagentRegistry_proofs`, `SubagentRuns_proofs`, `TurnLoop_proofs`, `Approvals_proofs`, `KnowledgeIndex_proofs`, `MCServices_proofs`, `MCRecords_proofs`, `MCDesk_proofs` | theorems | |

`MCServices`, `MCRecords`, `MCDesk` and `MCWorkbench` put several components side by side. These share no state that is
stated here, so nothing is lost by letting one of them move per behaviour: `part` says which, and the others stay as they
start. Where one component's initial states are many, they are fixed in the behaviours of the others.

In each module a definition whose name extends that of the definition after it (`SlotFreeAtLimit`, `SlotFree`) is a
seeded slip: what the definition would be with a plausible mistake. Specifications do not use slips. Each is listed
under "mutants" in `PROJECT.json` with the property that catches it.

### The core

**SubagentRegistry.** A method holds the mutex from its first read to its last write, so a method is one action; a call
the code answers with an error changes nothing and is a stuttering step. `agents` is the map made total with the statuses
"absent" and "removed". A subagent's private session is named by the subagent, so `session_to_agent` is `Caller`.
`limit` is `max_subagents`, which `constrain_subagents` (`registry.rs:75`) clamps and the operator moves (`SetLimit`).
`issued` are the run ids handed out; `delivered` counts the completions pushed for a run and is read by properties only.
Any caller may make any call in any order: who really does is `SubagentRuns`.

**SubagentRuns.** `turn[r]` says where run r's task is. The phases follow the awaits of `agent::start` and the round
loop: starting, at a round boundary, acting inside a round, waiting for the supervisor's launch reply, answering, reported to
the registry, done; "leaked" is a run that `start` registered and left behind. `queue` is the launch channel and `desk` the
launch that has been attached (`attach_run`) but is not yet registered (`register_run`). `stopping` are the runs a
cancellation has still to visit. `TurnOpen` derives the running receipt that makes `start` refuse a second turn of a session
(`evidence.rs:58`). Tools without effect on this state are one action, `OtherTool`; one of them that asks for permission is
`AskPermission`, a wait without a deadline, and `Answered` when somebody answers. `ForkRefused` is the fork that cannot be parsed
after `reserve`, and a start that fails once it is registered ends in "leaked". `MCSubagentRuns` adds the history `forgotten`, the
reservations such a fork left behind.

**TurnLoop.** The conversation is a sequence of messages without their text: who speaks, which calls they make or answer,
and whether the turn or an earlier one said it. What a reply contains, what a tool returns and how large the
conversation is are choices, so any boundary may find it too large and any reply may need any correction. A call may stand at the
gate ("gated") until it is answered.

**Approvals.** `phase[r]` is where run r's tool call is: called, on a prompt (`asking`), on a question (`wondering`), past the
question's deadline: the timeout has looked at the channel for the last time (`elapsed`), then dropped it with the entry not yet
removed (`expired`); or running. `permissions` and `questions` are the two tables;
`reply` is what was sent on each channel and `said` what the operator first decided. `cancel_run` is four steps (flag,
list, each rejection, questions) because it gives up a lock between them. The operator may answer any prompt ever put up, since a
window and a browser tab may both show it. Runs are registered from the start and do not end here: `SubagentRuns` has that.

**ModelResidency.** `pc[c]` is where caller c's request is in `ensure_loaded`: the note on the run, the look at the cache,
the load lock, the admission passes, the unload, the load request, the polling loop, generation under the inference lock.
`server` is what the router process really holds, `cache` what the core believes. A refresh reads the list in one step and
applies it model by model; a model that has become resident is asked for its window (`/props`), and a question that fails ends the
refresh there, with that model not shown as loaded and the rest of the list unapplied (`router.rs:820-828`). `answer[x]` is what
reader x (the poller, the load under way, a start) has still to apply. `poller` says whether the router has one: a start spawns it after
its first refresh, and if that fails it leaves the router up without one (`router.rs:453`), and later starts find the router answering and
return. A load request may be refused, or be accepted and its answer lost (`PostFailed`); either way the code looks at the list before it
believes the failure (`doubting`, `judging`). Time is left out: any model may be the least recently used or idle long enough, and any
wait may reach its deadline.

### What a core has going

**DevServers**: `entry` is the workspace's row of the table, `live` the processes, `call` where each `start` is. **McpPool**:
`slot` is every slot made so far with its holder and connection, `wire` what a server has said and nobody has read,
`task` where each call or save is. **SandboxRuns**: one command, its program, the lines it said, its handle and the row; a
process dies with the last holder of its job object. **KnowledgeIndex**: one document, known by source id and version of the
file read. **SubagentWait**: the subscription before the reads.

### What is kept

**FileChanges** has `tool` between the read, the gate and the write of each run, and keeps as history what a run found at its first
change (`found`). **RunRecords** has two cores on one store, each killed and started again; a core that opens reads the running receipts,
checks their owners one by one and writes "interrupted" in a step of its own. **Vault** goes file by file through enable and disable,
of any window and while the memory root moves; `crossed` are the keys of commands that were under way together, `strayed` the
mirrors outside the folders a disable looked at. **StoreOpen** has a transaction per
migration, from every older version. **Ingestion** has passes over the pages as one step each, since the passes share nothing.
**Projects** has the directory, the row, and the chats of a project. **ModelCatalogue** has memory, file and running router
apart. **Conversations** has each of a capture's three lookups and each write of a turn as a step. **StoreGate** looks at folder after folder.

### What a run works with

**Completion** cuts a reply anywhere; a chunk is taken (after a look at the run's flag) and read in two steps. **Passages** computes on texts of letters, spaces and two-byte characters. **Retrieval**
ranks in any order. **FolderPaths** are operators on the tree (`resolve` and its proof that the existing part lies in the
folder); **ToolCalls** has the steps around them. **Plans** keeps rows by id. **Artifacts** has the temporary file, the swap, the row
and the check, and keeps as history which targets lost their file to an unfinished swap (`gap`) and which hold a file without its row (`unlisted`). **Previews** has the listener, the binding, the row and the shown entry step by step.

## 3. Runs

| Run | Instance | Asks | Result |
|---|---|---|---|
| `registry` | two chats, two subagents, three runs, one slot, two levels | `Capacity`, `DelegationTree`, `EveryRunFindsItsChild`, `DeliveredOnce`, `StopIsKept`, and the refinement `ImplementsSlotPool` | holds |
| `runs_small_gpu` | two chats share one slot, one level; forks and the store may fail | `LiveChildHoldsSlot`: a working child is the one the registry counts | holds |
| `runs_liveness` | one chat, one child, three runs; forks and the store may fail, prompts may stay unanswered | `SlotsComeBack`, `RunsEnd` | holds |
| `residency_liveness` | the panel turning between two models with late and cut-off lists, lost answers and false unloads, or a run asking for one while sweep, panel, stops and exits disturb it as well | `EveryRequestEnds`, `CacheIsPutRight` | holds |
| `approvals_all` | two runs, two prompts, one question, one operator, stops at any step | `RefusedByItsOwn`, `RunsOnWhatWasAllowed`, `EveryPromptIsAwaited`, `DeliveredIsHeard`, `StopDismissesPrompt` | holds |
| `approvals_late_prompt` | one run, one prompt | `StopLeavesNoPrompt` | violated by the code |
| `turn_loop` | a dashboard turn of two rounds, two calls each, every correction | `RoundsInOrder`, `AskedInThisTurn`, `TurnEnds` | holds |
| `turn_loop_request` | four rounds, of which compaction keeps two | `RequestSurvives` | violated by the code |
| `services` | two callers, two saves, two processes; one part per behaviour | `ProcessesOwned`, `NothingStale`, `RequestsEnd` | holds |
| `records` | two of each actor, one writer of mirrors; one part per behaviour | `DiscardBringsBack`, `RecordsStay`, `NothingStranded`, `SearchFindsWhole`, `StoreIsWhole` | holds |
| `desk` | two models, one editor and one starter, two chats, two folders; one part per behaviour | `ModelsFit`, `KeptAsSet`, `RunsKeepFaith` | holds |
| `workbench` | small files, trees, plans, replies, texts, questions; one part per behaviour | `ShownIsThere`, `ActsAsAsked` | holds |

Every passing safety run has its `TypeOK` too.

### Bounds and why they are enough

* Registry: the interesting cases need a chat that finds the pool full, a child below a child (`MaxDepth` 2), and a record that
  carried two runs while a third is reported late. One slot is full with one child. `MailBound` bounds steering notes in a
  mailbox: messages do not influence the other maps.
* Runs: three run ids are a parent, its child and one more: a second parent, or a second turn of the child or the chat.
  `MaxRounds` = 1 has a round with a tool call and an answer; the round loop repeats itself.
* Turn loop: two rounds with `KeepRounds` 1 let compaction cut between them, two calls show one answered before a
  failure and one after; `EscalateAt` 1 brings the fallback at the first failed step. The theorems of section 4 have
  no bound. `turn_loop_request` has the code's own `KeepRounds` of 2, and the rounds it takes to compact twice.
* Approvals: a run has one prompt or question at a time, so two runs, a prompt each or two of one run, and one question
  that only one of them has meet every race. Ids are never reused, so a run that finds none left stays at its call.
* Residency: a model that needs the card alone and one that shares it, so each turn from one to the other is an admission with
  an eviction. `MaxPasses` is the code's own limit. Under disturbance one model and one run are enough for a request to meet
  every other step; requests that wait for each other's lock are in the module and not in the run. That what was admitted fits
  the card, and that a request told "ready" has its model, are not stated: the code does not keep them (section 6).
* `services`: `MaxSpawns` 2, a process and the one that replaces it; `MaxRequests` 2, an answer that is awaited and one that is
  late; `MaxSaid` 2 over `MaxLines` 1, the line that is dropped; `MaxSaves` 2, one version read and one
  newer. One job and the watcher thread's are two readers of the document; `records` has two jobs and the watcher.
* `records`: `MaxTurns`, `MaxLives`, `Readers`, `Jobs`, `Windows`, `Clients` are two, one before and one in between; two
  memory roots, so that one is moved away from and back; two `Texts`, one of them empty; `MaxKeys` 2 lets a key be replaced, and
  the one write (`MaxWrites`) may fall before, during and after a sealing; `PageCount` and `OcrLimit` 2 have a page that
  is read and one that is not; `Builds` 2 an older pipeline. One name, place and chat of a project are enough, as the steps of
  one project never read another's except for the place, which an added one shares.
* `desk`: `MaxWindow` 2 is a window that fits and one that does not; one edit (`MaxEdits`) against one start of a router; two chats, two
  ids of memories, two turns and one edit of the operator (`MaxTalks`, `MaxStrokes`); `MaxChanges` 2 changes of
  settings or disk under a check.
* `workbench`: three writings (`MaxArtifacts`) replace a file twice, two mishaps hit a write and its check; three plans revise one
  twice; three listeners and two troubles let a port be taken, lost and taken again; `Longest` 10 over `Chunk` 9 and `Overlap` 2
  cut a text twice at every place; three frames of a stream have a border inside and after a character; `Limit` 2 of three passages
  drops one. `Spots`, `Rels` and `Patterns` are a folder with a child of its own name, one that may be a file or a link, and a folder outside.

Constants that switch behaviour on: `ForkErrors` (the model names a history fork the parser refuses) and `StoreFaults` (the
query for a chat's attachments fails), both on in both runs of the subagents; `Measures` (nvidia-smi answers) and
`Disturbed` (the sweep, the panel, failing unloads, stops and exits change residency under a request), each on in one half of
`residency_liveness`. That lists arrive late, answers are lost and unloads are reported that did not happen has no switch.

Behaviour that is in a model but not followed once it happened: an edit of the catalogue or a write of a memory that crossed
another (`crossed`, `mixed` in `MCDesk`), servings of one folder that crossed (`tangled` in `MCWorkbench`), and a search that is over. In each the
code really loses something, which section 6 lists; the properties are stated of the rest.

Where the code breaks a promise inside a behaviour that is followed, the property names the case and holds the code to its edge: a
mirror sealed under a key of crossed commands or outside the folders a disable saw (`crossed`, `strayed`), a change whose first write
found a file and whose last found none or the other way round (`Turned`), a receipt an opening core has read as running
(`ReadAsRunning`), a target whose swap stopped half way (`gap`) or before its row (`unlisted`), an answer between the last look at a
channel and its drop (`elapsed`), a folder served when the core was closed (`exited`). Section 6 has each of them with the words it
contradicts. An artifact the operator changed outside (`touched`) is exempt without any promise being broken.

`CHECK_DEADLOCK FALSE` is said where the bounded model may stop: all ids, saves or turns are used up, the router is gone, or the
search is over. `Approvals` and `TurnLoop` are checked for deadlock: the operator may always change the policy, and a finished
turn has a step that leaves everything as it is.

Symmetry is used for safety only, over chats (`registry`, `runs_small_gpu`), chats and memory ids (`desk`), folders,
workspaces and serving tasks (`workbench`), and in `records` over the swap of both cores, windows, runs, jobs and readers at
once, which is enough as one part moves. Subagent, run and process ids are given out in order, so they are not symmetric.

### Fairness

Runs, the supervisor, requests, starts, calls, commands and jobs are tokio tasks or threads that run until they end; each
network wait in them has a timeout (the router's client gives up after 600 s); a cancellation and an answer are straight-line
code. That is weak fairness of a task's next step: `SubagentRuns!FairSpec`, `Approvals!FairSpec`, `TurnLoop!FairSpec` (`Work`),
`MCServices` (`TaskStep`, `SaveStep`). None of them covers a call that stands at the approval gate, because `ask_permission`
has no deadline (`state.rs:671-704`): no step that needs the operator is fair. What a run's end owes to the operator is
a hypothesis of the property instead, and no stronger than needed: `RunsEnd` asks that this run's own prompts are answered, `SlotsComeBack`
that those of the child's runs are, `TurnEnds` that those of the turn are; whatever other runs ask may stay open for ever.

Deadlines pass: weak fairness of `Clock`. Stronger, because other steps keep coming in between:

* the load timeout in `MCModelResidency`, which passes although the polling loop goes on, and in `ModelResidency!FairSpec` the two async locks,
  as tokio mutexes serve their waiters in order (the run has one request, so it does not need the latter);
* a watcher thread (`MCServices`), which sleeps and looks again whatever the jobs do.

`EveryRequestEnds` assumes nothing of what the router answers. `CacheIsPutRight` assumes that a poller's refreshes come through
(`ListsComeThrough`: the list is read again and again, and a newly resident model asked for its window often enough tells it), and speaks of
routers that have a poller.

The exit watcher is a loop of its own, as is the poller once its refreshes come through: weak fairness. The operator, the router, MCP servers,
development servers and sandboxed programs are assumed to do nothing at all: no prompt is ever answered, no load ends and no
program exits unless a step does it.

## 4. What is proved

Each theorem holds for every value of the constants that meets the named assumption; the runs above
show the same formulas on their instances.

**`SubagentRegistry_proofs`**, from `IdAssumption` and `LimitAssumption` (None is no id, chats and subagents differ, limits are
positive), for any number of chats, subagents and runs, finite or not:

* `TypeCorrect`: the maps keep their types.
* `SlotPoolImplemented`: the registry refines the slot pool. Every method either takes one slot that was free (reserve, restart), leaves
  the live set smaller or equal, or moves the limit.
* `CapacityHolds`: live subagents never outnumber the clamp. Inductive with `SlotsCounted`: a cardinality grows by one only if
  the set is finite, so finiteness is part of the invariant.
* `RunsFound`: `run_to_agent` leads back to the record of each live run. Inductive with `RunsLinked`: the runs on records are runs
  that were issued, so a fresh run id cannot be one of them.
* `DeliveredAtMostOnce`: inductive with `CompletionsSpent`: a record that still carries a delivered run is not live, and a
  restart clears the run.
* `PendingIsFree`: an id chosen for a child is still free when its record is made.
* `TreeWellFormed`: depths and chats along the parent link, through deletion of chats.
* `StopNeverUndone`: the action property `StopIsKept`.

**`SubagentRuns_proofs`**, from `RunsAssumption`, for any number of chats, children and slots:

* `TypeCorrect` and `OneTurnAtATime`: a session never has two registered turns. The invariant is `Arranged`: one turn per session, what asks is a known
  agent (`AskersKnown`), a queued request has its child waiting (`RequestsWait`), the desk holds the head of the queue (`DeskServesHead`), and
  the chat a run works for is there while the run is (`ChatsKept`).
* `RegistryImplemented`: every step of runs, supervisor and operator is a step of the registry or leaves it alone, so every theorem
  above holds of the registry as the runs use it.
* `OneSlotIsHeld`: with one slot (`MaxAgents` = 1), `LiveChildHoldsSlot`. Its invariant `Alone` says the limit is one, whoever waits for a
  launch is a chat's own turn (`RootsAsk`), and no run works in the awaited child but the one on the desk (`NobodyYet`). One slot is a hypothesis because the code needs it: with two, a launch
  that was refused late marks a restarted child Failed (`agent.rs:5306`), which TLC shows.

**`TurnLoop_proofs`**, from `TurnAssumption`, for any number of rounds, calls in a reply, corrections, steers and earlier turns. The
assumption says of an earlier turn only that what comes back of it are user messages and answers without calls, which is what
the stored transcript holds. `TurnInv` is the type invariant with `Counts` (how many requests each phase may have spent), `Begins` (what
is on record at each phase) and `Conversation` (the prompt opens it, each call has its result in place up to those pending, and the
last words of this turn come after all that is left of earlier turns until a summary has failed):

* `TurnTyped`; `RequestsInOrder`: each request has every call answered once and in place, and is bounded, and a held write is raised before
  the answer; `AskedAllAlong`: the question is on record before a model is asked, and every request has words of this turn after whatever
  is left of earlier ones, as long as no summary failed. These are the operator's request or a later note of the loop or of a parent: that
  they are the request itself is what `turn_loop_request` refutes.

**`Approvals_proofs`**, from `ApprovalsAssumption`, for any number of runs, tools, prompts and questions and any assignment of risks:

* `TypeCorrect`, inductive with `AskingForATool`: an AllowSession answer puts the run's tool among the grants, so a run that
  asks must be at a tool's call.
* `AllowedOnlyByTheOperator`, `StopRefusesItsOwn`, `NothingLeftOnScreen`, `AnswersHeard`: the four safety invariants of the run
  `approvals_all`, by the invariant `Linked`. `PromptsOwned` says that what a waiting run waits for was put up for it; `EntriesOpen` that
  an entry of a table has its run waiting and nothing on its channel (so no entry is answered twice); `RepliesSent` that
  what allows is what the operator said and that nothing precedes the prompt; `StopsFlagged` that a cancellation holds
  prompts of its own, flagged run only. `AnswersHeard` is about the states where a run is about to report that nobody answered:
  an answer told to be delivered is not there, neither when the wait ends nor when the channel is gone. The answer that falls between
  the two is reported delivered and discarded (section 6).

**`KnowledgeIndex_proofs`**, for any finite number of jobs, watchers and saves (`Bounded`): `IndexGoesOn`, that `IndexInv` survives every step. It is the
type invariant, `RowsMade` (what a job's copy of the row holds at each step), and the two properties of search. That a new row finds an unused id
is a counting argument: there are as many ids as steps that can use one up. As the module is used by INSTANCE in two composites, the
theorem is about a step and is cited from both.

**`MCServices_proofs`**, from `ServicesAssumption` (finitely many callers, saves and jobs, callers and saves distinct, at least one configuration,
natural bounds): `ServicesTyped`, `ProcessesOwnedAlways`, `NothingStaleAlways`, by `ServicesInv`, one conjunct per part, each kept by
its own part's steps and untouched by the others':

* `DevInv`: processes are numbered in order, nothing runs but what an entry, a start or a kill closure holds, and each process shown or
  alive has a watcher that has not reported.
* `McpInv`: a slot a call holds is the pool's and not retired, and one that reconcile holds is retired (`Placed`); only the pool's
  unretired slot has a connection, ids on its wire never exceed the last one asked, and the answer with the awaited id is
  to the awaited request (`Connected`). From it, no call ever takes the answer to another request. A spare slot exists by counting.
* `CmdInv`: lines counted, handles and rows known at each step of the command; `WaitInv`: whoever has read a
  child found it at work or has been woken since.

**`MCRecords_proofs`**, from `RecordsAssumption` (a text is not one of the words for a missing or unseen file and some text is not empty; bounds are
natural; a project's path is no other project's; a memory root, a draft and finitely many jobs are there), for any number of runs, cores,
windows, readers and projects. `WholeInv` has one conjunct per part, kept by that part's steps:

* `SearchFindsWholeAlways`, carried over from `IndexGoesOn`; `RecordsTyped`, the types of all seven parts.
* `DiscardBringsBackAlways`, by `ChangeInv`: an entry's old text is the contents of what the run found before its first write, its new
  text what it wrote last, and a tool that stands at the gate knows the text it read.
* `StoreIsWholeAlways`, by `OpenInv` (a core that opens is no further than the store; tables and columns are those of the version),
  `ReadInv` (each reader accounts for every page: read, thin, silent or noted) and `FolderInv` (a create has its directory to itself
  until it has registered; an own folder that is registered has all its files). The fourteen migrations are compared table by table in `MigrationsFit`.
* `NothingStrandedAlways`, by `RecordInv` (a life belongs to one core, a working turn has its running receipt, a subagent at work is held by
  a turn that will attach or has) and `KeyInv`: a key is made once; an envelope's key is the state file's, unless that key was crossed or
  the mirror strayed; and what a restore of an uncrossed key has yet to do includes every envelope it saw, unless a file was passed over.
* `RecordsStayAlways`, the four action properties of receipts, mirrors, project files and kept conversations, by the same invariants and
  `CopyInv`: before a copy of a mirror is removed the other is whole, unless the command was crossed.

They hold for any number of windows and wherever the memory root is moved, without a hypothesis on the operator: the two cases in which
the vault breaks its word are named in the properties by the histories `crossed` and `strayed` (section 3), as is the receipt that settles
after an opening core has read it. What the proofs add to the runs is that nothing else is lost.

**`MCDesk_proofs`**, from `DeskAssumption` (the two models differ, the words "none" and "token" name no model, chat, memory or directory,
"A" and "B" are directories, `MaxWindow` is positive, the other bounds are natural), for any number of editors, starters, directories,
chats, workspaces and memories and any bounds; the gate is the instance of `MCDesk`, a store, a project and three paths to
them. `WholeInv` has one conjunct per part:

* `DeskTyped`: the types of catalogue and conversations.
* `ModelsFitAlways`: a turn is given only to a model with the tools it needs and fits that model's window, by `WindowsTell`: a window that is
  shown is the one the router's process runs.
* `KeptAsSetAlways`: by `FileTells` and `OneMoves` (only one client moves the directory, and what it read is still what the file says), by
  `ToldInv` (the question of a turn is the last row until its answer, unless the operator cut the chat), and by `GatedInv`, which says at
  each step of a check what its rows, its findings and its verdict owe to what was there all along (`steady`) or at any time (`ever`), and that the panel
  shows the folders as set or a check that will show them is under way (`ShownSoon`).
* `RunsKeepFaithAlways`, the two action properties of memories, by `FoundStill`: what each lookup of a capture found is so until it writes, or
  another write crossed it.

As in the run, behaviours are not followed past an edit or a write that crossed another (`crossed`, `mixed`).

## 5. What is only model-checked

* Liveness (`SlotsComeBack`, `RunsEnd`, `EveryRequestEnds`, `CacheIsPutRight`, `StopDismissesPrompt`, `TurnEnds`, `RequestsEnd`): the prover does
  not reason about fairness.
* What a definition by recursion or a fold over data computes for every input: the passages cut from a text, the ranking of a
  search, the resolution of a path.
* The properties of the run `workbench` (`TypeOK`, `ShownIsThere`, `ActsAsAsked`): most of what they say is about such data.
* Residency (`ModelResidency`) altogether: what is checked of it is liveness.
* `LiveChildHoldsSlot` with two slots or more is not kept by the code.

## 6. Where the code and its words disagree

Shown by a run (TLC prints the traces, which are short):

* `approvals_late_prompt`: a prompt put in the table just after `cancel_run` listed the run's prompts is rejected by nobody; the
  cancelled run waits until the operator answers or presses Stop again (`state.rs:680`).
* `turn_loop_request`: compaction keeps the last user message of the part it drops, and the loop adds user messages of its own; after a
  correction it is the note that stays and the operator's request goes into the digest (`agent.rs:7405`), against "the one message whose
  exact wording is not negotiable" (`agent.rs:10561`), what the model is told at 7380 and the test at 10638, which has no note in it. The same
  after a failed summary, without any note: the lifted request is put in front of older turns (`agent.rs:7496`), whose message is lifted next.

Met in the models' behaviours or while reading the code, without a run of their own:

**Runs and registry**
* `forked_parent_context` fails after `reserve` and outside the path that gives the reservation back (`agent.rs:5268`); the Pending child
  holds its slot until its chat is deleted. `SlotsComeBack` names it (`forgotten`): no other reservation is lost.
* A child or turn that stands at the gate holds its slot and its run until the operator answers or stops it: by design (`state.rs:671`), and the
  reason why no fairness of the models covers it.
* A stopped reservation continued by a sibling is started by its first, still queued launch; the second launch's refusal marks the running
  child Failed and frees its slot (`agent.rs:5306`, against `docs/SUBAGENT-VALIDATION.md:11`).
* A child cancelled with its parent ends as Failed: the note of a stopped run does not contain the word `complete_run` looks for
  (`agent.rs:9167`, `multi_agent.rs:232`).
* Steering a child whose launch is queued makes it Running, and its launch is then refused (`multi_agent.rs:352`, 165). A steering
  message accepted in a child's last round is not read in that turn (`agent.rs:7620`).
* A `start` that fails on the attachments query, or an `observe` that fails, leaves the receipt running and the run in `AppState.runs`
  (`agent.rs:9094`); that session refuses turns until a restart (`evidence.rs:58`). `RunsEnd` names it ("leaked"). A follow-up between a child's report and its `agent://done` is refused by the receipt and marks the idle child Failed.
* Stop on a parent passes over children whose launch is queued and, below children that have ended, their descendants
  (`multi_agent.rs:327`); Stop between `attach_run` and `register_run` is lost (`agent.rs:9084`).

**Approvals**
* `answer_question` returns true for an answer it sends after the receiver's timeout has looked at the channel for the last time and before it
  drops it (`state.rs:739`): the operator is told it was delivered, and the run that nobody answered. `state.rs:755` promises false for a question
  that has timed out. `DeliveredIsHeard` excepts this one answer (phase `elapsed`).

**Turn loop**
* A call held by `require_grounding` is audited as "denied", and `workflow_gaps` then waives what the operator never refused.
* A dashboard turn whose workbook cannot be read fails before the operator's message is stored (`agent.rs:8345`), so that failure is on record
  without its question; `AskedOnRecord` is about turns that asked a model.

**Residency and catalogue**
* Two runs that want one absent model count each other's note as a resident model, and both may be refused on an empty card
  (`router.rs:1201`). The memory recorded for a model that replaced another is the difference of the two (`router.rs:969`, 1061).
* Outside `model_load_lock`: the sweep and the panel unload under a request (`state.rs:305`), the sweep evicts a model a run noted after
  the victims were picked (`router.rs:516`, 541), admission evicts a model another run took by the fast path (`router.rs:1223`), a
  failed unload marks a Loading model Loaded (`router.rs:1092`), a late poller answer overwrites a newer state (`router.rs:830`),
  and the watcher leaves Loading entries (`router.rs:401`).
* So what was admitted need not fit what the router really holds (`router.rs:1128`), and a request may be told that a model is ready which is
  being unloaded (`router.rs:941`): neither is stated as a property, since the code does not keep it. A load whose answer is lost after the router
  took it is shown as Unloaded once the list does not show it, and may come up later beside another (`router.rs:990-1006`).
* A model that does not tell its window ends the refresh (`router.rs:820-828`): it is not shown as loaded, and what follows it in the list is not
  applied. A start whose first refresh fails returns with the router up and no poller (`router.rs:453`), and later starts find it answering and
  return, so the cache is put right only by the looks of loads from then on.
* Two overlapping starts of a router kill each other's (`router.rs:265`, 425), and the watcher of a replaced process clears the new handle (`router.rs:400`).
* `settings_set` reads models.json and swaps the catalogue later without the lock (`api.rs:930`, 949), so an edit in between is lost or
  stored with the other directory's paths. `route` returns a rule whose model was disabled later.

**Services**
* A restart with another command while the first start is starting acts on the new entry; an old process's watcher marks the new entry Failed; the
  `stopping` flag is never seen set (`devserver.rs`).
* A call that holds an older configuration opens a slot again after reconcile removed it (`mcp.rs:314`, 296), and reconcile waits for a busy server.
* A Stop during `wait_for_exit` is recorded "exited" (`sandbox.rs`, comment near 890); a failing `insert_sandbox_run` leaves handle and process
  unwatched; `kill` on a handle a deadline took says the command had already finished; the flush ignores `MAX_LINES`.
* Overlapping jobs may leave the older extraction (`db.rs`, comment near 2428); a removal under a job brings back a row "indexed" without passages; two first
  jobs get different ids and one fails its foreign key; a crash leaves "indexing" and "queued" rows nothing reaps; off and on again in
  one period leaves two watcher threads; edits of the same size are ignored, and a failed read is not retried.

**Passages and retrieval**
* `split_point` slices its window at a byte that may lie inside a character (`knowledge.rs:93`) before it comes to the loop that would move the cut
  forward "so the string stays valid UTF-8" (103-104): the task or the search panics. The model has it as `Panic`, and `WordsAreWhole` is about what
  was cut by then.
* The overlap is counted before trimming, so a tail after a mostly blank one is dropped as short; later blocks below sixty characters are
  dropped; the last fallback of `passages_for` is dead code.
* `fts_query` makes a blank term of joiners that stand alone, and FTS5 refuses it: that half is silently empty. Stored vectors of another
  width make the other half silently empty. Embeddings without a number keep the order of arrival.
* `read_stream` decodes each chunk lossily, so a character across a border becomes U+FFFD. Calls harvested in JSON form are not checked for required arguments.

**File changes, artifacts, tools**
* A file a run created and then edited is discarded to an empty file instead of none, and one it found, removed and made again is discarded
  to nothing (`agent.rs:9466-9471`, 9501-9513): the entry's text is that of the first change and its status that of the last. `DiscardBringsBack`
  says that the file is as the run found it in every other case (`Turned`). A write overwrites what another wrote while it stood at
  the gate (`agent.rs:5979`).
* `write_atomic` removes the target before the rename, so a failure or crash in between loses the old file, although the comment at
  `artifacts.rs:276-278` has the path untouched and the error at 307 says that the existing file is unchanged. `RowsMatchFiles` allows that
  loss (`gap`) and no other. A crash or a failed query before the row leaves an older, perhaps verified row over new bytes (`unlisted`);
  `verify` returns before it stores when parsing fails; `amend_note` writes back a verdict that may be stale; `open` requires the global
  root even for a project's artifact.
* Rules and path are checked before the gate and not at the write, unlike `apply_change` (`agent.rs:9330`); `read_text` re-verifies before it
  opens (`fsops.rs:942`); a rule inside a served folder or phrased through a link is not applied; `open_default` admits more than `reveal`,
  although its comment says the same (`fsops.rs:1228`); the gate shows "npm run dev" when no command is named, and no rule is asked about the
  discovered one; `search_workspace` finds nothing in a folder named like a skipped one (`agent.rs:5030`).
* A plan that repeats a step's text gives both rows one id at the next revision (`state.rs:133`).

**Store and records**
* `open` marks runs and subagent rows of a live second core interrupted, while `evidence.rs:68` says a second window must not; "stopping" is not
  among them; the reaper reads the running receipts, checks each owner and then writes "interrupted" whatever the row says by then
  (`evidence.rs:69-76`), so a receipt that settles in between, and whose core ends, is overwritten (`ReadAsRunning` excepts it); `begin` checks and inserts in two statements; a late persist of an older snapshot overwrites a completed row (`multi_agent.rs:490`).
* Of two first opens at once the loser's migration fails and its open errors.
* Disabling the vault does not rebuild transcripts (`harness.rs:1015`, 1039); "no writer can race this seal" (`vault.rs:419`) is not so.
* "Never sealed files with no way back" (`vault.rs:31-37`, 454-457) is broken twice. Two windows that enable at once: the later state file hides the key of the
  earlier, and of two commands under way together one may remove the copy the other counts on (`crossed`). A memory root that moved while the
  vault was on: the old root's envelopes are not seen by the disable that removes the state file (`strayed`). `NothingStranded` and `CopyStays`
  except exactly these, and are proved for the rest.
* `xlsx_extract` opens the file again by path, so its cells may be newer than the recorded hash; native PDF pages without text are dropped
  without a note (`documents.rs:2147`); a page whose reply is only the prompt's example row counts as read; an older slow ingest may
  overwrite the record of newer content.
* Two creates of one location and different names: the second returns an id that is not registered. A crash or failure in a create leaves a directory
  that keeps its name taken. The removal of an added project never empties its metadata directory (`harness.rs:980`, 119). A turn checked
  before a removal makes its chat again, bound to the removed project.

**Conversations**
* Deleting a project drops child threads of kept chats; deleting a chat leaves child receipts, mirrors and rollout files, and a child started around it
  brings the session back.
* A capture's three lookups take the lock one by one, so two captures of one title at once duplicate a memory; a memory captured around a chat's deletion outlives it; a turn whose
  window shows no project captures globally though its chat is bound; deleting the chat that refined a memory last drops it though
  another made it. Truncation reuses ordinals, although a comment of `db.rs` says they never are.

**Previews and the store gate**
* Two servings of one folder at once leak a listener; stopping a shared one leaves another workspace's entry Running; `restore_all` works on a
  snapshot; a failed row leaves the old port.
* A clean exit stops every entry as the operator would, which deletes every row (`main.rs:301`, `devserver.rs:686`), so nothing is restored after it,
  against `preview.rs:22-26`, where every binding is persisted and re-bound at startup. `ComesBack` says both: after a crash the folder comes
  back, after an exit it stays away.
* A failing insert of the gate's row is dropped (`sovereign.rs:884`); a target that cannot be opened is reported as under no sync root without
  a comparison; roots are read before the folders and not again; an older report published late replaces a newer one (`src/src/context/AppContext.tsx:1146`).

## 7. Plan

The models follow the plan to its end: the core first, then services, records, desk and workbench. What is left are proofs,
in this order:

1. `MCWorkbench`: `ActsAsAsked`, and the parts of `ShownIsThere` that are not about data (artifacts, previews, tool calls).
2. `ModelResidency` for any set of models: which safety of the cache and the locks is left under late lists, lost answers and false unloads.
