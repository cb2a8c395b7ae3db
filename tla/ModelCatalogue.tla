---------------------------- MODULE ModelCatalogue ----------------------------
(***************************************************************************)
(* The model catalogue: what the operator says of each model, in memory    *)
(* and in models.json, the routes, and the windows models run with.        *)
(*                                                                         *)
(* An edit reads the models directory from the settings, then changes a    *)
(* copy under the registry's lock, stores it and puts it in place.  A move *)
(* of the directory reads the file, saves the settings and puts the        *)
(* catalogue in place later, without the lock in between.  A router is     *)
(* started on a preset rendered from the catalogue, and the window of a    *)
(* model is an estimate until the router has been asked.                   *)
(***************************************************************************)
EXTENDS Naturals, FiniteSets

CONSTANTS
    Editors,     \* callers of the commands that change the catalogue
    Starters,    \* callers that start a router
    Models,      \* ids
    Kinds,       \* kinds of task with a route
    Shapes,      \* what an entry may be: [on, caps, size]
    Directories, \* models directories
    MaxWindow,   \* windows, in units of the smallest that matters
    MaxEdits     \* bound: edits that are tried

VARIABLES
    catalogue,   \* Registry: entries and routes
    stored,      \* models.json
    root,        \* settings.models_directory
    window,      \* ctx_override, 0 where there is none
    present,     \* models whose weights are on disk
    router,      \* the process: its preset and the windows of what it holds
    shown,       \* models the cache shows as loaded
    looking,     \* the model refresh_models has just recorded
    client,      \* each command and its step
    edits,       \* edits tried so far
    crossed      \* history: a move or a stop fell into an edit or a look
vars == <<catalogue, stored, root, window, present, router, shown, looking, client,
          edits, crossed>>

None == "none"
Absent == [under |-> None]
Windows == 1 .. MaxWindow
NoWindows == [m \in Models |-> 0]
Down == [up |-> FALSE, preset |-> [m \in Models |-> Absent], runs |-> NoWindows]
Idle == [at |-> "idle"]
Clients == Editors \union Starters
At(c, step) == client[c].at = step
Goto(c, next) == client' = [client EXCEPT ![c] = next]
Return(c) == Goto(c, Idle)

Entry == [shape : Shapes, limit : 0 .. MaxWindow, under : Directories]
Listed(m) == catalogue.entries[m] # Absent
Able(m, cap) ==
    Listed(m) /\ LET shape == catalogue.entries[m].shape IN shape.on /\ cap \in shape.caps

(* The manual limit, or the fallback of the automatic mode.                *)
Configured(entry) == IF entry.limit # 0 THEN entry.limit ELSE entry.shape.size
Window(m) ==
    IF window[m] # 0 THEN window[m]
    ELSE IF Listed(m) THEN Configured(catalogue.entries[m]) ELSE 0
Fits(m, tokens) == Listed(m) /\ tokens <= Window(m)

-----------------------------------------------------------------------------
(* models.json holds a token for the models directory.                     *)
Portable(c, dir) == [c EXCEPT !.entries = [m \in Models |->
    IF c.entries[m].under = dir THEN [c.entries[m] EXCEPT !.under = "token"]
    ELSE c.entries[m]]]
ExpandedNowhere(c, dir) == c
Expanded(c, dir) == [c EXCEPT !.entries = [m \in Models |->
    IF c.entries[m].under = "token" THEN [c.entries[m] EXCEPT !.under = dir]
    ELSE c.entries[m]]]

Init ==
    /\ root = CHOOSE dir \in Directories : TRUE
    /\ LET shape == CHOOSE shape \in Shapes : shape.on
           first == CHOOSE m \in Models : TRUE
       IN  catalogue = [entries |-> [m \in Models |->
                            [shape |-> shape, limit |-> 0, under |-> root]],
                        routes |-> [k \in Kinds |-> [model |-> first, fallback |-> None]]]
    /\ stored = Portable(catalogue, root)
    /\ window = NoWindows /\ present \in SUBSET Models
    /\ router = Down /\ shown = {} /\ looking = None
    /\ client = [c \in Clients |-> Idle] /\ edits = 0 /\ crossed = FALSE

(* A command that edits the catalogue reads the settings first.            *)
BeginEdit(c) ==
    /\ At(c, "idle") /\ edits < MaxEdits /\ edits' = edits + 1
    /\ Goto(c, [at |-> "edit", dir |-> root])
    /\ UNCHANGED <<catalogue, stored, root, window, present, router, shown, looking, crossed>>

(* persist writes beside the file and renames; only then is the copy put   *)
(* in place.  The windows of what is loaded stay.                          *)
KeptWithoutWindow(c, next) ==
    /\ catalogue' = next /\ stored' = Portable(next, client[c].dir)
    /\ window' = [m \in Models |->
           IF next.entries[m] = catalogue.entries[m] THEN window[m] ELSE 0]

Kept(c, next) ==
    /\ \/ catalogue' = next /\ stored' = Portable(next, client[c].dir)
       \/ UNCHANGED <<catalogue, stored>>
    /\ UNCHANGED window

Moving == {c \in Clients : client[c].at \in {"save", "collect", "swap"}}

Edit(c, next) ==
    /\ At(c, "edit") /\ Return(c)
    /\ Kept(c, next)
    /\ crossed' = (crossed \/ Moving # {} \/ client[c].dir # root)
    /\ UNCHANGED <<root, present, router, shown, looking, edits>>

(* upsert_local_model, set_context.                                        *)
Upsert(c, m, entry) == Edit(c, [catalogue EXCEPT !.entries[m] = entry])
SetContext(c, m, limit) ==
    Listed(m) /\ Upsert(c, m, [catalogue.entries[m] EXCEPT !.limit = limit])

(* set_route: both models able, and different.                             *)
SetRoute(c, kind, m, fallback) ==
    /\ Able(m, kind) /\ fallback # m /\ (fallback # None => Able(fallback, kind))
    /\ Edit(c, [catalogue EXCEPT !.routes[kind] = [model |-> m, fallback |-> fallback]])

-----------------------------------------------------------------------------
(* settings_set with another models directory: the file is read as it is   *)
(* now, the settings are saved, the windows of what is loaded are          *)
(* collected, and the catalogue is put in place.                           *)
BeginMove(c, dir) ==
    /\ At(c, "idle") /\ dir # root
    /\ Goto(c, [at |-> "save", dir |-> dir, read |-> Expanded(stored, dir)])
    /\ crossed' = (crossed \/ Moving # {})
    /\ UNCHANGED <<catalogue, stored, root, window, present, router, shown, looking, edits>>

SaveSettings(c) ==
    /\ At(c, "save")
    /\ \/ root' = client[c].dir /\ Goto(c, [client[c] EXCEPT !.at = "collect"])
       \/ Return(c) /\ UNCHANGED root
    /\ UNCHANGED <<catalogue, stored, window, present, router, shown, looking, edits, crossed>>

LoadedWindows == [m \in Models |-> IF m \in shown THEN Window(m) ELSE 0]

Collect(c) ==
    /\ At(c, "collect")
    /\ Goto(c, [at |-> "swap", dir |-> client[c].dir, read |-> client[c].read,
                windows |-> LoadedWindows])
    /\ UNCHANGED <<catalogue, stored, root, window, present, router, shown, looking,
                   edits, crossed>>

Swap(c) ==
    /\ At(c, "swap") /\ Return(c)
    /\ catalogue' = client[c].read /\ window' = client[c].windows
    /\ crossed' = (crossed \/ looking # None \/ client[c].windows # LoadedWindows)
    /\ UNCHANGED <<stored, root, present, router, shown, looking, edits>>

-----------------------------------------------------------------------------
(* write_preset_ini: the entries are read, the file is rendered from those *)
(* that can be launched, and the estimates are recorded unless a router    *)
(* runs.  An estimate is the configured window or, in the automatic mode,  *)
(* a larger one.                                                           *)
ReadEntries(c) ==
    /\ At(c, "idle") /\ ~router.up
    /\ Goto(c, [at |-> "preset", entries |-> catalogue.entries])
    /\ UNCHANGED <<catalogue, stored, root, window, present, router, shown, looking,
                   edits, crossed>>

Launchable(m, entry) == entry # Absent /\ entry.shape.on /\ m \in present

Estimates(entries) ==
    {w \in [Models -> 0 .. MaxWindow] : \A m \in Models :
        w[m] # 0 => /\ Launchable(m, entries[m]) /\ entries[m].limit = 0
                    /\ w[m] > entries[m].shape.size}

WritePreset(c) ==
    /\ At(c, "preset")
    /\ Goto(c, [at |-> "spawn", preset |-> [m \in Models |->
           IF Launchable(m, client[c].entries[m]) THEN client[c].entries[m] ELSE Absent]])
    /\ IF router.up THEN UNCHANGED window ELSE window' \in Estimates(client[c].entries)
    /\ UNCHANGED <<catalogue, stored, root, present, router, shown, looking, edits, crossed>>

(* The handle of the process that is there is replaced, and the process    *)
(* with it.                                                                *)
Spawn(c) ==
    /\ At(c, "spawn") /\ Return(c)
    /\ \/ /\ router' = [up |-> TRUE, preset |-> client[c].preset, runs |-> NoWindows]
          /\ crossed' = (crossed \/ router.up)
       \/ UNCHANGED <<router, crossed>>
    /\ UNCHANGED <<catalogue, stored, root, window, present, shown, looking, edits>>

(* Stopped by the operator, or gone: nothing is shown as loaded.           *)
Stop ==
    /\ router.up /\ router' = Down /\ shown' = {}
    /\ crossed' = (crossed \/ looking # None)
    /\ UNCHANGED <<catalogue, stored, root, window, present, looking, client, edits>>

(* llama-server loads what its preset has, with the manual window or with  *)
(* one it fits itself.                                                     *)
Load(m) ==
    /\ router.up /\ router.preset[m] # Absent /\ router.runs[m] = 0
    /\ \E w \in Windows :
         /\ router.preset[m].limit \in {0, w}
         /\ router' = [router EXCEPT !.runs[m] = w]
    /\ UNCHANGED <<catalogue, stored, root, window, present, shown, looking, client,
                   edits, crossed>>

(* refresh_models: the window it reports is recorded, then it is shown.    *)
Record(m) ==
    /\ looking = None /\ router.runs[m] # 0 /\ m \notin shown
    /\ window' = [window EXCEPT ![m] = router.runs[m]] /\ looking' = m
    /\ UNCHANGED <<catalogue, stored, root, present, router, shown, client, edits, crossed>>

Show ==
    /\ looking # None
    /\ shown' = shown \union {looking} /\ looking' = None
    /\ UNCHANGED <<catalogue, stored, root, window, present, router, client, edits, crossed>>

Unload(m) ==
    /\ m \in shown
    /\ shown' = shown \ {m} /\ router' = [router EXCEPT !.runs[m] = 0]
    /\ UNCHANGED <<catalogue, stored, root, window, present, looking, client, edits, crossed>>

(* The core dies; the next one reads the file and the settings.            *)
Restart ==
    /\ catalogue' = Expanded(stored, root) /\ window' = NoWindows
    /\ router' = Down /\ shown' = {} /\ looking' = None
    /\ client' = [c \in Clients |-> Idle]
    /\ UNCHANGED <<stored, root, present, edits, crossed>>

Edits(c) ==
    \/ BeginEdit(c) \/ SaveSettings(c) \/ Collect(c) \/ Swap(c)
    \/ \E dir \in Directories : BeginMove(c, dir)
    \/ \E m \in Models, entry \in Entry : Upsert(c, m, entry)
    \/ \E m \in Models, limit \in 0 .. MaxWindow : SetContext(c, m, limit)
    \/ \E k \in Kinds, m \in Models, f \in Models \union {None} : SetRoute(c, k, m, f)

Starts(c) == ReadEntries(c) \/ WritePreset(c) \/ Spawn(c)

Next ==
    \/ \E c \in Editors : Edits(c)
    \/ \E c \in Starters : Starts(c)
    \/ \E m \in Models : Load(m) \/ Record(m) \/ Unload(m)
    \/ Show \/ Stop \/ Restart

Spec == Init /\ [][Next]_vars

-----------------------------------------------------------------------------
(* route: the model of the rule, one with a longer window if the input     *)
(* does not fit it, the fallback if its weights are not there.  Which of   *)
(* several is ranked first is left open.                                   *)
Long(tokens) == {m \in present : Able(m, "long") /\ Fits(m, tokens)}

Routed(kind, tokens) ==
    LET rule == catalogue.routes[kind]
    IN  IF ~Fits(rule.model, tokens) /\ Long(tokens) # {} THEN Long(tokens)
        ELSE IF rule.model \in present \/ rule.fallback \notin present THEN {rule.model}
        ELSE {rule.fallback}

(* route_agent: that model if it can coordinate a turn, else one that can, *)
(* else one that reasons.                                                  *)
Coordinators(cap, tokens) ==
    {m \in present : Able(m, "tools") /\ Able(m, cap) /\ Fits(m, tokens)}

RoutedAgent(kind, tokens) ==
    LET able == Coordinators(kind, tokens)
    IN  IF Routed(kind, tokens) \subseteq able THEN Routed(kind, tokens)
        ELSE IF able # {} THEN able ELSE Coordinators("reason", tokens)

-----------------------------------------------------------------------------
TypeOK ==
    /\ catalogue.entries \in [Models -> Entry]
    /\ \A k \in Kinds : catalogue.routes[k].model \in Models
                        /\ catalogue.routes[k].fallback \in Models \union {None}
    /\ root \in Directories /\ window \in [Models -> 0 .. MaxWindow]
    /\ router.runs \in [Models -> 0 .. MaxWindow] /\ shown \in SUBSET Models
    /\ looking \in Models \union {None}

(* What is in memory is what a restart would load, whatever could not be   *)
(* stored; unless a move of the directory crossed an edit.                 *)
RestartLoadsTheSame ==
    ~crossed => \/ catalogue = Expanded(stored, root)
                \/ \E c \in Clients : client[c].at \in {"collect", "swap"}

(* A turn is given to a model that can run it, in the window the model     *)
(* really runs with if it is loaded, whatever was edited, raised or        *)
(* restarted meanwhile; and to none only if there is none.                 *)
TurnsFit ==
    \A kind \in Kinds, tokens \in Windows :
        /\ \A m \in RoutedAgent(kind, tokens) :
             /\ Able(m, "tools") /\ m \in present
             /\ ~crossed /\ m \in shown => tokens <= router.runs[m]
        /\ RoutedAgent(kind, tokens) = {} =>
             ~\E m \in present : Able(m, "tools") /\ Able(m, kind) /\ Fits(m, tokens)

=============================================================================
