--------------------------- MODULE ModelResidency ---------------------------
(***************************************************************************)
(* Which models are on the card: ensure_loaded, make_room, unload and      *)
(* refresh_models of src-tauri/src/router.rs, the residency cache they     *)
(* share (AppState.models), the models each run has noted, the two locks,  *)
(* the residency poller with its idle sweep, and the llama-server router   *)
(* process they talk to, which is external.                                *)
(*                                                                         *)
(* A request is split at its awaits and where it gives up a lock another   *)
(* actor reads under: the note on the run, the look at the cache, the two  *)
(* async locks, each admission pass, the unload request, the load request  *)
(* and each look of the polling loop.  A list of what the router holds is  *)
(* read in one step and applied model by model in later ones, with a       *)
(* question to the router for each that has become resident.  Sizes are    *)
(* small numbers that keep the order of the catalogue's.  Time is left     *)
(* out: any model may be the least recently used, or have gone unused for  *)
(* long enough.                                                            *)
(*                                                                         *)
(* A definition whose name extends the name of the next one is a seeded    *)
(* slip: what that definition would be if the code had the named mistake.  *)
(***************************************************************************)
EXTENDS Naturals, FiniteSets, FiniteSetsExt, Functions

CONSTANTS
    Models,
    Managed,     \* models that are given the whole card (all but embeddings)
    Runs,        \* agent runs, whose requests note the model they want
    Panels,      \* callers outside a run: the Models panel
    None,
    Uses,        \* which models each caller may ask for (a bound)
    Mb,          \* what each model takes, [Models -> Nat]
    Solo,        \* vram_solo_mb
    Budget,      \* vram_budget_mb
    Cap,         \* AppSettings.max_resident_models
    Measures,    \* nvidia-smi answers, so residency is measured
    Disturbed    \* residency changes under a request: the sweep, the panel, an
                 \* unload that fails, a router that stops or exits

ASSUME ResidencyAssumption ==
    /\ Managed \subseteq Models
    /\ Runs \intersect Panels = {}
    /\ None \notin Models \union Runs \union Panels
    /\ Uses \in [Runs \union Panels -> SUBSET Models]
    /\ Mb \in [Models -> Nat]
    /\ Solo \in Nat /\ Budget \in 0..Solo
    /\ Cap \in Nat \ {0}
    /\ {Measures, Disturbed} \subseteq BOOLEAN

VARIABLES
    cache,      \* AppState.models
    noted,      \* RunHandle.models, by run; empty when the run is over
    pc,         \* where each caller's request is
    want,       \* the model it asks for
    victim,     \* the model its admission is unloading
    inference,  \* who holds inference_lock
    loadLock,   \* who holds model_load_lock
    passes,     \* admission passes of the holder of loadLock
    before,     \* memory in use when that load began
    answer,     \* what is left to apply of an answer of /v1/models, by reader
    sweep,      \* models the sweep or the panel has chosen, or is unloading
    router,     \* AppState.router: no handle, a live child, or a dead one
    poller,     \* of that router: not there, its start is still under way, alive
    server      \* what the router process holds (external)

requestVars == <<pc, want, victim, inference, loadLock, passes, before>>

vars == <<cache, noted, requestVars, answer, sweep, router, poller, server>>

Callers == Runs \union Panels

Readers == {"poller", "loader", "starter"}

MaxPasses == Cap + Cardinality(Models) + 2

StateOf ==
    [unloaded |-> "Unloaded", loading |-> "Loading", loaded |-> "Loaded"]

Running == {m \in Models : server[m] # "unloaded"}

MbOf(S) == MapThenSumSet(LAMBDA m : Mb[m], S)

Init ==
    /\ cache = [m \in Models |-> [state |-> "Unloaded", mb |-> None]]
    /\ noted = [r \in Runs |-> {}]
    /\ pc = [c \in Callers |-> IF c \in Runs THEN "out" ELSE "idle"]
    /\ want = [c \in Callers |-> None]
    /\ victim = [c \in Callers |-> None]
    /\ inference = None
    /\ loadLock = None
    /\ passes = 0
    /\ before = 0
    /\ answer = [x \in Readers |-> None]
    /\ sweep = [m \in Models |-> "no"]
    /\ router = "none"
    /\ poller = "none"
    /\ server = [m \in Models |-> "unloaded"]

SetState(m, state) == cache' = [cache EXCEPT ![m].state = state]

Goto(c, at) == pc' = [pc EXCEPT ![c] = at]

(* The request returns: both guards are dropped with it.  A request that   *)
(* holds the inference lock and found its model goes on to generate.       *)
Return(c, ok) ==
    /\ IF loadLock = c
       THEN loadLock' = None /\ passes' = 0 /\ before' = 0
       ELSE UNCHANGED <<loadLock, passes, before>>
    /\ victim' = [victim EXCEPT ![c] = None]
    /\ IF ok /\ inference = c
       THEN Goto(c, "generating") /\ UNCHANGED <<want, inference>>
       ELSE /\ Goto(c, "idle")
            /\ want' = [want EXCEPT ![c] = None]
            /\ inference' = IF inference = c THEN None ELSE inference

-----------------------------------------------------------------------------
(* Runs and their requests.  chat, embed and vision take the inference     *)
(* lock around ensure_loaded; the turn's own three calls and the panel's   *)
(* do not.                                                                 *)

BeginRun(r) ==
    /\ pc[r] = "out"
    /\ Goto(r, "idle")
    /\ UNCHANGED <<cache, noted, want, victim, inference, loadLock, passes,
                   before, answer, sweep, router, poller, server>>

FinishRun(r) ==
    /\ pc[r] = "idle"
    /\ Goto(r, "out")
    /\ noted' = [noted EXCEPT ![r] = {}]
    /\ UNCHANGED <<cache, want, victim, inference, loadLock, passes,
                   before, answer, sweep, router, poller, server>>

(* wait_agent lets go of the run's models while the run waits.             *)
ReleaseModels(r) ==
    /\ pc[r] = "idle"
    /\ noted' = [noted EXCEPT ![r] = {}]
    /\ UNCHANGED <<cache, requestVars, answer, sweep, router, poller, server>>

Ask(c, m) ==
    /\ pc[c] = "idle"
    /\ m \in Uses[c]
    /\ want' = [want EXCEPT ![c] = m]
    /\ \E at \in {"asking"} \union (IF c \in Runs THEN {"slot"} ELSE {}) : Goto(c, at)
    /\ UNCHANGED <<cache, noted, victim, inference, loadLock, passes,
                   before, answer, sweep, router, poller, server>>

TakeInference(c) ==
    /\ pc[c] = "slot"
    /\ inference = None
    /\ inference' = c
    /\ Goto(c, "asking")
    /\ UNCHANGED <<cache, noted, want, victim, loadLock, passes,
                   before, answer, sweep, router, poller, server>>

(* Stop reaches a run that waits for the inference lock.                   *)
CancelWait(r) ==
    /\ pc[r] = "slot"
    /\ Return(r, FALSE)
    /\ UNCHANGED <<cache, noted, answer, sweep, router, poller, server>>

Note(c) ==
    /\ pc[c] = "asking"
    /\ noted' = IF c \in Runs THEN [noted EXCEPT ![c] = @ \union {want[c]}] ELSE noted
    /\ Goto(c, "looking")
    /\ UNCHANGED <<cache, want, victim, inference, loadLock, passes,
                   before, answer, sweep, router, poller, server>>

Ready(m) == cache[m].state = "Loaded"

FastPath(c) ==
    /\ pc[c] = "looking"
    /\ Ready(want[c])
    /\ Return(c, TRUE)
    /\ UNCHANGED <<cache, noted, answer, sweep, router, poller, server>>

QueueForLoad(c) ==
    /\ pc[c] = "looking"
    /\ ~Ready(want[c])
    /\ Goto(c, "queued")
    /\ UNCHANGED <<cache, noted, want, victim, inference, loadLock, passes,
                   before, answer, sweep, router, poller, server>>

(* check_weights, of a model that would have to be loaded.                 *)
WeightsRefused(c) == cache[want[c]].state \notin {"Loaded", "Loading"} /\ Return(c, FALSE)

(* Under the load lock the state is read again: loaded meanwhile, on its   *)
(* way, or this request's to load, if the weights on disk are sound.       *)
TakeLoadLock(c) ==
    /\ pc[c] = "queued"
    /\ loadLock = None
    /\ \/ Ready(want[c]) /\ Return(c, TRUE)
       \/ WeightsRefused(c)
       \/ /\ ~Ready(want[c])
          /\ loadLock' = c
          /\ before' = IF Measures THEN MbOf(Running) ELSE 0
          /\ Goto(c, IF cache[want[c]].state = "Loading" THEN "polling" ELSE "admitting")
          /\ UNCHANGED <<want, victim, inference, passes>>
    /\ UNCHANGED <<cache, noted, answer, sweep, router, poller, server>>

-----------------------------------------------------------------------------
(* make_room: one admission pass                                           *)

InUse(c) == UNION {noted[r] : r \in Runs \ {c}}

Resident(c) ==
    {m \in Models \ ({want[c]} \union InUse(c)) :
        cache[m].state \in {"Loaded", "Loading"}}

Estimate(m) == IF m \in Managed THEN Solo ELSE Mb[m]

Weight(m) == IF cache[m].mb # None THEN cache[m].mb ELSE Estimate(m)

Fits(c) ==
    LET live == Cardinality(InUse(c)) + Cardinality(Resident(c))
        used == MapThenSumSet(Weight, Resident(c))
        held == MapThenSumSet(Estimate, InUse(c))
    IN  /\ live + 1 <= Cap
        /\ IF want[c] \in Managed THEN live = 0
           ELSE IF live = 0 THEN Mb[want[c]] <= Solo
           ELSE used + held + Mb[want[c]] <= Budget

PassesLeftUnbounded == TRUE

PassesLeft == passes < MaxPasses

Possible(c) == want[c] \in Managed \/ Mb[want[c]] <= Solo

Admit(c) ==
    /\ pc[c] = "admitting"
    /\ PassesLeft
    /\ Possible(c) /\ Fits(c)
    /\ IF router = "none"
       THEN Return(c, FALSE) /\ UNCHANGED cache
       ELSE /\ SetState(want[c], "Loading")
            /\ Goto(c, "posting")
            /\ UNCHANGED <<want, victim, inference, loadLock, passes, before>>
    /\ UNCHANGED <<noted, answer, sweep, router, poller, server>>

ChooseVictim(c) ==
    /\ pc[c] = "admitting"
    /\ PassesLeft
    /\ Possible(c) /\ ~Fits(c)
    /\ passes' = IF passes < MaxPasses THEN passes + 1 ELSE passes
    /\ \E v \in Resident(c) : victim' = [victim EXCEPT ![c] = v]
    /\ Goto(c, "evicting")
    /\ UNCHANGED <<cache, noted, want, inference, loadLock, before, answer,
                   sweep, router, poller, server>>

(* InsufficientVram: too big for the card, nothing left to evict, or too   *)
(* many passes.                                                            *)
Refuse(c) ==
    /\ pc[c] = "admitting"
    /\ ~Possible(c) \/ ~PassesLeft \/ (~Fits(c) /\ Resident(c) = {})
    /\ Return(c, FALSE)
    /\ UNCHANGED <<cache, noted, answer, sweep, router, poller, server>>

-----------------------------------------------------------------------------
(* unload, called by an admission, by the sweep or by the panel: marked,   *)
(* then answered.  A model that is not running counts as unloaded; one the *)
(* router says it unloads may stay.                                        *)

MarkUnloading(m) == SetState(m, "Unloading")

UnloadDone(m) ==
    /\ router = "up"
    /\ \E after \in {server[m], "unloaded"} : server' = [server EXCEPT ![m] = after]
    /\ cache' = [cache EXCEPT ![m].state = "Unloaded", ![m].mb = None]

UnloadFailed(m) ==
    /\ Disturbed
    /\ SetState(m, "Loaded")
    /\ UNCHANGED server

Evict(c) ==
    /\ pc[c] = "evicting"
    /\ IF router = "none"
       THEN Return(c, FALSE) /\ UNCHANGED cache
       ELSE /\ MarkUnloading(victim[c])
            /\ Goto(c, "unloading")
            /\ UNCHANGED <<want, victim, inference, loadLock, passes, before>>
    /\ UNCHANGED <<noted, answer, sweep, router, poller, server>>

Evicted(c) ==
    /\ pc[c] = "unloading"
    /\ \/ /\ UnloadDone(victim[c])
          /\ Goto(c, "admitting")
          /\ victim' = [victim EXCEPT ![c] = None]
          /\ UNCHANGED <<want, inference, loadLock, passes, before>>
       \/ UnloadFailed(victim[c]) /\ Return(c, FALSE)
    /\ UNCHANGED <<noted, answer, sweep, router, poller>>

(* evict_idle and evict_model.  The sweep picks among the models no run    *)
(* has noted, and then unloads one after the other.                        *)
Idle == {m \in Models \ UNION {noted[r] : r \in Runs} : Ready(m)}

SweepIdle ==
    /\ \A m \in Models : sweep[m] = "no"
    /\ \E S \in SUBSET Idle :
           sweep' = [m \in Models |-> IF m \in S THEN "chosen" ELSE "no"]
    /\ UNCHANGED <<cache, noted, requestVars, answer, router, poller, server>>

PanelEvict(m) ==
    /\ \A n \in Models : sweep[n] = "no"
    /\ sweep' = [sweep EXCEPT ![m] = "chosen"]
    /\ UNCHANGED <<cache, noted, requestVars, answer, router, poller, server>>

SweepOne(m) ==
    /\ sweep[m] = "chosen"
    /\ \A n \in Models : sweep[n] # "sent"
    /\ IF router = "none"
       THEN sweep' = [sweep EXCEPT ![m] = "no"] /\ UNCHANGED cache
       ELSE sweep' = [sweep EXCEPT ![m] = "sent"] /\ MarkUnloading(m)
    /\ UNCHANGED <<noted, requestVars, answer, router, poller, server>>

SweptOne(m) ==
    /\ sweep[m] = "sent"
    /\ UnloadDone(m) \/ UnloadFailed(m)
    /\ sweep' = [sweep EXCEPT ![m] = "no"]
    /\ UNCHANGED <<noted, requestVars, answer, router, poller>>

-----------------------------------------------------------------------------
(* refresh_models: read what the router holds, then apply what differs,    *)
(* one model after the other, whatever has happened since.  A model that   *)
(* has become resident is asked for its window first, and an answer that   *)
(* does not come, or has no window, ends the refresh there.                *)

Read(x) ==
    /\ router = "up"
    /\ answer[x] = None
    /\ answer' = [answer EXCEPT ![x] = server]

RefreshedIgnoringAbsence(m, state) ==
    IF state = "unloaded" THEN cache
    ELSE [cache EXCEPT ![m].state = StateOf[state]]

Refreshed(m, state) ==
    IF cache[m].state = StateOf[state] THEN cache
    ELSE [cache EXCEPT ![m].state = StateOf[state],
                       ![m].mb = IF state = "unloaded" THEN None ELSE @]

Left(x) == DOMAIN answer[x]

ApplyOne(x, m) ==
    /\ answer[x] # None
    /\ m \in Left(x)
    /\ cache' = Refreshed(m, answer[x][m])
    /\ answer' = [answer EXCEPT ![x] = Restrict(@, Left(x) \ {m})]

RefreshEnded(x) == answer[x] # None /\ Left(x) = {}

(* /props is asked of a model this reader finds newly resident.            *)
NoWindowFor(x) ==
    /\ answer[x] # None
    /\ \E m \in Left(x) : answer[x][m] = "loaded" /\ cache[m].state # "Loaded"

Forget(x) == answer' = [answer EXCEPT ![x] = None]

PollerReads ==
    /\ poller = "alive"
    /\ Read("poller")
    /\ UNCHANGED <<cache, noted, requestVars, sweep, router, poller, server>>

PollerApplies(m) ==
    /\ ApplyOne("poller", m)
    /\ UNCHANGED <<noted, requestVars, sweep, router, poller, server>>

PollerDone ==
    /\ RefreshEnded("poller")
    /\ Forget("poller")
    /\ UNCHANGED <<cache, noted, requestVars, sweep, router, poller, server>>

PollerFails ==
    /\ NoWindowFor("poller")
    /\ Forget("poller")
    /\ UNCHANGED <<cache, noted, requestVars, sweep, router, poller, server>>

-----------------------------------------------------------------------------
(* The load request and the wait for residency                             *)

(* The router starts a child for a model that has none.  Above its own     *)
(* count it first drops a model of its choice.                             *)
Accepted(m) ==
    /\ router = "up"
    /\ server[m] = "unloaded"
    /\ IF Cardinality(Running) < Cap
       THEN server' = [server EXCEPT ![m] = "loading"]
       ELSE \E out \in Running :
                server' = [server EXCEPT ![m] = "loading", ![out] = "unloaded"]

PostLoad(c) ==
    /\ pc[c] = "posting"
    /\ Accepted(want[c])
    /\ Goto(c, "polling")
    /\ UNCHANGED <<cache, noted, want, victim, inference, loadLock, passes,
                   before, answer, sweep, router, poller>>

(* The request is refused, or its answer is lost whether or not the router *)
(* took it: the code looks before it believes it.                          *)
PostFailed(c) ==
    /\ pc[c] = "posting"
    /\ UNCHANGED server \/ Accepted(want[c])
    /\ Goto(c, "doubting")
    /\ UNCHANGED <<cache, noted, want, victim, inference, loadLock, passes,
                   before, answer, sweep, router, poller>>

LoaderReads(c) ==
    /\ \/ pc[c] = "polling" /\ Goto(c, "checking")
       \/ pc[c] = "doubting" /\ Goto(c, "judging")
    /\ Read("loader")
    /\ UNCHANGED <<cache, noted, want, victim, inference, loadLock, passes, before,
                   sweep, router, poller, server>>

LoaderApplies(c, m) ==
    /\ pc[c] \in {"checking", "judging"}
    /\ ApplyOne("loader", m)
    /\ UNCHANGED <<noted, requestVars, sweep, router, poller, server>>

(* refresh_models fails: the list or a window was not to be had.           *)
LookFails(c) ==
    \/ pc[c] \in {"polling", "doubting"}
    \/ pc[c] \in {"checking", "judging"} /\ NoWindowFor("loader")

LookFailed(c) ==
    /\ LookFails(c)
    /\ cache' = IF pc[c] \in {"doubting", "judging"}
                THEN [cache EXCEPT ![want[c]].state = "Unloaded"] ELSE cache
    /\ Return(c, FALSE)
    /\ Forget("loader")
    /\ UNCHANGED <<noted, sweep, router, poller, server>>

Judged(c) ==
    /\ pc[c] = "judging"
    /\ RefreshEnded("loader")
    /\ LET resident == Ready(want[c])
       IN  /\ cache' = IF resident THEN cache ELSE [cache EXCEPT ![want[c]].state = "Unloaded"]
           /\ Return(c, resident)
    /\ Forget("loader")
    /\ UNCHANGED <<noted, sweep, router, poller, server>>

Measured ==
    IF Measures /\ MbOf(Running) > before THEN MbOf(Running) - before ELSE None

LoadEnded(c) ==
    /\ pc[c] = "checking"
    /\ RefreshEnded("loader")
    /\ Forget("loader")
    /\ \/ Ready(want[c]) /\ Goto(c, "measuring") /\ UNCHANGED <<want, victim, inference, loadLock, passes, before>>
       \/ cache[want[c]].state = "Unloaded" /\ Return(c, FALSE)
    /\ UNCHANGED <<cache, noted, sweep, router, poller, server>>

RecordLoaded(c) ==
    /\ pc[c] = "measuring"
    /\ cache' = [cache EXCEPT ![want[c]] = [state |-> "Loaded", mb |-> Measured]]
    /\ Return(c, TRUE)
    /\ UNCHANGED <<noted, answer, sweep, router, poller, server>>

LookAgain(c) ==
    /\ pc[c] = "checking"
    /\ RefreshEnded("loader")
    /\ Forget("loader")
    /\ ~Ready(want[c])
    /\ Goto(c, "polling")
    /\ UNCHANGED <<cache, noted, want, victim, inference, loadLock, passes,
                   before, sweep, router, poller, server>>

(* LOAD_TIMEOUT: the model is left as it is.                               *)
LoadTimeout(c) ==
    /\ pc[c] = "checking"
    /\ RefreshEnded("loader")
    /\ Forget("loader")
    /\ ~Ready(want[c])
    /\ Return(c, FALSE)
    /\ UNCHANGED <<cache, noted, sweep, router, poller, server>>

(* The answer has been generated, or the run was stopped or failed.        *)
Generated(c) ==
    /\ pc[c] = "generating"
    /\ Goto(c, "idle")
    /\ want' = [want EXCEPT ![c] = None]
    /\ inference' = None
    /\ UNCHANGED <<cache, noted, victim, loadLock, passes, before, answer, sweep,
                   router, poller, server>>

-----------------------------------------------------------------------------
(* The router process and its handle                                       *)

ServerStep(m) ==
    /\ server[m] = "loading"
    /\ \E next \in {"loaded", "unloaded"} : server' = [server EXCEPT ![m] = next]
    /\ UNCHANGED <<cache, noted, requestVars, answer, sweep, router, poller>>

ClearedCache(ids) ==
    [m \in Models |->
        IF m \in ids THEN [cache[m] EXCEPT !.state = "Unloaded", !.mb = None] ELSE cache[m]]

(* start: a dead handle is cleared first.  The new one is there for        *)
(* requests at once; the poller is spawned when the router has answered    *)
(* and the first refresh has come through.  Starts are taken one at a      *)
(* time; one whose router never answers ends as StopRouter does.           *)
StartRouter ==
    /\ router # "up"
    /\ answer["starter"] = None
    /\ router' = "up"
    /\ poller' = "starting"
    /\ cache' = IF router = "dead" THEN ClearedCache(Models) ELSE cache
    /\ UNCHANGED <<noted, requestVars, answer, sweep, server>>

StartReads ==
    /\ poller = "starting"
    /\ Read("starter")
    /\ UNCHANGED <<cache, noted, requestVars, sweep, router, poller, server>>

StartApplies(m) ==
    /\ ApplyOne("starter", m)
    /\ UNCHANGED <<noted, requestVars, sweep, router, poller, server>>

SpawnPoller ==
    /\ RefreshEnded("starter")
    /\ Forget("starter")
    /\ poller' = IF poller = "starting" THEN "alive" ELSE poller
    /\ UNCHANGED <<cache, noted, requestVars, sweep, router, server>>

(* The first refresh fails: start returns, and the router it started stays *)
(* up, without a poller.  A start that finds it answering changes nothing. *)
StartFails ==
    /\ \/ poller = "starting" /\ answer["starter"] = None
       \/ NoWindowFor("starter")
    /\ poller' = "none"
    /\ Forget("starter")
    /\ UNCHANGED <<cache, noted, requestVars, sweep, router, server>>

StopRouter ==
    /\ router # "none"
    /\ router' = "none"
    /\ poller' = "none"
    /\ server' = [m \in Models |-> "unloaded"]
    /\ cache' = ClearedCache(Models)
    /\ UNCHANGED <<noted, requestVars, answer, sweep>>

RouterExits ==
    /\ router = "up"
    /\ router' = "dead"
    /\ server' = [m \in Models |-> "unloaded"]
    /\ UNCHANGED <<cache, noted, requestVars, answer, sweep, poller>>

(* The watcher thread drops the handle and the models shown as loaded.     *)
WatcherNotices ==
    /\ router = "dead"
    /\ router' = "none"
    /\ poller' = "none"
    /\ cache' = ClearedCache({m \in Models : cache[m].state = "Loaded"})
    /\ UNCHANGED <<noted, requestVars, answer, sweep, server>>

-----------------------------------------------------------------------------

Request(c) ==
    \/ TakeInference(c) \/ Note(c) \/ FastPath(c) \/ QueueForLoad(c)
    \/ TakeLoadLock(c)
    \/ Admit(c) \/ ChooseVictim(c) \/ Refuse(c) \/ Evict(c) \/ Evicted(c)
    \/ PostLoad(c) \/ PostFailed(c) \/ Judged(c)
    \/ LoaderReads(c) \/ LookFailed(c) \/ \E m \in Models : LoaderApplies(c, m)
    \/ LoadEnded(c) \/ RecordLoaded(c) \/ LookAgain(c) \/ LoadTimeout(c)
    \/ Generated(c)

RunStep(r) == BeginRun(r) \/ FinishRun(r) \/ ReleaseModels(r) \/ CancelWait(r)

Others ==
    /\ Disturbed
    /\ \/ SweepIdle
       \/ \E m \in Models : PanelEvict(m) \/ SweepOne(m) \/ SweptOne(m)
       \/ StopRouter \/ RouterExits \/ WatcherNotices

Next ==
    \/ \E c \in Callers : Request(c) \/ \E m \in Models : Ask(c, m)
    \/ \E r \in Runs : RunStep(r)
    \/ Others
    \/ StartRouter \/ StartReads \/ SpawnPoller \/ StartFails
    \/ PollerReads \/ PollerDone \/ PollerFails
    \/ \E m \in Models : PollerApplies(m) \/ StartApplies(m)
    \/ \E m \in Models : ServerStep(m)

Spec == Init /\ [][Next]_vars

(* Requests are awaited by tokio tasks that are polled until they end, and *)
(* what they ask of the router ends with the client's timeout.  Both locks *)
(* are tokio mutexes, which serve their waiters in order, and the wait for *)
(* residency ends at its deadline.  Nothing is assumed of what the router  *)
(* answers.                                                                *)
FairSpec ==
    /\ Spec
    /\ \A c \in Callers :
          /\ WF_vars(Request(c))
          /\ SF_vars(TakeInference(c))
          /\ SF_vars(TakeLoadLock(c))
          /\ SF_vars(LoadTimeout(c))
    /\ WF_vars(PollerReads) /\ WF_vars(PollerDone)
    /\ WF_vars(WatcherNotices)

-----------------------------------------------------------------------------
(* Properties                                                              *)

Entries ==
    [state : {"Unloaded", "Loading", "Loaded", "Unloading"},
     mb : Nat \union {None}]

TypeOK ==
    /\ cache \in [Models -> Entries]
    /\ noted \in [Runs -> SUBSET Models]
    /\ pc \in [Callers -> {"out", "idle", "slot", "asking", "looking", "queued",
                           "admitting", "evicting", "unloading", "posting",
                           "doubting", "judging", "polling", "checking",
                           "measuring", "generating"}]
    /\ want \in [Callers -> Models \union {None}]
    /\ victim \in [Callers -> Models \union {None}]
    /\ inference \in Callers \union {None}
    /\ loadLock \in Callers \union {None}
    /\ passes \in 0..MaxPasses
    /\ before \in Nat
    /\ \A x \in Readers :
          answer[x] = None \/ \E S \in SUBSET Models : answer[x] \in [S -> DOMAIN StateOf]
    /\ sweep \in [Models -> {"no", "chosen", "sent"}]
    /\ router \in {"none", "up", "dead"}
    /\ poller \in {"none", "starting", "alive"}
    /\ server \in [Models -> DOMAIN StateOf]

(* Every request ends: with a model that never becomes resident, unloads   *)
(* that do not shrink the set, and other callers in the way.               *)
RequestsEnd ==
    \A c \in Callers : pc[c] \notin {"out", "idle"} ~> pc[c] \in {"out", "idle"}

(* The poller's refreshes come through: the list is read again and again,  *)
(* and a model that is asked for its window often enough tells it.         *)
RouterAnswers ==
    /\ WF_vars(PollerReads)
    /\ \A m \in Models : SF_vars(PollerApplies(m))

(* The cache catches up with the router while a poller watches it: what it *)
(* shows in error is put right, unless the router moves first or goes.     *)
CacheCatchesUp ==
    RouterAnswers =>
        \A m \in Models :
            \/ []<>(cache[m].state = StateOf[server[m]] \/ poller # "alive")
            \/ []<><<server'[m] # server[m]>>_server
=============================================================================
