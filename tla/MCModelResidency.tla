-------------------------- MODULE MCModelResidency --------------------------
(***************************************************************************)
(* One caller against a router whose lists arrive late or are cut short,   *)
(* whose answers are lost, and that reports unloads that did not happen.   *)
(* In a behaviour either                                                   *)
(*   - the Models panel turns between two models, with the poller at work; *)
(*     or                                                                  *)
(*   - a run asks for one, and the idle sweep, evictions from the panel,   *)
(*     failing unloads, stops and exits of the router come under it too.   *)
(***************************************************************************)
EXTENDS ModelResidency

CONSTANTS chat, embed, p1, r1

VARIABLE part

MCMb == [m \in Models |-> IF m = chat THEN 4 ELSE 1]
MCUses == [c \in Callers |-> Models]

Stirred == INSTANCE ModelResidency
    WITH Models <- {chat}, Runs <- {r1}, Panels <- {}, Uses <- [c \in {r1} |-> {chat}],
         Mb <- [m \in {chat} |-> 4], Measures <- FALSE, Disturbed <- TRUE

Turning == part = "turning"
AllVars == <<part, vars>>

MCInit ==
    \/ part = "turning" /\ Init
    \/ part = "stirred" /\ Stirred!Init
MCNext ==
    /\ UNCHANGED part
    /\ \/ Turning /\ Next
       \/ ~Turning /\ Stirred!Next

(* Both fairness conditions, of which one part's apply.                    *)
Either(turning, stirred) ==
    UNCHANGED part /\ ((Turning /\ turning) \/ (~Turning /\ stirred))

(* Less is assumed than FairSpec does: one caller waits for no other's     *)
(* lock, and of the poller only that it goes on when a list is applied.    *)
MCSpec ==
    /\ MCInit /\ [][MCNext]_AllVars
    /\ WF_AllVars(Either(Request(p1), Stirred!Request(r1)))
    /\ SF_AllVars(Either(LoadTimeout(p1), Stirred!LoadTimeout(r1)))
    /\ WF_AllVars(Either(PollerDone, Stirred!PollerDone))
    /\ WF_AllVars(Either(WatcherNotices, Stirred!WatcherNotices))

-----------------------------------------------------------------------------
(* Every request ends: with a load that never completes, unloads that do   *)
(* not shrink the resident set while the poller brings back what was       *)
(* unloaded, answers that are lost, and residency disturbed under it       *)
(* (max_passes of make_room, LOAD_TIMEOUT of ensure_loaded).               *)
EveryRequestEnds ==
    LET c == IF Turning THEN p1 ELSE r1
    IN  pc[c] \notin {"out", "idle"} ~> pc[c] \in {"out", "idle"}

(* The poller's refreshes come through: it reads the list again and again, *)
(* and a model it often finds newly resident tells its window at last.     *)
ListsComeThrough ==
    /\ WF_AllVars(UNCHANGED part /\ ~Turning /\ Stirred!PollerReads)
    /\ SF_AllVars(UNCHANGED part /\ ~Turning /\ Stirred!PollerApplies(chat))

(* What the cache shows in error is put right while a poller watches the   *)
(* router and its refreshes come through, however residency is disturbed:  *)
(* by the sweep, the panel, failed unloads and loads, stops and exits.  It *)
(* may stay wrong only while the router goes on changing what it holds.    *)
(* A router whose start failed at its first refresh has no poller          *)
(* (router.rs:453).                                                        *)
CacheIsPutRight ==
    ListsComeThrough =>
        \/ []<>(Turning \/ cache[chat].state = StateOf[server[chat]] \/ poller # "alive")
        \/ []<><<server' # server>>_server
=============================================================================
