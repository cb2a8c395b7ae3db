------------------------------- MODULE MCDesk -------------------------------
(***************************************************************************)
(* What the operator's desk shows and asks of the core: the models that    *)
(* are listed and routed, the conversations with what is remembered of     *)
(* them, and the lock on a store that is replicated.  As in MCRecords, the *)
(* parts share nothing that is stated here, and in a behaviour one of them *)
(* moves.                                                                  *)
(***************************************************************************)
EXTENDS Naturals, FiniteSets, TLC

CONSTANTS
    chat, embed,                                                    \* ModelCatalogue
    Editors, Starters, Directories, MaxWindow, MaxEdits,            \* ModelCatalogue
    Talks, Spaces, Subjects, Facts, Slots, MaxTalks, MaxStrokes,    \* Conversations
    MaxChanges                                                      \* StoreGate

(* The two models are distinct; the chats, the ids of memories and the     *)
(* paths are none of the words that stand for none and for the models      *)
(* directory in models.json; both places that paths lead to are there; and *)
(* a window holds something.                                               *)
ASSUME DeskAssumption ==
    /\ chat # embed
    /\ "none" \notin {chat, embed} \union Talks \union Slots
    /\ {"A", "B"} \subseteq Directories /\ "token" \notin Directories
    /\ MaxWindow \in Nat \ {0}
    /\ {MaxEdits, MaxTalks, MaxStrokes, MaxChanges} \subseteq Nat

VARIABLES
    part,                                                           \* which one moves
    catalogue, stored, root, window, present, launched, shown,      \* ModelCatalogue
    looking, client, edits, crossed,                                \* ModelCatalogue
    session, transcript, memory, talk, begun, strokes, cut, mixed,  \* Conversations
    folder, override, disk, check, gateLog, reported, changes, late \* StoreGate

(* Two models with tools, one entry of them switched off.                  *)
Shapes ==
    {[on |-> TRUE, caps |-> {"tools", "reason", "long"}, size |-> 1],
     [on |-> FALSE, caps |-> {"tools", "reason"}, size |-> 1]}

Listed == INSTANCE ModelCatalogue
    WITH Models <- {chat, embed}, Kinds <- {"reason"}, router <- launched

Told == INSTANCE Conversations

(* A store and a project; two of the paths lead to one folder.             *)
Gated == INSTANCE StoreGate
    WITH Stores <- {"models"}, Projects <- {"p"}, Names <- {"n1", "n2", "n3"},
         Places <- Directories,
         PlaceOf <- [n \in {"n1", "n2", "n3"} |-> IF n = "n2" THEN "B" ELSE "A"],
         Starts <- {"turn"}, Refreshes <- {"refresh"},
         facts <- disk, shown <- reported

listedVars == <<catalogue, stored, root, window, present, launched, shown,
                looking, client, edits, crossed>>
toldVars == <<session, transcript, memory, talk, begun, strokes, cut, mixed>>
gatedVars == <<folder, override, disk, check, gateLog, reported, changes, late>>
vars == <<part, listedVars, toldVars, gatedVars>>

(* Chats and ids of memories may be exchanged.                             *)
Exchange == Permutations(Talks) \union Permutations(Slots)

Init ==
    /\ part \in {"listed", "told", "gated"}
    /\ Listed!Init /\ Told!Init /\ Gated!Init
    /\ part # "listed" => present = {}
    /\ part # "gated" => ~override /\ \A d \in Directories : ~disk[d].rooted

(* A catalogue whose edit, move or look crossed another is not followed,   *)
(* nor a memory whose write crossed one: the properties are stated of the  *)
(* others.                                                                 *)
Next ==
    /\ UNCHANGED part
    /\ \/ part = "listed" /\ ~crossed /\ Listed!Next
       \/ part # "listed" /\ UNCHANGED listedVars
    /\ \/ part = "told" /\ ~mixed /\ Told!Next
       \/ part # "told" /\ UNCHANGED toldVars
    /\ \/ part = "gated" /\ Gated!Next
       \/ part # "gated" /\ UNCHANGED gatedVars

Spec == Init /\ [][Next]_vars

-----------------------------------------------------------------------------
(* The type invariants of all.                                             *)
TypeOK ==
    /\ part = "listed" => Listed!TypeOK
    /\ part = "told" => Told!TypeOK

(* A turn is given to a model that can run it in the window it has.        *)
ModelsFit == Listed!TurnsFit

(* What the operator set is what a restart loads; what was learned from a  *)
(* chat is forgotten with it; a chat reads as it was said; and a store     *)
(* that something replicates is locked and shown as it is.                 *)
KeptAsSet ==
    /\ Listed!RestartLoadsTheSame
    /\ Told!ForgottenWithItsChat /\ Told!ReadsAsSaid
    /\ Gated!LockHolds /\ Gated!PanelShowsTheFolders

(* No turn brings back a memory the operator switched off, or keeps one    *)
(* outside the scope of its chat.                                          *)
RunsKeepFaith == Told!SwitchedOffStays /\ Told!KeptInScope
=============================================================================
