------------------------------ MODULE SlotPool ------------------------------
(***************************************************************************)
(* What the subagent registry promises the workstation, and nothing else:  *)
(* a pool of slots.  Work takes one slot at a time, only while fewer than  *)
(* the configured limit are held; slots are given back in any number; the  *)
(* operator may move the limit within its clamp.  multi_agent.rs:113-118   *)
(* and :194 are the two admission points that must agree with this.        *)
(***************************************************************************)
EXTENDS Naturals, FiniteSets

CONSTANTS
    Workers,    \* whatever may hold a slot (subagent ids)
    MaxSlots    \* the top of the clamp on the configured limit

VARIABLES
    held,       \* the workers that hold a slot
    limit       \* the configured limit

slotVars == <<held, limit>>

Init ==
    /\ held = {}
    /\ limit \in 1..MaxSlots

Acquire ==
    /\ Cardinality(held) < limit
    /\ \E w \in Workers \ held : held' = held \union {w}
    /\ UNCHANGED limit

Release ==
    /\ \E gone \in SUBSET held : held' = held \ gone
    /\ UNCHANGED limit

SetLimit ==
    /\ limit' \in 1..MaxSlots
    /\ UNCHANGED held

Next == Acquire \/ Release \/ SetLimit

Spec == Init /\ [][Next]_slotVars
=============================================================================
