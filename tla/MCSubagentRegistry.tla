------------------------- MODULE MCSubagentRegistry -------------------------
EXTENDS SubagentRegistry, TLC

(* The members of each set are interchangeable in every action and every   *)
(* property of SubagentRegistry, all of which are safety properties.       *)
Symmetry ==
    Permutations(Chats) \union Permutations(AgentIds) \union Permutations(RunIds)
=============================================================================
