---------------------------- MODULE MCApprovals ----------------------------
EXTENDS Approvals, TLC

CONSTANTS write, execute

MCRisk == [t \in Tools |-> IF t = execute THEN "Execute" ELSE "Write"]
=============================================================================
