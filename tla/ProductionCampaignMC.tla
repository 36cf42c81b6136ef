------------------------- MODULE ProductionCampaignMC -------------------------
(* ProductionCampaign with a campaign of two batches that is planned again,   *)
(* with the component or without it, beside one of a single batch.            *)
EXTENDS ProductionCampaign, TLC

CONSTANTS o1, o2, b1, b2, b3

MCOrderOf == [b \in {b1, b2, b3} |-> IF b = b3 THEN o2 ELSE o1]
MCPlans == [o \in {o1, o2} |-> IF o = o1 THEN {0, 2} ELSE {1}]

MCSymmetry == Permutations({b1, b2})
===============================================================================
