--------------------------- MODULE MCGeminiBatch ---------------------------
(* Instances of GeminiBatch for TLC.                                        *)
EXTENDS GeminiBatch

\* Users may stop the batch once; of what else disturbs jobs GeminiBatch brings its own.
JobBudget == [s \in Spendable |-> IF s = "cancel" THEN 1 ELSE 0]
=============================================================================
