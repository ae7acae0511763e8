---------------------------- MODULE MCTierBudget ----------------------------
(* A small instance of TierBudget for TLC.                                  *)
EXTENDS TierBudget
CONSTANTS r1, r2, r3, g1, sweeper
=============================================================================
