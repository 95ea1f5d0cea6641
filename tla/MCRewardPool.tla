----------------------------- MODULE MCRewardPool -----------------------------
(* Two backers, and up to three requests of the admin.                        *)
EXTENDS RewardPool, TLC

CONSTANTS w1, w2, c1, c2, c3

Symmetry == Permutations(Backers) \cup Permutations(Calls)
=============================================================================
