------------------------------- MODULE MCPoints -------------------------------
(* Up to four tasks for one backer or two.                                    *)
EXTENDS Points, TLC

CONSTANTS w1, w2, t1, t2, t3, t4

Symmetry == Permutations({w1, w2}) \cup Permutations(Tasks)
=============================================================================
