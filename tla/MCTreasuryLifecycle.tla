------------------------ MODULE MCTreasuryLifecycle ------------------------
(* Model values and symmetry for TLC.                                         *)
EXTENDS TreasuryLifecycle, TLC

Symmetry == Permutations(Resets)
=============================================================================
