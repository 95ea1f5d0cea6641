---------------------------- MODULE MCCloseProgram ----------------------------
(* Two calls for the programs of two deployments with two owners.             *)
EXTENDS CloseProgram, TLC

CONSTANTS d1, d2, alice, bob, c1, c2, t1, t2

OneOwner == d1 :> alice
Owners ==  d1 :> alice @@ d2 :> bob

\* Calls, stamps, and deployments with their owners are interchangeable.
Swap == d1 :> d2 @@ d2 :> d1 @@ alice :> bob @@ bob :> alice
Symmetry == Permutations({c1, c2}) \cup Permutations({t1, t2}) \cup {Swap}
=============================================================================
