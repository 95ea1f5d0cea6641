---------------------------- MODULE MCDeployment ----------------------------
(* Two deployments d1 and d2: of one program by one developer, of one        *)
(* program by two developers, or of two programs.                            *)
EXTENDS DeploymentInvariant, TLC

CONSTANTS d1, d2, p1, p2, alice, bob

OneProgram     == [d \in Deployments |-> p1]
TwoPrograms    == d1 :> p1 @@ d2 :> p2
OneDeveloper   == [d \in Deployments |-> alice]
TwoDevelopers  == d1 :> alice @@ d2 :> bob
=============================================================================
