---------------------------- MODULE MCDeployment ----------------------------
(***************************************************************************)
(* An instance of Deployment for TLC. The changes are alike, and so are the       *)
(* threads of the tools.                                                          *)
(***************************************************************************)
EXTENDS Deployment, TLC

CONSTANTS c1, c2, t1, t2

Alike == Permutations(Changes) \cup Permutations(Tools)
=============================================================================
