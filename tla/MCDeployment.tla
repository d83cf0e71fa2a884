---------------------------- MODULE MCDeployment ----------------------------
(* A small instance of Deployment for TLC *)
EXTENDS Deployment, TLC

CONSTANTS c1, c2

(* c1 gives its own address, or the one of c2 *)
MCKeysOf == c1 :> {1, 2} @@ c2 :> {2}

MCBudget == c1 :> 3 @@ c2 :> 1

(* Tables, then the column of 002, then more tables *)
MCStatements == <<2, 1, 2>>
=============================================================================
