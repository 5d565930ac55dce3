------------------------ MODULE MCDeploymentOperator ------------------------
(* A small instance of DeploymentOperator for TLC. *)
EXTENDS DeploymentOperator, TLC
=============================================================================
