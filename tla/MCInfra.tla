------------------------------- MODULE MCInfra -------------------------------
(* Instances of Infra for TLC.                                             *)
EXTENDS Infra, TLC
=============================================================================
