----------------------------- MODULE MCBootstrap -----------------------------
(* An instance of Bootstrap for TLC.                                       *)
EXTENDS Bootstrap, TLC

Symmetry == Permutations(Tunnels)
=============================================================================
