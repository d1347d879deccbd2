---------------------------- MODULE MCStateCache ----------------------------
(* Instances of StateCache for TLC.                                        *)
EXTENDS StateCache, TLC

Symmetry == Permutations(Procs) \cup Permutations(Hosts)
=============================================================================
