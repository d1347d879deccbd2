-------------------------- MODULE MCDomainRouting --------------------------
(* An instance of DomainRouting for TLC.                                   *)
EXTENDS DomainRouting, TLC

Symmetry == Permutations(Procs) \cup Permutations(Domains) \cup Permutations(RecordIds)
=============================================================================
