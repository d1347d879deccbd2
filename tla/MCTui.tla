------------------------------- MODULE MCTui --------------------------------
(* An instance of Tui for TLC.                                           *)
EXTENDS Tui

\* A bare domain and a hostname below it that sorts before it.
MCParent == [h \in Hosts |-> IF h \in Apex THEN None ELSE CHOOSE a \in Apex : TRUE]
MCRank == [h \in Hosts |-> IF h \in Apex THEN 1 ELSE 0]
\* A profile with another network than the config's, and one that is unknown.
MCKnown == CHOOSE p \in Profiles : TRUE
MCProfileNetwork ==
  [p \in Profiles |-> IF p = MCKnown THEN CHOOSE n \in Networks : n # Global ELSE None]
=============================================================================
