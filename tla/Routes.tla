-------------------------------- MODULE Routes --------------------------------
(* An ingress file without its order: a function that gives each hostname  *)
(* the service of its entry.  DomainRouting and DomainWiring share what a  *)
(* command accepts, looks for and writes; DomainCommands has the lists.    *)
CONSTANTS Twice,   \* two entries or more for a hostname
          Broken   \* a file the commands refuse: empty, no YAML, no fallback

\* _reconcile_ingress and _plan_ingress_removal refuse two entries for a target.
Usable(f, targets) == f # Broken /\ \A t \in targets : f[t] # Twice

\* Nothing to do: each target has what the command wants.
Says(f, targets, wanted) == \A t \in targets : f[t] = wanted

\* apply_domain_ingress(_removal): the targets change, and nothing else.
Rewired(f, targets, wanted) ==
  [h \in DOMAIN f |-> IF h \in targets THEN wanted ELSE f[h]]
=============================================================================
