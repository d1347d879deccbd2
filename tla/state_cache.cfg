\* Two processes, two hosts, and a content of each kind inspect_stack tells
\* apart; two commands, so that a stale refresh or a rebuild can run into a
\* refresh, and one change of the sites root to make its scan stale.
SPECIFICATION Spec
CONSTANTS
  Procs = {p1, p2}
  Hosts = {h1, h2}
  Contents = {good, flawed, broken}
  Flawed = {flawed}
  Unreadable = {broken}
  Absent = Absent
  MaxTime = 1
  MaxChanges = 1
  MaxRuns = 2
SYMMETRY Symmetry
INVARIANTS TypeOK RowsAgreeWithObservations StampsAreHonest CompletedRefreshCovers
PROPERTIES RebuildForgetsOnlyTheIndex IndexSpec
CHECK_DEADLOCK FALSE
