\* Two processes, two domains, two commands, one edit by hand.
SPECIFICATION Spec
CONSTANTS
  Procs = {p1, p2}
  Domains = {d1, d2}
  OtherHosts = {other}
  Services = {traefik}
  Service = traefik
  RecordIds = {id1}
  NoId = NoId
  None = None
  Twice = Twice
  Broken = Broken
  MaxEdits = 1
  MaxRuns = 2
SYMMETRY Symmetry
INVARIANTS TypeOK OkIsDone NothingToDoChangesNothing RestartedServes
