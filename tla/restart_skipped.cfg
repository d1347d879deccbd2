\* A domain add without a restart, and one with a restart after it.
SPECIFICATION Spec
CONSTANTS
  Procs = {p1}
  Domains = {d1}
  OtherHosts = {other}
  Services = {traefik}
  Service = traefik
  RecordIds = {id1}
  NoId = NoId
  None = None
  Twice = Twice
  Broken = Broken
  MaxEdits = 0
  MaxRuns = 2
INVARIANT RestartApplies
