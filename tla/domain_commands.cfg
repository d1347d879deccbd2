\* One apex domain; entries for it, for a host and a wildcard under it and for
\* another domain, in any order; two services; up to two records a name.
SPECIFICATION Spec
CONSTANTS
  Services = {traefik, other}
  Service = traefik
  Fallback = other
  None = None
  Twice = Twice
  NoHost = NoHost
  EmptyHost = EmptyHost
  Broken = Broken
  RecordIds = {id1, id2}
  NoId = NoId
  Domain <- ExampleCom
  OtherHosts <- NestedHosts
  MaxEntries = 2
SYMMETRY Symmetry
INVARIANTS TypeOK StatusOkMeansNothingToDo NoBlockingIssueMeansUsable
PROPERTIES RepairDoesWhatStatusSaid CommandsKeepOtherRoutes RemoveIsComplete KeepsWiring
