\* An entry with an empty hostname in front of two entries for one hostname.
SPECIFICATION Spec
CONSTANTS
  Services = {traefik, other}
  Service = traefik
  Fallback = other
  None = None
  Twice = Twice
  NoHost = NoHost
  EmptyHost = EmptyHost
  Broken = Broken
  RecordIds = {id1}
  NoId = NoId
  Domain <- ExampleCom
  OtherHosts <- EmptyHosts
  MaxEntries = 3
INVARIANT EveryDuplicateIsBlocking
