\* A domain add that stops at the ingress file, after it has written DNS.
SPECIFICATION Spec
CONSTANTS
  Services = {traefik, other}
  Service = traefik
  Fallback = other
  None = None
  Twice = Twice
  NoHost = NoHost
  EmptyHost = EmptyHost
  Broken = Broken
  RecordIds = {id1}
  NoId = NoId
  Domain <- ExampleCom
  OtherHosts <- NestedHosts
  MaxEntries = 2
PROPERTY NoDnsOnlyUpdate
