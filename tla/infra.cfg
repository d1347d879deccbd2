\* Two terminals, two ways to set the options, two plans or applies after at
\* most one render, and one command that dies.
SPECIFICATION Spec
CONSTANTS
  Processes = {p1, p2}
  Settings = {a, b}
  None = None
  Torn = Torn
  MaxRows = 2
  MaxRenders = 1
  MaxFaults = 1
INVARIANTS TypeOK RunningHasAnOwner ReportsAgree FreshPlanIsAsAsked
PROPERTIES KeepsJournal
CHECK_DEADLOCK FALSE
