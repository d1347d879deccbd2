\* A bare domain and a hostname below it, the dashboard and one other terminal,
\* two commands and one failure of docker or the disk; one tool row stands for
\* all of them.
CONSTANTS
  Hosts = {apex, sub}
  Apex = {apex}
  Terminals = {dash, other}
  Dashboard = dash
  Global = web
  ProfileNetwork <- MCProfileNetwork
  Networks = {web, edge}
  Profiles = {prof, gone}
  None = None
  Parent <- MCParent
  Rank <- MCRank
  Tools = 1
  MaxCommands = 2
  MaxFaults = 1
SPECIFICATION Spec
INVARIANTS TypeOK ReportsHold ViewsAreCurrent
PROPERTIES RunsWhatWasAsked
CHECK_DEADLOCK FALSE
