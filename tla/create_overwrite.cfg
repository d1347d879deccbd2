\* The instance of tui.cfg; a create over a stack that exists.
CONSTANTS
  Hosts = {apex, sub}
  Apex = {apex}
  Terminals = {dash, other}
  Dashboard = dash
  Global = web
  ProfileNetwork <- MCProfileNetwork
  Networks = {web, edge}
  Profiles = {prof, gone}
  None = None
  Parent <- MCParent
  Rank <- MCRank
  Tools = 1
  MaxCommands = 2
  MaxFaults = 1
SPECIFICATION Spec
PROPERTIES OverwriteIsAsked
CHECK_DEADLOCK FALSE
