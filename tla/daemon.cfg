\* One stack, a daemon without observers, with the local ones, or with the
\* providers; two commands, one fault and one change of the sites root.
SPECIFICATION Spec
CONSTANTS
  Hosts = {h1}
  Options = {{}, {"runtime"}, {"cloudflare", "ses"}}
  NoUnit = NoUnit
  MaxChanges = 1
  MaxCommands = 2
  MaxFaults = 1
INVARIANTS TypeOK OnceIsHonest ObserversAgree InstallReportHolds UninstallReportHolds
PROPERTIES StacksGetRecorded SilenceIsClean
CHECK_DEADLOCK FALSE
