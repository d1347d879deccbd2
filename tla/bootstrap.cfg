\* Two tunnels, two names; three commands, one mishap or edit by hand.
SPECIFICATION Spec
CONSTANTS
  Tunnels = {t1, t2}
  Names = {n1, n2}
  DefaultName = n1
  None = None
  MaxRuns = 3
  MaxMishaps = 1
SYMMETRY Symmetry
INVARIANTS TypeOK CredentialsMatch WiringDelivers WiringAcceptsItself ReadyServes
PROPERTIES SecretsKept SettledStays
