\* A fresh host before `bootstrap runtime`, no mishaps.
SPECIFICATION Spec
CONSTANTS
  Tunnels = {t1, t2}
  Names = {n1, n2}
  DefaultName = n1
  None = None
  MaxRuns = 3
  MaxMishaps = 0
INVARIANT AdviceLeadsOn
