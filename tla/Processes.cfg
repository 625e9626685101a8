SPECIFICATION ScopeSpec
CONSTANTS
  a = a  b = b
  Pids = {a, b}  MaxStarts = 4  MaxForks = 2  MaxDenials = 1
  QuietRequired = 2  Routes = {"bounded", "plain"}
SYMMETRY PidSymmetry
INVARIANTS SignalsOnlyOwned DrainTruthful
CHECK_DEADLOCK FALSE
