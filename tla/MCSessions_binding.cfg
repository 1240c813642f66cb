SPECIFICATION Spec
CONSTANTS
  a = a  b = b  c = c  p = p  q = q  r = r  known = known
  Ops = {a}
  May <- MCTurns
  Past = {p, q, r}
  Known = known
  Starts <- MCNone
  KeepPairs = 1
  SessionTTL = 2
  MaxClock = 3
CHECK_DEADLOCK FALSE
PROPERTIES BindingLivesAsLong
