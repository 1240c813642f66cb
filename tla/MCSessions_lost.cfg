SPECIFICATION Spec
CONSTANTS
  a = a  b = b  c = c  p = p  q = q  r = r  known = known
  Ops = {a, b}
  May <- MCTurns
  Past = {p, q, r}
  Known = known
  Starts <- MCShort
  KeepPairs = 1
  SessionTTL = 2
  MaxClock = 0
CHECK_DEADLOCK FALSE
PROPERTIES NothingDropped
