SPECIFICATION Spec
CONSTANTS
  a = a  b = b  c = c  p = p  q = q  r = r  known = known
  Ops = {a, b, c}
  May <- MCMay
  Past = {p, q, r}
  Known = known
  Starts <- MCStarts
  KeepPairs = 1
  SessionTTL = 1
  MaxClock = 2
CHECK_DEADLOCK FALSE
INVARIANTS TypeOK HistoriesWellFormed UndoTakesOneExchange FoldSettles DeletedStaysDeleted
PROPERTIES QuietWritesKeepAll
