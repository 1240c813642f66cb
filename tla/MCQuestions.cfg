SPECIFICATION TimedSpec
CONSTANTS
  a = a  b = b  c = c  old = old  older = older  none = none  f = f  g = g
  Ops = {a, b, c}
  May <- MCMay
  Past = {old, older}
  Files = {f, g}
  NoColl = none
  MissBound = 1
  Starts <- MCStarts
CHECK_DEADLOCK FALSE
INVARIANTS TypeOK PgKeepsParents PassesTakeTurns OneIndexPerFile
PROPERTIES ReplacingNeverEmpties LoneRequestsHeal PendingEnds
