SPECIFICATION Spec
CONSTANTS
  a = a  b = b  c = c  old = old  older = older  none = none  f = f  g = g
  Ops = {a, b}
  May <- MCUploadDelete
  Past = {old, older}
  Files = {f, g}
  NoColl = none
  MissBound = 0
  Starts <- MCLastFile
CHECK_DEADLOCK FALSE
PROPERTIES OnlyEmptyDropped
