SPECIFICATION Spec
CONSTANTS
  a = a  b = b  c = c  d = d  p = p  q = q  fast = fast  smart = smart  alone = alone  k0 = k0  none = none
  noEntry = noEntry  refused = refused  unknown = unknown  absent = absent  empty = empty  torn = torn  unread = unread
  Ids = {fast, smart, alone}
  NoId = none
  Synthetic = alone
  Refused = refused
  Ops = {a, b, c, d}
  Procs = {p, q}
  MaxEvents = 2
  PageLimit = 2
  Docs <- MCDocs
  Absent = absent
  Empty = empty
  Torn = torn
  Unread = unread
  First = k0
  NoEntry = noEntry
  Scopes <- MCScopes
  Unknown = unknown
  Limit = 1
  FailLimit = 1
  MaxWindow = 2
  Calls <- MCCalls
  Boot <- MCBoot
CHECK_DEADLOCK FALSE
INVARIANTS TypeOK ScopeKept NeverLockedOut KeysAddUp WindowHolds FileAlwaysBoots AuditPagesContiguous
PROPERTIES SessionsDowngrade SavesAllOrNothing
