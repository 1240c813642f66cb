SPECIFICATION Spec
CONSTANTS
  RrfK = 1
  ContextWindow = 1
  LongestList = 3
  Ops = {t1}
  f = f  g = g
  Sources = {f, g}
  Starts <- MCStarts
  AllFiles = allFiles
  NoList = noList
  LastIndices <- MCLastIndices
  Fruitful = {4}
  MaxWrites = 2
  Limit = 2
  Pool = 2
CHECK_DEADLOCK FALSE
INVARIANTS PassagesAreRuns BothPathsOutrank OneCopyEach
