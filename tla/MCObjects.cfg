SPECIFICATION ObjectsSpec
CONSTANTS
  Node = {1, 2, 3, 4}
  NULL = NULL
  Free = Free
  Header = Header
  MAXLEVEL = 3
  ht_fn <- MCHash
  HT_SMALL_CAP = 2
  Value = {x, y}
  Member = {1, 2}
  Score = {1, 2}
  MaxIndex = 5
INVARIANTS ListShape TableShape LevelsNest BothWaysAgree 
PROPERTIES ListActsAsSequence TableActsAsMap
