\* Three keys and two goroutines; a call that has returned does nothing more.
SPECIFICATION Spec
CONSTANTS
  Key = {1, 2, 3}
  Vector <- MCVector
  Query <- MCQuery
  TopK = {0, 2}
  Worker = {w1, w2}
  NoItem = NoItem
INVARIANTS
  TypeOK
  AnswerExact
PROPERTY SearchReturns
CHECK_DEADLOCK FALSE
