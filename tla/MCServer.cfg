SPECIFICATION Spec
CONSTANTS
  Missing = Missing
  Garbage = Garbage
  NaN = NaN
  Infinity = Infinity
  NotThere = NotThere
  Unreadable = Unreadable
  Malformed = Malformed
  Gone = Gone
  Key = {1, 2, 3}
  File <- MCFile
  Env <- MCEnv
  Scoring <- MCScoring
  Asked = {0, 1}
  AskedRRFK = {0, 20000}
  Indexed <- MCIndexed
  Coarse = 20000
  Second = 10
  Half = 512
  MaxBuffer = 500
  MaxChanges = 1
INVARIANTS
  TypeOK
  ConfigAsWritten
  StrategiesAsAsked
  FusionAgrees
  ResultsFromRequest
CHECK_DEADLOCK FALSE
