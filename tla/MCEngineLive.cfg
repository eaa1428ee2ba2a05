\* Liveness: two clients and the worker on one key, with FairSpec.
SPECIFICATION FairSpec
CONSTANTS
  Client = {c1, c2}
  Worker = worker
  Key = {k1}
  Value = {"short", "long"}
  Vector = {"none"}
  Cost = {1}
  KeyLen <- MCKeyLen
  ValueLen <- MCValueLen
  VectorLen <- MCVectorLen
  SizeofItem = 1
  MaxMemoryBytes = 6
  Absent = Absent
  InputItem <- MCExpiringItem
  MaxTime = 2
  MaxHits = 1
PROPERTIES
  CallsReturn
  ExpiredReclaimed
  WorkerExits
