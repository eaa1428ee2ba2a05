\* Safety: two clients and the worker on two keys.
SPECIFICATION Spec
CONSTANTS
  Client = {c1, c2}
  Worker = worker
  Key = {k1, k2}
  Value = {"short", "long"}
  Vector = {"none"}
  Cost = {1}
  KeyLen <- MCKeyLen
  ValueLen <- MCValueLen
  VectorLen <- MCVectorLen
  SizeofItem = 1
  MaxMemoryBytes = 8
  Absent = Absent
  InputItem <- MCInputItem
  MaxTime = 2
  MaxHits = 1
INVARIANTS
  TypeOK
  AccountingExact
  WithinLimit
  IInv
PROPERTIES
  NoLiveEntryLost
  Linearizable
SYMMETRY Symmetry
