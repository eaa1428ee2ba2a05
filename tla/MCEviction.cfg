\* Evict on every small store, alone and among clients.
SPECIFICATION EvictSpec
CONSTANTS
  Key = {k1, k2, k3}
  Value = {"short", "long"}
  Vector = {"none"}
  Cost = {1, 2}
  KeyLen <- MCKeyLen
  ValueLen <- MCValueLen
  VectorLen <- MCVectorLen
  SizeofItem = 1
  MaxMemoryBytes = 11
  Absent = Absent
  StoredItem <- MCStoredItem
  ClientItem <- MCClientItem
  Target <- MCTarget
  MaxReads = 1
INVARIANTS
  EvictTypeOK
  CheapestGoFirst
  NoEntryTooMany
  ReachesTarget
PROPERTIES
  EvictReturns
