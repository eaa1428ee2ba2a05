\* One key: a request between the Get and the Set of the callback.
SPECIFICATION Spec
CONSTANTS
  Key = {k1}
  Value = {"a", "b"}
  Vector = {"none", "own", "embedded a", "embedded b"}
  Cost = {1}
  KeyLen <- MCKeyLen
  ValueLen <- MCValueLen
  VectorLen <- MCVectorLen
  SizeofItem = 1
  MaxMemoryBytes = 14
  Absent = Absent
  Handler = {h1}
  Worker = {w1}
  BufferSize = 1
  NoJob = NoJob
  NoVector = "none"
  Embedding <- MCEmbedding
  InputItem <- MCInputItem
  MaxSets = 2
PROPERTIES
  CallbackOnlyUpdatesVector
SYMMETRY Symmetry
\* The requests are bounded: when they are used up the pipeline comes to rest.
CHECK_DEADLOCK FALSE
