\* Two keys, two handlers, two workers; two entries with embeddings do not fit.
SPECIFICATION Spec
CONSTANTS
  Key = {k1, k2}
  Value = {"a", "b"}
  Vector = {"none", "own", "embedded a", "embedded b"}
  Cost = {1}
  KeyLen <- MCKeyLen
  ValueLen <- MCValueLen
  VectorLen <- MCVectorLen
  SizeofItem = 1
  MaxMemoryBytes = 10
  Absent = Absent
  Handler = {h1, h2}
  Worker = {w1, w2}
  BufferSize = 1
  NoJob = NoJob
  NoVector = "none"
  Embedding <- MCEmbedding
  InputItem <- MCInputItem
  MaxSets = 3
INVARIANTS
  TypeOK
  NoMixedEntry
  VectorOfSameKey
  
SYMMETRY Symmetry
\* The requests are bounded: when they are used up the pipeline comes to rest.
CHECK_DEADLOCK FALSE
