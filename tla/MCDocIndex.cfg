\* Three keys and five texts; every sequence of calls, and every text as a query.
SPECIFICATION Spec
CONSTANTS
  Key = {1, 2, 3}
  Letter = {"x", "y"}
  Text <- MCText
  N = 2
  DimK = 2
  NoDoc = NoDoc
  K1 <- MCK1
  B <- MCB
INVARIANTS
  TypeOK
  IndexExact
  RebuildAgrees
  SearchExact
  ScoresSound
