-------------------------- MODULE MCVectorPipeline --------------------------
(* Two texts with an embedding each, a request that brings its own vector,  *)
(* and a limit that two entries with embeddings do not fit in.              *)
EXTENDS VectorPipeline, TLC

MCKeyLen == [k \in Key |-> 1]
MCValueLen == [v \in Value |-> 1]
MCVectorLen == [v \in Vector |-> IF v = "none" THEN 0 ELSE 1]
MCEmbedding == [v \in Value |-> IF v = "a" THEN "embedded a" ELSE "embedded b"]

MCItem(v, vec, exp) == [value |-> v, costMs |-> 1, vector |-> vec,
                        accessCount |-> 0, expiresAt |-> exp]
MCInputItem == {MCItem("a", "none", 0), MCItem("b", "own", 1)}

Symmetry == Permutations(Handler) \cup Permutations(Worker)
=============================================================================
