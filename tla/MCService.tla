----------------------------- MODULE MCService -----------------------------
(* Values for TLC. The processes are alike when all are both client and      *)
(* worker, or none is a worker, and the keys are when all or none may        *)
(* expire. One search is enough where only changes matter.                   *)
EXTENDS Service, TLC

OneSearch == {<<"tfidf">>}

Symmetry == Permutations(Client) \cup Permutations(Key)
=============================================================================
