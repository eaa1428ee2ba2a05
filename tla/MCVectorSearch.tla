--------------------------- MODULE MCVectorSearch ---------------------------
(* Vectors that tie with each other, point away, have another length and    *)
(* none: every store of three keys with them.                               *)
EXTENDS VectorSearch

MCVector == {<<>>, <<3>>, <<1, 2>>, <<2, 4>>, <<-1, 0>>}
MCQuery == {<<>>, <<1, 1>>}
=============================================================================
