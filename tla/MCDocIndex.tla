----------------------------- MODULE MCDocIndex -----------------------------
(* Texts that share words and n-grams, repeat one, and have none.           *)
EXTENDS TextSearch

MCText == {<<>>, <<<<"y">>>>, <<<<"x">>, <<"y">>, <<"x">>>>,
           <<<<"x", "y">>>>, <<<<"x", "y", "x", "y">>>>}
MCK1 == <<1, 1>>
MCB == <<1, 2>>
=============================================================================
