----------------------------- MODULE TextSearch -----------------------------
(***************************************************************************)
(* What the text indexes answer: SearchWithMetric of ngram.go, Search of   *)
(* bm25.go, tfidf.go and lsa.go, over the indexes of DocIndex. A query is  *)
(* a text like any other. BM25 and TF-IDF scores are exact fractions, of   *)
(* the integer weights of DocIndex where the code has logarithms.          *)
(***************************************************************************)
EXTENDS DocIndex, Ranking

CONSTANTS
  K1, B  \* the parameters of BM25, fractions

ASSUME KeyOrderAssumption == Key \subseteq Nat
ASSUME BM25Assumption == K1 \in (Nat \ {0}) \X (Nat \ {0}) /\ B \in (Nat \ {0}) \X (Nat \ {0})

Finds(postings, q) == {k \in Key : \E t \in ElementsOf(q) : postings[t][k] > 0}

-----------------------------------------------------------------------------
(* N-grams *)

Metric == {"Dice", "Jaccard", "Overlap"}

\* Mutation: the n-grams of the query are counted as often as the document has them.
SharedAsInDocument(q, k) ==
  SumFunction([g \in ElementsOf(q) |-> ngram.postings[g][k]])

Shared(q, k) ==
  SumFunction([g \in ElementsOf(q) |-> Min({Occurrences(g, q), ngram.postings[g][k]})])

\* math.Round(score * 10000), for the score n / d.
TenThousandths(n, d) == (20000 * n + d) \div (2 * d)

NgramScore(metric, q, k) ==
  LET shared == Shared(q, k)
      lenQ == Len(q)
      docLen == Len(ngram.docTokens[k])
  IN CASE metric = "Dice"    -> TenThousandths(2 * shared, lenQ + docLen)
       [] metric = "Jaccard" -> TenThousandths(shared, lenQ + docLen - shared)
       [] metric = "Overlap" -> TenThousandths(shared, Min({lenQ, docLen}))

NgramScores(metric, query) ==
  [k \in Finds(ngram.postings, ExtractNgrams(query)) |->
     <<NgramScore(metric, ExtractNgrams(query), k), 10000>>]

SearchWithMetric(query, topK, metric) == Truncate(Ranked(NgramScores(metric, query)), topK)

-----------------------------------------------------------------------------
(* BM25 *)

\* A division of floats, of a positive number: none fails.
Quotient(n, d) == IF d = 0 THEN Infinite ELSE IF d > 0 THEN <<n, d>> ELSE <<-n, -d>>

\* tf (k1 + 1) / (tf + k1 (1 - b + b dl / avgDocLength)), as one fraction. Nothing
\* keeps b below one, and above one the divisor may be anything.
LengthNorm(tf, dl) ==
  LET total == bm25.avgDocLength[1]
      count == bm25.avgDocLength[2]
  IN IF total = 0 THEN <<tf, 1>>
     ELSE Quotient(tf * (K1[1] + K1[2]) * B[2] * total,
                   tf * K1[2] * B[2] * total
                     + K1[1] * ((B[2] - B[1]) * total + B[1] * dl * count))

Weighted(weight, x) == IF x = Infinite THEN Infinite ELSE <<weight * x[1], x[2]>>

\* A token that the query has twice adds twice.
BM25Score(q, k) ==
  FoldSet(LAMBDA t, sum :
            LET norm == LengthNorm(bm25.postings[t][k], Len(bm25.docTokens[k]))
                idf == Idf(DocFreq(bm25.postings, t), bm25.docCount)
            IN Add(sum, Weighted(Occurrences(t, q) * idf, norm)),
          <<0, 1>>, {t \in ElementsOf(q) : bm25.postings[t][k] > 0})

BM25Scores(query) ==
  [k \in Finds(bm25.postings, tokenize(query)) |-> BM25Score(tokenize(query), k)]

BM25Search(query, topK) == Truncate(Ranked(BM25Scores(query)), topK)

-----------------------------------------------------------------------------
(* TF-IDF: a token that no document has is no part of the query's norm *)

Known(q) == {t \in ElementsOf(q) : DocFreq(tfidf.postings, t) > 0}
QueryWeight(q, t) == Weight(tfidf, t, Occurrences(t, q))
QueryNorm(q) == SumFunction([t \in Known(q) |-> QueryWeight(q, t) * QueryWeight(q, t)])
Dot(q, k) ==
  SumFunction([t \in Known(q) |-> QueryWeight(q, t) * Weight(tfidf, t, tfidf.postings[t][k])])

TFIDFFinds(q) ==
  IF q = <<>> \/ tfidf.docCount = 0 \/ QueryNorm(q) = 0 THEN {}
  ELSE {k \in Finds(tfidf.postings, q) : tfidf.docNorms[k] \notin {NoDoc, 0}}

\* The square of the cosine, but for the query's norm, which all have in common.
TFIDFScores(query) ==
  LET q == tokenize(query)
  IN [k \in TFIDFFinds(q) |-> <<Dot(q, k) * Dot(q, k), tfidf.docNorms[k]>>]

TFIDFSearch(query, topK) == Truncate(Ranked(TFIDFScores(query)), topK)

-----------------------------------------------------------------------------
(* LSA: which documents have a positive cosine is up to the decomposition, *)
(* but for a column of zeros, which has none                               *)

LSAAnswers(query) ==
  IF ElementsOf(tokenize(query)) \cap DOMAIN lsa.termIDF = {} THEN {{}}
  ELSE SUBSET {k \in lsa.docKeys : \E t \in DOMAIN lsa.termIDF : <<t, k>> \in lsa.cells}

-----------------------------------------------------------------------------
(* Correctness *)

\* The documents that have one of the query's pieces.
Sharing(pieces(_), query) ==
  {k \in Documents(given) :
     ElementsOf(pieces(given[k])) \cap ElementsOf(pieces(query)) # {}}

\* A search over everything ranks every document that shares a token or n-gram
\* with the query, each once, and no other: not one that was removed, not one
\* whose text changed, and a norm or count of zero hides none (ngram.go:123-136,
\* bm25.go:137-156, tfidf.go:131-176, lsa.go:168-215).
SearchExact ==
  \A query \in Text :
    /\ \A metric \in Metric :
         KeysOf(SearchWithMetric(query, 0, metric)) = Sharing(ExtractNgrams, query)
    /\ KeysOf(BM25Search(query, 0)) = Sharing(tokenize, query)
    /\ KeysOf(TFIDFSearch(query, 0)) = Sharing(tokenize, query)
    /\ \A answer \in LSAAnswers(query) :
         \A k \in answer : given[k] # NoDoc /\ ~Tokenless(given[k])

SameBag(p, q) == \A t \in Token : Occurrences(t, p) = Occurrences(t, q)

\* The query is a piece of a word of the document.
WithinWord(query, doc) ==
  /\ Len(query) = 1 /\ Len(query[1]) >= N
  /\ \E w \in ElementsOf(doc) : \E i, j \in DOMAIN w : query[1] = SubSeq(w, i, j)

\* Similarities stay between zero and one. Dice and Jaccard are one for a document
\* with the n-grams of the query equally often, Overlap when the query is a piece of
\* a word; and as long as the two have fewer than 20000 n-grams together, rounding
\* makes no similarity zero and no other one (ngram.go:145-165).
SimilaritiesSound(query, k, q, d) ==
  /\ \A metric \in Metric : NgramScore(metric, q, k) \in 0..10000
  /\ SameBag(q, d) => \A metric \in {"Dice", "Jaccard"} : NgramScore(metric, q, k) = 10000
  /\ WithinWord(query, given[k]) => NgramScore("Overlap", q, k) = 10000
  /\ Len(q) + Len(d) < 20000 =>
       /\ \A metric \in Metric : NgramScore(metric, q, k) > 0
       /\ \A metric \in {"Dice", "Jaccard"} :
            NgramScore(metric, q, k) = 10000 => SameBag(q, d)

NgramScoresSound ==
  \A query \in Text, k \in Key : k \in Sharing(ExtractNgrams, query) =>
    SimilaritiesSound(query, k, ExtractNgrams(query), ExtractNgrams(given[k]))

\* BM25: with b at most one, a document that has every token of the query at least
\* as often and is no longer never scores less (bm25.go:142-154). With a larger b,
\* which the settings allow, short documents may score below zero.
BM25ScoresSound ==
  B[1] <= B[2] => \A query \in Text : \A j, k \in Sharing(tokenize, query) :
    /\ \A t \in ElementsOf(tokenize(query)) :
         Occurrences(t, tokenize(given[j])) >= Occurrences(t, tokenize(given[k]))
    /\ Len(tokenize(given[j])) <= Len(tokenize(given[k]))
    => ~Less(BM25Score(tokenize(query), j), BM25Score(tokenize(query), k))

\* TF-IDF: the cosine is at most one, and it is one for a document with the
\* query's own tokens (tfidf.go:153-176).
TFIDFScoresSound ==
  \A query \in Text, k \in Key : k \in Sharing(tokenize, query) =>
    LET q == tokenize(query)
        bound == QueryNorm(q) * tfidf.docNorms[k]
    IN /\ Dot(q, k) * Dot(q, k) <= bound
       /\ SameBag(q, tokenize(given[k])) => Dot(q, k) * Dot(q, k) = bound

\* The scores mean what their names promise, after any history of the indexes.
ScoresSound == NgramScoresSound /\ BM25ScoresSound /\ TFIDFScoresSound
=============================================================================
