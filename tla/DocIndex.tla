------------------------------ MODULE DocIndex ------------------------------
(***************************************************************************)
(* The text indexes of internal/store. BM25, n-gram and TF-IDF (bm25.go,   *)
(* ngram.go, tfidf.go) are inverted indexes with the bookkeeping their     *)
(* scores need, kept up to date one document at a time or rebuilt from a   *)
(* snapshot of the store; LSA (lsa.go) is always rebuilt. They are given   *)
(* the same documents here, one call at a time; who calls them when is in  *)
(* Service, and what they answer in TextSearch.                            *)
(*                                                                         *)
(* A text is the sequence of its words, which are sequences of letters:    *)
(* what is between the words and the case of the letters is gone. An       *)
(* inverted index is a total function to frequencies: 0 stands for a key   *)
(* that is not among the postings of a token, and for the postings of a    *)
(* token that the code deletes when they are empty.                        *)
(***************************************************************************)
EXTENDS Integers, Sequences, FiniteSets, FiniteSetsExt, SequencesExt

CONSTANTS
  Key, Letter,
  Text,    \* a set of sequences of words
  N,       \* the size of an n-gram
  DimK,    \* the rank LSA is asked for
  NoDoc    \* no document under a key

ASSUME KeyAssumption == IsFiniteSet(Key)
ASSUME TextAssumption == IsFiniteSet(Text) /\ Text \subseteq Seq(Seq(Letter) \ {<<>>})
ASSUME SizesAssumption == N \in Nat \ {0} /\ DimK \in Nat \ {0}
ASSUME NoDocAssumption == NoDoc \notin Text /\ NoDoc \notin Seq(Seq(Letter)) /\ NoDoc \notin Nat

-----------------------------------------------------------------------------
(* Taking texts apart *)

tokenize(text) == text

\* A word that is shorter than n stays whole.
Windows(word) ==
  IF Len(word) < N THEN <<word>>
  ELSE [i \in 1..(Len(word) - N + 1) |-> SubSeq(word, i, i + N - 1)]

ExtractNgrams(text) == FlattenSeq([i \in DOMAIN text |-> Windows(text[i])])

ElementsOf(tokens) == {tokens[n] : n \in DOMAIN tokens}
Token == UNION {ElementsOf(tokenize(text)) \cup ElementsOf(ExtractNgrams(text)) : text \in Text}

VARIABLES
  bm25, ngram, tfidf, lsa, \* the indexes
  given                    \* history: the document each key was given last

vars == <<bm25, ngram, tfidf, lsa, given>>

NoDocs == [k \in Key |-> NoDoc]
Documents(docs) == {k \in Key : docs[k] # NoDoc}

-----------------------------------------------------------------------------
(* Postings *)

Occurrences(t, tokens) == Cardinality({n \in DOMAIN tokens : tokens[n] = t})
Occurs(t, tokens) == \E n \in DOMAIN tokens : tokens[n] = t

NoPostings == [t \in Token |-> [k \in Key |-> 0]]
DocFreq(postings, t) == Cardinality({k \in Key : postings[t][k] > 0})

\* The removal loop: the postings of a key go, for the tokens it had.
Unpost(postings, key, tokens) ==
  [t \in Token |-> IF Occurs(t, tokens) THEN [postings[t] EXCEPT ![key] = 0]
                                        ELSE postings[t]]

\* invertedIndex[tok][key]++ for each token: it adds to what is there.
Post(postings, key, tokens) ==
  [t \in Token |-> [postings[t] EXCEPT ![key] = @ + Occurrences(t, tokens)]]

\* Mutation: the postings of the old text stay.
RepostOnTop(idx, key, tokens) == Post(idx.postings, key, tokens)

\* The common part of IndexDocument.
Repost(idx, key, tokens) ==
  Post(IF idx.docTokens[key] = NoDoc THEN idx.postings
       ELSE Unpost(idx.postings, key, idx.docTokens[key]), key, tokens)

-----------------------------------------------------------------------------
(* BM25 *)

EmptyBM25 == [postings |-> NoPostings, docTokens |-> NoDocs,
              docCount |-> 0, totalTokens |-> 0, avgDocLength |-> <<0, 1>>]

\* Mutation: the old length is one too long.
PrevLengthPlus(idx, key) ==
  IF idx.docTokens[key] = NoDoc THEN 0 ELSE Len(idx.docTokens[key]) + 1

PrevLength(idx, key) ==
  IF idx.docTokens[key] = NoDoc THEN 0 ELSE Len(idx.docTokens[key])

\* A quotient is the pair of its terms; docLengths is Len of docTokens.
Average(total, count) == IF count > 0 THEN <<total, count>> ELSE <<0, 1>>

BM25IndexDocument(idx, key, text) ==
  LET count == idx.docCount + (IF idx.docTokens[key] = NoDoc THEN 1 ELSE 0)
      total == idx.totalTokens - PrevLength(idx, key) + Len(tokenize(text))
  IN [postings     |-> Repost(idx, key, tokenize(text)),
      docTokens    |-> [idx.docTokens EXCEPT ![key] = tokenize(text)],
      docCount     |-> count,
      totalTokens  |-> total,
      avgDocLength |-> Average(total, count)]

\* Mutation: the counters are left as they were.
BM25RemovePostings(idx, key) ==
  IF idx.docTokens[key] = NoDoc THEN idx
  ELSE [idx EXCEPT !.postings = Unpost(@, key, idx.docTokens[key]),
                   !.docTokens[key] = NoDoc]

BM25RemoveDocument(idx, key) ==
  IF idx.docTokens[key] = NoDoc THEN idx
  ELSE LET count == idx.docCount - 1
           total == idx.totalTokens - PrevLength(idx, key)
       IN [postings     |-> Unpost(idx.postings, key, idx.docTokens[key]),
           docTokens    |-> [idx.docTokens EXCEPT ![key] = NoDoc],
           docCount     |-> count,
           totalTokens  |-> total,
           avgDocLength |-> Average(total, count)]

\* Resets everything but avgDocLength, then indexes the items one by one.
BM25Rebuild(idx, items) ==
  FoldSet(LAMBDA k, b : BM25IndexDocument(b, k, items[k]),
          [EmptyBM25 EXCEPT !.avgDocLength = idx.avgDocLength], Documents(items))

-----------------------------------------------------------------------------
(* N-grams: a text without n-grams is not a document *)

EmptyNgram == [postings |-> NoPostings, docTokens |-> NoDocs]

NgramIndexDocument(idx, key, text) ==
  [postings  |-> Repost(idx, key, ExtractNgrams(text)),
   docTokens |-> [idx.docTokens EXCEPT
                    ![key] = IF ExtractNgrams(text) = <<>> THEN NoDoc ELSE ExtractNgrams(text)]]

NgramRemoveDocument(idx, key) ==
  IF idx.docTokens[key] = NoDoc THEN idx
  ELSE [postings  |-> Unpost(idx.postings, key, idx.docTokens[key]),
        docTokens |-> [idx.docTokens EXCEPT ![key] = NoDoc]]

NgramRebuild(items) ==
  FoldSet(LAMBDA k, g : NgramIndexDocument(g, k, items[k]),
          EmptyNgram, Documents(items))

-----------------------------------------------------------------------------
(* TF-IDF: Rebuild skips a text without tokens, IndexDocument counts it *)

\* Integers in place of 1 + ln(count) and ln((docCount + 1) / (df + 1/2)): both are
\* positive; the first grows with the count, the second with the rareness of a token.
TfWeight(count) == count
Idf(df, docCount) == docCount - df + 1

\* The weight of a token in a document or query that has it so often.
Weight(idx, t, count) ==
  IF count = 0 THEN 0 ELSE TfWeight(count) * Idf(DocFreq(idx.postings, t), idx.docCount)

\* The square of the L2 norm of a document.
Norm(idx, k) ==
  SumFunction([t \in ElementsOf(idx.docTokens[k]) |->
                 Weight(idx, t, Occurrences(t, idx.docTokens[k]))
                   * Weight(idx, t, Occurrences(t, idx.docTokens[k]))])

recomputeNorms(idx) ==
  [idx EXCEPT !.docNorms =
     [k \in Key |-> IF idx.docCount = 0 \/ idx.docTokens[k] = NoDoc
                    THEN NoDoc ELSE Norm(idx, k)]]

EmptyTFIDF == [postings |-> NoPostings, docTokens |-> NoDocs, docNorms |-> NoDocs,
               docCount |-> 0]

TFIDFIndexDocument(idx, key, text) ==
  recomputeNorms(
    [idx EXCEPT !.postings = Repost(idx, key, tokenize(text)),
                !.docTokens[key] = tokenize(text),
                !.docCount = @ + (IF idx.docTokens[key] = NoDoc THEN 1 ELSE 0)])

TFIDFRemoveDocument(idx, key) ==
  IF idx.docTokens[key] = NoDoc THEN idx
  ELSE recomputeNorms(
         [idx EXCEPT !.postings = Unpost(@, key, idx.docTokens[key]),
                     !.docTokens[key] = NoDoc,
                     !.docCount = @ - 1])

Tokenless(text) == tokenize(text) = <<>>

TFIDFRebuild(items) ==
  LET kept == {k \in Documents(items) : ~Tokenless(items[k])}
  IN recomputeNorms(
       [EmptyTFIDF EXCEPT
          !.postings = FoldSet(LAMBDA k, p : Post(p, k, tokenize(items[k])), @, kept),
          !.docTokens = [k \in Key |-> IF k \in kept THEN tokenize(items[k]) ELSE NoDoc],
          !.docCount = Cardinality(kept)])

-----------------------------------------------------------------------------
(* LSA: the documents and terms of its matrix and the rank it is cut down  *)
(* to; what the decomposition computes from them is left out               *)

EmptyLSA == [docKeys |-> {}, cells |-> {}, termIDF |-> <<>>, rank |-> 0]

\* The terms are the domain of termIDF; cells are those of the matrix that are not
\* zero. A document without tokens has a column of zeros.
LSAMatrix(items) ==
  LET docs == Documents(items)
      terms == UNION {ElementsOf(tokenize(items[k])) : k \in docs}
      cells == {c \in terms \X docs : Occurs(c[1], tokenize(items[c[2]]))}
      df(t) == Cardinality({k \in docs : <<t, k>> \in cells})
  IN [docKeys |-> docs, cells |-> cells,
      termIDF |-> [t \in terms |-> Idf(df(t), Cardinality(docs))],
      rank |-> Min({DimK, Cardinality(terms), Cardinality(docs)})]

NothingToDecompose(items) == \A k \in Documents(items) : Tokenless(items[k])

\* Mutation: a store without documents or terms leaves the old matrix.
LSARebuildUnlessEmpty(old, items) ==
  IF NothingToDecompose(items) THEN old ELSE LSAMatrix(items)

LSARebuild(old, items) ==
  IF NothingToDecompose(items) THEN EmptyLSA ELSE LSAMatrix(items)

-----------------------------------------------------------------------------

Init ==
  /\ bm25 = EmptyBM25
  /\ ngram = EmptyNgram
  /\ tfidf = EmptyTFIDF
  /\ lsa = EmptyLSA
  /\ given = NoDocs

IndexDocument(k, text) ==
  /\ bm25' = BM25IndexDocument(bm25, k, text)
  /\ ngram' = NgramIndexDocument(ngram, k, text)
  /\ tfidf' = TFIDFIndexDocument(tfidf, k, text)
  /\ given' = [given EXCEPT ![k] = text]
  /\ lsa' = LSARebuild(lsa, given')  \* from engine.Items()

RemoveDocument(k) ==
  /\ bm25' = BM25RemoveDocument(bm25, k)
  /\ ngram' = NgramRemoveDocument(ngram, k)
  /\ tfidf' = TFIDFRemoveDocument(tfidf, k)
  /\ given' = [given EXCEPT ![k] = NoDoc]
  /\ lsa' = LSARebuild(lsa, given')  \* from engine.Items()

Rebuild(items) ==
  /\ bm25' = BM25Rebuild(bm25, items)
  /\ ngram' = NgramRebuild(items)
  /\ tfidf' = TFIDFRebuild(items)
  /\ lsa' = LSARebuild(lsa, items)
  /\ given' = items

Next ==
  \/ \E k \in Key : RemoveDocument(k) \/ \E text \in Text : IndexDocument(k, text)
  \/ \E items \in [Key -> Text \cup {NoDoc}] : Rebuild(items)

Spec == Init /\ [][Next]_vars

-----------------------------------------------------------------------------
(* Correctness *)

Postings == [Token -> [Key -> Nat]]
DocTokens == [Key -> Seq(Token) \cup {NoDoc}]

\* Every variable has its type.
TypeOK ==
  /\ bm25.postings \in Postings /\ bm25.docTokens \in DocTokens
  /\ bm25.docCount \in Nat /\ bm25.totalTokens \in Nat
  /\ bm25.avgDocLength \in Nat \X (Nat \ {0})
  /\ ngram.postings \in Postings /\ ngram.docTokens \in DocTokens
  /\ tfidf.postings \in Postings /\ tfidf.docTokens \in DocTokens
  /\ tfidf.docCount \in Nat /\ tfidf.docNorms \in [Key -> Nat \cup {NoDoc}]
  /\ lsa.docKeys \subseteq Key /\ lsa.cells \subseteq (DOMAIN lsa.termIDF) \X lsa.docKeys
  /\ DOMAIN lsa.termIDF \subseteq Token /\ lsa.rank \in 0..DimK
  /\ given \in [Key -> Text \cup {NoDoc}]

\* How often a token occurs in the document that key k was given.
Wanted(pieces(_), t, k) ==
  IF given[k] = NoDoc THEN 0 ELSE Occurrences(t, pieces(given[k]))

\* How often a token is posted under a key is how often it occurs in the document
\* the key was given last.
PostingsExact ==
  \A t \in Token, k \in Key :
    /\ bm25.postings[t][k] = Wanted(tokenize, t, k)
    /\ tfidf.postings[t][k] = Wanted(tokenize, t, k)
    /\ ngram.postings[t][k] = Wanted(ExtractNgrams, t, k)

Places(docTokens) == UNION {{k} \X DOMAIN docTokens[k] : k \in Documents(docTokens)}

\* The counters BM25 and TF-IDF maintain by increments agree with the documents
\* they hold, and so does the average length that BM25 divides by.
CountersExact ==
  /\ bm25.docCount = Cardinality(Documents(bm25.docTokens))
  /\ tfidf.docCount = Cardinality(Documents(tfidf.docTokens))
  /\ bm25.totalTokens = Cardinality(Places(bm25.docTokens))
  /\ bm25.docCount > 0 => bm25.avgDocLength = <<bm25.totalTokens, bm25.docCount>>

\* The norms TF-IDF divides by are those of the documents it holds, computed
\* from the document counts of this moment: no change of another document
\* leaves one behind (tfidf.go:78, 101).
NormsFresh ==
  \A k \in Key :
    tfidf.docNorms[k] = IF tfidf.docTokens[k] = NoDoc THEN NoDoc ELSE Norm(tfidf, k)

\* After any sequence of calls, postings and the statistics the scores are
\* computed from are those of the documents given last, however they came and
\* went: re-indexing leaves nothing of the old text and counts nothing twice
\* (bm25.go:72-102, 110-127, ngram.go:47-73, tfidf.go:55-78, 87-101).
IndexExact == PostingsExact /\ CountersExact /\ NormsFresh

\* Incremental updates and a Rebuild from the same documents give the same
\* index. TF-IDF counts documents without tokens unless it was rebuilt, so it
\* agrees when there are none.
RebuildAgrees ==
  /\ Documents(given) # {} => bm25 = BM25Rebuild(bm25, given)
  /\ ngram = NgramRebuild(given)
  /\ (\A k \in Documents(given) : ~Tokenless(given[k])) => tfidf = TFIDFRebuild(given)
=============================================================================
