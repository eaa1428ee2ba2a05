---------------------------- MODULE SearchProofs ----------------------------
(***************************************************************************)
(* Proofs about the text indexes and their searches, for every set of      *)
(* texts, every size of n-grams and every history of calls.                *)
(***************************************************************************)
EXTENDS TextSearch, DataLemmas

-----------------------------------------------------------------------------
(* Texts and their pieces                                                  *)

\* f[m] is the concatenation of the first m sequences.
Concats(f, seqs, S) ==
  /\ f \in [1..Len(seqs) -> Seq(S)]
  /\ \A i \in 1..Len(seqs) : f[i] = IF i = 1 THEN seqs[i] ELSE f[i - 1] \o seqs[i]

Flattens(flat, seqs, S) ==
  \E f : Concats(f, seqs, S) /\ flat = IF Len(seqs) = 0 THEN <<>> ELSE f[Len(seqs)]

LEMMA FlattenIs ==
  ASSUME NEW S, NEW seqs \in Seq(Seq(S))
  PROVE  Flattens(FlattenSeq(seqs), seqs, S)
<1> DEFINE n == Len(seqs)
           body(f) == [i \in 1..n |-> IF i = 1 THEN seqs[i] ELSE f[i - 1] \o seqs[i]]
           flatten[i \in 1..n] == IF i = 1 THEN seqs[i] ELSE flatten[i - 1] \o seqs[i]
           good(m, f) == /\ f \in [1..m -> Seq(S)]
                         /\ \A i \in 1..m : f[i] = IF i = 1 THEN seqs[i] ELSE f[i - 1] \o seqs[i]
           G == {m \in Nat : m <= n => \E f : good(m, f)}
<1>1. n \in Nat /\ \A i \in 1..n : seqs[i] \in Seq(S)
  BY LenProperties, ElementOfSeq
<1>2. 0 \in G
  <2>1. good(0, [i \in 1..0 |-> <<>>])
    OBVIOUS
  <2> QED
    BY <2>1
<1>3. ASSUME NEW m \in Nat, m \in G PROVE m + 1 \in G
  <2> HIDE DEF good
  <2> SUFFICES ASSUME m + 1 <= n PROVE \E f : good(m + 1, f)
    OBVIOUS
  <2>0. m <= n
    BY <1>1
  <2>1. PICK f : good(m, f)
    BY <1>3, <2>0
  <2> USE DEF good
  <2> DEFINE h == [i \in 1..(m + 1) |-> IF i = 1 THEN seqs[i] ELSE f[i - 1] \o seqs[i]]
  <2>2. ASSUME NEW i \in 1..(m + 1), i # 1 PROVE i - 1 \in 1..m /\ f[i - 1] \in Seq(S)
    <3>1. i - 1 \in 1..m
      BY <2>2
    <3> QED
      BY <2>1, <3>1
  <2>3. h \in [1..(m + 1) -> Seq(S)]
    <3> SUFFICES ASSUME NEW i \in 1..(m + 1) PROVE h[i] \in Seq(S)
      OBVIOUS
    <3>1. seqs[i] \in Seq(S)
      BY <1>1
    <3>2. CASE i # 1
      <4>1. f[i - 1] \in Seq(S)
        BY <2>2, <3>2
      <4>2. f[i - 1] \o seqs[i] \in Seq(S)
        BY <3>1, <4>1, ConcatProperties
      <4> QED
        BY <3>2, <4>2
    <3> QED
      BY <3>1, <3>2
  <2>4. ASSUME NEW i \in 1..m PROVE h[i] = f[i]
    <3>1. i \in 1..(m + 1)
      OBVIOUS
    <3>2. h[i] = IF i = 1 THEN seqs[i] ELSE f[i - 1] \o seqs[i]
      BY <3>1
    <3>3. f[i] = IF i = 1 THEN seqs[i] ELSE f[i - 1] \o seqs[i]
      BY <2>1
    <3> QED
      BY <3>2, <3>3
  <2>5. ASSUME NEW i \in 1..(m + 1)
        PROVE  h[i] = IF i = 1 THEN seqs[i] ELSE h[i - 1] \o seqs[i]
    <3>1. CASE i # 1
      <4>1. h[i - 1] = f[i - 1]
        BY <2>2, <2>4, <3>1
      <4>2. h[i] = f[i - 1] \o seqs[i]
        BY <3>1
      <4> HIDE DEF h
      <4> QED
        BY <3>1, <4>1, <4>2
    <3> QED
      BY <3>1
  <2> HIDE DEF h
  <2>6. good(m + 1, h)
    BY <2>3, <2>5
  <2> QED
    BY <2>6, Zenon
<1> HIDE DEF G
<1>4. n \in G
  BY <1>1, <1>2, <1>3, NatSetInduction
<1> HIDE DEF good
<1>5. PICK f : good(n, f)
  BY <1>1, <1>4 DEF G
<1> USE DEF good
<1>6. flatten = body(flatten)
  <2>1. f = body(f)
    BY <1>5
  <2>2. \E x : x = body(x)
    BY <2>1, Zenon
  <2> QED
    BY <2>2
<1> HIDE DEF flatten
<1> DEFINE same == {m \in Nat : m \in 1..n => flatten[m] = f[m]}
<1>7. Nat \subseteq same
  <2>1. 0 \in same
    OBVIOUS
  <2>2. ASSUME NEW m \in Nat, m \in same PROVE m + 1 \in same
    <3> SUFFICES ASSUME m + 1 \in 1..n PROVE flatten[m + 1] = f[m + 1]
      OBVIOUS
    <3>1. flatten[m + 1] = IF m + 1 = 1 THEN seqs[m + 1] ELSE flatten[(m + 1) - 1] \o seqs[m + 1]
      BY <1>6
    <3>2. f[m + 1] = IF m + 1 = 1 THEN seqs[m + 1] ELSE f[(m + 1) - 1] \o seqs[m + 1]
      BY <1>5
    <3>3. CASE m # 0
      <4>1. m \in 1..n /\ (m + 1) - 1 = m
        BY <1>1, <3>3
      <4>2. flatten[m] = f[m]
        BY <2>2, <4>1
      <4> QED
        BY <3>1, <3>2, <4>1, <4>2
    <3> QED
      BY <3>1, <3>2, <3>3
  <2> HIDE DEF same
  <2> QED
    BY <2>1, <2>2, NatSetInduction
<1>8. CASE n = 0
  <2>1. FlattenSeq(seqs) = seqs
    BY <1>8 DEF FlattenSeq
  <2>2. seqs = <<>>
    BY <1>8, EmptySeq
  <2> QED
    BY <1>5, <1>8, <2>1, <2>2 DEF Flattens, Concats
<1>9. CASE n # 0
  <2>1. FlattenSeq(seqs) = flatten[n]
    BY <1>9 DEF FlattenSeq, flatten
  <2>2. n \in 1..n
    BY <1>1, <1>9
  <2>3. FlattenSeq(seqs) = f[n]
    BY <1>1, <1>7, <2>1, <2>2
  <2> QED
    BY <1>5, <1>9, <2>3 DEF Flattens, Concats
<1> QED
  BY <1>8, <1>9

\* The concatenation of sequences is one.
LEMMA FlattenType ==
  ASSUME NEW S, NEW seqs \in Seq(Seq(S))
  PROVE  FlattenSeq(seqs) \in Seq(S)
<1>1. PICK f : Concats(f, seqs, S) /\ FlattenSeq(seqs) = IF Len(seqs) = 0 THEN <<>> ELSE f[Len(seqs)]
  BY FlattenIs DEF Flattens
<1>2. Len(seqs) \in Nat
  BY LenProperties
<1>3. CASE Len(seqs) # 0
  <2>1. Len(seqs) \in 1..Len(seqs)
    BY <1>2, <1>3
  <2> QED
    BY <1>1, <1>3, <2>1 DEF Concats
<1> QED
  BY <1>1, <1>3

\* p is a part of s.
IsPart(p, s) ==
  \E from \in Nat : /\ from + Len(p) <= Len(s)
                    /\ \A m \in 1..Len(p) : s[from + m] = p[m]

LEMMA PartOfConcat ==
  ASSUME NEW S, NEW x \in Seq(S), NEW y \in Seq(S)
  PROVE  /\ IsPart(y, x \o y)
         /\ \A p \in Seq(S) : IsPart(p, x) => IsPart(p, x \o y)
<1>1. /\ Len(x \o y) = Len(x) + Len(y) /\ Len(x) \in Nat /\ Len(y) \in Nat
      /\ \A i \in 1..(Len(x) + Len(y)) : (x \o y)[i] = IF i <= Len(x) THEN x[i] ELSE y[i - Len(x)]
  BY ConcatProperties, LenProperties
<1>2. IsPart(y, x \o y)
  <2>1. \A m \in 1..Len(y) : (x \o y)[Len(x) + m] = y[m]
    <3> TAKE m \in 1..Len(y)
    <3>1. Len(x) + m \in 1..(Len(x) + Len(y)) /\ ~(Len(x) + m <= Len(x)) /\ (Len(x) + m) - Len(x) = m
      BY <1>1
    <3> QED
      BY <1>1, <3>1
  <2>2. Len(x) + Len(y) <= Len(x \o y)
    BY <1>1
  <2> QED
    BY <1>1, <2>1, <2>2 DEF IsPart
<1>3. ASSUME NEW p \in Seq(S), IsPart(p, x) PROVE IsPart(p, x \o y)
  <2>1. PICK from \in Nat : /\ from + Len(p) <= Len(x)
                           /\ \A m \in 1..Len(p) : x[from + m] = p[m]
    BY <1>3 DEF IsPart
  <2>2. Len(p) \in Nat
    BY LenProperties
  <2>3. \A m \in 1..Len(p) : (x \o y)[from + m] = p[m]
    <3> TAKE m \in 1..Len(p)
    <3>1. from + m \in 1..(Len(x) + Len(y)) /\ from + m <= Len(x)
      BY <1>1, <2>1, <2>2
    <3> QED
      BY <1>1, <2>1, <3>1
  <2>4. from + Len(p) <= Len(x \o y)
    BY <1>1, <2>1, <2>2
  <2> QED
    BY <2>3, <2>4 DEF IsPart
<1> QED
  BY <1>2, <1>3

\* A part of a part is a part.
LEMMA PartOfPart ==
  ASSUME NEW p, NEW x, NEW s, Len(p) \in Nat, Len(x) \in Nat, Len(s) \in Nat,
         IsPart(p, x), IsPart(x, s)
  PROVE  IsPart(p, s)
<1>1. PICK i \in Nat : i + Len(p) <= Len(x) /\ \A m \in 1..Len(p) : x[i + m] = p[m]
  BY DEF IsPart
<1>2. PICK j \in Nat : j + Len(x) <= Len(s) /\ \A m \in 1..Len(x) : s[j + m] = x[m]
  BY DEF IsPart
<1>3. ASSUME NEW m \in 1..Len(p) PROVE s[(j + i) + m] = p[m]
  <2>1. i + m \in 1..Len(x) /\ (j + i) + m = j + (i + m)
    BY <1>1
  <2> QED
    BY <1>1, <1>2, <2>1
<1>4. j + i \in Nat /\ (j + i) + Len(p) <= Len(s)
  BY <1>1, <1>2
<1> QED
  BY <1>3, <1>4 DEF IsPart

\* What is concatenated is a part of the concatenation, and all of it if it is alone.
LEMMA FlattenParts ==
  ASSUME NEW S, NEW seqs \in Seq(Seq(S)), NEW i \in 1..Len(seqs)
  PROVE  /\ IsPart(seqs[i], FlattenSeq(seqs))
         /\ Len(seqs) = 1 => FlattenSeq(seqs) = seqs[1]
<1> DEFINE n == Len(seqs)
<1>1. n \in Nat /\ n # 0 /\ \A j \in 1..n : seqs[j] \in Seq(S)
  BY LenProperties, ElementOfSeq
<1>2. PICK f : Concats(f, seqs, S) /\ FlattenSeq(seqs) = f[n]
  BY <1>1, FlattenIs DEF Flattens
<1>3. /\ \A j \in 1..n : f[j] \in Seq(S)
      /\ \A j \in 1..n : f[j] = IF j = 1 THEN seqs[j] ELSE f[j - 1] \o seqs[j]
  BY <1>2 DEF Concats
<1> HIDE DEF n
<1>4. IsPart(seqs[i], f[i])
  <2>1. CASE i = 1
    <3>1. f[i] = seqs[i] /\ Len(seqs[i]) \in Nat
      BY <1>1, <1>3, <2>1, LenProperties DEF n
    <3> DEFINE p == seqs[i]
    <3>2. 0 + Len(p) <= Len(p) /\ \A m \in 1..Len(p) : p[0 + m] = p[m]
      BY <3>1
    <3> HIDE DEF p
    <3>3. IsPart(p, p)
      BY <3>2 DEF IsPart
    <3> QED
      BY <3>1, <3>3 DEF p
  <2>2. CASE i # 1
    <3>1. i \in 1..n /\ i - 1 \in 1..n
      BY <1>1, <2>2 DEF n
    <3>2. f[i] = f[i - 1] \o seqs[i] /\ f[i - 1] \in Seq(S) /\ seqs[i] \in Seq(S)
      BY <1>1, <1>3, <2>2, <3>1
    <3>3. IsPart(seqs[i], f[i - 1] \o seqs[i])
      BY <3>2, PartOfConcat
    <3> QED
      BY <3>2, <3>3
  <2> QED
    BY <2>1, <2>2
<1> DEFINE G == {m \in Nat : m \in i..n => IsPart(seqs[i], f[m])}
<1>5. 0 \in G
  OBVIOUS
<1>6. ASSUME NEW m \in Nat, m \in G PROVE m + 1 \in G
  <2> SUFFICES ASSUME m + 1 \in i..n PROVE IsPart(seqs[i], f[m + 1])
    OBVIOUS
  <2>1. CASE m + 1 = i
    BY <1>4, <2>1
  <2>2. CASE m + 1 # i
    <3>1. m \in i..n /\ m + 1 # 1 /\ m + 1 \in 1..n /\ m \in 1..n /\ (m + 1) - 1 = m /\ i \in 1..n
      BY <1>1, <2>2 DEF n
    <3>2. f[m + 1] = f[m] \o seqs[m + 1] /\ f[m] \in Seq(S) /\ seqs[m + 1] \in Seq(S)
      BY <1>1, <1>3, <3>1
    <3>3. IsPart(seqs[i], f[m]) /\ seqs[i] \in Seq(S)
      BY <1>1, <1>6, <3>1
    <3>4. IsPart(seqs[i], f[m] \o seqs[m + 1])
      BY <3>2, <3>3, PartOfConcat
    <3> QED
      BY <3>2, <3>4
  <2> QED
    BY <2>1, <2>2
<1> HIDE DEF G
<1>7. Nat \subseteq G
  BY <1>5, <1>6, NatSetInduction
<1>8. n \in i..n
  BY <1>1 DEF n
<1>9. IsPart(seqs[i], f[n])
  BY <1>1, <1>7, <1>8 DEF G
<1>10. ASSUME n = 1 PROVE FlattenSeq(seqs) = seqs[1]
  BY <1>2, <1>3, <1>10
<1> QED
  BY <1>2, <1>9, <1>10 DEF n

\* The windows of a word are sequences of letters.
LEMMA WindowsType ==
  ASSUME NEW word \in Seq(Letter)
  PROVE  Windows(word) \in Seq(Seq(Letter))
<1>1. N \in Nat \ {0} /\ Len(word) \in Nat
  BY SizesAssumption, LenProperties
<1>2. CASE Len(word) < N
  BY <1>2 DEF Windows
<1>3. CASE ~(Len(word) < N)
  <2>1. ASSUME NEW i \in 1..(Len(word) - N + 1) PROVE SubSeq(word, i, i + N - 1) \in Seq(Letter)
    <3>1. i \in 1..Len(word) /\ i + N - 1 \in 1..Len(word)
      BY <1>1, <1>3
    <3> QED
      BY <3>1, SubSeqProperties
  <2>2. Len(word) - N + 1 \in Nat
    BY <1>1, <1>3
  <2>3. Windows(word) = [i \in 1..(Len(word) - N + 1) |-> SubSeq(word, i, i + N - 1)]
    BY <1>3 DEF Windows
  <2> DEFINE n == Len(word) - N + 1
             w == [i \in 1..n |-> SubSeq(word, i, i + N - 1)]
  <2>4. w \in [1..n -> Seq(Letter)]
    BY <2>1
  <2> HIDE DEF w, n
  <2>5. w \in Seq(Seq(Letter))
    BY <2>2, <2>4 DEF n
  <2> QED
    BY <2>3, <2>5 DEF w, n
<1> QED
  BY <1>2, <1>3

\* N-grams are sequences of letters.
LEMMA NgramsType ==
  ASSUME NEW text \in Text
  PROVE  text \in Seq(Seq(Letter)) /\ ExtractNgrams(text) \in Seq(Seq(Letter))
<1>1. text \in Seq(Seq(Letter) \ {<<>>})
  BY TextAssumption
<1>2. Len(text) \in Nat /\ DOMAIN text = 1..Len(text) /\ \A i \in 1..Len(text) : text[i] \in Seq(Letter)
  BY <1>1, LenProperties, ElementOfSeq
<1>3. \A word \in Seq(Letter) : Windows(word) \in Seq(Seq(Letter))
  BY WindowsType
<1> DEFINE windows == [i \in DOMAIN text |-> Windows(text[i])]
<1>4. windows \in Seq(Seq(Seq(Letter)))
  BY <1>2, <1>3, IsASeq
<1> HIDE DEF windows
<1>5. FlattenSeq(windows) \in Seq(Seq(Letter))
  BY <1>4, FlattenType
<1> QED
  BY <1>1, <1>2, <1>5, IsASeq DEF windows, ExtractNgrams

\* The tokens of a text are its words and its n-grams, and there are finitely many.
LEMMA TokenFacts ==
  /\ IsFiniteSet(Token)
  /\ \A text \in Text : /\ tokenize(text) \in Seq(Token) /\ ExtractNgrams(text) \in Seq(Token)
                        /\ tokenize(text) # NoDoc /\ ExtractNgrams(text) # NoDoc
  /\ NoDoc \notin Seq(Token)
<1> DEFINE pieces(text) == ElementsOf(tokenize(text)) \cup ElementsOf(ExtractNgrams(text))
<1>1. ASSUME NEW s \in Seq(Seq(Letter)) PROVE IsFiniteSet(ElementsOf(s)) /\ ElementsOf(s) \subseteq Seq(Letter)
  <2>1. DOMAIN s = 1..Len(s) /\ Len(s) \in Nat /\ \A n \in 1..Len(s) : s[n] \in Seq(Letter)
    BY LenProperties, ElementOfSeq
  <2>2. IsFiniteSet(1..Len(s))
    BY <2>1, FS_Interval
  <2>3. s \in Surjection(1..Len(s), ElementsOf(s))
    BY <2>1 DEF Surjection, ElementsOf
  <2> QED
    BY <2>1, <2>2, <2>3, FS_Surjection DEF ElementsOf
<1>2. ASSUME NEW text \in Text PROVE IsFiniteSet(pieces(text)) /\ pieces(text) \subseteq Seq(Letter)
  BY <1>1, NgramsType, FS_Union DEF tokenize
<1>3. IsFiniteSet({pieces(text) : text \in Text})
  <2> DEFINE f == [text \in Text |-> pieces(text)]
             S == {pieces(text) : text \in Text}
  <2>1. f \in Surjection(Text, S)
    BY DEF Surjection
  <2> HIDE DEF f, S
  <2>2. IsFiniteSet(S)
    BY <2>1, TextAssumption, FS_Surjection
  <2> QED
    BY <2>2 DEF S
<1>4. Token = UNION {pieces(text) : text \in Text}
  BY DEF Token
<1>5. IsFiniteSet(Token)
  <2> HIDE DEF pieces
  <2> DEFINE S == {pieces(text) : text \in Text}
  <2>1. \A x \in S : IsFiniteSet(x)
    BY <1>2
  <2> HIDE DEF S
  <2>2. IsFiniteSet(UNION S)
    BY <1>3, <2>1, FS_UNION DEF S
  <2> QED
    BY <1>4, <2>2 DEF S
<1>6. Token \subseteq Seq(Letter)
  BY <1>2, <1>4
<1>7. ASSUME NEW text \in Text, NEW s \in Seq(Seq(Letter)), ElementsOf(s) \subseteq pieces(text)
      PROVE  s \in Seq(Token)
  <2>1. DOMAIN s = 1..Len(s) /\ Len(s) \in Nat
    BY LenProperties
  <2>2. \A n \in 1..Len(s) : s[n] \in Token
    <3> HIDE DEF pieces
    <3>1. \A n \in 1..Len(s) : s[n] \in pieces(text)
      BY <1>7, <2>1 DEF ElementsOf
    <3> QED
      BY <1>4, <3>1
  <2>3. s \in [1..Len(s) -> Token]
    BY <2>1, <2>2
  <2> QED
    BY <2>1, <2>3
<1>8. NoDoc \notin Seq(Token)
  <2>1. \A s \in Seq(Token) : s \in Seq(Seq(Letter))
    BY <1>6
  <2> QED
    BY <2>1, NoDocAssumption
<1>9. ASSUME NEW text \in Text
      PROVE  tokenize(text) \in Seq(Token) /\ ExtractNgrams(text) \in Seq(Token)
  BY <1>7, NgramsType DEF tokenize
<1> QED
  BY <1>5, <1>8, <1>9

\* A token occurs in a document if it is one of its tokens.
LEMMA OccurrencesFacts ==
  ASSUME NEW tokens \in Seq(Token), NEW t
  PROVE  /\ Occurrences(t, tokens) \in Nat
         /\ Occurrences(t, tokens) > 0 <=> Occurs(t, tokens)
         /\ Occurs(t, tokens) <=> t \in ElementsOf(tokens)
         /\ Occurrences(t, <<>>) = 0
<1> DEFINE D == DOMAIN tokens
           places == {n \in D : tokens[n] = t}
<1>1. D = 1..Len(tokens) /\ Len(tokens) \in Nat
  BY LenProperties
<1>2. IsFiniteSet(D)
  BY <1>1, FS_Interval
<1>3. IsFiniteSet(places) /\ Cardinality(places) \in Nat
  BY <1>2, FS_Subset, FS_CardinalityType
<1>4. Cardinality(places) = 0 <=> places = {}
  BY <1>3, FS_EmptySet
<1>5. Occurs(t, tokens) <=> places # {}
  BY DEF Occurs
<1>6. Occurrences(t, <<>>) = 0
  <2>1. {n \in DOMAIN <<>> : <<>>[n] = t} = {}
    OBVIOUS
  <2> QED
    BY <2>1, FS_EmptySet DEF Occurrences
<1> QED
  BY <1>3, <1>4, <1>5, <1>6 DEF Occurrences, Occurs, ElementsOf

-----------------------------------------------------------------------------
(* Postings                                                                *)

\* The documents of an index, and how often one has a token.
Docs == [Key -> Seq(Token) \cup {NoDoc}]
Count(t, doc) == IF doc = NoDoc THEN 0 ELSE Occurrences(t, doc)

\* The postings of exactly these documents.
PostingsOf(docs) == [t \in Token |-> [k \in Key |-> Count(t, docs[k])]]

LEMMA CountType ==
  ASSUME NEW t, NEW doc \in Seq(Token) \cup {NoDoc}
  PROVE  /\ Count(t, doc) \in Nat
         /\ doc # NoDoc => Count(t, doc) = Occurrences(t, doc) /\ doc \in Seq(Token)
  BY OccurrencesFacts DEF Count

\* Posting a document in place of another.
LEMMA RepostExact ==
  ASSUME NEW idx, NEW docs \in Docs, NEW new \in Docs, NEW key \in Key, NEW tokens \in Seq(Token),
         idx.postings = PostingsOf(docs), idx.docTokens = docs,
         \A k \in Key \ {key} : new[k] = docs[k],
         \A t \in Token : Count(t, new[key]) = Occurrences(t, tokens)
  PROVE  Repost(idx, key, tokens) = PostingsOf(new)
<1> DEFINE old == IF docs[key] = NoDoc THEN PostingsOf(docs) ELSE Unpost(PostingsOf(docs), key, docs[key])
<1>1. Repost(idx, key, tokens) = Post(old, key, tokens)
  BY DEF Repost
<1>2. ASSUME NEW t \in Token
      PROVE  old[t] = [k \in Key |-> IF k = key THEN 0 ELSE Count(t, docs[k])]
  <2> DEFINE row == [k \in Key |-> Count(t, docs[k])]
  <2>0. PostingsOf(docs)[t] = row
    BY DEF PostingsOf
  <2>1. CASE docs[key] = NoDoc
    <3>1. row = [k \in Key |-> IF k = key THEN 0 ELSE Count(t, docs[k])]
      BY <2>1 DEF Count
    <3> QED
      BY <2>0, <2>1, <3>1
  <2>2. CASE docs[key] # NoDoc
    <3>1. docs[key] \in Seq(Token)
      BY <2>2 DEF Docs
    <3>2. old[t] = IF Occurs(t, docs[key]) THEN [row EXCEPT ![key] = 0] ELSE row
      BY <2>0, <2>2 DEF Unpost
    <3>3. ~Occurs(t, docs[key]) => row[key] = 0
      BY <2>2, <3>1, OccurrencesFacts DEF Count
    <3> HIDE DEF old
    <3>4. CASE Occurs(t, docs[key])
      BY <3>2, <3>4
    <3>5. CASE ~Occurs(t, docs[key])
      <4>1. row = [k \in Key |-> IF k = key THEN 0 ELSE Count(t, docs[k])]
        BY <3>3, <3>5
      <4> QED
        BY <3>2, <3>5, <4>1
    <3> QED
      BY <3>4, <3>5
  <2> QED
    BY <2>1, <2>2
<1> HIDE DEF old
<1>3. ASSUME NEW t \in Token
      PROVE  [old[t] EXCEPT ![key] = @ + Occurrences(t, tokens)] = [k \in Key |-> Count(t, new[k])]
  <2>1. Occurrences(t, tokens) \in Nat
    BY OccurrencesFacts
  <2>2. 0 + Occurrences(t, tokens) = Count(t, new[key])
    BY <2>1
  <2> DEFINE row == [k \in Key |-> IF k = key THEN 0 ELSE Count(t, docs[k])]
  <2>3. row[key] = 0 /\ \A k \in Key \ {key} : row[k] = Count(t, new[k])
    OBVIOUS
  <2>4. DOMAIN row = Key
    OBVIOUS
  <2> HIDE DEF row
  <2>5. [row EXCEPT ![key] = @ + Occurrences(t, tokens)] = [k \in Key |-> Count(t, new[k])]
    BY <2>2, <2>3, <2>4
  <2> QED
    BY <1>2, <2>5 DEF row
<1>4. Post(old, key, tokens) = [t \in Token |-> [k \in Key |-> Count(t, new[k])]]
  BY <1>3 DEF Post
<1> QED
  BY <1>1, <1>4 DEF PostingsOf

\* Taking a document away.
LEMMA UnpostExact ==
  ASSUME NEW docs \in Docs, NEW key \in Key, docs[key] # NoDoc
  PROVE  Unpost(PostingsOf(docs), key, docs[key]) = PostingsOf([docs EXCEPT ![key] = NoDoc])
<1> DEFINE new == [docs EXCEPT ![key] = NoDoc]
<1>1. docs[key] \in Seq(Token)
  BY DEF Docs
<1>2. new[key] = NoDoc /\ \A k \in Key \ {key} : new[k] = docs[k]
  BY DEF Docs
<1>3. ASSUME NEW t \in Token
      PROVE  (IF Occurs(t, docs[key]) THEN [PostingsOf(docs)[t] EXCEPT ![key] = 0] ELSE PostingsOf(docs)[t])
               = [k \in Key |-> Count(t, new[k])]
  <2> DEFINE row == [k \in Key |-> Count(t, docs[k])]
  <2>1. PostingsOf(docs)[t] = row
    BY DEF PostingsOf
  <2>2. ~Occurs(t, docs[key]) => row[key] = 0
    BY <1>1, OccurrencesFacts DEF Count
  <2>3. Count(t, new[key]) = 0 /\ \A k \in Key \ {key} : Count(t, new[k]) = row[k]
    BY <1>2 DEF Count
  <2> HIDE DEF new
  <2>4. CASE Occurs(t, docs[key])
    <3>1. [row EXCEPT ![key] = 0] = [k \in Key |-> Count(t, new[k])]
      BY <2>3
    <3> QED
      BY <2>1, <2>4, <3>1
  <2>5. CASE ~Occurs(t, docs[key])
    <3>1. row = [k \in Key |-> Count(t, new[k])]
      BY <2>2, <2>3, <2>5
    <3> QED
      BY <2>1, <2>5, <3>1
  <2> QED
    BY <2>4, <2>5
<1> QED
  BY <1>3 DEF Unpost, PostingsOf

\* What one change does to the number of documents.
LEMMA DocumentsChange ==
  ASSUME NEW docs \in Docs, NEW key \in Key
  PROVE  /\ IsFiniteSet(Documents(docs)) /\ Cardinality(Documents(docs)) \in Nat
         /\ \A tokens \in Seq(Token) :
              Cardinality(Documents([docs EXCEPT ![key] = tokens]))
                = Cardinality(Documents(docs)) + (IF docs[key] = NoDoc THEN 1 ELSE 0)
         /\ docs[key] # NoDoc =>
              Cardinality(Documents([docs EXCEPT ![key] = NoDoc])) = Cardinality(Documents(docs)) - 1
<1> DEFINE D == Documents(docs)
<1>1. IsFiniteSet(D) /\ Cardinality(D) \in Nat
  BY KeyAssumption, FS_Subset, FS_CardinalityType DEF Documents
<1>2. ASSUME NEW tokens \in Seq(Token)
      PROVE  Cardinality(Documents([docs EXCEPT ![key] = tokens]))
                = Cardinality(D) + (IF docs[key] = NoDoc THEN 1 ELSE 0)
  <2>1. tokens # NoDoc
    BY TokenFacts
  <2>2. Documents([docs EXCEPT ![key] = tokens]) = D \cup {key}
    BY <2>1 DEF Documents, Docs
  <2>3. key \in D <=> docs[key] # NoDoc
    BY DEF Documents
  <2> HIDE DEF D
  <2>4. CASE docs[key] = NoDoc
    <3>1. Cardinality(D \cup {key}) = Cardinality(D) + 1
      BY <1>1, <2>3, <2>4, FS_AddElement
    <3> QED
      BY <2>2, <2>4, <3>1
  <2>5. CASE docs[key] # NoDoc
    <3>1. D \cup {key} = D
      BY <2>3, <2>5
    <3>2. Cardinality(Documents([docs EXCEPT ![key] = tokens])) = Cardinality(D)
      BY <2>2, <3>1
    <3> QED
      BY <1>1, <2>5, <3>2
  <2> QED
    BY <2>4, <2>5
<1>3. ASSUME docs[key] # NoDoc
      PROVE  Cardinality(Documents([docs EXCEPT ![key] = NoDoc])) = Cardinality(D) - 1
  <2>1. Documents([docs EXCEPT ![key] = NoDoc]) = D \ {key}
    BY DEF Documents, Docs
  <2>2. key \in D
    BY <1>3 DEF Documents
  <2> HIDE DEF D
  <2> QED
    BY <1>1, <2>1, <2>2, FS_RemoveElement
<1> QED
  BY <1>1, <1>2, <1>3

LEMMA CellsOfKeys ==
  \A old, new : \A key \in Key :
    /\ \A k \in Key : old[k] \in Nat /\ new[k] \in Nat
    /\ \A k \in Key \ {key} : new[k] = old[k]
    => Cardinality(Cells(Key, new)) = Cardinality(Cells(Key, old)) - old[key] + new[key]
  BY KeyAssumption, CellsPut

\* What one change does to the number of tokens.
Size(doc) == IF doc = NoDoc THEN 0 ELSE Len(doc)

LEMMA PlacesChange ==
  ASSUME NEW docs \in Docs
  PROVE  /\ Cardinality(Places(docs)) \in Nat
         /\ \A key \in Key, doc \in Seq(Token) \cup {NoDoc} :
              /\ Size(docs[key]) \in Nat /\ Size(doc) \in Nat
              /\ Cardinality(Places([docs EXCEPT ![key] = doc]))
                   = Cardinality(Places(docs)) - Size(docs[key]) + Size(doc)
<1> DEFINE size(d) == [k \in Key |-> Size(d[k])]
<1>1. ASSUME NEW doc \in Seq(Token) \cup {NoDoc}
      PROVE  Size(doc) \in Nat /\ (doc # NoDoc => DOMAIN doc = 1..Size(doc))
  <2>1. CASE doc = NoDoc
    BY <2>1 DEF Size
  <2>2. CASE doc # NoDoc
    BY <2>2, LenProperties DEF Size
  <2> QED
    BY <2>1, <2>2
<1>2. ASSUME NEW d \in Docs
      PROVE  /\ \A k \in Key : size(d)[k] \in Nat
             /\ Places(d) = Cells(Key, size(d))
  <2>1. \A k \in Key : d[k] \in Seq(Token) \cup {NoDoc}
    BY DEF Docs
  <2>2. \A k \in Key : size(d)[k] = Size(d[k]) /\ size(d)[k] \in Nat
    BY <1>1, <2>1
  <2>3. ASSUME NEW k \in Key
        PROVE  1..Size(d[k]) = IF d[k] = NoDoc THEN {} ELSE DOMAIN d[k]
    BY <1>1, <2>1 DEF Size
  <2>4. Places(d) = UNION {{k} \X (1..Size(d[k])) : k \in Key}
    <3>1. ASSUME NEW p PROVE p \in Places(d) <=> \E k \in Key : p \in {k} \X (1..Size(d[k]))
      BY <2>3 DEF Places, Documents
    <3> QED
      BY <3>1
  <2>5. Cells(Key, size(d)) = UNION {{k} \X (1..Size(d[k])) : k \in Key}
    BY DEF Cells
  <2> QED
    BY <2>2, <2>4, <2>5
<1> HIDE DEF size
<1>3. Cardinality(Places(docs)) \in Nat
  BY <1>2, KeyAssumption, CellsFinite
<1>4. ASSUME NEW key \in Key, NEW doc \in Seq(Token) \cup {NoDoc}
      PROVE  /\ Size(docs[key]) \in Nat /\ Size(doc) \in Nat
             /\ Cardinality(Places([docs EXCEPT ![key] = doc]))
                  = Cardinality(Places(docs)) - Size(docs[key]) + Size(doc)
  <2> DEFINE new == [docs EXCEPT ![key] = doc]
  <2>1. new \in Docs /\ new[key] = doc /\ \A k \in Key \ {key} : new[k] = docs[k]
    BY DEF Docs
  <2>2. Size(docs[key]) \in Nat /\ Size(doc) \in Nat
    BY <1>1 DEF Docs
  <2>3. /\ size(docs)[key] = Size(docs[key]) /\ size(new)[key] = Size(doc)
        /\ \A k \in Key \ {key} : size(new)[k] = size(docs)[k]
    BY <2>1 DEF size
  <2>4. \A k \in Key : size(docs)[k] \in Nat /\ size(new)[k] \in Nat
    BY <1>2, <2>1
  <2> HIDE DEF new
  <2>5. Cardinality(Cells(Key, size(new)))
          = Cardinality(Cells(Key, size(docs))) - size(docs)[key] + size(new)[key]
    BY <2>3, <2>4, CellsOfKeys
  <2>6. Cardinality(Places(new)) = Cardinality(Places(docs)) - Size(docs[key]) + Size(doc)
    BY <1>2, <2>1, <2>3, <2>5
  <2> QED
    BY <2>2, <2>6 DEF new
<1> QED
  BY <1>3, <1>4

-----------------------------------------------------------------------------
(* BM25: the index of given documents                                      *)

Texts == [Key -> Text \cup {NoDoc}]

BM25Of(docs, average) ==
  [postings |-> PostingsOf(docs), docTokens |-> docs, docCount |-> Cardinality(Documents(docs)),
   totalTokens |-> Cardinality(Places(docs)), avgDocLength |-> average]

LEMMA TextsAreDocs ==
  /\ Texts \subseteq Docs
  /\ \A text \in Text : text \in Seq(Token) /\ text # NoDoc
  /\ NoDocs \in Texts
<1>1. \A text \in Text : text \in Seq(Token) /\ text # NoDoc
  BY TokenFacts DEF tokenize
<1> QED
  BY <1>1 DEF Texts, Docs, NoDocs

LEMMA NothingIndexed ==
  /\ NoPostings = PostingsOf(NoDocs)
  /\ Documents(NoDocs) = {} /\ Cardinality(Documents(NoDocs)) = 0
  /\ Cardinality(Places(NoDocs)) = 0
<1>1. Documents(NoDocs) = {}
  BY DEF Documents, NoDocs
<1>2. Places(NoDocs) = {}
  BY <1>1 DEF Places
<1>3. NoPostings = PostingsOf(NoDocs)
  BY DEF NoPostings, PostingsOf, NoDocs, Count
<1> QED
  BY <1>1, <1>2, <1>3, FS_EmptySet

\* The average of the documents, once there are some.
AverageOf(docs) == Average(Cardinality(Places(docs)), Cardinality(Documents(docs)))

LEMMA AverageType ==
  ASSUME NEW docs \in Texts
  PROVE  AverageOf(docs) \in Nat \X (Nat \ {0})
<1> DEFINE total == Cardinality(Places(docs))
           count == Cardinality(Documents(docs))
<1>1. total \in Nat
  BY PlacesChange, TextsAreDocs
<1>2. count \in Nat
  BY KeyAssumption, FS_Subset, FS_CardinalityType DEF Documents
<1> HIDE DEF total, count
<1>3. Average(total, count) \in Nat \X (Nat \ {0})
  BY <1>1, <1>2 DEF Average
<1> QED
  BY <1>3 DEF AverageOf, total, count

LEMMA BM25Indexes ==
  ASSUME NEW docs \in Texts, NEW average, NEW key \in Key, NEW text \in Text
  PROVE  LET new == [docs EXCEPT ![key] = text]
         IN  /\ new \in Texts
             /\ BM25IndexDocument(BM25Of(docs, average), key, text) = BM25Of(new, AverageOf(new))
<1> DEFINE new == [docs EXCEPT ![key] = text]
           idx == BM25Of(docs, average)
           count == idx.docCount + (IF idx.docTokens[key] = NoDoc THEN 1 ELSE 0)
           total == idx.totalTokens - PrevLength(idx, key) + Len(tokenize(text))
<1>1. /\ docs \in Docs /\ text \in Seq(Token) /\ text # NoDoc /\ tokenize(text) = text
      /\ new \in Texts /\ new \in Docs
  BY TextsAreDocs DEF tokenize, Texts
<1>2. new[key] = text /\ \A k \in Key \ {key} : new[k] = docs[k]
  BY DEF Texts
<1>3. /\ idx.postings = PostingsOf(docs) /\ idx.docTokens = docs
      /\ idx.docCount = Cardinality(Documents(docs)) /\ idx.totalTokens = Cardinality(Places(docs))
  BY DEF BM25Of
<1>4. count = Cardinality(Documents(new))
  <2>1. Cardinality(Documents([docs EXCEPT ![key] = text]))
          = Cardinality(Documents(docs)) + (IF docs[key] = NoDoc THEN 1 ELSE 0)
    BY <1>1, DocumentsChange
  <2> QED
    BY <1>3, <2>1
<1>5. total = Cardinality(Places(new))
  <2>1. PrevLength(idx, key) = Size(docs[key])
    BY <1>3 DEF PrevLength, Size
  <2>2. Len(tokenize(text)) = Size(text)
    BY <1>1 DEF Size
  <2> QED
    BY <1>1, <1>3, <2>1, <2>2, PlacesChange
<1>6. Repost(idx, key, text) = PostingsOf(new)
  <2>1. \A t \in Token : Count(t, new[key]) = Occurrences(t, text)
    BY <1>1, <1>2 DEF Count
  <2> HIDE DEF idx, new
  <2> QED
    BY <1>1, <1>2, <1>3, <2>1, RepostExact
<1>7. BM25IndexDocument(idx, key, text)
        = [postings |-> Repost(idx, key, tokenize(text)),
           docTokens |-> [idx.docTokens EXCEPT ![key] = tokenize(text)],
           docCount |-> count, totalTokens |-> total, avgDocLength |-> Average(total, count)]
  BY DEF BM25IndexDocument
<1>8. [idx.docTokens EXCEPT ![key] = tokenize(text)] = new
  BY <1>1, <1>3
<1> HIDE DEF idx, new, count, total
<1>9. BM25IndexDocument(idx, key, text) = BM25Of(new, AverageOf(new))
  BY <1>1, <1>4, <1>5, <1>6, <1>7, <1>8 DEF BM25Of, AverageOf
<1> QED
  BY <1>1, <1>9 DEF idx, new

LEMMA BM25Removes ==
  ASSUME NEW docs \in Texts, NEW average, NEW key \in Key
  PROVE  LET new == [docs EXCEPT ![key] = NoDoc]
         IN  /\ new \in Texts
             /\ BM25RemoveDocument(BM25Of(docs, average), key)
                  = BM25Of(new, IF docs[key] = NoDoc THEN average ELSE AverageOf(new))
<1> DEFINE new == [docs EXCEPT ![key] = NoDoc]
           idx == BM25Of(docs, average)
           count == idx.docCount - 1
           total == idx.totalTokens - PrevLength(idx, key)
<1>1. docs \in Docs /\ new \in Texts /\ new \in Docs
  BY TextsAreDocs DEF Texts
<1>2. new[key] = NoDoc /\ \A k \in Key \ {key} : new[k] = docs[k]
  BY DEF Texts
<1>3. /\ idx.postings = PostingsOf(docs) /\ idx.docTokens = docs
      /\ idx.docCount = Cardinality(Documents(docs)) /\ idx.totalTokens = Cardinality(Places(docs))
  BY DEF BM25Of
<1>4. CASE docs[key] = NoDoc
  <2>1. new = docs
    BY <1>1, <1>4 DEF Docs
  <2>2. BM25RemoveDocument(idx, key) = idx
    BY <1>3, <1>4 DEF BM25RemoveDocument
  <2> QED
    BY <1>1, <1>4, <2>1, <2>2
<1>5. CASE docs[key] # NoDoc
  <2>1. count = Cardinality(Documents(new))
    BY <1>1, <1>3, <1>5, DocumentsChange
  <2>2. total = Cardinality(Places(new))
    <3>1. PrevLength(idx, key) = Size(docs[key]) /\ Size(NoDoc) = 0
      BY <1>3 DEF PrevLength, Size
    <3>2. /\ Cardinality(Places(new)) = Cardinality(Places(docs)) - Size(docs[key]) + Size(NoDoc)
          /\ Size(docs[key]) \in Nat /\ Cardinality(Places(docs)) \in Nat
      BY <1>1, PlacesChange
    <3> QED
      BY <1>3, <3>1, <3>2
  <2>3. Unpost(idx.postings, key, idx.docTokens[key]) = PostingsOf(new)
    BY <1>1, <1>3, <1>5, UnpostExact
  <2>4. BM25RemoveDocument(idx, key)
          = [postings |-> Unpost(idx.postings, key, idx.docTokens[key]),
             docTokens |-> [idx.docTokens EXCEPT ![key] = NoDoc],
             docCount |-> count, totalTokens |-> total, avgDocLength |-> Average(total, count)]
    BY <1>3, <1>5 DEF BM25RemoveDocument
  <2>5. [idx.docTokens EXCEPT ![key] = NoDoc] = new
    BY <1>3
  <2> HIDE DEF idx, new, count, total
  <2>6. BM25RemoveDocument(idx, key) = BM25Of(new, AverageOf(new))
    BY <2>1, <2>2, <2>3, <2>4, <2>5 DEF BM25Of, AverageOf
  <2> QED
    BY <1>1, <1>5, <2>6 DEF idx, new
<1> QED
  BY <1>4, <1>5

\* The documents under some of the keys.
Part(items, T) == [k \in Key |-> IF k \in T THEN items[k] ELSE NoDoc]

LEMMA PartFacts ==
  ASSUME NEW items \in Texts, NEW T \in SUBSET Documents(items)
  PROVE  /\ Part(items, T) \in Texts
         /\ Part(items, {}) = NoDocs /\ Part(items, Documents(items)) = items
         /\ \A k \in T : /\ k \in Key /\ items[k] \in Text
                         /\ Part(items, T) = [Part(items, T \ {k}) EXCEPT ![k] = items[k]]
<1>1. Part(items, T) \in Texts
  BY DEF Part, Texts
<1>2. Part(items, {}) = NoDocs
  BY DEF Part, NoDocs
<1>3. Part(items, Documents(items)) = items
  BY DEF Part, Documents, Texts
<1>4. ASSUME NEW k \in T
      PROVE  /\ k \in Key /\ items[k] \in Text
             /\ Part(items, T) = [Part(items, T \ {k}) EXCEPT ![k] = items[k]]
  <2>1. k \in Key /\ items[k] \in Text
    BY DEF Documents, Texts
  <2> QED
    BY <2>1 DEF Part
<1> QED
  BY <1>1, <1>2, <1>3, <1>4

\* A rebuilt index is the index of the items.
LEMMA BM25Rebuilt ==
  ASSUME NEW idx, NEW items \in Texts
  PROVE  BM25Rebuild(idx, items)
           = BM25Of(items, IF Documents(items) = {} THEN idx.avgDocLength ELSE AverageOf(items))
<1> DEFINE D == Documents(items)
           start == [EmptyBM25 EXCEPT !.avgDocLength = idx.avgDocLength]
           built(T) == BM25Of(Part(items, T),
                              IF T = {} THEN idx.avgDocLength ELSE AverageOf(Part(items, T)))
           iter[s \in SUBSET D] ==
             IF s = {} THEN start
             ELSE LET x == CHOOSE x \in s : TRUE
                  IN BM25IndexDocument(iter[s \ {x}], x, items[x])
           body(i) == [s \in SUBSET D |->
             IF s = {} THEN start
             ELSE LET x == CHOOSE x \in s : TRUE
                  IN BM25IndexDocument(i[s \ {x}], x, items[x])]
<1>1. BM25Rebuild(idx, items) = iter[D]
  BY DEF BM25Rebuild, FoldSet, MapThenFoldSet
<1>2. built({}) = start
  <2>1. Part(items, {}) = NoDocs
    BY PartFacts
  <2>2. built({}) = BM25Of(NoDocs, idx.avgDocLength)
    BY <2>1
  <2>3. start = [postings |-> NoPostings, docTokens |-> NoDocs, docCount |-> 0,
                 totalTokens |-> 0, avgDocLength |-> idx.avgDocLength]
    BY DEF EmptyBM25
  <2> HIDE DEF built, start
  <2> QED
    BY <2>2, <2>3, NothingIndexed DEF BM25Of
<1>3. ASSUME NEW s \in SUBSET D, NEW x \in s
      PROVE  BM25IndexDocument(built(s \ {x}), x, items[x]) = built(s)
  <2>1. /\ s \ {x} \in SUBSET D /\ x \in Key /\ items[x] \in Text /\ Part(items, s \ {x}) \in Texts
        /\ Part(items, s) = [Part(items, s \ {x}) EXCEPT ![x] = items[x]]
    BY PartFacts
  <2> DEFINE average == IF s \ {x} = {} THEN idx.avgDocLength ELSE AverageOf(Part(items, s \ {x}))
  <2>2. built(s \ {x}) = BM25Of(Part(items, s \ {x}), average)
    OBVIOUS
  <2>3. built(s) = BM25Of(Part(items, s), AverageOf(Part(items, s)))
    BY s # {}
  <2> HIDE DEF average, built
  <2> QED
    BY <2>1, <2>2, <2>3, BM25Indexes
<1> HIDE DEF built, start
<1>4. ASSUME NEW s \in SUBSET D, s # {}
      PROVE  Some(s) \in s /\ BM25IndexDocument(built(s \ {Some(s)}), Some(s), items[Some(s)]) = built(s)
  BY <1>3, <1>4, SomeIn
<1>5. iter = body(iter)
  <2> DEFINE h == [s \in SUBSET D |-> built(s)]
  <2>1. ASSUME NEW s \in SUBSET D PROVE h[s] = body(h)[s]
    <3>1. CASE s = {}
      BY <1>2, <3>1
    <3>2. CASE s # {}
      BY <1>4, <3>2 DEF Some
    <3> QED
      BY <3>1, <3>2
  <2>2. h = body(h)
    BY <2>1
  <2>3. \E i : i = body(i)
    BY <2>2, Zenon
  <2> QED
    BY <2>3
<1>6. ASSUME NEW s \in SUBSET D
      PROVE  iter[s] = IF s = {} THEN start
                       ELSE BM25IndexDocument(iter[s \ {Some(s)}], Some(s), items[Some(s)])
  BY <1>5 DEF Some
<1> HIDE DEF iter, D
<1> DEFINE same == {s \in SUBSET D : iter[s] = built(s)}
<1>7. ASSUME NEW s \in SUBSET D, \A u \in SUBSET s : u # s => u \in same
      PROVE  s \in same
  <2>1. CASE s = {}
    BY <1>2, <1>6, <2>1
  <2>2. CASE s # {}
    <3>1. s \ {Some(s)} \in same
      BY <1>4, <1>7, <2>2
    <3> QED
      BY <1>4, <1>6, <2>2, <3>1
  <2> QED
    BY <2>1, <2>2
<1>8. IsFiniteSet(D)
  BY KeyAssumption, FS_Subset DEF Documents, D
<1> HIDE DEF same
<1>9. SUBSET D \subseteq same
  BY <1>7, <1>8, SubsetInduction
<1>10. iter[D] = built(D)
  BY <1>9 DEF same
<1> QED
  BY <1>1, <1>10, PartFacts DEF built, D
-----------------------------------------------------------------------------
(* N-grams                                                                 *)

\* What the n-gram index holds of a document, and of documents.
NgramDoc(doc) ==
  IF doc = NoDoc \/ ExtractNgrams(doc) = <<>> THEN NoDoc ELSE ExtractNgrams(doc)

NgramDocs(docs) == [k \in Key |-> NgramDoc(docs[k])]

NgramOf(docs) == [postings |-> PostingsOf(NgramDocs(docs)), docTokens |-> NgramDocs(docs)]

LEMMA NgramDocsType ==
  /\ \A text \in Text : /\ text # NoDoc /\ ExtractNgrams(text) \in Seq(Token)
                       /\ NgramDoc(text) \in Seq(Token) \cup {NoDoc}
                       /\ \A t : Count(t, NgramDoc(text)) = Occurrences(t, ExtractNgrams(text))
  /\ \A docs \in Texts : NgramDocs(docs) \in Docs
<1>1. ASSUME NEW text \in Text
      PROVE  /\ text # NoDoc /\ ExtractNgrams(text) \in Seq(Token)
             /\ NgramDoc(text) \in Seq(Token) \cup {NoDoc}
             /\ \A t : Count(t, NgramDoc(text)) = Occurrences(t, ExtractNgrams(text))
  <2>1. text # NoDoc /\ ExtractNgrams(text) \in Seq(Token) /\ ExtractNgrams(text) # NoDoc
    BY TokenFacts, TextsAreDocs
  <2>2. CASE ExtractNgrams(text) = <<>>
    <3>1. NgramDoc(text) = NoDoc
      BY <2>2 DEF NgramDoc
    <3>2. \A t : Occurrences(t, ExtractNgrams(text)) = 0
      BY <2>1, <2>2, OccurrencesFacts
    <3> QED
      BY <2>1, <3>1, <3>2 DEF Count
  <2>3. CASE ExtractNgrams(text) # <<>>
    BY <2>1, <2>3 DEF NgramDoc, Count
  <2> QED
    BY <2>2, <2>3
<1>2. ASSUME NEW docs \in Texts PROVE NgramDocs(docs) \in Docs
  <2>1. \A k \in Key : NgramDoc(docs[k]) \in Seq(Token) \cup {NoDoc}
    <3>1. NgramDoc(NoDoc) = NoDoc
      BY DEF NgramDoc
    <3> QED
      BY <1>1, <3>1 DEF Texts
  <2> QED
    BY <2>1 DEF NgramDocs, Docs
<1> QED
  BY <1>1, <1>2

LEMMA NgramIndexes ==
  ASSUME NEW docs \in Texts, NEW key \in Key, NEW text \in Text
  PROVE  NgramIndexDocument(NgramOf(docs), key, text) = NgramOf([docs EXCEPT ![key] = text])
<1> DEFINE new == [docs EXCEPT ![key] = text]
           idx == NgramOf(docs)
           tokens == ExtractNgrams(text)
           held == IF tokens = <<>> THEN NoDoc ELSE tokens
<1>1. /\ NgramDocs(docs) \in Docs /\ NgramDocs(new) \in Docs
      /\ text # NoDoc /\ tokens \in Seq(Token)
      /\ \A t : Count(t, NgramDoc(text)) = Occurrences(t, tokens)
  <2>1. new \in Texts
    BY DEF Texts
  <2> QED
    BY <2>1, NgramDocsType
<1>2. new[key] = text /\ \A k \in Key \ {key} : new[k] = docs[k]
  BY DEF Texts
<1>3. /\ NgramDocs(new)[key] = NgramDoc(text)
      /\ \A k \in Key \ {key} : NgramDocs(new)[k] = NgramDocs(docs)[k]
  BY <1>2 DEF NgramDocs
<1>4. idx.postings = PostingsOf(NgramDocs(docs)) /\ idx.docTokens = NgramDocs(docs)
  BY DEF NgramOf
<1>5. NgramDoc(text) = held
  BY <1>1 DEF NgramDoc
<1> HIDE DEF idx, new, tokens
<1>6. Repost(idx, key, tokens) = PostingsOf(NgramDocs(new))
  <2>1. \A t \in Token : Count(t, NgramDocs(new)[key]) = Occurrences(t, tokens)
    BY <1>1, <1>3
  <2> QED
    BY <1>1, <1>3, <1>4, <2>1, RepostExact
<1>7. [idx.docTokens EXCEPT ![key] = held] = NgramDocs(new)
  <2>1. DOMAIN NgramDocs(docs) = Key /\ DOMAIN NgramDocs(new) = Key
    BY DEF NgramDocs
  <2>2. NgramDocs(new) = [k \in Key |-> NgramDocs(new)[k]]
    BY DEF NgramDocs
  <2> HIDE DEF held
  <2> QED
    BY <1>3, <1>4, <1>5, <2>1, <2>2
<1>8. NgramIndexDocument(idx, key, text)
        = [postings |-> Repost(idx, key, tokens), docTokens |-> [idx.docTokens EXCEPT ![key] = held]]
  BY DEF NgramIndexDocument, tokens
<1> QED
  BY <1>6, <1>7, <1>8 DEF NgramOf, idx, new

LEMMA NgramRemoves ==
  ASSUME NEW docs \in Texts, NEW key \in Key
  PROVE  NgramRemoveDocument(NgramOf(docs), key) = NgramOf([docs EXCEPT ![key] = NoDoc])
<1> DEFINE new == [docs EXCEPT ![key] = NoDoc]
           idx == NgramOf(docs)
<1>1. NgramDocs(docs) \in Docs
  BY NgramDocsType
<1>2. idx.postings = PostingsOf(NgramDocs(docs)) /\ idx.docTokens = NgramDocs(docs)
  BY DEF NgramOf
<1>3. NgramDocs(new) = [NgramDocs(docs) EXCEPT ![key] = NoDoc]
  <2>1. NgramDoc(NoDoc) = NoDoc
    BY DEF NgramDoc
  <2>2. new[key] = NoDoc /\ \A k \in Key \ {key} : new[k] = docs[k]
    BY DEF Texts
  <2> HIDE DEF new
  <2> QED
    BY <2>1, <2>2 DEF NgramDocs
<1> HIDE DEF new, idx
<1>4. CASE NgramDocs(docs)[key] = NoDoc
  <2>1. NgramDocs(new) = NgramDocs(docs)
    BY <1>1, <1>3, <1>4 DEF Docs
  <2> QED
    BY <1>2, <1>4, <2>1 DEF NgramRemoveDocument, NgramOf, new, idx
<1>5. CASE NgramDocs(docs)[key] # NoDoc
  <2>1. Unpost(idx.postings, key, idx.docTokens[key]) = PostingsOf(NgramDocs(new))
    BY <1>1, <1>2, <1>3, <1>5, UnpostExact
  <2>2. NgramRemoveDocument(idx, key)
          = [postings  |-> Unpost(idx.postings, key, idx.docTokens[key]),
             docTokens |-> [idx.docTokens EXCEPT ![key] = NoDoc]]
    BY <1>2, <1>5 DEF NgramRemoveDocument
  <2> QED
    BY <1>2, <1>3, <2>1, <2>2 DEF NgramOf, new, idx
<1> QED
  BY <1>4, <1>5

LEMMA NgramRebuilt ==
  ASSUME NEW items \in Texts
  PROVE  NgramRebuild(items) = NgramOf(items)
<1> DEFINE D == Documents(items)
           built(T) == NgramOf(Part(items, T))
           iter[s \in SUBSET D] ==
             IF s = {} THEN EmptyNgram
             ELSE LET x == CHOOSE x \in s : TRUE
                  IN NgramIndexDocument(iter[s \ {x}], x, items[x])
           body(i) == [s \in SUBSET D |->
             IF s = {} THEN EmptyNgram
             ELSE LET x == CHOOSE x \in s : TRUE
                  IN NgramIndexDocument(i[s \ {x}], x, items[x])]
<1>1. NgramRebuild(items) = iter[D]
  BY DEF NgramRebuild, FoldSet, MapThenFoldSet
<1>2. built({}) = EmptyNgram
  <2>1. NgramDocs(NoDocs) = NoDocs
    BY DEF NgramDocs, NgramDoc, NoDocs
  <2>2. Part(items, {}) = NoDocs
    BY PartFacts
  <2> QED
    BY <2>1, <2>2, NothingIndexed DEF NgramOf, EmptyNgram
<1>3. ASSUME NEW s \in SUBSET D, NEW x \in s
      PROVE  NgramIndexDocument(built(s \ {x}), x, items[x]) = built(s)
  <2>1. /\ s \ {x} \in SUBSET D /\ x \in Key /\ items[x] \in Text /\ Part(items, s \ {x}) \in Texts
        /\ Part(items, s) = [Part(items, s \ {x}) EXCEPT ![x] = items[x]]
    BY PartFacts
  <2> QED
    BY <2>1, NgramIndexes
<1> HIDE DEF built
<1>4. ASSUME NEW s \in SUBSET D, s # {}
      PROVE  Some(s) \in s /\ NgramIndexDocument(built(s \ {Some(s)}), Some(s), items[Some(s)]) = built(s)
  BY <1>3, <1>4, SomeIn
<1>5. iter = body(iter)
  <2> DEFINE h == [s \in SUBSET D |-> built(s)]
  <2>1. ASSUME NEW s \in SUBSET D PROVE h[s] = body(h)[s]
    <3>1. CASE s = {}
      BY <1>2, <3>1
    <3>2. CASE s # {}
      BY <1>4, <3>2 DEF Some
    <3> QED
      BY <3>1, <3>2
  <2>2. h = body(h)
    BY <2>1
  <2>3. \E i : i = body(i)
    BY <2>2, Zenon
  <2> QED
    BY <2>3
<1>6. ASSUME NEW s \in SUBSET D
      PROVE  iter[s] = IF s = {} THEN EmptyNgram
                       ELSE NgramIndexDocument(iter[s \ {Some(s)}], Some(s), items[Some(s)])
  BY <1>5 DEF Some
<1> HIDE DEF iter, D
<1> DEFINE same == {s \in SUBSET D : iter[s] = built(s)}
<1>7. ASSUME NEW s \in SUBSET D, \A u \in SUBSET s : u # s => u \in same
      PROVE  s \in same
  <2>1. CASE s = {}
    BY <1>2, <1>6, <2>1
  <2>2. CASE s # {}
    <3>1. s \ {Some(s)} \in same
      BY <1>4, <1>7, <2>2
    <3> QED
      BY <1>4, <1>6, <2>2, <3>1
  <2> QED
    BY <2>1, <2>2
<1>8. IsFiniteSet(D)
  BY KeyAssumption, FS_Subset DEF Documents, D
<1> HIDE DEF same
<1>9. SUBSET D \subseteq same
  BY <1>7, <1>8, SubsetInduction
<1>10. iter[D] = built(D)
  BY <1>9 DEF same
<1> QED
  BY <1>1, <1>10, PartFacts DEF built, D
-----------------------------------------------------------------------------
(* TF-IDF                                                                  *)

LEMMA ElementsFacts ==
  ASSUME NEW tokens \in Seq(Token)
  PROVE  ElementsOf(tokens) \subseteq Token /\ IsFiniteSet(ElementsOf(tokens))
<1>1. ElementsOf(tokens) \subseteq Token
  BY LenProperties, ElementOfSeq DEF ElementsOf
<1> QED
  BY <1>1, TokenFacts, FS_Subset

\* A token is in no more documents than there are.
LEMMA DocFreqFacts ==
  ASSUME NEW docs \in Docs, NEW t \in Token
  PROVE  LET df == DocFreq(PostingsOf(docs), t)
             count == Cardinality(Documents(docs))
         IN  /\ df \in Nat /\ count \in Nat /\ df <= count
             /\ df > 0 <=> \E k \in Key : Count(t, docs[k]) > 0
             /\ Idf(df, count) \in Nat \ {0}
<1> DEFINE having == {k \in Key : PostingsOf(docs)[t][k] > 0}
           df == DocFreq(PostingsOf(docs), t)
           count == Cardinality(Documents(docs))
<1>1. \A k \in Key : PostingsOf(docs)[t][k] = Count(t, docs[k])
  BY DEF PostingsOf
<1>2. having \subseteq Documents(docs)
  BY <1>1 DEF Documents, Count
<1>3. IsFiniteSet(Documents(docs)) /\ count \in Nat
  BY KeyAssumption, FS_Subset, FS_CardinalityType DEF Documents
<1>4. df = Cardinality(having)
  BY DEF DocFreq
<1>5. IsFiniteSet(having) /\ Cardinality(having) \in Nat /\ Cardinality(having) <= count
  BY <1>2, <1>3, FS_Subset, FS_CardinalityType
<1>6. Cardinality(having) > 0 <=> \E k \in Key : Count(t, docs[k]) > 0
  <2>1. Cardinality(having) = 0 <=> having = {}
    BY <1>5, FS_EmptySet
  <2> QED
    BY <1>1, <1>5, <2>1
<1> HIDE DEF having, count
<1>7. Idf(df, count) \in Nat \ {0}
  BY <1>3, <1>4, <1>5 DEF Idf
<1> QED
  BY <1>3, <1>4, <1>5, <1>6, <1>7 DEF count

\* Documents and weights of a TF-IDF index.
TFIDFData(docs, norms) ==
  [postings |-> PostingsOf(docs), docTokens |-> docs, docNorms |-> norms,
   docCount |-> Cardinality(Documents(docs))]

TFIDFOf(docs) == recomputeNorms(TFIDFData(docs, NoDocs))

\* The weight of a token is positive where it occurs.
LEMMA WeightFacts ==
  ASSUME NEW docs \in Docs, NEW norms, NEW t \in Token, NEW count \in Nat
  PROVE  /\ Weight(TFIDFData(docs, norms), t, count) \in Nat
         /\ count > 0 => Weight(TFIDFData(docs, norms), t, count) > 0
<1> DEFINE idf == Idf(DocFreq(PostingsOf(docs), t), Cardinality(Documents(docs)))
<1>1. Weight(TFIDFData(docs, norms), t, count) = IF count = 0 THEN 0 ELSE count * idf
  BY DEF Weight, TfWeight, TFIDFData
<1>2. idf \in Nat \ {0}
  BY DocFreqFacts
<1> HIDE DEF idf
<1>3. count * idf \in Nat /\ (count > 0 => count * idf > 0)
  BY <1>2
<1> QED
  BY <1>1, <1>3

\* The norm of a document is a natural number, at least the square of each weight.
LEMMA NormFacts ==
  ASSUME NEW docs \in Docs, NEW norms, NEW k \in Key, docs[k] # NoDoc
  PROVE  LET idx == TFIDFData(docs, norms)
         IN  /\ Norm(idx, k) \in Nat
             /\ \A t \in ElementsOf(docs[k]) : Norm(idx, k) > 0
             /\ Norm(idx, k) = Norm(TFIDFData(docs, NoDocs), k)
<1> DEFINE idx == TFIDFData(docs, norms)
           E == ElementsOf(docs[k])
           w(t) == Weight(idx, t, Occurrences(t, docs[k]))
           f == [t \in E |-> w(t) * w(t)]
<1>1. docs[k] \in Seq(Token)
  BY DEF Docs
<1>2. IsFiniteSet(E) /\ E \subseteq Token
  BY <1>1, ElementsFacts
<1>3. ASSUME NEW t \in E PROVE w(t) * w(t) \in Nat /\ w(t) * w(t) > 0
  <2>1. Occurrences(t, docs[k]) \in Nat /\ Occurrences(t, docs[k]) > 0
    BY <1>1, OccurrencesFacts
  <2>2. w(t) \in Nat /\ w(t) > 0
    BY <1>2, <2>1, WeightFacts
  <2> HIDE DEF w
  <2> QED
    BY <2>2, Square
<1>4. Norm(idx, k) = SumFunction(f)
  <2>1. idx.docTokens = docs
    BY DEF TFIDFData
  <2> QED
    BY <2>1 DEF Norm
<1>5. f \in [E -> Nat] /\ \A t \in E : f[t] > 0
  BY <1>3
<1>6. Norm(idx, k) = Norm(TFIDFData(docs, NoDocs), k)
  BY DEF Norm, TFIDFData, Weight
<1> HIDE DEF f, E, idx
<1>7. SumFunction(f) \in Nat /\ \A t \in E : f[t] <= SumFunction(f)
  BY <1>2, <1>5, SumOfAll
<1>8. \A t \in E : SumFunction(f) > 0
  <2> SUFFICES ASSUME NEW t \in E PROVE SumFunction(f) > 0
    OBVIOUS
  <2>1. f[t] \in Nat /\ f[t] > 0 /\ f[t] <= SumFunction(f)
    BY <1>5, <1>7
  <2> QED
    BY <1>7, <2>1
<1> QED
  BY <1>4, <1>6, <1>7, <1>8 DEF E, idx

\* What the index of given documents consists of.
LEMMA TFIDFFacts ==
  ASSUME NEW docs \in Docs
  PROVE  LET idx == TFIDFOf(docs)
         IN  /\ idx.postings = PostingsOf(docs) /\ idx.docTokens = docs
             /\ idx.docCount = Cardinality(Documents(docs))
             /\ idx.docNorms \in [Key -> Nat \cup {NoDoc}]
             /\ \A k \in Key : idx.docNorms[k] = IF docs[k] = NoDoc THEN NoDoc ELSE Norm(idx, k)
             /\ idx = TFIDFData(docs, idx.docNorms)
             /\ \A norms : recomputeNorms(TFIDFData(docs, norms)) = idx
<1> DEFINE idx == TFIDFOf(docs)
           norms(x) == [k \in Key |-> IF Cardinality(Documents(docs)) = 0 \/ docs[k] = NoDoc
                                     THEN NoDoc ELSE Norm(TFIDFData(docs, x), k)]
<1>1. ASSUME NEW x PROVE recomputeNorms(TFIDFData(docs, x)) = TFIDFData(docs, norms(x))
  BY DEF recomputeNorms, TFIDFData
<1>2. ASSUME NEW x PROVE norms(x) = norms(NoDocs)
  <2>1. \A k \in Key : docs[k] # NoDoc => Norm(TFIDFData(docs, x), k) = Norm(TFIDFData(docs, NoDocs), k)
    BY NormFacts
  <2> QED
    BY <2>1
<1>3. idx = TFIDFData(docs, norms(NoDocs))
  BY <1>1 DEF TFIDFOf
<1>4. ASSUME NEW k \in Key
      PROVE  norms(NoDocs)[k] = IF docs[k] = NoDoc THEN NoDoc ELSE Norm(TFIDFData(docs, NoDocs), k)
  <2>1. docs[k] # NoDoc => Documents(docs) # {}
    BY DEF Documents
  <2>2. Cardinality(Documents(docs)) = 0 => Documents(docs) = {}
    BY KeyAssumption, FS_Subset, FS_EmptySet DEF Documents
  <2> QED
    BY <2>1, <2>2
<1>5. ASSUME NEW k \in Key, docs[k] # NoDoc
      PROVE  /\ Norm(TFIDFData(docs, NoDocs), k) \in Nat
             /\ Norm(TFIDFData(docs, norms(NoDocs)), k) = Norm(TFIDFData(docs, NoDocs), k)
  BY <1>5, NormFacts
<1>6. norms(NoDocs) \in [Key -> Nat \cup {NoDoc}]
  BY <1>4, <1>5
<1>7. ASSUME NEW x PROVE recomputeNorms(TFIDFData(docs, x)) = idx
  BY <1>1, <1>2, <1>3
<1> HIDE DEF norms, idx
<1>8. /\ idx.postings = PostingsOf(docs) /\ idx.docTokens = docs
      /\ idx.docCount = Cardinality(Documents(docs)) /\ idx.docNorms = norms(NoDocs)
  BY <1>3 DEF TFIDFData
<1>9. \A k \in Key : idx.docNorms[k] = IF docs[k] = NoDoc THEN NoDoc ELSE Norm(idx, k)
  BY <1>3, <1>4, <1>5, <1>8
<1> QED
  BY <1>3, <1>6, <1>7, <1>8, <1>9 DEF idx

LEMMA TFIDFIndexes ==
  ASSUME NEW docs \in Docs, NEW key \in Key, NEW text \in Text
  PROVE  LET new == [docs EXCEPT ![key] = text]
         IN  new \in Docs /\ TFIDFIndexDocument(TFIDFOf(docs), key, text) = TFIDFOf(new)
<1> DEFINE new == [docs EXCEPT ![key] = text]
           idx == TFIDFOf(docs)
<1>1. text \in Seq(Token) /\ text # NoDoc /\ tokenize(text) = text /\ new \in Docs
  BY TextsAreDocs DEF tokenize, Docs
<1>2. new[key] = text /\ \A k \in Key \ {key} : new[k] = docs[k]
  BY DEF Docs
<1>3. /\ idx.postings = PostingsOf(docs) /\ idx.docTokens = docs
      /\ idx.docCount = Cardinality(Documents(docs)) /\ idx = TFIDFData(docs, idx.docNorms)
  BY TFIDFFacts
<1>4. Cardinality(Documents(docs)) + (IF docs[key] = NoDoc THEN 1 ELSE 0) = Cardinality(Documents(new))
  BY <1>1, DocumentsChange
<1>5. [docs EXCEPT ![key] = tokenize(text)] = new
  BY <1>1
<1> HIDE DEF idx, new
<1>6. Repost(idx, key, text) = PostingsOf(new)
  <2>1. \A t \in Token : Count(t, new[key]) = Occurrences(t, text)
    BY <1>1, <1>2 DEF Count
  <2> QED
    BY <1>1, <1>2, <1>3, <2>1, RepostExact
<1> DEFINE put == [idx EXCEPT !.postings = Repost(idx, key, tokenize(text)),
                              !.docTokens[key] = tokenize(text),
                              !.docCount = @ + (IF idx.docTokens[key] = NoDoc THEN 1 ELSE 0)]
<1>7. put = TFIDFData(new, idx.docNorms)
  <2>1. put = [TFIDFData(docs, idx.docNorms) EXCEPT
                 !.postings = PostingsOf(new),
                 !.docTokens = new,
                 !.docCount = Cardinality(Documents(new))]
    <3>1. put = [idx EXCEPT !.postings = PostingsOf(new),
                            !.docTokens = [@ EXCEPT ![key] = tokenize(text)],
                            !.docCount = @ + (IF idx.docTokens[key] = NoDoc THEN 1 ELSE 0)]
      BY <1>1, <1>6
    <3>2. put = [idx EXCEPT !.postings = PostingsOf(new),
                            !.docTokens = new,
                            !.docCount = Cardinality(Documents(new))]
      BY <1>3, <1>4, <1>5, <3>1 DEF TFIDFData
    <3> HIDE DEF put
    <3> QED
      BY <1>3, <3>2
  <2> HIDE DEF put
  <2> QED
    BY <2>1 DEF TFIDFData
<1>8. TFIDFIndexDocument(idx, key, text) = recomputeNorms(put)
  BY DEF TFIDFIndexDocument
<1> HIDE DEF put
<1>9. TFIDFIndexDocument(idx, key, text) = TFIDFOf(new)
  BY <1>1, <1>7, <1>8, TFIDFFacts
<1> QED
  BY <1>1, <1>9 DEF idx, new

LEMMA TFIDFRemoves ==
  ASSUME NEW docs \in Docs, NEW key \in Key
  PROVE  LET new == [docs EXCEPT ![key] = NoDoc]
         IN  new \in Docs /\ TFIDFRemoveDocument(TFIDFOf(docs), key) = TFIDFOf(new)
<1> DEFINE new == [docs EXCEPT ![key] = NoDoc]
           idx == TFIDFOf(docs)
<1>1. new \in Docs
  BY DEF Docs
<1>2. /\ idx.postings = PostingsOf(docs) /\ idx.docTokens = docs
      /\ idx.docCount = Cardinality(Documents(docs)) /\ idx = TFIDFData(docs, idx.docNorms)
  BY TFIDFFacts
<1>3. CASE docs[key] = NoDoc
  <2>1. new = docs
    BY <1>3 DEF Docs
  <2>2. TFIDFRemoveDocument(idx, key) = idx
    BY <1>2, <1>3 DEF TFIDFRemoveDocument
  <2> QED
    BY <1>1, <2>1, <2>2
<1>4. CASE docs[key] # NoDoc
  <2> DEFINE put == [idx EXCEPT !.postings = Unpost(@, key, idx.docTokens[key]),
                                !.docTokens[key] = NoDoc,
                                !.docCount = @ - 1]
  <2>1. Unpost(PostingsOf(docs), key, docs[key]) = PostingsOf(new)
    BY <1>4, UnpostExact
  <2>2. Cardinality(Documents(docs)) - 1 = Cardinality(Documents(new))
    BY <1>4, DocumentsChange
  <2>3. [docs EXCEPT ![key] = NoDoc] = new
    OBVIOUS
  <2> HIDE DEF idx, new
  <2>4. put = TFIDFData(new, idx.docNorms)
    <3>1. put = [idx EXCEPT !.postings = PostingsOf(new), !.docTokens = [@ EXCEPT ![key] = NoDoc],
                            !.docCount = @ - 1]
      BY <1>2, <2>1
    <3>2. put = [idx EXCEPT !.postings = PostingsOf(new), !.docTokens = new,
                            !.docCount = Cardinality(Documents(new))]
      BY <1>2, <2>2, <2>3, <3>1 DEF TFIDFData
    <3> HIDE DEF put
    <3>3. put = [TFIDFData(docs, idx.docNorms) EXCEPT
                   !.postings = PostingsOf(new), !.docTokens = new,
                   !.docCount = Cardinality(Documents(new))]
      BY <1>2, <3>2
    <3> QED
      BY <3>3 DEF TFIDFData
  <2>5. TFIDFRemoveDocument(idx, key) = recomputeNorms(put)
    BY <1>2, <1>4 DEF TFIDFRemoveDocument
  <2> HIDE DEF put
  <2>6. TFIDFRemoveDocument(idx, key) = TFIDFOf(new)
    BY <1>1, <2>4, <2>5, TFIDFFacts
  <2> QED
    BY <1>1, <2>6 DEF idx, new
<1> QED
  BY <1>3, <1>4
\* The documents that a rebuild keeps.
Kept(items) == [k \in Key |-> IF k \in Documents(items) /\ ~Tokenless(items[k]) THEN items[k] ELSE NoDoc]

LEMMA TFIDFRebuilt ==
  ASSUME NEW items \in Texts
  PROVE  Kept(items) \in Docs /\ TFIDFRebuild(items) = TFIDFOf(Kept(items))
<1> DEFINE D == {k \in Documents(items) : ~Tokenless(items[k])}
           built(T) == PostingsOf(Part(items, T))
           iter[s \in SUBSET D] ==
             IF s = {} THEN NoPostings
             ELSE LET x == CHOOSE x \in s : TRUE
                  IN Post(iter[s \ {x}], x, tokenize(items[x]))
           body(i) == [s \in SUBSET D |->
             IF s = {} THEN NoPostings
             ELSE LET x == CHOOSE x \in s : TRUE
                  IN Post(i[s \ {x}], x, tokenize(items[x]))]
           folded == FoldSet(LAMBDA k, p : Post(p, k, tokenize(items[k])), NoPostings, D)
           docTokens == [k \in Key |-> IF k \in D THEN tokenize(items[k]) ELSE NoDoc]
<1>1. folded = iter[D]
  BY DEF FoldSet, MapThenFoldSet
<1>2. D \in SUBSET Documents(items) /\ IsFiniteSet(D)
  BY KeyAssumption, FS_Subset DEF Documents
<1>3. Kept(items) = Part(items, D) /\ docTokens = Part(items, D)
  BY DEF Kept, Part, tokenize
<1>4. TFIDFRebuild(items)
        = recomputeNorms([EmptyTFIDF EXCEPT !.postings = folded, !.docTokens = docTokens,
                                            !.docCount = Cardinality(D)])
  BY DEF TFIDFRebuild, EmptyTFIDF
<1> HIDE DEF folded
<1>5. Part(items, D) \in Docs /\ Documents(Part(items, D)) = D
  <2>1. \A k \in D : k \in Key /\ items[k] # NoDoc
    BY DEF Documents
  <2>2. Part(items, D) \in Docs
    BY <1>2, PartFacts, TextsAreDocs
  <2> HIDE DEF D
  <2> QED
    BY <2>1, <2>2 DEF Part, Documents
<1> HIDE DEF D
<1>6. built({}) = NoPostings
  BY PartFacts, NothingIndexed
<1>7. ASSUME NEW s \in SUBSET D, NEW x \in s
      PROVE  Post(built(s \ {x}), x, tokenize(items[x])) = built(s)
  <2> DEFINE docs == Part(items, s \ {x})
             new == Part(items, s)
             idx == [postings |-> PostingsOf(docs), docTokens |-> docs]
  <2>1. /\ docs \in Docs /\ new \in Docs /\ x \in Key /\ items[x] \in Text
        /\ new = [docs EXCEPT ![x] = items[x]]
    <3>1. s \in SUBSET Documents(items) /\ s \ {x} \in SUBSET Documents(items)
      BY <1>2
    <3> QED
      BY <3>1, PartFacts, TextsAreDocs
  <2>2. docs[x] = NoDoc
    BY <2>1 DEF Part
  <2>3. items[x] \in Seq(Token) /\ items[x] # NoDoc
    BY <2>1, TextsAreDocs
  <2>4. idx.postings = PostingsOf(docs) /\ idx.docTokens = docs
    OBVIOUS
  <2> HIDE DEF docs, new, idx
  <2>5. new[x] = items[x] /\ \A k \in Key \ {x} : new[k] = docs[k]
    BY <2>1 DEF Docs
  <2>6. \A t \in Token : Count(t, new[x]) = Occurrences(t, items[x])
    BY <2>3, <2>5 DEF Count
  <2>7. Repost(idx, x, items[x]) = PostingsOf(new)
    <3> DEFINE tokens == items[x]
    <3>1. docs \in Docs /\ new \in Docs /\ x \in Key /\ tokens \in Seq(Token)
      BY <2>1, <2>3
    <3>2. \A t \in Token : Count(t, new[x]) = Occurrences(t, tokens)
      BY <2>6
    <3>3. \A k \in Key \ {x} : new[k] = docs[k]
      BY <2>5
    <3> HIDE DEF tokens
    <3>4. Repost(idx, x, tokens) = PostingsOf(new)
      BY ONLY <2>4, <3>1, <3>2, <3>3, RepostExact
    <3> QED
      BY <3>4 DEF tokens
  <2>8. Repost(idx, x, items[x]) = Post(PostingsOf(docs), x, items[x])
    BY <2>2, <2>4 DEF Repost
  <2> QED
    BY <2>7, <2>8 DEF docs, new, tokenize
<1> HIDE DEF built
<1>8. ASSUME NEW s \in SUBSET D, s # {}
      PROVE  Some(s) \in s /\ Post(built(s \ {Some(s)}), Some(s), tokenize(items[Some(s)])) = built(s)
  BY <1>7, <1>8, SomeIn
<1>9. iter = body(iter)
  <2> DEFINE h == [s \in SUBSET D |-> built(s)]
  <2>1. ASSUME NEW s \in SUBSET D PROVE h[s] = body(h)[s]
    <3>1. CASE s = {}
      BY <1>6, <3>1
    <3>2. CASE s # {}
      BY <1>8, <3>2 DEF Some
    <3> QED
      BY <3>1, <3>2
  <2>2. h = body(h)
    BY <2>1
  <2>3. \E i : i = body(i)
    BY <2>2, Zenon
  <2> QED
    BY <2>3
<1>10. ASSUME NEW s \in SUBSET D
       PROVE  iter[s] = IF s = {} THEN NoPostings
                        ELSE Post(iter[s \ {Some(s)}], Some(s), tokenize(items[Some(s)]))
  BY <1>9 DEF Some
<1> HIDE DEF iter
<1> DEFINE same == {s \in SUBSET D : iter[s] = built(s)}
<1>11. ASSUME NEW s \in SUBSET D, \A u \in SUBSET s : u # s => u \in same
       PROVE  s \in same
  <2>1. CASE s = {}
    BY <1>6, <1>10, <2>1
  <2>2. CASE s # {}
    <3>1. s \ {Some(s)} \in same
      BY <1>8, <1>11, <2>2
    <3> QED
      BY <1>8, <1>10, <2>2, <3>1
  <2> QED
    BY <2>1, <2>2
<1> HIDE DEF same
<1>12. SUBSET D \subseteq same
  BY <1>2, <1>11, SubsetInduction
<1>13. folded = PostingsOf(Part(items, D))
  BY <1>1, <1>12 DEF same, built
<1>14. [EmptyTFIDF EXCEPT !.postings = folded, !.docTokens = docTokens, !.docCount = Cardinality(D)]
         = TFIDFData(Part(items, D), NoDocs)
  <2> DEFINE put == [EmptyTFIDF EXCEPT !.postings = folded, !.docTokens = docTokens,
                                       !.docCount = Cardinality(D)]
  <2>1. EmptyTFIDF = TFIDFData(NoDocs, NoDocs)
    BY NothingIndexed DEF EmptyTFIDF, TFIDFData
  <2>2. put = [TFIDFData(NoDocs, NoDocs) EXCEPT
                 !.postings = PostingsOf(Part(items, D)), !.docTokens = Part(items, D),
                 !.docCount = Cardinality(Documents(Part(items, D)))]
    BY <1>3, <1>5, <1>13, <2>1
  <2> HIDE DEF put
  <2>3. put = TFIDFData(Part(items, D), NoDocs)
    BY <2>2 DEF TFIDFData
  <2> QED
    BY <2>3 DEF put
<1>15. TFIDFRebuild(items) = TFIDFOf(Part(items, D))
  BY <1>4, <1>14 DEF TFIDFOf
<1> QED
  BY <1>3, <1>5, <1>15

-----------------------------------------------------------------------------
(* LSA                                                                     *)

LEMMA LeastOf ==
  ASSUME NEW a \in Nat, NEW b \in Nat, NEW c \in Nat
  PROVE  Min({a, b, c}) \in 0..a
<1> DEFINE S == {a, b, c}
<1>1. \E x \in S : \A y \in S : x <= y
  <2>1. CASE a <= b /\ a <= c
    BY <2>1
  <2>2. CASE b <= a /\ b <= c
    BY <2>2
  <2>3. CASE c <= a /\ c <= b
    BY <2>3
  <2> QED
    BY <2>1, <2>2, <2>3
<1>2. Min(S) = CHOOSE x \in S : \A y \in S : x <= y
  BY DEF Min
<1>3. Min(S) \in S /\ Min(S) <= a
  BY <1>1, <1>2
<1> QED
  BY <1>3

LEMMA LSAType ==
  ASSUME NEW items \in Texts
  PROVE  LET it == LSARebuild(EmptyLSA, items)
         IN  /\ it.docKeys \subseteq Key /\ it.cells \subseteq (DOMAIN it.termIDF) \X it.docKeys
             /\ DOMAIN it.termIDF \subseteq Token /\ it.rank \in 0..DimK
<1>1. CASE NothingToDecompose(items)
  <2>1. LSARebuild(EmptyLSA, items) = EmptyLSA
    BY <1>1 DEF LSARebuild
  <2>2. 0 \in 0..DimK
    BY SizesAssumption
  <2> QED
    BY <2>1, <2>2 DEF EmptyLSA
<1>2. CASE ~NothingToDecompose(items)
  <2> DEFINE docs == Documents(items)
             terms == UNION {ElementsOf(tokenize(items[k])) : k \in docs}
             it == LSAMatrix(items)
  <2>1. LSARebuild(EmptyLSA, items) = it
    BY <1>2 DEF LSARebuild
  <2>2. docs \subseteq Key /\ IsFiniteSet(docs)
    BY KeyAssumption, FS_Subset DEF Documents
  <2>3. terms \subseteq Token /\ IsFiniteSet(terms)
    <3>1. \A k \in docs : ElementsOf(tokenize(items[k])) \subseteq Token
      BY TextsAreDocs, ElementsFacts DEF Documents, Texts, tokenize
    <3>2. terms \subseteq Token
      BY <3>1
    <3> QED
      BY <3>2, TokenFacts, FS_Subset
  <2>4. Cardinality(terms) \in Nat /\ Cardinality(docs) \in Nat
    BY <2>2, <2>3, FS_CardinalityType
  <2>5. Min({DimK, Cardinality(terms), Cardinality(docs)}) \in 0..DimK
    BY <2>4, SizesAssumption, LeastOf
  <2>6. /\ it.docKeys = docs /\ DOMAIN it.termIDF = terms /\ it.cells \subseteq terms \X docs
        /\ it.rank = Min({DimK, Cardinality(terms), Cardinality(docs)})
    BY DEF LSAMatrix
  <2> HIDE DEF it, docs, terms
  <2> QED
    BY <2>1, <2>2, <2>3, <2>5, <2>6
<1> QED
  BY <1>1, <1>2
-----------------------------------------------------------------------------
(* The invariant: every index is the one of the documents given last       *)

\* TF-IDF holds the documents, but for some that have no tokens.
Held(docs) ==
  /\ docs \in Docs
  /\ \A k \in Key : docs[k] = given[k] \/ (docs[k] = NoDoc /\ given[k] = <<>>)

BM25Current ==
  /\ bm25 = BM25Of(given, bm25.avgDocLength)
  /\ bm25.avgDocLength \in Nat \X (Nat \ {0})
  /\ Documents(given) # {} => bm25.avgDocLength = AverageOf(given)

TFIDFCurrent == tfidf = TFIDFOf(tfidf.docTokens) /\ Held(tfidf.docTokens)

IndexInv ==
  /\ given \in Texts
  /\ BM25Current
  /\ ngram = NgramOf(given)
  /\ TFIDFCurrent
  /\ lsa = LSARebuild(EmptyLSA, given)

LEMMA OtherLSA == \A old, items : LSARebuild(old, items) = LSARebuild(EmptyLSA, items)
  BY DEF LSARebuild

LEMMA InvStart == Init => IndexInv
<1> SUFFICES ASSUME Init PROVE IndexInv
  OBVIOUS
<1>1. given = NoDocs /\ given \in Texts
  BY TextsAreDocs DEF Init
<1>2. BM25Current
  <2>1. bm25.avgDocLength = <<0, 1>>
    BY DEF Init, EmptyBM25
  <2>2. bm25 = BM25Of(NoDocs, <<0, 1>>)
    BY NothingIndexed DEF Init, EmptyBM25, BM25Of
  <2>3. <<0, 1>> \in Nat \X (Nat \ {0})
    OBVIOUS
  <2> QED
    BY <1>1, <2>1, <2>2, <2>3, NothingIndexed DEF BM25Current
<1>3. ngram = NgramOf(given)
  <2>1. NgramDocs(NoDocs) = NoDocs
    BY DEF NgramDocs, NgramDoc, NoDocs
  <2> QED
    BY <1>1, <2>1, NothingIndexed DEF Init, EmptyNgram, NgramOf
<1>4. TFIDFCurrent
  <2>1. tfidf = TFIDFData(NoDocs, NoDocs) /\ tfidf.docTokens = NoDocs
    BY NothingIndexed DEF Init, EmptyTFIDF, TFIDFData
  <2>2. recomputeNorms(TFIDFData(NoDocs, NoDocs)) = TFIDFData(NoDocs, NoDocs)
    <3>1. [k \in Key |-> IF Cardinality(Documents(NoDocs)) = 0 \/ NoDocs[k] = NoDoc
                        THEN NoDoc ELSE Norm(TFIDFData(NoDocs, NoDocs), k)] = NoDocs
      BY DEF NoDocs
    <3>2. /\ TFIDFData(NoDocs, NoDocs).docCount = Cardinality(Documents(NoDocs))
          /\ TFIDFData(NoDocs, NoDocs).docTokens = NoDocs
      BY DEF TFIDFData
    <3>3. recomputeNorms(TFIDFData(NoDocs, NoDocs)) = [TFIDFData(NoDocs, NoDocs) EXCEPT !.docNorms = NoDocs]
      BY <3>1, <3>2 DEF recomputeNorms
    <3> QED
      BY <3>3 DEF TFIDFData
  <2>3. NoDocs \in Docs
    BY TextsAreDocs
  <2> QED
    BY <1>1, <2>1, <2>2, <2>3 DEF TFIDFCurrent, TFIDFOf, Held
<1>5. lsa = LSARebuild(EmptyLSA, given)
  <2>1. NothingToDecompose(NoDocs)
    BY NothingIndexed DEF NothingToDecompose
  <2> QED
    BY <1>1, <2>1 DEF Init, LSARebuild
<1> QED
  BY <1>1, <1>2, <1>3, <1>4, <1>5 DEF IndexInv

LEMMA InvIndex ==
  ASSUME IndexInv, NEW k \in Key, NEW text \in Text, IndexDocument(k, text)
  PROVE  IndexInv'
<1> DEFINE new == [given EXCEPT ![k] = text]
           docs == tfidf.docTokens
<1>1. given' = new /\ new \in Texts
  BY DEF IndexInv, IndexDocument, Texts
<1>2. BM25Current'
  <2>1. bm25' = BM25Of(new, AverageOf(new))
    <3> DEFINE average == bm25.avgDocLength
               idx == BM25Of(given, average)
    <3>1. bm25 = idx /\ given \in Texts
      BY DEF IndexInv, BM25Current
    <3> HIDE DEF average
    <3>2. BM25IndexDocument(idx, k, text) = BM25Of(new, AverageOf(new))
      BY <3>1, BM25Indexes
    <3>3. bm25' = BM25IndexDocument(bm25, k, text)
      BY DEF IndexDocument
    <3> HIDE DEF idx, new
    <3> QED
      BY <3>1, <3>2, <3>3
  <2>2. bm25'.avgDocLength = AverageOf(new)
    BY <2>1 DEF BM25Of
  <2>3. AverageOf(new) \in Nat \X (Nat \ {0})
    BY <1>1, AverageType
  <2> HIDE DEF new
  <2> QED
    BY <1>1, <2>1, <2>2, <2>3 DEF BM25Current
<1>3. ngram' = NgramOf(given')
  <2>1. ngram = NgramOf(given) /\ given \in Texts
    BY DEF IndexInv
  <2>2. NgramIndexDocument(NgramOf(given), k, text) = NgramOf(new)
    BY <2>1, NgramIndexes
  <2>3. ngram' = NgramIndexDocument(ngram, k, text)
    BY DEF IndexDocument
  <2> HIDE DEF new
  <2> QED
    BY <1>1, <2>1, <2>2, <2>3
<1>4. TFIDFCurrent'
  <2> DEFINE held == [docs EXCEPT ![k] = text]
  <2>1. docs \in Docs /\ tfidf = TFIDFOf(docs)
    BY DEF IndexInv, TFIDFCurrent, Held
  <2>2. held \in Docs /\ tfidf' = TFIDFOf(held)
    BY <2>1, TFIDFIndexes DEF IndexDocument
  <2>3. tfidf'.docTokens = held
    BY <2>2, TFIDFFacts
  <2>4. \A j \in Key : held[j] = new[j] \/ (held[j] = NoDoc /\ new[j] = <<>>)
    BY <2>1 DEF IndexInv, TFIDFCurrent, Held, Texts, Docs
  <2> HIDE DEF held, new, docs
  <2> QED
    BY <1>1, <2>2, <2>3, <2>4 DEF TFIDFCurrent, Held
<1>5. lsa' = LSARebuild(EmptyLSA, given')
  BY OtherLSA DEF IndexDocument
<1> QED
  BY <1>1, <1>2, <1>3, <1>4, <1>5 DEF IndexInv

LEMMA InvRemove ==
  ASSUME IndexInv, NEW k \in Key, RemoveDocument(k)
  PROVE  IndexInv'
<1> DEFINE new == [given EXCEPT ![k] = NoDoc]
           docs == tfidf.docTokens
<1>1. given' = new /\ new \in Texts
  BY DEF IndexInv, RemoveDocument, Texts
<1>2. BM25Current'
  <2> DEFINE average == IF given[k] = NoDoc THEN bm25.avgDocLength ELSE AverageOf(new)
  <2>1. bm25' = BM25Of(new, average)
    <3> DEFINE old == bm25.avgDocLength
               idx == BM25Of(given, old)
    <3>1. bm25 = idx /\ given \in Texts
      BY DEF IndexInv, BM25Current
    <3> HIDE DEF old
    <3>2. BM25RemoveDocument(idx, k) = BM25Of(new, IF given[k] = NoDoc THEN old ELSE AverageOf(new))
      BY <3>1, BM25Removes
    <3>3. bm25' = BM25RemoveDocument(bm25, k)
      BY DEF RemoveDocument
    <3> HIDE DEF idx, new
    <3> QED
      BY <3>1, <3>2, <3>3 DEF old
  <2>2. bm25'.avgDocLength = average
    BY <2>1 DEF BM25Of
  <2>3. AverageOf(new) \in Nat \X (Nat \ {0})
    BY <1>1, AverageType
  <2>4. given[k] = NoDoc => new = given
    BY DEF IndexInv, Texts
  <2>5. average \in Nat \X (Nat \ {0}) /\ (Documents(new) # {} => average = AverageOf(new))
    BY <2>3, <2>4 DEF IndexInv, BM25Current
  <2> HIDE DEF new, average
  <2> QED
    BY <1>1, <2>1, <2>2, <2>5 DEF BM25Current
<1>3. ngram' = NgramOf(given')
  BY <1>1, NgramRemoves DEF IndexInv, RemoveDocument
<1>4. TFIDFCurrent'
  <2> DEFINE held == [docs EXCEPT ![k] = NoDoc]
  <2>1. docs \in Docs /\ tfidf = TFIDFOf(docs)
    BY DEF IndexInv, TFIDFCurrent, Held
  <2>2. held \in Docs /\ tfidf' = TFIDFOf(held)
    BY <2>1, TFIDFRemoves DEF RemoveDocument
  <2>3. tfidf'.docTokens = held
    BY <2>2, TFIDFFacts
  <2>4. \A j \in Key : held[j] = new[j] \/ (held[j] = NoDoc /\ new[j] = <<>>)
    BY <2>1 DEF IndexInv, TFIDFCurrent, Held, Texts, Docs
  <2> HIDE DEF held, new, docs
  <2> QED
    BY <1>1, <2>2, <2>3, <2>4 DEF TFIDFCurrent, Held
<1>5. lsa' = LSARebuild(EmptyLSA, given')
  BY OtherLSA DEF RemoveDocument
<1> QED
  BY <1>1, <1>2, <1>3, <1>4, <1>5 DEF IndexInv

LEMMA InvRebuild ==
  ASSUME IndexInv, NEW items \in Texts, Rebuild(items)
  PROVE  IndexInv'
<1>1. given' = items
  BY DEF Rebuild
<1>2. BM25Current'
  <2> DEFINE average == IF Documents(items) = {} THEN bm25.avgDocLength ELSE AverageOf(items)
  <2>1. bm25' = BM25Of(items, average)
    BY BM25Rebuilt DEF Rebuild
  <2>2. bm25'.avgDocLength = average
    BY <2>1 DEF BM25Of
  <2>3. average \in Nat \X (Nat \ {0})
    BY AverageType DEF IndexInv, BM25Current
  <2> QED
    BY <1>1, <2>1, <2>2, <2>3 DEF BM25Current
<1>3. ngram' = NgramOf(given')
  BY <1>1, NgramRebuilt DEF Rebuild
<1>4. TFIDFCurrent'
  <2>1. Kept(items) \in Docs /\ tfidf' = TFIDFOf(Kept(items))
    BY TFIDFRebuilt DEF Rebuild
  <2>2. tfidf'.docTokens = Kept(items)
    BY <2>1, TFIDFFacts
  <2>3. \A j \in Key : Kept(items)[j] = items[j] \/ (Kept(items)[j] = NoDoc /\ items[j] = <<>>)
    BY DEF Kept, Documents, Tokenless, tokenize
  <2> QED
    BY <1>1, <2>1, <2>2, <2>3 DEF TFIDFCurrent, Held
<1>5. lsa' = LSARebuild(EmptyLSA, given')
  BY <1>1, OtherLSA DEF Rebuild
<1> QED
  BY <1>1, <1>2, <1>3, <1>4, <1>5 DEF IndexInv

\* Whatever calls are made, and however the documents came and went, every index
\* is the index of the documents that were given last.
THEOREM IndexCurrent == Spec => []IndexInv
<1>1. IndexInv /\ [Next]_vars => IndexInv'
  <2> SUFFICES ASSUME IndexInv, [Next]_vars PROVE IndexInv'
    OBVIOUS
  <2>1. ASSUME NEW k \in Key, NEW text \in Text, IndexDocument(k, text) PROVE IndexInv'
    BY <2>1, InvIndex
  <2>2. ASSUME NEW k \in Key, RemoveDocument(k) PROVE IndexInv'
    BY <2>2, InvRemove
  <2>3. ASSUME NEW items \in [Key -> Text \cup {NoDoc}], Rebuild(items) PROVE IndexInv'
    BY <2>3, InvRebuild DEF Texts
  <2>4. CASE UNCHANGED vars
    BY <2>4 DEF vars, IndexInv, BM25Current, TFIDFCurrent, Held
  <2> QED
    BY <2>1, <2>2, <2>3, <2>4 DEF Next
<1> QED
  BY <1>1, InvStart, PTL DEF Spec
\* What the invariant says of the fields of the indexes.
LEMMA IndexFields ==
  ASSUME IndexInv
  PROVE  LET docs == tfidf.docTokens
         IN  /\ given \in Texts /\ given \in Docs /\ docs \in Docs /\ NgramDocs(given) \in Docs
             /\ bm25.postings = PostingsOf(given) /\ bm25.docTokens = given
             /\ bm25.docCount = Cardinality(Documents(given))
             /\ bm25.totalTokens = Cardinality(Places(given))
             /\ bm25.avgDocLength \in Nat \X (Nat \ {0})
             /\ ngram.postings = PostingsOf(NgramDocs(given)) /\ ngram.docTokens = NgramDocs(given)
             /\ tfidf.postings = PostingsOf(docs)
             /\ tfidf.docCount = Cardinality(Documents(docs))
             /\ tfidf.docNorms \in [Key -> Nat \cup {NoDoc}]
             /\ \A k \in Key : tfidf.docNorms[k] = IF docs[k] = NoDoc THEN NoDoc ELSE Norm(tfidf, k)
             /\ tfidf = TFIDFData(docs, tfidf.docNorms)
             /\ \A k \in Key : docs[k] = given[k] \/ (docs[k] = NoDoc /\ given[k] = <<>>)
<1> DEFINE docs == tfidf.docTokens
           average == bm25.avgDocLength
<1>1. given \in Texts /\ given \in Docs /\ docs \in Docs /\ NgramDocs(given) \in Docs
  BY TextsAreDocs, NgramDocsType DEF IndexInv, TFIDFCurrent, Held
<1>2. bm25 = BM25Of(given, average) /\ average \in Nat \X (Nat \ {0})
  BY DEF IndexInv, BM25Current
<1>3. ngram = NgramOf(given)
  BY DEF IndexInv
<1>4. /\ tfidf = TFIDFOf(docs)
      /\ \A k \in Key : docs[k] = given[k] \/ (docs[k] = NoDoc /\ given[k] = <<>>)
  BY DEF IndexInv, TFIDFCurrent, Held
<1>5. average = bm25.avgDocLength
  OBVIOUS
<1> HIDE DEF average
<1>6. /\ bm25.postings = PostingsOf(given) /\ bm25.docTokens = given
      /\ bm25.docCount = Cardinality(Documents(given))
      /\ bm25.totalTokens = Cardinality(Places(given))
  BY <1>2 DEF BM25Of
<1>7. ngram.postings = PostingsOf(NgramDocs(given)) /\ ngram.docTokens = NgramDocs(given)
  BY <1>3 DEF NgramOf
<1>8. docs = tfidf.docTokens
  OBVIOUS
<1> HIDE DEF docs
<1>9. /\ tfidf.postings = PostingsOf(docs)
      /\ tfidf.docCount = Cardinality(Documents(docs))
      /\ tfidf.docNorms \in [Key -> Nat \cup {NoDoc}]
      /\ \A k \in Key : tfidf.docNorms[k] = IF docs[k] = NoDoc THEN NoDoc ELSE Norm(tfidf, k)
      /\ tfidf = TFIDFData(docs, tfidf.docNorms)
  <2>1. LET idx == TFIDFOf(docs)
        IN  /\ idx.postings = PostingsOf(docs)
            /\ idx.docCount = Cardinality(Documents(docs))
            /\ idx.docNorms \in [Key -> Nat \cup {NoDoc}]
            /\ \A k \in Key : idx.docNorms[k] = IF docs[k] = NoDoc THEN NoDoc ELSE Norm(idx, k)
            /\ idx = TFIDFData(docs, idx.docNorms)
    BY <1>1, TFIDFFacts
  <2> QED
    BY <1>4, <2>1
<1> QED
  BY <1>1, <1>2, <1>4, <1>5, <1>6, <1>7, <1>8, <1>9

LEMMA PostingsType ==
  ASSUME NEW docs \in Docs
  PROVE  PostingsOf(docs) \in Postings
<1>1. \A t \in Token, k \in Key : Count(t, docs[k]) \in Nat
  BY CountType DEF Docs
<1> QED
  BY <1>1 DEF PostingsOf, Postings

\* Every field of every index keeps its type: counts, lengths and norms are natural
\* numbers, BM25 never divides by zero, and the rank LSA cuts down to is at most DimK.
THEOREM IndexTyped == Spec => []TypeOK
<1>1. IndexInv => TypeOK
  <2> SUFFICES ASSUME IndexInv PROVE TypeOK
    OBVIOUS
  <2>1. /\ given \in Docs /\ tfidf.docTokens \in Docs /\ ngram.docTokens \in Docs
        /\ bm25.docTokens \in Docs
        /\ bm25.docCount \in Nat /\ tfidf.docCount \in Nat /\ bm25.totalTokens \in Nat
    <3>1. /\ given \in Docs /\ tfidf.docTokens \in Docs /\ NgramDocs(given) \in Docs
          /\ bm25.docTokens = given /\ ngram.docTokens = NgramDocs(given)
          /\ bm25.docCount = Cardinality(Documents(given))
          /\ bm25.totalTokens = Cardinality(Places(given))
          /\ tfidf.docCount = Cardinality(Documents(tfidf.docTokens))
      BY IndexFields
    <3>2. \A docs \in Docs : Cardinality(Documents(docs)) \in Nat
      BY KeyAssumption, FS_Subset, FS_CardinalityType DEF Documents
    <3>3. Cardinality(Places(given)) \in Nat
      BY <3>1, PlacesChange
    <3> QED
      BY <3>1, <3>2, <3>3
  <2>2. bm25.postings \in Postings /\ ngram.postings \in Postings /\ tfidf.postings \in Postings
    BY IndexFields, PostingsType
  <2>3. bm25.avgDocLength \in Nat \X (Nat \ {0}) /\ tfidf.docNorms \in [Key -> Nat \cup {NoDoc}]
    BY IndexFields
  <2>4. /\ lsa.docKeys \subseteq Key /\ lsa.cells \subseteq (DOMAIN lsa.termIDF) \X lsa.docKeys
        /\ DOMAIN lsa.termIDF \subseteq Token /\ lsa.rank \in 0..DimK
    BY LSAType DEF IndexInv
  <2>5. given \in [Key -> Text \cup {NoDoc}]
    BY DEF IndexInv, Texts
  <2> QED
    BY <2>1, <2>2, <2>3, <2>4, <2>5 DEF TypeOK, Docs, DocTokens
<1> QED
  BY <1>1, IndexCurrent, PTL

\* Postings, counters and norms are those of the documents given last, whatever was
\* indexed, indexed again, removed or rebuilt before (bm25.go:57-128, ngram.go:34-101,
\* tfidf.go:27-101): no call leaves a trace of an old text or counts one twice.
THEOREM IndexExactAlways == Spec => []IndexExact
<1>1. IndexInv => IndexExact
  <2> SUFFICES ASSUME IndexInv PROVE IndexExact
    OBVIOUS
  <2> DEFINE docs == tfidf.docTokens
  <2>1. /\ given \in Texts /\ given \in Docs /\ docs \in Docs
        /\ bm25.postings = PostingsOf(given) /\ tfidf.postings = PostingsOf(docs)
        /\ ngram.postings = PostingsOf(NgramDocs(given))
        /\ \A k \in Key : docs[k] = given[k] \/ (docs[k] = NoDoc /\ given[k] = <<>>)
    BY IndexFields
  <2>2. ASSUME NEW t \in Token, NEW k \in Key
        PROVE  /\ bm25.postings[t][k] = Wanted(tokenize, t, k)
               /\ tfidf.postings[t][k] = Wanted(tokenize, t, k)
               /\ ngram.postings[t][k] = Wanted(ExtractNgrams, t, k)
    <3>1. Wanted(tokenize, t, k) = Count(t, given[k])
      BY DEF Wanted, Count, tokenize
    <3>2. bm25.postings[t][k] = Count(t, given[k]) /\ tfidf.postings[t][k] = Count(t, docs[k])
      BY <2>1 DEF PostingsOf
    <3>3. Count(t, docs[k]) = Count(t, given[k])
      <4>1. CASE docs[k] = given[k]
        BY <4>1
      <4>2. CASE docs[k] = NoDoc /\ given[k] = <<>>
        <5>1. <<>> \in Seq(Token)
          OBVIOUS
        <5>2. Occurrences(t, <<>>) = 0
          BY <5>1, OccurrencesFacts
        <5>3. Count(t, docs[k]) = 0 /\ Count(t, given[k]) = 0
          BY <4>2, <5>2 DEF Count
        <5> QED
          BY <5>3
      <4> QED
        BY <2>1, <4>1, <4>2
    <3>4. ngram.postings[t][k] = Wanted(ExtractNgrams, t, k)
      <4>1. ngram.postings[t][k] = Count(t, NgramDoc(given[k]))
        BY <2>1 DEF PostingsOf, NgramDocs
      <4>2. CASE given[k] = NoDoc
        <5>1. NgramDoc(given[k]) = NoDoc
          BY <4>2 DEF NgramDoc
        <5> QED
          BY <4>1, <4>2, <5>1 DEF Wanted, Count
      <4>3. CASE given[k] # NoDoc
        <5>1. given[k] \in Text
          BY <2>1, <4>3 DEF Texts
        <5>2. Count(t, NgramDoc(given[k])) = Occurrences(t, ExtractNgrams(given[k]))
          BY <5>1, NgramDocsType
        <5> QED
          BY <4>1, <4>3, <5>2 DEF Wanted
      <4> QED
        BY <4>2, <4>3
    <3> QED
      BY <3>1, <3>2, <3>3, <3>4
  <2>3. CountersExact
    <3> DEFINE average == bm25.avgDocLength
    <3>1. /\ bm25.docTokens = given
          /\ bm25.docCount = Cardinality(Documents(given))
          /\ bm25.totalTokens = Cardinality(Places(given))
          /\ tfidf.docCount = Cardinality(Documents(docs))
      BY IndexFields
    <3>2. Documents(given) # {} => average = AverageOf(given)
      BY DEF IndexInv, BM25Current
    <3>3. IsFiniteSet(Documents(given)) /\ Cardinality(Documents(given)) \in Nat
      BY KeyAssumption, FS_Subset, FS_CardinalityType DEF Documents
    <3>4. Cardinality(Documents(given)) = 0 <=> Documents(given) = {}
      BY <3>3, FS_EmptySet
    <3>5. Cardinality(Documents(given)) > 0
            => average = <<Cardinality(Places(given)), Cardinality(Documents(given))>>
      BY <3>2, <3>3, <3>4 DEF AverageOf, Average
    <3> QED
      BY <3>1, <3>5 DEF CountersExact
  <2>4. NormsFresh
    BY IndexFields DEF NormsFresh
  <2> QED
    BY <2>2, <2>3, <2>4 DEF IndexExact, PostingsExact
<1> QED
  BY <1>1, IndexCurrent, PTL

\* Rebuilding an index from the documents it was given changes nothing: updates made
\* one at a time and a rebuild agree (bm25.go:57-67, ngram.go:34-42, tfidf.go:27-50),
\* for TF-IDF when no document is without tokens.
THEOREM RebuildsAgree == Spec => []RebuildAgrees
<1>1. IndexInv => RebuildAgrees
  <2> SUFFICES ASSUME IndexInv PROVE RebuildAgrees
    OBVIOUS
  <2>1. given \in Texts
    BY DEF IndexInv
  <2>2. ASSUME Documents(given) # {} PROVE bm25 = BM25Rebuild(bm25, given)
    <3>1. BM25Rebuild(bm25, given)
            = BM25Of(given, IF Documents(given) = {} THEN bm25.avgDocLength ELSE AverageOf(given))
      BY <2>1, BM25Rebuilt
    <3> DEFINE average == bm25.avgDocLength
    <3>2. bm25 = BM25Of(given, average) /\ average = AverageOf(given)
      BY <2>2 DEF IndexInv, BM25Current
    <3> HIDE DEF average
    <3> QED
      BY <2>2, <3>1, <3>2
  <2>3. ngram = NgramRebuild(given)
    BY <2>1, NgramRebuilt DEF IndexInv
  <2>4. ASSUME \A k \in Documents(given) : ~Tokenless(given[k]) PROVE tfidf = TFIDFRebuild(given)
    <3> DEFINE docs == tfidf.docTokens
    <3>1. tfidf = TFIDFOf(docs) /\ docs \in Docs
      BY DEF IndexInv, TFIDFCurrent, Held
    <3>2. ASSUME NEW k \in Key PROVE docs[k] = given[k] /\ Kept(given)[k] = given[k]
      <4>1. docs[k] = given[k] \/ (docs[k] = NoDoc /\ given[k] = <<>>)
        BY DEF IndexInv, TFIDFCurrent, Held
      <4>2. given[k] # <<>>
        <5>1. NoDoc # <<>>
          BY TokenFacts, <<>> \in Seq(Token)
        <5> QED
          BY <2>4, <5>1 DEF Documents, Tokenless, tokenize
      <4>3. Kept(given)[k] = given[k]
        BY <2>4 DEF Kept, Documents
      <4> QED
        BY <4>1, <4>2, <4>3
    <3>3. docs = [k \in Key |-> given[k]] /\ Kept(given) = [k \in Key |-> given[k]]
      BY <3>1, <3>2 DEF Docs, Kept
    <3>4. TFIDFRebuild(given) = TFIDFOf(Kept(given))
      BY <2>1, TFIDFRebuilt
    <3> HIDE DEF docs
    <3> QED
      BY <3>1, <3>3, <3>4
  <2> QED
    BY <2>2, <2>3, <2>4 DEF RebuildAgrees
<1> QED
  BY <1>1, IndexCurrent, PTL
-----------------------------------------------------------------------------
(* Searches                                                                *)

\* A search over everything answers with the keys that have a score.
LEMMA EveryKey ==
  ASSUME NEW score, IsScore(score)
  PROVE  KeysOf(Truncate(Ranked(score), 0)) = DOMAIN score
<1>1. Truncate(Ranked(score), 0) = Ranked(score)
  BY DEF Truncate
<1> QED
  BY <1>1, RankedList

\* What postings find.
LEMMA FindsExact ==
  ASSUME NEW docs \in Docs, NEW q \in Seq(Token)
  PROVE  Finds(PostingsOf(docs), q)
           = {k \in Documents(docs) : ElementsOf(docs[k]) \cap ElementsOf(q) # {}}
<1>1. ElementsOf(q) \subseteq Token
  BY ElementsFacts
<1>2. ASSUME NEW k \in Key, NEW t \in ElementsOf(q)
      PROVE  PostingsOf(docs)[t][k] > 0 <=> docs[k] # NoDoc /\ t \in ElementsOf(docs[k])
  <2>1. PostingsOf(docs)[t][k] = Count(t, docs[k])
    BY <1>1 DEF PostingsOf
  <2>2. CASE docs[k] = NoDoc
    BY <2>1, <2>2 DEF Count
  <2>3. CASE docs[k] # NoDoc
    <3>1. docs[k] \in Seq(Token)
      BY <2>3 DEF Docs
    <3>2. Occurrences(t, docs[k]) > 0 <=> t \in ElementsOf(docs[k])
      BY <3>1, OccurrencesFacts
    <3> QED
      BY <2>1, <2>3, <3>2 DEF Count
  <2> QED
    BY <2>2, <2>3
<1> QED
  BY <1>2 DEF Finds, Documents

LEMMA NoElements == ElementsOf(<<>>) = {}
  BY DEF ElementsOf

\* Each index finds the documents that share a piece with the query.
LEMMA FindsSharing ==
  ASSUME IndexInv, NEW query \in Text
  PROVE  /\ Finds(bm25.postings, tokenize(query)) = Sharing(tokenize, query)
         /\ Finds(tfidf.postings, tokenize(query)) = Sharing(tokenize, query)
         /\ Finds(ngram.postings, ExtractNgrams(query)) = Sharing(ExtractNgrams, query)
<1> DEFINE docs == tfidf.docTokens
           grams == NgramDocs(given)
<1>1. /\ given \in Texts /\ given \in Docs /\ docs \in Docs /\ grams \in Docs
      /\ bm25.postings = PostingsOf(given) /\ ngram.postings = PostingsOf(grams)
      /\ tfidf.postings = PostingsOf(docs)
      /\ \A k \in Key : docs[k] = given[k] \/ (docs[k] = NoDoc /\ given[k] = <<>>)
  BY IndexFields
<1>2. /\ tokenize(query) \in Seq(Token) /\ ExtractNgrams(query) \in Seq(Token)
      /\ tokenize(query) = query
  BY TokenFacts DEF tokenize
<1>3. Sharing(tokenize, query) = {k \in Documents(given) : ElementsOf(given[k]) \cap ElementsOf(query) # {}}
  BY DEF Sharing, tokenize
<1>4. Finds(bm25.postings, tokenize(query)) = Sharing(tokenize, query)
  BY <1>1, <1>2, <1>3, FindsExact
<1>5. Finds(tfidf.postings, tokenize(query)) = Sharing(tokenize, query)
  <2>1. Finds(tfidf.postings, tokenize(query))
          = {k \in Documents(docs) : ElementsOf(docs[k]) \cap ElementsOf(query) # {}}
    BY <1>1, <1>2, FindsExact
  <2>2. ASSUME NEW k \in Key
        PROVE  k \in Documents(docs) /\ ElementsOf(docs[k]) \cap ElementsOf(query) # {}
                 <=> k \in Documents(given) /\ ElementsOf(given[k]) \cap ElementsOf(query) # {}
    BY <1>1, NoElements DEF Documents
  <2>3. Documents(docs) \subseteq Key /\ Documents(given) \subseteq Key
    BY DEF Documents
  <2> QED
    BY <1>3, <2>1, <2>2, <2>3
<1>6. Finds(ngram.postings, ExtractNgrams(query)) = Sharing(ExtractNgrams, query)
  <2> DEFINE q == ExtractNgrams(query)
  <2>1. Finds(ngram.postings, q) = {k \in Documents(grams) : ElementsOf(grams[k]) \cap ElementsOf(q) # {}}
    BY <1>1, <1>2, FindsExact
  <2>2. Sharing(ExtractNgrams, query)
          = {k \in Documents(given) : ElementsOf(ExtractNgrams(given[k])) \cap ElementsOf(q) # {}}
    BY DEF Sharing
  <2>3. ASSUME NEW k \in Key
        PROVE  k \in Documents(grams) /\ ElementsOf(grams[k]) \cap ElementsOf(q) # {}
                 <=> k \in Documents(given) /\ ElementsOf(ExtractNgrams(given[k])) \cap ElementsOf(q) # {}
    <3>1. grams[k] = NgramDoc(given[k])
      BY DEF NgramDocs
    <3>2. CASE given[k] = NoDoc
      BY <3>1, <3>2 DEF NgramDoc, Documents
    <3>3. CASE given[k] # NoDoc /\ ExtractNgrams(given[k]) = <<>>
      BY <3>1, <3>3, NoElements DEF NgramDoc, Documents
    <3>4. CASE given[k] # NoDoc /\ ExtractNgrams(given[k]) # <<>>
      <4>1. grams[k] = ExtractNgrams(given[k])
        BY <3>1, <3>4 DEF NgramDoc
      <4>2. given[k] \in Text
        BY <1>1, <3>4 DEF Texts
      <4>3. ExtractNgrams(given[k]) # NoDoc
        BY <4>2, TokenFacts
      <4> QED
        BY <3>4, <4>1, <4>3 DEF Documents
    <3> QED
      BY <3>2, <3>3, <3>4
  <2>4. Documents(grams) \subseteq Key /\ Documents(given) \subseteq Key
    BY DEF Documents
  <2> HIDE DEF q, grams
  <2> QED
    BY <2>1, <2>2, <2>3, <2>4 DEF q
<1> QED
  BY <1>4, <1>5, <1>6

\* The documents that share a piece with the query are keys, and a score of each ranks
\* them all.
LEMMA RanksSharing ==
  ASSUME NEW S, S \subseteq Key, NEW score, DOMAIN score = S, \A k \in S : score[k] \in Score
  PROVE  KeysOf(Truncate(Ranked(score), 0)) = S
<1>1. IsScore(score)
  <2>1. IsFiniteSet(S)
    BY KeyAssumption, FS_Subset
  <2>2. S \subseteq Int
    BY KeyOrderAssumption
  <2> QED
    BY <2>1, <2>2 DEF IsScore
<1> QED
  BY <1>1, EveryKey

\* Occurrences of some of the tokens of a query are occurrences of it.
LEMMA OccurrencesTotal ==
  ASSUME NEW q \in Seq(Token)
  PROVE  /\ Len(q) \in Nat
         /\ SumFunction([t \in ElementsOf(q) |-> Occurrences(t, q)]) = Len(q)
<1> DEFINE E == ElementsOf(q)
           f == [t \in E |-> Occurrences(t, q)]
           at(T) == {n \in DOMAIN q : q[n] \in T}
           good == {T \in SUBSET E : SumFunctionOnSet(f, T) = Cardinality(at(T))}
<1>1. E \subseteq Token /\ IsFiniteSet(E)
  BY ElementsFacts
<1>2. DOMAIN q = 1..Len(q) /\ Len(q) \in Nat
  BY LenProperties
<1>3. f \in [E -> Int]
  <2>1. \A t \in E : Occurrences(t, q) \in Nat
    BY OccurrencesFacts
  <2> QED
    BY <2>1
<1>4. \A T : IsFiniteSet(at(T)) /\ Cardinality(at(T)) \in Nat
  <2>1. IsFiniteSet(DOMAIN q)
    BY <1>2, FS_Interval
  <2> QED
    BY <2>1, FS_Subset, FS_CardinalityType
<1>5. {} \in good
  <2>1. at({}) = {}
    OBVIOUS
  <2>2. Cardinality(at({})) = 0
    BY <2>1, FS_EmptySet
  <2>3. SumFunctionOnSet(f, {}) = 0
    BY <1>1, <1>3, SumFacts
  <2> QED
    BY <2>2, <2>3
<1>6. ASSUME NEW T \in SUBSET E, T # {} PROVE \E x \in T : T \ {x} \in good => T \in good
  <2>1. PICK x \in T : TRUE
    BY <1>6
  <2>2. ASSUME T \ {x} \in good PROVE T \in good
    <3>1. SumFunctionOnSet(f, T) = f[x] + SumFunctionOnSet(f, T \ {x})
      BY <1>1, <1>3, SumFacts
    <3>2. f[x] = Cardinality(at({x}))
      <4>1. at({x}) = {n \in DOMAIN q : q[n] = x}
        OBVIOUS
      <4> HIDE DEF at
      <4> QED
        BY <4>1 DEF Occurrences
    <3>3. at(T) = at({x}) \cup at(T \ {x}) /\ at({x}) \cap at(T \ {x}) = {}
      OBVIOUS
    <3> DEFINE one == at({x})
               rest == at(T \ {x})
    <3>4. /\ IsFiniteSet(one) /\ IsFiniteSet(rest)
          /\ Cardinality(one) \in Nat /\ Cardinality(rest) \in Nat
      BY <1>4
    <3>5. SumFunctionOnSet(f, T \ {x}) = Cardinality(rest)
      BY <2>2
    <3>6. at(T) = one \cup rest /\ one \cap rest = {} /\ f[x] = Cardinality(one)
      BY <3>2, <3>3
    <3> HIDE DEF one, rest
    <3>7. Cardinality(one \cup rest) = Cardinality(one) + Cardinality(rest)
      <4>1. Cardinality(one \cup rest) = Cardinality(one) + Cardinality(rest) - Cardinality(one \cap rest)
        BY <3>4, FS_Union
      <4>2. Cardinality(one \cap rest) = 0
        BY <3>6, FS_EmptySet
      <4> QED
        BY <3>4, <4>1, <4>2
    <3>8. Cardinality(at(T)) = Cardinality(one \cup rest)
      BY <3>6
    <3> HIDE DEF at, f
    <3>9. SumFunctionOnSet(f, T) = Cardinality(at(T))
      BY <3>1, <3>5, <3>6, <3>7, <3>8
    <3> QED
      BY <3>9
  <2> QED
    BY <2>2
<1> HIDE DEF good
<1>7. SUBSET E \subseteq good
  <2> HIDE DEF E
  <2>1. IsFiniteSet(E)
    BY <1>1
  <2> QED
    BY ONLY <1>5, <1>6, <2>1, ElementInduction
<1>8. SumFunctionOnSet(f, E) = Cardinality(at(E))
  BY <1>7 DEF good
<1>9. at(E) = 1..Len(q)
  BY <1>2 DEF ElementsOf
<1>10. Cardinality(at(E)) = Len(q)
  <2>1. Cardinality(1..Len(q)) = Len(q)
    BY <1>2, FS_Interval
  <2>2. Cardinality(at(E)) = Cardinality(1..Len(q))
    BY <1>9
  <2> QED
    BY <2>1, <2>2
<1> QED
  BY <1>2, <1>8, <1>10 DEF SumFunction

LEMMA LeastOfTwo ==
  ASSUME NEW a \in Nat, NEW b \in Nat
  PROVE  /\ Min({a, b}) \in {a, b} /\ Min({a, b}) \in Nat
         /\ Min({a, b}) <= a /\ Min({a, b}) <= b
<1> DEFINE S == {a, b}
<1>1. \E x \in S : \A y \in S : x <= y
  <2>1. CASE a <= b
    BY <2>1
  <2>2. CASE b <= a
    BY <2>2
  <2> QED
    BY <2>1, <2>2
<1>2. Min(S) = CHOOSE x \in S : \A y \in S : x <= y
  BY DEF Min
<1> QED
  BY <1>1, <1>2

LEMMA Tenths ==
  ASSUME NEW n \in Nat, NEW d \in Nat \ {0}
  PROVE  TenThousandths(n, d) \in Nat
<1> DEFINE a == 20000 * n + d
           b == 2 * d
<1>1. a \in Nat /\ b \in Nat \ {0}
  OBVIOUS
<1> HIDE DEF a, b
<1>2. a \div b \in Nat
  BY <1>1
<1> QED
  BY <1>2 DEF TenThousandths, a, b

\* A document that shares an n-gram with the query: the counts its score is made of.
LEMMA SharedFacts ==
  ASSUME IndexInv, NEW query \in Text, NEW k \in Sharing(ExtractNgrams, query)
  PROVE  LET q == ExtractNgrams(query)
             d == ngram.docTokens[k]
         IN  /\ k \in Key /\ q \in Seq(Token)
             /\ d = ExtractNgrams(given[k]) /\ d \in Seq(Token)
             /\ \A t \in ElementsOf(q) : ngram.postings[t][k] = Occurrences(t, d)
             /\ Shared(q, k) \in Nat /\ 1 <= Shared(q, k) /\ Shared(q, k) <= Len(q)
             /\ Len(d) \in Nat /\ 1 <= Len(d) /\ Len(q) \in Nat
<1> DEFINE q == ExtractNgrams(query)
           d == ExtractNgrams(given[k])
           E == ElementsOf(q)
           f == [g \in E |-> Min({Occurrences(g, q), ngram.postings[g][k]})]
           c == [g \in E |-> Occurrences(g, q)]
<1>1. /\ k \in Key /\ given[k] # NoDoc /\ ElementsOf(d) \cap E # {}
  BY DEF Sharing, Documents
<1>2. given[k] \in Text
  BY <1>1 DEF IndexInv, Texts
<1>3. q \in Seq(Token) /\ d \in Seq(Token)
  BY <1>2, TokenFacts
<1>4. d # <<>>
  BY <1>1, NoElements
<1>5. ngram.docTokens[k] = d
  <2>1. ngram.docTokens = NgramDocs(given)
    BY IndexFields
  <2> QED
    BY <1>1, <1>4, <2>1 DEF NgramDocs, NgramDoc
<1>6. E \subseteq Token /\ IsFiniteSet(E)
  BY <1>3, ElementsFacts
<1>7. ASSUME NEW t \in E PROVE ngram.postings[t][k] = Occurrences(t, d)
  <2>1. ngram.postings = PostingsOf(NgramDocs(given))
    BY IndexFields
  <2>2. ngram.postings[t][k] = Count(t, NgramDoc(given[k]))
    BY <1>1, <1>6, <2>1 DEF PostingsOf, NgramDocs
  <2> QED
    BY <1>2, <2>2, NgramDocsType
<1>8. Len(d) \in Nat /\ 1 <= Len(d) /\ Len(q) \in Nat
  <2>1. Len(d) \in Nat /\ Len(q) \in Nat
    BY <1>3, LenProperties
  <2>2. Len(d) # 0
    BY <1>3, <1>4, EmptySeq
  <2> QED
    BY <2>1, <2>2
<1>9. ASSUME NEW t \in E
      PROVE  f[t] \in Nat /\ c[t] \in Nat /\ f[t] <= c[t] /\ (t \in ElementsOf(d) => f[t] >= 1)
  <2> DEFINE x == Occurrences(t, q)
             y == Occurrences(t, d)
  <2>1. x \in Nat /\ y \in Nat /\ x > 0 /\ (t \in ElementsOf(d) => y > 0)
    BY <1>3, OccurrencesFacts
  <2>2. f[t] = Min({x, y}) /\ c[t] = x
    BY <1>7
  <2> HIDE DEF x, y, f, c
  <2>3. Min({x, y}) \in {x, y} /\ Min({x, y}) \in Nat /\ Min({x, y}) <= x
    BY <2>1, LeastOfTwo
  <2> QED
    BY <2>1, <2>2, <2>3
<1>10. f \in [E -> Nat] /\ c \in [E -> Nat] /\ f \in [E -> Int] /\ c \in [E -> Int]
  <2>1. DOMAIN f = E /\ DOMAIN c = E
    OBVIOUS
  <2>2. f = [t \in E |-> f[t]] /\ c = [t \in E |-> c[t]]
    OBVIOUS
  <2> HIDE DEF f, c
  <2> QED
    BY <1>9, <2>1, <2>2
<1>11. Shared(q, k) = SumFunctionOnSet(f, E) /\ Len(q) = SumFunctionOnSet(c, E)
  <2>1. Shared(q, k) = SumFunction(f)
    BY DEF Shared
  <2>2. SumFunction(c) = Len(q)
    BY <1>3, OccurrencesTotal
  <2> QED
    BY <2>1, <2>2 DEF SumFunction
<1>12. SumFunctionOnSet(f, E) <= SumFunctionOnSet(c, E)
  <2> HIDE DEF f, c
  <2> QED
    BY <1>6, <1>9, <1>10, SumMonotone
<1>13. SumFunctionOnSet(f, E) \in Nat /\ \A t \in E : f[t] <= SumFunctionOnSet(f, E)
  <2> HIDE DEF f
  <2> QED
    BY <1>6, <1>10, SumOfNaturals
<1>14. PICK t \in E : t \in ElementsOf(d)
  BY <1>1
<1>15. 1 <= SumFunctionOnSet(f, E)
  <2>1. f[t] \in Nat /\ f[t] >= 1 /\ f[t] <= SumFunctionOnSet(f, E)
    BY <1>9, <1>13, <1>14
  <2> HIDE DEF f
  <2> QED
    BY <1>13, <2>1
<1> HIDE DEF f, c, E, d, q
<1>16. /\ Shared(q, k) \in Nat /\ 1 <= Shared(q, k) /\ Shared(q, k) <= Len(q)
  BY <1>8, <1>11, <1>12, <1>13, <1>15
<1> QED
  BY <1>1, <1>3, <1>5, <1>7, <1>8, <1>16 DEF E, d, q

LEMMA NgramScoreType ==
  ASSUME IndexInv, NEW query \in Text, NEW k \in Sharing(ExtractNgrams, query), NEW metric \in Metric
  PROVE  NgramScore(metric, ExtractNgrams(query), k) \in Nat
<1> DEFINE q == ExtractNgrams(query)
           d == ngram.docTokens[k]
           shared == Shared(q, k)
           lenQ == Len(q)
           docLen == Len(d)
<1>1. /\ shared \in Nat /\ 1 <= shared /\ shared <= lenQ
      /\ docLen \in Nat /\ 1 <= docLen /\ lenQ \in Nat
  BY SharedFacts
<1>2. NgramScore(metric, q, k)
        = CASE metric = "Dice"    -> TenThousandths(2 * shared, lenQ + docLen)
            [] metric = "Jaccard" -> TenThousandths(shared, lenQ + docLen - shared)
            [] metric = "Overlap" -> TenThousandths(shared, Min({lenQ, docLen}))
  BY DEF NgramScore
<1> HIDE DEF q, d, shared, lenQ, docLen
<1>3. TenThousandths(2 * shared, lenQ + docLen) \in Nat
  BY <1>1, Tenths
<1>4. TenThousandths(shared, lenQ + docLen - shared) \in Nat
  BY <1>1, Tenths
<1>5. TenThousandths(shared, Min({lenQ, docLen})) \in Nat
  <2>1. Min({lenQ, docLen}) \in Nat \ {0}
    BY <1>1, LeastOfTwo
  <2> QED
    BY <1>1, <2>1, Tenths
<1>6. NgramScore(metric, q, k) \in Nat
  BY <1>2, <1>3, <1>4, <1>5 DEF Metric
<1> QED
  BY <1>6 DEF q

\* What BM25 divides, and by what. With b at most one it divides by no zero.
LEMMA LengthNormType ==
  ASSUME bm25.avgDocLength \in Nat \X (Nat \ {0}), NEW tf \in Nat, tf > 0, NEW dl \in Nat
  PROVE  /\ LengthNorm(tf, dl) \in Score
         /\ B[1] <= B[2] => LengthNorm(tf, dl) \in Nat \X (Nat \ {0})
<1> DEFINE total == bm25.avgDocLength[1]
           count == bm25.avgDocLength[2]
           k1 == K1[1]  k2 == K1[2]  b1 == B[1]  b2 == B[2]
<1>1. /\ total \in Nat /\ count \in Nat /\ k1 \in Nat /\ k2 \in Nat /\ k2 > 0
      /\ b1 \in Nat /\ b2 \in Nat /\ b2 > 0
  BY BM25Assumption
<1>2. LengthNorm(tf, dl)
        = IF total = 0 THEN <<tf, 1>>
          ELSE Quotient(tf * (k1 + k2) * b2 * total,
                        tf * k2 * b2 * total + k1 * ((b2 - b1) * total + b1 * dl * count))
  BY DEF LengthNorm
<1>0. B[1] <= B[2] <=> b1 <= b2
  OBVIOUS
<1> HIDE DEF total, count, k1, k2, b1, b2
<1>3. CASE total = 0
  BY <1>2, <1>3 DEF Score, Fraction
<1>4. CASE total > 0
  <2> DEFINE x == tf * (k1 + k2) * b2 * total
             y == tf * k2 * b2 * total
             z == (b2 - b1) * total
             v == b1 * dl * count
             w == k1 * (z + v)
  <2>1. x \in Nat
    <3>1. k1 + k2 \in Nat
      BY <1>1
    <3>2. tf * (k1 + k2) \in Nat
      BY <3>1, Products
    <3>3. tf * (k1 + k2) * b2 \in Nat
      BY <1>1, <3>2, Products
    <3> QED
      BY <1>1, <3>3, Products
  <2>2. y \in Nat /\ y > 0
    <3>1. tf * k2 \in Nat /\ tf * k2 > 0
      BY <1>1, Products
    <3>2. tf * k2 * b2 \in Nat /\ tf * k2 * b2 > 0
      BY <1>1, <3>1, Products
    <3> QED
      BY <1>1, <1>4, <3>2, Products
  <2>3. z \in Int /\ (b1 <= b2 => z \in Nat)
    <3>1. b2 - b1 \in Int /\ (b1 <= b2 => b2 - b1 \in Nat)
      BY <1>1
    <3> QED
      BY <1>1, <3>1, Products
  <2>4. v \in Nat
    <3>1. b1 * dl \in Nat
      BY <1>1, Products
    <3> QED
      BY <1>1, <3>1, Products
  <2> HIDE DEF z, v
  <2>5. w \in Int /\ (b1 <= b2 => w \in Nat)
    <3>1. z + v \in Int /\ (b1 <= b2 => z + v \in Nat)
      BY <2>3, <2>4
    <3> QED
      BY <1>1, <3>1, Products
  <2>6. LengthNorm(tf, dl) = Quotient(x, y + w)
    BY <1>2, <1>4 DEF z, v
  <2> HIDE DEF x, y, w
  <2> DEFINE d == y + w
  <2>7. d \in Int /\ (b1 <= b2 => d > 0)
    BY <2>2, <2>5
  <2> HIDE DEF d
  <2>8. Quotient(x, d) \in Score
    BY <2>1, <2>7 DEF Quotient, Score, Fraction
  <2>9. b1 <= b2 => Quotient(x, d) \in Nat \X (Nat \ {0})
    BY <2>1, <2>7 DEF Quotient
  <2> QED
    BY <1>0, <2>6, <2>8, <2>9 DEF d
<1> QED
  BY <1>1, <1>3, <1>4

\* The terms of a score: one for each token that query and document share.
BM25Term(q, k, t) ==
  Weighted(Occurrences(t, q) * Idf(DocFreq(bm25.postings, t), bm25.docCount),
           LengthNorm(bm25.postings[t][k], Len(bm25.docTokens[k])))

BM25Matches(q, k) == {t \in ElementsOf(q) : bm25.postings[t][k] > 0}

IsTotal(score, S, term) == \E g : AddsUp(g, S, term) /\ score = g[S]

\* The same with scores that may be infinite.
AddsScores(g, S, term) ==
  /\ g \in [SUBSET S -> Score]
  /\ \A s \in SUBSET S : g[s] = IF s = {} THEN <<0, 1>> ELSE Add(g[s \ {Some(s)}], term[Some(s)])

IsTotalScore(score, S, term) == \E g : AddsScores(g, S, term) /\ score = g[S]

\* What a term is made of.
LEMMA BM25TermFacts ==
  ASSUME IndexInv, NEW query \in Text, NEW k \in Key,
         NEW t \in BM25Matches(tokenize(query), k)
  PROVE  LET q == tokenize(query)
             tf == bm25.postings[t][k]
             dl == Len(bm25.docTokens[k])
             weight == Occurrences(t, q) * Idf(DocFreq(bm25.postings, t), bm25.docCount)
             norm == LengthNorm(tf, dl)
         IN  /\ t \in Token /\ t \in ElementsOf(q) /\ weight \in Nat
             /\ given[k] # NoDoc /\ given[k] \in Seq(Token) /\ bm25.docTokens[k] = given[k]
             /\ tf = Occurrences(t, given[k]) /\ tf \in Nat /\ tf > 0 /\ dl \in Nat
             /\ BM25Term(q, k, t) \in Score
             /\ B[1] <= B[2] =>
                  /\ norm \in Nat \X (Nat \ {0})
                  /\ BM25Term(q, k, t) = <<weight * norm[1], norm[2]>>
                  /\ BM25Term(q, k, t) \in Fraction /\ BM25Term(q, k, t)[1] >= 0
<1> DEFINE q == tokenize(query)
           tf == bm25.postings[t][k]
           dl == Len(bm25.docTokens[k])
           m == Occurrences(t, q)
           r == Idf(DocFreq(bm25.postings, t), bm25.docCount)
           norm == LengthNorm(tf, dl)
<1>1. q \in Seq(Token) /\ ElementsOf(q) \subseteq Token /\ t \in ElementsOf(q)
  BY TokenFacts, ElementsFacts DEF BM25Matches
<1>2. /\ given \in Docs /\ bm25.postings = PostingsOf(given) /\ bm25.docTokens = given
      /\ bm25.docCount = Cardinality(Documents(given))
      /\ bm25.avgDocLength \in Nat \X (Nat \ {0})
  BY IndexFields
<1>3. tf = Count(t, given[k]) /\ tf > 0
  BY <1>1, <1>2 DEF PostingsOf, BM25Matches
<1>4. given[k] # NoDoc /\ given[k] \in Seq(Token) /\ tf = Occurrences(t, given[k]) /\ tf \in Nat
  <2>1. given[k] \in Seq(Token) \cup {NoDoc} /\ given[k] # NoDoc
    BY <1>2, <1>3 DEF Docs, Count
  <2> QED
    BY <1>3, <2>1, CountType
<1>5. dl \in Nat /\ bm25.docTokens[k] = given[k]
  BY <1>2, <1>4, LenProperties
<1>6. norm \in Score /\ (B[1] <= B[2] => norm \in Nat \X (Nat \ {0}))
  BY <1>2, <1>3, <1>4, <1>5, LengthNormType
<1>7. m \in Nat /\ r \in Nat
  BY <1>1, <1>2, OccurrencesFacts, DocFreqFacts
<1>8. BM25Term(q, k, t) = Weighted(m * r, norm)
  BY DEF BM25Term
<1> DEFINE weight == m * r
           n1 == norm[1]
           n2 == norm[2]
<1>9. weight \in Nat
  <2> HIDE DEF m, r
  <2> QED
    BY <1>7, Products
<1>10. \/ norm = Infinite /\ BM25Term(q, k, t) = Infinite
       \/ norm \in Fraction /\ n1 \in Int /\ n2 \in Nat \ {0} /\ BM25Term(q, k, t) = <<weight * n1, n2>>
  <2> HIDE DEF norm, weight
  <2>1. norm = Infinite => BM25Term(q, k, t) = Infinite
    BY <1>8 DEF Weighted, weight
  <2>2. norm # Infinite => norm \in Fraction /\ BM25Term(q, k, t) = <<weight * norm[1], norm[2]>>
    BY <1>6, <1>8 DEF Weighted, Score, weight
  <2> QED
    BY <2>1, <2>2 DEF Fraction
<1>11. BM25Term(q, k, t) \in Score
  <2> HIDE DEF norm, weight, n1, n2
  <2>1. n1 \in Int => weight * n1 \in Int
    BY <1>9
  <2> QED
    BY <1>10, <2>1 DEF Score, Fraction
<1>12. ASSUME B[1] <= B[2]
       PROVE  /\ norm \in Nat \X (Nat \ {0}) /\ BM25Term(q, k, t) = <<weight * n1, n2>>
              /\ BM25Term(q, k, t) \in Fraction /\ BM25Term(q, k, t)[1] >= 0
  <2>1. norm \in Nat \X (Nat \ {0}) /\ n1 \in Nat /\ n2 \in Nat \ {0}
    BY <1>6, <1>12
  <2>2. norm # Infinite
    BY <2>1 DEF Infinite
  <2>3. BM25Term(q, k, t) = <<weight * n1, n2>>
    BY <1>10, <2>2
  <2> HIDE DEF norm, weight, n1, n2
  <2>4. weight * n1 \in Nat
    BY <1>9, <2>1, Products
  <2> QED
    BY <2>1, <2>3, <2>4 DEF Fraction
<1> HIDE DEF norm, m, r
<1> QED
  BY <1>1, <1>3, <1>4, <1>5, <1>6, <1>8, <1>9, <1>11, <1>12 DEF norm, m, r

\* A score adds up its terms.
LEMMA BM25Total ==
  ASSUME IndexInv, NEW query \in Text, NEW k \in Key
  PROVE  LET q == tokenize(query)
             S == BM25Matches(q, k)
             term == [t \in S |-> BM25Term(q, k, t)]
         IN  /\ S \subseteq Token /\ IsFiniteSet(S)
             /\ term \in [S -> Score] /\ IsTotalScore(BM25Score(q, k), S, term)
<1> DEFINE q == tokenize(query)
           S == BM25Matches(q, k)
           term == [t \in S |-> BM25Term(q, k, t)]
           iter[s \in SUBSET S] ==
             IF s = {} THEN <<0, 1>>
             ELSE LET x == CHOOSE x \in s : TRUE IN Add(iter[s \ {x}], BM25Term(q, k, x))
           body(i) == [s \in SUBSET S |->
             IF s = {} THEN <<0, 1>>
             ELSE LET x == CHOOSE x \in s : TRUE IN Add(i[s \ {x}], BM25Term(q, k, x))]
           F == [t \in S |-> [v \in Score |-> Add(v, BM25Term(q, k, t))]]
<1>1. BM25Score(q, k) = iter[S]
  BY DEF BM25Score, FoldSet, MapThenFoldSet, BM25Term, BM25Matches
<1>2. q \in Seq(Token) /\ ElementsOf(q) \subseteq Token /\ IsFiniteSet(ElementsOf(q))
  BY TokenFacts, ElementsFacts
<1>3. S \subseteq Token /\ IsFiniteSet(S)
  BY <1>2, FS_Subset DEF BM25Matches
<1>4. \A t \in S : BM25Term(q, k, t) \in Score
  BY BM25TermFacts
<1>5. term \in [S -> Score]
  BY <1>4
<1> DEFINE nought == <<0, 1>>
<1>6. nought \in Score
  BY DEF Score, Fraction
<1>7. F \in [S -> [Score -> Score]]
  BY <1>4, AddType
<1>8. PICK g : IsFold(g, S, Score, nought, F)
  <2> HIDE DEF F, nought, S
  <2>1. \E g : IsFold(g, S, Score, nought, F)
    BY <1>3, <1>6, <1>7, FoldExists
  <2> QED
    BY <2>1
<1>9. ASSUME NEW s \in SUBSET S
      PROVE  g[s] = IF s = {} THEN <<0, 1>> ELSE Add(g[s \ {Some(s)}], BM25Term(q, k, Some(s)))
  <2>1. g \in [SUBSET S -> Score] /\ g[s] = IF s = {} THEN nought ELSE F[Some(s)][g[s \ {Some(s)}]]
    BY <1>8 DEF IsFold
  <2>2. CASE s # {}
    <3>1. Some(s) \in S /\ s \ {Some(s)} \in SUBSET S
      BY <2>2, SomeIn
    <3>2. g[s \ {Some(s)}] \in Score
      BY <2>1, <3>1
    <3>3. F[Some(s)][g[s \ {Some(s)}]] = Add(g[s \ {Some(s)}], BM25Term(q, k, Some(s)))
      BY <3>1, <3>2
    <3> QED
      BY <2>1, <2>2, <3>3
  <2> QED
    BY <2>1, <2>2
<1>10. g \in [SUBSET S -> Score]
  BY <1>8 DEF IsFold
<1> HIDE DEF S, F, nought
<1>11. iter = body(iter)
  <2>1. g = body(g)
    BY <1>9, <1>10 DEF Some
  <2>2. \E i : i = body(i)
    BY <2>1, Zenon
  <2> QED
    BY <2>2
<1>12. ASSUME NEW s \in SUBSET S
       PROVE  iter[s] = IF s = {} THEN <<0, 1>> ELSE Add(iter[s \ {Some(s)}], BM25Term(q, k, Some(s)))
  BY <1>11 DEF Some
<1> HIDE DEF iter
<1> DEFINE same == {s \in SUBSET S : iter[s] = g[s]}
<1>13. ASSUME NEW s \in SUBSET S, \A u \in SUBSET s : u # s => u \in same
       PROVE  s \in same
  <2>1. CASE s = {}
    BY <1>9, <1>12, <2>1
  <2>2. CASE s # {}
    <3>1. Some(s) \in s
      BY <2>2, SomeIn
    <3>2. s \ {Some(s)} \in same
      BY <1>13, <3>1
    <3> QED
      BY <1>9, <1>12, <2>2, <3>2
  <2> QED
    BY <2>1, <2>2
<1> HIDE DEF same
<1>14. SUBSET S \subseteq same
  BY <1>3, <1>13, SubsetInduction
<1>15. BM25Score(q, k) = g[S]
  BY <1>1, <1>14 DEF same
<1>16. ASSUME NEW s \in SUBSET S
       PROVE  g[s] = IF s = {} THEN <<0, 1>> ELSE Add(g[s \ {Some(s)}], term[Some(s)])
  <2>1. s # {} => Some(s) \in S
    BY SomeIn
  <2> QED
    BY <1>9, <2>1
<1>17. IsTotalScore(BM25Score(q, k), S, term)
  <2> HIDE DEF term, q
  <2> QED
    BY <1>10, <1>15, <1>16 DEF IsTotalScore, AddsScores
<1> QED
  BY <1>3, <1>5, <1>17 DEF S

\* With b at most one everything is a fraction.
LEMMA BM25Fractions ==
  ASSUME IndexInv, NEW query \in Text, NEW k \in Key, B[1] <= B[2]
  PROVE  LET q == tokenize(query)
             S == BM25Matches(q, k)
             term == [t \in S |-> BM25Term(q, k, t)]
         IN  /\ S \subseteq Token /\ IsFiniteSet(S)
             /\ term \in [S -> Fraction] /\ \A t \in S : term[t][1] >= 0
             /\ IsTotal(BM25Score(q, k), S, term)
<1> DEFINE q == tokenize(query)
           S == BM25Matches(q, k)
           term == [t \in S |-> BM25Term(q, k, t)]
<1>1. S \subseteq Token /\ IsFiniteSet(S) /\ IsTotalScore(BM25Score(q, k), S, term)
  BY BM25Total
<1>2. \A t \in S : BM25Term(q, k, t) \in Fraction /\ BM25Term(q, k, t)[1] >= 0
  BY BM25TermFacts
<1>3. term \in [S -> Fraction] /\ \A t \in S : term[t][1] >= 0
  BY <1>2
<1> HIDE DEF S, term
<1>0. PICK g : AddsScores(g, S, term) /\ BM25Score(q, k) = g[S]
  BY <1>1 DEF IsTotalScore
<1>4. /\ g \in [SUBSET S -> Score]
      /\ \A s \in SUBSET S :
           g[s] = IF s = {} THEN <<0, 1>> ELSE Add(g[s \ {Some(s)}], term[Some(s)])
  BY <1>0 DEF AddsScores
<1> DEFINE good == {s \in SUBSET S : g[s] \in Fraction}
<1>5. ASSUME NEW s \in SUBSET S, \A u \in SUBSET s : u # s => u \in good
      PROVE  s \in good
  <2>1. CASE s = {}
    <3>1. g[s] = <<0, 1>>
      BY <1>4, <2>1
    <3>2. <<0, 1>> \in Fraction
      BY DEF Fraction
    <3> QED
      BY <3>1, <3>2
  <2>2. CASE s # {}
    <3>1. Some(s) \in S /\ Some(s) \in s
      BY <2>2, SomeIn
    <3>2. g[s \ {Some(s)}] \in Fraction /\ term[Some(s)] \in Fraction
      BY <1>3, <1>5, <3>1
    <3>3. g[s] = Add(g[s \ {Some(s)}], term[Some(s)])
      BY <1>4, <2>2
    <3> QED
      BY <3>2, <3>3, PlusType, AddFractions
  <2> QED
    BY <2>1, <2>2
<1> HIDE DEF good
<1>6. SUBSET S \subseteq good
  BY <1>1, <1>5, SubsetInduction
<1>7. ASSUME NEW s \in SUBSET S
      PROVE  g[s] = IF s = {} THEN <<0, 1>> ELSE Plus(g[s \ {Some(s)}], term[Some(s)])
  <2>1. CASE s # {}
    <3>1. Some(s) \in S /\ s \ {Some(s)} \in SUBSET S
      BY <2>1, SomeIn
    <3>2. g[s \ {Some(s)}] \in Fraction /\ term[Some(s)] \in Fraction
      BY <1>3, <1>6, <3>1 DEF good
    <3> QED
      BY <1>4, <2>1, <3>2, AddFractions
  <2> QED
    BY <1>4, <2>1
<1>8. g \in [SUBSET S -> Fraction]
  BY <1>4, <1>6 DEF good
<1>9. AddsUp(g, S, term)
  BY <1>7, <1>8 DEF AddsUp
<1>10. IsTotal(BM25Score(q, k), S, term)
  BY <1>0, <1>9 DEF IsTotal
<1> QED
  BY <1>1, <1>3, <1>10 DEF S, term

LEMMA BM25ScoreType ==
  ASSUME IndexInv, NEW query \in Text, NEW k \in Key
  PROVE  BM25Score(tokenize(query), k) \in Score
<1> DEFINE q == tokenize(query)
           S == BM25Matches(q, k)
           term == [t \in S |-> BM25Term(q, k, t)]
<1>1. IsTotalScore(BM25Score(q, k), S, term)
  BY BM25Total
<1> QED
  BY <1>1 DEF IsTotalScore, AddsScores

\* The weights of a query: those of the tokens that some document has are positive.
LEMMA QueryFacts ==
  ASSUME IndexInv, NEW query \in Text
  PROVE  LET q == tokenize(query)
         IN  /\ Known(q) \subseteq Token /\ IsFiniteSet(Known(q))
             /\ \A t \in Known(q) : QueryWeight(q, t) \in Nat /\ QueryWeight(q, t) > 0
             /\ QueryNorm(q) \in Nat
             /\ \A t \in Known(q) : QueryNorm(q) > 0
             /\ \A k \in Key : Dot(q, k) \in Nat
<1> DEFINE q == tokenize(query)
           docs == tfidf.docTokens
           W == Known(q)
           f == [t \in W |-> QueryWeight(q, t) * QueryWeight(q, t)]
           dot(k) == [t \in W |-> QueryWeight(q, t) * Weight(tfidf, t, tfidf.postings[t][k])]
<1>1. q \in Seq(Token) /\ ElementsOf(q) \subseteq Token /\ IsFiniteSet(ElementsOf(q))
  BY TokenFacts, ElementsFacts
<1>2. W \subseteq ElementsOf(q) /\ W \subseteq Token /\ IsFiniteSet(W)
  BY <1>1, FS_Subset DEF Known
<1>3. docs \in Docs /\ tfidf = TFIDFData(docs, tfidf.docNorms) /\ tfidf.postings = PostingsOf(docs)
  BY IndexFields
<1>4. ASSUME NEW t \in W PROVE QueryWeight(q, t) \in Nat /\ QueryWeight(q, t) > 0
  <2>1. Occurrences(t, q) \in Nat /\ Occurrences(t, q) > 0
    BY <1>1, <1>2, OccurrencesFacts
  <2> DEFINE norms == tfidf.docNorms
             n == Occurrences(t, q)
  <2>2. tfidf = TFIDFData(docs, norms) /\ n \in Nat /\ n > 0
    BY <1>3, <2>1
  <2> HIDE DEF norms, docs, n
  <2>3. Weight(TFIDFData(docs, norms), t, n) \in Nat /\ Weight(TFIDFData(docs, norms), t, n) > 0
    BY <1>2, <1>3, <2>2, WeightFacts
  <2>4. Weight(tfidf, t, n) = Weight(TFIDFData(docs, norms), t, n)
    BY <2>2
  <2> QED
    BY <2>3, <2>4 DEF QueryWeight, n
<1>5. f \in [W -> Nat] /\ \A t \in W : f[t] > 0
  <2>1. \A t \in W : QueryWeight(q, t) * QueryWeight(q, t) \in Nat /\ QueryWeight(q, t) * QueryWeight(q, t) > 0
    BY <1>4, Products
  <2> QED
    BY <2>1
<1>6. ASSUME NEW k \in Key PROVE Dot(q, k) \in Nat
  <2>1. ASSUME NEW t \in W PROVE Weight(tfidf, t, tfidf.postings[t][k]) \in Nat
    <3> DEFINE norms == tfidf.docNorms
               n == Count(t, docs[k])
    <3>1. n \in Nat
      BY <1>3, CountType DEF Docs
    <3>2. tfidf.postings[t][k] = n
      BY <1>2, <1>3 DEF PostingsOf
    <3>3. tfidf = TFIDFData(docs, norms)
      BY <1>3
    <3> HIDE DEF norms, docs, n
    <3>4. Weight(TFIDFData(docs, norms), t, n) \in Nat
      BY <1>2, <1>3, <3>1, WeightFacts
    <3>5. Weight(tfidf, t, tfidf.postings[t][k]) = Weight(TFIDFData(docs, norms), t, n)
      BY <3>2, <3>3
    <3> QED
      BY <3>4, <3>5
  <2>2. \A t \in W : QueryWeight(q, t) * Weight(tfidf, t, tfidf.postings[t][k]) \in Nat
    BY <1>4, <2>1, Products
  <2>3. dot(k) \in [W -> Nat]
    BY <2>2
  <2>4. Dot(q, k) = SumFunction(dot(k))
    BY DEF Dot
  <2> HIDE DEF dot, W
  <2>5. SumFunction(dot(k)) \in Nat
    BY <1>2, <2>3, SumOfAll
  <2> QED
    BY <2>4, <2>5
<1>7. QueryNorm(q) = SumFunction(f)
  BY DEF QueryNorm
<1> HIDE DEF f, W, q
<1>8. SumFunction(f) \in Nat /\ \A t \in W : f[t] <= SumFunction(f)
  BY <1>2, <1>5, SumOfAll
<1>9. \A t \in W : SumFunction(f) > 0
  <2> SUFFICES ASSUME NEW t \in W PROVE SumFunction(f) > 0
    OBVIOUS
  <2>1. f[t] \in Nat /\ f[t] > 0 /\ f[t] <= SumFunction(f)
    BY <1>5, <1>8
  <2> QED
    BY <1>8, <2>1
<1> QED
  BY <1>2, <1>4, <1>6, <1>7, <1>8, <1>9 DEF W, q

\* TF-IDF skips no document that shares a token, for a norm or a count that is zero.
LEMMA TFIDFFindsSharing ==
  ASSUME IndexInv, NEW query \in Text
  PROVE  /\ TFIDFFinds(tokenize(query)) = Sharing(tokenize, query)
         /\ \A k \in Sharing(tokenize, query) :
              /\ k \in Key /\ tfidf.docTokens[k] = given[k] /\ given[k] # NoDoc
              /\ tfidf.docNorms[k] \in Nat \ {0} /\ tfidf.docNorms[k] = Norm(tfidf, k)
<1> DEFINE q == tokenize(query)
           docs == tfidf.docTokens
           norms == tfidf.docNorms
<1>1. Finds(tfidf.postings, q) = Sharing(tokenize, query)
  BY FindsSharing
<1>2. /\ docs \in Docs /\ tfidf.postings = PostingsOf(docs) /\ tfidf = TFIDFData(docs, norms)
      /\ tfidf.docCount = Cardinality(Documents(docs))
      /\ \A k \in Key : norms[k] = IF docs[k] = NoDoc THEN NoDoc ELSE Norm(tfidf, k)
      /\ \A k \in Key : docs[k] = given[k] \/ (docs[k] = NoDoc /\ given[k] = <<>>)
  BY IndexFields
<1>3. ASSUME NEW k \in Sharing(tokenize, query)
      PROVE  /\ k \in Key /\ given[k] # NoDoc /\ docs[k] = given[k]
             /\ \E t \in ElementsOf(q) : t \in ElementsOf(docs[k])
  <2>1. k \in Key /\ given[k] # NoDoc /\ ElementsOf(given[k]) \cap ElementsOf(q) # {}
    BY DEF Sharing, Documents, tokenize
  <2>2. given[k] # <<>>
    BY <2>1, NoElements
  <2> QED
    BY <1>2, <2>1, <2>2
<1>4. ASSUME NEW k \in Sharing(tokenize, query)
      PROVE  norms[k] \in Nat \ {0} /\ norms[k] = Norm(tfidf, k)
  <2>1. k \in Key /\ docs[k] # NoDoc /\ \E t : t \in ElementsOf(docs[k])
    BY <1>3
  <2> HIDE DEF docs, norms
  <2>2. /\ Norm(TFIDFData(docs, norms), k) \in Nat
        /\ \A t \in ElementsOf(docs[k]) : Norm(TFIDFData(docs, norms), k) > 0
    BY <1>2, <2>1, NormFacts
  <2>3. Norm(TFIDFData(docs, norms), k) = Norm(tfidf, k)
    BY <1>2
  <2>4. norms[k] = Norm(tfidf, k)
    BY <1>2, <2>1
  <2> QED
    BY <2>1, <2>2, <2>3, <2>4
<1>5. ASSUME NEW k \in Sharing(tokenize, query)
      PROVE  q # <<>> /\ tfidf.docCount # 0 /\ QueryNorm(q) # 0
  <2>1. PICK t \in ElementsOf(q) : t \in ElementsOf(docs[k])
    BY <1>3
  <2>2. q # <<>>
    BY <2>1, NoElements
  <2>3. tfidf.docCount # 0
    <3>1. k \in Documents(docs)
      BY <1>3 DEF Documents
    <3>2. IsFiniteSet(Documents(docs))
      BY KeyAssumption, FS_Subset DEF Documents
    <3> QED
      BY <1>2, <3>1, <3>2, FS_EmptySet
  <2>4. t \in Known(q)
    <3>1. t \in Token /\ k \in Key /\ docs[k] # NoDoc
      BY <1>3, TokenFacts, ElementsFacts
    <3>2. docs[k] \in Seq(Token)
      BY <1>2, <3>1 DEF Docs
    <3>3. Count(t, docs[k]) > 0
      BY <2>1, <3>1, <3>2, OccurrencesFacts DEF Count
    <3>4. DocFreq(PostingsOf(docs), t) > 0
      BY <1>2, <3>1, <3>3, DocFreqFacts
    <3> QED
      BY <1>2, <3>4 DEF Known
  <2>5. QueryNorm(q) \in Nat /\ QueryNorm(q) > 0
    BY <2>4, QueryFacts
  <2> QED
    BY <2>2, <2>3, <2>5
<1>6. TFIDFFinds(q) \subseteq Sharing(tokenize, query)
  BY <1>1 DEF TFIDFFinds
<1>7. ASSUME NEW k \in Sharing(tokenize, query) PROVE k \in TFIDFFinds(q)
  <2>1. k \in Finds(tfidf.postings, q)
    BY <1>1
  <2>2. norms[k] \notin {NoDoc, 0}
    <3>1. norms[k] \in Nat \ {0} /\ NoDoc \notin Nat
      BY <1>4, NoDocAssumption
    <3> QED
      BY <3>1
  <2> HIDE DEF q
  <2> QED
    BY <1>5, <2>1, <2>2 DEF TFIDFFinds
<1> QED
  BY <1>3, <1>4, <1>6, <1>7

\* A search over everything ranks every document that shares a token or an n-gram with
\* the query, each once, and no other (ngram.go:123-136, bm25.go:137-156,
\* tfidf.go:131-176, lsa.go:168-215): no divisor is zero, and no norm or count hides one.
THEOREM SearchesExact == Spec => []SearchExact
<1>1. ASSUME IndexInv, NEW query \in Text, NEW metric \in Metric
      PROVE  KeysOf(SearchWithMetric(query, 0, metric)) = Sharing(ExtractNgrams, query)
  <2> DEFINE S == Sharing(ExtractNgrams, query)
             score == NgramScores(metric, query)
  <2>1. S \subseteq Key
    BY DEF Sharing, Documents
  <2>2. score = [k \in S |-> <<NgramScore(metric, ExtractNgrams(query), k), 10000>>]
    <3> DEFINE found == Finds(ngram.postings, ExtractNgrams(query))
    <3>1. found = S
      BY <1>1, FindsSharing
    <3>2. score = [k \in found |-> <<NgramScore(metric, ExtractNgrams(query), k), 10000>>]
      BY DEF NgramScores
    <3> HIDE DEF S, score, found
    <3> QED
      BY <3>1, <3>2
  <2>3. \A k \in S : score[k] \in Score
    <3> SUFFICES ASSUME NEW k \in S PROVE score[k] \in Score
      OBVIOUS
    <3> DEFINE n == NgramScore(metric, ExtractNgrams(query), k)
    <3>1. n \in Nat
      BY <1>1, NgramScoreType
    <3>2. score[k] = <<n, 10000>>
      BY <2>2
    <3> HIDE DEF n, S, score
    <3> QED
      BY <3>1, <3>2 DEF Fraction, Score
  <2>4. DOMAIN score = S
    BY <2>2
  <2> HIDE DEF S, score
  <2>5. KeysOf(Truncate(Ranked(score), 0)) = S
    BY <2>1, <2>3, <2>4, RanksSharing
  <2> QED
    BY <2>5 DEF SearchWithMetric, S, score
<1>2. ASSUME IndexInv, NEW query \in Text
      PROVE  KeysOf(BM25Search(query, 0)) = Sharing(tokenize, query)
  <2> DEFINE S == Sharing(tokenize, query)
             score == BM25Scores(query)
  <2>1. S \subseteq Key
    BY DEF Sharing, Documents
  <2>2. score = [k \in S |-> BM25Score(tokenize(query), k)]
    BY <1>2, FindsSharing DEF BM25Scores
  <2>3. \A k \in S : score[k] \in Score
    BY <1>2, <2>1, <2>2, BM25ScoreType
  <2>4. DOMAIN score = S
    BY <2>2
  <2> HIDE DEF S, score
  <2>5. KeysOf(Truncate(Ranked(score), 0)) = S
    BY <2>1, <2>3, <2>4, RanksSharing
  <2> QED
    BY <2>5 DEF BM25Search, S, score
<1>3. ASSUME IndexInv, NEW query \in Text
      PROVE  KeysOf(TFIDFSearch(query, 0)) = Sharing(tokenize, query)
  <2> DEFINE S == Sharing(tokenize, query)
             score == TFIDFScores(query)
             q == tokenize(query)
  <2>1. S \subseteq Key
    BY DEF Sharing, Documents
  <2>2. score = [k \in S |-> <<Dot(q, k) * Dot(q, k), tfidf.docNorms[k]>>]
    BY <1>3, TFIDFFindsSharing DEF TFIDFScores
  <2>3. ASSUME NEW k \in S PROVE score[k] \in Score
    <3>1. Dot(q, k) \in Nat /\ tfidf.docNorms[k] \in Nat \ {0}
      BY <1>3, <2>1, QueryFacts, TFIDFFindsSharing
    <3>2. Dot(q, k) * Dot(q, k) \in Nat
      BY <3>1, Products
    <3> HIDE DEF q, S, score
    <3> QED
      BY <2>2, <3>1, <3>2 DEF Fraction, Score
  <2>4. DOMAIN score = S
    BY <2>2
  <2> HIDE DEF S, score
  <2>5. KeysOf(Truncate(Ranked(score), 0)) = S
    BY <2>1, <2>3, <2>4, RanksSharing
  <2> QED
    BY <2>5 DEF TFIDFSearch, S, score
<1>4. ASSUME IndexInv, NEW query \in Text, NEW answer \in LSAAnswers(query), NEW k \in answer
      PROVE  given[k] # NoDoc /\ ~Tokenless(given[k])
  <2>1. lsa = LSARebuild(EmptyLSA, given)
    BY <1>4 DEF IndexInv
  <2>2. CASE NothingToDecompose(given)
    <3>1. lsa.termIDF = <<>>
      BY <2>1, <2>2 DEF LSARebuild, EmptyLSA
    <3>2. LSAAnswers(query) = {{}}
      BY <3>1 DEF LSAAnswers
    <3> QED
      BY <3>2
  <2>3. CASE ~NothingToDecompose(given)
    <3>1. lsa = LSAMatrix(given)
      BY <2>1, <2>3 DEF LSARebuild
    <3>2. \E t : <<t, k>> \in lsa.cells
      <4>1. answer = {} \/ answer \in SUBSET {j \in lsa.docKeys : \E t \in DOMAIN lsa.termIDF : <<t, j>> \in lsa.cells}
        BY DEF LSAAnswers
      <4> QED
        BY <4>1
    <3>3. PICK t : <<t, k>> \in lsa.cells
      BY <3>2
    <3>4. \A c \in lsa.cells : c[2] \in Documents(given) /\ Occurs(c[1], tokenize(given[c[2]]))
      BY <3>1 DEF LSAMatrix
    <3>5. k \in Documents(given) /\ Occurs(t, tokenize(given[k]))
      BY <3>3, <3>4
    <3> QED
      BY <3>5 DEF Documents, Occurs, Tokenless
  <2> QED
    BY <2>2, <2>3
<1>5. IndexInv => SearchExact
  BY <1>1, <1>2, <1>3, <1>4 DEF SearchExact
<1> QED
  BY <1>5, IndexCurrent, PTL

-----------------------------------------------------------------------------
(* Scores                                                                  *)

\* A token that is more frequent in a document that is no longer weighs no less.
LEMMA LengthNormOrdered ==
  ASSUME bm25.avgDocLength \in Nat \X (Nat \ {0}), B[1] <= B[2],
         NEW tf \in Nat, tf > 0, NEW dl \in Nat, NEW tf2 \in Nat, tf2 > 0, NEW dl2 \in Nat,
         tf >= tf2, dl <= dl2
  PROVE  LengthNorm(tf2, dl2)[1] * LengthNorm(tf, dl)[2]
           <= LengthNorm(tf, dl)[1] * LengthNorm(tf2, dl2)[2]
<1> DEFINE total == bm25.avgDocLength[1]
           count == bm25.avgDocLength[2]
           k1 == K1[1]  k2 == K1[2]  b1 == B[1]  b2 == B[2]
           A == (k1 + k2) * b2 * total
           C == k2 * b2 * total
           E(l) == k1 * ((b2 - b1) * total + b1 * l * count)
<1>1. /\ total \in Nat /\ count \in Nat /\ k1 \in Nat /\ k2 \in Nat /\ k2 > 0
      /\ b1 \in Nat /\ b2 \in Nat /\ b2 > 0 /\ b1 <= b2
  BY BM25Assumption
<1>2. ASSUME NEW f, NEW l
      PROVE  LengthNorm(f, l)
               = IF total = 0 THEN <<f, 1>>
                 ELSE Quotient(f * (k1 + k2) * b2 * total,
                        f * k2 * b2 * total + k1 * ((b2 - b1) * total + b1 * l * count))
  BY DEF LengthNorm
<1>3. CASE total = 0
  <2>1. LengthNorm(tf, dl) = <<tf, 1>> /\ LengthNorm(tf2, dl2) = <<tf2, 1>>
    BY <1>2, <1>3
  <2> QED
    BY <2>1
<1>4. CASE total # 0
  <2>1. ASSUME NEW f \in Nat, NEW l \in Nat
        PROVE  LengthNorm(f, l) = Quotient(f * A, f * C + E(l))
    <3> HIDE DEF total, count, k1, k2, b1, b2
    <3>1. f * (k1 + k2) * b2 * total = f * A /\ f * k2 * b2 * total = f * C
      BY <1>1
    <3> QED
      BY <1>2, <1>4, <3>1
  <2>2. A \in Nat /\ C \in Nat /\ C > 0
    <3> HIDE DEF total, count, k1, k2, b1, b2
    <3>1. k1 + k2 \in Nat
      BY <1>1
    <3>2. (k1 + k2) * b2 \in Nat /\ k2 * b2 \in Nat /\ k2 * b2 > 0
      BY <1>1, <3>1, Products
    <3> QED
      BY <1>1, <1>4, <3>2, Products
  <2>3. E(dl) \in Nat /\ E(dl2) \in Nat /\ E(dl) <= E(dl2)
    <3> HIDE DEF total, count, k1, k2, b1, b2
    <3> DEFINE z == (b2 - b1) * total
               u == b1 * dl
               v == b1 * dl2
               uc == u * count
               vc == v * count
    <3>1. z \in Nat
      <4>1. b2 - b1 \in Nat
        BY <1>1
      <4> QED
        BY <1>1, <4>1, Products
    <3>2. u \in Nat /\ v \in Nat /\ u <= v
      BY <1>1, Products
    <3>3. uc \in Nat /\ vc \in Nat /\ uc <= vc
      <4> HIDE DEF u, v
      <4> QED
        BY <1>1, <3>2, Products
    <3>4. E(dl) = k1 * (z + uc) /\ E(dl2) = k1 * (z + vc)
      OBVIOUS
    <3> HIDE DEF z, uc, vc, E
    <3> DEFINE p == z + uc
               q == z + vc
    <3>5. p \in Nat /\ q \in Nat /\ p <= q
      BY <3>1, <3>3
    <3>6. E(dl) = k1 * p /\ E(dl2) = k1 * q
      BY <3>4
    <3> HIDE DEF p, q
    <3>7. k1 * p \in Nat /\ k1 * q \in Nat /\ k1 * p <= k1 * q
      BY <1>1, <3>5, Products
    <3> QED
      BY <3>6, <3>7
  <2>4. LengthNorm(tf, dl) = <<tf * A, tf * C + E(dl)>> /\ LengthNorm(tf2, dl2) = <<tf2 * A, tf2 * C + E(dl2)>>
    <3> HIDE DEF A, C, E
    <3>1. ASSUME NEW f \in Nat, f > 0, NEW l \in Nat, E(l) \in Nat
          PROVE  LengthNorm(f, l) = <<f * A, f * C + E(l)>>
      <4> DEFINE d == f * C + E(l)
      <4>1. f * C \in Nat /\ f * C > 0
        BY <2>2, <3>1, Products
      <4>2. d \in Int /\ d > 0
        BY <3>1, <4>1
      <4>3. LengthNorm(f, l) = Quotient(f * A, d)
        BY <2>1, <3>1
      <4> HIDE DEF d
      <4>4. LengthNorm(f, l) = <<f * A, d>>
        BY <4>2, <4>3 DEF Quotient
      <4> QED
        BY <4>4 DEF d
    <3> QED
      BY <2>3, <3>1
  <2> DEFINE e == E(dl)
             e2 == E(dl2)
  <2>5. /\ LengthNorm(tf2, dl2)[1] * LengthNorm(tf, dl)[2] = (tf2 * A) * (tf * C + e)
        /\ LengthNorm(tf, dl)[1] * LengthNorm(tf2, dl2)[2] = (tf * A) * (tf2 * C + e2)
    BY <2>4
  <2>6. e \in Nat /\ e2 \in Nat /\ e <= e2
    BY <2>3
  <2> HIDE DEF A, C, e, e2
  <2>7. tf2 * e \in Nat /\ tf * e2 \in Nat /\ tf2 * e <= tf * e2
    <3>1. tf2 * e <= tf * e
      BY <2>6
    <3>2. tf * e <= tf * e2
      BY <2>6
    <3>3. tf2 * e \in Nat /\ tf * e2 \in Nat /\ tf * e \in Nat
      BY <2>6, Products
    <3> QED
      BY <3>1, <3>2, <3>3
  <2> DEFINE x == tf2 * e
             y == tf * e2
             w == A * (tf * tf2 * C)
  <2>8. A * x <= A * y /\ A * x \in Int /\ A * y \in Int
    <3> HIDE DEF x, y
    <3>1. x \in Nat /\ y \in Nat /\ x <= y
      BY <2>7 DEF x, y
    <3> QED
      BY <2>2, <3>1
  <2>9. /\ (tf2 * A) * (tf * C + e) = w + A * x
        /\ (tf * A) * (tf2 * C + e2) = w + A * y
        /\ w \in Int
    BY <2>2, <2>6
  <2> DEFINE ax == A * x
             ay == A * y
  <2>10. ax \in Int /\ ay \in Int /\ ax <= ay
    BY <2>8
  <2> HIDE DEF w, ax, ay
  <2>11. w + ax <= w + ay
    BY <2>9, <2>10
  <2> QED
    BY <2>5, <2>9, <2>11 DEF ax, ay
<1> QED
  BY <1>3, <1>4

LEMMA BM25Ordered ==
  ASSUME IndexInv, B[1] <= B[2], NEW query \in Text,
         NEW j \in Sharing(tokenize, query), NEW k \in Sharing(tokenize, query),
         \A t \in ElementsOf(tokenize(query)) :
           Occurrences(t, tokenize(given[j])) >= Occurrences(t, tokenize(given[k])),
         Len(tokenize(given[j])) <= Len(tokenize(given[k]))
  PROVE  ~Less(BM25Score(tokenize(query), j), BM25Score(tokenize(query), k))
<1> DEFINE q == tokenize(query)
           S == BM25Matches(q, j)
           T == BM25Matches(q, k)
           more == [t \in S |-> BM25Term(q, j, t)]
           less == [t \in T |-> BM25Term(q, k, t)]
<1>1. j \in Key /\ k \in Key /\ given[j] # NoDoc
  BY DEF Sharing, Documents
<1>2. /\ given \in Docs /\ bm25.postings = PostingsOf(given) /\ bm25.docTokens = given
      /\ bm25.avgDocLength \in Nat \X (Nat \ {0})
  BY IndexFields
<1>3. ASSUME NEW t \in T
      PROVE  t \in S /\ ~Less(BM25Term(q, j, t), BM25Term(q, k, t))
  <2> DEFINE tf == bm25.postings[t][j]
             dl == Len(bm25.docTokens[j])
             tf2 == bm25.postings[t][k]
             dl2 == Len(bm25.docTokens[k])
             w == Occurrences(t, q) * Idf(DocFreq(bm25.postings, t), bm25.docCount)
             x == LengthNorm(tf, dl)
             y == LengthNorm(tf2, dl2)
  <2>1. /\ t \in Token /\ t \in ElementsOf(q) /\ w \in Nat
        /\ tf2 = Occurrences(t, given[k]) /\ tf2 \in Nat /\ tf2 > 0 /\ dl2 \in Nat
        /\ y \in Nat \X (Nat \ {0})
        /\ bm25.docTokens[k] = given[k]
        /\ BM25Term(q, k, t) = <<w * y[1], y[2]>>
    BY <1>1, BM25TermFacts
  <2>2. tf = Occurrences(t, given[j]) /\ tf \in Nat
    <3>1. tf = Count(t, given[j])
      BY <1>1, <1>2, <2>1 DEF PostingsOf
    <3>2. given[j] \in Seq(Token) \cup {NoDoc}
      BY <1>1, <1>2 DEF Docs
    <3> QED
      BY <1>1, <3>1, <3>2, CountType
  <2>3. tf >= tf2
    BY <2>1, <2>2 DEF tokenize
  <2>4. t \in S
    <3>1. tf > 0
      BY <2>1, <2>2, <2>3
    <3> QED
      BY <2>1, <3>1 DEF BM25Matches
  <2>5. /\ dl \in Nat /\ x \in Nat \X (Nat \ {0}) /\ bm25.docTokens[j] = given[j]
        /\ BM25Term(q, j, t) = <<w * x[1], x[2]>>
    BY <1>1, <2>4, BM25TermFacts
  <2>6. dl <= dl2
    BY <2>1, <2>5 DEF tokenize
  <2>7. y[1] * x[2] <= x[1] * y[2]
    <3> HIDE DEF tf, tf2, dl, dl2
    <3>1. tf > 0
      BY <2>1, <2>2, <2>3
    <3> QED
      BY <1>2, <2>1, <2>2, <2>3, <2>5, <2>6, <3>1, LengthNormOrdered
  <2> DEFINE x1 == x[1]
             x2 == x[2]
             y1 == y[1]
             y2 == y[2]
  <2>8. x1 \in Nat /\ x2 \in Nat /\ y1 \in Nat /\ y2 \in Nat /\ y1 * x2 <= x1 * y2
    BY <2>1, <2>5, <2>7
  <2>9. BM25Term(q, j, t) = <<w * x1, x2>> /\ BM25Term(q, k, t) = <<w * y1, y2>>
    BY <2>1, <2>5
  <2>10. Less(BM25Term(q, j, t), BM25Term(q, k, t)) <=> (w * x1) * y2 < (w * y1) * x2
    BY <2>9 DEF Less
  <2> HIDE DEF w, x1, x2, y1, y2
  <2>11. (w * y1) * x2 <= (w * x1) * y2
    <3> DEFINE a == y1 * x2
               b == x1 * y2
    <3>1. a \in Nat /\ b \in Nat /\ a <= b
      BY <2>8, Products
    <3>2. (w * y1) * x2 = w * a /\ (w * x1) * y2 = w * b
      BY <2>1, <2>8
    <3> HIDE DEF a, b
    <3>3. w * a <= w * b
      BY <2>1, <3>1, Products
    <3> QED
      BY <3>2, <3>3
  <2>12. (w * y1) * x2 \in Int /\ (w * x1) * y2 \in Int
    BY <2>1, <2>8
  <2>13. ~Less(BM25Term(q, j, t), BM25Term(q, k, t))
    BY <2>10, <2>11, <2>12
  <2> QED
    BY <2>4, <2>13
<1>4. /\ IsFiniteSet(S) /\ T \in SUBSET S
      /\ more \in [S -> Fraction] /\ less \in [T -> Fraction]
      /\ \A t \in S : more[t][1] >= 0
      /\ IsTotal(BM25Score(q, j), S, more) /\ IsTotal(BM25Score(q, k), T, less)
  BY <1>1, <1>3, BM25Fractions
<1>5. \A t \in T : ~Less(more[t], less[t])
  BY <1>3
<1> HIDE DEF S, T, more, less, q
<1>6. PICK g : AddsUp(g, S, more) /\ BM25Score(q, j) = g[S]
  BY <1>4 DEF IsTotal
<1>7. PICK h : AddsUp(h, T, less) /\ BM25Score(q, k) = h[T]
  BY <1>4 DEF IsTotal
<1>8. ~Less(g[S], h[T])
  BY <1>4, <1>5, <1>6, <1>7, AddsUpToMore
<1> QED
  BY <1>6, <1>7, <1>8 DEF q

\* The weights of query and document, over the tokens of both.
LEMMA CosineParts ==
  ASSUME IndexInv, NEW query \in Text, NEW k \in Sharing(tokenize, query)
  PROVE  LET q == tokenize(query)
             doc == given[k]
             U == Known(q) \cup ElementsOf(doc)
             a == [t \in U |-> IF t \in Known(q) THEN QueryWeight(q, t) ELSE 0]
             b == [t \in U |-> Weight(tfidf, t, Occurrences(t, doc))]
         IN  /\ IsFiniteSet(U) /\ a \in [U -> Nat] /\ b \in [U -> Nat]
             /\ Dot(q, k) = SumFunctionOnSet([t \in U |-> a[t] * b[t]], U)
             /\ QueryNorm(q) = SumFunctionOnSet([t \in U |-> a[t] * a[t]], U)
             /\ tfidf.docNorms[k] = SumFunctionOnSet([t \in U |-> b[t] * b[t]], U)
             /\ SameBag(q, doc) => \A t \in U : a[t] = b[t]
<1> DEFINE q == tokenize(query)
           doc == given[k]
           docs == tfidf.docTokens
           norms == tfidf.docNorms
           W == Known(q)
           E == ElementsOf(doc)
           U == W \cup E
           a == [t \in U |-> IF t \in W THEN QueryWeight(q, t) ELSE 0]
           b == [t \in U |-> Weight(tfidf, t, Occurrences(t, doc))]
<1>1. /\ k \in Key /\ docs[k] = doc /\ doc # NoDoc
      /\ norms[k] = Norm(tfidf, k)
  BY TFIDFFindsSharing
<1>2. docs \in Docs /\ tfidf = TFIDFData(docs, norms) /\ tfidf.postings = PostingsOf(docs)
  BY IndexFields
<1>3. doc \in Seq(Token)
  BY <1>1, <1>2 DEF Docs
<1>4. E \subseteq Token /\ IsFiniteSet(E)
  BY <1>3, ElementsFacts
<1>5. /\ W \subseteq Token /\ IsFiniteSet(W)
      /\ \A t \in W : QueryWeight(q, t) \in Nat
  BY QueryFacts
<1>6. IsFiniteSet(U) /\ U \subseteq Token /\ W \in SUBSET U /\ E \in SUBSET U
  BY <1>4, <1>5, FS_Union
<1>7. ASSUME NEW t \in U
      PROVE  /\ Weight(tfidf, t, Occurrences(t, doc)) \in Nat
             /\ t \notin E => Weight(tfidf, t, Occurrences(t, doc)) = 0
             /\ tfidf.postings[t][k] = Occurrences(t, doc)
  <2> DEFINE n == Occurrences(t, doc)
  <2>1. n \in Nat /\ (t \notin E => n = 0)
    BY <1>3, OccurrencesFacts
  <2>2. tfidf.postings[t][k] = n
    BY <1>1, <1>2, <1>6 DEF PostingsOf, Count
  <2> HIDE DEF docs, norms, n
  <2>3. Weight(TFIDFData(docs, norms), t, n) \in Nat
    BY <1>2, <1>6, <2>1, WeightFacts
  <2>4. Weight(tfidf, t, n) = Weight(TFIDFData(docs, norms), t, n)
    BY <1>2
  <2>5. n = 0 => Weight(tfidf, t, n) = 0
    BY DEF Weight
  <2> QED
    BY <2>1, <2>2, <2>3, <2>4, <2>5 DEF n
<1>8. a \in [U -> Nat]
  BY <1>5
<1>9. b \in [U -> Nat]
  BY <1>7
<1> DEFINE ab == [t \in U |-> a[t] * b[t]]
           aa == [t \in U |-> a[t] * a[t]]
           bb == [t \in U |-> b[t] * b[t]]
<1>10. ab \in [U -> Nat] /\ aa \in [U -> Nat] /\ bb \in [U -> Nat]
  <2> HIDE DEF a, b
  <2>1. \A t \in U : a[t] \in Nat /\ b[t] \in Nat
    BY <1>8, <1>9
  <2>2. \A t \in U : a[t] * b[t] \in Nat /\ a[t] * a[t] \in Nat /\ b[t] * b[t] \in Nat
    BY <2>1, Products
  <2> QED
    BY <2>2
<1>11. Dot(q, k) = SumFunctionOnSet(ab, U)
  <2> DEFINE part == [t \in W |-> ab[t]]
  <2>1. \A t \in W : ab[t] = QueryWeight(q, t) * Weight(tfidf, t, tfidf.postings[t][k])
    BY <1>7
  <2>2. Dot(q, k) = SumFunction(part)
    <3>1. part = [t \in W |-> QueryWeight(q, t) * Weight(tfidf, t, tfidf.postings[t][k])]
      BY <2>1
    <3> QED
      BY <3>1 DEF Dot
  <2>3. \A t \in U \ W : ab[t] = 0
    <3> SUFFICES ASSUME NEW t \in U \ W PROVE ab[t] = 0
      OBVIOUS
    <3>1. a[t] = 0 /\ b[t] \in Nat
      BY <1>9
    <3>2. ab[t] = a[t] * b[t]
      OBVIOUS
    <3> HIDE DEF a, b, ab
    <3> QED
      BY <3>1, <3>2
  <2> HIDE DEF ab, U, W, q
  <2>4. SumFunction(part) = SumFunctionOnSet(ab, U)
    BY <1>6, <1>10, <2>3, SumPadded
  <2> QED
    BY <2>2, <2>4
<1>12. QueryNorm(q) = SumFunctionOnSet(aa, U)
  <2> DEFINE part == [t \in W |-> aa[t]]
  <2>1. \A t \in W : aa[t] = QueryWeight(q, t) * QueryWeight(q, t)
    OBVIOUS
  <2>2. QueryNorm(q) = SumFunction(part)
    <3>1. part = [t \in W |-> QueryWeight(q, t) * QueryWeight(q, t)]
      BY <2>1
    <3> QED
      BY <3>1 DEF QueryNorm
  <2>3. \A t \in U \ W : aa[t] = 0
    OBVIOUS
  <2> HIDE DEF aa, U, W, q
  <2>4. SumFunction(part) = SumFunctionOnSet(aa, U)
    BY <1>6, <1>10, <2>3, SumPadded
  <2> QED
    BY <2>2, <2>4
<1>13. norms[k] = SumFunctionOnSet(bb, U)
  <2> DEFINE part == [t \in E |-> bb[t]]
  <2>1. \A t \in E : bb[t] = Weight(tfidf, t, Occurrences(t, doc)) * Weight(tfidf, t, Occurrences(t, doc))
    OBVIOUS
  <2>2. Norm(tfidf, k) = SumFunction(part)
    <3>1. part = [t \in E |-> Weight(tfidf, t, Occurrences(t, doc)) * Weight(tfidf, t, Occurrences(t, doc))]
      BY <2>1
    <3> QED
      BY <1>1, <3>1 DEF Norm
  <2>3. \A t \in U \ E : bb[t] = 0
    BY <1>7
  <2> HIDE DEF bb, U, E, doc, norms
  <2>4. SumFunction(part) = SumFunctionOnSet(bb, U)
    BY <1>6, <1>10, <2>3, SumPadded
  <2> QED
    BY <1>1, <2>2, <2>4
<1>14. ASSUME SameBag(q, doc), NEW t \in U PROVE a[t] = b[t]
  <2>1. Occurrences(t, q) = Occurrences(t, doc)
    BY <1>6, <1>14 DEF SameBag
  <2>2. t \in W
    <3> SUFFICES ASSUME t \in E PROVE t \in W
      OBVIOUS
    <3>1. q \in Seq(Token)
      BY TokenFacts
    <3>2. Occurrences(t, doc) > 0
      BY <1>3, OccurrencesFacts
    <3>3. t \in ElementsOf(q)
      BY <2>1, <3>1, <3>2, OccurrencesFacts
    <3>4. Count(t, docs[k]) > 0
      BY <1>1, <3>2 DEF Count
    <3>5. DocFreq(PostingsOf(docs), t) > 0
      BY <1>1, <1>2, <1>6, <3>4, DocFreqFacts
    <3> QED
      BY <1>2, <3>3, <3>5 DEF Known
  <2> QED
    BY <2>1, <2>2 DEF QueryWeight
<1> HIDE DEF ab, aa, bb, a, b, U
<1> QED
  BY <1>6, <1>8, <1>9, <1>11, <1>12, <1>13, <1>14 DEF ab, aa, bb, a, b, U

\* A cosine is at most one, and one for the query's own tokens.
LEMMA CosineBounded ==
  ASSUME IndexInv, NEW query \in Text, NEW k \in Sharing(tokenize, query)
  PROVE  LET q == tokenize(query)
             bound == QueryNorm(q) * tfidf.docNorms[k]
         IN  /\ Dot(q, k) * Dot(q, k) <= bound
             /\ SameBag(q, tokenize(given[k])) => Dot(q, k) * Dot(q, k) = bound
<1> DEFINE q == tokenize(query)
           doc == given[k]
           U == Known(q) \cup ElementsOf(doc)
           a == [t \in U |-> IF t \in Known(q) THEN QueryWeight(q, t) ELSE 0]
           b == [t \in U |-> Weight(tfidf, t, Occurrences(t, doc))]
           ab == [t \in U |-> a[t] * b[t]]
           aa == [t \in U |-> a[t] * a[t]]
           bb == [t \in U |-> b[t] * b[t]]
<1>1. /\ IsFiniteSet(U) /\ a \in [U -> Nat] /\ b \in [U -> Nat]
      /\ Dot(q, k) = SumFunctionOnSet(ab, U)
      /\ QueryNorm(q) = SumFunctionOnSet(aa, U)
      /\ tfidf.docNorms[k] = SumFunctionOnSet(bb, U)
      /\ SameBag(q, doc) => \A t \in U : a[t] = b[t]
  BY CosineParts
<1> DEFINE dot == SumFunctionOnSet(ab, U)
           na == SumFunctionOnSet(aa, U)
           nb == SumFunctionOnSet(bb, U)
<1>2. dot * dot <= na * nb
  <2> HIDE DEF a, b, U
  <2> QED
    BY <1>1, CauchySchwarz
<1>3. ASSUME SameBag(q, doc) PROVE dot = na /\ dot = nb
  <2>1. a = b
    <3>1. \A t \in U : a[t] = b[t]
      BY <1>1, <1>3
    <3>2. DOMAIN a = U /\ DOMAIN b = U
      OBVIOUS
    <3> HIDE DEF a, b, U
    <3> QED
      BY <1>1, <3>1, <3>2
  <2> HIDE DEF a, b, U
  <2>2. ab = aa /\ ab = bb
    BY <2>1
  <2> HIDE DEF ab, aa, bb
  <2> QED
    BY <2>2
<1> HIDE DEF dot, na, nb, a, b, U, ab, aa, bb
<1> QED
  BY <1>1, <1>2, <1>3 DEF tokenize, dot, na, nb

-----------------------------------------------------------------------------
(* Similarities of n-grams                                                 *)

\* Two numbers have one as the smaller exactly if it is at most the other.
LEMMA LeastIs ==
  ASSUME NEW a \in Nat, NEW b \in Nat
  PROVE  (Min({a, b}) = a <=> a <= b) /\ (Min({a, b}) = b <=> b <= a)
<1> DEFINE m == Min({a, b})
<1>1. m \in {a, b} /\ m \in Nat /\ m <= a /\ m <= b
  BY LeastOfTwo
<1> HIDE DEF m
<1>2. (m = a <=> a <= b) /\ (m = b <=> b <= a)
  BY <1>1
<1> QED
  BY <1>2 DEF m

\* What two sequences have in common is no more than either, and one of them only if
\* the other has all its elements as often.
InCommon(q, d) == SumFunction([t \in ElementsOf(q) |-> Min({Occurrences(t, q), Occurrences(t, d)})])

LEMMA CommonFacts ==
  ASSUME NEW q \in Seq(Token), NEW d \in Seq(Token)
  PROVE  /\ InCommon(q, d) \in Nat /\ InCommon(q, d) <= Len(q) /\ InCommon(q, d) <= Len(d)
         /\ InCommon(q, d) = Len(q) <=> \A t \in Token : Occurrences(t, q) <= Occurrences(t, d)
         /\ InCommon(q, d) = Len(d) <=> \A t \in Token : Occurrences(t, d) <= Occurrences(t, q)
<1> DEFINE a == [t \in Token |-> Occurrences(t, q)]
           b == [t \in Token |-> Occurrences(t, d)]
           m == [t \in Token |-> Min({a[t], b[t]})]
           sum(f) == SumFunctionOnSet(f, Token)
<1>1. IsFiniteSet(Token)
  BY TokenFacts
<1>2. ASSUME NEW s \in Seq(Token)
      PROVE  LET f == [t \in Token |-> Occurrences(t, s)]
             IN  f \in [Token -> Nat] /\ sum(f) = Len(s)
  <2> DEFINE f == [t \in Token |-> Occurrences(t, s)]
             E == ElementsOf(s)
  <2>1. f \in [Token -> Nat]
    BY OccurrencesFacts
  <2>2. E \in SUBSET Token
    BY ElementsFacts
  <2>3. \A t \in Token \ E : f[t] = 0
    BY OccurrencesFacts
  <2>4. SumFunction([t \in E |-> f[t]]) = sum(f)
    <3> HIDE DEF f, E
    <3> QED
      BY <1>1, <2>1, <2>2, <2>3, SumPadded
  <2>5. [t \in E |-> f[t]] = [t \in E |-> Occurrences(t, s)]
    BY <2>2
  <2>6. SumFunction([t \in E |-> Occurrences(t, s)]) = Len(s)
    BY OccurrencesTotal
  <2> QED
    BY <2>1, <2>4, <2>5, <2>6
<1>3. a \in [Token -> Nat] /\ sum(a) = Len(q)
  BY <1>2
<1>4. b \in [Token -> Nat] /\ sum(b) = Len(d)
  BY <1>2
<1>5. ASSUME NEW t \in Token
      PROVE  /\ m[t] \in Nat /\ m[t] <= a[t] /\ m[t] <= b[t]
             /\ (m[t] = a[t] <=> a[t] <= b[t]) /\ (m[t] = b[t] <=> b[t] <= a[t])
  <2>1. a[t] \in Nat /\ b[t] \in Nat /\ m[t] = Min({a[t], b[t]})
    BY <1>3, <1>4
  <2> HIDE DEF a, b, m
  <2> QED
    BY <2>1, LeastOfTwo, LeastIs
<1>6. m \in [Token -> Nat]
  BY <1>5
<1>7. InCommon(q, d) = sum(m)
  <2> DEFINE E == ElementsOf(q)
  <2>1. E \in SUBSET Token
    BY ElementsFacts
  <2>2. ASSUME NEW t \in Token \ E PROVE m[t] = 0
    <3>1. a[t] = 0
      BY OccurrencesFacts
    <3>2. m[t] \in Nat /\ m[t] <= a[t]
      BY <1>5
    <3> HIDE DEF a, m
    <3> QED
      BY <3>1, <3>2
  <2>3. SumFunction([t \in E |-> m[t]]) = sum(m)
    <3> HIDE DEF m, E
    <3> QED
      BY <1>1, <1>6, <2>1, <2>2, SumPadded
  <2>4. [t \in E |-> m[t]] = [t \in E |-> Min({Occurrences(t, q), Occurrences(t, d)})]
    BY <2>1
  <2> QED
    BY <2>3, <2>4 DEF InCommon
<1>8. /\ \A t \in Token : Occurrences(t, q) = a[t] /\ Occurrences(t, d) = b[t]
      /\ a \in [Token -> Int] /\ b \in [Token -> Int] /\ m \in [Token -> Int]
  BY <1>3, <1>4, <1>6
<1> HIDE DEF a, b, m
<1>9. sum(m) \in Nat /\ sum(m) <= sum(a) /\ sum(m) <= sum(b)
  BY <1>1, <1>5, <1>6, <1>8, SumOfNaturals, SumMonotone
<1>10. ASSUME NEW f \in [Token -> Int], \A t \in Token : m[t] <= f[t]
       PROVE  sum(m) = sum(f) <=> \A t \in Token : m[t] = f[t]
  <2>1. sum(m) = sum(f) => \A t \in Token : m[t] = f[t]
    BY <1>1, <1>8, <1>10, SumEqual
  <2>2. ASSUME \A t \in Token : m[t] = f[t] PROVE sum(m) = sum(f)
    <3>1. m = f
      BY <1>8, <2>2
    <3> QED
      BY <3>1
  <2> QED
    BY <2>1, <2>2
<1>11. sum(m) = sum(a) <=> \A t \in Token : m[t] = a[t]
  BY <1>5, <1>8, <1>10
<1>12. sum(m) = sum(b) <=> \A t \in Token : m[t] = b[t]
  BY <1>5, <1>8, <1>10
<1> HIDE DEF sum
<1>13. sum(m) = sum(a) <=> \A t \in Token : a[t] <= b[t]
  BY <1>5, <1>11
<1>14. sum(m) = sum(b) <=> \A t \in Token : b[t] <= a[t]
  BY <1>5, <1>12
<1> QED
  BY <1>3, <1>4, <1>7, <1>8, <1>9, <1>13, <1>14

\* A number is at most a quotient exactly if it fits as often.
LEMMA QuotientAtLeast ==
  ASSUME NEW a \in Nat, NEW b \in Nat \ {0}, NEW c \in Nat
  PROVE  /\ a \div b \in Nat
         /\ c * b <= a <=> c <= a \div b
<1>1. a \div b \in Nat /\ a = b * (a \div b) + (a % b) /\ a % b \in 0..(b - 1)
  OBVIOUS
<1> DEFINE x == a \div b
<1>2. x \in Nat /\ b * x <= a /\ a < b * x + b
  BY <1>1
<1> HIDE DEF x
<1>3. CASE c <= x
  <2>1. b * c <= b * x
    BY <1>2, <1>3, Times
  <2> QED
    BY <1>2, <1>3, <2>1 DEF x
<1>4. CASE c > x
  <2>1. b * (x + 1) <= b * c
    BY <1>2, <1>4, Times
  <2>2. b * (x + 1) = b * x + b
    BY <1>2
  <2> QED
    BY <1>2, <1>4, <2>1, <2>2 DEF x
<1> QED
  BY <1>2, <1>3, <1>4 DEF x

\* Rounding to ten-thousandths keeps a similarity between zero and one, and hides no
\* difference from zero or one while the denominator is below 20000.
LEMMA Rounding ==
  ASSUME NEW n \in Nat, NEW d \in Nat \ {0}, n <= d
  PROVE  /\ TenThousandths(n, d) \in 0..10000
         /\ n = d => TenThousandths(n, d) = 10000
         /\ d < 20000 /\ 1 <= n => TenThousandths(n, d) > 0
         /\ d < 20000 /\ TenThousandths(n, d) = 10000 => n = d
<1> DEFINE a == 20000 * n + d
           b == 2 * d
           x == a \div b
<1>1. a \in Nat /\ b \in Nat \ {0}
  OBVIOUS
<1>2. TenThousandths(n, d) = x
  BY DEF TenThousandths
<1> HIDE DEF a, b
<1>3. \A c \in Nat : x \in Nat /\ (c * b <= a <=> c <= x)
  BY <1>1, QuotientAtLeast
<1>4. x \in Nat /\ (1 * b <= a <=> 1 <= x) /\ (10000 * b <= a <=> 10000 <= x) /\ (10001 * b <= a <=> 10001 <= x)
  BY <1>3
<1> HIDE DEF x
<1>5. x <= 10000
  <2>1. ~(10001 * b <= a)
    BY DEF a, b
  <2> QED
    BY <1>4, <2>1
<1>6. n = d => x = 10000
  <2>1. n = d => 10000 * b <= a
    BY DEF a, b
  <2> QED
    BY <1>4, <1>5, <2>1
<1>7. d < 20000 /\ 1 <= n => x > 0
  <2>1. d < 20000 /\ 1 <= n => 1 * b <= a
    BY DEF a, b
  <2> QED
    BY <1>4, <2>1
<1>8. d < 20000 /\ x = 10000 => n = d
  <2>1. d < 20000 /\ n < d => ~(10000 * b <= a)
    BY DEF a, b
  <2> QED
    BY <1>4, <2>1
<1> QED
  BY <1>2, <1>4, <1>5, <1>6, <1>7, <1>8

\* A part has no element more often.
LEMMA PartOccurrences ==
  ASSUME NEW p \in Seq(Token), NEW d \in Seq(Token), IsPart(p, d)
  PROVE  \A t : Occurrences(t, p) <= Occurrences(t, d)
<1> SUFFICES ASSUME NEW t PROVE Occurrences(t, p) <= Occurrences(t, d)
  OBVIOUS
<1> DEFINE P == {n \in DOMAIN p : p[n] = t}
           D == {n \in DOMAIN d : d[n] = t}
<1>1. PICK from \in Nat : /\ from + Len(p) <= Len(d)
                         /\ \A m \in 1..Len(p) : d[from + m] = p[m]
  BY DEF IsPart
<1>2. DOMAIN p = 1..Len(p) /\ DOMAIN d = 1..Len(d) /\ Len(p) \in Nat /\ Len(d) \in Nat
  BY LenProperties
<1> DEFINE f == [m \in P |-> from + m]
<1>3. f \in Injection(P, D)
  <2>1. ASSUME NEW m \in P PROVE from + m \in D
    <3>1. m \in 1..Len(p) /\ p[m] = t
      BY <1>2
    <3>2. from + m \in 1..Len(d) /\ d[from + m] = t
      BY <1>1, <1>2, <3>1
    <3> QED
      BY <1>2, <3>2
  <2>2. ASSUME NEW m \in P, NEW n \in P, from + m = from + n PROVE m = n
    BY <1>2, <2>2
  <2> HIDE DEF P, D
  <2> QED
    BY <2>1, <2>2 DEF Injection, IsInjective
<1>4. IsFiniteSet(D)
  <2>1. IsFiniteSet(1..Len(d)) /\ D \subseteq 1..Len(d)
    BY <1>2, FS_Interval
  <2> HIDE DEF D
  <2> QED
    BY <2>1, FS_Subset
<1> HIDE DEF f
<1>5. Cardinality(P) <= Cardinality(D)
  BY <1>3, <1>4, FS_Injection
<1> QED
  BY <1>5 DEF Occurrences

\* The windows of a piece of a word are a part of the windows of the word.
LEMMA WindowsOfPiece ==
  ASSUME NEW w \in Seq(Letter), NEW i \in 1..Len(w), NEW j \in 1..Len(w),
         Len(SubSeq(w, i, j)) >= N
  PROVE  IsPart(Windows(SubSeq(w, i, j)), Windows(w))
<1> DEFINE p == SubSeq(w, i, j)
<1>1. N \in Nat \ {0} /\ Len(w) \in Nat
  BY SizesAssumption, LenProperties
<1>2. i <= j
  <2>1. CASE i > j
    <3>1. p = <<>>
      BY <1>1, <2>1, SubSeqProperties
    <3>2. Len(p) = 0
      BY <3>1
    <3> QED
      BY <1>1, <3>2
  <2> QED
    BY <1>1, <2>1
<1>3. Len(p) = j - i + 1
  BY <1>1, <1>2, SubSeqProperties
<1>4. j - i + 1 >= N
  BY <1>3
<1>5. Windows(p) = [m \in 1..(j - i + 1 - N + 1) |-> SubSeq(p, m, m + N - 1)]
  BY <1>1, <1>3, <1>4 DEF Windows
<1>6. Windows(w) = [m \in 1..(Len(w) - N + 1) |-> SubSeq(w, m, m + N - 1)]
  BY <1>1, <1>2, <1>4 DEF Windows
<1>7. Len(Windows(p)) = j - i + 1 - N + 1 /\ Len(Windows(w)) = Len(w) - N + 1
  BY <1>1, <1>4, <1>5, <1>6
<1>8. ASSUME NEW m \in 1..(j - i + 1 - N + 1)
      PROVE  SubSeq(w, (i - 1) + m, (i - 1) + m + N - 1) = SubSeq(p, m, m + N - 1)
  <2> DEFINE a == (i - 1) + m
  <2>1. /\ a \in Int /\ 1 <= a /\ a + N - 1 <= Len(w) /\ a <= a + N - 1
        /\ 1 <= m /\ m + N - 1 <= j - i + 1 /\ m <= m + N - 1
    BY <1>1, <1>2, <1>4
  <2> DEFINE x == SubSeq(w, a, a + N - 1)
             y == SubSeq(p, m, m + N - 1)
  <2>2. \A n \in 1..Len(w) : w[n] \in Letter
    BY ElementOfSeq
  <2>3. \A n \in 1..(j - i + 1) : p[n] = w[i + n - 1] /\ w[i + n - 1] \in Letter
    <3>1. \A n \in i..j : w[n] \in Letter
      BY <1>1, <2>2
    <3>2. \A n \in 1..(j - i + 1) : p[n] = w[i + n - 1]
      BY <1>1, <3>1, SubSeqProperties
    <3> QED
      BY <1>1, <2>2, <3>2
  <2> HIDE DEF a
  <2>4. x \in Seq(Letter) /\ Len(x) = N /\ \A n \in 1..N : x[n] = w[a + n - 1]
    <3>1. \A n \in a..(a + N - 1) : w[n] \in Letter
      BY <1>1, <2>1, <2>2
    <3> DEFINE z == a + N - 1
    <3>2. z \in Int /\ a <= z /\ z - a + 1 = N
      BY <1>1, <2>1
    <3> HIDE DEF z
    <3>3. /\ SubSeq(w, a, z) \in Seq(Letter) /\ Len(SubSeq(w, a, z)) = z - a + 1
          /\ \A n \in 1..(z - a + 1) : SubSeq(w, a, z)[n] = w[a + n - 1]
      BY <2>1, <3>1, <3>2, SubSeqProperties DEF z
    <3> QED
      BY <3>2, <3>3 DEF z
  <2> HIDE DEF p
  <2>5. y \in Seq(Letter) /\ Len(y) = N /\ \A n \in 1..N : y[n] = p[m + n - 1]
    <3>1. \A n \in m..(m + N - 1) : p[n] \in Letter
      BY <1>1, <2>1, <2>3
    <3> DEFINE z == m + N - 1
    <3>2. z \in Int /\ m <= z /\ z - m + 1 = N
      BY <1>1, <2>1
    <3> HIDE DEF z
    <3>3. /\ SubSeq(p, m, z) \in Seq(Letter) /\ Len(SubSeq(p, m, z)) = z - m + 1
          /\ \A n \in 1..(z - m + 1) : SubSeq(p, m, z)[n] = p[m + n - 1]
      BY <2>1, <3>1, <3>2, SubSeqProperties DEF z
    <3> QED
      BY <3>2, <3>3 DEF z
  <2>6. ASSUME NEW n \in 1..N PROVE x[n] = y[n]
    <3>1. m + n - 1 \in 1..(j - i + 1) /\ i + (m + n - 1) - 1 = a + n - 1
      BY <1>1, <2>1 DEF a
    <3>2. p[m + n - 1] = w[i + (m + n - 1) - 1]
      BY <2>3, <3>1
    <3> QED
      BY <2>4, <2>5, <3>1, <3>2
  <2> HIDE DEF x, y
  <2>7. x = y
    BY <1>1, <2>4, <2>5, <2>6, SeqEqual
  <2> QED
    BY <2>7 DEF x, y, a, p
<1>9. ASSUME NEW m \in 1..(j - i + 1 - N + 1)
      PROVE  Windows(w)[(i - 1) + m] = Windows(p)[m]
  <2>1. (i - 1) + m \in 1..(Len(w) - N + 1)
    BY <1>1, <1>2
  <2> DEFINE a == (i - 1) + m
  <2>2. Windows(w)[a] = SubSeq(w, a, a + N - 1)
    BY <1>6, <2>1
  <2>3. Windows(p)[m] = SubSeq(p, m, m + N - 1)
    BY <1>5
  <2> QED
    BY <1>8, <2>2, <2>3
<1>10. i - 1 \in Nat /\ (i - 1) + Len(Windows(p)) <= Len(Windows(w))
  BY <1>1, <1>2, <1>7
<1> QED
  BY <1>7, <1>9, <1>10 DEF IsPart

\* The n-grams of a piece of a word are among those of a text with the word.
LEMMA WithinOccurrences ==
  ASSUME NEW query \in Text, NEW doc \in Text, WithinWord(query, doc)
  PROVE  \A t : Occurrences(t, ExtractNgrams(query)) <= Occurrences(t, ExtractNgrams(doc))
<1> DEFINE q == ExtractNgrams(query)
           d == ExtractNgrams(doc)
           windows(text) == [i \in DOMAIN text |-> Windows(text[i])]
<1>1. ASSUME NEW text \in Text
      PROVE  /\ text \in Seq(Seq(Letter)) /\ DOMAIN text = 1..Len(text) /\ Len(text) \in Nat
             /\ windows(text) \in Seq(Seq(Seq(Letter))) /\ Len(windows(text)) = Len(text)
             /\ ExtractNgrams(text) = FlattenSeq(windows(text))
             /\ ExtractNgrams(text) \in Seq(Seq(Letter)) /\ ExtractNgrams(text) \in Seq(Token)
  <2>1. text \in Seq(Seq(Letter)) /\ ExtractNgrams(text) \in Seq(Seq(Letter)) /\ ExtractNgrams(text) \in Seq(Token)
    BY NgramsType, TokenFacts
  <2>2. DOMAIN text = 1..Len(text) /\ Len(text) \in Nat /\ \A i \in 1..Len(text) : text[i] \in Seq(Letter)
    BY <2>1, LenProperties, ElementOfSeq
  <2>3. \A i \in 1..Len(text) : Windows(text[i]) \in Seq(Seq(Letter))
    BY <2>2, WindowsType
  <2>4. windows(text) \in Seq(Seq(Seq(Letter))) /\ Len(windows(text)) = Len(text)
    BY <2>2, <2>3
  <2> QED
    BY <2>1, <2>2, <2>4 DEF ExtractNgrams
<1>2. /\ Len(query) = 1 /\ Len(query[1]) >= N
      /\ \E w \in ElementsOf(doc) : \E i, j \in DOMAIN w : query[1] = SubSeq(w, i, j)
  BY DEF WithinWord
<1>3. PICK n \in 1..Len(doc) : \E i, j \in DOMAIN doc[n] : query[1] = SubSeq(doc[n], i, j)
  <2>1. PICK w \in ElementsOf(doc) : \E i, j \in DOMAIN w : query[1] = SubSeq(w, i, j)
    BY <1>2
  <2>2. PICK n \in 1..Len(doc) : w = doc[n]
    <3>1. DOMAIN doc = 1..Len(doc)
      BY <1>1
    <3>2. \E n \in DOMAIN doc : w = doc[n]
      BY <2>1 DEF ElementsOf
    <3> QED
      BY <3>1, <3>2
  <2> QED
    BY <2>1, <2>2
<1>4. PICK i \in DOMAIN doc[n], j \in DOMAIN doc[n] : query[1] = SubSeq(doc[n], i, j)
  BY <1>3
<1>5. doc[n] \in Seq(Letter) /\ DOMAIN doc[n] = 1..Len(doc[n])
  BY <1>1, <1>3, ElementOfSeq, LenProperties
<1>6. IsPart(Windows(query[1]), Windows(doc[n]))
  BY <1>2, <1>4, <1>5, WindowsOfPiece
<1>7. q = Windows(query[1])
  <2> DEFINE s == windows(query)
  <2>0. 1 \in DOMAIN query
    BY <1>1, <1>2
  <2>1. s \in Seq(Seq(Seq(Letter))) /\ Len(s) = 1 /\ q = FlattenSeq(s) /\ s[1] = Windows(query[1])
    BY <1>1, <1>2, <2>0
  <2> HIDE DEF s, q
  <2> DEFINE one == 1
  <2>2. one \in 1..Len(s)
    BY <2>1
  <2> HIDE DEF one
  <2>3. Len(s) = 1 => FlattenSeq(s) = s[1]
    BY <2>1, <2>2, FlattenParts
  <2> QED
    BY <2>1, <2>3
<1>8. IsPart(Windows(doc[n]), d)
  <2> DEFINE s == windows(doc)
  <2>1. s \in Seq(Seq(Seq(Letter))) /\ n \in 1..Len(s) /\ d = FlattenSeq(s) /\ s[n] = Windows(doc[n])
    BY <1>1, <1>3
  <2> HIDE DEF s, d
  <2>2. IsPart(s[n], FlattenSeq(s))
    BY <2>1, FlattenParts
  <2> QED
    BY <2>1, <2>2
<1>9. IsPart(q, d)
  <2> DEFINE v == Windows(doc[n])
  <2>1. Len(v) \in Nat /\ Len(d) \in Nat /\ Len(q) \in Nat
    BY <1>1, <1>5, WindowsType, LenProperties
  <2> HIDE DEF q, d, v
  <2>2. IsPart(q, v) /\ IsPart(v, d)
    BY <1>6, <1>7, <1>8 DEF v
  <2> QED
    BY <2>1, <2>2, PartOfPart
<1> QED
  BY <1>1, <1>9, PartOccurrences

\* A similarity m / n, of two texts with no more than limit n-grams together.
IsRounded(score, m, n, limit) ==
  /\ score \in 0..10000
  /\ m = n => score = 10000
  /\ limit < 20000 => score > 0 /\ (score = 10000 => m = n)

LEMMA RoundedBelow ==
  ASSUME NEW m \in Nat, NEW n \in Nat \ {0}, NEW limit \in Nat, 1 <= m, m <= n, n <= limit
  PROVE  IsRounded(TenThousandths(m, n), m, n, limit)
<1> DEFINE score == TenThousandths(m, n)
<1>1. /\ score \in 0..10000 /\ (m = n => score = 10000)
      /\ (n < 20000 /\ 1 <= m => score > 0) /\ (n < 20000 /\ score = 10000 => m = n)
  BY Rounding
<1>2. limit < 20000 => n < 20000
  OBVIOUS
<1> QED
  BY <1>1, <1>2 DEF IsRounded

\* The similarities of a document that shares n-grams with the query.
LEMMA NgramSound ==
  ASSUME IndexInv, NEW query \in Text, NEW k \in Sharing(ExtractNgrams, query)
  PROVE  SimilaritiesSound(query, k, ExtractNgrams(query), ExtractNgrams(given[k]))
<1> DEFINE q == ExtractNgrams(query)
           d == ExtractNgrams(given[k])
           shared == Shared(q, k)
           lenQ == Len(q)
           lenD == Len(d)
           least == Min({lenQ, lenD})
<1>1. /\ q \in Seq(Token) /\ d \in Seq(Token) /\ ngram.docTokens[k] = d
      /\ \A t \in ElementsOf(q) : ngram.postings[t][k] = Occurrences(t, d)
      /\ 1 <= shared /\ 1 <= lenD /\ lenD \in Nat /\ lenQ \in Nat
  BY SharedFacts
<1>2. shared = InCommon(q, d)
  <2>1. [t \in ElementsOf(q) |-> Min({Occurrences(t, q), ngram.postings[t][k]})]
          = [t \in ElementsOf(q) |-> Min({Occurrences(t, q), Occurrences(t, d)})]
    BY <1>1
  <2> QED
    BY <2>1 DEF Shared, InCommon
<1>3. given[k] \in Text
  <2>1. k \in Key /\ given[k] # NoDoc
    BY DEF Sharing, Documents
  <2> QED
    BY <2>1 DEF IndexInv, Texts
<1>4. \A t : Occurrences(t, q) \in Nat /\ Occurrences(t, d) \in Nat
  BY <1>1, OccurrencesFacts
<1>5. /\ NgramScore("Dice", q, k) = TenThousandths(2 * shared, lenQ + lenD)
      /\ NgramScore("Jaccard", q, k) = TenThousandths(shared, lenQ + lenD - shared)
      /\ NgramScore("Overlap", q, k) = TenThousandths(shared, least)
  BY <1>1 DEF NgramScore
<1> DEFINE Within == \A t \in Token : Occurrences(t, q) <= Occurrences(t, d)
           Around == \A t \in Token : Occurrences(t, d) <= Occurrences(t, q)
<1>6. SameBag(q, d) <=> Within /\ Around
  <2>1. SameBag(q, d) <=> \A t \in Token : Occurrences(t, q) = Occurrences(t, d)
    BY DEF SameBag
  <2> QED
    BY <1>4, <2>1
<1>7. WithinWord(query, given[k]) => Within
  BY <1>3, WithinOccurrences
<1> HIDE DEF q, d, Within, Around
<1>8. /\ shared \in Nat /\ shared <= lenQ /\ shared <= lenD
      /\ (shared = lenQ <=> Within) /\ (shared = lenD <=> Around)
  BY <1>1, <1>2, CommonFacts DEF Within, Around
<1> HIDE DEF shared, lenQ, lenD
<1>9. /\ least \in Nat /\ shared <= least /\ least <= lenQ + lenD
      /\ (shared = lenQ => shared = least)
  <2>1. least \in {lenQ, lenD} /\ least \in Nat /\ least <= lenQ /\ least <= lenD
    BY <1>1, LeastOfTwo
  <2> HIDE DEF least
  <2> QED
    BY <1>1, <1>8, <2>1
<1> HIDE DEF least
<1> DEFINE total == lenQ + lenD
           union == lenQ + lenD - shared
           dice == NgramScore("Dice", q, k)
           jaccard == NgramScore("Jaccard", q, k)
           overlap == NgramScore("Overlap", q, k)
           both == shared = lenQ /\ shared = lenD
<1>10. IsRounded(dice, 2 * shared, total, total)
  <2> DEFINE m == 2 * shared
  <2>1. m \in Nat /\ 1 <= m /\ m <= total /\ total \in Nat \ {0} /\ dice = TenThousandths(m, total)
    BY <1>1, <1>5, <1>8
  <2> HIDE DEF m, total, dice
  <2>2. IsRounded(dice, m, total, total)
    BY <2>1, RoundedBelow
  <2> QED
    BY <2>2 DEF m
<1>11. IsRounded(jaccard, shared, union, total)
  <2>1. shared <= union /\ union <= total /\ union \in Nat \ {0} /\ total \in Nat
    BY <1>1, <1>8
  <2>2. jaccard = TenThousandths(shared, union)
    BY <1>5
  <2> HIDE DEF union, total, jaccard
  <2> QED
    BY <1>1, <1>8, <2>1, <2>2, RoundedBelow
<1>12. IsRounded(overlap, shared, least, total)
  <2>1. shared <= least /\ least <= total /\ least \in Nat \ {0} /\ total \in Nat
    BY <1>1, <1>8, <1>9
  <2>2. overlap = TenThousandths(shared, least)
    BY <1>5
  <2> HIDE DEF total, overlap
  <2> QED
    BY <1>1, <1>8, <2>1, <2>2, RoundedBelow
<1>13. \A metric \in Metric : \/ NgramScore(metric, q, k) = dice
                              \/ NgramScore(metric, q, k) = jaccard
                              \/ NgramScore(metric, q, k) = overlap
  BY DEF Metric
<1>14. \A metric \in {"Dice", "Jaccard"} : NgramScore(metric, q, k) \in {dice, jaccard}
  OBVIOUS
<1> HIDE DEF dice, jaccard, overlap
<1>15. /\ dice \in 0..10000 /\ (both => dice = 10000)
       /\ total < 20000 => dice > 0 /\ (dice = 10000 => both)
  BY <1>1, <1>8, <1>10 DEF IsRounded
<1>16. /\ jaccard \in 0..10000 /\ (both => jaccard = 10000)
       /\ total < 20000 => jaccard > 0 /\ (jaccard = 10000 => both)
  <2>1. shared = union <=> both
    BY <1>1, <1>8
  <2> HIDE DEF union, total, both
  <2> QED
    BY <1>11, <2>1 DEF IsRounded
<1>17. /\ overlap \in 0..10000 /\ (shared = lenQ => overlap = 10000)
       /\ total < 20000 => overlap > 0
  BY <1>9, <1>12 DEF IsRounded
<1>18. SameBag(q, d) <=> both
  BY <1>6, <1>8
<1> HIDE DEF total, both
<1>19. \A metric \in Metric : NgramScore(metric, q, k) \in 0..10000
  <2> DEFINE R == 0..10000
  <2>1. dice \in R /\ jaccard \in R /\ overlap \in R
    BY <1>15, <1>16, <1>17
  <2> HIDE DEF R
  <2>2. \A metric \in Metric : NgramScore(metric, q, k) \in R
    BY <1>13, <2>1
  <2> QED
    BY <2>2 DEF R
<1>20. SameBag(q, d) => \A metric \in {"Dice", "Jaccard"} : NgramScore(metric, q, k) = 10000
  BY <1>14, <1>15, <1>16, <1>18
<1>21. WithinWord(query, given[k]) => overlap = 10000
  BY <1>7, <1>8, <1>17
<1>22. total < 20000 => \A metric \in Metric : NgramScore(metric, q, k) > 0
  BY <1>13, <1>15, <1>16, <1>17
<1>23. total < 20000 =>
         \A metric \in {"Dice", "Jaccard"} : NgramScore(metric, q, k) = 10000 => SameBag(q, d)
  BY <1>14, <1>15, <1>16, <1>18
<1>24. SimilaritiesSound(query, k, q, d)
  BY <1>19, <1>20, <1>21, <1>22, <1>23 DEF SimilaritiesSound, lenQ, lenD, overlap, total
<1> QED
  BY <1>24 DEF q, d

\* After any history of the indexes the scores mean what their names promise: the
\* n-gram similarities stay between zero and one and reach one only for the same
\* n-grams (ngram.go:145-165), a document that has the query's tokens more often in no
\* more text never has the smaller BM25 score (bm25.go:142-154), and the cosine of
\* TF-IDF is at most one, which the query's own tokens reach (tfidf.go:153-176).
THEOREM ScoresAlwaysSound == Spec => []ScoresSound
<1>1. IndexInv => NgramScoresSound
  <2> SUFFICES ASSUME IndexInv PROVE NgramScoresSound
    OBVIOUS
  <2> QED
    BY NgramSound DEF NgramScoresSound
<1>2. IndexInv => BM25ScoresSound
  BY BM25Ordered DEF BM25ScoresSound
<1>3. IndexInv => TFIDFScoresSound
  BY CosineBounded DEF TFIDFScoresSound
<1>4. IndexInv => ScoresSound
  BY <1>1, <1>2, <1>3 DEF ScoresSound
<1> QED
  BY <1>4, IndexCurrent, PTL
=============================================================================
