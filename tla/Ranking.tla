------------------------------- MODULE Ranking -------------------------------
(***************************************************************************)
(* Ranked lists: what every search of internal/store returns and what      *)
(* hybrid.go fuses. A score is an exact fraction, the pair of its terms    *)
(* with a positive second one, where the code has a float64, or infinite;  *)
(* scores that are equal are a tie. A key is a natural number that stands  *)
(* for its place in the order of strings. A list holds the keys alone:     *)
(* what is done with it depends on the places, not on the scores.          *)
(***************************************************************************)
EXTENDS Integers, Sequences, FiniteSets, FiniteSetsExt

Fraction == Int \X (Nat \ {0})
Infinite == <<1, 0>>  \* greater than any fraction, by the comparisons that follow
Score == Fraction \cup {Infinite}

Less(x, y) == x[1] * y[2] < y[1] * x[2]
Same(x, y) == x[1] * y[2] = y[1] * x[2]
Plus(x, y) == <<x[1] * y[2] + y[1] * x[2], x[2] * y[2]>>
Add(x, y) == IF Infinite \in {x, y} THEN Infinite ELSE Plus(x, y)

-----------------------------------------------------------------------------
(* sort.Slice with the comparison that every search uses, and the cut at   *)
(* topK: zero or less asks for everything.                                 *)

Before(score, j, k) ==
  \/ Less(score[k], score[j])
  \/ Same(score[j], score[k]) /\ j < k

Place(score, k) == 1 + Cardinality({j \in DOMAIN score : Before(score, j, k)})

Ranked(score) ==
  [n \in 1..Cardinality(DOMAIN score) |->
     CHOOSE k \in DOMAIN score : Place(score, k) = n]

Truncate(list, topK) ==
  IF topK > 0 /\ Len(list) > topK THEN SubSeq(list, 1, topK) ELSE list

-----------------------------------------------------------------------------
(* Reciprocal rank fusion                                                  *)

KeysOf(list) == {list[n] : n \in DOMAIN list}

\* 1 / (k + rank), where k is in hundredths, in units of
\* 100 / ((k + 100) * ... * (k + 100 * longest)).
Share(k, rank, longest) == ProductSet({k + 100 * r : r \in (1..longest) \ {rank}})

\* Mutation: a later list takes the place of what the earlier ones added.
LastScore(rankLists, key, k, longest) ==
  LET places == {p \in (DOMAIN rankLists) \X (1..longest) :
                   p[2] \in DOMAIN rankLists[p[1]] /\ rankLists[p[1]][p[2]] = key}
      last == CHOOSE p \in places : \A q \in places : q[1] <= p[1]
  IN Share(k, last[2], longest)

FusedScore(rankLists, key, k, longest) ==
  LET places == {p \in (DOMAIN rankLists) \X (1..longest) :
                   p[2] \in DOMAIN rankLists[p[1]] /\ rankLists[p[1]][p[2]] = key}
  IN SumFunction([p \in places |-> Share(k, p[2], longest)])

RRFConstant(k) == IF k <= 0 THEN 6000 ELSE k

RRFMulti(rankLists, topK, k) ==
  LET longest == Max({0} \cup {Len(rankLists[i]) : i \in DOMAIN rankLists})
      found == UNION {KeysOf(rankLists[i]) : i \in DOMAIN rankLists}
  IN Truncate(
       Ranked([key \in found |->
                 <<FusedScore(rankLists, key, RRFConstant(k), longest), 1>>]), topK)
=============================================================================
