----------------------------- MODULE DataLemmas -----------------------------
(***************************************************************************)
(* Facts about the data that the modules share, for every value of their   *)
(* arguments: queues, induction, folds and sums over finite sets, tables,  *)
(* and ranked lists.                                                       *)
(*                                                                         *)
(* Induction takes a set in place of a predicate, the set of what has been *)
(* proved, and rests on the library's WFMin: a set that is not empty has a *)
(* minimal element.                                                        *)
(***************************************************************************)
EXTENDS Ranking, SequencesExt, SequenceTheorems, FiniteSetTheorems, FunctionTheorems, TLAPS

-----------------------------------------------------------------------------
(* Queues: what sending on a channel and receiving from it do to the       *)
(* sequence that is in it                                                  *)

\* A channel with nothing in it.
LEMMA EmptyQueue == ToSet(<<>>) = {} /\ IsInjective(<<>>)
  BY DEF ToSet, IsInjective

\* A send adds one element, and leaves no element twice if it was not there.
LEMMA SendQueue ==
  ASSUME NEW S, NEW s \in Seq(S), NEW e \in S
  PROVE  /\ Append(s, e) \in Seq(S)
         /\ Len(Append(s, e)) = Len(s) + 1
         /\ ToSet(Append(s, e)) = ToSet(s) \cup {e}
         /\ IsInjective(s) /\ e \notin ToSet(s) => IsInjective(Append(s, e))
<1>1. /\ Append(s, e) \in Seq(S) /\ Len(Append(s, e)) = Len(s) + 1
      /\ DOMAIN Append(s, e) = 1..(Len(s) + 1) /\ DOMAIN s = 1..Len(s) /\ Len(s) \in Nat
      /\ \A i \in 1..Len(s) : Append(s, e)[i] = s[i]
      /\ Append(s, e)[Len(s) + 1] = e
  BY AppendProperties, LenProperties
<1>2. ToSet(Append(s, e)) = ToSet(s) \cup {e}
  <2>1. ASSUME NEW x \in ToSet(Append(s, e)) PROVE x \in ToSet(s) \cup {e}
    <3>1. PICK i \in 1..(Len(s) + 1) : x = Append(s, e)[i]
      BY <1>1, <2>1 DEF ToSet
    <3>2. CASE i = Len(s) + 1
      BY <1>1, <3>1, <3>2
    <3>3. CASE i \in 1..Len(s)
      BY <1>1, <3>1, <3>3 DEF ToSet
    <3> QED
      BY <1>1, <3>1, <3>2, <3>3
  <2>2. ASSUME NEW x \in ToSet(s) PROVE x \in ToSet(Append(s, e))
    <3>1. PICK i \in 1..Len(s) : x = s[i]
      BY <1>1, <2>2 DEF ToSet
    <3>2. i \in DOMAIN Append(s, e) /\ x = Append(s, e)[i]
      BY <1>1, <3>1
    <3> QED
      BY <3>2 DEF ToSet
  <2>3. e \in ToSet(Append(s, e))
    <3>1. Len(s) + 1 \in DOMAIN Append(s, e)
      BY <1>1
    <3> QED
      BY <1>1, <3>1 DEF ToSet
  <2> QED
    BY <2>1, <2>2, <2>3
<1>3. ASSUME IsInjective(s), e \notin ToSet(s) PROVE IsInjective(Append(s, e))
  <2> SUFFICES ASSUME NEW i \in 1..(Len(s) + 1), NEW j \in 1..(Len(s) + 1),
                      Append(s, e)[i] = Append(s, e)[j]
               PROVE  i = j
    BY <1>1 DEF IsInjective
  <2>1. CASE i \in 1..Len(s) /\ j \in 1..Len(s)
    BY <1>1, <1>3, <2>1 DEF IsInjective
  <2>2. CASE i = Len(s) + 1 /\ j \in 1..Len(s)
    <3>1. e = s[j]
      BY <1>1, <2>2
    <3> QED
      BY <1>1, <1>3, <2>2, <3>1 DEF ToSet
  <2>3. CASE j = Len(s) + 1 /\ i \in 1..Len(s)
    <3>1. e = s[i]
      BY <1>1, <2>3
    <3> QED
      BY <1>1, <1>3, <2>3, <3>1 DEF ToSet
  <2> QED
    BY <1>1, <2>1, <2>2, <2>3
<1> QED
  BY <1>1, <1>2, <1>3

\* A receive takes the first element, and with it the only one of its kind.
LEMMA ReceiveQueue ==
  ASSUME NEW S, NEW s \in Seq(S), s # <<>>
  PROVE  /\ Head(s) \in S /\ Head(s) \in ToSet(s)
         /\ Tail(s) \in Seq(S)
         /\ Len(Tail(s)) = Len(s) - 1
         /\ IsInjective(s) => /\ ToSet(Tail(s)) = ToSet(s) \ {Head(s)}
                              /\ IsInjective(Tail(s))
<1>1. /\ Head(s) \in S /\ Tail(s) \in Seq(S) /\ Len(Tail(s)) = Len(s) - 1
      /\ \A i \in 1..(Len(s) - 1) : Tail(s)[i] = s[i + 1]
      /\ DOMAIN s = 1..Len(s) /\ DOMAIN Tail(s) = 1..(Len(s) - 1)
      /\ Len(s) \in Nat \ {0} /\ Head(s) = s[1]
  BY HeadTailProperties, LenProperties, EmptySeq
<1>2. Head(s) \in ToSet(s)
  <2>1. 1 \in DOMAIN s
    BY <1>1
  <2> QED
    BY <1>1, <2>1 DEF ToSet
<1>3. ASSUME IsInjective(s)
      PROVE  ToSet(Tail(s)) = ToSet(s) \ {Head(s)} /\ IsInjective(Tail(s))
  <2>1. ASSUME NEW x \in ToSet(Tail(s)) PROVE x \in ToSet(s) /\ x # Head(s)
    <3>1. PICK i \in 1..(Len(s) - 1) : x = s[i + 1]
      BY <1>1, <2>1 DEF ToSet
    <3>2. i + 1 \in DOMAIN s /\ 1 \in DOMAIN s /\ i + 1 # 1
      BY <1>1, <3>1
    <3>3. x # s[1]
      BY <1>3, <3>1, <3>2 DEF IsInjective
    <3> QED
      BY <1>1, <3>1, <3>2, <3>3 DEF ToSet
  <2>2. ASSUME NEW x \in ToSet(s), x # Head(s) PROVE x \in ToSet(Tail(s))
    <3>1. PICK i \in 1..Len(s) : x = s[i]
      BY <1>1, <2>2 DEF ToSet
    <3>2. i - 1 \in 1..(Len(s) - 1) /\ x = Tail(s)[i - 1]
      BY <1>1, <2>2, <3>1
    <3> QED
      BY <1>1, <3>2 DEF ToSet
  <2>3. IsInjective(Tail(s))
    <3> SUFFICES ASSUME NEW i \in 1..(Len(s) - 1), NEW j \in 1..(Len(s) - 1),
                        s[i + 1] = s[j + 1]
                 PROVE  i = j
      BY <1>1 DEF IsInjective
    <3>1. i + 1 \in DOMAIN s /\ j + 1 \in DOMAIN s
      BY <1>1
    <3>2. i + 1 = j + 1
      BY <1>3, <3>1 DEF IsInjective
    <3> QED
      BY <3>2
  <2> QED
    BY <2>1, <2>2, <2>3
<1> QED
  BY <1>1, <1>2, <1>3

\* What was in the channel is the element received and what is left.
LEMMA HeadAndTail ==
  ASSUME NEW S, NEW s \in Seq(S), s # <<>>
  PROVE  ToSet(s) = {Head(s)} \cup ToSet(Tail(s))
<1>1. /\ \A i \in 1..(Len(s) - 1) : Tail(s)[i] = s[i + 1]
      /\ DOMAIN s = 1..Len(s) /\ DOMAIN Tail(s) = 1..(Len(s) - 1)
      /\ Len(s) \in Nat \ {0} /\ Head(s) = s[1]
  BY HeadTailProperties, LenProperties, EmptySeq
<1>2. ASSUME NEW x \in ToSet(Tail(s)) PROVE x \in ToSet(s)
  <2>1. PICK i \in 1..(Len(s) - 1) : x = s[i + 1]
    BY <1>1, <1>2 DEF ToSet
  <2>2. i + 1 \in DOMAIN s
    BY <1>1, <2>1
  <2> QED
    BY <2>1, <2>2 DEF ToSet
<1>3. ASSUME NEW x \in ToSet(s), x # Head(s) PROVE x \in ToSet(Tail(s))
  <2>1. PICK i \in 1..Len(s) : x = s[i]
    BY <1>1, <1>3 DEF ToSet
  <2>2. i - 1 \in 1..(Len(s) - 1) /\ x = Tail(s)[i - 1]
    BY <1>1, <1>3, <2>1
  <2> QED
    BY <1>1, <2>2 DEF ToSet
<1>4. Head(s) \in ToSet(s)
  <2>1. 1 \in DOMAIN s
    BY <1>1
  <2> QED
    BY <1>1, <2>1 DEF ToSet
<1> QED
  BY <1>2, <1>3, <1>4

-----------------------------------------------------------------------------
(* Induction                                                               *)

\* Induction over the natural numbers: a set that has 0 and with every number the
\* next has them all.
LEMMA NatSetInduction ==
  ASSUME NEW G, 0 \in G, \A n \in Nat : n \in G => n + 1 \in G
  PROVE  Nat \subseteq G
<1> DEFINE bad == {n \in Nat : n \notin G}
<1>1. SUFFICES ASSUME bad # {} PROVE FALSE
  OBVIOUS
<1>2. IsWellFoundedOn(OpToRel(<,Nat), Nat)
  BY NatLessThanWellFounded
<1>3. PICK n \in bad : \A m \in bad : <<m, n>> \notin OpToRel(<,Nat)
  <2> HIDE DEF bad
  <2>1. bad \subseteq Nat
    BY DEF bad
  <2> QED
    BY <1>1, <1>2, <2>1, WFMin
<1>4. n \in Nat /\ n # 0 /\ n - 1 \in Nat
  OBVIOUS
<1>5. n - 1 \notin G
  BY <1>4
<1>6. <<n - 1, n>> \in OpToRel(<,Nat)
  BY <1>4 DEF OpToRel
<1> QED
  BY <1>3, <1>4, <1>5, <1>6

\* Induction over the subsets of a finite set: a family that has each of them that
\* all its proper subsets are in has every one.
LEMMA SubsetInduction ==
  ASSUME NEW S, IsFiniteSet(S), NEW G,
         \A T \in SUBSET S : (\A U \in SUBSET T : U # T => U \in G) => T \in G
  PROVE  SUBSET S \subseteq G
<1> DEFINE bad == {T \in SUBSET S : T \notin G}
<1>1. SUFFICES ASSUME bad # {} PROVE FALSE
  OBVIOUS
<1>2. IsWellFoundedOn(StrictSubsetOrdering(S), SUBSET S)
  BY FS_StrictSubsetOrderingWellFounded, FS_FiniteSubsetsOfFinite
<1>3. PICK T \in bad : \A U \in bad : <<U, T>> \notin StrictSubsetOrdering(S)
  <2> HIDE DEF bad
  <2>1. bad \subseteq SUBSET S
    BY DEF bad
  <2> QED
    BY <1>1, <1>2, <2>1, WFMin
<1>4. PICK U \in SUBSET T : U # T /\ U \notin G
  OBVIOUS
<1>5. <<U, T>> \in StrictSubsetOrdering(S)
  BY <1>3, <1>4 DEF StrictSubsetOrdering
<1> QED
  BY <1>3, <1>4, <1>5

\* The same one element at a time.
LEMMA ElementInduction ==
  ASSUME NEW S, IsFiniteSet(S), NEW G, {} \in G,
         \A T \in SUBSET S : T # {} => \E x \in T : T \ {x} \in G => T \in G
  PROVE  SUBSET S \subseteq G
<1>1. ASSUME NEW T \in SUBSET S, \A U \in SUBSET T : U # T => U \in G
      PROVE  T \in G
  <2>1. CASE T # {}
    <3>1. PICK x \in T : T \ {x} \in G => T \in G
      BY <2>1
    <3>2. T \ {x} \in SUBSET T /\ T \ {x} # T
      OBVIOUS
    <3> QED
      BY <1>1, <3>1, <3>2
  <2> QED
    BY <2>1
<1> QED
  BY <1>1, SubsetInduction

-----------------------------------------------------------------------------
(* Folds: the community modules define them by recursion over the subsets  *)
(* of a set, and CHOOSE the element that goes next                         *)

Some(s) == CHOOSE x \in s : TRUE

LEMMA SomeIn ==
  ASSUME NEW s, s # {}
  PROVE  Some(s) \in s
  BY DEF Some

\* g takes every subset of S to what is made of base by an F for each element.
IsFold(g, S, V, base, F) ==
  /\ g \in [SUBSET S -> V]
  /\ \A s \in SUBSET S : g[s] = IF s = {} THEN base ELSE F[Some(s)][g[s \ {Some(s)}]]

\* There is such a function.
LEMMA FoldExists ==
  ASSUME NEW S, IsFiniteSet(S), NEW V, NEW base \in V, NEW F \in [S -> [V -> V]]
  PROVE  \E g : IsFold(g, S, V, base, F)
<1> DEFINE level(n) == {s \in SUBSET S : Cardinality(s) <= n}
           good(n, g) == /\ g \in [level(n) -> V]
                         /\ \A s \in level(n) :
                              g[s] = IF s = {} THEN base ELSE F[Some(s)][g[s \ {Some(s)}]]
           G == {n \in Nat : \E g : good(n, g)}
<1>0. \A s \in SUBSET S : IsFiniteSet(s) /\ Cardinality(s) \in Nat
  BY FS_Subset, FS_CardinalityType
<1>1. 0 \in G
  <2> DEFINE g == [s \in level(0) |-> base]
  <2>1. \A s \in level(0) : s = {}
    BY <1>0, FS_EmptySet
  <2>2. good(0, g)
    BY <2>1
  <2> QED
    BY <2>2
<1>2. ASSUME NEW n \in Nat, n \in G PROVE n + 1 \in G
  <2>1. PICK g : good(n, g)
    BY <1>2
  <2> DEFINE h == [s \in level(n + 1) |->
                     IF s = {} THEN base ELSE F[Some(s)][g[s \ {Some(s)}]]]
  <2>2. ASSUME NEW s \in level(n + 1), s # {}
        PROVE  /\ Some(s) \in s /\ s \ {Some(s)} \in level(n) /\ s \ {Some(s)} \in level(n + 1)
    <3>1. Some(s) \in s
      BY <2>2, SomeIn
    <3>2. Cardinality(s \ {Some(s)}) = Cardinality(s) - 1 /\ Cardinality(s) \in Nat
      BY <1>0, <3>1, FS_RemoveElement
    <3> QED
      BY <3>1, <3>2
  <2>3. level(n) \subseteq level(n + 1)
    BY <1>0
  <2>4. \A s \in level(n) : h[s] = g[s]
    BY <2>1, <2>3
  <2>5. h \in [level(n + 1) -> V]
    <3> SUFFICES ASSUME NEW s \in level(n + 1) PROVE h[s] \in V
      OBVIOUS
    <3>1. CASE s = {}
      BY <3>1
    <3>2. CASE s # {}
      <4>1. Some(s) \in S /\ g[s \ {Some(s)}] \in V
        BY <2>1, <2>2, <3>2
      <4> QED
        BY <3>2, <4>1
    <3> QED
      BY <3>1, <3>2
  <2>6. ASSUME NEW s \in level(n + 1)
        PROVE  h[s] = IF s = {} THEN base ELSE F[Some(s)][h[s \ {Some(s)}]]
    <3>1. CASE s # {}
      <4>1. h[s \ {Some(s)}] = g[s \ {Some(s)}]
        BY <2>2, <2>4, <3>1
      <4>2. h[s] = F[Some(s)][g[s \ {Some(s)}]]
        BY <3>1
      <4> HIDE DEF h
      <4> QED
        BY <3>1, <4>1, <4>2
    <3> QED
      BY <3>1
  <2> HIDE DEF h
  <2>7. good(n + 1, h)
    BY <2>5, <2>6
  <2>8. \E x : good(n + 1, x)
    BY <2>7, Zenon
  <2> QED
    BY <2>8, n + 1 \in Nat, Zenon
<1> HIDE DEF G
<1>3. Nat \subseteq G
  BY <1>1, <1>2, NatSetInduction
<1>4. Cardinality(S) \in Nat
  BY FS_CardinalityType
<1>5. PICK g : good(Cardinality(S), g)
  BY <1>3, <1>4 DEF G
<1>6. level(Cardinality(S)) = SUBSET S
  BY FS_Subset
<1>7. IsFold(g, S, V, base, F)
  BY <1>5, <1>6 DEF IsFold
<1> QED
  BY <1>7

-----------------------------------------------------------------------------
(* Sums *)

LEMMA SumIs ==
  ASSUME NEW S, IsFiniteSet(S), NEW f \in [S -> Int], NEW g \in [SUBSET S -> Int],
         \A s \in SUBSET S : g[s] = IF s = {} THEN 0 ELSE f[Some(s)] + g[s \ {Some(s)}]
  PROVE  \A T \in SUBSET S : SumFunctionOnSet(f, T) = g[T]
<1> SUFFICES ASSUME NEW T \in SUBSET S PROVE SumFunctionOnSet(f, T) = g[T]
  OBVIOUS
<1> DEFINE iter[s \in SUBSET T] ==
             IF s = {} THEN 0
             ELSE LET x == CHOOSE x \in s : TRUE IN f[x] + iter[s \ {x}]
           body(i) == [s \in SUBSET T |->
             IF s = {} THEN 0
             ELSE LET x == CHOOSE x \in s : TRUE IN f[x] + i[s \ {x}]]
<1>1. SumFunctionOnSet(f, T) = iter[T]
  BY DEF SumFunctionOnSet, FoldFunctionOnSet, MapThenFoldSet
<1>2. iter = body(iter)
  <2> SUFFICES \E i : i = body(i)
    OBVIOUS
  <2> DEFINE h == [s \in SUBSET T |-> g[s]]
  <2>1. ASSUME NEW s \in SUBSET T PROVE h[s] = body(h)[s]
    <3>1. s \in SUBSET S /\ (s # {} => Some(s) \in s)
      BY SomeIn
    <3>2. CASE s = {}
      BY <3>1, <3>2
    <3>3. CASE s # {}
      BY <3>1, <3>3 DEF Some
    <3> QED
      BY <3>2, <3>3
  <2>2. h = body(h)
    BY <2>1
  <2> QED
    BY <2>2, Zenon
<1> HIDE DEF iter
<1> DEFINE same == {s \in SUBSET T : iter[s] = g[s]}
<1>3. ASSUME NEW s \in SUBSET T, \A u \in SUBSET s : u # s => u \in same
      PROVE  s \in same
  <2>1. s \in SUBSET S /\ (s # {} => Some(s) \in s)
    BY SomeIn
  <2>2. iter[s] = IF s = {} THEN 0 ELSE f[Some(s)] + iter[s \ {Some(s)}]
    BY <1>2 DEF Some
  <2>3. CASE s = {}
    BY <2>1, <2>2, <2>3
  <2>4. CASE s # {}
    <3>1. s \ {Some(s)} \in same
      BY <1>3, <2>1, <2>4
    <3> QED
      BY <2>1, <2>2, <2>4, <3>1
  <2> QED
    BY <2>3, <2>4
<1>4. IsFiniteSet(T)
  BY FS_Subset
<1> HIDE DEF same
<1>5. SUBSET T \subseteq same
  BY <1>3, <1>4, SubsetInduction
<1> QED
  BY <1>1, <1>5 DEF same

\* A sum is an integer, zero over nothing, and any element may be taken out of it.
LEMMA SumFacts ==
  ASSUME NEW S, IsFiniteSet(S), NEW f \in [S -> Int]
  PROVE  /\ SumFunctionOnSet(f, {}) = 0
         /\ \A T \in SUBSET S :
              /\ SumFunctionOnSet(f, T) \in Int
              /\ \A x \in T : SumFunctionOnSet(f, T) = f[x] + SumFunctionOnSet(f, T \ {x})
<1> DEFINE F == [x \in S |-> [v \in Int |-> f[x] + v]]
           sum(T) == SumFunctionOnSet(f, T)
<1>1. F \in [S -> [Int -> Int]]
  OBVIOUS
<1>2. PICK g : IsFold(g, S, Int, 0, F)
  <2> DEFINE zero == 0
  <2>1. zero \in Int
    OBVIOUS
  <2> HIDE DEF F, zero
  <2>2. \E g : IsFold(g, S, Int, zero, F)
    BY <1>1, <2>1, FoldExists
  <2> QED
    BY <2>2 DEF zero
<1>3. ASSUME NEW s \in SUBSET S
      PROVE  g[s] = IF s = {} THEN 0 ELSE f[Some(s)] + g[s \ {Some(s)}]
  <2>1. s # {} => Some(s) \in S /\ s \ {Some(s)} \in SUBSET S
    BY SomeIn
  <2> QED
    BY <1>2, <2>1 DEF IsFold
<1>4. \A T \in SUBSET S : sum(T) = g[T]
  <2>1. g \in [SUBSET S -> Int]
    BY <1>2 DEF IsFold
  <2> QED
    BY <1>3, <2>1, SumIs
<1> HIDE DEF sum
<1>5. sum({}) = 0 /\ \A T \in SUBSET S : sum(T) \in Int
  <2>1. g \in [SUBSET S -> Int] /\ {} \in SUBSET S
    BY <1>2 DEF IsFold
  <2>2. g[{}] = 0
    BY <1>3, <2>1
  <2> QED
    BY <1>4, <2>1, <2>2
<1>6. ASSUME NEW T \in SUBSET S, T # {}
      PROVE  /\ Some(T) \in T /\ sum(T) = f[Some(T)] + sum(T \ {Some(T)})
  BY <1>3, <1>4, <1>6, SomeIn
<1> DEFINE good == {T \in SUBSET S : \A x \in T : sum(T) = f[x] + sum(T \ {x})}
<1>7. ASSUME NEW T \in SUBSET S, \A U \in SUBSET T : U # T => U \in good
      PROVE  T \in good
  <2> SUFFICES ASSUME NEW x \in T PROVE sum(T) = f[x] + sum(T \ {x})
    OBVIOUS
  <2> DEFINE y == Some(T)
  <2>1. y \in T /\ sum(T) = f[y] + sum(T \ {y})
    BY <1>6
  <2>2. CASE x = y
    BY <2>1, <2>2
  <2>3. CASE x # y
    <3> HIDE DEF y
    <3>1. sum(T \ {y}) = f[x] + sum((T \ {y}) \ {x})
      BY <1>7, <2>1, <2>3
    <3>2. sum(T \ {x}) = f[y] + sum((T \ {x}) \ {y})
      BY <1>7, <2>1, <2>3
    <3>3. sum((T \ {x}) \ {y}) = sum((T \ {y}) \ {x})
      <4>1. (T \ {x}) \ {y} = (T \ {y}) \ {x}
        OBVIOUS
      <4> QED
        BY <4>1
    <3>4. sum((T \ {y}) \ {x}) \in Int /\ f[x] \in Int /\ f[y] \in Int
      BY <1>5, <2>1
    <3> HIDE DEF sum
    <3> QED
      BY <2>1, <3>1, <3>2, <3>3, <3>4
  <2> QED
    BY <2>2, <2>3
<1> HIDE DEF good
<1>8. SUBSET S \subseteq good
  BY <1>7, SubsetInduction
<1> QED
  BY <1>5, <1>8 DEF good, sum

\* Sums are monotone, and only the values count that are added.
LEMMA SumMonotone ==
  ASSUME NEW S, IsFiniteSet(S), NEW f \in [S -> Int], NEW g \in [S -> Int],
         \A x \in S : f[x] <= g[x]
  PROVE  \A T \in SUBSET S : SumFunctionOnSet(f, T) <= SumFunctionOnSet(g, T)
<1> DEFINE good == {T \in SUBSET S : SumFunctionOnSet(f, T) <= SumFunctionOnSet(g, T)}
<1>1. {} \in good
  BY SumFacts
<1>2. ASSUME NEW T \in SUBSET S, T # {} PROVE \E x \in T : T \ {x} \in good => T \in good
  <2>1. PICK x \in T : TRUE
    BY <1>2
  <2>2. ASSUME T \ {x} \in good PROVE T \in good
    <3>1. /\ SumFunctionOnSet(f, T) = f[x] + SumFunctionOnSet(f, T \ {x})
          /\ SumFunctionOnSet(f, T \ {x}) \in Int /\ f[x] \in Int
      BY SumFacts
    <3>2. /\ SumFunctionOnSet(g, T) = g[x] + SumFunctionOnSet(g, T \ {x})
          /\ SumFunctionOnSet(g, T \ {x}) \in Int /\ g[x] \in Int
      BY SumFacts
    <3> QED
      BY <2>2, <3>1, <3>2
  <2> QED
    BY <2>2
<1> HIDE DEF good
<1>3. SUBSET S \subseteq good
  BY <1>1, <1>2, ElementInduction
<1> QED
  BY <1>3 DEF good

LEMMA SumCongruent ==
  ASSUME NEW S, IsFiniteSet(S), NEW f \in [S -> Int], NEW g \in [S -> Int],
         \A x \in S : f[x] = g[x]
  PROVE  f = g /\ \A T \in SUBSET S : SumFunctionOnSet(f, T) = SumFunctionOnSet(g, T)
  OBVIOUS

\* A sum of natural numbers is one, at least each of them, and zero only if all are.
LEMMA SumOfNaturals ==
  ASSUME NEW S, IsFiniteSet(S), NEW f \in [S -> Nat]
  PROVE  \A T \in SUBSET S :
           /\ SumFunctionOnSet(f, T) \in Nat
           /\ \A x \in T : f[x] <= SumFunctionOnSet(f, T)
<1> DEFINE good == {T \in SUBSET S : SumFunctionOnSet(f, T) \in Nat}
<1>1. f \in [S -> Int]
  OBVIOUS
<1>2. {} \in good
  BY <1>1, SumFacts
<1>3. ASSUME NEW T \in SUBSET S, T # {} PROVE \E x \in T : T \ {x} \in good => T \in good
  <2>1. PICK x \in T : TRUE
    BY <1>3
  <2>2. SumFunctionOnSet(f, T) = f[x] + SumFunctionOnSet(f, T \ {x})
    BY <1>1, SumFacts
  <2> QED
    BY <2>2
<1> HIDE DEF good
<1>4. SUBSET S \subseteq good
  BY <1>2, <1>3, ElementInduction
<1>5. ASSUME NEW T \in SUBSET S, NEW x \in T
      PROVE  f[x] <= SumFunctionOnSet(f, T)
  <2>1. SumFunctionOnSet(f, T) = f[x] + SumFunctionOnSet(f, T \ {x})
    BY <1>1, SumFacts
  <2>2. SumFunctionOnSet(f, T \ {x}) \in Nat /\ f[x] \in Nat
    BY <1>4 DEF good
  <2> QED
    BY <2>1, <2>2
<1> QED
  BY <1>4, <1>5 DEF good

\* A sum depends on the values alone that are added.
LEMMA SumRestricted ==
  ASSUME NEW S, IsFiniteSet(S), NEW f \in [S -> Int], NEW T \in SUBSET S
  PROVE  SumFunction([x \in T |-> f[x]]) = SumFunctionOnSet(f, T)
<1> DEFINE part == [x \in T |-> f[x]]
           sum == [U \in SUBSET T |-> SumFunctionOnSet(f, U)]
<1>1. part \in [T -> Int] /\ DOMAIN part = T
  OBVIOUS
<1>2. sum \in [SUBSET T -> Int]
  BY SumFacts
<1>3. ASSUME NEW U \in SUBSET T
      PROVE  sum[U] = IF U = {} THEN 0 ELSE part[Some(U)] + sum[U \ {Some(U)}]
  <2>1. CASE U = {}
    BY <2>1, SumFacts
  <2>2. CASE U # {}
    <3>1. Some(U) \in U /\ U \in SUBSET S /\ U \ {Some(U)} \in SUBSET T
      BY <2>2, SomeIn
    <3>2. SumFunctionOnSet(f, U) = f[Some(U)] + SumFunctionOnSet(f, U \ {Some(U)})
      BY <3>1, SumFacts
    <3> QED
      BY <2>2, <3>1, <3>2
  <2> QED
    BY <2>1, <2>2
<1>4. IsFiniteSet(T) /\ T \in SUBSET T
  BY FS_Subset
<1>5. sum[T] = SumFunctionOnSet(f, T)
  OBVIOUS
<1> HIDE DEF part, sum
<1>6. \A U \in SUBSET T : SumFunctionOnSet(part, U) = sum[U]
  <2>1. /\ IsFiniteSet(T) /\ part \in [T -> Int] /\ sum \in [SUBSET T -> Int]
        /\ \A U \in SUBSET T : sum[U] = IF U = {} THEN 0 ELSE part[Some(U)] + sum[U \ {Some(U)}]
    BY <1>1, <1>2, <1>3, <1>4
  <2> QED
    BY ONLY <2>1, SumIs, SMTT(60)
<1> QED
  BY <1>1, <1>4, <1>5, <1>6 DEF SumFunction, part

LEMMA SumOfAll ==
  ASSUME NEW S, IsFiniteSet(S), NEW f \in [S -> Nat]
  PROVE  SumFunction(f) \in Nat /\ \A x \in S : f[x] <= SumFunction(f)
<1>1. SumFunction(f) = SumFunctionOnSet(f, S)
  BY DEF SumFunction
<1> QED
  BY <1>1, SumOfNaturals

LEMMA Square ==
  ASSUME NEW x \in Int
  PROVE  x * x \in Nat /\ (x > 0 => x * x > 0)
<1>1. CASE x >= 0
  BY <1>1
<1>2. CASE x < 0
  <2>1. x * x = (-x) * (-x)
    BY <1>2
  <2>2. -x \in Nat
    BY <1>2
  <2> QED
    BY <1>2, <2>1, <2>2
<1> QED
  BY <1>1, <1>2

LEMMA Products ==
  ASSUME NEW a \in Nat, NEW b \in Nat
  PROVE  a * b \in Nat /\ (a > 0 /\ b > 0 => a * b > 0)
  BY SMT

\* A sum grows with the set it is over, by nothing if what is added is zero.
LEMMA SumExtended ==
  ASSUME NEW S, IsFiniteSet(S), NEW f \in [S -> Nat], NEW T \in SUBSET S
  PROVE  /\ SumFunctionOnSet(f, T) <= SumFunctionOnSet(f, S)
         /\ (\A x \in S \ T : f[x] = 0) => SumFunctionOnSet(f, T) = SumFunctionOnSet(f, S)
<1> DEFINE sum(V) == SumFunctionOnSet(f, V)
           nought == \A x \in S \ T : f[x] = 0
           good == {U \in SUBSET (S \ T) : sum(T) <= sum(T \cup U)
                                           /\ (nought => sum(T) = sum(T \cup U))}
<1>1. IsFiniteSet(S \ T) /\ f \in [S -> Int]
  BY FS_Subset
<1>2. \A V \in SUBSET S : sum(V) \in Int /\ \A x \in V : sum(V) = f[x] + sum(V \ {x})
  BY <1>1, SumFacts
<1>3. {} \in good
  <2>1. T \cup {} = T
    OBVIOUS
  <2>2. sum(T \cup {}) = sum(T) /\ sum(T) \in Int
    BY <1>2, <2>1
  <2> HIDE DEF sum
  <2> QED
    BY <2>2
<1>4. ASSUME NEW U \in SUBSET (S \ T), U # {} PROVE \E x \in U : U \ {x} \in good => U \in good
  <2>1. PICK x \in U : TRUE
    BY <1>4
  <2>2. ASSUME U \ {x} \in good PROVE U \in good
    <3>1. (T \cup U) \ {x} = T \cup (U \ {x})
      OBVIOUS
    <3>2. sum((T \cup U) \ {x}) = sum(T \cup (U \ {x}))
      BY <3>1
    <3>3. sum(T \cup U) = f[x] + sum((T \cup U) \ {x}) /\ sum((T \cup U) \ {x}) \in Int /\ sum(T) \in Int
      <4>1. T \cup U \in SUBSET S /\ (T \cup U) \ {x} \in SUBSET S /\ x \in T \cup U
        OBVIOUS
      <4> HIDE DEF sum
      <4> QED
        BY <1>2, <4>1
    <3>4. f[x] \in Nat /\ (nought => f[x] = 0)
      OBVIOUS
    <3>5. sum(T) <= sum(T \cup (U \ {x})) /\ (nought => sum(T) = sum(T \cup (U \ {x})))
      BY <2>2
    <3> HIDE DEF sum, nought
    <3>6. sum(T) <= sum(T \cup U) /\ (nought => sum(T) = sum(T \cup U))
      BY <3>2, <3>3, <3>4, <3>5
    <3> QED
      BY <3>6
  <2> QED
    BY <2>2
<1> HIDE DEF good
<1>5. SUBSET (S \ T) \subseteq good
  <2> DEFINE R == S \ T
  <2>1. /\ IsFiniteSet(R) /\ {} \in good
        /\ \A U \in SUBSET R : U # {} => \E x \in U : U \ {x} \in good => U \in good
    BY <1>1, <1>3, <1>4
  <2> HIDE DEF R
  <2>2. SUBSET R \subseteq good
    BY ONLY <2>1, ElementInduction
  <2> QED
    BY <2>2 DEF R
<1>6. S \ T \in good /\ T \cup (S \ T) = S
  BY <1>5
<1>7. sum(T) <= sum(T \cup (S \ T)) /\ (nought => sum(T) = sum(T \cup (S \ T)))
  BY <1>6 DEF good
<1>8. sum(T \cup (S \ T)) = sum(S)
  BY <1>6
<1> HIDE DEF sum, nought
<1>9. sum(T) <= sum(S) /\ (nought => sum(T) = sum(S))
  BY <1>7, <1>8
<1> QED
  BY <1>9 DEF sum, nought

\* A sum over a set is the sum over a greater one of a function that is zero outside.
LEMMA SumPadded ==
  ASSUME NEW U, IsFiniteSet(U), NEW f \in [U -> Nat], NEW T \in SUBSET U,
         \A x \in U \ T : f[x] = 0
  PROVE  SumFunction([x \in T |-> f[x]]) = SumFunctionOnSet(f, U)
<1>1. f \in [U -> Int]
  OBVIOUS
<1>2. SumFunction([x \in T |-> f[x]]) = SumFunctionOnSet(f, T)
  BY <1>1, SumRestricted
<1>3. SumFunctionOnSet(f, T) = SumFunctionOnSet(f, U)
  BY SumExtended
<1> QED
  BY <1>2, <1>3

\* Sums of smaller values are equal only if the values are.
LEMMA SumEqual ==
  ASSUME NEW S, IsFiniteSet(S), NEW f \in [S -> Int], NEW g \in [S -> Int],
         \A x \in S : f[x] <= g[x],
         SumFunctionOnSet(f, S) = SumFunctionOnSet(g, S)
  PROVE  \A x \in S : f[x] = g[x]
<1> SUFFICES ASSUME NEW x \in S PROVE f[x] = g[x]
  OBVIOUS
<1>1. /\ SumFunctionOnSet(f, S) = f[x] + SumFunctionOnSet(f, S \ {x})
      /\ SumFunctionOnSet(f, S \ {x}) \in Int /\ f[x] \in Int
  BY SumFacts
<1>2. /\ SumFunctionOnSet(g, S) = g[x] + SumFunctionOnSet(g, S \ {x})
      /\ SumFunctionOnSet(g, S \ {x}) \in Int /\ g[x] \in Int
  BY SumFacts
<1>3. SumFunctionOnSet(f, S \ {x}) <= SumFunctionOnSet(g, S \ {x})
  BY SumMonotone
<1>4. f[x] <= g[x] /\ SumFunctionOnSet(f, S) = SumFunctionOnSet(g, S)
  OBVIOUS
<1> DEFINE a == SumFunctionOnSet(f, S \ {x})
           b == SumFunctionOnSet(g, S \ {x})
           c == f[x]
           d == g[x]
<1>5. /\ a \in Int /\ b \in Int /\ c \in Int /\ d \in Int
      /\ a <= b /\ c <= d /\ c + a = d + b
  BY <1>1, <1>2, <1>3, <1>4
<1> HIDE DEF a, b, c, d
<1>6. c = d
  BY <1>5
<1> QED
  BY <1>6 DEF c, d

LEMMA SumScaled ==
  ASSUME NEW S, IsFiniteSet(S), NEW f \in [S -> Int], NEW n \in Int
  PROVE  \A T \in SUBSET S :
           SumFunctionOnSet([x \in S |-> f[x] * n], T) = SumFunctionOnSet(f, T) * n
<1> DEFINE h == [x \in S |-> f[x] * n]
           good == {T \in SUBSET S : SumFunctionOnSet(h, T) = SumFunctionOnSet(f, T) * n}
<1>1. h \in [S -> Int] /\ \A x \in S : h[x] = f[x] * n /\ f[x] \in Int
  OBVIOUS
<1> HIDE DEF h
<1>2. {} \in good
  <2>1. SumFunctionOnSet(h, {}) = 0 /\ SumFunctionOnSet(f, {}) = 0
    BY <1>1, SumFacts
  <2> QED
    BY <2>1
<1>3. ASSUME NEW T \in SUBSET S, T # {} PROVE \E x \in T : T \ {x} \in good => T \in good
  <2>1. PICK x \in T : TRUE
    BY <1>3
  <2>2. ASSUME T \ {x} \in good PROVE T \in good
    <3> DEFINE a == SumFunctionOnSet(f, T \ {x})
               b == SumFunctionOnSet(h, T \ {x})
               c == f[x]
    <3>1. SumFunctionOnSet(f, T) = c + a /\ a \in Int /\ c \in Int
      BY SumFacts
    <3>2. SumFunctionOnSet(h, T) = c * n + b
      BY <1>1, SumFacts
    <3>3. b = a * n
      BY <2>2
    <3> HIDE DEF a, b, c
    <3>4. (c + a) * n = c * n + a * n
      BY <3>1
    <3>5. SumFunctionOnSet(h, T) = SumFunctionOnSet(f, T) * n
      BY <3>1, <3>2, <3>3, <3>4
    <3> QED
      BY <3>5
  <2> QED
    BY <2>2
<1> HIDE DEF good
<1>4. SUBSET S \subseteq good
  BY <1>2, <1>3, ElementInduction
<1> QED
  BY <1>4 DEF good, h

\* One more term on either side of the inequality of Cauchy and Schwarz.
LEMMA CauchySchwarzStep ==
  ASSUME NEW A \in Nat, NEW Q \in Nat, NEW D \in Nat, NEW a \in Nat, NEW b \in Nat,
         D * D <= A * Q
  PROVE  (a * b + D) * (a * b + D) <= (a * a + A) * (b * b + Q)
<1> DEFINE u == A * (b * b)
           v == (a * a) * Q
           w == a * b * D
<1>1. u \in Nat /\ v \in Nat /\ w \in Nat
  <2>1. a * a \in Nat /\ b * b \in Nat /\ a * b \in Nat
    BY Products
  <2> QED
    BY <2>1, Products
<1>2. w * w <= u * v
  <2> DEFINE p == D * D
             q == A * Q
             r == (a * b) * (a * b)
  <2>1. p \in Nat /\ q \in Nat /\ r \in Nat /\ p <= q
    <3>1. a * b \in Nat
      BY Products
    <3> QED
      BY <3>1, Products
  <2>2. w * w = p * r
    OBVIOUS
  <2>3. u * v = q * r
    OBVIOUS
  <2> HIDE DEF p, q, r, u, v, w
  <2>4. p * r <= q * r
    BY <2>1
  <2> QED
    BY <2>2, <2>3, <2>4
<1>3. 2 * w <= u + v
  <2> SUFFICES ASSUME u + v < 2 * w PROVE FALSE
    BY <1>1
  <2> HIDE DEF u, v, w
  <2>1. (u + v) * (u + v) < (2 * w) * (2 * w)
    BY <1>1
  <2>2. (u - v) * (u - v) \in Nat
    BY <1>1, Square
  <2>3. (u + v) * (u + v) = (u - v) * (u - v) + 4 * (u * v)
    BY <1>1
  <2>4. (2 * w) * (2 * w) = 4 * (w * w)
    BY <1>1
  <2> DEFINE x == u * v
             y == w * w
             z == (u - v) * (u - v)
  <2>5. x \in Nat /\ y \in Nat /\ z \in Nat /\ y <= x /\ z + 4 * x < 4 * y
    BY <1>1, <1>2, <2>1, <2>2, <2>3, <2>4, Products
  <2> HIDE DEF x, y, z
  <2> QED
    BY <2>5
<1>4. (a * b + D) * (a * b + D) = (a * a) * (b * b) + 2 * w + D * D
  OBVIOUS
<1>5. (a * a + A) * (b * b + Q) = (a * a) * (b * b) + (u + v) + A * Q
  OBVIOUS
<1> DEFINE s == (a * a) * (b * b)
           dd == D * D
           aq == A * Q
<1>6. s \in Int /\ dd \in Int /\ aq \in Int /\ dd <= aq
  OBVIOUS
<1>7. s + 2 * w + dd <= s + (u + v) + aq
  <2> HIDE DEF s, dd, aq, u, v, w
  <2> QED
    BY <1>1, <1>3, <1>6
<1> QED
  BY <1>4, <1>5, <1>7

LEMMA CauchySchwarz ==
  ASSUME NEW S, IsFiniteSet(S), NEW f \in [S -> Nat], NEW g \in [S -> Nat]
  PROVE  LET dot == SumFunctionOnSet([x \in S |-> f[x] * g[x]], S)
         IN  dot * dot <= SumFunctionOnSet([x \in S |-> f[x] * f[x]], S)
                            * SumFunctionOnSet([x \in S |-> g[x] * g[x]], S)
<1> DEFINE fg == [x \in S |-> f[x] * g[x]]
           ff == [x \in S |-> f[x] * f[x]]
           gg == [x \in S |-> g[x] * g[x]]
           dot(T) == SumFunctionOnSet(fg, T)
           good == {T \in SUBSET S : dot(T) * dot(T) <= SumFunctionOnSet(ff, T) * SumFunctionOnSet(gg, T)}
<1>1. \A x \in S : /\ f[x] \in Nat /\ g[x] \in Nat
                   /\ fg[x] = f[x] * g[x] /\ ff[x] = f[x] * f[x] /\ gg[x] = g[x] * g[x]
  OBVIOUS
<1>2. /\ fg \in [S -> Nat] /\ ff \in [S -> Nat] /\ gg \in [S -> Nat]
      /\ fg \in [S -> Int] /\ ff \in [S -> Int] /\ gg \in [S -> Int]
  <2>1. \A x \in S : f[x] * g[x] \in Nat /\ f[x] * f[x] \in Nat /\ g[x] * g[x] \in Nat
    BY Products
  <2> QED
    BY <2>1
<1> HIDE DEF fg, ff, gg
<1>3. {} \in good
  <2>1. dot({}) = 0 /\ SumFunctionOnSet(ff, {}) = 0 /\ SumFunctionOnSet(gg, {}) = 0
    BY <1>2, SumFacts
  <2> QED
    BY <2>1
<1>4. ASSUME NEW T \in SUBSET S, T # {} PROVE \E x \in T : T \ {x} \in good => T \in good
  <2>1. PICK x \in T : TRUE
    BY <1>4
  <2>2. ASSUME T \ {x} \in good PROVE T \in good
    <3> DEFINE R == T \ {x}
               A == SumFunctionOnSet(ff, R)
               Q == SumFunctionOnSet(gg, R)
               D == dot(R)
               a == f[x]
               b == g[x]
    <3>0. R \in SUBSET S /\ T \in SUBSET S /\ x \in T /\ R = T \ {x}
      OBVIOUS
    <3> HIDE DEF R
    <3>1. A \in Nat /\ Q \in Nat /\ D \in Nat /\ a \in Nat /\ b \in Nat
      BY <1>1, <1>2, <3>0, SumOfNaturals
    <3>2. D * D <= A * Q
      BY <2>2, <3>0
    <3>3. dot(T) = a * b + D
      <4>1. SumFunctionOnSet(fg, T) = fg[x] + SumFunctionOnSet(fg, T \ {x})
        BY <1>2, SumFacts
      <4> QED
        BY <1>1, <3>0, <4>1
    <3>4. SumFunctionOnSet(ff, T) = a * a + A
      <4>1. SumFunctionOnSet(ff, T) = ff[x] + SumFunctionOnSet(ff, T \ {x})
        BY <1>2, SumFacts
      <4> QED
        BY <1>1, <3>0, <4>1
    <3>5. SumFunctionOnSet(gg, T) = b * b + Q
      <4>1. SumFunctionOnSet(gg, T) = gg[x] + SumFunctionOnSet(gg, T \ {x})
        BY <1>2, SumFacts
      <4> QED
        BY <1>1, <3>0, <4>1
    <3> HIDE DEF A, Q, D, a, b, dot
    <3>6. (a * b + D) * (a * b + D) <= (a * a + A) * (b * b + Q)
      BY <3>1, <3>2, CauchySchwarzStep
    <3>7. dot(T) * dot(T) <= SumFunctionOnSet(ff, T) * SumFunctionOnSet(gg, T)
      BY <3>3, <3>4, <3>5, <3>6
    <3> QED
      BY <3>7
  <2> QED
    BY <2>2
<1> HIDE DEF good
<1>5. SUBSET S \subseteq good
  BY <1>3, <1>4, ElementInduction
<1> QED
  BY <1>5 DEF good, fg, ff, gg

-----------------------------------------------------------------------------
(* Greatest and least elements, and products                               *)

LEMMA MaxIn ==
  ASSUME NEW S, IsFiniteSet(S), S \subseteq Int, S # {}
  PROVE  Max(S) \in S /\ \A x \in S : x <= Max(S)
<1> DEFINE good == {T \in SUBSET S : T = {} \/ \E m \in T : \A x \in T : m >= x}
<1>1. {} \in good
  OBVIOUS
<1>2. ASSUME NEW T \in SUBSET S, T # {} PROVE \E x \in T : T \ {x} \in good => T \in good
  <2>1. PICK x \in T : TRUE
    BY <1>2
  <2>2. ASSUME T \ {x} \in good PROVE \E m \in T : \A y \in T : m >= y
    <3>1. CASE T \ {x} = {}
      <4>1. \A y \in T : y = x
        BY <3>1
      <4> QED
        BY <2>1, <4>1
    <3>2. CASE T \ {x} # {}
      <4>1. PICK m \in T \ {x} : \A y \in T \ {x} : m >= y
        BY <2>2, <3>2
      <4>2. CASE m >= x
        BY <4>1, <4>2
      <4>3. CASE x >= m
        <5>1. \A y \in T : x >= y
          BY <4>1, <4>3
        <5> QED
          BY <2>1, <5>1
      <4>4. m \in Int /\ x \in Int
        BY <2>1, <4>1
      <4> QED
        BY <4>2, <4>3, <4>4
    <3> QED
      BY <3>1, <3>2
  <2> QED
    BY <2>2
<1> HIDE DEF good
<1>3. SUBSET S \subseteq good
  BY <1>1, <1>2, ElementInduction
<1>4. \E m \in S : \A x \in S : m >= x
  BY <1>3 DEF good
<1>5. Max(S) \in S /\ \A x \in S : Max(S) >= x
  BY <1>4 DEF Max
<1> QED
  BY <1>5

LEMMA MinIn ==
  ASSUME NEW S, IsFiniteSet(S), S \subseteq Int, S # {}
  PROVE  Min(S) \in S /\ \A x \in S : Min(S) <= x
<1> DEFINE good == {T \in SUBSET S : T = {} \/ \E m \in T : \A x \in T : m <= x}
<1>1. {} \in good
  OBVIOUS
<1>2. ASSUME NEW T \in SUBSET S, T # {} PROVE \E x \in T : T \ {x} \in good => T \in good
  <2>1. PICK x \in T : TRUE
    BY <1>2
  <2>2. ASSUME T \ {x} \in good PROVE \E m \in T : \A y \in T : m <= y
    <3>1. CASE T \ {x} = {}
      <4>1. \A y \in T : y = x
        BY <3>1
      <4> QED
        BY <2>1, <4>1
    <3>2. CASE T \ {x} # {}
      <4>1. PICK m \in T \ {x} : \A y \in T \ {x} : m <= y
        BY <2>2, <3>2
      <4>2. CASE m <= x
        BY <4>1, <4>2
      <4>3. CASE x <= m
        <5>1. \A y \in T : x <= y
          BY <4>1, <4>3
        <5> QED
          BY <2>1, <5>1
      <4>4. m \in Int /\ x \in Int
        BY <2>1, <4>1
      <4> QED
        BY <4>2, <4>3, <4>4
    <3> QED
      BY <3>1, <3>2
  <2> QED
    BY <2>2
<1> HIDE DEF good
<1>3. SUBSET S \subseteq good
  BY <1>1, <1>2, ElementInduction
<1>4. \E m \in S : \A x \in S : m <= x
  BY <1>3 DEF good
<1> QED
  BY <1>4 DEF Min

\* As SumIs, SumFacts: a product of positive numbers is one, and any of them may
\* be taken out.
LEMMA ProductIs ==
  ASSUME NEW S, IsFiniteSet(S), S \subseteq Int, NEW g \in [SUBSET S -> Int],
         \A s \in SUBSET S : g[s] = IF s = {} THEN 1 ELSE Some(s) * g[s \ {Some(s)}]
  PROVE  \A T \in SUBSET S : ProductSet(T) = g[T]
<1> SUFFICES ASSUME NEW T \in SUBSET S PROVE ProductSet(T) = g[T]
  OBVIOUS
<1> DEFINE iter[s \in SUBSET T] ==
             IF s = {} THEN 1
             ELSE LET x == CHOOSE x \in s : TRUE IN x * iter[s \ {x}]
           body(i) == [s \in SUBSET T |->
             IF s = {} THEN 1
             ELSE LET x == CHOOSE x \in s : TRUE IN x * i[s \ {x}]]
<1>1. ProductSet(T) = iter[T]
  BY DEF ProductSet, FoldSet, MapThenFoldSet
<1>2. iter = body(iter)
  <2> SUFFICES \E i : i = body(i)
    OBVIOUS
  <2> DEFINE h == [s \in SUBSET T |-> g[s]]
  <2>1. ASSUME NEW s \in SUBSET T PROVE h[s] = body(h)[s]
    <3>1. s \in SUBSET S /\ (s # {} => Some(s) \in s)
      BY SomeIn
    <3>2. CASE s = {}
      BY <3>1, <3>2
    <3>3. CASE s # {}
      BY <3>1, <3>3 DEF Some
    <3> QED
      BY <3>2, <3>3
  <2>2. h = body(h)
    BY <2>1
  <2> QED
    BY <2>2, Zenon
<1> HIDE DEF iter
<1> DEFINE same == {s \in SUBSET T : iter[s] = g[s]}
<1>3. ASSUME NEW s \in SUBSET T, \A u \in SUBSET s : u # s => u \in same
      PROVE  s \in same
  <2>1. s \in SUBSET S /\ (s # {} => Some(s) \in s)
    BY SomeIn
  <2>2. iter[s] = IF s = {} THEN 1 ELSE Some(s) * iter[s \ {Some(s)}]
    BY <1>2 DEF Some
  <2>3. CASE s = {}
    BY <2>1, <2>2, <2>3
  <2>4. CASE s # {}
    <3>1. s \ {Some(s)} \in same
      BY <1>3, <2>1, <2>4
    <3> QED
      BY <2>1, <2>2, <2>4, <3>1
  <2> QED
    BY <2>3, <2>4
<1>4. IsFiniteSet(T)
  BY FS_Subset
<1> HIDE DEF same
<1>5. SUBSET T \subseteq same
  BY <1>3, <1>4, SubsetInduction
<1> QED
  BY <1>1, <1>5 DEF same

LEMMA ProductFacts ==
  ASSUME NEW S, IsFiniteSet(S), S \subseteq Nat \ {0}
  PROVE  \A T \in SUBSET S :
           /\ ProductSet(T) \in Nat \ {0}
           /\ \A x \in T : ProductSet(T) = x * ProductSet(T \ {x})
<1> DEFINE F == [x \in S |-> [v \in Nat \ {0} |-> x * v]]
           V == Nat \ {0}
<1>1. F \in [S -> [V -> V]]
  BY Products
<1>2. PICK g : IsFold(g, S, V, 1, F)
  <2> DEFINE one == 1
  <2>1. one \in V
    OBVIOUS
  <2> HIDE DEF F, one, V
  <2>2. \E g : IsFold(g, S, V, one, F)
    BY <1>1, <2>1, FoldExists
  <2> QED
    BY <2>2 DEF one
<1>3. g \in [SUBSET S -> V]
  BY <1>2 DEF IsFold
<1>4. ASSUME NEW s \in SUBSET S
      PROVE  g[s] = IF s = {} THEN 1 ELSE Some(s) * g[s \ {Some(s)}]
  <2>1. s # {} => Some(s) \in S /\ s \ {Some(s)} \in SUBSET S
    BY SomeIn
  <2> QED
    BY <1>2, <2>1 DEF IsFold
<1>5. \A T \in SUBSET S : ProductSet(T) = g[T]
  <2>1. g \in [SUBSET S -> Int] /\ S \subseteq Int
    BY <1>3
  <2> QED
    BY <1>4, <2>1, ProductIs
<1> DEFINE product(T) == ProductSet(T)
<1> HIDE DEF product
<1>6. \A T \in SUBSET S : product(T) \in Nat \ {0}
  BY <1>3, <1>5 DEF product
<1>7. ASSUME NEW T \in SUBSET S, T # {}
      PROVE  /\ Some(T) \in T /\ product(T) = Some(T) * product(T \ {Some(T)})
  BY <1>4, <1>5, <1>7, SomeIn DEF product
<1> DEFINE good == {T \in SUBSET S : \A x \in T : product(T) = x * product(T \ {x})}
<1>8. ASSUME NEW T \in SUBSET S, \A U \in SUBSET T : U # T => U \in good
      PROVE  T \in good
  <2> SUFFICES ASSUME NEW x \in T PROVE product(T) = x * product(T \ {x})
    OBVIOUS
  <2> DEFINE y == Some(T)
  <2>1. y \in T /\ product(T) = y * product(T \ {y})
    BY <1>7
  <2>2. CASE x = y
    BY <2>1, <2>2
  <2>3. CASE x # y
    <3> HIDE DEF y
    <3>1. product(T \ {y}) = x * product((T \ {y}) \ {x})
      BY <1>8, <2>1, <2>3
    <3>2. product(T \ {x}) = y * product((T \ {x}) \ {y})
      BY <1>8, <2>1, <2>3
    <3>3. (T \ {x}) \ {y} = (T \ {y}) \ {x}
      OBVIOUS
    <3> DEFINE rest == product((T \ {y}) \ {x})
    <3>4. rest \in Int /\ x \in Int /\ y \in Int
      BY <1>6, <2>1
    <3>5. product(T \ {y}) = x * rest /\ product(T \ {x}) = y * rest
      BY <3>1, <3>2, <3>3
    <3> HIDE DEF rest
    <3>6. y * (x * rest) = x * (y * rest)
      BY <3>4
    <3> QED
      BY <2>1, <3>5, <3>6
  <2> QED
    BY <2>2, <2>3
<1> HIDE DEF good
<1>9. SUBSET S \subseteq good
  BY <1>8, SubsetInduction
<1> QED
  BY <1>6, <1>9 DEF good, product

-----------------------------------------------------------------------------
(* Tables with rows of different lengths                                   *)

\* The places of a row are as many as it is long.
LEMMA RowSize ==
  ASSUME NEW n \in Nat
  PROVE  IsFiniteSet(1..n) /\ Cardinality(1..n) = n
<1>1. /\ IsFiniteSet(1..n)
      /\ Cardinality(1..n) = IF 1 > n THEN 0 ELSE n - 1 + 1
  BY FS_Interval
<1> QED
  BY <1>1

\* Cells of a table whose rows have the lengths of size.
Cells(K, size) == UNION {{k} \X (1..size[k]) : k \in K}

LEMMA CellsFinite ==
  ASSUME NEW K, IsFiniteSet(K), NEW size, \A k \in K : size[k] \in Nat
  PROVE  IsFiniteSet(Cells(K, size)) /\ Cardinality(Cells(K, size)) \in Nat
<1> DEFINE rows == {{k} \X (1..size[k]) : k \in K}
           row == [k \in K |-> {k} \X (1..size[k])]
<1>1. row \in Surjection(K, rows)
  BY DEF Surjection
<1>2. IsFiniteSet(rows)
  BY <1>1, FS_Surjection
<1>3. ASSUME NEW k \in K PROVE IsFiniteSet({k} \X (1..size[k]))
  <2>1. IsFiniteSet({k})
    BY FS_Singleton
  <2>2. IsFiniteSet(1..size[k])
    BY size[k] \in Nat, RowSize
  <2> QED
    BY <2>1, <2>2, FS_Product
<1>4. \A R \in rows : IsFiniteSet(R)
  BY <1>3
<1>5. IsFiniteSet(UNION rows)
  <2> HIDE DEF rows
  <2> QED
    BY <1>2, <1>4, FS_UNION
<1> QED
  BY <1>5, FS_CardinalityType DEF Cells

\* One row and all the others.
LEMMA CellsSplit ==
  ASSUME NEW K, IsFiniteSet(K), NEW size, \A k \in K : size[k] \in Nat, NEW k \in K
  PROVE  /\ Cardinality(Cells(K \ {k}, size)) \in Nat
         /\ Cardinality(Cells(K, size)) = Cardinality(Cells(K \ {k}, size)) + size[k]
<1> DEFINE row == {k} \X (1..size[k])
           others == Cells(K \ {k}, size)
<1>1. IsFiniteSet(K \ {k})
  BY FS_Difference
<1>2. IsFiniteSet(others) /\ Cardinality(others) \in Nat
  BY <1>1, CellsFinite
<1>3. IsFiniteSet(row) /\ Cardinality(row) = size[k]
  <2>1. IsFiniteSet({k}) /\ Cardinality({k}) = 1
    BY FS_Singleton
  <2>2. IsFiniteSet(1..size[k]) /\ Cardinality(1..size[k]) = size[k]
    BY size[k] \in Nat, RowSize
  <2>3. IsFiniteSet(row) /\ Cardinality(row) = 1 * size[k]
    BY <2>1, <2>2, FS_Product
  <2> QED
    BY <2>3
<1>4. Cells(K, size) = others \cup row
  BY DEF Cells
<1>5. others \cap row = {}
  BY DEF Cells
<1> HIDE DEF others, row
<1>6. Cardinality(others \cup row) = Cardinality(others) + Cardinality(row) - Cardinality({})
  BY <1>2, <1>3, <1>5, FS_Union
<1>7. Cardinality({}) = 0
  BY FS_EmptySet
<1>8. Cardinality(Cells(K, size)) = Cardinality(others) + size[k]
  BY <1>2, <1>3, <1>4, <1>6, <1>7
<1> QED
  BY <1>2, <1>8 DEF others

\* A row of another length.
LEMMA CellsPut ==
  ASSUME NEW K, IsFiniteSet(K), NEW old, NEW new, NEW k \in K,
         \A j \in K : old[j] \in Nat, \A j \in K : new[j] \in Nat,
         \A j \in K \ {k} : new[j] = old[j]
  PROVE  Cardinality(Cells(K, new)) = Cardinality(Cells(K, old)) - old[k] + new[k]
<1>1. Cells(K \ {k}, new) = Cells(K \ {k}, old)
  BY DEF Cells
<1>2. /\ Cardinality(Cells(K \ {k}, old)) \in Nat
      /\ Cardinality(Cells(K, old)) = Cardinality(Cells(K \ {k}, old)) + old[k]
      /\ Cardinality(Cells(K, new)) = Cardinality(Cells(K \ {k}, new)) + new[k]
  BY CellsSplit
<1> QED
  BY <1>1, <1>2

LEMMA CellsEmpty ==
  ASSUME NEW K, NEW size, \A k \in K : size[k] = 0
  PROVE  Cardinality(Cells(K, size)) = 0
<1>1. Cells(K, size) = {}
  BY DEF Cells
<1> QED
  BY <1>1, FS_EmptySet

-----------------------------------------------------------------------------
(* Fractions and ranked lists                                              *)

LEMMA Times ==
  ASSUME NEW a \in Int, NEW b \in Int, NEW n \in Nat \ {0}
  PROVE  /\ a <= b <=> a * n <= b * n
         /\ a < b <=> a * n < b * n
  BY SMT

LEMMA Chain ==
  ASSUME NEW a \in Int, NEW c \in Int, NEW e \in Int,
         NEW b \in Nat \ {0}, NEW d \in Nat \ {0}, NEW f \in Nat \ {0},
         a * d <= c * b, c * f <= e * d
  PROVE  /\ a * f <= e * b
         /\ a * d < c * b \/ c * f < e * d => a * f < e * b
<1>1. /\ a * d \in Int /\ c * b \in Int /\ c * f \in Int /\ e * d \in Int
      /\ a * f \in Int /\ e * b \in Int
  OBVIOUS
<1>2. (a * d) * f <= (c * b) * f /\ (a * d < c * b => (a * d) * f < (c * b) * f)
  BY <1>1, Times
<1>3. (c * f) * b <= (e * d) * b /\ (c * f < e * d => (c * f) * b < (e * d) * b)
  BY <1>1, Times
<1>4. /\ (a * d) * f = (a * f) * d
      /\ (c * b) * f = (c * f) * b
      /\ (e * d) * b = (e * b) * d
  OBVIOUS
<1>5. /\ (a * f) * d <= (e * b) * d
      /\ a * d < c * b \/ c * f < e * d => (a * f) * d < (e * b) * d
  <2> DEFINE p == (a * f) * d
             q == (c * f) * b
             r == (e * b) * d
  <2>1. p \in Int /\ q \in Int /\ r \in Int
    BY <1>1
  <2>2. p <= q /\ q <= r /\ (a * d < c * b => p < q) /\ (c * f < e * d => q < r)
    BY <1>2, <1>3, <1>4
  <2> HIDE DEF p, q, r
  <2>3. p <= r /\ (a * d < c * b \/ c * f < e * d => p < r)
    BY <2>1, <2>2
  <2> QED
    BY <2>3 DEF p, q, r
<1> QED
  BY <1>1, <1>5, Times

LEMMA FractionsOrdered ==
  ASSUME NEW x \in Fraction, NEW y \in Fraction, NEW z \in Fraction
  PROVE  /\ ~Less(x, x) /\ Same(x, x)
         /\ Less(x, y) => ~Less(y, x) /\ ~Same(x, y) /\ ~Same(y, x)
         /\ Less(x, y) \/ Less(y, x) \/ Same(x, y)
         /\ Same(x, y) => Same(y, x)
         /\ Less(x, y) /\ Less(y, z) => Less(x, z)
         /\ Less(x, y) /\ Same(y, z) => Less(x, z)
         /\ Same(x, y) /\ Less(y, z) => Less(x, z)
         /\ Same(x, y) /\ Same(y, z) => Same(x, z)
<1> DEFINE a == x[1]  b == x[2]  c == y[1]  d == y[2]  e == z[1]  f == z[2]
<1>1. /\ a \in Int /\ c \in Int /\ e \in Int
      /\ b \in Nat \ {0} /\ d \in Nat \ {0} /\ f \in Nat \ {0}
  BY DEF Fraction
<1>2. /\ Less(x, y) <=> a * d < c * b
      /\ Less(y, x) <=> c * b < a * d
      /\ Less(y, z) <=> c * f < e * d
      /\ Less(x, z) <=> a * f < e * b
      /\ Less(x, x) <=> a * b < a * b
      /\ Same(x, y) <=> a * d = c * b
      /\ Same(y, x) <=> c * b = a * d
      /\ Same(y, z) <=> c * f = e * d
      /\ Same(x, z) <=> a * f = e * b
      /\ Same(x, x)
  BY DEF Less, Same
<1> HIDE DEF a, b, c, d, e, f
<1>3. /\ a * d \in Int /\ c * b \in Int /\ a * f \in Int
      /\ e * b \in Int /\ c * f \in Int /\ e * d \in Int /\ a * b \in Int
  BY <1>1
<1>4. a * d <= c * b /\ c * f <= e * d
        => /\ a * f <= e * b
           /\ a * d < c * b \/ c * f < e * d => a * f < e * b
  BY <1>1, Chain
<1>5. e * d <= c * f /\ c * b <= a * d => e * b <= a * f
  BY <1>1, Chain
<1> QED
  BY <1>2, <1>3, <1>4, <1>5

\* The same of scores.
LEMMA ScoresOrdered ==
  ASSUME NEW x \in Score, NEW y \in Score, NEW z \in Score
  PROVE  /\ ~Less(x, x) /\ Same(x, x)
         /\ Less(x, y) => ~Less(y, x) /\ ~Same(x, y) /\ ~Same(y, x)
         /\ Less(x, y) \/ Less(y, x) \/ Same(x, y)
         /\ Same(x, y) => Same(y, x)
         /\ Less(x, y) /\ Less(y, z) => Less(x, z)
         /\ Less(x, y) /\ Same(y, z) => Less(x, z)
         /\ Same(x, y) /\ Less(y, z) => Less(x, z)
         /\ Same(x, y) /\ Same(y, z) => Same(x, z)
<1>1. ASSUME NEW s \in Fraction
      PROVE  /\ Less(s, Infinite) /\ ~Less(Infinite, s)
             /\ ~Same(s, Infinite) /\ ~Same(Infinite, s)
  <2> DEFINE a == s[1]
             b == s[2]
  <2>1. a \in Int /\ b \in Nat \ {0}
    BY DEF Fraction
  <2>2. /\ Less(s, Infinite) <=> a * 0 < 1 * b
        /\ Less(Infinite, s) <=> 1 * b < a * 0
        /\ Same(s, Infinite) <=> a * 0 = 1 * b
        /\ Same(Infinite, s) <=> 1 * b = a * 0
    BY DEF Less, Same, Infinite
  <2> HIDE DEF a, b
  <2> QED
    BY <2>1, <2>2
<1>2. ~Less(Infinite, Infinite) /\ Same(Infinite, Infinite)
  BY DEF Less, Same, Infinite
<1>3. /\ x \in Fraction \/ x = Infinite
      /\ y \in Fraction \/ y = Infinite
      /\ z \in Fraction \/ z = Infinite
  BY DEF Score
<1>4. CASE x \in Fraction /\ y \in Fraction /\ z \in Fraction
  BY <1>4, FractionsOrdered
<1>5. CASE ~(x \in Fraction /\ y \in Fraction /\ z \in Fraction)
  <2>1. ASSUME NEW u \in Fraction, NEW v \in Fraction
        PROVE  /\ ~Less(u, u) /\ Same(u, u)
               /\ Less(u, v) => ~Less(v, u) /\ ~Same(u, v) /\ ~Same(v, u)
               /\ Less(u, v) \/ Less(v, u) \/ Same(u, v)
               /\ Same(u, v) => Same(v, u)
    BY FractionsOrdered
  <2>2. CASE x = Infinite
    BY <1>1, <1>2, <1>3, <2>1, <2>2
  <2>3. CASE y = Infinite
    BY <1>1, <1>2, <1>3, <2>1, <2>3
  <2>4. CASE z = Infinite
    BY <1>1, <1>2, <1>3, <2>1, <2>4
  <2> QED
    BY <1>3, <1>5, <2>2, <2>3, <2>4
<1> QED
  BY <1>4, <1>5

\* Scores by key.
IsScore(score) ==
  /\ IsFiniteSet(DOMAIN score) /\ DOMAIN score \subseteq Int
  /\ \A k \in DOMAIN score : score[k] \in Score

LEMMA BeforeOrders ==
  ASSUME NEW score, IsScore(score),
         NEW i \in DOMAIN score, NEW j \in DOMAIN score, NEW k \in DOMAIN score
  PROVE  /\ ~Before(score, i, i)
         /\ i # j => Before(score, i, j) \/ Before(score, j, i)
         /\ Before(score, i, j) /\ Before(score, j, k) => Before(score, i, k)
<1> DEFINE x == score[i]  y == score[j]  z == score[k]
<1>1. /\ x \in Score /\ y \in Score /\ z \in Score
      /\ i \in Int /\ j \in Int /\ k \in Int
  BY DEF IsScore
<1>2. /\ Before(score, i, i) <=> Less(x, x) \/ (Same(x, x) /\ i < i)
      /\ Before(score, i, j) <=> Less(y, x) \/ (Same(x, y) /\ i < j)
      /\ Before(score, j, i) <=> Less(x, y) \/ (Same(y, x) /\ j < i)
      /\ Before(score, j, k) <=> Less(z, y) \/ (Same(y, z) /\ j < k)
      /\ Before(score, i, k) <=> Less(z, x) \/ (Same(x, z) /\ i < k)
  BY DEF Before
<1> HIDE DEF x, y, z
<1>3. /\ ~Less(x, x)
      /\ Less(x, y) \/ Less(y, x) \/ Same(x, y)
      /\ Same(x, y) => Same(y, x)
      /\ Same(x, y) /\ Same(y, z) => Same(x, z)
  BY <1>1, ScoresOrdered
<1>4. /\ Same(y, z) => Same(z, y)
      /\ Same(x, y) => Same(y, x)
      /\ Less(z, y) /\ Less(y, x) => Less(z, x)
      /\ Less(z, y) /\ Same(y, x) => Less(z, x)
      /\ Same(z, y) /\ Less(y, x) => Less(z, x)
  BY <1>1, ScoresOrdered
<1> QED
  BY <1>1, <1>2, <1>3, <1>4

\* The places are the numbers from one on, in the order of the scores.
LEMMA PlacesInOrder ==
  ASSUME NEW score, IsScore(score)
  PROVE  LET D == DOMAIN score
             n == Cardinality(D)
         IN  /\ n \in Nat
             /\ \A k \in D : Place(score, k) \in 1..n
             /\ \A j, k \in D : Before(score, j, k) => Place(score, j) < Place(score, k)
             /\ \A i \in 1..n : \E k \in D : Place(score, k) = i
<1> DEFINE D == DOMAIN score
           n == Cardinality(D)
           ahead(k) == {j \in D : Before(score, j, k)}
           P == [k \in D |-> Place(score, k)]
<1>1. IsFiniteSet(D) /\ n \in Nat
  BY FS_CardinalityType DEF IsScore
<1>2. \A k \in D : /\ IsFiniteSet(ahead(k)) /\ Cardinality(ahead(k)) \in Nat
                   /\ Place(score, k) = 1 + Cardinality(ahead(k))
  BY <1>1, FS_Subset, FS_CardinalityType DEF Place
<1>3. ASSUME NEW k \in D PROVE Place(score, k) \in 1..n
  <2>1. k \notin ahead(k)
    BY BeforeOrders
  <2>2. Cardinality(D \ {k}) = n - 1 /\ IsFiniteSet(D \ {k})
    BY <1>1, FS_RemoveElement
  <2>3. ahead(k) \in SUBSET (D \ {k})
    BY <2>1
  <2>4. Cardinality(ahead(k)) <= n - 1
    BY <2>2, <2>3, FS_Subset
  <2> QED
    BY <1>1, <1>2, <2>4
<1>4. ASSUME NEW j \in D, NEW k \in D, Before(score, j, k)
      PROVE  Place(score, j) < Place(score, k)
  <2>1. ahead(j) \in SUBSET ahead(k)
    BY <1>4, BeforeOrders
  <2>2. j \in ahead(k) /\ j \notin ahead(j)
    BY <1>4, BeforeOrders
  <2>3. /\ Cardinality(ahead(j)) <= Cardinality(ahead(k))
        /\ Cardinality(ahead(j)) # Cardinality(ahead(k))
    BY <1>2, <2>1, <2>2, FS_Subset
  <2>4. /\ Place(score, j) = 1 + Cardinality(ahead(j)) /\ Cardinality(ahead(j)) \in Nat
        /\ Place(score, k) = 1 + Cardinality(ahead(k)) /\ Cardinality(ahead(k)) \in Nat
    BY <1>2
  <2> HIDE DEF ahead
  <2> QED
    BY <2>3, <2>4
<1>5. P \in Injection(D, 1..n)
  <2>1. P \in [D -> 1..n]
    BY <1>3
  <2>2. \A j, k \in D : j # k => Place(score, j) # Place(score, k)
    <3> SUFFICES ASSUME NEW j \in D, NEW k \in D, j # k
                 PROVE  Place(score, j) # Place(score, k)
      OBVIOUS
    <3>1. Before(score, j, k) \/ Before(score, k, j)
      BY BeforeOrders
    <3>2. Place(score, j) \in Int /\ Place(score, k) \in Int
      BY <1>3
    <3>3. Place(score, j) < Place(score, k) \/ Place(score, k) < Place(score, j)
      BY <1>4, <3>1
    <3> QED
      BY <3>2, <3>3
  <2> QED
    BY <2>1, <2>2 DEF Injection, IsInjective
<1>6. IsFiniteSet(1..n) /\ Cardinality(1..n) = n
  BY <1>1, FS_Interval
<1>7. P \in Surjection(D, 1..n)
  BY <1>1, <1>5, <1>6, FS_Injection
<1>8. \A i \in 1..n : \E k \in D : Place(score, k) = i
  BY <1>7 DEF Surjection
<1> QED
  BY <1>1, <1>3, <1>4, <1>8

\* A ranked list has every key once, and a key before another if its score says so.
LEMMA RankedList ==
  ASSUME NEW score, IsScore(score)
  PROVE  LET D == DOMAIN score
             n == Cardinality(D)
             list == Ranked(score)
         IN  /\ n \in Nat /\ list \in [1..n -> D] /\ list \in Seq(D) /\ Len(list) = n
             /\ KeysOf(list) = D
             /\ \A i \in 1..n : Place(score, list[i]) = i
             /\ \A k \in D : Place(score, k) \in 1..n /\ list[Place(score, k)] = k
<1> DEFINE D == DOMAIN score
           n == Cardinality(D)
           list == Ranked(score)
<1>1. /\ n \in Nat
      /\ \A k \in D : Place(score, k) \in 1..n
      /\ \A j, k \in D : Before(score, j, k) => Place(score, j) < Place(score, k)
      /\ \A i \in 1..n : \E k \in D : Place(score, k) = i
  BY PlacesInOrder
<1>2. list = [i \in 1..n |-> CHOOSE k \in D : Place(score, k) = i]
  BY DEF Ranked
<1>3. ASSUME NEW i \in 1..n PROVE list[i] \in D /\ Place(score, list[i]) = i
  <2>1. list[i] = CHOOSE k \in D : Place(score, k) = i
    BY <1>2
  <2>2. \E k \in D : Place(score, k) = i
    BY <1>1
  <2> QED
    BY <2>1, <2>2
<1>4. list \in [1..n -> D]
  BY <1>2, <1>3
<1>5. ASSUME NEW k \in D PROVE list[Place(score, k)] = k
  <2> DEFINE i == Place(score, k)
             j == list[i]
  <2>1. j \in D /\ Place(score, j) = i /\ i \in Int
    BY <1>1, <1>3
  <2>2. Before(score, j, k) \/ Before(score, k, j) => i < i
    BY <1>1, <2>1
  <2> HIDE DEF j, i
  <2>3. j = k
    BY <2>1, <2>2, BeforeOrders
  <2> QED
    BY <2>3 DEF j, i
<1> HIDE DEF list
<1>6. list \in Seq(D) /\ Len(list) = n
  BY <1>1, <1>4
<1>7. KeysOf(list) = D
  <2>1. DOMAIN list = 1..n
    BY <1>4
  <2> QED
    BY <1>1, <1>4, <1>5, <2>1 DEF KeysOf
<1> QED
  BY <1>1, <1>3, <1>4, <1>5, <1>6, <1>7 DEF list

LEMMA CutList ==
  ASSUME NEW D, NEW n \in Nat, NEW list \in [1..n -> D], NEW topK \in Int
  PROVE  LET cut == Truncate(list, topK)
             m == IF topK > 0 /\ n > topK THEN topK ELSE n
         IN  /\ m \in Nat /\ cut \in [1..m -> D] /\ cut \in Seq(D) /\ Len(cut) = m
             /\ \A i \in 1..m : cut[i] = list[i]
             /\ KeysOf(cut) = {list[i] : i \in 1..m}
<1> DEFINE cut == Truncate(list, topK)
           m == IF topK > 0 /\ n > topK THEN topK ELSE n
<1>1. list \in Seq(D) /\ Len(list) = n
  BY IsASeq, LenProperties
<1>2. m \in Nat /\ 1..m \subseteq 1..n
  OBVIOUS
<1>3. cut \in [1..m -> D] /\ \A i \in 1..m : cut[i] = list[i]
  <2>1. CASE topK > 0 /\ n > topK
    <3>1. cut = SubSeq(list, 1, topK)
      BY <1>1, <2>1 DEF Truncate
    <3>2. SubSeq(list, 1, topK) = [i \in 1..topK |-> list[i]]
      BY <1>1, <2>1
    <3> QED
      BY <1>2, <2>1, <3>1, <3>2
  <2>2. CASE ~(topK > 0 /\ n > topK)
    <3>1. cut = list
      BY <1>1, <2>2 DEF Truncate
    <3> QED
      BY <2>2, <3>1
  <2> QED
    BY <2>1, <2>2
<1> HIDE DEF cut
<1>4. cut \in Seq(D) /\ Len(cut) = m
  BY <1>2, <1>3
<1>5. KeysOf(cut) = {list[i] : i \in 1..m}
  <2>1. DOMAIN cut = 1..m
    BY <1>3
  <2> QED
    BY <1>3, <2>1 DEF KeysOf
<1> QED
  BY <1>2, <1>3, <1>4, <1>5 DEF cut

-----------------------------------------------------------------------------
(* Sums of fractions                                                       *)

LEMMA PlusType ==
  ASSUME NEW x \in Fraction, NEW y \in Fraction
  PROVE  Plus(x, y) \in Fraction
<1>1. x[1] \in Int /\ y[1] \in Int /\ x[2] \in Nat \ {0} /\ y[2] \in Nat \ {0}
  BY DEF Fraction
<1>2. x[2] * y[2] \in Nat \ {0}
  BY <1>1, Products
<1>3. x[1] * y[2] + y[1] * x[2] \in Int
  BY <1>1
<1> QED
  BY <1>2, <1>3 DEF Plus, Fraction

LEMMA AddFractions ==
  ASSUME NEW x \in Fraction, NEW y \in Fraction
  PROVE  Add(x, y) = Plus(x, y)
  BY DEF Add, Fraction, Infinite

LEMMA AddType ==
  ASSUME NEW x \in Score, NEW y \in Score
  PROVE  Add(x, y) \in Score
<1>1. CASE x \in Fraction /\ y \in Fraction
  BY <1>1, AddFractions, PlusType DEF Score
<1>2. CASE ~(x \in Fraction /\ y \in Fraction)
  BY <1>2 DEF Add, Score
<1> QED
  BY <1>1, <1>2

\* g adds up fractions over the subsets of S, in the order of CHOOSE.
AddsUp(g, S, term) ==
  /\ g \in [SUBSET S -> Fraction]
  /\ \A s \in SUBSET S : g[s] = IF s = {} THEN <<0, 1>> ELSE Plus(g[s \ {Some(s)}], term[Some(s)])

\* The fractions of term are c[x] / m.
Common(m, c, S, term) ==
  /\ m \in Nat \ {0} /\ c \in [S -> Int]
  /\ \A x \in S : term[x][1] * m = c[x] * term[x][2]

LEMMA CommonDenominator ==
  ASSUME NEW S, IsFiniteSet(S), NEW term \in [S -> Fraction]
  PROVE  \E m, c : Common(m, c, S, term)
<1> DEFINE good == {T \in SUBSET S : \E m, c : Common(m, c, T, term)}
<1>1. {} \in good
  <2>1. Common(1, [x \in {} |-> 0], {}, term)
    BY DEF Common
  <2> QED
    BY <2>1
<1>2. ASSUME NEW T \in SUBSET S, T # {} PROVE \E x \in T : T \ {x} \in good => T \in good
  <2>1. PICK x \in T : TRUE
    BY <1>2
  <2>2. ASSUME T \ {x} \in good PROVE T \in good
    <3>1. PICK m, c : Common(m, c, T \ {x}, term)
      BY <2>2
    <3> DEFINE a == term[x][1]
               b == term[x][2]
               d == [y \in T |-> IF y = x THEN a * m ELSE c[y] * b]
    <3>2. a \in Int /\ b \in Nat \ {0} /\ m \in Nat \ {0}
      BY <3>1 DEF Fraction, Common
    <3>3. m * b \in Nat \ {0}
      BY <3>2, Products
    <3>4. ASSUME NEW y \in T
          PROVE  d[y] \in Int /\ term[y][1] * (m * b) = d[y] * term[y][2]
      <4>1. CASE y = x
        <5>1. d[y] = a * m
          BY <4>1
        <5>2. a * (m * b) = (a * m) * b /\ a * m \in Int
          BY <3>2
        <5> QED
          BY <4>1, <5>1, <5>2
      <4>2. CASE y # x
        <5> DEFINE p == term[y][1]
                   q == term[y][2]
                   r == c[y]
        <5>1. d[y] = r * b
          BY <4>2
        <5>2. p \in Int /\ q \in Int /\ r \in Int /\ p * m = r * q
          BY <3>1, <4>2 DEF Fraction, Common
        <5> HIDE DEF a, b, d, p, q, r
        <5>3. p * (m * b) = (p * m) * b
          BY <3>2, <5>2
        <5>4. (r * b) * q = (r * q) * b /\ r * b \in Int
          BY <3>2, <5>2
        <5>5. p * (m * b) = d[y] * q /\ d[y] \in Int
          BY <5>1, <5>2, <5>3, <5>4
        <5> QED
          BY <5>5 DEF p, q
      <4> QED
        BY <4>1, <4>2
    <3>5. DOMAIN d = T /\ d = [y \in T |-> d[y]]
      OBVIOUS
    <3> HIDE DEF d
    <3>6. d \in [T -> Int]
      BY <3>4, <3>5
    <3>7. Common(m * b, d, T, term)
      BY <3>3, <3>4, <3>6 DEF Common
    <3> QED
      BY <3>7
  <2> QED
    BY <2>2
<1> HIDE DEF good
<1>3. SUBSET S \subseteq good
  BY <1>1, <1>2, ElementInduction
<1> QED
  BY <1>3 DEF good

\* Over a common denominator fractions are added as integers are, in any order.
LEMMA AddedUp ==
  ASSUME NEW S, IsFiniteSet(S), NEW term \in [S -> Fraction], NEW g, AddsUp(g, S, term),
         NEW m, NEW c, Common(m, c, S, term)
  PROVE  \A T \in SUBSET S : Same(g[T], <<SumFunctionOnSet(c, T), m>>)
<1> DEFINE good == {T \in SUBSET S : g[T][1] * m = SumFunctionOnSet(c, T) * g[T][2]}
<1>1. m \in Nat \ {0} /\ c \in [S -> Int]
  BY DEF Common
<1>2. ASSUME NEW T \in SUBSET S, \A u \in SUBSET T : u # T => u \in good
      PROVE  T \in good
  <2>1. CASE T = {}
    <3>1. g[T] = <<0, 1>> /\ SumFunctionOnSet(c, T) = 0
      BY <1>1, <2>1, SumFacts DEF AddsUp
    <3> QED
      BY <1>1, <3>1
  <2>2. CASE T # {}
    <3> DEFINE x == Some(T)
               R == T \ {x}
               n == g[R][1]
               d == g[R][2]
               a == term[x][1]
               b == term[x][2]
               s == SumFunctionOnSet(c, R)
               v == c[x]
    <3>1. x \in T /\ R \in SUBSET S /\ R \in good
      BY <1>2, <2>2, SomeIn
    <3>2. g[T] = Plus(g[R], term[x])
      BY <2>2 DEF AddsUp
    <3>3. g[T] = <<n * b + a * d, d * b>>
      BY <3>2 DEF Plus
    <3>4. SumFunctionOnSet(c, T) = v + s /\ s \in Int /\ v \in Int
      BY <1>1, <3>1, SumFacts
    <3>5. n * m = s * d
      BY <3>1
    <3>6. a * m = v * b
      BY <3>1 DEF Common
    <3>7. n \in Int /\ d \in Int /\ a \in Int /\ b \in Int
      BY <3>1 DEF AddsUp, Fraction
    <3>8. g[T][1] = n * b + a * d /\ g[T][2] = d * b
      BY <3>3
    <3> HIDE DEF x, R, n, d, a, b, s, v
    <3>9. (n * b + a * d) * m = (v + s) * (d * b)
      <4>1. (n * b + a * d) * m = (n * m) * b + (a * m) * d
        BY <1>1, <3>7
      <4>2. (s * d) * b + (v * b) * d = (v + s) * (d * b)
        BY <3>4, <3>7
      <4> QED
        BY <3>5, <3>6, <4>1, <4>2
    <3> QED
      BY <3>4, <3>8, <3>9
  <2> QED
    BY <2>1, <2>2
<1> HIDE DEF good
<1>3. SUBSET S \subseteq good
  BY <1>2, SubsetInduction
<1> QED
  BY <1>3 DEF good, Same

\* More terms, each at least as great, add up to no less.
LEMMA AddsUpToMore ==
  ASSUME NEW S, IsFiniteSet(S), NEW T \in SUBSET S,
         NEW more \in [S -> Fraction], NEW less \in [T -> Fraction],
         \A x \in S : more[x][1] >= 0,
         \A x \in T : ~Less(more[x], less[x]),
         NEW g, AddsUp(g, S, more), NEW h, AddsUp(h, T, less)
  PROVE  ~Less(g[S], h[T])
<1>1. PICK m, c : Common(m, c, S, more)
  BY CommonDenominator
<1>2. IsFiniteSet(T)
  BY FS_Subset
<1>3. PICK n, d : Common(n, d, T, less)
  BY <1>2, CommonDenominator
<1>4. m \in Nat \ {0} /\ n \in Nat \ {0} /\ c \in [S -> Int] /\ d \in [T -> Int]
  BY <1>1, <1>3 DEF Common
<1>5. ASSUME NEW x \in S PROVE c[x] \in Nat
  <2> DEFINE p == more[x][1]
             q == more[x][2]
             r == c[x]
  <2>1. p \in Nat /\ q \in Nat \ {0} /\ r \in Int /\ p * m = r * q
    BY <1>1 DEF Common, Fraction
  <2> HIDE DEF p, q, r
  <2>2. p * m \in Nat
    BY <1>4, <2>1, Products
  <2>3. r >= 0
    <3> SUFFICES ASSUME r < 0 PROVE FALSE
      BY <2>1
    <3>1. r * q < 0 * q
      BY <2>1, Times
    <3> QED
      BY <2>1, <2>2, <3>1
  <2> QED
    BY <2>1, <2>3 DEF r
<1>6. ASSUME NEW x \in T PROVE d[x] * m <= c[x] * n
  <2> DEFINE p == more[x][1]
             q == more[x][2]
             r == c[x]
             u == less[x][1]
             v == less[x][2]
             w == d[x]
  <2>1. /\ p \in Int /\ q \in Nat \ {0} /\ r \in Int /\ p * m = r * q
        /\ u \in Int /\ v \in Nat \ {0} /\ w \in Int /\ u * n = w * v
    BY <1>1, <1>3 DEF Common, Fraction
  <2>2. ~(p * v < u * q)
    BY DEF Less
  <2> HIDE DEF p, q, r, u, v, w
  <2>3. u * q <= p * v
    BY <2>1, <2>2
  <2>4. w * v <= u * n /\ p * m <= r * q
    BY <1>4, <2>1
  <2>5. w * q <= p * n
    BY <1>4, <2>1, <2>3, <2>4, Chain
  <2>6. w * m <= r * n
    BY <1>4, <2>1, <2>4, <2>5, Chain
  <2> QED
    BY <2>6 DEF r, w
<1> DEFINE cn == [x \in S |-> c[x] * n]
           dm == [x \in T |-> d[x] * m]
           part == [x \in T |-> cn[x]]
           sc == SumFunctionOnSet(c, S)
           sd == SumFunctionOnSet(d, T)
<1>7. cn \in [S -> Nat] /\ cn \in [S -> Int] /\ part \in [T -> Int] /\ dm \in [T -> Int]
  <2>1. \A x \in S : c[x] * n \in Nat
    BY <1>4, <1>5, Products
  <2>2. \A x \in T : d[x] * m \in Int
    BY <1>4
  <2> QED
    BY <2>1, <2>2
<1>8. SumFunctionOnSet(cn, S) = sc * n /\ SumFunctionOnSet(dm, T) = sd * m
  BY <1>2, <1>4, SumScaled
<1>9. sc \in Int /\ sd \in Int
  BY <1>2, <1>4, SumFacts
<1>10. SumFunctionOnSet(dm, T) <= SumFunctionOnSet(part, T)
  <2>1. \A x \in T : dm[x] <= part[x]
    BY <1>6
  <2> HIDE DEF dm, part
  <2> QED
    BY <1>2, <1>7, <2>1, SumMonotone
<1>11. SumFunctionOnSet(part, T) = SumFunctionOnSet(cn, T)
  <2>1. part = [x \in T |-> cn[x]] /\ DOMAIN part = T
    OBVIOUS
  <2> HIDE DEF part, cn
  <2>2. SumFunction([x \in T |-> cn[x]]) = SumFunctionOnSet(cn, T)
    BY <1>7, SumRestricted
  <2> QED
    BY <2>1, <2>2 DEF SumFunction
<1>12. SumFunctionOnSet(cn, T) <= SumFunctionOnSet(cn, S)
  <2> HIDE DEF cn
  <2> QED
    BY <1>7, SumExtended
<1>13. sd * m <= sc * n
  <2> DEFINE s1 == SumFunctionOnSet(dm, T)
             s2 == SumFunctionOnSet(part, T)
             s3 == SumFunctionOnSet(cn, T)
             s4 == SumFunctionOnSet(cn, S)
  <2>1. s1 \in Int /\ s2 \in Int /\ s3 \in Int /\ s4 \in Int
    <3> HIDE DEF dm, part, cn
    <3> QED
      BY <1>2, <1>7, SumFacts
  <2>2. s1 <= s2 /\ s2 = s3 /\ s3 <= s4
    BY <1>10, <1>11, <1>12
  <2>3. s1 = sd * m /\ s4 = sc * n
    BY <1>8
  <2> HIDE DEF s1, s2, s3, s4, sd, sc
  <2>4. s1 <= s4
    BY <2>1, <2>2
  <2> QED
    BY <2>3, <2>4
<1> DEFINE x == g[S]
           y == h[T]
<1>14. x \in Fraction /\ y \in Fraction
  BY DEF AddsUp
<1>15. Same(x, <<sc, m>>) /\ Same(y, <<sd, n>>)
  BY <1>1, <1>2, <1>3, AddedUp
<1> HIDE DEF x, y, sc, sd
<1>16. ~Less(x, y)
  <2> SUFFICES ASSUME Less(x, y) PROVE FALSE
    OBVIOUS
  <2> DEFINE a == <<sc, m>>
             b == <<sd, n>>
  <2>1. a \in Fraction /\ b \in Fraction
    BY <1>4, <1>9 DEF Fraction
  <2>2. ~Less(a, b)
    <3>1. sc * n \in Int /\ sd * m \in Int
      BY <1>4, <1>9
    <3> QED
      BY <1>13, <3>1 DEF Less
  <2>3. Same(x, a) /\ Same(y, b)
    BY <1>15
  <2> HIDE DEF a, b
  <2>4. Same(a, x)
    BY <1>14, <2>1, <2>3, FractionsOrdered
  <2>5. Less(a, y)
    BY <1>14, <2>1, <2>4, FractionsOrdered
  <2>6. Less(a, b)
    BY <1>14, <2>1, <2>3, <2>5, FractionsOrdered
  <2> QED
    BY <2>2, <2>6
<1> QED
  BY <1>16 DEF x, y
=============================================================================
