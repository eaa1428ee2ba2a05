---------------------------- MODULE ServiceProofs ----------------------------
(***************************************************************************)
(* For any number of clients, workers, keys and texts: a change that meets *)
(* no other change of its key, and no other change inside a text index,    *)
(* leaves the indexes with what the store has.                             *)
(***************************************************************************)
EXTENDS Service, DataLemmas

-----------------------------------------------------------------------------
(* Control: the calls that a process still has to make *)

UpdateRest == {Updates, <<"ngram", "tfidf", "items", "lsa">>,
               <<"tfidf", "items", "lsa">>, <<"items", "lsa">>, <<"lsa">>}
CallbackRest == {CallbackCalls, <<"items", "bm25", "ngram", "tfidf", "lsa">>,
                 <<"bm25", "ngram", "tfidf", "lsa">>, <<"ngram", "tfidf", "lsa">>,
                 <<"tfidf", "lsa">>, <<"lsa">>}

\* The calls in a list are the members of it.
LEMMA CallSets ==
  /\ ToSet(<<>>) = {}
  /\ \A a : ToSet(<<a>>) = {a}
  /\ \A a, b : ToSet(<<a, b>>) = {a, b}
  /\ \A a, b, c : ToSet(<<a, b, c>>) = {a, b, c}
  /\ \A a, b, c, d : ToSet(<<a, b, c, d>>) = {a, b, c, d}
  /\ \A a, b, c, d, e : ToSet(<<a, b, c, d, e>>) = {a, b, c, d, e}
  /\ \A a, b, c, d, e, f : ToSet(<<a, b, c, d, e, f>>) = {a, b, c, d, e, f}
  BY DEF ToSet

\* What is left of Updates: the text indexes come before the copy, and the LSA
\* index is last.
LEMMA UpdateRests ==
  ASSUME NEW s \in UpdateRest
  PROVE  /\ s \in Seq(Call) /\ s # <<>> /\ ToSet(s) \subseteq Call
         /\ Len(s) = 1 <=> Head(s) = "lsa"
         /\ Head(s) # "set" /\ Head(s) \in ToSet(s)
         /\ Len(s) # 1 => /\ Tail(s) \in UpdateRest
                          /\ ToSet(Tail(s)) = ToSet(s) \ {Head(s)}
         /\ Head(s) = "lsa" => ToSet(s) = {"lsa"}
         /\ \A i \in TextIndex : i \in ToSet(s) => "items" \in ToSet(s)
<1>1. Call = {"set", "items", "bm25", "ngram", "tfidf", "lsa"} /\ TextIndex = {"bm25", "ngram", "tfidf"}
  BY DEF Call, Index, TextIndex
<1>2. CASE s = <<"bm25", "ngram", "tfidf", "items", "lsa">>
  <2>1. ToSet(s) = {"bm25", "ngram", "tfidf", "items", "lsa"}
    BY <1>2, CallSets
  <2>2. s \in Seq(Call) /\ Head(s) = "bm25" /\ Len(s) = 5
    BY <1>1, <1>2
  <2>3. Tail(s) = <<"ngram", "tfidf", "items", "lsa">>
    BY <1>2
  <2>4. ToSet(Tail(s)) = {"ngram", "tfidf", "items", "lsa"}
    <3>1. ToSet(<<"ngram", "tfidf", "items", "lsa">>) = {"ngram", "tfidf", "items", "lsa"}
      BY CallSets
    <3> QED
      BY <2>3, <3>1, Zenon
  <2>5. Tail(s) \in UpdateRest
    BY <2>3 DEF UpdateRest
  <2> QED
    BY <1>1, <1>2, <2>1, <2>2, <2>4, <2>5
<1>3. CASE s = <<"ngram", "tfidf", "items", "lsa">>
  <2>1. ToSet(s) = {"ngram", "tfidf", "items", "lsa"}
    BY <1>3, CallSets
  <2>2. s \in Seq(Call) /\ Head(s) = "ngram" /\ Len(s) = 4
    BY <1>1, <1>3
  <2>3. Tail(s) = <<"tfidf", "items", "lsa">>
    BY <1>3
  <2>4. ToSet(Tail(s)) = {"tfidf", "items", "lsa"}
    <3>1. ToSet(<<"tfidf", "items", "lsa">>) = {"tfidf", "items", "lsa"}
      BY CallSets
    <3> QED
      BY <2>3, <3>1, Zenon
  <2>5. Tail(s) \in UpdateRest
    BY <2>3 DEF UpdateRest
  <2> QED
    BY <1>1, <1>3, <2>1, <2>2, <2>4, <2>5
<1>4. CASE s = <<"tfidf", "items", "lsa">>
  <2>1. ToSet(s) = {"tfidf", "items", "lsa"}
    BY <1>4, CallSets
  <2>2. s \in Seq(Call) /\ Head(s) = "tfidf" /\ Len(s) = 3
    BY <1>1, <1>4
  <2>3. Tail(s) = <<"items", "lsa">>
    BY <1>4
  <2>4. ToSet(Tail(s)) = {"items", "lsa"}
    <3>1. ToSet(<<"items", "lsa">>) = {"items", "lsa"}
      BY CallSets
    <3> QED
      BY <2>3, <3>1, Zenon
  <2>5. Tail(s) \in UpdateRest
    BY <2>3 DEF UpdateRest
  <2> QED
    BY <1>1, <1>4, <2>1, <2>2, <2>4, <2>5
<1>5. CASE s = <<"items", "lsa">>
  <2>1. ToSet(s) = {"items", "lsa"}
    BY <1>5, CallSets
  <2>2. s \in Seq(Call) /\ Head(s) = "items" /\ Len(s) = 2
    BY <1>1, <1>5
  <2>3. Tail(s) = <<"lsa">>
    BY <1>5
  <2>4. ToSet(Tail(s)) = {"lsa"}
    <3>1. ToSet(<<"lsa">>) = {"lsa"}
      BY CallSets
    <3> QED
      BY <2>3, <3>1, Zenon
  <2>5. Tail(s) \in UpdateRest
    BY <2>3 DEF UpdateRest
  <2> QED
    BY <1>1, <1>5, <2>1, <2>2, <2>4, <2>5
<1>6. CASE s = <<"lsa">>
  <2>1. ToSet(s) = {"lsa"}
    BY <1>6, CallSets
  <2>2. s \in Seq(Call) /\ Head(s) = "lsa" /\ Len(s) = 1
    BY <1>1, <1>6
  <2> QED
    BY <1>1, <1>6, <2>1, <2>2
<1> QED
  BY <1>2, <1>3, <1>4, <1>5, <1>6 DEF UpdateRest, Updates

\* What is left of a callback: the copy comes before all indexes.
LEMMA CallbackRests ==
  ASSUME NEW s \in CallbackRest
  PROVE  /\ s \in Seq(Call) /\ s # <<>> /\ ToSet(s) \subseteq Call
         /\ Len(s) = 1 <=> Head(s) = "lsa"
         /\ Head(s) \in ToSet(s)
         /\ Len(s) # 1 => /\ Tail(s) \in CallbackRest
                          /\ ToSet(Tail(s)) = ToSet(s) \ {Head(s)}
         /\ Head(s) = "lsa" => ToSet(s) = {"lsa"}
         /\ Head(s) = "set" => ToSet(s) = Call
         /\ Head(s) \in TextIndex => "items" \notin ToSet(s)
         /\ \A i \in TextIndex : "items" \in ToSet(s) => i \in ToSet(s)
<1>1. Call = {"set", "items", "bm25", "ngram", "tfidf", "lsa"} /\ TextIndex = {"bm25", "ngram", "tfidf"}
  BY DEF Call, Index, TextIndex
<1>2. CASE s = <<"set", "items", "bm25", "ngram", "tfidf", "lsa">>
  <2>1. ToSet(s) = {"set", "items", "bm25", "ngram", "tfidf", "lsa"}
    BY <1>2, CallSets
  <2>2. s \in Seq(Call) /\ Head(s) = "set" /\ Len(s) = 6
    BY <1>1, <1>2
  <2>3. Tail(s) = <<"items", "bm25", "ngram", "tfidf", "lsa">>
    BY <1>2
  <2>4. ToSet(Tail(s)) = {"items", "bm25", "ngram", "tfidf", "lsa"}
    <3>1. ToSet(<<"items", "bm25", "ngram", "tfidf", "lsa">>) = {"items", "bm25", "ngram", "tfidf", "lsa"}
      BY CallSets
    <3> QED
      BY <2>3, <3>1, Zenon
  <2>5. Tail(s) \in CallbackRest
    BY <2>3 DEF CallbackRest
  <2> QED
    BY <1>1, <1>2, <2>1, <2>2, <2>4, <2>5
<1>3. CASE s = <<"items", "bm25", "ngram", "tfidf", "lsa">>
  <2>1. ToSet(s) = {"items", "bm25", "ngram", "tfidf", "lsa"}
    BY <1>3, CallSets
  <2>2. s \in Seq(Call) /\ Head(s) = "items" /\ Len(s) = 5
    BY <1>1, <1>3
  <2>3. Tail(s) = <<"bm25", "ngram", "tfidf", "lsa">>
    BY <1>3
  <2>4. ToSet(Tail(s)) = {"bm25", "ngram", "tfidf", "lsa"}
    <3>1. ToSet(<<"bm25", "ngram", "tfidf", "lsa">>) = {"bm25", "ngram", "tfidf", "lsa"}
      BY CallSets
    <3> QED
      BY <2>3, <3>1, Zenon
  <2>5. Tail(s) \in CallbackRest
    BY <2>3 DEF CallbackRest
  <2> QED
    BY <1>1, <1>3, <2>1, <2>2, <2>4, <2>5
<1>4. CASE s = <<"bm25", "ngram", "tfidf", "lsa">>
  <2>1. ToSet(s) = {"bm25", "ngram", "tfidf", "lsa"}
    BY <1>4, CallSets
  <2>2. s \in Seq(Call) /\ Head(s) = "bm25" /\ Len(s) = 4
    BY <1>1, <1>4
  <2>3. Tail(s) = <<"ngram", "tfidf", "lsa">>
    BY <1>4
  <2>4. ToSet(Tail(s)) = {"ngram", "tfidf", "lsa"}
    <3>1. ToSet(<<"ngram", "tfidf", "lsa">>) = {"ngram", "tfidf", "lsa"}
      BY CallSets
    <3> QED
      BY <2>3, <3>1, Zenon
  <2>5. Tail(s) \in CallbackRest
    BY <2>3 DEF CallbackRest
  <2> QED
    BY <1>1, <1>4, <2>1, <2>2, <2>4, <2>5
<1>5. CASE s = <<"ngram", "tfidf", "lsa">>
  <2>1. ToSet(s) = {"ngram", "tfidf", "lsa"}
    BY <1>5, CallSets
  <2>2. s \in Seq(Call) /\ Head(s) = "ngram" /\ Len(s) = 3
    BY <1>1, <1>5
  <2>3. Tail(s) = <<"tfidf", "lsa">>
    BY <1>5
  <2>4. ToSet(Tail(s)) = {"tfidf", "lsa"}
    <3>1. ToSet(<<"tfidf", "lsa">>) = {"tfidf", "lsa"}
      BY CallSets
    <3> QED
      BY <2>3, <3>1, Zenon
  <2>5. Tail(s) \in CallbackRest
    BY <2>3 DEF CallbackRest
  <2> QED
    BY <1>1, <1>5, <2>1, <2>2, <2>4, <2>5
<1>6. CASE s = <<"tfidf", "lsa">>
  <2>1. ToSet(s) = {"tfidf", "lsa"}
    BY <1>6, CallSets
  <2>2. s \in Seq(Call) /\ Head(s) = "tfidf" /\ Len(s) = 2
    BY <1>1, <1>6
  <2>3. Tail(s) = <<"lsa">>
    BY <1>6
  <2>4. ToSet(Tail(s)) = {"lsa"}
    <3>1. ToSet(<<"lsa">>) = {"lsa"}
      BY CallSets
    <3> QED
      BY <2>3, <3>1, Zenon
  <2>5. Tail(s) \in CallbackRest
    BY <2>3 DEF CallbackRest
  <2> QED
    BY <1>1, <1>6, <2>1, <2>2, <2>4, <2>5
<1>7. CASE s = <<"lsa">>
  <2>1. ToSet(s) = {"lsa"}
    BY <1>7, CallSets
  <2>2. s \in Seq(Call) /\ Head(s) = "lsa" /\ Len(s) = 1
    BY <1>1, <1>7
  <2> QED
    BY <1>1, <1>7, <2>1, <2>2
<1> QED
  BY <1>2, <1>3, <1>4, <1>5, <1>6, <1>7 DEF CallbackRest, CallbackCalls

-----------------------------------------------------------------------------
(* The inductive invariant *)

Operation ==
  {Idle} \cup [name : {"Search"}] \cup [name : {"Set"}, key : Key, text : Text]
    \cup [name : {"Delete", "Callback"}, key : Key]

Left(p) == ToSet(todo[p])
Alone(p) == met[p] = {}
Rebuilds(p) == Changing(p) /\ op[p].name = "Callback"
Updating(p) == Changing(p) /\ op[p].name # "Callback"

\* What a Set or a Delete wants under its key.
Wanted(o) == IF o.name = "Set" THEN o.text ELSE Absent

\* What an index may hold, and what it holds after a race.
Documents == [Key -> Text \cup {Absent, Unknown}]
InDisorder(d) == \A k \in Key : d[k] = Unknown

Typed ==
  /\ data \in Contents
  /\ docs \in [Index -> Documents]
  /\ access \in [Process -> {"none", "in", "raced"}]
  /\ todo \in [Process -> Seq(Call)]
  /\ op \in [Process -> Operation]
  /\ copy \in [Process -> Text \cup {Absent}]
  /\ snap \in [Process -> Contents]
  /\ met \in [Process -> SUBSET Key]
  /\ clean \in [Index -> SUBSET Key]

\* A process has the calls to make that its operation has left.
Control ==
  \A p \in Process :
    /\ op[p] = Idle <=> todo[p] = <<>>
    /\ Updating(p) => todo[p] \in UpdateRest
    /\ Rebuilds(p) => todo[p] \in CallbackRest
    /\ op[p].name = "Search" => Left(p) \subseteq Index

\* Two changes under way have met.
BothMet ==
  \A p, q \in Process : p # q /\ Changing(p) /\ Changing(q) => Scope(op[q]) \subseteq met[p]

\* Nobody changes a clean key.
CleanAtRest ==
  \A p \in Process : Changing(p) => \A i \in Index : op[p].key \notin clean[i]

\* What a rebuild is about to put in an index is right for the clean keys, and
\* right altogether when it met nobody.
CopyOfClean ==
  \A p \in Process : Changing(p) /\ "items" \notin Left(p) =>
    /\ \A i \in Index : i \in Left(p) => \A k \in clean[i] : snap[p][k] = data[k]
    /\ Alone(p) => snap[p] = data

\* A change that has met nobody on its key has its way with the store, and with
\* the indexes it has updated that are not in disorder.
OwnKey ==
  \A p \in Process : Updating(p) /\ op[p].key \notin met[p] =>
    /\ data[op[p].key] = Wanted(op[p])
    /\ \A i \in TextIndex : i \notin Left(p) => docs[i][op[p].key] \in {data[op[p].key], Unknown}

AllKeys ==
  \A p \in Process : Rebuilds(p) /\ Alone(p) =>
    \A i \in TextIndex : i \notin Left(p) => docs[i] = data

\* A process is inside the index it is calling. Of two changes inside the same
\* index both have raced; one that has raced has met another change, and the index
\* stays in disorder as long as it is inside.
Accesses ==
  /\ \A p \in Process : access[p] # "none" => todo[p] # <<>> /\ Head(todo[p]) \in TextIndex
  /\ \A p \in Process : access[p] = "raced" =>
       Changing(p) /\ ~Alone(p) /\ InDisorder(docs[Head(todo[p])])
  /\ \A p, q \in Process : \A i \in TextIndex :
       p # q /\ Inside(p, i) /\ Inside(q, i) /\ Changing(p) /\ Changing(q) => access[p] = "raced"

SInv ==
  /\ Typed /\ Control /\ Accesses /\ BothMet /\ CleanAtRest /\ CopyOfClean /\ OwnKey /\ AllKeys
  /\ UndisturbedChangesAgree

-----------------------------------------------------------------------------
(* Facts about operations *)

LEMMA OperationFacts ==
  ASSUME Typed, NEW p \in Process
  PROVE  /\ Changing(p) => op[p].key \in Key /\ op[p] # Idle
         /\ Changing(p) => Scope(op[p]) \subseteq Key /\ op[p].key \in Scope(op[p])
         /\ Rebuilds(p) => Scope(op[p]) = Key
         /\ Updating(p) => Scope(op[p]) = {op[p].key} /\ Wanted(op[p]) \in Text \cup {Absent}
         /\ Updating(p) => op[p].name \in {"Set", "Delete"}
         /\ Changing(p) <=> Updating(p) \/ Rebuilds(p)
         /\ ~(Updating(p) /\ Rebuilds(p))
         /\ ~Changing(p) => op[p] = Idle \/ op[p].name = "Search"
  BY DEF Typed, Operation, Idle, Changing, Scope, Rebuilds, Updating, Wanted

\* Two changes under way that have not met on a key are of different keys.
LEMMA Apart ==
  ASSUME SInv, NEW p \in Process, NEW q \in Process, p # q, Changing(p), Changing(q)
  PROVE  /\ ~Alone(q)
         /\ op[q].key \notin met[q] => op[p].key # op[q].key /\ ~Rebuilds(p)
  BY OperationFacts DEF SInv, BothMet, Alone

\* A step of one process that is outside the text indexes afterwards, or that
\* reads one, leaves the accesses of the others as they are.
LEMMA AccessesKept ==
  ASSUME SInv, NEW p \in Process, access'[p] # "raced",
         access'[p] # "none" =>
           ~Changing(p)' /\ todo'[p] # <<>> /\ Head(todo'[p]) \in TextIndex,
         \A q \in Process \ {p} :
           /\ access'[q] = access[q] /\ todo'[q] = todo[q]
           /\ (Changing(q)' <=> Changing(q)) /\ (Alone(q)' => Alone(q))
           /\ access[q] = "raced" => docs'[Head(todo[q])] = docs[Head(todo[q])]
  PROVE  Accesses'
<1> USE DEF SInv
<1>1. \A q \in Process : access'[q] # "none" => todo'[q] # <<>> /\ Head(todo'[q]) \in TextIndex
  BY DEF Accesses
<1>2. \A q \in Process : access'[q] = "raced" =>
        Changing(q)' /\ ~Alone(q)' /\ InDisorder(docs'[Head(todo'[q])])
  BY DEF Accesses, InDisorder
<1>3. ASSUME NEW q \in Process, NEW r \in Process, NEW i \in TextIndex,
             q # r, Inside(q, i)', Inside(r, i)', Changing(q)', Changing(r)'
      PROVE  access'[q] = "raced"
  <2>1. q # p /\ r # p
    BY <1>3 DEF Inside
  <2>2. Inside(q, i) /\ Inside(r, i) /\ Changing(q) /\ Changing(r)
    BY <1>3, <2>1 DEF Inside, Calling
  <2> QED
    BY <1>3, <2>1, <2>2 DEF Accesses
<1> QED
  BY <1>1, <1>2, <1>3 DEF Accesses, InDisorder

-----------------------------------------------------------------------------
(* A change begins *)

LEMMA BeginStep ==
  ASSUME SInv, NEW p \in Process, NEW o \in Operation, NEW calls,
         o.name \in {"Set", "Delete", "Callback"},
         calls = IF o.name = "Callback" THEN CallbackCalls ELSE Updates,
         Starts(p, o, calls), Meet(p, o), UNCHANGED <<docs, access, snap>>,
         copy' \in [Process -> Text \cup {Absent}], data' \in Contents,
         \A j \in Key : j # o.key => data'[j] = data[j],
         o.name # "Callback" => data'[o.key] = Wanted(o)
  PROVE  SInv'
<1> USE DEF SInv
<1>1. /\ op[p] = Idle /\ ~Changing(p)
      /\ op' = [op EXCEPT ![p] = o] /\ op'[p] = o
      /\ todo' = [todo EXCEPT ![p] = calls] /\ todo'[p] = calls
      /\ \A q \in Process \ {p} : op'[q] = op[q] /\ todo'[q] = todo[q]
  BY DEF Starts, Control, Typed, Changing, Idle
<1>2. /\ o.key \in Key /\ Scope(o) \subseteq Key /\ o.key \in Scope(o)
      /\ o.name # "Callback" => Scope(o) = {o.key}
      /\ o # Idle
  BY DEF Operation, Idle, Scope
<1>3. /\ Changing(p)' /\ (Rebuilds(p)' <=> o.name = "Callback")
      /\ (Updating(p)' <=> o.name # "Callback") /\ Left(p)' = ToSet(calls)
      /\ \A q \in Process \ {p} :
           /\ (Changing(q)' <=> Changing(q)) /\ (Rebuilds(q)' <=> Rebuilds(q))
           /\ (Updating(q)' <=> Updating(q)) /\ Left(q)' = Left(q)
  BY <1>1 DEF Changing, Rebuilds, Updating, Left
<1>4. /\ calls \in Seq(Call) /\ calls # <<>>
      /\ o.name = "Callback" => calls \in CallbackRest
      /\ o.name # "Callback" => calls \in UpdateRest
      /\ "items" \in ToSet(calls) /\ TextIndex \subseteq ToSet(calls)
  <2>1. CASE o.name = "Callback"
    <3>1. calls \in CallbackRest /\ calls = <<"set", "items", "bm25", "ngram", "tfidf", "lsa">>
      BY <2>1 DEF CallbackRest, CallbackCalls
    <3>2. ToSet(<<"set", "items", "bm25", "ngram", "tfidf", "lsa">>)
            = {"set", "items", "bm25", "ngram", "tfidf", "lsa"}
      BY CallSets
    <3>3. ToSet(calls) = {"set", "items", "bm25", "ngram", "tfidf", "lsa"}
      BY <3>1, <3>2, Zenon
    <3> QED
      BY <2>1, <3>1, <3>3, CallbackRests DEF TextIndex
  <2>2. CASE o.name # "Callback"
    <3>1. calls \in UpdateRest /\ calls = <<"bm25", "ngram", "tfidf", "items", "lsa">>
      BY <2>2 DEF UpdateRest, Updates
    <3>2. ToSet(<<"bm25", "ngram", "tfidf", "items", "lsa">>)
            = {"bm25", "ngram", "tfidf", "items", "lsa"}
      BY CallSets
    <3>3. ToSet(calls) = {"bm25", "ngram", "tfidf", "items", "lsa"}
      BY <3>1, <3>2, Zenon
    <3> QED
      BY <2>2, <3>1, <3>3, UpdateRests DEF TextIndex
  <2> QED
    BY <2>1, <2>2
<1>5. /\ met' \in [Process -> SUBSET Key]
      /\ \A q \in Process : Changing(q) => Scope(op[q]) \subseteq met'[p]
      /\ \A q \in Process \ {p} : Changing(q) => met'[q] = met[q] \cup Scope(o)
  <2>1. \A q \in Process : Changing(q) => Scope(op[q]) \subseteq Key
    BY OperationFacts
  <2> QED
    BY <1>2, <2>1 DEF Meet, Typed
<1>6. /\ clean' \in [Index -> SUBSET Key]
      /\ \A i \in Index : clean'[i] = clean[i] \ {o.key}
  BY DEF Meet, Typed
<1>7. Typed'
  BY <1>1, <1>4, <1>5, <1>6 DEF Typed
<1>8. Control'
  BY <1>1, <1>2, <1>3, <1>4 DEF Control
<1>9. BothMet'
  BY <1>1, <1>3, <1>5 DEF BothMet
<1>10. CleanAtRest'
  BY <1>1, <1>3, <1>6 DEF CleanAtRest
<1>11. CopyOfClean'
  <2> SUFFICES ASSUME NEW q \in Process, Changing(q)', "items" \notin Left(q)'
               PROVE  /\ \A i \in Index : i \in Left(q)' =>
                           \A k \in clean'[i] : snap'[q][k] = data'[k]
                      /\ ~Alone(q)'
    BY DEF CopyOfClean
  <2>1. q # p
    BY <1>3, <1>4
  <2>2. ~Alone(q)'
    BY <1>2, <1>3, <1>5, <2>1 DEF Alone
  <2>3. \A i \in Index : i \in Left(q)' => \A k \in clean'[i] : snap'[q][k] = data'[k]
    BY <1>3, <1>6, <2>1 DEF CopyOfClean, Typed
  <2> QED
    BY <2>2, <2>3
<1>12. OwnKey'
  <2> SUFFICES ASSUME NEW q \in Process, Updating(q)', op'[q].key \notin met'[q]
               PROVE  /\ data'[op'[q].key] = Wanted(op'[q])
                      /\ \A i \in TextIndex : i \notin Left(q)' =>
                           docs'[i][op'[q].key] \in {data'[op'[q].key], Unknown}
    BY DEF OwnKey
  <2>1. CASE q = p
    BY <1>1, <1>3, <1>4, <2>1
  <2>2. CASE q # p
    <3>1. Updating(q) /\ op'[q] = op[q] /\ Changing(q)
      BY <1>1, <1>3, <2>2 DEF Updating
    <3>2. op[q].key \notin met[q] /\ op[q].key # o.key /\ op[q].key \in Key
      BY <1>2, <1>5, <2>2, <3>1, OperationFacts
    <3> QED
      BY <1>3, <2>2, <3>1, <3>2 DEF OwnKey
  <2> QED
    BY <2>1, <2>2
<1>13. AllKeys'
  <2> SUFFICES ASSUME NEW q \in Process, Rebuilds(q)', Alone(q)'
               PROVE  \A i \in TextIndex : i \notin Left(q)' => docs'[i] = data'
    BY DEF AllKeys
  <2>1. CASE q = p
    BY <1>3, <1>4, <2>1
  <2>2. CASE q # p
    BY <1>2, <1>3, <1>5, <2>2 DEF Alone, Rebuilds
  <2> QED
    BY <2>1, <2>2
<1>14. UndisturbedChangesAgree'
  BY <1>6 DEF UndisturbedChangesAgree, Typed
<1>15. Accesses'
  <2>1. access'[p] = "none"
    BY DEF Starts, Accesses
  <2>2. \A q \in Process \ {p} : Alone(q)' => Alone(q)
    BY <1>2 DEF Meet, Alone, Typed
  <2> QED
    BY <1>1, <1>3, <2>1, <2>2, AccessesKept
<1> QED
  BY <1>15, <1>7, <1>8, <1>9, <1>10, <1>11, <1>12, <1>13, <1>14

-----------------------------------------------------------------------------
(* Steps of processes that change nothing *)

LEMMA ReaderStep ==
  ASSUME SInv, NEW p \in Process, ~Changing(p), ~Changing(p)', Typed', Control',
         UNCHANGED <<data, docs, clean>>, access'[p] # "raced",
         access'[p] # "none" => todo'[p] # <<>> /\ Head(todo'[p]) \in TextIndex,
         \A q \in Process \ {p} :
           /\ access'[q] = access[q] /\ todo'[q] = todo[q] /\ op'[q] = op[q]
           /\ snap'[q] = snap[q] /\ met'[q] = met[q]
  PROVE  SInv'
<1> USE DEF SInv
<1>1. /\ ~Updating(p)' /\ ~Rebuilds(p)'
      /\ \A q \in Process \ {p} :
           /\ (Changing(q)' <=> Changing(q)) /\ (Rebuilds(q)' <=> Rebuilds(q))
           /\ (Updating(q)' <=> Updating(q)) /\ Left(q)' = Left(q)
           /\ (Alone(q)' <=> Alone(q))
  BY DEF Changing, Rebuilds, Updating, Left, Alone
<1>2. BothMet'
  BY <1>1 DEF BothMet
<1>3. CleanAtRest'
  BY <1>1 DEF CleanAtRest
<1>4. CopyOfClean'
  BY <1>1 DEF CopyOfClean
<1>5. OwnKey'
  BY <1>1 DEF OwnKey
<1>6. AllKeys'
  BY <1>1 DEF AllKeys
<1>7. UndisturbedChangesAgree'
  BY DEF UndisturbedChangesAgree
<1>8. Accesses'
  BY <1>1, AccessesKept
<1> QED
  BY <1>2, <1>3, <1>4, <1>5, <1>6, <1>7, <1>8

LEMMA SearchStarts ==
  ASSUME SInv, NEW c \in Client, NEW calls \in Searches, Search(c, calls)
  PROVE  SInv'
<1> DEFINE o == [name |-> "Search"]
<1> USE DEF SInv
<1>1. c \in Process
  BY DEF Process
<1>2. /\ op[c] = Idle
      /\ op' = [op EXCEPT ![c] = o] /\ op'[c] = o
      /\ todo' = [todo EXCEPT ![c] = calls] /\ todo'[c] = calls
      /\ \A q \in Process \ {c} : op'[q] = op[q] /\ todo'[q] = todo[q]
  BY <1>1 DEF Search, Starts, Control, Typed
<1>3. ~Changing(c) /\ ~Changing(c)' /\ o # Idle
  BY <1>2 DEF Changing, Idle
<1>4. calls \in Seq(Call) /\ calls # <<>> /\ ToSet(calls) \subseteq Index
  <2>1. CASE calls = <<"ngram", "bm25", "tfidf", "lsa">>
    <3>1. ToSet(<<"ngram", "bm25", "tfidf", "lsa">>) = {"ngram", "bm25", "tfidf", "lsa"}
      BY CallSets
    <3>2. ToSet(calls) = {"ngram", "bm25", "tfidf", "lsa"}
      BY <2>1, <3>1, Zenon
    <3>3. calls \in Seq(Call) /\ calls # <<>>
      BY <2>1 DEF Call, Index, TextIndex
    <3> QED
      BY <3>2, <3>3 DEF Index, TextIndex
  <2>2. ASSUME NEW i \in Index, calls = <<i>>
        PROVE  calls \in Seq(Call) /\ calls # <<>> /\ ToSet(calls) \subseteq Index
    <3>1. ToSet(<<i>>) = {i}
      BY CallSets
    <3>2. ToSet(calls) = {i}
      BY <2>2, <3>1, Zenon
    <3>3. calls \in Seq(Call) /\ calls # <<>>
      BY <2>2 DEF Call
    <3> QED
      BY <3>2, <3>3
  <2> QED
    BY <2>1, <2>2, SearchesAssumption DEF AllSearches
<1>5. Typed'
  BY <1>2, <1>4 DEF Search, Typed, Operation
<1>6. Control'
  BY <1>2, <1>3, <1>4 DEF Control, Changing, Updating, Rebuilds, Left
<1>7. access' = access /\ access[c] = "none"
  BY <1>1 DEF Search, Starts, Accesses
<1> QED
  BY <1>1, <1>2, <1>3, <1>5, <1>6, <1>7, ReaderStep DEF Search

\* A search makes a call to an index.
LEMMA SearchCalls ==
  ASSUME SInv, NEW p \in Process, todo[p] # <<>>, ~Changing(p), Goes(p),
         UNCHANGED <<data, docs>>, access' = [access EXCEPT ![p] = "none"]
  PROVE  SInv'
<1> USE DEF SInv
<1>1. op[p].name = "Search" /\ op[p] # Idle /\ todo[p] \in Seq(Call) /\ Left(p) \subseteq Index
  BY OperationFacts DEF Control, Typed
<1>4. access' \in [Process -> {"none", "in", "raced"}] /\ access'[p] = "none"
      /\ \A q \in Process \ {p} : access'[q] = access[q]
  BY DEF Typed
<1>2. CASE Len(todo[p]) = 1
  <2>1. /\ todo' = [todo EXCEPT ![p] = <<>>] /\ op' = [op EXCEPT ![p] = Idle]
        /\ copy' = [copy EXCEPT ![p] = Absent] /\ snap' = [snap EXCEPT ![p] = Nothing]
        /\ met' = [met EXCEPT ![p] = {}] /\ clean' = clean
    BY <1>2 DEF Goes, Ends
  <2>2. /\ todo'[p] = <<>> /\ op'[p] = Idle
        /\ \A q \in Process \ {p} :
             /\ todo'[q] = todo[q] /\ op'[q] = op[q]
             /\ snap'[q] = snap[q] /\ met'[q] = met[q]
    BY <2>1 DEF Typed
  <2>3. ~Changing(p)' /\ op'[p].name # "Search"
    BY <2>2 DEF Changing, Idle
  <2>4. Typed'
    BY <1>4, <2>1 DEF Typed, Operation, Nothing, Contents
  <2>5. Control'
    BY <2>2, <2>3 DEF Control, Changing, Updating, Rebuilds, Left
  <2> QED
    BY <1>4, <2>1, <2>2, <2>3, <2>4, <2>5, ReaderStep
<1>3. CASE Len(todo[p]) # 1
  <2>1. /\ todo' = [todo EXCEPT ![p] = Tail(todo[p])]
        /\ UNCHANGED <<op, copy, snap, met, clean>>
    BY <1>3 DEF Goes
  <2>2. /\ todo'[p] = Tail(todo[p]) /\ Tail(todo[p]) \in Seq(Call)
        /\ \A q \in Process \ {p} : todo'[q] = todo[q]
    BY <1>1, <2>1, ReceiveQueue DEF Typed
  <2>3. Tail(todo[p]) # <<>>
    <3>1. Len(Tail(todo[p])) = Len(todo[p]) - 1 /\ Len(todo[p]) \in Nat
      BY <1>1, ReceiveQueue, LenProperties
    <3>2. ASSUME Tail(todo[p]) = <<>> PROVE Len(Tail(todo[p])) = Len(<<>>)
      BY <3>2, Zenon
    <3> QED
      BY <1>3, <3>1, <3>2
  <2>4. ToSet(Tail(todo[p])) \subseteq Index
    BY <1>1, HeadAndTail DEF Left
  <2>5. ~Changing(p)'
    BY <2>1 DEF Changing
  <2>6. Typed'
    BY <1>4, <2>1, <2>2 DEF Typed
  <2>7. Control'
    BY <1>1, <2>1, <2>2, <2>3, <2>4 DEF Control, Changing, Updating, Rebuilds, Left
  <2> QED
    BY <1>4, <2>1, <2>2, <2>5, <2>6, <2>7, ReaderStep
<1> QED
  BY <1>2, <1>3

-----------------------------------------------------------------------------
(* Steps of changes under way *)

\* A change that makes a call other than its last one.
LEMMA Continues ==
  ASSUME SInv, NEW p \in Process, todo[p] # <<>>, Changing(p), Head(todo[p]) # "lsa",
         todo' = [todo EXCEPT ![p] = Tail(@)], op' = op
  PROVE  /\ todo' \in [Process -> Seq(Call)] /\ Control'
         /\ Left(p)' = Left(p) \ {Head(todo[p])}
         /\ \A q \in Process \ {p} : Left(q)' = Left(q)
         /\ \A q \in Process :
              /\ (Changing(q)' <=> Changing(q)) /\ (Rebuilds(q)' <=> Rebuilds(q))
              /\ (Updating(q)' <=> Updating(q))
<1> USE DEF SInv
<1>1. /\ todo'[p] = Tail(todo[p]) /\ \A q \in Process \ {p} : todo'[q] = todo[q]
      /\ DOMAIN todo' = Process /\ todo' = [todo EXCEPT ![p] = todo'[p]]
  BY DEF Typed
<1>2. \A q \in Process :
        /\ (Changing(q)' <=> Changing(q)) /\ (Rebuilds(q)' <=> Rebuilds(q))
        /\ (Updating(q)' <=> Updating(q))
  BY DEF Changing, Rebuilds, Updating
<1>3. /\ todo'[p] \in Seq(Call) /\ todo'[p] # <<>>
      /\ Left(p)' = Left(p) \ {Head(todo[p])}
      /\ Updating(p) => todo'[p] \in UpdateRest
      /\ Rebuilds(p) => todo'[p] \in CallbackRest
  <2>1. CASE Updating(p)
    <3>1. todo[p] \in UpdateRest /\ ~Rebuilds(p)
      BY <2>1, OperationFacts DEF Control
    <3>2. Tail(todo[p]) \in UpdateRest /\ ToSet(Tail(todo[p])) = ToSet(todo[p]) \ {Head(todo[p])}
      BY <3>1, UpdateRests
    <3> QED
      BY <1>1, <3>1, <3>2, UpdateRests DEF Left
  <2>2. CASE Rebuilds(p)
    <3>1. todo[p] \in CallbackRest /\ ~Updating(p)
      BY <2>2, OperationFacts DEF Control
    <3>2. Tail(todo[p]) \in CallbackRest /\ ToSet(Tail(todo[p])) = ToSet(todo[p]) \ {Head(todo[p])}
      BY <3>1, CallbackRests
    <3> QED
      BY <1>1, <3>1, <3>2, CallbackRests DEF Left
  <2> QED
    BY <2>1, <2>2, OperationFacts
<1>4. todo' \in [Process -> Seq(Call)]
  BY <1>1, <1>3 DEF Typed
<1>5. op[p] # Idle /\ op[p].name # "Search"
  BY OperationFacts DEF Changing
<1>6. \A q \in Process \ {p} : Left(q)' = Left(q)
  BY <1>1 DEF Left
<1>7. Control'
  BY <1>1, <1>2, <1>3, <1>5, <1>6 DEF Control
<1> QED
  BY <1>2, <1>3, <1>4, <1>6, <1>7

\* It goes on after the call: nothing but its list of calls changes.
LEMMA GoesOn ==
  ASSUME SInv, NEW p \in Process, todo[p] # <<>>, Changing(p)
  PROVE  /\ Len(todo[p]) = 1 <=> Head(todo[p]) = "lsa"
         /\ Head(todo[p]) \in Left(p)
         /\ Head(todo[p]) = "set" => /\ Rebuilds(p) /\ "items" \in Left(p)
                                     /\ TextIndex \subseteq Left(p)
         /\ Head(todo[p]) \in TextIndex /\ Rebuilds(p) => "items" \notin Left(p)
         /\ Head(todo[p]) = "lsa" => Left(p) = {"lsa"}
         /\ \A i \in TextIndex : i \in Left(p) /\ "items" \notin Left(p) => Rebuilds(p)
<1>1. CASE Updating(p)
  <2>1. todo[p] \in UpdateRest /\ ~Rebuilds(p)
    BY <1>1, OperationFacts DEF SInv, Control
  <2>2. \A i \in TextIndex : i \in Left(p) => "items" \in Left(p)
    BY <2>1, UpdateRests DEF Left
  <2> QED
    BY <2>1, <2>2, UpdateRests DEF Left
<1>2. CASE Rebuilds(p)
  <2>1. todo[p] \in CallbackRest
    BY <1>2 DEF SInv, Control
  <2> QED
    BY <1>2, <2>1, CallbackRests DEF Left, Call, Index
<1> QED
  BY <1>1, <1>2, OperationFacts DEF SInv

LEMMA ItemsStep ==
  ASSUME SInv, NEW p \in Process, Items(p)
  PROVE  SInv'
<1> USE DEF SInv
<1>1. /\ todo[p] # <<>> /\ Head(todo[p]) = "items"
      /\ todo' = [todo EXCEPT ![p] = Tail(@)] /\ snap' = [snap EXCEPT ![p] = data]
      /\ UNCHANGED <<data, docs, access, op, copy, met, clean>>
  BY DEF Items, Calling
<1>2. Changing(p)
  <2>1. SUFFICES ASSUME ~Changing(p) PROVE FALSE
    OBVIOUS
  <2>2. Left(p) \subseteq Index /\ Head(todo[p]) \in Left(p)
    BY <1>1, <2>1, OperationFacts, ReceiveQueue DEF Control, Typed, Left
  <2> QED
    BY <1>1, <2>2 DEF Index, TextIndex
<1>3. /\ todo' \in [Process -> Seq(Call)] /\ Control'
      /\ Left(p)' = Left(p) \ {"items"} /\ \A q \in Process \ {p} : Left(q)' = Left(q)
      /\ \A q \in Process :
           /\ (Changing(q)' <=> Changing(q)) /\ (Rebuilds(q)' <=> Rebuilds(q))
           /\ (Updating(q)' <=> Updating(q)) /\ (Alone(q)' <=> Alone(q))
  <2>1. Head(todo[p]) # "lsa"
    BY <1>1
  <2>2. \A q \in Process : Alone(q)' <=> Alone(q)
    BY <1>1 DEF Alone
  <2> QED
    BY <1>1, <1>2, <2>1, <2>2, Continues
<1>4. snap'[p] = data /\ \A q \in Process \ {p} : snap'[q] = snap[q]
  BY <1>1 DEF Typed
<1>5. Typed'
  BY <1>1, <1>3 DEF Typed
<1>6. BothMet' /\ CleanAtRest' /\ UndisturbedChangesAgree'
  BY <1>1, <1>3 DEF BothMet, CleanAtRest, UndisturbedChangesAgree
<1>7. CopyOfClean'
  BY <1>1, <1>3, <1>4 DEF CopyOfClean
<1>8. \A i \in TextIndex : i # "items"
  BY DEF TextIndex
<1>9. OwnKey'
  BY <1>1, <1>3, <1>8 DEF OwnKey
<1>10. AllKeys'
  BY <1>1, <1>3, <1>8 DEF AllKeys
<1>11. Accesses'
  <2>1. access[p] = "none"
    BY <1>1, <1>8 DEF Accesses, Typed
  <2>2. \A q \in Process \ {p} : todo'[q] = todo[q]
    BY <1>1 DEF Typed
  <2> QED
    BY <1>1, <1>3, <2>1, <2>2, AccessesKept
<1> QED
  BY <1>3, <1>5, <1>6, <1>7, <1>9, <1>10, <1>11

LEMMA CallbackSetStep ==
  ASSUME SInv, NEW w \in Worker, CallbackSet(w)
  PROVE  SInv'
<1> DEFINE k == op[w].key
<1> USE DEF SInv
<1>1. w \in Process /\ todo[w] # <<>> /\ Head(todo[w]) = "set"
  BY DEF CallbackSet, Calling, Process
<1>2. Changing(w)
  <2>1. SUFFICES ASSUME ~Changing(w) PROVE FALSE
    OBVIOUS
  <2>2. Left(w) \subseteq Index /\ Head(todo[w]) \in Left(w)
    BY <1>1, <2>1, OperationFacts, ReceiveQueue DEF Control, Typed, Left
  <2> QED
    BY <1>1, <2>2 DEF Index, TextIndex
<1>3. /\ Rebuilds(w) /\ "items" \in Left(w) /\ TextIndex \subseteq Left(w)
      /\ Len(todo[w]) # 1 /\ k \in Key /\ Scope(op[w]) = Key
  BY <1>1, <1>2, GoesOn, OperationFacts
<1>4. /\ todo' = [todo EXCEPT ![w] = Tail(@)]
      /\ UNCHANGED <<docs, access, op, copy, snap, met, clean>>
  BY <1>3 DEF CallbackSet, Goes
<1>5. /\ todo' \in [Process -> Seq(Call)] /\ Control'
      /\ Left(w)' = Left(w) \ {"set"} /\ \A q \in Process \ {w} : Left(q)' = Left(q)
      /\ \A q \in Process :
           /\ (Changing(q)' <=> Changing(q)) /\ (Rebuilds(q)' <=> Rebuilds(q))
           /\ (Updating(q)' <=> Updating(q)) /\ (Alone(q)' <=> Alone(q))
  <2>1. Head(todo[w]) # "lsa"
    BY <1>1
  <2>2. \A q \in Process : Alone(q)' <=> Alone(q)
    BY <1>4 DEF Alone
  <2> QED
    BY <1>1, <1>2, <1>4, <2>1, <2>2, Continues
<1>6. data' \in Contents /\ \A j \in Key : j # k => data'[j] = data[j]
  BY <1>1 DEF CallbackSet, Typed, Contents
<1>7. "items" \in Left(w)' /\ TextIndex \subseteq Left(w)'
  BY <1>3, <1>5 DEF TextIndex
<1>8. \A q \in Process \ {w} : Changing(q) => ~Alone(q) /\ op[q].key \in met[q]
  BY <1>1, <1>2, <1>3, Apart, OperationFacts
<1>9. \A i \in Index : k \notin clean[i]
  BY <1>1, <1>2 DEF CleanAtRest
<1>10. Typed'
  BY <1>4, <1>5, <1>6 DEF Typed
<1>11. BothMet' /\ CleanAtRest'
  BY <1>4, <1>5 DEF BothMet, CleanAtRest
<1>12. UndisturbedChangesAgree'
  BY <1>4, <1>6, <1>9 DEF UndisturbedChangesAgree, Typed
<1>13. CopyOfClean'
  <2> SUFFICES ASSUME NEW q \in Process, Changing(q), "items" \notin Left(q)'
               PROVE  /\ \A i \in Index : i \in Left(q)' =>
                           \A j \in clean[i] : snap[q][j] = data'[j]
                      /\ ~Alone(q)
    BY <1>4, <1>5 DEF CopyOfClean
  <2>1. q # w /\ "items" \notin Left(q) /\ Left(q)' = Left(q)
    BY <1>5, <1>7
  <2>2. ASSUME NEW i \in Index, i \in Left(q), NEW j \in clean[i]
        PROVE  snap[q][j] = data'[j]
    <3>1. j \in Key /\ j # k
      BY <1>9, <2>2 DEF Typed
    <3>2. snap[q][j] = data[j]
      BY <2>1, <2>2 DEF CopyOfClean
    <3> QED
      BY <1>6, <3>1, <3>2
  <2> QED
    BY <1>8, <2>1, <2>2
<1>14. OwnKey'
  <2> SUFFICES ASSUME NEW q \in Process, Updating(q), op[q].key \notin met[q]
               PROVE  FALSE
    BY <1>4, <1>5 DEF OwnKey
  <2>1. q # w /\ Changing(q)
    BY <1>3, OperationFacts
  <2> QED
    BY <1>8, <2>1
<1>15. AllKeys'
  <2> SUFFICES ASSUME NEW q \in Process, Rebuilds(q), Alone(q), NEW i \in TextIndex
               PROVE  i \in Left(q)'
    BY <1>5 DEF AllKeys
  <2>1. q = w
    BY <1>8, OperationFacts
  <2> QED
    BY <1>7, <2>1
<1>16. Accesses'
  <2>1. access[w] = "none"
    BY <1>1 DEF Accesses, TextIndex
  <2>2. \A q \in Process \ {w} : todo'[q] = todo[q]
    BY <1>4 DEF Typed
  <2> QED
    BY <1>1, <1>4, <1>5, <2>1, <2>2, AccessesKept
<1> QED
  BY <1>5, <1>10, <1>11, <1>12, <1>13, <1>14, <1>15, <1>16

\* The text index i gets the new text of a key, or a whole copy.
LEMMA UpdatedFacts ==
  ASSUME SInv, NEW p \in Process, Changing(p), NEW d \in Documents
  PROVE  /\ Updated(p, d) \in Documents
         /\ Updating(p) => /\ Updated(p, d)[op[p].key] \in {Wanted(op[p]), Unknown}
                           /\ \A j \in Key : j # op[p].key => Updated(p, d)[j] = d[j]
         /\ Rebuilds(p) => Updated(p, d) = snap[p]
<1>1. CASE Rebuilds(p)
  <2>1. Updated(p, d) = snap[p]
    BY <1>1 DEF Updated, Rebuilds
  <2> QED
    BY <1>1, <2>1, OperationFacts DEF SInv, Typed, Contents, Documents
<1>2. CASE Updating(p)
  <2>1. ~Rebuilds(p) /\ op[p].key \in Key /\ Wanted(op[p]) \in Text \cup {Absent}
    BY <1>2, OperationFacts DEF SInv
  <2>2. Updated(p, d) = IF d[op[p].key] = Unknown THEN d
                        ELSE [d EXCEPT ![op[p].key] = Wanted(op[p])]
    BY <1>2, OperationFacts DEF SInv, Updated, Replaced, Wanted
  <2> QED
    BY <2>1, <2>2 DEF Documents
<1> QED
  BY <1>1, <1>2, OperationFacts DEF SInv

\* A search goes into an index, or a change that is alone there, or one that
\* finds another change inside.
LEMMA EnterStep ==
  ASSUME SInv, NEW p \in Process, NEW i \in TextIndex, Enter(p, i)
  PROVE  SInv'
<1> DEFINE rivals == {q \in Process \ {p} : Inside(q, i) /\ Changing(q)}
<1> USE DEF SInv
<1>1. /\ todo[p] # <<>> /\ Head(todo[p]) = i /\ access[p] = "none"
      /\ UNCHANGED <<data, todo, op, copy, snap, met>> /\ i \in Index
  BY DEF Enter, Calling, Index
<1>2. \A q \in Process :
        /\ (Changing(q)' <=> Changing(q)) /\ (Rebuilds(q)' <=> Rebuilds(q))
        /\ (Updating(q)' <=> Updating(q)) /\ Left(q)' = Left(q) /\ (Alone(q)' <=> Alone(q))
  BY <1>1 DEF Changing, Updating, Rebuilds, Left, Alone
<1>3. Control' /\ BothMet'
  BY <1>1, <1>2 DEF Control, BothMet
<1>4. CASE ~(Changing(p) /\ rivals # {})
  <2>1. access' = [access EXCEPT ![p] = "in"] /\ UNCHANGED <<docs, clean>>
    BY <1>4 DEF Enter
  <2>2. access'[p] = "in" /\ \A q \in Process \ {p} : access'[q] = access[q]
    BY <2>1 DEF Typed
  <2>3. Typed'
    BY <1>1, <2>1 DEF Typed
  <2>4. CleanAtRest' /\ UndisturbedChangesAgree' /\ CopyOfClean'
    BY <1>1, <1>2, <2>1 DEF CleanAtRest, UndisturbedChangesAgree, CopyOfClean
  <2>5. OwnKey' /\ AllKeys'
    BY <1>1, <1>2, <2>1 DEF OwnKey, AllKeys
  <2>6. Accesses'
    <3>1. \A q \in Process : access'[q] # "none" => todo'[q] # <<>> /\ Head(todo'[q]) \in TextIndex
      BY <1>1, <2>2 DEF Accesses
    <3>2. \A q \in Process : access'[q] = "raced" =>
            Changing(q)' /\ ~Alone(q)' /\ InDisorder(docs'[Head(todo'[q])])
      BY <1>1, <1>2, <2>1, <2>2 DEF Accesses
    <3>3. ASSUME NEW q \in Process, NEW r \in Process, NEW h \in TextIndex,
                 q # r, Inside(q, h)', Inside(r, h)', Changing(q), Changing(r)
          PROVE  access'[q] = "raced"
      <4>1. h = i /\ (q = p \/ r = p) => rivals # {} /\ Changing(p)
        BY <1>1, <2>2, <3>3 DEF Inside, Calling
      <4>2. h # i => q # p /\ r # p
        BY <1>1, <3>3 DEF Inside, Calling
      <4>3. q # p /\ r # p
        BY <1>4, <4>1, <4>2
      <4>4. Inside(q, h) /\ Inside(r, h)
        BY <1>1, <2>2, <3>3, <4>3 DEF Inside, Calling
      <4> QED
        BY <2>2, <3>3, <4>3, <4>4 DEF Accesses
    <3> QED
      BY <1>2, <3>1, <3>2, <3>3 DEF Accesses, InDisorder
  <2> QED
    BY <1>3, <2>3, <2>4, <2>5, <2>6
<1>5. CASE Changing(p) /\ rivals # {}
  <2>1. /\ access' = [q \in Process |-> IF q \in rivals \cup {p} THEN "raced" ELSE access[q]]
        /\ docs' = [docs EXCEPT ![i] = [k \in Key |-> Unknown]]
        /\ clean' = [clean EXCEPT ![i] = {}]
    BY <1>5 DEF Enter
  <2>2. /\ docs'[i] = [k \in Key |-> Unknown] /\ \A h \in Index \ {i} : docs'[h] = docs[h]
        /\ \A h \in Index : clean'[h] \subseteq clean[h] /\ (h = i => clean'[h] = {})
    BY <1>1, <2>1 DEF Typed
  <2>3. \A q \in Process : Changing(q) => ~Alone(q)
    <3>1. PICK r \in rivals : TRUE
      BY <1>5
    <3>2. r \in Process /\ r # p /\ Changing(r)
      BY <3>1
    <3>3. ~Alone(p)
      BY <1>5, <3>2, Apart
    <3> QED
      BY <1>5, <3>3, Apart
  <2>4. Typed'
    <3>1. docs' \in [Index -> Documents]
      BY <2>1 DEF Typed, Documents
    <3>2. clean' \in [Index -> SUBSET Key] /\ access' \in [Process -> {"none", "in", "raced"}]
      BY <2>1 DEF Typed
    <3> QED
      BY <1>1, <3>1, <3>2 DEF Typed
  <2>5. CleanAtRest' /\ CopyOfClean'
    BY <1>1, <1>2, <2>2, <2>3 DEF CleanAtRest, CopyOfClean
  <2>6. UndisturbedChangesAgree'
    BY <1>1, <2>2 DEF UndisturbedChangesAgree
  <2>7. OwnKey'
    <3> SUFFICES ASSUME NEW q \in Process, Updating(q), op[q].key \notin met[q],
                        NEW h \in TextIndex, h \notin Left(q)
                 PROVE  /\ data[op[q].key] = Wanted(op[q])
                        /\ docs'[h][op[q].key] \in {data[op[q].key], Unknown}
      BY <1>1, <1>2 DEF OwnKey
    <3>1. data[op[q].key] = Wanted(op[q]) /\ docs[h][op[q].key] \in {data[op[q].key], Unknown}
      BY DEF OwnKey
    <3>2. op[q].key \in Key /\ h \in Index
      BY OperationFacts DEF Index
    <3> QED
      BY <2>2, <3>1, <3>2
  <2>8. AllKeys'
    BY <1>2, <2>3, OperationFacts DEF AllKeys
  <2>9. Accesses'
    <3>1. \A q \in rivals \cup {p} : q \in Process /\ Changing(q) /\ todo[q] # <<>> /\ Head(todo[q]) = i
      BY <1>1, <1>5 DEF Inside, Calling
    <3>2. \A q \in Process \ (rivals \cup {p}) : access'[q] = access[q]
      BY <2>1
    <3>3. \A q \in Process : access'[q] # "none" => todo'[q] # <<>> /\ Head(todo'[q]) \in TextIndex
      BY <1>1, <3>1, <3>2 DEF Accesses
    <3>4. ASSUME NEW q \in Process, access'[q] = "raced"
          PROVE  Changing(q)' /\ ~Alone(q)' /\ InDisorder(docs'[Head(todo'[q])])
      <4>1. CASE q \in rivals \cup {p}
        BY <1>1, <1>2, <2>2, <2>3, <3>1, <4>1 DEF InDisorder
      <4>2. CASE q \notin rivals \cup {p}
        <5>1. access[q] = "raced"
          BY <3>2, <3>4, <4>2
        <5>2. Changing(q) /\ InDisorder(docs[Head(todo[q])]) /\ Head(todo[q]) \in Index
          BY <5>1 DEF Accesses, Index
        <5>3. InDisorder(docs'[Head(todo[q])])
          BY <2>2, <5>2 DEF InDisorder
        <5> QED
          BY <1>1, <1>2, <2>3, <5>2, <5>3
      <4> QED
        BY <4>1, <4>2
    <3>5. ASSUME NEW q \in Process, NEW r \in Process, NEW h \in TextIndex,
                 q # r, Inside(q, h)', Inside(r, h)', Changing(q), Changing(r)
          PROVE  access'[q] = "raced"
      <4>1. CASE q \in rivals \cup {p}
        BY <2>1, <4>1
      <4>2. CASE q \notin rivals \cup {p}
        <5>1. Inside(q, h)
          BY <1>1, <3>2, <3>5, <4>2 DEF Inside, Calling
        <5>2. h # i
          BY <3>5, <4>2, <5>1
        <5>3. r \notin rivals \cup {p}
          BY <1>1, <3>1, <3>5, <5>2 DEF Inside, Calling
        <5>4. Inside(r, h)
          BY <1>1, <3>2, <3>5, <5>3 DEF Inside, Calling
        <5> QED
          BY <3>2, <3>5, <4>2, <5>1, <5>4 DEF Accesses
      <4> QED
        BY <4>1, <4>2
    <3> QED
      BY <1>2, <3>3, <3>4, <3>5 DEF Accesses, InDisorder
  <2> QED
    BY <1>3, <2>4, <2>5, <2>6, <2>7, <2>8, <2>9
<1> QED
  BY <1>4, <1>5

LEMMA TextIndexStep ==
  ASSUME SInv, NEW p \in Process, NEW i \in TextIndex, CallTextIndex(p, i)
  PROVE  SInv'
<1> DEFINE k == op[p].key
           d == IF access[p] = "raced" THEN docs[i] ELSE Updated(p, docs[i])
<1> USE DEF SInv
<1>1. /\ todo[p] # <<>> /\ Head(todo[p]) = i /\ Goes(p) /\ data' = data
      /\ access' = [access EXCEPT ![p] = "none"] /\ access[p] # "none"
      /\ access[p] = "raced" => docs' = docs
      /\ access[p] # "raced" => docs' = [docs EXCEPT ![i] = Updated(p, docs[i])]
  BY DEF CallTextIndex, Inside, Calling
<1>2. /\ docs[i] \in Documents /\ i \in Index /\ i # "lsa" /\ i # "items"
      /\ docs' = [docs EXCEPT ![i] = d]
      /\ docs'[i] = d /\ \A h \in Index \ {i} : docs'[h] = docs[h]
  <2>1. docs \in [Index -> Documents] /\ i \in Index /\ i # "lsa" /\ i # "items"
    BY DEF Typed, Index, TextIndex
  <2>2. docs' = [docs EXCEPT ![i] = d]
    <3>1. CASE access[p] = "raced"
      BY <1>1, <2>1, <3>1
    <3>2. CASE access[p] # "raced"
      BY <1>1, <3>2
    <3> QED
      BY <3>1, <3>2
  <2> HIDE DEF d
  <2> QED
    BY <2>1, <2>2
<1>3. CASE ~Changing(p)
  <2>1. op[p].name = "Search"
    BY <1>1, <1>3, OperationFacts DEF Control
  <2>2. d = docs[i]
    BY <2>1 DEF Updated
  <2>3. docs' = docs
    <3> HIDE DEF d
    <3> QED
      BY <1>2, <2>2 DEF Typed
  <2> QED
    BY <1>1, <1>3, <2>3, SearchCalls
<1>4. CASE Changing(p)
  <2>1. /\ Len(todo[p]) # 1 /\ i \in Left(p) /\ k \in Key /\ k \in Scope(op[p])
        /\ Rebuilds(p) => "items" \notin Left(p) /\ Scope(op[p]) = Key
    BY <1>1, <1>2, <1>4, GoesOn, OperationFacts
  <2>2. todo' = [todo EXCEPT ![p] = Tail(@)] /\ UNCHANGED <<op, copy, snap, met, clean>>
    BY <1>1, <2>1 DEF Goes
  <2>3. /\ todo' \in [Process -> Seq(Call)] /\ Control'
        /\ Left(p)' = Left(p) \ {i} /\ \A q \in Process \ {p} : Left(q)' = Left(q)
        /\ \A q \in Process :
             /\ (Changing(q)' <=> Changing(q)) /\ (Rebuilds(q)' <=> Rebuilds(q))
             /\ (Updating(q)' <=> Updating(q)) /\ (Alone(q)' <=> Alone(q))
    <3>1. Head(todo[p]) # "lsa"
      BY <1>1, <1>2
    <3>2. \A q \in Process : Alone(q)' <=> Alone(q)
      BY <2>2 DEF Alone
    <3> QED
      BY <1>1, <1>4, <2>2, <3>1, <3>2, Continues
  <2>4. /\ d \in Documents
        /\ Updating(p) => /\ d[k] \in {Wanted(op[p]), Unknown}
                          /\ \A j \in Key : j # k => d[j] = docs[i][j]
        /\ Rebuilds(p) => d = docs[i] \/ d = snap[p]
        /\ Rebuilds(p) /\ Alone(p) => d = snap[p]
    <3>1. CASE access[p] = "raced"
      <4>1. d = docs[i] /\ ~Alone(p) /\ \A j \in Key : docs[i][j] = Unknown
        BY <1>1, <3>1 DEF Accesses, InDisorder
      <4> HIDE DEF d
      <4> QED
        BY <1>2, <2>1, <4>1
    <3>2. CASE access[p] # "raced"
      <4>1. d = Updated(p, docs[i])
        BY <3>2
      <4> HIDE DEF d
      <4> QED
        BY <1>2, <1>4, <4>1, UpdatedFacts
    <3> QED
      BY <3>1, <3>2
  <2>11. Accesses'
    <3>1. /\ access'[p] = "none"
          /\ \A q \in Process \ {p} : access'[q] = access[q] /\ todo'[q] = todo[q]
      BY <1>1, <2>2 DEF Typed
    <3>2. ASSUME NEW q \in Process \ {p}, access[q] = "raced"
          PROVE  docs'[Head(todo[q])] = docs[Head(todo[q])]
      <4>1. Head(todo[q]) \in Index /\ todo[q] # <<>> /\ Changing(q)
        BY <3>2 DEF Accesses, Index
      <4>2. CASE Head(todo[q]) = i
        <5>1. Inside(p, i) /\ Inside(q, i)
          BY <1>1, <3>2, <4>1, <4>2 DEF Inside, Calling
        <5>2. access[p] = "raced"
          BY <1>4, <3>2, <4>1, <5>1 DEF Accesses
        <5> QED
          BY <1>1, <5>2
      <4>3. CASE Head(todo[q]) # i
        BY <1>2, <4>1, <4>3
      <4> QED
        BY <4>2, <4>3
    <3> QED
      BY <2>3, <3>1, <3>2, AccessesKept
  <2> HIDE DEF d
  <2>5. Typed'
    <3>1. docs' \in [Index -> Documents]
      BY <1>2, <2>4 DEF Typed
    <3>2. access' \in [Process -> {"none", "in", "raced"}]
      BY <1>1 DEF Typed
    <3> QED
      BY <1>1, <2>2, <2>3, <3>1, <3>2 DEF Typed
  <2>6. BothMet' /\ CleanAtRest'
    BY <2>2, <2>3 DEF BothMet, CleanAtRest
  <2>7. UndisturbedChangesAgree'
    <3>1. ASSUME NEW j \in clean[i] PROVE d[j] = data[j]
      <4>1. j # k /\ j \in Key /\ docs[i][j] = data[j]
        BY <1>2, <1>4, <3>1 DEF CleanAtRest, Typed, UndisturbedChangesAgree
      <4>2. CASE Updating(p)
        BY <2>4, <4>1, <4>2
      <4>3. CASE Rebuilds(p)
        BY <1>2, <1>4, <2>1, <2>4, <3>1, <4>1, <4>3 DEF CopyOfClean
      <4> QED
        BY <1>4, <4>2, <4>3, OperationFacts
    <3> QED
      BY <1>1, <1>2, <2>2, <3>1 DEF UndisturbedChangesAgree
  <2>8. CopyOfClean'
    <3>1. \A q \in Process : Left(q)' \subseteq Left(q) /\ ("items" \in Left(q) => "items" \in Left(q)')
      BY <1>2, <2>3
    <3> QED
      BY <1>1, <2>2, <2>3, <3>1 DEF CopyOfClean
  <2>9. OwnKey'
    <3> SUFFICES ASSUME NEW q \in Process, Updating(q), op[q].key \notin met[q]
                 PROVE  /\ data[op[q].key] = Wanted(op[q])
                        /\ \A h \in TextIndex : h \notin Left(q)' =>
                             docs'[h][op[q].key] \in {data[op[q].key], Unknown}
      BY <1>1, <2>2, <2>3 DEF OwnKey
    <3>1. /\ data[op[q].key] = Wanted(op[q]) /\ Changing(q) /\ op[q].key \in Key
          /\ \A h \in TextIndex : h \notin Left(q) =>
               docs[h][op[q].key] \in {data[op[q].key], Unknown}
      BY OperationFacts DEF OwnKey
    <3>2. \A h \in TextIndex : h # i => docs'[h] = docs[h]
      BY <1>2 DEF Index
    <3>3. CASE q = p
      <4>1. d[op[q].key] \in {data[op[q].key], Unknown}
        BY <2>4, <3>1, <3>3
      <4> QED
        BY <1>2, <2>3, <3>1, <3>2, <3>3, <4>1
    <3>4. CASE q # p
      <4>1. k # op[q].key /\ ~Rebuilds(p)
        BY <1>4, <3>1, <3>4, Apart
      <4>2. d[op[q].key] = docs[i][op[q].key]
        BY <1>4, <2>4, <3>1, <4>1, OperationFacts
      <4> QED
        BY <1>2, <2>3, <3>1, <3>2, <3>4, <4>2
    <3> QED
      BY <3>3, <3>4
  <2>10. AllKeys'
    <3> SUFFICES ASSUME NEW q \in Process, Rebuilds(q), Alone(q),
                        NEW h \in TextIndex, h \notin Left(q)'
                 PROVE  docs'[h] = data
      BY <1>1, <2>3 DEF AllKeys
    <3>1. q = p
      BY <1>4, Apart, OperationFacts
    <3>2. CASE h = i
      BY <1>2, <1>4, <2>1, <2>4, <3>1, <3>2 DEF CopyOfClean
    <3>3. CASE h # i
      BY <1>2, <2>3, <3>1, <3>3 DEF AllKeys, Index
    <3> QED
      BY <3>2, <3>3
  <2> QED
    BY <2>3, <2>5, <2>6, <2>7, <2>8, <2>9, <2>10, <2>11
<1> QED
  BY <1>3, <1>4

\* The keys a change leaves clean are those on which it met nobody, and the
\* store and the indexes agree on them.
LEMMA CleanedAgrees ==
  ASSUME SInv, NEW p \in Process, Changing(p), Left(p) = {"lsa"}, NEW i \in Index
  PROVE  /\ Cleaned(p, i) \subseteq Key
         /\ \A k \in Cleaned(p, i) :
              IF i = "lsa" THEN snap[p][k] = data[k] ELSE docs[i][k] = data[k]
         /\ \A k \in Cleaned(p, i) : \A q \in Process \ {p} : Changing(q) =>
              /\ op[q].key # k
              /\ i \in Left(q) => "items" \in Left(q)
<1> USE DEF SInv
<1>1. /\ Scope(op[p]) \subseteq Key /\ "items" \notin Left(p)
      /\ \A h \in TextIndex : h \notin Left(p)
  BY OperationFacts DEF TextIndex
<1>2. \A q \in Process \ {p} : Changing(q) =>
        /\ ~Alone(p)
        /\ op[p].key \notin met[p] => op[q].key # op[p].key /\ ~Rebuilds(q)
  BY Apart
<1>3. CASE i = "lsa" \/ Rebuilds(p)
  <2>1. Cleaned(p, i) = IF Alone(p) THEN Scope(op[p]) ELSE {}
    BY <1>3 DEF Cleaned, Alone, Rebuilds
  <2>2. Alone(p) => snap[p] = data
    BY <1>1 DEF CopyOfClean
  <2>3. i # "lsa" /\ Alone(p) => docs[i] = data
    BY <1>1, <1>3 DEF AllKeys, Index
  <2> QED
    BY <1>1, <1>2, <2>1, <2>2, <2>3
<1>4. CASE i # "lsa" /\ ~Rebuilds(p)
  <2>1. i \in TextIndex /\ Updating(p) /\ Scope(op[p]) = {op[p].key}
    BY <1>4, OperationFacts DEF Index
  <2>2. Cleaned(p, i) = {k \in {op[p].key} \ met[p] : docs[i][k] # Unknown}
    BY <1>4, <2>1 DEF Cleaned, Rebuilds
  <2>3. op[p].key \notin met[p] => docs[i][op[p].key] \in {data[op[p].key], Unknown}
    BY <1>1, <2>1 DEF OwnKey
  <2>4. ASSUME NEW q \in Process \ {p}, Changing(q), op[p].key \notin met[p], i \in Left(q)
        PROVE  "items" \in Left(q)
    <3>1. ~Rebuilds(q)
      BY <1>2, <2>4
    <3>2. todo[q] # <<>>
      BY <2>4, OperationFacts DEF Control
    <3> QED
      BY <2>1, <2>4, <3>1, <3>2, GoesOn
  <2> QED
    BY <1>1, <1>2, <1>4, <2>1, <2>2, <2>3, <2>4
<1> QED
  BY <1>3, <1>4

\* The rebuild of the LSA index is the last call of every change.
LEMMA LSAStep ==
  ASSUME SInv, NEW p \in Process, CallLSA(p)
  PROVE  SInv'
<1> USE DEF SInv
<1>1. todo[p] # <<>> /\ Head(todo[p]) = "lsa" /\ Goes(p) /\ data' = data /\ access' = access
  BY DEF CallLSA, Calling
<1>2. "lsa" \in Index /\ \A i \in TextIndex : i \in Index /\ i # "lsa"
  BY DEF Index, TextIndex
<1>3. CASE ~Changing(p)
  <2>1. docs' = docs
    BY <1>2, <1>3 DEF CallLSA, Typed
  <2>2. access' = [access EXCEPT ![p] = "none"]
    BY <1>1, <1>2 DEF Accesses, Typed
  <2> QED
    BY <1>1, <1>3, <2>1, <2>2, SearchCalls
<1>4. CASE Changing(p)
  <2>1. Len(todo[p]) = 1 /\ Left(p) = {"lsa"}
    BY <1>1, <1>4, GoesOn
  <2>2. /\ todo' = [todo EXCEPT ![p] = <<>>] /\ op' = [op EXCEPT ![p] = Idle]
        /\ copy' = [copy EXCEPT ![p] = Absent] /\ snap' = [snap EXCEPT ![p] = Nothing]
        /\ met' = [met EXCEPT ![p] = {}]
        /\ clean' = [i \in Index |-> clean[i] \cup Cleaned(p, i)]
    BY <1>1, <1>4, <2>1 DEF Goes, Ends
  <2>3. /\ todo'[p] = <<>> /\ op'[p] = Idle
        /\ \A q \in Process \ {p} :
             /\ todo'[q] = todo[q] /\ op'[q] = op[q]
             /\ snap'[q] = snap[q] /\ met'[q] = met[q]
    BY <2>2 DEF Typed
  <2>4. /\ ~Changing(p)' /\ ~Updating(p)' /\ ~Rebuilds(p)' /\ op'[p].name # "Search"
        /\ \A q \in Process \ {p} :
             /\ (Changing(q)' <=> Changing(q)) /\ (Rebuilds(q)' <=> Rebuilds(q))
             /\ (Updating(q)' <=> Updating(q)) /\ (Alone(q)' <=> Alone(q))
             /\ Left(q)' = Left(q)
    BY <2>3 DEF Changing, Updating, Rebuilds, Alone, Left, Idle
  <2>5. docs' = [docs EXCEPT !["lsa"] = snap[p]]
    BY <1>4 DEF CallLSA
  <2>6. docs'["lsa"] = snap[p] /\ \A i \in TextIndex : docs'[i] = docs[i]
    BY <1>2, <2>5 DEF Typed
  <2>7. Typed'
    <3>1. \A i \in Index : clean[i] \cup Cleaned(p, i) \subseteq Key
      BY <1>4, <2>1, CleanedAgrees DEF Typed
    <3>2. clean' \in [Index -> SUBSET Key]
      BY <2>2, <3>1
    <3>3. docs' \in [Index -> Documents]
      <4>1. snap[p] \in Documents
        BY DEF Typed, Contents, Documents
      <4> QED
        BY <2>5, <4>1 DEF Typed
    <3>4. Nothing \in Contents /\ Idle \in Operation
      BY DEF Nothing, Contents, Operation
    <3> QED
      BY <1>1, <2>2, <3>2, <3>3, <3>4 DEF Typed
  <2>8. Control'
    BY <2>3, <2>4 DEF Control
  <2>9. BothMet'
    BY <2>3, <2>4 DEF BothMet
  <2>10. CleanAtRest'
    BY <1>4, <2>1, <2>2, <2>3, <2>4, CleanedAgrees DEF CleanAtRest
  <2>11. CopyOfClean'
    <3> SUFFICES ASSUME NEW q \in Process \ {p}, Changing(q), "items" \notin Left(q)
                 PROVE  /\ \A i \in Index : i \in Left(q) =>
                             \A k \in clean'[i] : snap[q][k] = data[k]
                        /\ Alone(q) => snap[q] = data
      BY <1>1, <2>3, <2>4 DEF CopyOfClean
    <3>1. Alone(q) => snap[q] = data
      BY DEF CopyOfClean
    <3>2. ASSUME NEW i \in Index, i \in Left(q), NEW k \in clean'[i]
          PROVE  snap[q][k] = data[k]
      <4>1. k \in clean[i]
        BY <1>4, <2>1, <2>2, <3>2, CleanedAgrees
      <4> QED
        BY <3>2, <4>1 DEF CopyOfClean
    <3> QED
      BY <3>1, <3>2
  <2>12. OwnKey'
    BY <1>1, <2>3, <2>4, <2>6 DEF OwnKey
  <2>13. AllKeys'
    BY <1>1, <2>3, <2>4, <2>6 DEF AllKeys
  <2>14. UndisturbedChangesAgree'
    <3> SUFFICES ASSUME NEW i \in Index, NEW k \in clean'[i]
                 PROVE  docs'[i][k] = data[k]
      BY <1>1 DEF UndisturbedChangesAgree
    <3>1. CASE k \in Cleaned(p, i)
      BY <1>4, <2>1, <2>6, <3>1, CleanedAgrees DEF Index
    <3>2. CASE k \in clean[i]
      <4>1. CASE i = "lsa"
        BY <1>2, <1>4, <2>1, <2>6, <3>2, <4>1 DEF CopyOfClean
      <4>2. CASE i # "lsa"
        BY <2>6, <3>2, <4>2 DEF Index, UndisturbedChangesAgree
      <4> QED
        BY <4>1, <4>2
    <3> QED
      BY <2>2, <3>1, <3>2
  <2>15. Accesses'
    <3>1. access[p] = "none"
      BY <1>1, <1>2 DEF Accesses
    <3>2. \A q \in Process \ {p} : access[q] = "raced" => docs'[Head(todo[q])] = docs[Head(todo[q])]
      BY <2>6 DEF Accesses
    <3> QED
      BY <1>1, <2>3, <2>4, <3>1, <3>2, AccessesKept
  <2> QED
    BY <2>7, <2>8, <2>9, <2>10, <2>11, <2>12, <2>13, <2>14, <2>15
<1> QED
  BY <1>3, <1>4

LEMMA ExpireStep ==
  ASSUME SInv, NEW k \in Expiring, Expire(k)
  PROVE  SInv'
<1> USE DEF SInv
<1>1. /\ k \in Key /\ data' = [data EXCEPT ![k] = Absent]
      /\ UNCHANGED <<docs, access, todo, op, copy, snap>>
  BY ExpiringAssumption DEF Expire
<1>2. data' \in Contents /\ \A j \in Key \ {k} : data'[j] = data[j]
  BY <1>1 DEF Typed, Contents
<1>3. /\ met' \in [Process -> SUBSET Key]
      /\ \A p \in Process : met[p] \subseteq met'[p] /\ (Changing(p) => k \in met'[p])
  BY <1>1 DEF Expire, Typed
<1>4. clean' \in [Index -> SUBSET Key] /\ \A i \in Index : clean'[i] = clean[i] \ {k}
  BY DEF Expire, Typed
<1>5. \A p \in Process :
        /\ (Changing(p)' <=> Changing(p)) /\ (Rebuilds(p)' <=> Rebuilds(p))
        /\ (Updating(p)' <=> Updating(p)) /\ Left(p)' = Left(p)
        /\ Changing(p) => ~Alone(p)'
  BY <1>1, <1>3 DEF Changing, Updating, Rebuilds, Left, Alone
<1>6. Typed'
  BY <1>1, <1>2, <1>3, <1>4 DEF Typed
<1>7. Control'
  BY <1>1, <1>5 DEF Control
<1>8. BothMet'
  BY <1>1, <1>3, <1>5 DEF BothMet
<1>9. CleanAtRest'
  BY <1>1, <1>4, <1>5 DEF CleanAtRest
<1>10. CopyOfClean'
  BY <1>1, <1>2, <1>4, <1>5 DEF CopyOfClean, Typed
<1>11. OwnKey'
  <2> SUFFICES ASSUME NEW p \in Process, Updating(p), op[p].key \notin met'[p]
               PROVE  /\ data'[op[p].key] = Wanted(op[p])
                      /\ \A i \in TextIndex : i \notin Left(p) =>
                           docs[i][op[p].key] \in {data'[op[p].key], Unknown}
    BY <1>1, <1>5 DEF OwnKey
  <2>1. op[p].key \notin met[p] /\ op[p].key \in Key \ {k}
    BY <1>3, OperationFacts
  <2> QED
    BY <1>2, <2>1 DEF OwnKey
<1>12. AllKeys'
  BY <1>5, OperationFacts DEF AllKeys
<1>13. UndisturbedChangesAgree'
  BY <1>1, <1>2, <1>4 DEF UndisturbedChangesAgree, Typed
<1>14. Accesses'
  BY <1>1, <1>5 DEF Accesses, Inside, Calling, InDisorder
<1> QED
  BY <1>6, <1>7, <1>8, <1>9, <1>10, <1>11, <1>12, <1>13, <1>14

-----------------------------------------------------------------------------

LEMMA ServiceInit == Init => SInv
<1> SUFFICES ASSUME Init PROVE SInv
  OBVIOUS
<1> USE DEF Init
<1>1. \A p \in Process : ~Changing(p) /\ ~Updating(p) /\ ~Rebuilds(p) /\ op[p].name # "Search"
  BY DEF Changing, Updating, Rebuilds, Idle
<1>2. Typed
  BY DEF Typed, Nothing, Contents, Documents, Operation
<1>5. Accesses
  BY DEF Accesses, Inside
<1>3. Control
  BY <1>1 DEF Control
<1>4. UndisturbedChangesAgree
  BY DEF UndisturbedChangesAgree
<1> QED
  BY <1>1, <1>2, <1>3, <1>4, <1>5
  DEF SInv, BothMet, CleanAtRest, CopyOfClean, OwnKey, AllKeys

\* The requests and callbacks begin as BeginStep says.
LEMMA ChangesBegin ==
  ASSUME SInv, NEW k \in Key
  PROVE  /\ \A c \in Client : Delete(c, k) => SInv'
         /\ \A c \in Client, text \in Text : Set(c, k, text) => SInv'
         /\ \A w \in Worker : Callback(w, k) => SInv'
<1>1. /\ data \in Contents /\ copy \in [Process -> Text \cup {Absent}]
      /\ Client \subseteq Process /\ Worker \subseteq Process
  BY DEF SInv, Typed, Process
<1>2. ASSUME NEW c \in Client, Delete(c, k) PROVE SInv'
  <2> DEFINE o == [name |-> "Delete", key |-> k]
  <2>1. o \in Operation /\ o.name = "Delete" /\ o.key = k /\ Wanted(o) = Absent
    BY DEF Operation, Wanted
  <2>2. Starts(c, o, Updates) /\ Meet(c, o) /\ UNCHANGED <<docs, access, snap>> /\ copy' = copy
    BY <1>2 DEF Delete
  <2>3. data' = [data EXCEPT ![k] = Absent]
    BY <1>2 DEF Delete
  <2>4. data' \in Contents /\ data'[k] = Absent /\ \A j \in Key : j # k => data'[j] = data[j]
    BY <1>1, <2>3 DEF Contents
  <2> HIDE DEF o
  <2> QED
    BY <1>1, <2>1, <2>2, <2>4, BeginStep
<1>3. ASSUME NEW c \in Client, NEW text \in Text, Set(c, k, text) PROVE SInv'
  <2> DEFINE o == [name |-> "Set", key |-> k, text |-> text]
  <2>1. o \in Operation /\ o.name = "Set" /\ o.key = k /\ Wanted(o) = text
    BY DEF Operation, Wanted
  <2>2. Starts(c, o, Updates) /\ Meet(c, o) /\ UNCHANGED <<docs, access, snap>> /\ copy' = copy
    BY <1>3 DEF Set
  <2>3. data' = [data EXCEPT ![k] = text]
    BY <1>3 DEF Set
  <2>4. data' \in Contents /\ data'[k] = text /\ \A j \in Key : j # k => data'[j] = data[j]
    BY <1>1, <2>3 DEF Contents
  <2> HIDE DEF o
  <2> QED
    BY <1>1, <2>1, <2>2, <2>4, BeginStep
<1>4. ASSUME NEW w \in Worker, Callback(w, k) PROVE SInv'
  <2> DEFINE o == [name |-> "Callback", key |-> k]
  <2>1. o \in Operation /\ o.name = "Callback" /\ o.key = k
    BY DEF Operation
  <2>2. /\ Starts(w, o, CallbackCalls) /\ Meet(w, o) /\ UNCHANGED <<docs, access, snap>>
        /\ data' = data /\ copy' = [copy EXCEPT ![w] = data[k]]
    BY <1>4 DEF Callback
  <2>3. copy' \in [Process -> Text \cup {Absent}]
    BY <1>1, <2>2 DEF Contents
  <2> HIDE DEF o
  <2> QED
    BY <1>1, <2>1, <2>2, <2>3, BeginStep
<1> QED
  BY <1>2, <1>3, <1>4

LEMMA ServiceNext == SInv /\ [Next]_vars => SInv'
<1> SUFFICES ASSUME SInv, [Next]_vars PROVE SInv'
  OBVIOUS
<1>1. CASE \E c \in Client, k \in Key : Delete(c, k) \/ \E text \in Text : Set(c, k, text)
  BY <1>1, ChangesBegin
<1>2. CASE \E c \in Client, calls \in Searches : Search(c, calls)
  BY <1>2, SearchStarts
<1>3. CASE \E w \in Worker : CallbackSet(w) \/ \E k \in Key : Callback(w, k)
  BY <1>3, CallbackSetStep, ChangesBegin
<1>4. CASE \E p \in Process : Items(p) \/ CallLSA(p) \/ \E i \in TextIndex : Enter(p, i) \/ CallTextIndex(p, i)
  BY <1>4, ItemsStep, LSAStep, EnterStep, TextIndexStep
<1>5. CASE \E k \in Expiring : Expire(k)
  BY <1>5, ExpireStep
<1>6. CASE UNCHANGED vars
  <2>1. UNCHANGED <<data, docs, access, todo, op, copy, snap, met, clean>>
    BY <1>6 DEF vars
  <2>2. \A p \in Process :
          /\ (Changing(p)' <=> Changing(p)) /\ (Rebuilds(p)' <=> Rebuilds(p))
          /\ (Updating(p)' <=> Updating(p)) /\ Left(p)' = Left(p) /\ (Alone(p)' <=> Alone(p))
    BY <2>1 DEF Changing, Updating, Rebuilds, Left, Alone
  <2>3. Typed' /\ Control' /\ BothMet' /\ CleanAtRest'
    BY <2>1, <2>2 DEF SInv, Typed, Control, BothMet, CleanAtRest
  <2>4. CopyOfClean' /\ OwnKey'
    BY <2>1, <2>2 DEF SInv, CopyOfClean, OwnKey
  <2>5. AllKeys' /\ UndisturbedChangesAgree'
    BY <2>1, <2>2 DEF SInv, AllKeys, UndisturbedChangesAgree
  <2>6. Accesses'
    BY <2>1, <2>2 DEF SInv, Accesses, Inside, Calling, InDisorder
  <2> QED
    BY <2>3, <2>4, <2>5, <2>6 DEF SInv
<1> QED
  BY <1>1, <1>2, <1>3, <1>4, <1>5, <1>6 DEF Next

-----------------------------------------------------------------------------

\* The inductive invariant holds throughout.
THEOREM ServiceInvariant == Spec => []SInv
  BY ServiceInit, ServiceNext, PTL DEF Spec

\* Every reachable state has its type.
THEOREM ServiceTyped == Spec => []TypeOK
<1>1. SInv => TypeOK
  <2> SUFFICES ASSUME SInv, NEW p \in Process PROVE ToSet(todo[p]) \subseteq Call
    BY DEF SInv, TypeOK, Typed, Control, Documents
  <2>1. CASE Changing(p)
    BY <2>1, OperationFacts, UpdateRests, CallbackRests DEF SInv, Control
  <2>2. CASE op[p].name = "Search"
    BY <2>2 DEF SInv, Control, Left, Call
  <2>3. CASE op[p] = Idle
    BY <2>3, EmptyQueue DEF SInv, Control
  <2> QED
    BY <2>1, <2>2, <2>3, OperationFacts DEF SInv
<1> QED
  BY <1>1, ServiceInvariant, PTL

\* However many requests and callbacks overlap, a change that met no other of its
\* key, and shared no text index with another, leaves the indexes with what the
\* store has, and they stay so until the next change of the key or the next two
\* changes that are inside the index at once.
THEOREM UndisturbedAgree == Spec => []UndisturbedChangesAgree
<1>1. SInv => UndisturbedChangesAgree
  BY DEF SInv
<1> QED
  BY <1>1, ServiceInvariant, PTL
=============================================================================
