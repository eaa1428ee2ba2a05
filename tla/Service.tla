------------------------------ MODULE Service ------------------------------
(***************************************************************************)
(* The service around the store: the Set, Delete and search handlers of    *)
(* internal/server/grpc.go and the embedder's callback of main.go, which   *)
(* keep four search indexes in step with the engine, one call after        *)
(* another and with no lock around the calls.                              *)
(*                                                                         *)
(* A call to the engine or to the LSA index is one step, as their locks    *)
(* make it. The other indexes have no lock: a call to them has a beginning *)
(* and an end, and when two changes are inside an index at once nothing is *)
(* known of what it holds, until a rebuild that is alone inside it starts  *)
(* from new maps. An entry is its text, since the text indexes know        *)
(* nothing else of it, and what an index holds under a key is the text it  *)
(* was given (DocIndex has what it makes of it). Set may be refused and    *)
(* leaves everything alone then.                                           *)
(***************************************************************************)
EXTENDS Naturals, Sequences, SequencesExt

CONSTANTS
  Key, Text,
  Client,    \* goroutines of gRPC requests
  Worker,    \* goroutines of the embedder, which run the callback; Client and Worker
             \* may share members, which are now the one and now the other
  Expiring,  \* the keys whose entries may expire
  Searches,  \* the lists of indexes that the requests' searches read
  Absent,    \* no entry, no document
  Unknown    \* what an index holds after a race

ASSUME AbsentAssumption == Absent \notin Text /\ Unknown \notin Text \cup {Absent}
ASSUME ExpiringAssumption == Expiring \subseteq Key

Process == Client \cup Worker
TextIndex == {"bm25", "ngram", "tfidf"}
Index == TextIndex \cup {"lsa"}
Contents == [Key -> Text \cup {Absent}]

\* Each search reads its index, HybridSearch up to four.
AllSearches == {<<i>> : i \in Index} \cup {<<"ngram", "bm25", "tfidf", "lsa">>}

ASSUME SearchesAssumption == Searches \subseteq AllSearches

VARIABLES
  data,    \* the texts in the engine
  docs,    \* [Index -> the texts it has indexed]
  access,  \* [Process -> "none", "in" when it is inside a text index, or "raced"
           \* when another change has been in there with it]
  todo,    \* [Process -> the calls it has still to make]
  op,      \* [Process -> what it is doing]
  copy,    \* [Process -> the entry its callback got]
  snap,    \* [Process -> the items it got from engine.Items]
  met,     \* history: [Process -> the keys of changes that overlapped with its own]
  clean    \* history: [Index -> the keys whose last change met no other]

vars == <<data, docs, access, todo, op, copy, snap, met, clean>>

Nothing == [k \in Key |-> Absent]
Idle == [name |-> "Idle"]

Init ==
  /\ data = Nothing
  /\ docs = [i \in Index |-> Nothing]
  /\ access = [p \in Process |-> "none"]
  /\ todo = [p \in Process |-> <<>>]
  /\ op = [p \in Process |-> Idle]
  /\ copy = [p \in Process |-> Absent]
  /\ snap = [p \in Process |-> Nothing]
  /\ met = [p \in Process |-> {}]
  /\ clean = [i \in Index |-> Key]

-----------------------------------------------------------------------------
(* History: which changes overlapped *)

Changing(p) == op[p].name \in {"Set", "Delete", "Callback"}

\* The keys whose documents a change updates: a callback rebuilds every index.
Scope(o) == IF o.name = "Callback" THEN Key ELSE {o.key}

\* p begins the change o: it and the changes under way meet.
Meet(p, o) ==
  /\ met' = [q \in Process |->
       IF q = p THEN UNION {Scope(op[r]) : r \in {r \in Process : Changing(r)}}
       ELSE IF Changing(q) THEN met[q] \cup Scope(o) ELSE met[q]]
  /\ clean' = [i \in Index |-> clean[i] \ {o.key}]

\* The change p leaves index i in step with the store for these keys.
Cleaned(p, i) ==
  IF i = "lsa" \/ op[p].name = "Callback"
  THEN IF met[p] = {} THEN Scope(op[p]) ELSE {}
  ELSE {k \in Scope(op[p]) \ met[p] : docs[i][k] # Unknown}

-----------------------------------------------------------------------------
(* Control: what a process does next *)

Starts(p, o, calls) ==
  /\ todo[p] = <<>>
  /\ todo' = [todo EXCEPT ![p] = calls]
  /\ op' = [op EXCEPT ![p] = o]

\* Mutation: the process does not notice that it is done.
KeepsOp(p) ==
  /\ todo' = [todo EXCEPT ![p] = <<>>]
  /\ UNCHANGED <<op, copy, snap, met, clean>>

\* The first of its calls is done; after the last one the process is idle.
Ends(p) ==
  /\ todo' = [todo EXCEPT ![p] = <<>>]
  /\ op' = [op EXCEPT ![p] = Idle]
  /\ copy' = [copy EXCEPT ![p] = Absent]
  /\ snap' = [snap EXCEPT ![p] = Nothing]
  /\ met' = [met EXCEPT ![p] = {}]
  /\ clean' = IF Changing(p) THEN [i \in Index |-> clean[i] \cup Cleaned(p, i)]
                             ELSE clean

Calling(p, call) == todo[p] # <<>> /\ Head(todo[p]) = call

Goes(p) ==
  IF Len(todo[p]) = 1 THEN Ends(p)
  ELSE todo' = [todo EXCEPT ![p] = Tail(@)] /\ UNCHANGED <<op, copy, snap, met, clean>>

-----------------------------------------------------------------------------
(* Handlers *)

\* Mutation: one index is not updated.
UpdatesWithoutTfidf == <<"bm25", "ngram", "items", "lsa">>
Updates == <<"bm25", "ngram", "tfidf", "items", "lsa">>

Set(c, k, text) ==
  LET o == [name |-> "Set", key |-> k, text |-> text] IN
    /\ Starts(c, o, Updates)
    /\ Meet(c, o)
    /\ data' = [data EXCEPT ![k] = text]
    /\ UNCHANGED <<docs, access, copy, snap>>

\* Nothing is done about the indexes when the key is not there.
Delete(c, k) ==
  LET o == [name |-> "Delete", key |-> k] IN
    /\ data[k] # Absent
    /\ Starts(c, o, Updates)
    /\ Meet(c, o)
    /\ data' = [data EXCEPT ![k] = Absent]
    /\ UNCHANGED <<docs, access, copy, snap>>

\* The Gets that fill in the values change no text.
Search(c, calls) ==
  /\ Starts(c, [name |-> "Search"], calls)
  /\ UNCHANGED <<data, docs, access, copy, snap, met, clean>>

-----------------------------------------------------------------------------
(* The callback: engine.Get, engine.Set, engine.Items, and four Rebuilds *)

CallbackCalls == <<"set", "items", "bm25", "ngram", "tfidf", "lsa">>

Callback(w, k) ==
  LET o == [name |-> "Callback", key |-> k] IN
    /\ data[k] # Absent
    /\ Starts(w, o, CallbackCalls)
    /\ Meet(w, o)
    /\ copy' = [copy EXCEPT ![w] = data[k]]
    /\ UNCHANGED <<data, docs, access, snap>>

\* The Set is refused when the vector does not fit; the rest goes on.
CallbackSet(w) ==
  /\ Calling(w, "set")
  /\ Goes(w)
  /\ data' \in {data, [data EXCEPT ![op[w].key] = copy[w]]}
  /\ UNCHANGED <<docs, access>>

-----------------------------------------------------------------------------
(* Calls *)

\* engine.Items().
Items(p) ==
  /\ Calling(p, "items")
  /\ todo' = [todo EXCEPT ![p] = Tail(@)]
  /\ snap' = [snap EXCEPT ![p] = data]
  /\ UNCHANGED <<data, docs, access, op, copy, met, clean>>

\* A call to a text index begins. Two changes inside the same index, whatever
\* their keys, share its maps and its counters.
Inside(q, i) == Calling(q, i) /\ access[q] # "none"

Enter(p, i) ==
  LET rivals == {q \in Process \ {p} : Inside(q, i) /\ Changing(q)}
  IN /\ Calling(p, i) /\ access[p] = "none"
     /\ IF Changing(p) /\ rivals # {}
        THEN /\ access' = [q \in Process |-> IF q \in rivals \cup {p} THEN "raced" ELSE access[q]]
             /\ docs' = [docs EXCEPT ![i] = [k \in Key |-> Unknown]]
             /\ clean' = [clean EXCEPT ![i] = {}]
        ELSE access' = [access EXCEPT ![p] = "in"] /\ UNCHANGED <<docs, clean>>
     /\ UNCHANGED <<data, todo, op, copy, snap, met>>

\* What an index that is in disorder has under the key cannot be taken back.
Replaced(d, k, text) == IF d[k] = Unknown THEN d ELSE [d EXCEPT ![k] = text]

\* What IndexDocument, RemoveDocument or Rebuild makes of the documents d.
Updated(p, d) ==
  CASE op[p].name = "Set"      -> Replaced(d, op[p].key, op[p].text)
    [] op[p].name = "Delete"   -> Replaced(d, op[p].key, Absent)
    [] op[p].name = "Callback" -> snap[p]
    [] op[p].name = "Search"   -> d

\* The call returns.
CallTextIndex(p, i) ==
  /\ Inside(p, i)
  /\ Goes(p)
  /\ access' = [access EXCEPT ![p] = "none"]
  /\ docs' = IF access[p] = "raced" THEN docs ELSE [docs EXCEPT ![i] = Updated(p, @)]
  /\ UNCHANGED data

\* lsa.Rebuild, or lsa.Search.
CallLSA(p) ==
  /\ Calling(p, "lsa")
  /\ Goes(p)
  /\ docs' = [docs EXCEPT !["lsa"] = IF Changing(p) THEN snap[p] ELSE @]
  /\ UNCHANGED <<data, access>>

\* The engine discards an expired entry: in Get or in the TTL worker. No index
\* hears of it.
Expire(k) ==
  /\ k \in Expiring
  /\ data[k] # Absent
  /\ data' = [data EXCEPT ![k] = Absent]
  /\ met' = [p \in Process |-> IF Changing(p) THEN met[p] \cup {k} ELSE met[p]]
  /\ clean' = [i \in Index |-> clean[i] \ {k}]
  /\ UNCHANGED <<docs, access, todo, op, copy, snap>>

-----------------------------------------------------------------------------

Next ==
  \/ \E c \in Client, k \in Key : Delete(c, k) \/ \E text \in Text : Set(c, k, text)
  \/ \E c \in Client, calls \in Searches : Search(c, calls)
  \/ \E w \in Worker : CallbackSet(w) \/ \E k \in Key : Callback(w, k)
  \/ \E p \in Process : Items(p) \/ CallLSA(p) \/ \E i \in TextIndex : Enter(p, i) \/ CallTextIndex(p, i)
  \/ \E k \in Expiring : Expire(k)

Spec == Init /\ [][Next]_vars

-----------------------------------------------------------------------------
(* Correctness *)

Call == Index \cup {"set", "items"}

\* Every variable has its type.
TypeOK ==
  /\ data \in Contents
  /\ docs \in [Index -> [Key -> Text \cup {Absent, Unknown}]]
  /\ access \in [Process -> {"none", "in", "raced"}]
  /\ \A p \in Process : ToSet(todo[p]) \subseteq Call
  /\ \A p \in Process : todo[p] = <<>> <=> op[p] = Idle
  /\ copy \in [Process -> Text \cup {Absent}]
  /\ snap \in [Process -> Contents]
  /\ met \in [Process -> SUBSET Key]
  /\ clean \in [Index -> SUBSET Key]

\* A change that meets no other change of its key and no callback, and shares
\* no text index with another change while it is inside, leaves every text index
\* with what the store has under that key; the LSA index, which is rebuilt from a
\* copy of the whole store, needs a change that meets no other at all. So a
\* document that went astray is put right by the next change of its key that runs
\* alone, unless two changes were inside the index at once: then it takes a
\* rebuild that runs alone (grpc.go:90-102, 142-155, main.go:49-62).
UndisturbedChangesAgree ==
  \A i \in Index : \A k \in clean[i] : docs[i][k] = data[k]

Reads(p, i) == Inside(p, i) /\ ~Changing(p)
Writes(p, i) == Inside(p, i) /\ Changing(p)

\* README.md:359, "zero race conditions tolerated": no two goroutines are inside
\* the same index that has no lock, one of them to change it.
NoDataRace ==
  \A p, q \in Process : \A i \in TextIndex :
    p # q => ~(Writes(p, i) /\ (Writes(q, i) \/ Reads(q, i)))

\* README.md:145 and 152, "addition and removal on Set/Delete", "incremental
\* indexing on write": when nothing is under way, and there was no race, the n-gram
\* index has what the store has. The updates of two requests on one key may be
\* applied in another order than their changes of the store.
IndexFollowsStore ==
  (\A p \in Process : todo[p] = <<>>) /\ (\A i \in Index, k \in Key : docs[i][k] # Unknown)
    => docs["ngram"] = data
=============================================================================
