------------------------ MODULE VectorPipelineProofs ------------------------
(***************************************************************************)
(* For any number of handlers and workers, any buffer and any limit of the *)
(* store: an entry never mixes two requests, and its vector never comes    *)
(* from a text that was set under another key.                             *)
(***************************************************************************)
EXTENDS VectorPipeline, DataLemmas

Write == [key : Key, item : InputItem, auto : BOOLEAN]

\* Some request of the log R asked for the job j.
Asked(R, j) == \E r \in R : r.key = j.key /\ r.auto /\ r.item.value = j.text

\* Requests of the log R account for what an entry of k is and for its vector.
Text(R, k, e) == \E r \in R : r.key = k /\ SameButVector(e, r.item)
Origin(R, k, v) ==
  \E r \in R :
    /\ r.key = k
    /\ \/ v \in {r.item.vector, NoVector}
       \/ r.auto /\ v = Embedding[r.item.value]
Sound(R, k, e) == Text(R, k, e) /\ Origin(R, k, e.vector)

\* Whoever holds a job, it was asked for.
JobsAsked(R) ==
  /\ \A j \in ToSet(jobCh) : Asked(R, j)
  /\ \A h \in Handler : hjob[h] # NoJob => Asked(R, hjob[h])
  /\ \A w \in Worker : wpc[w] # "receive" => wjob[w] # NoJob /\ Asked(R, wjob[w])

\* The vector a worker holds is for its job, and so is its copy.
VectorsSound ==
  \A w \in Worker : wpc[w] \in {"get", "set"} =>
    wvec[w] \in {NoVector, Embedding[wjob[w].text]}
CopiesSound(R) ==
  \A w \in Worker : wpc[w] = "set" =>
    copy[w] # Absent /\ Sound(R, wjob[w].key, copy[w])
DataSound(R) == \A k \in Present(data) : Sound(R, k, data[k])

\* The inductive invariant.
PInv ==
  /\ TypeOK
  /\ writes \in Seq(Write)
  /\ JobsAsked(ToSet(writes))
  /\ VectorsSound
  /\ CopiesSound(ToSet(writes))
  /\ DataSound(ToSet(writes))

-----------------------------------------------------------------------------
(* Facts about the data *)

LEMMA InputTyped == \A i \in InputItem : i \in Item
  BY InputAssumption

\* An item has the fields of an item, and is not Absent.
LEMMA ItemFields ==
  ASSUME NEW i \in Item
  PROVE  /\ i.value \in Value /\ i.costMs \in Cost /\ i.vector \in Vector
         /\ i.accessCount \in Nat /\ i.expiresAt \in Nat
         /\ i # Absent /\ i \in Entry
  BY AbsentAssumption DEF Item, Entry

\* Counting an access changes neither the text nor the vector.
LEMMA TouchSound ==
  ASSUME NEW i \in Item, NEW R, NEW k
  PROVE  /\ Touch(i) \in Item
         /\ Sound(R, k, i) => Sound(R, k, Touch(i))
<1> DEFINE t == Touch(i)
<1>1. /\ t \in Item
      /\ t.value = i.value /\ t.costMs = i.costMs /\ t.vector = i.vector
      /\ t.expiresAt = i.expiresAt
  BY DEF Touch, Item
<1> HIDE DEF t
<1>2. Sound(R, k, i) => Sound(R, k, t)
  BY <1>1 DEF Sound, Text, SameButVector
<1> QED
  BY <1>1, <1>2 DEF t

\* A longer log accounts for what a shorter one did.
LEMMA LongerLog ==
  ASSUME NEW R, NEW S, R \subseteq S
  PROVE  /\ \A j : Asked(R, j) => Asked(S, j)
         /\ \A k, e : Sound(R, k, e) => Sound(S, k, e)
         /\ JobsAsked(R) => JobsAsked(S)
         /\ CopiesSound(R) => CopiesSound(S)
         /\ DataSound(R) => DataSound(S)
<1>1. \A j : Asked(R, j) => Asked(S, j)
  BY DEF Asked
<1>2. \A k, e : Sound(R, k, e) => Sound(S, k, e)
  BY DEF Sound, Text, Origin
<1>3. JobsAsked(R) => JobsAsked(S)
  BY <1>1 DEF JobsAsked
<1>4. CopiesSound(R) => CopiesSound(S)
  BY <1>2 DEF CopiesSound
<1>5. DataSound(R) => DataSound(S)
  BY <1>2 DEF DataSound
<1> QED
  BY <1>1, <1>2, <1>3, <1>4, <1>5

\* The map after a sound entry was put in it.
LEMMA PutSound ==
  ASSUME data \in [Key -> Entry], NEW k \in Key, NEW e \in Item,
         data' = Put(data, k, e)
  PROVE  /\ data' \in [Key -> Entry]
         /\ \A R : DataSound(R) /\ Sound(R, k, e) => DataSound(R)'
<1>1. data' \in [Key -> Entry] /\ data'[k] = e
  BY ItemFields DEF Put
<1>2. \A j \in Key \ {k} : data'[j] = data[j]
  BY DEF Put
<1> QED
  BY <1>1, <1>2 DEF DataSound, Present

\* The map after an entry was taken out.
LEMMA DiscardSound ==
  ASSUME data \in [Key -> Entry], NEW k \in Key, data' = Discard(data, k)
  PROVE  data' \in [Key -> Entry] /\ \A R : DataSound(R) => DataSound(R)'
<1>1. data' \in [Key -> Entry] /\ data'[k] = Absent
  BY DEF Put, Discard, Entry
<1>2. \A j \in Key \ {k} : data'[j] = data[j]
  BY DEF Put, Discard
<1> QED
  BY <1>1, <1>2 DEF DataSound, Present

-----------------------------------------------------------------------------
(* Requests *)

\* What the store does for a Set: the log grows by the request, and the new
\* entry is accounted for by it.
LEMMA StoreStep ==
  ASSUME PInv, NEW k \in Key, NEW i \in InputItem, NEW auto \in BOOLEAN,
         Store(k, i, auto)
  PROVE  /\ writes' \in Seq(Write)
         /\ ToSet(writes)' = ToSet(writes) \cup {[key |-> k, item |-> i, auto |-> auto]}
         /\ data' \in [Key -> Entry]
         /\ DataSound(ToSet(writes))'
<1> DEFINE r == [key |-> k, item |-> i, auto |-> auto]
           R == ToSet(writes) \cup {r}
<1>1. /\ r \in Write
      /\ r.key = k /\ r.item = i
  BY DEF Write
<1>2. ToSet(writes) \subseteq R /\ r \in R
  OBVIOUS
<1>3. Store(k, i, auto) => writes' = Append(writes, r)
  BY DEF Store
<1> HIDE DEF r
<1>4. writes' \in Seq(Write) /\ ToSet(writes') = R
  <2>1. writes \in Seq(Write) /\ writes' = Append(writes, r)
    BY <1>3 DEF PInv
  <2> QED
    BY <1>1, <2>1, SendQueue
<1> HIDE DEF R
<1>5. DataSound(R)
  BY <1>2, LongerLog DEF PInv
<1>6. Sound(R, k, i)
  BY <1>1, <1>2 DEF Sound, Text, Origin, SameButVector
<1>7. data' \in [Key -> Entry] /\ \A S : DataSound(S) /\ Sound(S, k, i) => DataSound(S)'
  BY InputTyped, PutSound DEF Store, PInv, TypeOK
<1>8. DataSound(ToSet(writes))'
  BY <1>4, <1>5, <1>6, <1>7 DEF DataSound, Present
<1> QED
  BY <1>4, <1>7, <1>8 DEF R, r

LEMMA PlainSetStep ==
  ASSUME PInv, NEW k \in Key, NEW i \in InputItem, PlainSet(k, i)
  PROVE  PInv'
<1>1. /\ writes' \in Seq(Write) /\ data' \in [Key -> Entry]
      /\ ToSet(writes) \subseteq ToSet(writes)' /\ DataSound(ToSet(writes))'
  BY StoreStep DEF PlainSet
<1> USE DEF PInv, PlainSet, workerVars
<1>2. TypeOK'
  BY <1>1 DEF TypeOK
<1>3. JobsAsked(ToSet(writes))'
  <2>1. JobsAsked(ToSet(writes)')
    BY <1>1, LongerLog
  <2> QED
    BY <2>1 DEF JobsAsked
<1>4. VectorsSound'
  BY DEF VectorsSound
<1>5. CopiesSound(ToSet(writes))'
  <2>1. CopiesSound(ToSet(writes)')
    BY <1>1, LongerLog
  <2> QED
    BY <2>1 DEF CopiesSound
<1> QED
  BY <1>1, <1>2, <1>3, <1>4, <1>5

LEMMA AutoSetStep ==
  ASSUME PInv, NEW h \in Handler, NEW k \in Key, NEW i \in InputItem,
         AutoSet(h, k, i)
  PROVE  PInv'
<1> DEFINE j == EmbedJob(k, i)
<1>1. /\ writes' \in Seq(Write) /\ data' \in [Key -> Entry]
      /\ ToSet(writes)' = ToSet(writes) \cup {[key |-> k, item |-> i, auto |-> TRUE]}
      /\ DataSound(ToSet(writes))'
  BY StoreStep DEF AutoSet
<1>2. j \in Job
  BY InputTyped, ItemFields DEF Job, EmbedJob
<1>3. Asked(ToSet(writes)', j)
  <2> DEFINE r == [key |-> k, item |-> i, auto |-> TRUE]
  <2>1. r \in ToSet(writes)' /\ r.key = k /\ r.item = i /\ r.auto
    BY <1>1
  <2> HIDE DEF r
  <2>2. j.key = k /\ j.text = i.value
    BY DEF EmbedJob
  <2> QED
    BY <2>1, <2>2 DEF Asked
<1>4. JobsAsked(ToSet(writes)') /\ CopiesSound(ToSet(writes)')
  BY <1>1, LongerLog DEF PInv
<1> HIDE DEF j
<1>5. hjob' = [hjob EXCEPT ![h] = j]
  BY DEF AutoSet, j
<1> USE DEF PInv, AutoSet, workerVars
<1>6. TypeOK'
  BY <1>1, <1>2, <1>5 DEF TypeOK
<1>7. JobsAsked(ToSet(writes))'
  <2>1. \A g \in Handler : hjob'[g] # NoJob => Asked(ToSet(writes)', hjob'[g])
    BY <1>3, <1>4, <1>5 DEF JobsAsked, TypeOK
  <2> QED
    BY <1>4, <2>1 DEF JobsAsked
<1>8. VectorsSound'
  BY DEF VectorsSound
<1>9. CopiesSound(ToSet(writes))'
  BY <1>4 DEF CopiesSound
<1> QED
  BY <1>1, <1>6, <1>7, <1>8, <1>9

LEMMA DeleteStep ==
  ASSUME PInv, NEW k \in Key, Delete(k)
  PROVE  PInv'
<1> USE DEF PInv, Delete, workerVars
<1>1. data' \in [Key -> Entry] /\ DataSound(ToSet(writes))'
  <2>1. data' \in [Key -> Entry] /\ \A R : DataSound(R) => DataSound(R)'
    BY DiscardSound DEF TypeOK
  <2> QED
    BY <2>1 DEF DataSound, Present
<1>2. TypeOK'
  BY <1>1 DEF TypeOK
<1>3. JobsAsked(ToSet(writes))' /\ VectorsSound' /\ CopiesSound(ToSet(writes))'
  BY DEF JobsAsked, VectorsSound, CopiesSound
<1> QED
  BY <1>1, <1>2, <1>3

-----------------------------------------------------------------------------
(* The channel *)

LEMMA EnqueueStep ==
  ASSUME PInv, NEW h \in Handler, Enqueue(h)
  PROVE  PInv'
<1> DEFINE R == ToSet(writes)
<1> USE DEF PInv, Enqueue, workerVars
<1>1. hjob[h] \in Job /\ Asked(R, hjob[h]) /\ hjob[h].key \in Key
  BY DEF TypeOK, JobsAsked, Job
<1>2. /\ jobCh' \in Seq(Job) /\ Len(jobCh') <= BufferSize
      /\ \A j \in ToSet(jobCh') : Asked(R, j)
      /\ missed' \subseteq Key
  <2>1. CASE Len(jobCh) < BufferSize
    <3>1. jobCh' = Append(jobCh, hjob[h]) /\ missed' = missed
      BY <2>1
    <3>2. /\ jobCh' \in Seq(Job) /\ Len(jobCh') = Len(jobCh) + 1
          /\ ToSet(jobCh') = ToSet(jobCh) \cup {hjob[h]}
      BY <1>1, <3>1, SendQueue DEF TypeOK
    <3> QED
      BY <1>1, <2>1, <3>1, <3>2, BoundAssumption DEF TypeOK, JobsAsked
  <2>2. CASE ~(Len(jobCh) < BufferSize)
    BY <1>1, <2>2 DEF TypeOK, JobsAsked, Miss
  <2> QED
    BY <2>1, <2>2
<1>3. /\ hjob' \in [Handler -> Job \cup {NoJob}]
      /\ \A g \in Handler : hjob'[g] # NoJob => hjob'[g] = hjob[g]
  BY DEF TypeOK
<1>4. TypeOK'
  BY <1>2, <1>3 DEF TypeOK
<1>5. JobsAsked(R)'
  BY <1>2, <1>3 DEF JobsAsked
<1>6. VectorsSound' /\ CopiesSound(R)' /\ DataSound(R)'
  BY DEF VectorsSound, CopiesSound, DataSound, Present
<1> QED
  BY <1>4, <1>5, <1>6

LEMMA ReceiveStep ==
  ASSUME PInv, NEW w \in Worker, Receive(w)
  PROVE  PInv'
<1> DEFINE R == ToSet(writes)
<1> USE DEF PInv, Receive
<1>1. /\ Head(jobCh) \in Job /\ Head(jobCh) \in ToSet(jobCh)
      /\ Tail(jobCh) \in Seq(Job) /\ Len(Tail(jobCh)) = Len(jobCh) - 1
  BY ReceiveQueue DEF TypeOK
<1>2. ToSet(Tail(jobCh)) \subseteq ToSet(jobCh)
  BY HeadAndTail DEF TypeOK
<1>3. Asked(R, Head(jobCh)) /\ Head(jobCh) # NoJob
  BY <1>1, NoJobAssumption DEF JobsAsked
<1>4. TypeOK'
  BY <1>1, BoundAssumption, LenProperties DEF TypeOK
<1>5. JobsAsked(R)'
  BY <1>2, <1>3 DEF JobsAsked, TypeOK
<1>6. VectorsSound'
  BY DEF VectorsSound, TypeOK
<1>7. CopiesSound(R)' /\ DataSound(R)'
  BY DEF CopiesSound, DataSound, Present, TypeOK
<1> QED
  BY <1>4, <1>5, <1>6, <1>7

-----------------------------------------------------------------------------
(* Workers *)

\* A worker that is done with its job leaves nothing to answer for.
LEMMA BackStep ==
  ASSUME PInv, NEW w \in Worker, Back(w),
         data' \in [Key -> Entry], DataSound(ToSet(writes))',
         missed' \subseteq Key
  PROVE  PInv'
<1> DEFINE R == ToSet(writes)
<1> USE DEF PInv, Back
<1>1. TypeOK'
  BY VectorAssumption DEF TypeOK, Entry
<1>2. JobsAsked(R)'
  BY DEF JobsAsked, TypeOK
<1>3. VectorsSound' /\ CopiesSound(R)'
  BY DEF VectorsSound, CopiesSound, TypeOK
<1> QED
  BY <1>1, <1>2, <1>3

\* A worker at work has a job, with a key and a text.
LEMMA WorkerJob ==
  ASSUME PInv, NEW w \in Worker, wpc[w] # "receive"
  PROVE  /\ wjob[w] \in Job /\ wjob[w].key \in Key /\ wjob[w].text \in Value
         /\ Asked(ToSet(writes), wjob[w])
  BY DEF PInv, TypeOK, JobsAsked, Job

LEMMA EmbedFailsStep ==
  ASSUME PInv, NEW w \in Worker, EmbedFails(w)
  PROVE  PInv'
<1>1. missed' \subseteq Key
  BY WorkerJob DEF EmbedFails, Miss, PInv, TypeOK
<1>2. data' \in [Key -> Entry] /\ DataSound(ToSet(writes))'
  BY DEF EmbedFails, Back, PInv, TypeOK, DataSound, Present
<1> QED
  BY <1>1, <1>2, BackStep DEF EmbedFails

LEMMA EmbeddedStep ==
  ASSUME PInv, NEW w \in Worker, Embedded(w)
  PROVE  PInv'
<1> DEFINE R == ToSet(writes)
<1>1. wjob[w].key \in Key /\ wjob[w].text \in Value
  BY WorkerJob DEF Embedded
<1>2. PICK v \in {NoVector, Embedding[wjob[w].text]} :
        wvec' = [wvec EXCEPT ![w] = v] /\ v \in Vector
  BY <1>1, VectorAssumption DEF Embedded
<1>3. missed' \subseteq Key
  BY <1>1 DEF Embedded, Miss, PInv, TypeOK
<1> USE DEF PInv, Embedded
<1>4. TypeOK'
  BY <1>2, <1>3 DEF TypeOK
<1>5. JobsAsked(R)'
  BY DEF JobsAsked, TypeOK
<1>6. VectorsSound'
  BY <1>2 DEF VectorsSound, TypeOK
<1>7. CopiesSound(R)' /\ DataSound(R)'
  BY DEF CopiesSound, DataSound, Present, TypeOK
<1> QED
  BY <1>4, <1>5, <1>6, <1>7

LEMMA CallbackGetStep ==
  ASSUME PInv, NEW w \in Worker, CallbackGet(w)
  PROVE  PInv'
<1> DEFINE R == ToSet(writes)
           k == wjob[w].key
           t == Touch(data[k])
<1>1. k \in Key
  BY WorkerJob DEF CallbackGet
<1>2. CASE data[k] = Absent
  <2>1. Back(w) /\ data' = data /\ missed' = missed
    BY <1>2 DEF CallbackGet
  <2>2. data' \in [Key -> Entry] /\ DataSound(R)' /\ missed' \subseteq Key
    BY <2>1 DEF Back, PInv, TypeOK, DataSound, Present
  <2> QED
    BY <2>1, <2>2, BackStep
<1>3. CASE data[k] # Absent
  <2>1. data[k] \in Item /\ Sound(R, k, data[k])
    BY <1>1, <1>3 DEF PInv, TypeOK, Entry, DataSound, Present
  <2>2. t \in Item /\ Sound(R, k, t) /\ t # Absent /\ t \in Entry
    BY <2>1, TouchSound, ItemFields
  <2>3. /\ data' = Put(data, k, t) /\ copy' = [copy EXCEPT ![w] = t]
        /\ wpc' = [wpc EXCEPT ![w] = "set"]
        /\ UNCHANGED <<jobCh, hjob, wjob, wvec, writes, missed>>
        /\ wpc[w] = "get"
    BY <1>3 DEF CallbackGet
  <2> HIDE DEF t
  <2>4. data' \in [Key -> Entry] /\ DataSound(R)'
    <3>1. data' \in [Key -> Entry] /\ \A S : DataSound(S) /\ Sound(S, k, t) => DataSound(S)'
      BY <1>1, <2>2, <2>3, PutSound DEF PInv, TypeOK
    <3> QED
      BY <2>2, <2>3, <3>1 DEF PInv, DataSound, Present
  <2>5. TypeOK'
    BY <2>2, <2>3, <2>4 DEF PInv, TypeOK
  <2>6. JobsAsked(R)' /\ VectorsSound'
    BY <2>3 DEF PInv, JobsAsked, VectorsSound, TypeOK
  <2>7. CopiesSound(R)'
    BY <2>2, <2>3 DEF PInv, CopiesSound, TypeOK
  <2> QED
    BY <2>3, <2>4, <2>5, <2>6, <2>7 DEF PInv
<1> QED
  BY <1>2, <1>3

LEMMA CallbackSetStep ==
  ASSUME PInv, NEW w \in Worker, CallbackSet(w)
  PROVE  PInv'
<1> DEFINE R == ToSet(writes)
           k == wjob[w].key
           f == Filled(w)
<1>1. k \in Key /\ Asked(R, wjob[w])
  BY WorkerJob DEF CallbackSet
<1>2. copy[w] \in Item /\ Sound(R, k, copy[w]) /\ wvec[w] \in Vector
  BY DEF CallbackSet, PInv, TypeOK, CopiesSound, Entry
<1>3. /\ f \in Item /\ f.vector = wvec[w]
      /\ f.value = copy[w].value /\ f.costMs = copy[w].costMs
      /\ f.expiresAt = copy[w].expiresAt
  BY <1>2 DEF Filled, Item
<1> HIDE DEF f
<1>4. Origin(R, k, wvec[w])
  <2>1. wvec[w] \in {NoVector, Embedding[wjob[w].text]}
    BY DEF CallbackSet, PInv, VectorsSound
  <2> QED
    BY <1>1, <2>1 DEF Asked, Origin
<1>5. Sound(R, k, f)
  BY <1>2, <1>3, <1>4 DEF Sound, Text, SameButVector
<1>6. Back(w) /\ missed' \subseteq Key
  BY <1>1 DEF CallbackSet, Miss, PInv, TypeOK
<1>7. data' \in [Key -> Entry] /\ DataSound(R)'
  <2>1. CASE data' = Put(data, k, f)
    <3>1. data' \in [Key -> Entry] /\ \A S : DataSound(S) /\ Sound(S, k, f) => DataSound(S)'
      BY <1>1, <1>3, <2>1, PutSound DEF PInv, TypeOK
    <3> QED
      BY <1>5, <1>6, <3>1 DEF PInv, DataSound, Present, Back
  <2>2. CASE data' = data
    BY <1>6, <2>2 DEF PInv, TypeOK, DataSound, Present, Back
  <2> QED
    BY <2>1, <2>2 DEF CallbackSet, f
<1> QED
  BY <1>6, <1>7, BackStep

-----------------------------------------------------------------------------

LEMMA PipelineInit == Init => PInv
<1> SUFFICES ASSUME Init PROVE PInv
  OBVIOUS
<1> USE DEF Init
<1>1. TypeOK
  BY BoundAssumption, VectorAssumption DEF TypeOK, EmptyMap, Entry
<1>2. writes \in Seq(Write)
  OBVIOUS
<1>3. JobsAsked(ToSet(writes)) /\ VectorsSound /\ CopiesSound(ToSet(writes))
  BY EmptyQueue DEF JobsAsked, VectorsSound, CopiesSound
<1>4. DataSound(ToSet(writes))
  BY DEF DataSound, Present, EmptyMap
<1> QED
  BY <1>1, <1>2, <1>3, <1>4 DEF PInv

LEMMA PipelineNext == PInv /\ [Next]_vars => PInv'
<1> SUFFICES ASSUME PInv, [Next]_vars PROVE PInv'
  OBVIOUS
<1>1. CASE Request
  BY <1>1, PlainSetStep, AutoSetStep, DeleteStep DEF Request, Expire
<1>2. CASE \E h \in Handler : Enqueue(h)
  BY <1>2, EnqueueStep
<1>3. CASE \E w \in Worker : WorkerStep(w)
  BY <1>3, ReceiveStep, EmbedFailsStep, EmbeddedStep, CallbackGetStep, CallbackSetStep
  DEF WorkerStep
<1>4. CASE UNCHANGED vars
  BY <1>4 DEF vars, workerVars, PInv, TypeOK, JobsAsked, VectorsSound, CopiesSound,
              DataSound, Present
<1> QED
  BY <1>1, <1>2, <1>3, <1>4 DEF Next

-----------------------------------------------------------------------------

\* The inductive invariant holds throughout.
THEOREM PipelineInvariant == Spec => []PInv
  BY PipelineInit, PipelineNext, PTL DEF Spec

\* Every reachable state has its type.
THEOREM PipelineTyped == Spec => []TypeOK
<1>1. PInv => TypeOK
  BY DEF PInv
<1> QED
  BY <1>1, PipelineInvariant, PTL

\* Although the callback sets whole entries from its copy, value, cost and
\* expiry of an entry come from one Set of its key.
THEOREM EntriesUnmixed == Spec => []NoMixedEntry
<1>1. PInv => NoMixedEntry
  BY DEF PInv, DataSound, Sound, Text, NoMixedEntry, Written, ToSet, Range
<1> QED
  BY <1>1, PipelineInvariant, PTL

\* However jobs wait, overlap and overtake each other, a vector belongs to a
\* text that was set under the same key.
THEOREM VectorsUncrossed == Spec => []VectorOfSameKey
<1>1. PInv => VectorOfSameKey
  BY DEF PInv, DataSound, Sound, Origin, VectorOfSameKey, Written, ToSet, Range
<1> QED
  BY <1>1, PipelineInvariant, PTL

-----------------------------------------------------------------------------
(* A key that is set once: its job, or what came of it *)

\* Request n of the log is the only one for k, and asks for an embedding.
Once(k, n) ==
  /\ n \in DOMAIN writes /\ writes[n].key = k /\ writes[n].auto
  /\ \A m \in DOMAIN writes : writes[m].key = k => m = n

\* Somebody has a job for k.
InPipeline(k) ==
  \/ \E h \in Handler : hjob[h] # NoJob /\ hjob[h].key = k
  \/ \E j \in ToSet(jobCh) : j.key = k
  \/ \E w \in Worker : wpc[w] # "receive" /\ wjob[w].key = k

\* A worker that failed to get a vector has recorded the miss.
VectorOrMiss ==
  \A w \in Worker : wpc[w] \in {"get", "set"} /\ wjob[w].key \notin missed =>
    wvec[w] = Embedding[wjob[w].text]

VectorOrJob ==
  \A k \in Present(data) \ missed : \A n \in Nat : Once(k, n) =>
    data[k].vector = Embedding[data[k].value] \/ InPipeline(k)

OInv == PInv /\ VectorOrMiss /\ VectorOrJob

\* When the store and the log are as before, what was settled stays settled.
LEMMA Settled ==
  ASSUME VectorOrJob, UNCHANGED writes, missed \subseteq missed',
         \A k \in Present(data)' \ missed' :
           /\ k \in Present(data)
           /\ data'[k].vector = data[k].vector /\ data'[k].value = data[k].value
           /\ InPipeline(k) => InPipeline(k)'
  PROVE  VectorOrJob'
<1> SUFFICES ASSUME NEW k \in Present(data)' \ missed', NEW n \in Nat, Once(k, n)'
             PROVE  data'[k].vector = Embedding[data'[k].value] \/ InPipeline(k)'
  BY DEF VectorOrJob
<1>1. Once(k, n)
  BY DEF Once
<1> QED
  BY <1>1 DEF VectorOrJob

\* A request of another key leaves the only request of a key the only one.
LEMMA OnceBefore ==
  ASSUME PInv, NEW r \in Write, writes' = Append(writes, r), NEW k, NEW n, Once(k, n)'
  PROVE  IF r.key = k THEN r.auto ELSE Once(k, n)
<1>1. /\ DOMAIN writes' = 1..(Len(writes) + 1) /\ DOMAIN writes = 1..Len(writes)
      /\ Len(writes) \in Nat
      /\ \A m \in 1..Len(writes) : writes'[m] = writes[m]
      /\ writes'[Len(writes) + 1] = r
  BY AppendProperties, LenProperties DEF PInv
<1>2. CASE r.key = k
  <2>1. n = Len(writes) + 1
    BY <1>1, <1>2 DEF Once
  <2> QED
    BY <1>1, <1>2, <2>1 DEF Once
<1>3. CASE r.key # k
  <2>1. n \in 1..Len(writes)
    BY <1>1, <1>3 DEF Once
  <2> QED
    BY <1>1, <1>3, <2>1 DEF Once
<1> QED
  BY <1>2, <1>3

LEMMA SetOnce ==
  ASSUME OInv, NEW k \in Key, NEW i \in InputItem, NEW auto \in BOOLEAN,
         Store(k, i, auto), auto => InPipeline(k)', missed' = missed,
         \A j \in Key : InPipeline(j) => InPipeline(j)'
  PROVE  VectorOrJob'
<1> DEFINE r == [key |-> k, item |-> i, auto |-> auto]
<1>1. r \in Write /\ r.key = k /\ r.auto = auto /\ writes' = Append(writes, r)
  BY DEF Write, Store
<1> HIDE DEF r
<1>2. /\ \A j \in Key \ {k} : data'[j] = data[j]
      /\ DOMAIN data = Key
  BY DEF Store, Put, OInv, PInv, TypeOK
<1> SUFFICES ASSUME NEW j \in Present(data)' \ missed', NEW n \in Nat, Once(j, n)'
             PROVE  data'[j].vector = Embedding[data'[j].value] \/ InPipeline(j)'
  BY DEF VectorOrJob
<1>3. IF k = j THEN auto ELSE Once(j, n)
  BY <1>1, OnceBefore DEF OInv
<1>4. CASE j = k
  BY <1>3, <1>4
<1>5. CASE j # k
  <2>1. j \in Present(data) \ missed /\ Once(j, n) /\ data'[j] = data[j]
    BY <1>2, <1>3, <1>5 DEF Present
  <2>2. data[j].vector = Embedding[data[j].value] \/ InPipeline(j)
    BY <2>1 DEF OInv, VectorOrJob
  <2> QED
    BY <2>1, <2>2 DEF Present
<1> QED
  BY <1>4, <1>5

LEMMA RequestOnce ==
  ASSUME OInv, Request
  PROVE  VectorOrMiss' /\ VectorOrJob'
<1>1. ASSUME NEW k \in Key, NEW i \in InputItem, PlainSet(k, i)
      PROVE  VectorOrMiss' /\ VectorOrJob'
  <2>1. \A j \in Key : InPipeline(j) => InPipeline(j)'
    BY <1>1 DEF PlainSet, workerVars, InPipeline
  <2>2. VectorOrMiss'
    BY <1>1 DEF PlainSet, workerVars, OInv, VectorOrMiss
  <2> QED
    BY <1>1, <2>1, <2>2, SetOnce DEF PlainSet
<1>2. ASSUME NEW h \in Handler, NEW k \in Key, NEW i \in InputItem, AutoSet(h, k, i)
      PROVE  VectorOrMiss' /\ VectorOrJob'
  <2> DEFINE j == EmbedJob(k, i)
  <2>1. j \in Job /\ j.key = k /\ j # NoJob
    BY InputTyped, ItemFields, NoJobAssumption DEF Job, EmbedJob
  <2> HIDE DEF j
  <2>2. hjob' = [hjob EXCEPT ![h] = j] /\ hjob[h] = NoJob /\ DOMAIN hjob = Handler
    BY <1>2 DEF AutoSet, j, OInv, PInv, TypeOK
  <2>3. hjob'[h] = j /\ \A g \in Handler : hjob[g] # NoJob => hjob'[g] = hjob[g]
    BY <2>2
  <2>4. InPipeline(k)' /\ \A l \in Key : InPipeline(l) => InPipeline(l)'
    BY <1>2, <2>1, <2>3 DEF AutoSet, workerVars, InPipeline
  <2>5. VectorOrMiss'
    BY <1>2 DEF AutoSet, workerVars, OInv, VectorOrMiss
  <2> QED
    BY <1>2, <2>4, <2>5, SetOnce DEF AutoSet
<1>3. ASSUME NEW k \in Key, Delete(k)
      PROVE  VectorOrMiss' /\ VectorOrJob'
  <2>1. \A j \in Key : j # k => data'[j] = data[j]
    BY <1>3 DEF Delete, Discard, Put, OInv, PInv, TypeOK
  <2>2. data'[k] = Absent
    BY <1>3 DEF Delete, Discard, Put, OInv, PInv, TypeOK
  <2>3. \A j : InPipeline(j) => InPipeline(j)'
    BY <1>3 DEF Delete, workerVars, InPipeline
  <2>4. VectorOrMiss'
    BY <1>3 DEF Delete, workerVars, OInv, VectorOrMiss
  <2>5. UNCHANGED <<writes, missed>>
    BY <1>3 DEF Delete
  <2>6. VectorOrJob'
    BY <2>1, <2>2, <2>3, <2>5, Settled DEF OInv, Present
  <2> QED
    BY <2>4, <2>6
<1> QED
  BY <1>1, <1>2, <1>3 DEF Request, Expire

LEMMA EnqueueOnce ==
  ASSUME OInv, NEW h \in Handler, Enqueue(h)
  PROVE  VectorOrMiss' /\ VectorOrJob'
<1>1. /\ UNCHANGED <<data, workerVars, writes>> /\ missed \subseteq missed'
      /\ hjob[h] # NoJob
      /\ \A g \in Handler \ {h} : hjob'[g] = hjob[g]
  BY DEF Enqueue, Miss, OInv, PInv, TypeOK
<1>2. VectorOrMiss'
  BY <1>1 DEF workerVars, OInv, VectorOrMiss
<1>3. ASSUME NEW k, k \notin missed', InPipeline(k)
      PROVE  InPipeline(k)'
  <2>1. CASE Len(jobCh) < BufferSize
    <3>1. jobCh' = Append(jobCh, hjob[h]) /\ hjob[h] \in Job /\ jobCh \in Seq(Job)
      BY <1>1, <2>1 DEF Enqueue, OInv, PInv, TypeOK
    <3>2. ToSet(jobCh)' = ToSet(jobCh) \cup {hjob[h]}
      BY <3>1, SendQueue
    <3> QED
      BY <1>1, <1>3, <3>2 DEF InPipeline, workerVars
  <2>2. CASE ~(Len(jobCh) < BufferSize)
    <3>1. jobCh' = jobCh /\ missed' = missed \cup {hjob[h].key}
      BY <2>2 DEF Enqueue, Miss
    <3> QED
      BY <1>1, <1>3, <3>1 DEF InPipeline, workerVars
  <2> QED
    BY <2>1, <2>2
<1>4. VectorOrJob'
  BY <1>1, <1>3, Settled DEF OInv, Present
<1> QED
  BY <1>2, <1>4

LEMMA ReceiveOnce ==
  ASSUME OInv, NEW w \in Worker, Receive(w)
  PROVE  VectorOrMiss' /\ VectorOrJob'
<1>1. /\ UNCHANGED <<data, hjob, wvec, copy, writes, missed>>
      /\ jobCh \in Seq(Job) /\ jobCh # <<>> /\ jobCh' = Tail(jobCh)
      /\ wpc[w] = "receive" /\ wpc'[w] = "embed" /\ wjob'[w] = Head(jobCh)
      /\ \A v \in Worker \ {w} : wpc'[v] = wpc[v] /\ wjob'[v] = wjob[v]
  BY DEF Receive, OInv, PInv, TypeOK
<1>2. ToSet(jobCh) = {Head(jobCh)} \cup ToSet(jobCh)'
  BY <1>1, HeadAndTail
<1>3. VectorOrMiss'
  BY <1>1 DEF OInv, VectorOrMiss
<1>4. ASSUME NEW k, InPipeline(k)
      PROVE  InPipeline(k)'
  BY <1>1, <1>2, <1>4 DEF InPipeline
<1>5. VectorOrJob'
  BY <1>1, <1>4, Settled DEF OInv, Present
<1> QED
  BY <1>3, <1>5

\* A worker that ends its job without storing a vector has missed the key, or
\* found it absent.
LEMMA BackOnce ==
  ASSUME OInv, NEW w \in Worker, Back(w), UNCHANGED data, missed \subseteq missed',
         wjob[w].key \in missed' \/ data[wjob[w].key] = Absent
  PROVE  VectorOrMiss' /\ VectorOrJob'
<1>1. /\ UNCHANGED <<jobCh, hjob, writes>> /\ wpc'[w] = "receive"
      /\ \A v \in Worker \ {w} :
           wpc'[v] = wpc[v] /\ wjob'[v] = wjob[v] /\ wvec'[v] = wvec[v]
  BY DEF Back, OInv, PInv, TypeOK
<1>2. VectorOrMiss'
  BY <1>1 DEF OInv, VectorOrMiss
<1>3. ASSUME NEW k, k # wjob[w].key, InPipeline(k)
      PROVE  InPipeline(k)'
  BY <1>1, <1>3 DEF InPipeline
<1>4. VectorOrJob'
  BY <1>1, <1>3, Settled DEF OInv, Present
<1> QED
  BY <1>2, <1>4

LEMMA EmbeddedOnce ==
  ASSUME OInv, NEW w \in Worker, Embedded(w)
  PROVE  VectorOrMiss' /\ VectorOrJob'
<1>1. /\ UNCHANGED <<data, jobCh, hjob, wjob, copy, writes>> /\ missed \subseteq missed'
      /\ wpc[w] = "embed" /\ wpc'[w] = "get"
      /\ wvec'[w] = Embedding[wjob[w].text] \/ wjob[w].key \in missed'
      /\ \A v \in Worker \ {w} : wpc'[v] = wpc[v] /\ wvec'[v] = wvec[v]
  BY DEF Embedded, Miss, OInv, PInv, TypeOK
<1>2. VectorOrMiss'
  BY <1>1 DEF OInv, VectorOrMiss
<1>3. ASSUME NEW k, InPipeline(k)
      PROVE  InPipeline(k)'
  BY <1>1, <1>3 DEF InPipeline
<1>4. VectorOrJob'
  BY <1>1, <1>3, Settled DEF OInv, Present
<1> QED
  BY <1>2, <1>4

LEMMA CallbackGetOnce ==
  ASSUME OInv, NEW w \in Worker, CallbackGet(w)
  PROVE  VectorOrMiss' /\ VectorOrJob'
<1> DEFINE k == wjob[w].key
           t == Touch(data[k])
<1>1. CASE data[k] = Absent
  BY <1>1, BackOnce DEF CallbackGet
<1>2. CASE data[k] # Absent
  <2>1. k \in Key /\ data[k] \in Item
    BY <1>2, WorkerJob DEF CallbackGet, OInv, PInv, TypeOK, Entry
  <2>2. t.vector = data[k].vector /\ t.value = data[k].value
    BY <2>1 DEF Touch, Item
  <2> HIDE DEF t
  <2>3. /\ data' = Put(data, k, t) /\ UNCHANGED <<jobCh, hjob, wjob, wvec, writes, missed>>
        /\ wpc[w] = "get" /\ wpc'[w] = "set"
        /\ \A v \in Worker \ {w} : wpc'[v] = wpc[v]
    BY <1>2 DEF CallbackGet, t, OInv, PInv, TypeOK
  <2>4. data'[k] = t /\ \A j \in Key \ {k} : data'[j] = data[j]
    BY <2>1, <2>3 DEF Put, OInv, PInv, TypeOK
  <2>5. VectorOrMiss'
    BY <2>3 DEF OInv, VectorOrMiss
  <2>6. ASSUME NEW j, InPipeline(j)
        PROVE  InPipeline(j)'
    BY <2>3, <2>6 DEF InPipeline
  <2>7. VectorOrJob'
    BY <1>2, <2>1, <2>2, <2>3, <2>4, <2>6, Settled DEF OInv, Present
  <2> QED
    BY <2>5, <2>7
<1> QED
  BY <1>1, <1>2

LEMMA CallbackSetOnce ==
  ASSUME OInv, NEW w \in Worker, CallbackSet(w)
  PROVE  VectorOrMiss' /\ VectorOrJob'
<1> DEFINE k == wjob[w].key
           f == Filled(w)
<1>1. CASE data' = data /\ missed' = missed \cup {k}
  BY <1>1, BackOnce DEF CallbackSet
<1>2. CASE data' = Put(data, k, f) /\ missed' = missed
  <2>1. /\ k \in Key /\ Asked(ToSet(writes), wjob[w])
        /\ copy[w] \in Item /\ Text(ToSet(writes), k, copy[w])
    BY WorkerJob DEF CallbackSet, OInv, PInv, TypeOK, CopiesSound, Sound, Entry
  <2>2. f.vector = wvec[w] /\ f.value = copy[w].value
    BY <2>1 DEF Filled, Item
  <2> HIDE DEF f
  <2>3. data'[k] = f /\ \A j \in Key \ {k} : data'[j] = data[j]
    BY <1>2, <2>1 DEF Put, OInv, PInv, TypeOK
  <2>4. /\ UNCHANGED <<jobCh, hjob, writes>> /\ wpc[w] = "set" /\ wpc'[w] = "receive"
        /\ \A v \in Worker \ {w} :
             wpc'[v] = wpc[v] /\ wjob'[v] = wjob[v] /\ wvec'[v] = wvec[v]
    BY DEF CallbackSet, Back, OInv, PInv, TypeOK
  <2>5. VectorOrMiss'
    BY <1>2, <2>4 DEF OInv, VectorOrMiss
  <2>6. ASSUME NEW n \in Nat, Once(k, n), k \notin missed
        PROVE  f.vector = Embedding[f.value]
    <3>1. copy[w].value = writes[n].item.value
      BY <2>1, <2>6 DEF Text, SameButVector, Once, ToSet
    <3>2. wjob[w].text = writes[n].item.value
      BY <2>1, <2>6 DEF Asked, Once, ToSet
    <3>3. wvec[w] = Embedding[wjob[w].text]
      BY <2>4, <2>6 DEF OInv, VectorOrMiss
    <3> QED
      BY <2>2, <3>1, <3>2, <3>3
  <2>7. ASSUME NEW j, j # k, InPipeline(j)
        PROVE  InPipeline(j)'
    BY <2>4, <2>7 DEF InPipeline
  <2>8. VectorOrJob'
    <3> SUFFICES ASSUME NEW j \in Present(data)' \ missed', NEW n \in Nat, Once(j, n)'
                 PROVE  data'[j].vector = Embedding[data'[j].value] \/ InPipeline(j)'
      BY DEF VectorOrJob
    <3>1. Once(j, n)
      BY <2>4 DEF Once
    <3>2. CASE j = k
      BY <1>2, <2>3, <2>6, <3>1, <3>2
    <3>3. CASE j # k
      <4>1. j \in Present(data) \ missed /\ data'[j] = data[j]
        BY <1>2, <2>3, <3>3 DEF Present
      <4>2. data[j].vector = Embedding[data[j].value] \/ InPipeline(j)
        BY <3>1, <4>1 DEF OInv, VectorOrJob
      <4> QED
        BY <2>7, <3>3, <4>1, <4>2
    <3> QED
      BY <3>2, <3>3
  <2> QED
    BY <2>5, <2>8
<1> QED
  BY <1>1, <1>2 DEF CallbackSet, Miss

LEMMA OnceNext == OInv /\ [Next]_vars => OInv'
<1> SUFFICES ASSUME OInv, [Next]_vars PROVE OInv'
  OBVIOUS
<1>1. PInv'
  BY PipelineNext DEF OInv
<1>2. CASE Request
  BY <1>1, <1>2, RequestOnce DEF OInv
<1>3. CASE \E h \in Handler : Enqueue(h)
  BY <1>1, <1>3, EnqueueOnce DEF OInv
<1>4. ASSUME NEW w \in Worker, WorkerStep(w)
      PROVE  OInv'
  <2>1. CASE EmbedFails(w)
    BY <1>1, <2>1, BackOnce DEF EmbedFails, Miss, OInv
  <2> QED
    BY <1>1, <1>4, <2>1, ReceiveOnce, EmbeddedOnce, CallbackGetOnce, CallbackSetOnce
    DEF WorkerStep, OInv
<1>5. CASE UNCHANGED vars
  <2>1. VectorOrMiss'
    BY <1>5 DEF vars, workerVars, OInv, VectorOrMiss
  <2>2. ASSUME NEW k, InPipeline(k)
        PROVE  InPipeline(k)'
    BY <1>5, <2>2 DEF vars, workerVars, InPipeline
  <2>3. VectorOrJob'
    BY <1>5, <2>2, Settled DEF vars, OInv, Present
  <2> QED
    BY <1>1, <2>1, <2>3 DEF OInv
<1> QED
  BY <1>2, <1>3, <1>4, <1>5 DEF Next

\* An entry that was set once, with auto_embed, gets its own embedding, unless
\* a job was dropped, failed or did not fit: whatever else is stored, deleted
\* and embedded meanwhile.
THEOREM OwnVectorArrives == Spec => []SetOnceGetsItsVector
<1>1. Init => OInv
  BY PipelineInit DEF Init, OInv, VectorOrMiss, VectorOrJob, Present, EmptyMap
<1>2. OInv => SetOnceGetsItsVector
  <2> SUFFICES ASSUME OInv, Quiet, NEW k \in Present(data) \ missed,
                      NEW n \in DOMAIN writes, Once(k, n)
               PROVE  data[k].vector = Embedding[data[k].value]
    BY DEF SetOnceGetsItsVector, Once
  <2>1. n \in Nat
    BY LenProperties DEF OInv, PInv
  <2>2. ~InPipeline(k)
    BY EmptyQueue DEF Quiet, InPipeline
  <2> QED
    BY <2>1, <2>2 DEF OInv, VectorOrJob
<1> QED
  BY <1>1, <1>2, OnceNext, PTL DEF Spec
=============================================================================
