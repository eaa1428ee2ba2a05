--------------------------- MODULE VectorPipeline ---------------------------
(***************************************************************************)
(* How a vector reaches its entry: Set of internal/server/grpc.go stores   *)
(* the text and enqueues it, a worker of internal/embedder/client.go has   *)
(* it embedded, and the callback of cmd/gogaghe-server/main.go reads the   *)
(* entry, puts the vector in its copy and sets the copy. The engine's      *)
(* operations are atomic (Engine implements AtomicStore); every step       *)
(* between them may interleave with other requests and other workers.      *)
(* Get, Delete and Set requests without auto_embed are one call each; the  *)
(* clock is left out, an entry with an expiry is one that may disappear.   *)
(***************************************************************************)
EXTENDS StoreData, Sequences, Functions

CONSTANTS
  Handler,    \* goroutines of Set requests with auto_embed
  Worker,     \* goroutines of the embedder's pool
  BufferSize, \* capacity of jobCh
  NoJob,      \* no job
  NoVector,   \* the nil slice
  Embedding,  \* [Value -> Vector], what the sidecar answers for a text
  InputItem,  \* the items clients pass to Set
  MaxSets     \* bound: Set requests in a behaviour

ASSUME VectorAssumption ==
  /\ NoVector \in Vector /\ VectorLen[NoVector] = 0
  /\ Embedding \in [Value -> Vector]
ASSUME InputAssumption == InputItem \subseteq Item
ASSUME BoundAssumption == BufferSize \in Nat /\ MaxSets \in Nat

Job == [key : Key, text : Value]
ASSUME NoJobAssumption == NoJob \notin Job
EmbedJob(k, i) == [key |-> k, text |-> i.value]

VARIABLES
  data,    \* the map of the engine
  jobCh,   \* the buffered channel
  hjob,    \* [Handler -> the job it is about to enqueue, or NoJob]
  wpc,     \* [Worker -> where it is]
  wjob,    \* [Worker -> its job]
  wvec,    \* [Worker -> the vector the sidecar answered]
  copy,    \* [Worker -> the entry its callback got]
  writes,  \* history: the Set requests that the store accepted
  missed   \* history: the keys that did not get a vector they should have got

workerVars == <<wpc, wjob, wvec, copy>>
vars == <<data, jobCh, hjob, workerVars, writes, missed>>

Init ==
  /\ data = EmptyMap
  /\ jobCh = <<>>
  /\ hjob = [h \in Handler |-> NoJob]
  /\ wpc = [w \in Worker |-> "receive"]
  /\ wjob = [w \in Worker |-> NoJob]
  /\ wvec = [w \in Worker |-> NoVector]
  /\ copy = [w \in Worker |-> Absent]
  /\ writes = <<>>
  /\ missed = {}

Miss(k) == missed' = missed \cup {k}

-----------------------------------------------------------------------------
(* Requests. A Set that does not fit fails and changes nothing. *)

Store(k, i, auto) ==
  /\ Len(writes) < MaxSets
  /\ Fits(data, Footprint(data), k, i)
  /\ data' = Put(data, k, i)
  /\ writes' = Append(writes, [key |-> k, item |-> i, auto |-> auto])

\* Set without auto_embed.
PlainSet(k, i) ==
  /\ Store(k, i, FALSE)
  /\ UNCHANGED <<jobCh, hjob, workerVars, missed>>

\* Set with auto_embed, up to its call of Enqueue: whether the request brings
\* a vector of its own makes no difference.
AutoSet(h, k, i) ==
  /\ hjob[h] = NoJob
  /\ Store(k, i, TRUE)
  /\ hjob' = [hjob EXCEPT ![h] = EmbedJob(k, i)]
  /\ UNCHANGED <<jobCh, workerVars, missed>>

\* Mutation: the buffer is unbounded.
EnqueueAlways(h) ==
  /\ hjob[h] # NoJob
  /\ jobCh' = Append(jobCh, hjob[h])
  /\ hjob' = [hjob EXCEPT ![h] = NoJob]
  /\ UNCHANGED <<data, workerVars, writes, missed>>

\* Enqueue: drops the job when the buffer is full.
Enqueue(h) ==
  /\ hjob[h] # NoJob
  /\ IF Len(jobCh) < BufferSize
     THEN jobCh' = Append(jobCh, hjob[h]) /\ UNCHANGED missed
     ELSE Miss(hjob[h].key) /\ UNCHANGED jobCh
  /\ hjob' = [hjob EXCEPT ![h] = NoJob]
  /\ UNCHANGED <<data, workerVars, writes>>

Delete(k) ==
  /\ data[k] # Absent
  /\ data' = Discard(data, k)
  /\ UNCHANGED <<jobCh, hjob, workerVars, writes, missed>>

\* The engine discards an entry that has expired.
Expire(k) == Delete(k) /\ data[k].expiresAt # 0

-----------------------------------------------------------------------------
(* Workers *)

Receive(w) ==
  /\ wpc[w] = "receive"
  /\ jobCh # <<>>
  /\ wjob' = [wjob EXCEPT ![w] = Head(jobCh)]
  /\ jobCh' = Tail(jobCh)
  /\ wpc' = [wpc EXCEPT ![w] = "embed"]
  /\ UNCHANGED <<data, hjob, wvec, copy, writes, missed>>

Back(w) ==
  /\ wpc' = [wpc EXCEPT ![w] = "receive"]
  /\ wjob' = [wjob EXCEPT ![w] = NoJob]
  /\ wvec' = [wvec EXCEPT ![w] = NoVector]
  /\ copy' = [copy EXCEPT ![w] = Absent]
  /\ UNCHANGED <<jobCh, hjob, writes>>

EmbedFails(w) ==
  /\ wpc[w] = "embed"
  /\ Back(w)
  /\ Miss(wjob[w].key)
  /\ UNCHANGED data

\* Mutation: the workers share one response.
EmbeddedShared(w) ==
  /\ wpc[w] = "embed"
  /\ wpc' = [wpc EXCEPT ![w] = "get"]
  /\ wvec' = [v \in Worker |-> Embedding[wjob[w].text]]
  /\ UNCHANGED <<data, jobCh, hjob, wjob, copy, writes, missed>>

\* The body decodes. Embed does not look at the HTTP status, and a body without
\* a "vector" decodes to the nil slice.
Embedded(w) ==
  /\ wpc[w] = "embed"
  /\ wpc' = [wpc EXCEPT ![w] = "get"]
  /\ \/ wvec' = [wvec EXCEPT ![w] = Embedding[wjob[w].text]] /\ UNCHANGED missed
     \/ wvec' = [wvec EXCEPT ![w] = NoVector] /\ Miss(wjob[w].key)
  /\ UNCHANGED <<data, jobCh, hjob, wjob, copy, writes>>

\* item, ok := engine.Get(key), which counts as an access.
CallbackGet(w) ==
  LET k == wjob[w].key IN
    /\ wpc[w] = "get"
    /\ IF data[k] = Absent
       THEN Back(w) /\ UNCHANGED <<data, missed>>
       ELSE /\ data' = Put(data, k, Touch(data[k]))
            /\ copy' = [copy EXCEPT ![w] = Touch(data[k])]
            /\ wpc' = [wpc EXCEPT ![w] = "set"]
            /\ UNCHANGED <<jobCh, hjob, wjob, wvec, writes, missed>>

\* Mutation: the callback restores the text of its job, or forgets the vector.
FilledWithText(w) == [copy[w] EXCEPT !.vector = wvec[w], !.value = wjob[w].text]
Unfilled(w) == copy[w]

Filled(w) == [copy[w] EXCEPT !.vector = wvec[w]]

\* item.Vector = vector; engine.Set(key, item), which may be over the limit.
CallbackSet(w) ==
  LET k == wjob[w].key IN
    /\ wpc[w] = "set"
    /\ Back(w)
    /\ IF Fits(data, Footprint(data), k, Filled(w))
       THEN data' = Put(data, k, Filled(w)) /\ UNCHANGED missed
       ELSE Miss(k) /\ UNCHANGED data

-----------------------------------------------------------------------------

Request ==
  \E k \in Key :
    \/ \E i \in InputItem : PlainSet(k, i) \/ \E h \in Handler : AutoSet(h, k, i)
    \/ Delete(k) \/ Expire(k)

WorkerStep(w) ==
  Receive(w) \/ EmbedFails(w) \/ Embedded(w) \/ CallbackGet(w) \/ CallbackSet(w)

Next ==
  \/ Request
  \/ \E h \in Handler : Enqueue(h)
  \/ \E w \in Worker : WorkerStep(w)

Spec == Init /\ [][Next]_vars

-----------------------------------------------------------------------------
(* Correctness *)

\* Every variable has its type.
TypeOK ==
  /\ data \in [Key -> Entry]
  /\ jobCh \in Seq(Job) /\ Len(jobCh) <= BufferSize
  /\ hjob \in [Handler -> Job \cup {NoJob}]
  /\ wpc \in [Worker -> {"receive", "embed", "get", "set"}]
  /\ wjob \in [Worker -> Job \cup {NoJob}]
  /\ wvec \in [Worker -> Vector]
  /\ copy \in [Worker -> Entry]
  /\ missed \subseteq Key

Written(k) == {r \in Range(writes) : r.key = k}

SameButVector(e, i) ==
  e.value = i.value /\ e.costMs = i.costMs /\ e.expiresAt = i.expiresAt

\* The callback rewrites whole entries from its copy, yet no entry ever mixes
\* two requests: value, cost and expiry come from one Set of that key.
NoMixedEntry ==
  \A k \in Present(data) : \E r \in Written(k) : SameButVector(data[k], r.item)

\* A vector is the client's, an embedding of a text set under the same key, or
\* nil: jobs that wait, overlap and overtake each other never cross keys.
VectorOfSameKey ==
  \A k \in Present(data) :
    \E r \in Written(k) :
      \/ data[k].vector \in {r.item.vector, NoVector}
      \/ r.auto /\ data[k].vector = Embedding[r.item.value]

Quiet ==
  /\ jobCh = <<>>
  /\ \A h \in Handler : hjob[h] = NoJob
  /\ \A w \in Worker : wpc[w] = "receive"

\* An entry that was set once, with auto_embed, has the embedding of its text
\* when the pipeline is idle, unless a job was dropped, failed or did not fit.
SetOnceGetsItsVector ==
  Quiet =>
    \A k \in Present(data) \ missed :
      \A n \in DOMAIN writes :
        /\ writes[n].key = k /\ writes[n].auto
        /\ \A m \in DOMAIN writes : writes[m].key = k => m = n
        => data[k].vector = Embedding[data[k].value]

\* README.md:75, "Callback -> update Vector": whatever is in the store when the
\* callback sets its copy keeps its value, its cost and its expiry. A Set that
\* comes between the Get and the Set of the callback is reverted.
CallbackOnlyUpdatesVector ==
  [][\A w \in Worker : CallbackSet(w) =>
       \A k \in Present(data) : SameButVector(data'[k], data[k])]_vars
=============================================================================
