------------------------- MODULE VectorSearchProofs -------------------------
(***************************************************************************)
(* Proofs about VectorSearch, for any items, any query and any number of   *)
(* goroutines.                                                             *)
(***************************************************************************)
EXTENDS VectorSearch, DataLemmas

\* The items that become jobs.
WithVector == {k \in Items : items[k] # <<>>}

\* The types of what moves.
Typed ==
  /\ items \in [Key -> Vector \cup {NoItem}] /\ queryVec \in Query /\ topK \in TopK
  /\ pc \in {"Start", "Send", "Wait", "Collect", "Returned"}
  /\ unsent \subseteq Items
  /\ jobs \in Seq(WithVector) /\ jobsClosed \in BOOLEAN
  /\ results \in Seq(Comparable) /\ resultsClosed \in BOOLEAN /\ panicked \in BOOLEAN
  /\ worker \in [Worker -> {"unborn", "ready", "busy", "done"}]
  /\ job \in [Worker -> Items \cup {NoItem}]
  /\ \A w \in Worker : worker[w] = "busy" <=> job[w] # NoItem

\* No key is in two places, or twice in one.
Apart ==
  /\ IsInjective(jobs) /\ IsInjective(results)
  /\ \A k \in unsent : k \notin ToSet(jobs) /\ k \notin ToSet(results)
  /\ \A k \in ToSet(jobs) : k \notin ToSet(results)
  /\ \A w \in Worker : job[w] \notin unsent /\ job[w] \notin ToSet(jobs) /\ job[w] \notin ToSet(results)
  /\ \A v, w \in Worker : v # w => job[v] = NoItem \/ job[v] # job[w]

\* Every comparable item is on its way while the call lasts.
Somewhere(k) ==
  k \in unsent \/ k \in ToSet(jobs) \/ k \in ToSet(results) \/ \E w \in Worker : job[w] = k

NoneLost == pc \in {"Send", "Wait", "Collect"} => \A k \in Comparable : Somewhere(k)

\* Who can still do what when the caller is where it is.
Stages ==
  /\ pc = "Start" => /\ unsent = {} /\ jobs = <<>> /\ results = <<>>
                     /\ ~jobsClosed /\ ~resultsClosed
                     /\ \A w \in Worker : worker[w] = "unborn"
  /\ pc \in {"Send", "Wait", "Collect"} => /\ queryVec # <<>>
                                           /\ \A w \in Worker : worker[w] # "unborn"
  /\ pc # "Returned" => answer = <<>>
  /\ pc \in {"Collect", "Returned"} => \A w \in Worker : worker[w] \in {"unborn", "done"}
  /\ jobsClosed => unsent = {} /\ pc \in {"Wait", "Collect", "Returned"}
  /\ resultsClosed => pc \in {"Collect", "Returned"}
  /\ \A w \in Worker : worker[w] = "done" => jobsClosed /\ jobs = <<>>

\* The inductive invariant.
VInv ==
  Typed /\ Apart /\ NoneLost /\ Stages /\ ~panicked /\ (pc = "Returned" => answer = Rank(Comparable))

-----------------------------------------------------------------------------

LEMMA NoneToRank == topK \in Int => Rank({}) = <<>>
<1> SUFFICES ASSUME topK \in Int PROVE Rank({}) = <<>>
  OBVIOUS
<1> DEFINE f == [k \in {} |-> CosineSimilarity(items[k], queryVec)]
<1>1. DOMAIN f = {} /\ Cardinality(DOMAIN f) = 0
  BY FS_EmptySet
<1>2. Ranked(f) = <<>>
  BY <1>1 DEF Ranked
<1>3. Truncate(<<>>, topK) = <<>>
  <2>1. Len(<<>>) = 0
    BY EmptySeq
  <2> QED
    BY <2>1 DEF Truncate
<1> QED
  BY <1>2, <1>3 DEF Rank

\* The arguments stay.
LEMMA ArgsStay ==
  ASSUME UNCHANGED args
  PROVE  /\ items' = items /\ queryVec' = queryVec /\ topK' = topK
         /\ Items' = Items /\ WithVector' = WithVector /\ Comparable' = Comparable
         /\ Rank(Comparable)' = Rank(Comparable)
<1>1. items' = items /\ queryVec' = queryVec /\ topK' = topK
  BY DEF args
<1>2. Items' = Items /\ WithVector' = WithVector /\ Comparable' = Comparable
  BY <1>1 DEF Items, WithVector, Comparable
<1> QED
  BY <1>1, <1>2 DEF Rank

LEMMA Facts ==
  ASSUME Typed
  PROVE  /\ Items \subseteq Key /\ NoItem \notin Items /\ Comparable \subseteq Items
         /\ \A k \in Items : items[k] \in Seq(Int)
         /\ queryVec \in Seq(Int) /\ topK \in Int
         /\ ToSet(jobs) \subseteq Items /\ ToSet(results) \subseteq Comparable
         /\ \A k \in Comparable : Len(items[k]) > 0
<1>1. Items \subseteq Key /\ NoItem \notin Items /\ Comparable \subseteq Items
  BY NoItemAssumption DEF Items, Comparable
<1>2. \A k \in Items : items[k] \in Seq(Int)
  BY VectorAssumption DEF Typed, Items
<1>3. queryVec \in Seq(Int) /\ topK \in Int
  BY VectorAssumption, TopKAssumption DEF Typed
<1>4. ToSet(jobs) \subseteq Items /\ ToSet(results) \subseteq Comparable
  BY LenProperties, ElementOfSeq DEF Typed, ToSet, WithVector
<1>5. ASSUME NEW k \in Comparable PROVE Len(items[k]) > 0
  <2>1. queryVec # <<>> /\ Len(items[k]) = Len(queryVec)
    BY DEF Comparable
  <2>2. Len(queryVec) \in Nat /\ Len(queryVec) # 0
    BY <1>3, <2>1, EmptySeq, LenProperties
  <2> QED
    BY <2>1, <2>2
<1> QED
  BY <1>1, <1>2, <1>3, <1>4, <1>5

LEMMA VInit == Init => VInv
<1> SUFFICES ASSUME Init PROVE VInv
  OBVIOUS
<1> USE DEF Init
<1>1. <<>> \in Seq(WithVector) /\ <<>> \in Seq(Comparable)
  BY EmptySeq
<1>2. Typed
  BY <1>1 DEF Typed
<1>3. Apart
  BY EmptyQueue DEF Apart
<1>4. NoneLost /\ Stages
  BY DEF NoneLost, Stages
<1> QED
  BY <1>2, <1>3, <1>4 DEF VInv

LEMMA StartSafe ==
  ASSUME VInv, ReturnEmpty \/ SpawnWorkers
  PROVE  VInv'
<1> USE DEF VInv
<1>1. UNCHANGED args /\ pc = "Start" /\ UNCHANGED <<jobs, jobsClosed, results, resultsClosed, job, answer, panicked>>
  BY DEF ReturnEmpty, SpawnWorkers
<1>2. /\ items' = items /\ queryVec' = queryVec /\ topK' = topK
      /\ Items' = Items /\ WithVector' = WithVector /\ Comparable' = Comparable
      /\ Rank(Comparable)' = Rank(Comparable)
  BY <1>1, ArgsStay
<1>3. jobs = <<>> /\ results = <<>> /\ unsent = {} /\ answer = <<>> /\ ~jobsClosed /\ ~resultsClosed
      /\ \A w \in Worker : worker[w] = "unborn" /\ job[w] = NoItem
  BY <1>1 DEF Stages, Typed
<1>4. CASE ReturnEmpty
  <2>1. pc' = "Returned" /\ unsent' = unsent /\ worker' = worker /\ (Items = {} \/ queryVec = <<>>)
    BY <1>4 DEF ReturnEmpty
  <2>2. Typed'
    BY <1>1, <1>2, <2>1 DEF Typed
  <2>3. Apart'
    BY <1>1, <2>1 DEF Apart
  <2>4. NoneLost' /\ Stages'
    BY <1>1, <1>3, <2>1 DEF NoneLost, Stages
  <2>5. answer' = Rank(Comparable)'
    <3>1. Comparable = {}
      BY <2>1 DEF Comparable
    <3>2. Rank({}) = <<>>
      BY Facts, NoneToRank
    <3> QED
      BY <1>1, <1>2, <1>3, <3>1, <3>2
  <2> QED
    BY <1>1, <2>1, <2>2, <2>3, <2>4, <2>5
<1>5. CASE SpawnWorkers
  <2>1. pc' = "Send" /\ unsent' = Items /\ worker' = [w \in Worker |-> "ready"] /\ queryVec # <<>>
    BY <1>5 DEF SpawnWorkers
  <2>2. Typed'
    BY <1>1, <1>2, <1>3, <2>1 DEF Typed
  <2>3. Apart'
    <3>1. ToSet(jobs') = {} /\ ToSet(results') = {} /\ IsInjective(jobs') /\ IsInjective(results')
      BY <1>1, <1>3, EmptyQueue
    <3>2. \A w \in Worker : job'[w] = NoItem
      BY <1>1, <1>3
    <3> QED
      BY <2>1, <3>1, <3>2, Facts DEF Apart
  <2>4. NoneLost'
    BY <1>2, <2>1, Facts DEF NoneLost, Somewhere
  <2>5. Stages'
    BY <1>1, <1>2, <1>3, <2>1 DEF Stages
  <2> QED
    BY <1>1, <2>1, <2>2, <2>3, <2>4, <2>5
<1> QED
  BY <1>4, <1>5

LEMMA SendSafe ==
  ASSUME VInv, NEW k \in Key, Send(k)
  PROVE  VInv'
<1> USE DEF VInv
<1>1. /\ UNCHANGED args /\ UNCHANGED <<pc, jobsClosed, results, resultsClosed, worker, job, answer, panicked>>
      /\ pc = "Send" /\ k \in unsent /\ unsent' = unsent \ {k}
  BY DEF Send
<1>2. /\ items' = items /\ queryVec' = queryVec /\ topK' = topK
      /\ Items' = Items /\ WithVector' = WithVector /\ Comparable' = Comparable
      /\ Rank(Comparable)' = Rank(Comparable)
  BY <1>1, ArgsStay
<1>3. k \in Items /\ jobs \in Seq(WithVector) /\ k \notin ToSet(jobs)
  BY <1>1 DEF Typed, Apart
<1>4. \A w \in Worker : worker[w] # "done"
  BY <1>1 DEF Stages
<1>5. CASE HasVector(k)
  <2>1. jobs' = Append(jobs, k)
    BY <1>5 DEF Send
  <2>2. k \in WithVector
    BY <1>3, <1>5, EmptySeq DEF WithVector, HasVector
  <2>7. jobs' \in Seq(WithVector) /\ ToSet(jobs') = ToSet(jobs) \cup {k} /\ IsInjective(jobs')
    BY <1>3, <2>1, <2>2, SendQueue DEF Apart
  <2>3. Typed'
    BY <1>1, <1>2, <2>7 DEF Typed
  <2>4. Apart'
    BY <1>1, <2>7 DEF Apart
  <2>5. NoneLost'
    BY <1>1, <1>2, <2>7 DEF NoneLost, Somewhere
  <2>6. Stages'
    BY <1>1, <1>2, <1>4 DEF Stages
  <2> QED
    BY <1>1, <2>3, <2>4, <2>5, <2>6
<1>6. CASE ~HasVector(k)
  <2>1. jobs' = jobs
    BY <1>6 DEF Send
  <2>2. k \notin Comparable
    BY <1>6, Facts DEF HasVector
  <2>3. Typed'
    BY <1>1, <1>2, <2>1 DEF Typed
  <2>4. Apart'
    BY <1>1, <2>1 DEF Apart
  <2>5. NoneLost'
    BY <1>1, <1>2, <2>1, <2>2 DEF NoneLost, Somewhere
  <2>6. Stages'
    BY <1>1, <1>2, <1>4 DEF Stages
  <2> QED
    BY <1>1, <2>3, <2>4, <2>5, <2>6
<1> QED
  BY <1>5, <1>6

LEMMA CloseSafe ==
  ASSUME VInv, CloseJobs \/ CloseResults
  PROVE  VInv'
<1> USE DEF VInv
<1>1. /\ UNCHANGED args /\ UNCHANGED <<unsent, jobs, results, worker, job, answer, panicked>>
      /\ pc \in {"Send", "Wait"} /\ pc' \in {"Wait", "Collect"}
  BY DEF CloseJobs, CloseResults
<1>2. /\ items' = items /\ queryVec' = queryVec /\ topK' = topK
      /\ Items' = Items /\ WithVector' = WithVector /\ Comparable' = Comparable
      /\ Rank(Comparable)' = Rank(Comparable)
  BY <1>1, ArgsStay
<1>3. Typed' /\ Apart'
  <2>1. jobsClosed' \in BOOLEAN /\ resultsClosed' \in BOOLEAN
    BY DEF CloseJobs, CloseResults, Typed
  <2> QED
    BY <1>1, <1>2, <2>1 DEF Typed, Apart
<1>4. NoneLost'
  BY <1>1, <1>2 DEF NoneLost, Somewhere
<1>5. Stages'
  <2>1. CASE CloseJobs
    BY <1>1, <1>2, <2>1 DEF Stages, CloseJobs
  <2>2. CASE CloseResults
    BY <1>1, <1>2, <2>2, WorkerAssumption DEF Stages, CloseResults, AllDone
  <2> QED
    BY <2>1, <2>2
<1> QED
  BY <1>1, <1>3, <1>4, <1>5

LEMMA ReturnSafe ==
  ASSUME VInv, Return
  PROVE  VInv'
<1> USE DEF VInv
<1>1. /\ UNCHANGED args
      /\ UNCHANGED <<unsent, jobs, jobsClosed, results, resultsClosed, worker, job, panicked>>
      /\ pc = "Collect" /\ pc' = "Returned" /\ answer' = Rank(KeysOf(results))
  BY DEF Return
<1>2. /\ items' = items /\ queryVec' = queryVec /\ topK' = topK
      /\ Items' = Items /\ WithVector' = WithVector /\ Comparable' = Comparable
      /\ Rank(Comparable)' = Rank(Comparable)
  BY <1>1, ArgsStay
<1>3. Typed' /\ Apart' /\ NoneLost'
  BY <1>1, <1>2 DEF Typed, Apart, NoneLost
<1>4. Stages'
  BY <1>1, <1>2 DEF Stages
<1>5. KeysOf(results) = Comparable
  <2>1. KeysOf(results) = ToSet(results)
    BY DEF KeysOf, ToSet
  <2>2. \A w \in Worker : worker[w] = "done"
    BY <1>1 DEF Stages, Typed
  <2>3. jobs = <<>> /\ unsent = {} /\ \A w \in Worker : job[w] = NoItem
    BY <2>2, WorkerAssumption DEF Stages, Typed
  <2>4. ASSUME NEW k \in Comparable PROVE k \in ToSet(results)
    <3>1. Somewhere(k)
      BY <1>1 DEF NoneLost
    <3> QED
      BY <2>3, <3>1, EmptyQueue, Facts DEF Somewhere
  <2> QED
    BY <2>1, <2>4, Facts
<1> QED
  BY <1>1, <1>2, <1>3, <1>4, <1>5

LEMMA ReceiveSafe ==
  ASSUME VInv, NEW w \in Worker, Receive(w)
  PROVE  VInv'
<1> USE DEF VInv
<1>1. /\ UNCHANGED args /\ UNCHANGED <<pc, unsent, jobsClosed, results, resultsClosed, answer, panicked>>
      /\ worker[w] = "ready" /\ jobs # <<>> /\ jobs' = Tail(jobs)
      /\ worker' = [worker EXCEPT ![w] = "busy"] /\ job' = [job EXCEPT ![w] = Head(jobs)]
  BY DEF Receive
<1>2. /\ items' = items /\ queryVec' = queryVec /\ topK' = topK
      /\ Items' = Items /\ WithVector' = WithVector /\ Comparable' = Comparable
      /\ Rank(Comparable)' = Rank(Comparable)
  BY <1>1, ArgsStay
<1>3. /\ Head(jobs) \in Items /\ Head(jobs) \in ToSet(jobs) /\ jobs' \in Seq(WithVector)
      /\ ToSet(jobs') = ToSet(jobs) \ {Head(jobs)} /\ IsInjective(jobs')
  BY <1>1, ReceiveQueue DEF Typed, Apart, WithVector
<1>4. /\ Head(jobs) # NoItem /\ job[w] = NoItem
      /\ worker'[w] = "busy" /\ job'[w] = Head(jobs)
      /\ \A v \in Worker : v # w => worker'[v] = worker[v] /\ job'[v] = job[v]
  BY <1>1, <1>3, Facts DEF Typed
<1>5. Typed'
  <2>1. \A v \in Worker : worker'[v] = "busy" <=> job'[v] # NoItem
    BY <1>4 DEF Typed
  <2> QED
    BY <1>1, <1>2, <1>3, <2>1 DEF Typed
<1>6. Apart'
  <2>1. IsInjective(jobs') /\ IsInjective(results')
    BY <1>1, <1>3 DEF Apart
  <2>2. /\ \A k \in unsent' : k \notin ToSet(jobs') /\ k \notin ToSet(results')
        /\ \A k \in ToSet(jobs') : k \notin ToSet(results')
    BY <1>1, <1>3 DEF Apart
  <2>3. ASSUME NEW v \in Worker
        PROVE  job'[v] \notin unsent' /\ job'[v] \notin ToSet(jobs') /\ job'[v] \notin ToSet(results')
    <3>1. CASE v = w
      BY <1>1, <1>3, <1>4, <3>1 DEF Apart
    <3>2. CASE v # w
      BY <1>1, <1>3, <1>4, <3>2 DEF Apart
    <3> QED
      BY <3>1, <3>2
  <2>4. \A u, v \in Worker : u # v => job'[u] = NoItem \/ job'[u] # job'[v]
    BY <1>3, <1>4 DEF Apart
  <2> QED
    BY <2>1, <2>2, <2>3, <2>4 DEF Apart
<1>7. NoneLost'
  <2> SUFFICES ASSUME pc \in {"Send", "Wait", "Collect"}, NEW k \in Comparable PROVE Somewhere(k)'
    BY <1>1, <1>2 DEF NoneLost
  <2>1. Somewhere(k)
    BY DEF NoneLost
  <2>2. CASE k = Head(jobs)
    BY <1>4, <2>2 DEF Somewhere
  <2>3. CASE k # Head(jobs) /\ \E v \in Worker : job[v] = k
    <3>1. PICK v \in Worker : job[v] = k
      BY <2>3
    <3>2. v # w
      BY <1>2, <1>4, <3>1, Facts
    <3> QED
      BY <1>4, <3>1, <3>2 DEF Somewhere
  <2> QED
    BY <1>1, <1>3, <2>1, <2>2, <2>3 DEF Somewhere
<1>8. Stages'
  <2>1. pc # "Start" /\ pc \notin {"Collect", "Returned"}
    BY <1>1 DEF Stages
  <2>2. ~\E v \in Worker : worker[v] = "done"
    BY <1>1 DEF Stages
  <2> QED
    BY <1>1, <1>2, <1>4, <2>1, <2>2 DEF Stages
<1> QED
  BY <1>1, <1>2, <1>5, <1>6, <1>7, <1>8

\* What a busy worker leaves behind, with a result or without.
LEMMA JobDone ==
  ASSUME VInv, NEW w \in Worker, worker[w] = "busy", UNCHANGED args,
         worker' = [worker EXCEPT ![w] = "ready"], job' = [job EXCEPT ![w] = NoItem],
         UNCHANGED <<pc, unsent, jobs, jobsClosed, resultsClosed, answer>>, panicked' \in BOOLEAN
  PROVE  /\ job[w] \in Items /\ worker'[w] = "ready" /\ job'[w] = NoItem
         /\ \A v \in Worker : v # w => worker'[v] = worker[v] /\ job'[v] = job[v] /\ job[v] # job[w]
         /\ pc \in {"Send", "Wait"} /\ ~resultsClosed /\ queryVec # <<>>
         /\ results' \in Seq(Comparable) => Typed' /\ Stages'
<1> USE DEF VInv
<1>1. /\ job[w] \in Items /\ worker'[w] = "ready" /\ job'[w] = NoItem
      /\ \A v \in Worker : v # w => worker'[v] = worker[v] /\ job'[v] = job[v]
  BY DEF Typed
<1>2. \A v \in Worker : v # w => job[v] # job[w]
  BY <1>1, Facts DEF Apart
<1>3. pc \in {"Send", "Wait"} /\ ~resultsClosed /\ queryVec # <<>>
  BY DEF Stages, Typed
<1>4. /\ items' = items /\ queryVec' = queryVec /\ topK' = topK
      /\ Items' = Items /\ WithVector' = WithVector /\ Comparable' = Comparable
  BY ArgsStay
<1>5. ASSUME results' \in Seq(Comparable) PROVE Typed'
  <2>1. \A v \in Worker : worker'[v] = "busy" <=> job'[v] # NoItem
    BY <1>1 DEF Typed
  <2> QED
    BY <1>4, <1>5, <2>1 DEF Typed
<1>6. Stages'
  <2>1. \A v \in Worker : worker'[v] = "done" => worker[v] = "done"
    BY <1>1
  <2>2. \A v \in Worker : worker'[v] # "unborn"
    BY <1>1, <1>3 DEF Stages
  <2> QED
    BY <1>3, <1>4, <2>1, <2>2 DEF Stages
<1> QED
  BY <1>1, <1>2, <1>3, <1>5, <1>6

LEMMA SkipSafe ==
  ASSUME VInv, NEW w \in Worker, Skip(w)
  PROVE  VInv'
<1> USE DEF VInv
<1>1. /\ UNCHANGED args /\ UNCHANGED <<pc, unsent, jobs, jobsClosed, results, resultsClosed, answer, panicked>>
      /\ worker[w] = "busy" /\ Len(items[job[w]]) # Len(queryVec)
      /\ worker' = [worker EXCEPT ![w] = "ready"] /\ job' = [job EXCEPT ![w] = NoItem]
  BY DEF Skip
<1>2. Comparable' = Comparable /\ results' \in Seq(Comparable) /\ panicked' \in BOOLEAN
  BY <1>1, ArgsStay DEF Typed
<1>3. /\ job[w] \in Items /\ worker'[w] = "ready" /\ job'[w] = NoItem
      /\ \A v \in Worker : v # w => worker'[v] = worker[v] /\ job'[v] = job[v] /\ job[v] # job[w]
      /\ pc \in {"Send", "Wait"} /\ Typed' /\ Stages'
  BY <1>1, <1>2, JobDone
<1>4. job[w] \notin Comparable
  BY <1>1 DEF Comparable
<1>5. Apart'
  <2>1. NoItem \notin unsent /\ NoItem \notin ToSet(jobs) /\ NoItem \notin ToSet(results)
    BY Facts DEF Typed
  <2> QED
    BY <1>1, <1>3, <2>1 DEF Apart
<1>6. NoneLost'
  BY <1>1, <1>2, <1>3, <1>4 DEF NoneLost, Somewhere
<1> QED
  BY <1>1, <1>3, <1>5, <1>6

LEMMA SendResultSafe ==
  ASSUME VInv, NEW w \in Worker, SendResult(w)
  PROVE  VInv'
<1> USE DEF VInv
<1>1. /\ UNCHANGED args /\ UNCHANGED <<pc, unsent, jobs, jobsClosed, resultsClosed, answer>>
      /\ worker[w] = "busy" /\ Len(items[job[w]]) = Len(queryVec)
      /\ worker' = [worker EXCEPT ![w] = "ready"] /\ job' = [job EXCEPT ![w] = NoItem]
  BY DEF SendResult
<1>2. Comparable' = Comparable /\ panicked' \in BOOLEAN
  BY <1>1, ArgsStay DEF SendResult
<1>3. /\ job[w] \in Items /\ worker'[w] = "ready" /\ job'[w] = NoItem
      /\ \A v \in Worker : v # w => worker'[v] = worker[v] /\ job'[v] = job[v] /\ job[v] # job[w]
      /\ pc \in {"Send", "Wait"} /\ ~resultsClosed /\ queryVec # <<>>
      /\ results' \in Seq(Comparable) => Typed' /\ Stages'
  BY <1>1, <1>2, JobDone
<1>4. ~panicked' /\ results' = Append(results, job[w])
  BY <1>3 DEF SendResult
<1>5. job[w] \in Comparable /\ job[w] \notin ToSet(results)
  BY <1>1, <1>3 DEF Comparable, Apart
<1>6. /\ results' \in Seq(Comparable) /\ ToSet(results') = ToSet(results) \cup {job[w]}
      /\ IsInjective(results')
  BY <1>4, <1>5, SendQueue DEF Typed, Apart
<1>7. Apart'
  <2>1. NoItem \notin unsent /\ NoItem \notin ToSet(jobs) /\ NoItem \notin ToSet(results)
        /\ NoItem # job[w]
    BY <1>3, Facts DEF Typed
  <2>2. /\ \A k \in unsent' : k \notin ToSet(jobs') /\ k \notin ToSet(results')
        /\ \A k \in ToSet(jobs') : k \notin ToSet(results')
    BY <1>1, <1>6 DEF Apart
  <2>3. \A v \in Worker : /\ job'[v] \notin unsent' /\ job'[v] \notin ToSet(jobs')
                          /\ job'[v] \notin ToSet(results')
    BY <1>1, <1>3, <1>6, <2>1 DEF Apart
  <2>4. \A u, v \in Worker : u # v => job'[u] = NoItem \/ job'[u] # job'[v]
    BY <1>3, <2>1 DEF Apart
  <2> QED
    BY <1>1, <1>6, <2>2, <2>3, <2>4 DEF Apart
<1>8. NoneLost'
  BY <1>1, <1>2, <1>3, <1>6 DEF NoneLost, Somewhere
<1> QED
  BY <1>1, <1>3, <1>4, <1>6, <1>7, <1>8

LEMMA ExitSafe ==
  ASSUME VInv, NEW w \in Worker, Exit(w)
  PROVE  VInv'
<1> USE DEF VInv
<1>1. /\ UNCHANGED args
      /\ UNCHANGED <<pc, unsent, jobs, jobsClosed, results, resultsClosed, job, answer, panicked>>
      /\ worker[w] = "ready" /\ jobs = <<>> /\ jobsClosed /\ worker' = [worker EXCEPT ![w] = "done"]
  BY DEF Exit
<1>2. /\ items' = items /\ queryVec' = queryVec /\ topK' = topK
      /\ Items' = Items /\ WithVector' = WithVector /\ Comparable' = Comparable
      /\ Rank(Comparable)' = Rank(Comparable)
  BY <1>1, ArgsStay
<1>3. worker'[w] = "done" /\ \A v \in Worker : v # w => worker'[v] = worker[v]
  BY <1>1 DEF Typed
<1>4. Typed'
  <2>1. \A v \in Worker : worker'[v] = "busy" <=> job'[v] # NoItem
    BY <1>1, <1>3 DEF Typed
  <2> QED
    BY <1>1, <1>2, <2>1 DEF Typed
<1>5. Apart' /\ NoneLost'
  BY <1>1, <1>2 DEF Apart, NoneLost, Somewhere
<1>6. Stages'
  BY <1>1, <1>2, <1>3 DEF Stages
<1> QED
  BY <1>1, <1>2, <1>4, <1>5, <1>6

LEMMA VNext == VInv /\ [Next]_vars => VInv'
<1> SUFFICES ASSUME VInv, [Next]_vars PROVE VInv'
  OBVIOUS
<1>1. CASE CallerStep
  BY <1>1, StartSafe, SendSafe, CloseSafe, ReturnSafe DEF CallerStep
<1>2. ASSUME NEW w \in Worker, WorkerStep(w) PROVE VInv'
  BY <1>2, ReceiveSafe, SkipSafe, SendResultSafe, ExitSafe DEF WorkerStep
<1>3. CASE UNCHANGED vars
  <2>1. UNCHANGED args
    BY <1>3 DEF vars
  <2>2. /\ items' = items /\ queryVec' = queryVec /\ topK' = topK
        /\ Items' = Items /\ WithVector' = WithVector /\ Comparable' = Comparable
      /\ Rank(Comparable)' = Rank(Comparable)
    BY <2>1, ArgsStay
  <2>3. Typed' /\ Apart' /\ NoneLost' /\ Stages'
    BY <1>3, <2>2 DEF VInv, Typed, Apart, NoneLost, Somewhere, Stages, vars
  <2> QED
    BY <1>3, <2>2, <2>3 DEF VInv, vars
<1> QED
  BY <1>1, <1>2, <1>3 DEF Next

-----------------------------------------------------------------------------

\* The inductive invariant holds throughout.
THEOREM VectorInvariant == Spec => []VInv
  BY VInit, VNext, PTL DEF Spec

\* A dot product is an integer, and natural if a vector is multiplied by itself.
LEMMA DotProductType ==
  ASSUME NEW a \in Seq(Int), NEW b \in Seq(Int), Len(a) = Len(b)
  PROVE  DotProduct(a, b) \in Int /\ DotProduct(a, a) \in Nat
<1> DEFINE D == DOMAIN a
           ab == [i \in D |-> a[i] * b[i]]
           aa == [i \in D |-> a[i] * a[i]]
<1>1. D = 1..Len(a) /\ DOMAIN b = D /\ Len(a) \in Nat
  BY LenProperties
<1>2. IsFiniteSet(D)
  BY <1>1, FS_Interval
<1>3. \A i \in D : a[i] \in Int /\ b[i] \in Int
  BY <1>1, ElementOfSeq
<1>4. ab \in [D -> Int]
  BY <1>3
<1>5. aa \in [D -> Nat]
  <2>1. \A x \in Int : x * x \in Nat
    OBVIOUS
  <2> QED
    BY <1>3, <2>1
<1>6. DotProduct(a, b) = SumFunctionOnSet(ab, D) /\ DotProduct(a, a) = SumFunctionOnSet(aa, D)
  BY DEF DotProduct, SumFunction
<1> HIDE DEF D, ab, aa
<1>7. D \in SUBSET D
  OBVIOUS
<1>8. SumFunctionOnSet(ab, D) \in Int
  BY <1>2, <1>4, <1>7, SumFacts
<1>9. SumFunctionOnSet(aa, D) \in Nat
  BY <1>2, <1>5, <1>7, SumOfNaturals
<1> QED
  BY <1>6, <1>8, <1>9

\* Scores are fractions: a square that divides is not zero, and so positive.
LEMMA CosineType ==
  ASSUME NEW a \in Seq(Int), NEW b \in Seq(Int)
  PROVE  CosineSimilarity(a, b) \in Fraction
<1> DEFINE dot == DotProduct(a, b)
           square == DotProduct(a, a) * DotProduct(b, b)
<1>1. CASE Len(a) # Len(b) \/ a = <<>> \/ square = 0
  <2>1. CosineSimilarity(a, b) = <<0, 1>>
    BY <1>1 DEF CosineSimilarity
  <2> QED
    BY <2>1 DEF Fraction
<1>2. CASE Len(a) = Len(b) /\ a # <<>> /\ square # 0
  <2>1. dot \in Int /\ DotProduct(a, a) \in Nat /\ DotProduct(b, b) \in Nat
    BY <1>2, DotProductType
  <2>2. square \in Nat \ {0}
    BY <1>2, <2>1
  <2>3. CosineSimilarity(a, b) = <<IF dot < 0 THEN -(dot * dot) ELSE dot * dot, square>>
    BY <1>2 DEF CosineSimilarity
  <2> HIDE DEF dot, square
  <2>4. (IF dot < 0 THEN -(dot * dot) ELSE dot * dot) \in Int
    BY <2>1
  <2> QED
    BY <2>2, <2>3, <2>4 DEF Fraction
<1> QED
  BY <1>1, <1>2

\* What is ranked is a sequence of the keys there are to rank.
LEMMA RankType ==
  ASSUME Typed, NEW keys \in SUBSET Items
  PROVE  Rank(keys) \in Seq(keys)
<1> DEFINE score == [k \in keys |-> CosineSimilarity(items[k], queryVec)]
<1>1. DOMAIN score = keys /\ IsFiniteSet(keys) /\ keys \subseteq Int
  <2>1. keys \subseteq Key
    BY Facts
  <2>2. IsFiniteSet(keys)
    BY <2>1, KeyAssumption, FS_Subset
  <2>3. keys \subseteq Int
    BY <2>1, KeyAssumption
  <2>4. DOMAIN score = keys
    OBVIOUS
  <2> QED
    BY <2>2, <2>3, <2>4
<1>2. IsScore(score)
  BY <1>1, CosineType, Facts DEF IsScore, Score
<1>3. Rank(keys) = Truncate(Ranked(score), topK)
  BY DEF Rank
<1> HIDE DEF score
<1>4. /\ Cardinality(keys) \in Nat
      /\ Ranked(score) \in [1..Cardinality(keys) -> keys]
  BY <1>1, <1>2, RankedList
<1>5. topK \in Int
  BY Facts
<1> QED
  BY <1>3, <1>4, <1>5, CutList

\* A list that has no item twice is no longer than there are items.
LEMMA WithinCapacity ==
  ASSUME Typed, NEW list \in Seq(Items), IsInjective(list)
  PROVE  Len(list) <= Capacity
<1> DEFINE n == Len(list)
<1>1. n \in Nat /\ DOMAIN list = 1..n /\ list \in [1..n -> Items]
  OBVIOUS
<1>2. IsFiniteSet(Items)
  BY Facts, KeyAssumption, FS_Subset
<1>3. IsFiniteSet(1..n) /\ Cardinality(1..n) = n
  BY <1>1, FS_Interval
<1>4. list \in Injection(1..n, Items)
  BY <1>1 DEF Injection, IsInjective
<1> HIDE DEF n
<1>5. Cardinality(1..n) <= Cardinality(Items)
  BY <1>2, <1>4, FS_Injection DEF ExistsInjection
<1> QED
  BY <1>3, <1>5 DEF Capacity, n

\* Every variable has its type: only items with a vector are jobs, a worker has one
\* exactly when it is busy, neither channel is over its capacity, and the answer is
\* a list of items.
THEOREM VectorTyped == Spec => []TypeOK
<1>1. VInv => TypeOK
  <2> SUFFICES ASSUME VInv PROVE TypeOK
    OBVIOUS
  <2> USE DEF VInv
  <2>1. answer \in Seq(Items)
    <3>1. CASE pc = "Returned"
      <4>1. Comparable \in SUBSET Items
        BY Facts
      <4>2. answer \in Seq(Comparable)
        BY <3>1, <4>1, RankType
      <4> QED
        BY <4>1, <4>2
    <3>2. CASE pc # "Returned"
      BY <3>2, EmptySeq DEF Stages
    <3> QED
      BY <3>1, <3>2
  <2>2. results \in Seq(Items)
    BY Facts DEF Typed
  <2>3. jobs \in Seq({k \in Items : items[k] # <<>>})
    BY DEF Typed, WithVector
  <2>4. \A w \in Worker : job[w] \in IF worker[w] = "busy" THEN Items ELSE {NoItem}
    BY Facts DEF Typed
  <2>5. Len(jobs) <= Capacity
    <3>1. jobs \in Seq(Items)
      BY DEF Typed, WithVector
    <3> QED
      BY <3>1, WithinCapacity DEF Apart
  <2>6. Len(results) <= Capacity
    BY <2>2, WithinCapacity DEF Apart
  <2> QED
    BY <2>1, <2>2, <2>3, <2>4, <2>5, <2>6 DEF Typed, TypeOK
<1> QED
  BY <1>1, VectorInvariant, PTL

\* However many goroutines share the work, and however they overlap, the answer
\* ranks every comparable item once and no other, and nobody sends on the closed
\* channel.
THEOREM AnswerCorrect == Spec => []AnswerExact
<1>1. VInv => AnswerExact
  BY DEF VInv, AnswerExact, Apart, IsInjective, Distinct
<1> QED
  BY <1>1, VectorInvariant, PTL
=============================================================================
