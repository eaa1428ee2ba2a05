---------------------------- MODULE VectorSearch ----------------------------
(***************************************************************************)
(* One call of VectorSearch (vector.go): it hands the items of a snapshot  *)
(* to a pool of goroutines over one channel, has their scores back over    *)
(* another, and ranks what it got when all of them are done.               *)
(*                                                                         *)
(* A job and a result are their key: the item and the query are the same   *)
(* for the whole call, and so is the score. An item is its vector, <<>>    *)
(* for none, and vectors are sequences of integers, for which the cosine   *)
(* is exact.                                                               *)
(***************************************************************************)
EXTENDS Ranking

CONSTANTS
  Key, Vector,
  Worker,      \* the goroutines, GOMAXPROCS of them
  Query,       \* the vectors that are asked for
  TopK,        \* the numbers of results that are asked for
  NoItem       \* no item under a key

ASSUME KeyAssumption == IsFiniteSet(Key) /\ Key \subseteq Nat
ASSUME WorkerAssumption == IsFiniteSet(Worker) /\ Worker # {}
ASSUME VectorAssumption == Vector \subseteq Seq(Int) /\ Query \subseteq Seq(Int)
ASSUME TopKAssumption == TopK \subseteq Int
ASSUME NoItemAssumption == NoItem \notin Seq(Int) /\ NoItem \notin Key

VARIABLES
  items, queryVec, topK, \* the arguments
  pc,                    \* where the caller is
  unsent,                \* the keys that range has still to visit
  jobs, jobsClosed,      \* the channel of jobs
  results, resultsClosed,
  worker,                \* [Worker -> "unborn", "ready", "busy" or "done"]
  job,                   \* [Worker -> the job it has, if it is busy]
  answer,
  panicked               \* a send on a closed channel

args == <<items, queryVec, topK>>
vars == <<args, pc, unsent, jobs, jobsClosed, results, resultsClosed, worker, job, answer, panicked>>

Items == {k \in Key : items[k] # NoItem}

-----------------------------------------------------------------------------
(* Scores *)

DotProduct(a, b) == SumFunction([i \in DOMAIN a |-> a[i] * b[i]])

\* The square of the cosine with the sign of the cosine, which is in the same order.
CosineSimilarity(a, b) ==
  LET dot == DotProduct(a, b)
      square == DotProduct(a, a) * DotProduct(b, b)
  IN IF Len(a) # Len(b) \/ a = <<>> \/ square = 0 THEN <<0, 1>>
     ELSE <<IF dot < 0 THEN -(dot * dot) ELSE dot * dot, square>>

Rank(keys) == Truncate(Ranked([k \in keys |-> CosineSimilarity(items[k], queryVec)]), topK)

-----------------------------------------------------------------------------

Init ==
  /\ items \in [Key -> Vector \cup {NoItem}] /\ queryVec \in Query /\ topK \in TopK
  /\ pc = "Start" /\ unsent = {}
  /\ jobs = <<>> /\ jobsClosed = FALSE
  /\ results = <<>> /\ resultsClosed = FALSE
  /\ worker = [w \in Worker |-> "unborn"]
  /\ job = [w \in Worker |-> NoItem]
  /\ answer = <<>> /\ panicked = FALSE

\* Mutation: the channels have room for a job of every worker.
OnePerWorker == Cardinality(Worker)

\* Both channels have room for every item.
Capacity == Cardinality(Items)

\* Nothing to look for, or nothing to look at.
ReturnEmpty ==
  /\ pc = "Start"
  /\ Items = {} \/ queryVec = <<>>
  /\ pc' = "Returned"
  /\ UNCHANGED <<args, unsent, jobs, jobsClosed, results, resultsClosed, worker, job, answer, panicked>>

\* wg.Add(1) and go: the group counts the workers that are born and not done.
SpawnWorkers ==
  /\ pc = "Start"
  /\ Items # {} /\ queryVec # <<>>
  /\ pc' = "Send"
  /\ unsent' = Items
  /\ worker' = [w \in Worker |-> "ready"]
  /\ UNCHANGED <<args, jobs, jobsClosed, results, resultsClosed, job, answer, panicked>>

\* Mutation: items without a vector are sent too.
IsItem(k) == items[k] # NoItem
HasVector(k) == Len(items[k]) > 0

\* range visits the map in any order and sends the items that have a vector.
Send(k) ==
  /\ pc = "Send" /\ k \in unsent
  /\ unsent' = unsent \ {k}
  /\ IF HasVector(k) THEN Len(jobs) < Capacity /\ jobs' = Append(jobs, k)
                     ELSE jobs' = jobs
  /\ UNCHANGED <<args, pc, jobsClosed, results, resultsClosed, worker, job, answer, panicked>>

CloseJobs ==
  /\ pc = "Send" /\ unsent = {}
  /\ pc' = "Wait"
  /\ jobsClosed' = TRUE
  /\ UNCHANGED <<args, unsent, jobs, results, resultsClosed, worker, job, answer, panicked>>

\* wg.Wait and close(results).
\* Mutation: it waits until the jobs are taken, not until they are done.
JobsTaken == jobs = <<>>
AllDone == \A w \in Worker : worker[w] = "done"

CloseResults ==
  /\ pc = "Wait" /\ AllDone
  /\ pc' = "Collect"
  /\ resultsClosed' = TRUE
  /\ UNCHANGED <<args, unsent, jobs, jobsClosed, results, worker, job, answer, panicked>>

\* The rest is the caller's own: drain the channel, sort and cut.
Return ==
  /\ pc = "Collect"
  /\ pc' = "Returned"
  /\ answer' = Rank(KeysOf(results))
  /\ UNCHANGED <<args, unsent, jobs, jobsClosed, results, resultsClosed, worker, job, panicked>>

-----------------------------------------------------------------------------
(* A worker *)

Receive(w) ==
  /\ worker[w] = "ready" /\ jobs # <<>>
  /\ jobs' = Tail(jobs)
  /\ worker' = [worker EXCEPT ![w] = "busy"]
  /\ job' = [job EXCEPT ![w] = Head(jobs)]
  /\ UNCHANGED <<args, pc, unsent, jobsClosed, results, resultsClosed, answer, panicked>>

\* A vector of another length has no score.
Skip(w) ==
  /\ worker[w] = "busy"
  /\ Len(items[job[w]]) # Len(queryVec)
  /\ worker' = [worker EXCEPT ![w] = "ready"]
  /\ job' = [job EXCEPT ![w] = NoItem]
  /\ UNCHANGED <<args, pc, unsent, jobs, jobsClosed, results, resultsClosed, answer, panicked>>

SendResult(w) ==
  /\ worker[w] = "busy"
  /\ Len(items[job[w]]) = Len(queryVec)
  /\ resultsClosed \/ Len(results) < Capacity
  /\ panicked' = (panicked \/ resultsClosed)
  /\ results' = IF resultsClosed THEN results ELSE Append(results, job[w])
  /\ worker' = [worker EXCEPT ![w] = "ready"]
  /\ job' = [job EXCEPT ![w] = NoItem]
  /\ UNCHANGED <<args, pc, unsent, jobs, jobsClosed, resultsClosed, answer>>

\* The loop ends when the channel is closed and empty.
Exit(w) ==
  /\ worker[w] = "ready" /\ jobs = <<>> /\ jobsClosed
  /\ worker' = [worker EXCEPT ![w] = "done"]
  /\ UNCHANGED <<args, pc, unsent, jobs, jobsClosed, results, resultsClosed, job, answer, panicked>>

WorkerStep(w) == Receive(w) \/ Skip(w) \/ SendResult(w) \/ Exit(w)

-----------------------------------------------------------------------------

CallerStep ==
  ReturnEmpty \/ SpawnWorkers \/ (\E k \in Key : Send(k)) \/ CloseJobs \/ CloseResults \/ Return

Next == CallerStep \/ \E w \in Worker : WorkerStep(w)

\* The Go scheduler runs every goroutine that can go on.
Spec == Init /\ [][Next]_vars /\ WF_vars(CallerStep) /\ \A w \in Worker : WF_vars(WorkerStep(w))

-----------------------------------------------------------------------------
(* Correctness *)

\* Every variable has its type: only items with a vector are jobs, a worker has one
\* exactly when it is busy, and neither channel is over its capacity.
TypeOK ==
  /\ items \in [Key -> Vector \cup {NoItem}] /\ queryVec \in Query /\ topK \in TopK
  /\ pc \in {"Start", "Send", "Wait", "Collect", "Returned"}
  /\ unsent \subseteq Items
  /\ jobs \in Seq({k \in Items : items[k] # <<>>}) /\ jobsClosed \in BOOLEAN
  /\ results \in Seq(Items) /\ resultsClosed \in BOOLEAN
  /\ Len(jobs) <= Capacity /\ Len(results) <= Capacity
  /\ worker \in [Worker -> {"unborn", "ready", "busy", "done"}]
  /\ \A w \in Worker : job[w] \in IF worker[w] = "busy" THEN Items ELSE {NoItem}
  /\ answer \in Seq(Items) /\ panicked \in BOOLEAN

\* The items a search is about: those with a vector of the query's length.
Comparable == {k \in Items : queryVec # <<>> /\ Len(items[k]) = Len(queryVec)}

Distinct(list) == \A i, j \in DOMAIN list : list[i] = list[j] => i = j

\* However the goroutines overlap, the answer ranks every comparable item once
\* and no other, and no goroutine sends on the channel when it is closed
\* (vector.go:61-88).
AnswerExact ==
  /\ ~panicked
  /\ Distinct(results)
  /\ pc = "Returned" => answer = Rank(Comparable)

\* The call returns, and no goroutine of its pool stays behind: the results all
\* fit into the channel that nobody reads before the pool is done (vector.go:50,
\* 74-75).
SearchReturns ==
  <>[](pc = "Returned" /\ \A w \in Worker : worker[w] \in {"unborn", "done"})
=============================================================================
