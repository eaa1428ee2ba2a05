--------------------------- MODULE EmbedderProofs ---------------------------
(***************************************************************************)
(* Proofs about Embedder, for any number of handlers, workers and jobs and *)
(* a buffer of any size.                                                   *)
(***************************************************************************)
EXTENDS Embedder, DataLemmas

\* A handler in Enqueue has a job of its own, which is offered, and no other has.
HandlersHold ==
  /\ \A h \in Handler : hjob[h] # NoJob => hpc[h] = "enqueue"
  /\ \A h \in Handler : hpc[h] = "enqueue" => hjob[h] \in Job /\ fate[hjob[h]] = "offered"
  /\ \A g, h \in Handler : g # h => hjob[g] = NoJob \/ hjob[g] # hjob[h]
  /\ \A j \in Job : fate[j] = "offered" => \E h \in Handler : hjob[h] = j

\* A worker has a job exactly from Receive to the end of its callback, it is being
\* worked on, and no other worker has it.
WorkersHold ==
  /\ \A w \in Worker : wpc[w] \in {"embed", "callback"} <=> wjob[w] # NoJob
  /\ \A w \in Worker : wjob[w] # NoJob => fate[wjob[w]] = "working"
  /\ \A j \in Job : fate[j] = "working" => \E w \in Worker : wjob[w] = j
  /\ \A v, w \in Worker : v # w => wjob[v] = NoJob \/ wjob[v] # wjob[w]

\* The buffer has the jobs that are queued, each once.
QueueHolds ==
  /\ IsInjective(jobCh) /\ ToSet(jobCh) \subseteq Job
  /\ \A j \in Job : j \in ToSet(jobCh) <=> fate[j] = "queued"

\* What the shutdown has seen to when main is where it is.
Phases ==
  /\ closed <=> main \in {"wait", "complete"}
  /\ main \in {"stop embedder", "wait", "complete"} => HandlersDone
  /\ \A w \in Worker : wpc[w] = "exited" => closed /\ jobCh = <<>>
  /\ main = "complete" => WorkersDone

\* The inductive invariant.
EInv == TypeOK /\ HandlersHold /\ WorkersHold /\ QueueHolds /\ Phases /\ NoPanic

-----------------------------------------------------------------------------

LEMMA JobFacts == Job \subseteq Nat /\ NoJob \notin Job
  BY MaxJobsAssumption DEF Job, NoJob

LEMMA WorkersJob ==
  ASSUME TypeOK, WorkersHold, NEW w \in Worker, wjob[w] # NoJob
  PROVE  wjob[w] \in Job /\ fate[wjob[w]] = "working"
<1>1. wjob[w] \in Job \cup {NoJob}
  BY DEF TypeOK
<1> QED
  BY <1>1 DEF WorkersHold

LEMMA EInit == Init => EInv
<1> SUFFICES ASSUME Init PROVE EInv
  OBVIOUS
<1> USE DEF Init
<1>1. TypeOK
  <2>1. <<>> \in Seq(Job) /\ Len(<<>>) = 0
    BY EmptySeq
  <2>2. jobCh \in Seq(Job) /\ Len(jobCh) <= BufferSize
    BY <2>1, BufferAssumption
  <2>3. fate \in [Job -> Fates]
    BY DEF Fates, Running
  <2> QED
    BY <2>2, <2>3 DEF TypeOK
<1>2. HandlersHold /\ WorkersHold /\ Phases /\ NoPanic
  BY DEF HandlersHold, WorkersHold, Phases, NoPanic, HandlersDone
<1>3. QueueHolds
  BY EmptyQueue DEF QueueHolds
<1> QED
  BY <1>1, <1>2, <1>3 DEF EInv

LEMMA RequestSafe ==
  ASSUME EInv, NEW h \in Handler, NEW j \in Job, Request(h, j)
  PROVE  EInv'
<1> USE DEF EInv, Request, handlerVars, workerVars
<1>1. TypeOK'
  BY DEF TypeOK, Fates, Running
<1>2. HandlersHold'
  BY JobFacts DEF HandlersHold, TypeOK
<1>3. WorkersHold'
  BY JobFacts DEF WorkersHold, TypeOK
<1>4. QueueHolds'
  BY DEF QueueHolds, TypeOK
<1>5. Phases' /\ NoPanic'
  BY DEF Phases, HandlersDone, WorkersDone, NoPanic, TypeOK
<1> QED
  BY <1>1, <1>2, <1>3, <1>4, <1>5

\* What Enqueue leaves behind, whether it sends the job or drops it.
Answered(h) ==
  /\ \A g \in Handler : g # h => hjob'[g] = hjob[g] /\ hjob[g] # hjob[h] /\ hpc'[g] = hpc[g]
  /\ hjob'[h] = NoJob /\ hpc'[h] = "idle"
  /\ fate'[hjob[h]] # "offered"
  /\ \A j \in Job : j # hjob[h] => fate'[j] = fate[j]

LEMMA OfferTaken ==
  ASSUME HandlersHold, NEW h \in Handler, hjob[h] \in Job, Answered(h)
  PROVE  HandlersHold'
<1> USE DEF Answered
<1>1. \A g \in Handler : hjob'[g] # NoJob => hpc'[g] = "enqueue"
  BY DEF HandlersHold
<1>2. \A g \in Handler : hpc'[g] = "enqueue" => hjob'[g] \in Job /\ fate'[hjob'[g]] = "offered"
  BY DEF HandlersHold
<1>3. \A f, g \in Handler : f # g => hjob'[f] = NoJob \/ hjob'[f] # hjob'[g]
  BY JobFacts DEF HandlersHold
<1>4. ASSUME NEW j \in Job, fate'[j] = "offered" PROVE \E g \in Handler : hjob'[g] = j
  <2>1. j # hjob[h] /\ fate[j] = "offered"
    BY <1>4
  <2>2. PICK g \in Handler : hjob[g] = j
    BY <2>1 DEF HandlersHold
  <2> QED
    BY <2>1, <2>2
<1> QED
  BY <1>1, <1>2, <1>3, <1>4 DEF HandlersHold

LEMMA EnqueueSafe ==
  ASSUME EInv, NEW h \in Handler, Enqueue(h)
  PROVE  EInv'
<1> USE DEF EInv, handlerVars, workerVars
<1>1. ~closed /\ hpc[h] = "enqueue" /\ hjob[h] \in Job /\ fate[hjob[h]] = "offered"
  BY DEF Enqueue, Phases, HandlersDone, HandlersHold, TypeOK
<1>2. /\ hpc' = [hpc EXCEPT ![h] = "idle"] /\ hjob' = [hjob EXCEPT ![h] = NoJob]
      /\ UNCHANGED <<closed, wpc, wjob, main>>
  BY <1>1 DEF Enqueue
<1>3. /\ \A g \in Handler : g # h => hjob'[g] = hjob[g] /\ hjob[g] # hjob[h] /\ hpc'[g] = hpc[g]
      /\ hjob'[h] = NoJob /\ hpc'[h] = "idle"
  BY <1>1, <1>2, JobFacts DEF HandlersHold, TypeOK
<1>4. NoPanic'
  BY <1>2 DEF NoPanic, TypeOK
<1>5. CASE BufferFull
  <2>1. fate' = [fate EXCEPT ![hjob[h]] = "dropped"] /\ jobCh' = jobCh
    BY <1>1, <1>5 DEF Enqueue
  <2>2. TypeOK'
    BY <1>1, <1>2, <2>1 DEF TypeOK, Fates, Running
  <2>3. HandlersHold'
    <3>1. Answered(h)
      BY <1>1, <1>3, <2>1 DEF Answered, TypeOK
    <3> QED
      BY <1>1, <3>1, OfferTaken
  <2>4. WorkersHold'
    <3>1. \A j \in Job : fate'[j] = "working" <=> fate[j] = "working"
      BY <1>1, <2>1 DEF TypeOK
    <3>2. \A w \in Worker : wjob[w] # NoJob => wjob[w] \in Job
      BY WorkersJob
    <3> QED
      BY <1>2, <3>1, <3>2 DEF WorkersHold
  <2>6. QueueHolds'
    BY <1>1, <1>2, <2>1 DEF QueueHolds, TypeOK
  <2>5. Phases'
    BY <1>1, <1>2, <2>1 DEF Phases, HandlersDone, WorkersDone, TypeOK
  <2> QED
    BY <1>4, <2>2, <2>3, <2>4, <2>5, <2>6
<1>6. CASE ~BufferFull
  <2>1. fate' = [fate EXCEPT ![hjob[h]] = "queued"] /\ jobCh' = Append(jobCh, hjob[h])
    BY <1>1, <1>6 DEF Enqueue
  <2>2. jobCh \in Seq(Job) /\ hjob[h] \notin ToSet(jobCh)
    BY <1>1 DEF TypeOK, QueueHolds
  <2>3. /\ jobCh' \in Seq(Job) /\ Len(jobCh') = Len(jobCh) + 1
        /\ ToSet(jobCh') = ToSet(jobCh) \cup {hjob[h]} /\ IsInjective(jobCh')
    BY <1>1, <2>1, <2>2, SendQueue DEF QueueHolds
  <2>4. TypeOK'
    <3>1. Len(jobCh) \in Nat /\ Len(jobCh) < BufferSize
      BY <1>6, <2>2, BufferAssumption, LenProperties DEF BufferFull
    <3>2. Len(jobCh') <= BufferSize
      BY <2>3, <3>1, BufferAssumption
    <3> QED
      BY <1>1, <1>2, <2>1, <2>3, <3>2 DEF TypeOK, Fates, Running
  <2>5. HandlersHold'
    <3>1. Answered(h)
      BY <1>1, <1>3, <2>1 DEF Answered, TypeOK
    <3> QED
      BY <1>1, <3>1, OfferTaken
  <2>6. WorkersHold'
    <3>1. \A j \in Job : fate'[j] = "working" <=> fate[j] = "working"
      BY <1>1, <2>1 DEF TypeOK
    <3>2. \A w \in Worker : wjob[w] # NoJob => wjob[w] \in Job
      BY WorkersJob
    <3> QED
      BY <1>2, <3>1, <3>2 DEF WorkersHold
  <2>8. QueueHolds'
    BY <1>1, <1>2, <2>1, <2>3 DEF QueueHolds, TypeOK
  <2>7. Phases'
    BY <1>1, <1>2, <2>1 DEF Phases, HandlersDone, WorkersDone, TypeOK
  <2> QED
    BY <1>4, <2>4, <2>5, <2>6, <2>7, <2>8
<1> QED
  BY <1>5, <1>6

LEMMA ReceiveSafe ==
  ASSUME EInv, NEW w \in Worker, Receive(w)
  PROVE  EInv'
<1> USE DEF EInv, Receive, handlerVars
<1>1. jobCh \in Seq(Job) /\ jobCh # <<>> /\ IsInjective(jobCh) /\ jobCh' = Tail(jobCh)
  BY DEF TypeOK, QueueHolds
<1>2. /\ Head(jobCh) \in Job /\ Head(jobCh) \in ToSet(jobCh)
      /\ jobCh' \in Seq(Job) /\ Len(jobCh') = Len(jobCh) - 1
      /\ ToSet(jobCh') = ToSet(jobCh) \ {Head(jobCh)} /\ IsInjective(jobCh')
  BY <1>1, ReceiveQueue
<1>3. fate[Head(jobCh)] = "queued" /\ wjob[w] = NoJob
  BY <1>2 DEF QueueHolds, WorkersHold, TypeOK
<1>4. TypeOK'
  <2>1. Len(jobCh') <= BufferSize
    <3>1. Len(jobCh) \in Nat /\ Len(jobCh) <= BufferSize
      BY <1>1, LenProperties DEF TypeOK
    <3> QED
      BY <1>2, <3>1, BufferAssumption
  <2> QED
    BY <1>2, <2>1 DEF TypeOK, Fates, Running
<1>5. HandlersHold'
  BY <1>2, <1>3 DEF HandlersHold, TypeOK
<1>6. WorkersHold'
  <2>1. \A v \in Worker : wjob[v] # Head(jobCh)
    BY <1>2, <1>3, JobFacts DEF WorkersHold
  <2>2. \A v \in Worker : v # w => wjob'[v] = wjob[v] /\ wpc'[v] = wpc[v]
    BY DEF TypeOK
  <2>3. /\ wjob'[w] = Head(jobCh) /\ wpc'[w] = "embed" /\ fate'[Head(jobCh)] = "working"
        /\ \A j \in Job : j # Head(jobCh) => fate'[j] = fate[j]
    BY <1>2 DEF TypeOK
  <2>4. \A v \in Worker : wpc'[v] \in {"embed", "callback"} <=> wjob'[v] # NoJob
    BY <1>2, <2>2, <2>3, JobFacts DEF WorkersHold
  <2>5. \A v \in Worker : wjob'[v] # NoJob => fate'[wjob'[v]] = "working"
    <3> SUFFICES ASSUME NEW v \in Worker, v # w, wjob[v] # NoJob PROVE fate'[wjob[v]] = "working"
      BY <2>2, <2>3
    <3>1. wjob[v] \in Job /\ wjob[v] # Head(jobCh) /\ fate[wjob[v]] = "working"
      BY <2>1, WorkersJob
    <3> QED
      BY <2>3, <3>1
  <2>6. ASSUME NEW j \in Job, fate'[j] = "working" PROVE \E v \in Worker : wjob'[v] = j
    <3>1. CASE j = Head(jobCh)
      BY <2>3, <3>1
    <3>2. CASE j # Head(jobCh)
      <4>1. PICK v \in Worker : wjob[v] = j
        BY <2>3, <2>6, <3>2 DEF WorkersHold
      <4> QED
        BY <1>3, <2>2, <4>1, JobFacts
    <3> QED
      BY <3>1, <3>2
  <2>7. \A u, v \in Worker : u # v => wjob'[u] = NoJob \/ wjob'[u] # wjob'[v]
    BY <2>1, <2>2, <2>3 DEF WorkersHold
  <2> QED
    BY <2>4, <2>5, <2>6, <2>7 DEF WorkersHold
<1>7. QueueHolds'
  BY <1>2 DEF QueueHolds, TypeOK
<1>8. Phases' /\ NoPanic'
  BY DEF Phases, HandlersDone, WorkersDone, NoPanic, TypeOK
<1> QED
  BY <1>4, <1>5, <1>6, <1>7, <1>8

LEMMA EmbeddedSafe ==
  ASSUME EInv, NEW w \in Worker, Embedded(w)
  PROVE  EInv'
<1> USE DEF EInv, Embedded, handlerVars
<1>1. TypeOK'
  BY DEF TypeOK
<1>2. HandlersHold' /\ NoPanic'
  BY DEF HandlersHold, NoPanic
<1>3. WorkersHold'
  <2>1. \A v \in Worker : wpc'[v] \in {"embed", "callback"} <=> wpc[v] \in {"embed", "callback"}
    BY DEF TypeOK
  <2> QED
    BY <2>1 DEF WorkersHold
<1>4. QueueHolds'
  BY DEF QueueHolds
<1>5. Phases'
  BY DEF Phases, HandlersDone, WorkersDone, TypeOK
<1> QED
  BY <1>1, <1>2, <1>3, <1>4, <1>5

LEMMA FinishSafe ==
  ASSUME EInv, NEW w \in Worker, NEW outcome \in {"failed", "done"},
         wpc[w] \in {"embed", "callback"}, Finish(w, outcome)
  PROVE  EInv'
<1> USE DEF EInv, Finish, handlerVars
<1>1. wjob[w] \in Job /\ fate[wjob[w]] = "working"
  <2>1. wjob[w] # NoJob
    BY DEF WorkersHold
  <2> QED
    BY <2>1, WorkersJob
<1>2. TypeOK'
  BY <1>1 DEF TypeOK, Fates, Running
<1>3. HandlersHold' /\ NoPanic'
  BY <1>1 DEF HandlersHold, NoPanic, TypeOK
<1>4. WorkersHold'
  <2>1. \A v \in Worker : v # w => wjob'[v] = wjob[v] /\ wpc'[v] = wpc[v] /\ wjob[v] # wjob[w]
    BY <1>1, JobFacts DEF WorkersHold, TypeOK
  <2>2. /\ wjob'[w] = NoJob /\ wpc'[w] = "receive" /\ fate'[wjob[w]] # "working"
        /\ \A j \in Job : j # wjob[w] => fate'[j] = fate[j]
    BY <1>1 DEF TypeOK
  <2>3. \A v \in Worker : wpc'[v] \in {"embed", "callback"} <=> wjob'[v] # NoJob
    BY <2>1, <2>2 DEF WorkersHold
  <2>4. \A v \in Worker : wjob'[v] # NoJob => fate'[wjob'[v]] = "working"
    <3> SUFFICES ASSUME NEW v \in Worker, v # w, wjob[v] # NoJob PROVE fate'[wjob[v]] = "working"
      BY <2>1, <2>2
    <3>1. wjob[v] \in Job /\ wjob[v] # wjob[w] /\ fate[wjob[v]] = "working"
      BY <2>1, WorkersJob
    <3> QED
      BY <2>2, <3>1
  <2>5. ASSUME NEW j \in Job, fate'[j] = "working" PROVE \E v \in Worker : wjob'[v] = j
    <3>1. j # wjob[w] /\ fate[j] = "working"
      BY <1>1, <2>2, <2>5
    <3>2. PICK v \in Worker : wjob[v] = j
      BY <3>1 DEF WorkersHold
    <3> QED
      BY <2>1, <3>1, <3>2
  <2>6. \A u, v \in Worker : u # v => wjob'[u] = NoJob \/ wjob'[u] # wjob'[v]
    BY <2>1, <2>2 DEF WorkersHold
  <2> QED
    BY <2>3, <2>4, <2>5, <2>6 DEF WorkersHold
<1>5. QueueHolds'
  BY <1>1 DEF QueueHolds, TypeOK
<1>6. Phases'
  BY DEF Phases, HandlersDone, WorkersDone, TypeOK
<1> QED
  BY <1>2, <1>3, <1>4, <1>5, <1>6

LEMMA ExitSafe ==
  ASSUME EInv, NEW w \in Worker, Exit(w)
  PROVE  EInv'
<1> USE DEF EInv, Exit, LoopEnds, handlerVars
<1>1. TypeOK'
  BY DEF TypeOK
<1>2. HandlersHold' /\ NoPanic'
  BY DEF HandlersHold, NoPanic
<1>3. WorkersHold'
  <2>1. \A v \in Worker : wpc'[v] \in {"embed", "callback"} <=> wpc[v] \in {"embed", "callback"}
    BY DEF TypeOK
  <2> QED
    BY <2>1 DEF WorkersHold
<1>4. QueueHolds'
  BY DEF QueueHolds
<1>5. Phases'
  BY DEF Phases, HandlersDone, WorkersDone, TypeOK
<1> QED
  BY <1>1, <1>2, <1>3, <1>4, <1>5

LEMMA MainSafe ==
  ASSUME EInv, Signal \/ MainStep
  PROVE  EInv'
<1> USE DEF EInv, MainGoes, handlerVars, workerVars
<1>1. UNCHANGED <<jobCh, fate, hpc, hjob, wpc, wjob>>
  BY DEF Signal, MainStep, GracefulStopReturns, CloseChannel, StopReturns
<1>2. TypeOK'
  BY <1>1 DEF TypeOK, Signal, MainStep, GracefulStopReturns, CloseChannel, StopReturns
<1>3. HandlersHold' /\ WorkersHold' /\ QueueHolds' /\ NoPanic'
  BY <1>1 DEF HandlersHold, WorkersHold, QueueHolds, NoPanic
<1>4. Phases'
  <2>1. CASE Signal
    BY <1>1, <2>1 DEF Phases, HandlersDone, WorkersDone, TypeOK, Signal
  <2>2. CASE GracefulStopReturns
    BY <1>1, <2>2 DEF Phases, HandlersDone, WorkersDone, TypeOK, GracefulStopReturns
  <2>3. CASE CloseChannel
    BY <1>1, <2>3 DEF Phases, HandlersDone, WorkersDone, TypeOK, CloseChannel
  <2>4. CASE StopReturns
    BY <1>1, <2>4 DEF Phases, HandlersDone, WorkersDone, TypeOK, StopReturns
  <2> QED
    BY <2>1, <2>2, <2>3, <2>4 DEF MainStep
<1> QED
  BY <1>2, <1>3, <1>4

LEMMA ENext == EInv /\ [Next]_vars => EInv'
<1> SUFFICES ASSUME EInv, [Next]_vars PROVE EInv'
  OBVIOUS
<1>1. ASSUME NEW h \in Handler, Enqueue(h) PROVE EInv'
  BY <1>1, EnqueueSafe
<1>2. ASSUME NEW h \in Handler, NEW j \in Job, Request(h, j) PROVE EInv'
  BY <1>2, RequestSafe
<1>3. ASSUME NEW w \in Worker, WorkerStep(w) PROVE EInv'
  <2>1. CASE EmbedFails(w)
    BY <2>1, FinishSafe DEF EmbedFails
  <2>2. CASE CallbackReturns(w)
    BY <2>2, FinishSafe DEF CallbackReturns
  <2> QED
    BY <1>3, <2>1, <2>2, ReceiveSafe, EmbeddedSafe, ExitSafe DEF WorkerStep
<1>4. CASE Signal \/ MainStep
  BY <1>4, MainSafe
<1>5. CASE UNCHANGED vars
  <2>1. TypeOK' /\ Phases' /\ NoPanic'
    BY <1>5 DEF EInv, TypeOK, Phases, NoPanic, HandlersDone, WorkersDone, vars, handlerVars, workerVars
  <2>2. HandlersHold' /\ WorkersHold' /\ QueueHolds'
    BY <1>5 DEF EInv, HandlersHold, WorkersHold, QueueHolds, vars, handlerVars, workerVars
  <2> QED
    BY <2>1, <2>2 DEF EInv
<1> QED
  BY <1>1, <1>2, <1>3, <1>4, <1>5 DEF Next

-----------------------------------------------------------------------------

\* The inductive invariant holds throughout.
THEOREM EmbedderInvariant == Spec => []EInv
  BY EInit, ENext, PTL DEF Spec

\* Every reachable state has its type.
THEOREM EmbedderTyped == Spec => []TypeOK
<1>1. EInv => TypeOK
  BY DEF EInv
<1> QED
  BY <1>1, EmbedderInvariant, PTL

\* No handler sends on the closed channel, however requests, workers and the
\* shutdown of main overlap.
THEOREM SendNeverPanics == Spec => []NoPanic
<1>1. EInv => NoPanic
  BY DEF EInv
<1> QED
  BY <1>1, EmbedderInvariant, PTL

\* Every job is in one place, with whoever its fate says, and there only once.
THEOREM NoJobLost == Spec => []JobsConserved
<1>1. EInv => JobsConserved
  <2> SUFFICES ASSUME EInv PROVE JobsConserved
    OBVIOUS
  <2>1. IsInjective(jobCh) /\ ToSet(jobCh) = {j \in Job : fate[j] = "queued"}
    BY DEF EInv, QueueHolds
  <2>2. \A j \in Job : fate[j] = "working" <=>
          \E w \in Worker : wpc[w] \in {"embed", "callback"} /\ wjob[w] = j
    BY JobFacts DEF EInv, WorkersHold
  <2>3. \A v, w \in Worker : v # w => wjob[v] = NoJob \/ wjob[v] # wjob[w]
    BY DEF EInv, WorkersHold
  <2> QED
    BY <2>1, <2>2, <2>3 DEF JobsConserved
<1> QED
  BY <1>1, EmbedderInvariant, PTL

\* When the shutdown is complete no accepted job is left behind.
THEOREM ShutdownDrains == Spec => []CompleteMeansDrained
<1>1. EInv => CompleteMeansDrained
  <2> SUFFICES ASSUME EInv, main = "complete", NEW j \in Job
               PROVE  fate[j] \notin {"offered", "queued", "working"}
    BY DEF CompleteMeansDrained
  <2>1. /\ \A w \in Worker : wpc[w] = "exited"
        /\ \A h \in Handler : hpc[h] = "idle"
    BY DEF EInv, Phases, WorkersDone, HandlersDone
  <2>2. jobCh = <<>>
    BY <2>1, WorkerAssumption DEF EInv, Phases
  <2>3. fate[j] # "queued"
    BY <2>2, EmptyQueue DEF EInv, QueueHolds
  <2>4. fate[j] # "working"
    BY <2>1, JobFacts DEF EInv, WorkersHold
  <2>5. fate[j] # "offered"
    BY <2>1, JobFacts DEF EInv, HandlersHold
  <2> QED
    BY <2>3, <2>4, <2>5
<1> QED
  BY <1>1, EmbedderInvariant, PTL
=============================================================================
