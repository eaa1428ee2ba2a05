------------------------------ MODULE Embedder ------------------------------
(***************************************************************************)
(* The life of the embedding client: internal/embedder/client.go (Enqueue, *)
(* the workers on the buffered channel, Stop) driven by gRPC handlers that *)
(* enqueue and by the shutdown sequence of cmd/gogaghe-server/main.go.     *)
(* What a job carries and what the callback does with the vector is in     *)
(* VectorPipeline; here a job is a number, so that each can be followed.   *)
(***************************************************************************)
EXTENDS Naturals, Sequences, SequencesExt

CONSTANTS
  Handler,     \* goroutines of gRPC requests that auto-embed
  Worker,      \* the goroutines of the worker pool
  BufferSize,  \* capacity of jobCh
  MaxJobs      \* bound: Enqueue calls in a behaviour

ASSUME BufferAssumption == BufferSize \in Nat \ {0}
ASSUME MaxJobsAssumption == MaxJobs \in Nat
ASSUME WorkerAssumption == Worker # {}  \* Load sees to it (config.go:191)

Job == 1 .. MaxJobs
NoJob == 0

VARIABLES
  jobCh,     \* the buffered channel
  closed,    \* Stop has closed it
  fate,      \* [Job -> what became of each job]
  hpc, hjob, \* handlers: where they are, and the job they submit
  wpc, wjob, \* workers: where they are, and the job they have
  main       \* where the shutdown sequence is

handlerVars == <<hpc, hjob>>
workerVars == <<wpc, wjob>>
vars == <<jobCh, closed, fate, handlerVars, workerVars, main>>

Init ==
  /\ jobCh = <<>>
  /\ closed = FALSE
  /\ fate = [j \in Job |-> "unused"]
  /\ hpc = [h \in Handler |-> "idle"]
  /\ hjob = [h \in Handler |-> NoJob]
  /\ wpc = [w \in Worker |-> "receive"]
  /\ wjob = [w \in Worker |-> NoJob]
  /\ main = "serving"

-----------------------------------------------------------------------------
(* Handlers *)

\* A Set with auto_embed arrives and reaches its call of Enqueue. The server
\* accepts no request once GracefulStop has begun.
Request(h, j) ==
  /\ main = "serving"
  /\ hpc[h] = "idle"
  /\ fate[j] = "unused" /\ \A i \in Job : fate[i] = "unused" => j <= i
  /\ fate' = [fate EXCEPT ![j] = "offered"]
  /\ hpc' = [hpc EXCEPT ![h] = "enqueue"]
  /\ hjob' = [hjob EXCEPT ![h] = j]
  /\ UNCHANGED <<jobCh, closed, workerVars, main>>

\* Mutation: the buffer takes one more.
BufferOverfull == Len(jobCh) > BufferSize

BufferFull == Len(jobCh) >= BufferSize

\* Mutation: Enqueue waits for room in the buffer.
EnqueueWaits(h) ==
  /\ hpc[h] = "enqueue"
  /\ ~BufferFull
  /\ fate' = [fate EXCEPT ![hjob[h]] = "queued"]
  /\ jobCh' = Append(jobCh, hjob[h])
  /\ hpc' = [hpc EXCEPT ![h] = "idle"]
  /\ hjob' = [hjob EXCEPT ![h] = NoJob]
  /\ UNCHANGED <<closed, workerVars, main>>

\* select { case c.jobCh <- req: default: drop }. A send on the closed channel
\* panics even though the select has a default.
Enqueue(h) ==
  /\ hpc[h] = "enqueue"
  /\ IF closed
     THEN /\ hpc' = [hpc EXCEPT ![h] = "panic"]
          /\ UNCHANGED <<jobCh, fate>>
     ELSE /\ hpc' = [hpc EXCEPT ![h] = "idle"]
          /\ IF BufferFull
             THEN /\ fate' = [fate EXCEPT ![hjob[h]] = "dropped"]
                  /\ UNCHANGED jobCh
             ELSE /\ fate' = [fate EXCEPT ![hjob[h]] = "queued"]
                  /\ jobCh' = Append(jobCh, hjob[h])
  /\ hjob' = [hjob EXCEPT ![h] = NoJob]
  /\ UNCHANGED <<closed, workerVars, main>>

-----------------------------------------------------------------------------
(* Workers: for req := range c.jobCh *)

\* Mutation: two workers may receive the same job.
Peek(w) ==
  /\ wpc[w] = "receive"
  /\ jobCh # <<>>
  /\ wjob' = [wjob EXCEPT ![w] = Head(jobCh)]
  /\ fate' = [fate EXCEPT ![Head(jobCh)] = "working"]
  /\ wpc' = [wpc EXCEPT ![w] = "embed"]
  /\ UNCHANGED <<jobCh, closed, handlerVars, main>>

Receive(w) ==
  /\ wpc[w] = "receive"
  /\ jobCh # <<>>
  /\ wjob' = [wjob EXCEPT ![w] = Head(jobCh)]
  /\ jobCh' = Tail(jobCh)
  /\ fate' = [fate EXCEPT ![Head(jobCh)] = "working"]
  /\ wpc' = [wpc EXCEPT ![w] = "embed"]
  /\ UNCHANGED <<closed, handlerVars, main>>

\* The sidecar answers within the HTTP timeout.
Embedded(w) ==
  /\ wpc[w] = "embed"
  /\ wpc' = [wpc EXCEPT ![w] = "callback"]
  /\ UNCHANGED <<jobCh, closed, fate, handlerVars, wjob, main>>

Finish(w, outcome) ==
  /\ fate' = [fate EXCEPT ![wjob[w]] = outcome]
  /\ wjob' = [wjob EXCEPT ![w] = NoJob]
  /\ wpc' = [wpc EXCEPT ![w] = "receive"]
  /\ UNCHANGED <<jobCh, closed, handlerVars, main>>

\* It fails, answers nonsense or times out: the job is logged and forgotten.
EmbedFails(w) == wpc[w] = "embed" /\ Finish(w, "failed")
CallbackReturns(w) == wpc[w] = "callback" /\ Finish(w, "done")

\* Mutation: workers leave as soon as the channel is closed.
Closed == closed

\* The range loop ends when the channel is closed and drained.
LoopEnds == closed /\ jobCh = <<>>

Exit(w) ==
  /\ wpc[w] = "receive"
  /\ LoopEnds
  /\ wpc' = [wpc EXCEPT ![w] = "exited"]
  /\ UNCHANGED <<jobCh, closed, fate, handlerVars, wjob, main>>

-----------------------------------------------------------------------------
(* main: after the signal, GracefulStop, engine.Stop and emb.Stop *)

MainGoes(from, to) ==
  /\ main = from
  /\ main' = to
  /\ UNCHANGED <<jobCh, fate, handlerVars, workerVars>>

Signal == MainGoes("serving", "graceful stop") /\ UNCHANGED closed

\* Mutation: main does not wait for the workers.
WorkersIgnored == TRUE

\* GracefulStop returns when the handlers have.
HandlersDone == \A h \in Handler : hpc[h] = "idle"

\* Mutation: main calls Stop of the server, which does not wait.
ServerStops == MainGoes("graceful stop", "stop embedder") /\ UNCHANGED closed

GracefulStopReturns ==
  MainGoes("graceful stop", "stop embedder") /\ HandlersDone /\ UNCHANGED closed

\* Mutation: Stop closes stopCh only.
CloseStopCh == MainGoes("stop embedder", "wait") /\ UNCHANGED closed

\* stopOnce: nobody reads stopCh, closing jobCh is what ends the workers.
CloseChannel == MainGoes("stop embedder", "wait") /\ closed' = TRUE

\* wg.Wait
WorkersDone == \A w \in Worker : wpc[w] = "exited"
StopReturns == MainGoes("wait", "complete") /\ WorkersDone /\ UNCHANGED closed

-----------------------------------------------------------------------------

WorkerStep(w) ==
  Receive(w) \/ Embedded(w) \/ EmbedFails(w) \/ CallbackReturns(w) \/ Exit(w)

MainStep == GracefulStopReturns \/ CloseChannel \/ StopReturns

Next ==
  \/ \E h \in Handler : Enqueue(h) \/ \E j \in Job : Request(h, j)
  \/ \E w \in Worker : WorkerStep(w)
  \/ Signal \/ MainStep

Spec == Init /\ [][Next]_vars

\* A handler in Enqueue goes on. A request may never come, nor the signal, and
\* nothing is said here of the workers: the sidecar may hang.
HandlerSpec == Spec /\ \A h \in Handler : WF_vars(Enqueue(h))

\* No worker hangs for ever, which is what the HTTP timeout is for.
WorkersGoOn == (\A w \in Worker : WF_vars(WorkerStep(w))) /\ WF_vars(MainStep)

-----------------------------------------------------------------------------
(* Correctness *)

Running == {"unused", "offered", "queued", "working"}
Fates == Running \cup {"dropped", "failed", "done"}

\* Every variable has its type.
TypeOK ==
  /\ jobCh \in Seq(Job) /\ Len(jobCh) <= BufferSize
  /\ closed \in BOOLEAN
  /\ fate \in [Job -> Fates]
  /\ hpc \in [Handler -> {"idle", "enqueue", "panic"}]
  /\ hjob \in [Handler -> Job \cup {NoJob}]
  /\ wpc \in [Worker -> {"receive", "embed", "callback", "exited"}]
  /\ wjob \in [Worker -> Job \cup {NoJob}]
  /\ main \in {"serving", "graceful stop", "stop embedder", "wait", "complete"}

\* No handler sends on the closed channel: the shutdown order of main.go:103-106
\* makes GracefulStop wait for the handlers before Stop closes jobCh.
NoPanic == \A h \in Handler : hpc[h] # "panic"

\* Every job is in exactly one place: the ones queued are in the buffer, each
\* once, and the ones being worked on are with one worker each.
JobsConserved ==
  /\ IsInjective(jobCh)
  /\ ToSet(jobCh) = {j \in Job : fate[j] = "queued"}
  /\ \A j \in Job : fate[j] = "working" <=>
       \E w \in Worker : wpc[w] \in {"embed", "callback"} /\ wjob[w] = j
  /\ \A v, w \in Worker : v # w => wjob[v] = NoJob \/ wjob[v] # wjob[w]

\* When main logs "shutdown complete" no accepted job is left behind: Stop
\* drains the buffer although it closes the channel first (client.go:90-98).
CompleteMeansDrained ==
  main = "complete" => \A j \in Job : fate[j] \notin {"offered", "queued", "working"}

\* Every job that Enqueue accepted is finished, shutdown or not.
AcceptedJobsFinish ==
  WorkersGoOn => \A j \in Job : fate[j] = "queued" ~> fate[j] \in {"failed", "done"}

\* Shutdown comes to an end, however many requests and jobs are under way.
ShutdownCompletes ==
  WorkersGoOn => (main = "graceful stop" ~> main = "complete")

\* Enqueue does not block its caller, whatever the workers do (client.go:79-80):
\* the handler goes on even when the sidecar hangs and the buffer is full.
EnqueueReturns == \A h \in Handler : hpc[h] = "enqueue" ~> hpc[h] = "idle"
=============================================================================
