\* More jobs than the buffer and the workers hold.
SPECIFICATION HandlerSpec
CONSTANTS
  Handler = {h1, h2}
  Worker = {w1, w2}
  BufferSize = 2
  MaxJobs = 5
INVARIANTS
  TypeOK
  NoPanic
  JobsConserved
  CompleteMeansDrained
PROPERTIES
  AcceptedJobsFinish
  ShutdownCompletes
  EnqueueReturns
\* After the shutdown nothing is left to do.
CHECK_DEADLOCK FALSE
