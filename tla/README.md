# Gogaghe: a TLA+ verification of the cache and its indexes

Gogaghe is an in-memory key-value cache with text and vector search behind a
gRPC API. Its core is small and concurrent: a locked map with a byte budget and
a TTL goroutine, four search indexes that request handlers keep up to date by
hand, and a pool of goroutines that fetch embeddings and write them back. The
modules here model that core and what it is built into, from the configuration
to the answer of a search. TLC checks them on small instances; TLAPS proves every
safety invariant and action property that TLC checks, for every size. Paths are
relative to the repository.

## 1. Inventory

| Component | State | Operations | What makes it correct |
|---|---|---|---|
| Engine (`internal/store/engine.go`) | `data` under an RWMutex, atomic `memoryUsed`, TTL ticker, `stopCh` | `Set`, `Get`, `Delete`, `Len`, `Items`, `MemoryUsageBytes`, `Stop`, `ttlWorker`/`evictExpired` | operations are atomic, the counter is the size of the map, the limit holds, nothing live is lost, every call returns, the worker ends |
| Eviction (`internal/store/eviction.go`) | none of its own | `Evict` | cheapest first, no entry too many, reaches its target, ends |
| Text indexes (`bm25.go`, `ngram.go`, `tfidf.go`) | postings, document tokens, lengths, document counts, norms | `IndexDocument`, `RemoveDocument`, `Rebuild`, `Search` | after any history the index is that of the current documents |
| LSA (`lsa.go`) | matrices under its own lock | `Rebuild`, `Search` | built from one state of the store, forgotten with the last of it |
| Vector search (`vector.go`) | none | `VectorSearch`: a pool of goroutines per call | every item is scored once, the call returns, no goroutine stays behind |
| Rank fusion (`hybrid.go`) | none | `RRF`, `RRFMulti` | agrees with lists that agree, has the length asked for |
| Embedder (`internal/embedder/client.go`) | `jobCh`, `stopCh`, worker pool | `Enqueue`, `worker`, `Embed`, `Stop` | never blocks the caller, drops only when full, drains on `Stop` |
| Callback and shutdown (`cmd/gogaghe-server/main.go`) | none | callback: `Get`, `Set`, four rebuilds; signal, `GracefulStop`, `Stop`s | the vector reaches its entry and nothing else changes; the order of the shutdown is safe |
| Handlers (`internal/server/grpc.go`) | pointers to all of the above | `Set`, `Get`, `Delete`, six searches and the hybrid one | the indexes follow the store; a search uses the streams it was asked for and returns entries that were there |
| Configuration (`internal/config/config.go`) and construction (`main.go`) | the settings | `DefaultConfig`, `Load`, fallbacks, overrides, constructors | components run with the settings as written, whatever source wins |
| Metrics, generated API, scripts | gauges | publish | out of scope (section 8) |

How they interact: a handler calls the engine and then the indexes, one after
another on its own goroutine; `Set` with `auto_embed` puts a job in `jobCh`; a
worker has it embedded over HTTP and runs the callback, which calls the engine
again and rebuilds every index; the TTL worker removes entries behind all of
them. The engine and LSA have locks, the three text indexes have none, and no
lock spans two calls. So the hard behaviours are interleavings between calls,
copies that are stale when they are written back, jobs that overtake each
other, the buffer and the byte budget at their limits, goroutines that fan out
and come back over channels, settings with four sources, and the shutdown.
`PROJECT.json` lists each hazard with its line.

## 2. Modules

| Module | Models | State and actions |
|---|---|---|
| `StoreData` | entries, sizes, requests and replies shared by the modules below | operators only: `itemSize`, `Fits` (the budget test of `Set`), `Expired`, `Touch` (what `Get` does to an entry) |
| `AtomicStore` | what the engine promises: each operation happens at one instant | `data`, `now`, and per client its call and reply; no lock, no counter, no worker |
| `Engine` | `engine.go` at the grain of the lock | `data`, `memoryUsed`, the RWMutex (`writer`, `readers`), the clock, `tick`, `stopped`; an action for each stretch of code between two points where another goroutine can be observed |
| `Eviction` | `Evict` on the atomic store among clients | `Check` (line 41), `TakeSnapshot` (42-57), `DeleteVictim` (58), and clients that interfere between them |
| `Embedder` | the pool and the shutdown | `jobCh` as a bounded sequence, `closed`, one number per job to follow its `fate`; `Enqueue`, `Receive`, the outcomes of `Embed`, `Exit`, and main's sequence |
| `VectorPipeline` | how a vector reaches its entry | `PlainSet`, `AutoSet`, `Enqueue`, `Receive`, `Embedded`/`EmbedFails`, `CallbackGet`, `CallbackSet`, `Delete`, `Expire`, each a step of its own |
| `Ranking` | ranked lists and their fusion | operators only: `Ranked` (the sort every search ends with), `Truncate`, `RRFMulti` |
| `DocIndex` | the bookkeeping of BM25, n-gram and TF-IDF, and what LSA decomposes | the four indexes as records; `tokenize`, `ExtractNgrams`; `IndexDocument`, `RemoveDocument`, `Rebuild` |
| `TextSearch` | what these indexes answer | operators over the state of `DocIndex`: `SearchWithMetric` with its three metrics, `BM25Search`, `TFIDFSearch`, `LSAAnswers` |
| `VectorSearch` | one call of `VectorSearch` | the two channels, the caller's `pc`, each worker; `Send`, `Receive`, `Skip`, `SendResult`, `Exit`, `CloseJobs`, `CloseResults`, `Return` |
| `Config` | `config.go` and the fallbacks of the constructors | operators only: `Load` and its stages |
| `Server` | main from `Load` to `Serve`, then the search handlers | `LoadConfig`, `Construct`, `Serve`; `HybridSearch`, `EmbedQuery`, `SearchStream`, `Fuse`, `TextSearch`, `VectorSearch`, `Enrich`, with `Change` for the requests beside them |
| `Service` | handlers and callback keeping four indexes in step | per process the calls it has still to make; a call to the engine or to LSA, which have a lock, is a step; a call to another index begins (`Enter`) and ends (`CallTextIndex`) |

How they fit together. `Engine` implements `AtomicStore` (property
`Linearizable`, `INSTANCE AtomicStore WITH data <- CountedData, busy <- Busy`),
and that is what lets `Eviction`, `VectorPipeline` and `Service` treat an engine
call as one step. `Service` says which text an index was last given under a key,
`DocIndex` what the index makes of the texts. `Embedder` follows jobs through
the shutdown and ignores their contents, `VectorPipeline` follows the contents
and has no shutdown. `TextSearch` and `VectorSearch` say what a stream of a search
finds, `Server` takes each stream as the scores of the keys it finds (for a text stream among
any documents its index may have, for the dense one among the items it was given) and says what the
handlers make of them; it runs with the parameters `Config` computes. Each `MC*` module
and `.cfg` gives the constants small values, and the `*Proofs` modules hold the theorems.

Abstractions that matter:

- *Engine.* `memoryUsed` is changed after the map (lines 67-68, 83-84, 100-101,
  155-156), so a change of the map and its addition are two steps and
  `MemoryUsageBytes`, which takes no lock, may come between. What a goroutine
  does alone under the lock before its first change is one step with it; the
  deferred unlock is one step with the last. `LastAccessedAt` is left out:
  nothing reads it. The sweep deletes in any order, as `range` over a map does.
- *Priorities.* `CostMs / (AccessCount + 1)` is compared as an exact fraction by
  cross-multiplying; the float rounding of the code is not modelled.
- *Sizes* are functions of key, value and vector, so that any lengths are covered;
  `SizeofItem` is the constant `unsafe.Sizeof` adds.
- *The sidecar* is its outcomes: a vector, an answer without a vector (which the
  client does not notice: it does not read the status), or an error.
- *Texts* are sequences of words and words sequences of letters: separators and
  case, which both tokenizers drop, are gone, and n-grams are taken apart as the code
  does. `tokenize` is then the identity on texts, because the split is in their form.
- *Scores* are exact fractions. Where the code has `1 + ln(count)` and an inverse
  document frequency, `DocIndex` has `TfWeight` and `Idf`, integers that are
  positive and grow and fall with their arguments as the logarithms do: what is
  checked of BM25 and TF-IDF is what holds for any such weights. BM25 with a `b`
  above one may divide by zero or by less: a score is then `Infinite` or negative. Norms and
  cosines are squared. The n-gram similarities are rounded to four places as in the code.
- *Keys* that are ranked are numbers, in the order of the strings they stand for.
- *Reciprocal ranks* are summed over the common denominator of a search, so
  that the order is exact; the rounding of the code's float sums, which may
  break a tie the other way, is not modelled.
- *Settings* are one record; fractions are in hundredths, a URL is a number, and
  `NaN`, which no comparison holds of, and `Infinity` are values of their own.
- *Durations* have the width they have in Go: `Duration` multiplies by `Second` and wraps around
  at `Half`, for the ticker, the HTTP client and each request to the sidecar.
  `MaxBuffer` is the largest channel that can be allocated.
- *The fusion constant* is a number of hundredths. From `Coarse` on, a `float64` may not tell
  `k + 1` from `k + 2`, and the order of the fusion is any, as with NaN;
  with infinity every share is 0 and the keys alone decide.
- *Indexes without a lock.* A call to BM25, n-gram or TF-IDF has a beginning and an end. When two
  changes are inside the same index at once, whatever their keys, all its documents become
  `Unknown`: such a race may lose a posting of any document, and no later update puts that
  right, only a rebuild that is alone inside. (That Go's runtime may
  abort instead, also for a search beside a change, ends the behaviour and shows nothing more.)
  What a search returns while a change is inside is not modelled.
- *The documents of an index* in `Server` may be any of `Indexed`, since they need not be
  those of the store: entries expire without the indexes hearing of it, and updates come late.
- *A search request* is followed one at a time in `Server`: searches change
  nothing that other searches read, but for access counts. The requests beside
  it add and remove entries at any moment, up to `MaxChanges`.
- *Expiry* in `Eviction`, `VectorPipeline` and `Service`, which have no clock,
  is an entry that may disappear at any time.

## 3. Runs

Properties are described at their definitions; this is what each run asks. Each
property of a passing run has a mutant: a plausible bug in the modelled code,
written beside the definition it changes under a comment *Mutation*, with which
the same run finds the property violated.

| Run | Instance | Shows |
|---|---|---|
| `engine_safety` | 2 clients, the worker, 2 keys, 2 items, limit 8, 2 instants | exact accounting, the limit, nothing live lost, `Linearizable`, and `IInv` with the lock discipline and the one instant that `Items` copies |
| `engine_liveness` | 2 clients, the worker, 1 key | every call returns; an expired entry goes unless `Stop` comes; the worker ends after `Stop` |
| `eviction` | 3 keys, every store of up to 3 entries of 2 sizes, 2 costs, 0 or 1 access; targets -1, 3, 7 | order, minimality and target of an undisturbed `Evict`; termination among clients |
| `embedder` | 2 handlers, 2 workers, buffer 2, 5 jobs | no panic, no job lost or doubled, drained when complete; `Enqueue` returns; jobs and shutdown finish |
| `vector_pipeline` | 2 keys, 2 texts, 2 handlers, 2 workers, buffer 1, 3 `Set`s, limit 10 | entries are never mixed, vectors never cross keys, an entry set once gets the vector of its text |
| `doc_index` | 3 keys, 5 texts that share words or n-grams, repeat them or have none; each text is a query | after any history postings, counters and norms are those of the current documents; `Rebuild` agrees; searches find what shares something with the query, no more and no less; scores keep their scale, their order and, up to rounding, tell the same n-grams from others |
| `vector_search` | every store of 3 keys over 5 vectors, 2 queries, 2 limits, 2 goroutines | each comparable item ranked once; no send on a closed channel; the call returns and its goroutines end |
| `server` | one setting with a value of its own in the file and one in the environment, each value in range, at zero, negative, too large, NaN, infinite or garbage; 3 keys, 2 scorings of the keys by the streams, text indexes with all keys or without one, every list of up to 2 strategies and the list of all, 1 change during a request | settings arrive as written, seconds if a `time.Duration` has room for them; strategies select the streams they name in any order; the fusion agrees with its lists; what the dense stream gives was in the store during the request, and any result has a value only if its entry was, whatever the text indexes gave |
| `service` | 2 processes that are handlers or workers by turns, 2 keys that may expire | which changes leave which index in step with the store |
| `vector_callback_overwrites` | 1 key | violation: the callback reverts a `Set` |
| `service_stale_index` | 1 key, 2 handlers | violation: an index keeps a deleted document |
| `service_data_race` | 2 keys, 2 handlers, every search | violation: two handlers inside an index without a lock |

Why the bounds are enough for the interesting cases. *engine*: two clients give
a reader and a writer, or two writers, with the worker as a third; entries of 3
and 5 bytes under a limit of 8 give a store that is exactly full, one
refused, and replacements that grow into the limit and shrink away from it; the
large entry expires at the second instant, before or after the sweep has read
its clock. Reads stop once an entry has been read (`MaxHits`): the access
count only grows. *eviction*: limit 11 holds three entries; ties, priorities
that differ by cost only and by accesses only all occur; -1 is below what an
empty store has. *embedder*: five jobs exceed buffer and workers together, so
jobs are dropped, queued and worked on at once when the signal comes.
*vector_pipeline*: limit 10 has room for two entries but not for two with vectors, so
the callback's `Set` is refused in some behaviours; three `Set`s are what it takes
for two jobs of one key and one of another. *doc_index* is complete: the
reachable states are closed under every call; its texts are empty, a word shorter than an
n-gram, a text that repeats a word, a word that is one n-gram and one that
repeats it. *vector_search*: two goroutines and three items make a worker take
a second job while the other is still busy; the vectors tie, oppose the query, have another length
or are empty. *server*: settings do not interact in `Load`, so a file and
an environment that differ from the defaults in one place each, the same or
not, show every order of precedence (650,962 states). `Second` is 10 and `Half` 512, so that 51 seconds
fit, 52 become negative, 103 less than a second and 512 nothing; `MaxBuffer` is 500 and `Coarse` 200.00,
which two of the constants reach; NaN as the constant is left to the proof, since
it shares the branch of coarse ones and doubles the run; lists of two keys and three, cut at two,
make fusion meet ties and missing keys; one change between any two steps
makes a key appear or vanish after each of them. *service* has 3.8 million states with
one text and with one of the searches (`Searches`; a search changes nothing, and only
`service_data_race` needs them all): it has calls in every index at every stage of
another one, races, and the rebuilds that mend them. With one text an index that is out of step
has a document too many or too few; that it has another text is left to the proof. The `embedder` and
`vector_pipeline` runs do not check for deadlock, because a process that has shut down
and a pipeline whose requests are used up have nothing left to do.

## 4. Fairness

- `Engine`: weak fairness for steps a goroutine can take on its own (Go runs
  every runnable goroutine) and strong fairness for acquiring the lock.
  `sync.RWMutex` blocks new readers once a writer waits, and `sync.Mutex` in its
  starvation mode hands over to the oldest waiter, so no waiter is overtaken for ever. The ticker fires until
  stopped. No client has to call and nobody has to call `Stop`.
- `VectorSearch`: weak fairness for the caller and for each goroutine of the
  pool, which wait for one another on channels only; the scheduler runs who can go on.
- `Eviction`: weak fairness for `Evict` alone. `EvictReturns` supposes that
  clients add entries only finitely often: the loop itself has no bound.
- `Embedder`: weak fairness for a handler in `Enqueue`, nothing for the workers,
  so that `EnqueueReturns` also covers a sidecar that hangs. `AcceptedJobsFinish`
  and `ShutdownCompletes` suppose `WorkersGoOn`: workers and main are weakly
  fair, which for a worker in `Embed` is the HTTP client's timeout
  (`client.go:68`). Requests and the signal may never come.

## 5. Theorems

All are for every number of clients, goroutines, keys and entries, every size,
buffer, limit, text, scoring and configuration that the `ASSUME`s of the modules admit.
These ask what the Go types and the code before them grant: `Key` is finite, and a set of
numbers where keys are ranked; texts are finite sequences of words; the n-gram size, the rank and BM25's
parameters are positive fractions, as `Load` leaves all but NaN and infinity; a file or variable holds values of the
setting's type (`FileAssumption`, `EnvAssumption`); a `time.Duration` has room for the 30 seconds of the
default and a channel for its 256 jobs (`WidthAssumption`, `BufferAssumption`); a score is a fraction of any sign or
infinite (`ScoringAssumption`); and the values that stand for *nothing* are no others.

| Theorem | Says |
|---|---|
| `StoreProofs!TypeCorrect`, `Inductive` | the inductive invariant `IInv`, type invariant included |
| `StoreProofs!Accounting` | the counter is exact up to the change in progress |
| `StoreProofs!LimitKept` | neither map nor counter exceeds the limit |
| `StoreProofs!NothingLiveLost` | an entry that disappears had expired or was deleted by a client |
| `StoreProofs!Refinement` | `Engine` implements `AtomicStore` |
| `StoreProofs!CheapestFirst`, `NoneTooMany`, `TargetReached` | an undisturbed `Evict` goes in order, takes none too many and reaches its target |
| `EmbedderProofs!SendNeverPanics` | no handler sends on the closed channel |
| `EmbedderProofs!NoJobLost` | a job is with whoever its fate says, and there once |
| `EmbedderProofs!ShutdownDrains` | a complete shutdown leaves no accepted job behind |
| `VectorPipelineProofs!EntriesUnmixed` | value, cost and expiry of an entry come from one `Set` of its key |
| `VectorPipelineProofs!VectorsUncrossed` | a vector belongs to a text that was set under the same key |
| `VectorPipelineProofs!OwnVectorArrives` | an entry set once gets its own embedding or a recorded reason why not |
| `VectorSearchProofs!VectorTyped` | the type invariant: neither channel is ever over its capacity |
| `VectorSearchProofs!AnswerCorrect` | the answer ranks every comparable item once and no other |
| `SearchProofs!IndexCurrent` | the inductive invariant `IndexInv`: each index is a function of the documents given last |
| `SearchProofs!IndexExactAlways` | postings, counters and norms are those of the current documents |
| `SearchProofs!RebuildsAgree` | a rebuild and the updates one by one give the same index |
| `SearchProofs!SearchesExact` | a search finds what shares a token or n-gram with the query, each once, and nothing else |
| `SearchProofs!ScoresAlwaysSound` | similarities, BM25 scores and cosines have the bounds and the order their names promise |
| `ServerProofs!ServerCorrect` | the inductive invariant `ServerInv` |
| `ServerProofs!ConfigurationAsWritten` | a server that listens runs with the settings as written, seconds that a `time.Duration` has room for included; others leave a positive period and a deadline, and main panics for nothing else but a buffer it cannot allocate |
| `ServerProofs!StreamsAsAsked` | a list of strategies, in any order and repetition, selects the streams it names, and no other without `UNSPECIFIED` |
| `ServerProofs!FusionKeepsOrder` | with a constant below `Coarse` the fusion keeps an order its lists agree on; with any, its length is the one asked for |
| `ServerProofs!ResultsWereThere` | a result that no text index gave was in the store during its request; any result has its value only if the entry was, and none only if it was not |
| `ServiceProofs!UndisturbedAgree` | a change that met no other of its key and shared no text index with another leaves store and indexes in step |
| `EvictTyped`, `EmbedderTyped`, `PipelineTyped`, `IndexTyped`, `ServerTyped`, `ServiceTyped` | the type invariants of their modules |

`DataLemmas` holds the lemmas the others share: channels as sequences, sums and
products over a set, ranked lists, fractions. What a fold computes needs an
induction, and the induction theorems of the library take a predicate as a
parameter, which the provers cannot instantiate. The lemmas take a *set* in its
place: `NatSetInduction` and `SubsetInduction` conclude that a set holds every number or
every subset, from the well-foundedness of the numbers, and a fold is first shown to be the
one function with its recursion (`FoldExists`, `SumIs`, `ProductIs`).

*Engine.* `AccountingExact` is not inductive. That the
counter catches up needs to know what is still to be added and who will add it:
`pending` records the one change under way and `PendingMatches` says its `delta` is the
difference of the two sizes. That only one change is under way needs the lock:
`LockDiscipline`. That `Set` tests a counter that is exact when it tests it needs both.
`CopyCurrent` (what `Items` has copied is what the map still holds) is what
makes a copy made in many steps the map of one instant. `IInv` is the
conjunction with the type invariant, and the run `engine_safety` checks it too.
The sweep's `sweepTime <= now` is why a clock read before the lock does no
harm: what had expired then has expired now. For the refinement the map of the
abstract store is `CountedData`, the map without the change that is not yet
counted, so the linearization point of a write is its addition to the counter.
That is the point that fits both kinds of reader: those under the lock never see the map
in between, and the one without a lock sees the counter.

*Evict.* `before` is the store when it was called. While nobody
interferes what is left is unchanged, each victim was cheapest among what was left, so everything
gone is at most as dear as everything left (`CheapestGoFirst` is inductive
together with `Undisturbed`); and the last victim was taken from a
store over the target.

*Embedder.* `EInv` says who holds each job by its fate (a handler, the channel, a
worker, nobody) and that no two hold the same one, and how far the shutdown is: the
channel is closed only once `GracefulStop` has returned, so that no handler is in
`Enqueue` any more, and a worker has returned only if the closed channel was empty.
That somebody empties it needs a worker (`WorkerAssumption`): without one,
`wg.Wait` returns at once and the buffer is left full.

*Vector pipeline.* `PInv` carries the origin of everything along the way of a
vector: every job in a handler, the channel or a worker was asked for by a
request in the log, a worker's vector is nil or the embedding of its job's
text, and its copy was an entry of its key. `OInv` adds that a key set once has
its embedding, or somebody has its job, or the miss is on record.

*Vector search.* `VInv`: a key is in at most one place (not yet sent, in the job channel,
with a goroutine, in the results), a comparable one in one of them until the results are
collected, and the stages of caller, pool and closer follow one another. Once the results are
closed only they can hold keys, so they hold the comparable ones, each once.

*Text indexes.* `IndexInv` says that each index *is* a function of the documents
given last: `BM25Of`, `NgramOf`, `TFIDFOf`, `LSARebuild`. That is stronger than
`IndexExact`, which compares only what a search can tell apart, and unlike it, it is inductive: an update
changes one key of the function's argument (`BM25Indexes`, `NgramRemoves`,
...), and a rebuild starts from nothing and goes through its keys one by one in any order
(`BM25Rebuilt`, ...). BM25's `avgDocLength` is outside the function when there are no
documents, because `Rebuild` leaves it as it was (`bm25.go:105-111`); TF-IDF is a function
of the documents it holds, which a rebuild takes without the tokenless ones (`Held`).

*Scores.* For the n-grams, what two texts have in common is at most what either
has, and is all of it only if the other has each n-gram as often (`CommonFacts`); the n-grams of
a piece of a word are a part of the word's (`WindowsOfPiece`). The similarity is rounded
to four places, so a score of 1 means the same n-grams, and a positive similarity a
positive score, only while the two texts have fewer than 20000 n-grams together:
`SimilaritiesSound` says so. For BM25 with `b` at most one each token's share grows with its frequency and falls with the length
(`LengthNormOrdered`), and sums of fractions are compared over a common denominator
(`AddsUpToMore`). The cosine is at most one by the inequality of Cauchy and Schwarz
(`CauchySchwarz`).

*Server.* `ServerInv` has three parts. `Starting`: what is loaded, built and running at each
stage of main; `LoadedAsWritten` takes a setting through its four sources, and `Durations` says that
the product does not wrap below `Half`. `Storing`: what
is in the store was seen. `Calling`: what a request holds at each step, in
particular that its lists hold each key at most once, and those of the dense stream keys that were seen during the request. That a
hybrid search selects its streams in any order is an induction on the list with
`OneTurn`, what one strategy adds. Fusion: the sum of the shares
of the lists is compared list by list (`MoreAhead`), so a key that is nowhere behind another and
somewhere ahead has the larger score; with a constant that is NaN, infinite or coarse only the length is claimed.

*Service.* `clean[i]` is not enough for an induction: a rebuild writes every key from a copy
taken earlier. `SInv` adds what makes that harmless: nobody is changing a clean
key (`CleanAtRest`), the copies still to be written are right for clean keys
(`CopyOfClean`), a change that has met nobody on its key finds the store
and the indexes it has done as it left them (`OwnKey`, `AllKeys`), and two changes under way
know of each other (`BothMet`), which is why an ending change cannot clean a key another
one is about to write. A race empties `clean` for its index, and a key is cleaned again only
when its document is known.

*Only model-checked:* the liveness properties (`CallsReturn`,
`ExpiredReclaimed`, `WorkerExits`, `EvictReturns`, `AcceptedJobsFinish`,
`ShutdownCompletes`, `EnqueueReturns`, `SearchReturns` depend on fairness, and the
prover has no `ENABLED`), and the three disagreements of section 6, which are
counterexamples.

## 6. Where the code and its documents differ

With a run:

- `service_data_race`: `README.md:359` tolerates no race, but BM25, n-gram and
  TF-IDF have no lock and handlers use them concurrently (`grpc.go:90-99`).
- `service_stale_index`: `README.md:145` has the n-gram index follow `Set` and
  `Delete`. The updates of two requests on a key may be applied in another
  order than their changes of the store, and a document of a deleted key stays until the key's next
  change or a rebuild. The run shows it without a race inside an index.
  `UndisturbedChangesAgree` says how far the damage goes.
- `vector_callback_overwrites`: `README.md:75` has the callback update the
  vector. It sets its whole copy, so a `Set` in between is reverted, which the run shows; a `Delete`
  in between is undone in the same way.

Without one, and modelled as the code is:

- A hybrid search without strategies, or with the unspecified one, uses n-grams, BM25 and the
  dense stream, never TF-IDF or LSA (`grpc.go:265-269`, 283-292). `gogaghe.proto:27` has the unspecified
  one enable "all strategies matching provided query/vector fields", and `README.md:183` and
  329 auto-detect all. `StrategiesAsAsked` leaves open which streams
  UNSPECIFIED adds, and says nothing of an empty list.
- `search.*.enabled` and `embedder.auto_embed_queries` are loaded and never read:
  all indexes are built, and queries are embedded whenever there is an embedder.
- `applyValidationAndFallbacks` "ensures no required field is zero or out of
  bounds" (`config.go:153`): ports above 65535, NaN, infinity, seconds that overflow a
  `time.Duration` and buffers too large to allocate pass. An overflow may make `time.NewTicker` panic or
  the embedder's timeout another one (`client.go:69`, 119-122), and the buffer makes `make` panic (`client.go:65`). `bm25_b: 0`,
  a meaningful value of BM25, becomes 0.75. A `bm25_b` above 1 passes (`config.go:176`):
  BM25 may then divide by zero (`bm25.go:149`) and score short documents below zero.
- With NaN for `rrf_k`, from the file or a request, every fused score is NaN and the order of the
  answer is any; with infinity every score is 0 and the keys decide; a constant near 2^53 swallows
  the ranks (`Fused`).

- Nothing calls `Evict` or reads `eviction_threshold_ratio`
  (`configs/config.yaml:11`): a full store refuses writes.
- Among clients the victim of `Evict` need not be of lowest priority when it goes
  (`eviction.go:58`, against `README.md:480`).
- With two jobs of one key the vector of the older text may be stored last
  (`main.go:54`; `README.md:30` promises eventual consistency).
- `Set` with a vector and `auto_embed` embeds all the same (`grpc.go:105`, against `README.md:272`).
- TF-IDF counts a document without tokens when it is indexed and not when the
  index is rebuilt (`tfidf.go:34`), so the same documents have two scores;
  `RebuildAgrees` states what is left: without such documents the two agree.

## 7. Plan

In this order; all of it is done except what the end of this section lists.

1. `StoreData`, `AtomicStore`, `Engine`: the store everything rests on; proofs in `StoreProofs`.
2. `Eviction` on the atomic store, and its proof, in `StoreProofs` too.
3. `Embedder`: the pool and the shutdown; `EmbedderProofs`.
4. `VectorPipeline`: the callback's read-modify-write; `VectorPipelineProofs`.
5. `DocIndex`: the incremental bookkeeping against a fresh index; `SearchProofs`.
6. `Service`: handlers, callback and expiry against the four indexes; `ServiceProofs`.
7. `VectorSearch`: the goroutines and channels of one search; `VectorSearchProofs`.
8. `TextSearch`, `Ranking`: the searches over the indexes and the fusion of
   lists, as operators against what an answer should be; `SearchProofs`, `DataLemmas`.
9. `Server`, `Config`: a search from request to answer, and what a configuration
   makes of it; `ServerProofs`.

Left for later: the refinement of `Service`'s documents by `DocIndex`'s (one
composition per index), and the conversion of `ttl_ms`.

## 8. Not modelled

- The SVD of LSA and floating-point rounding. LSA appears as the documents and the rank
  it was built from and the documents an answer may hold; the other scores are
  integers or exact fractions with the same order (section 2).
- `metrics.go`: counters and gauges which the program writes and never reads,
  and the HTTP endpoint that shows them.
- The generated API (`pkg/gogaghe/v1`, 1915 lines of protobuf and gRPC stubs) and
  `scripts/smoke.go`, a client for manual tests.
- HTTP, gRPC and logging.
- The conversion of `ttl_ms` to a deadline, which overflows for TTLs of 292 years
  (`grpc.go:76`): entries of the models may have any expiry, the past included.
- `GracefulStop` waiting on a handler that hangs (`cmd/gogaghe-server/main.go:103`): the
  handlers of the models always come to their end.
- A second `Engine.Stop`, which panics (`engine.go:133`): main calls it once.
