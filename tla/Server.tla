------------------------------- MODULE Server -------------------------------
(***************************************************************************)
(* The server from its start to its answers: main.go loads the             *)
(* configuration, builds the components and listens; then the search       *)
(* handlers of grpc.go choose their streams, have the query embedded, run  *)
(* one search after another, fuse the lists and look up the values, while  *)
(* other requests add and remove entries.                                  *)
(*                                                                         *)
(* What a stream finds are the keys it has a score for, ranked by their    *)
(* scores, of the documents that its index happens to have (Service says   *)
(* when they are those of the store), or, in the dense stream, of the      *)
(* items it was given.                                                     *)
(* One search request is followed at a time: searches share nothing that   *)
(* they change, but for access counts.                                     *)
(***************************************************************************)
EXTENDS Config, Ranking, SequencesExt

CONSTANTS
  Key,
  File, Env,    \* what the file and the environment may be
  Scoring,      \* a set of functions, [Stream -> the scores of the keys it finds]
  Asked,        \* the values of top_k
  AskedRRFK,    \* the values of rrf_k
  Indexed,      \* the sets of keys that a text index may have documents of
  Coarse,       \* a constant so large that float64 may not tell k + 1 from k + 2
  MaxChanges,   \* how often the store changes during a request
  Gone          \* forgotten

Streams == <<"surface", "bm25", "tfidf", "lsa", "dense">>
Stream == ToSet(Streams)

ASSUME KeyAssumption == IsFiniteSet(Key) /\ Key \subseteq Nat
ASSUME FileAssumption ==
  \A f \in File \ {NotThere, Unreadable, Malformed}, s \in Setting : f[s] \in {Missing} \cup Value(s)
ASSUME EnvAssumption ==
  \A e \in Env, s \in FromEnv : e[s] \in {Missing, Garbage} \cup Value(s)
ASSUME ScoringAssumption ==
  \A f \in Scoring, s \in Stream :
    DOMAIN f[s] \subseteq Key /\ \A k \in DOMAIN f[s] : f[s][k] \in Score
ASSUME AskedAssumption == Asked \subseteq Int /\ AskedRRFK \subseteq Int \cup {NaN, Infinity}
ASSUME IndexedAssumption == Indexed \subseteq SUBSET Key
ASSUME BoundAssumption == MaxChanges \in Nat /\ Coarse \in Nat
ASSUME GoneAssumption ==
  /\ Gone \notin [rrfK : Int \cup {NaN, Infinity}, embedder : BOOLEAN]
  /\ Gone \notin [buffer : Int, workers : Int, url : Int, clientTimeout : Int, requestTimeout : Int]

VARIABLES
  phase,            \* where main is
  file, env,        \* what it reads
  cfg,              \* what it has loaded
  running,          \* the parameters its components run with
  srv,              \* what a handler knows: the rrf_k to use by default, and whether
                    \* there is an embedder
  scoring,          \* how every stream scores
  present,          \* the keys in the store
  call,             \* the request that is followed
  seen, missed,     \* history: the keys that were there, and that were not, at some
  changes           \* time during the request; how often the store changed

startVars == <<phase, file, env, cfg, running, srv>>
storeVars == <<present, seen, missed, changes>>
vars == <<startVars, scoring, storeVars, call>>

-----------------------------------------------------------------------------
(* main, from Load to Serve                                                *)

Init ==
  /\ phase = "Load"
  /\ file \in File /\ env \in Env
  /\ cfg = Gone /\ running = Gone /\ srv = Gone
  /\ scoring \in Scoring
  /\ present = {} /\ seen = {} /\ missed = {} /\ changes = 0
  /\ call = Gone

LoadConfig ==
  /\ phase = "Load"
  /\ IF LoadFails(file) THEN phase' = "Exited" /\ cfg' = cfg
                        ELSE phase' = "Construct" /\ cfg' = Load(file, env)
  /\ UNCHANGED <<file, env, running, srv, scoring, storeVars, call>>

Components ==
  [limit |-> cfg.MaxMemoryBytes, ticker |-> Duration(cfg.TTLCheckIntervalSeconds),
   bm25 |-> NewBM25IndexWithParams(cfg.BM25K1, cfg.BM25B),
   ngram |-> NewNgramIndex(cfg.NgramSize), lsa |-> NewLSAIndexWithDim(cfg.DimK),
   embedder |-> IF cfg.Enabled THEN NewClientWithCallback(cfg) ELSE Gone,
   rrfK |-> ServerRRFK(cfg.DefaultRRFK)]

Construct ==
  /\ phase = "Construct"
  /\ IF NewEnginePanics(cfg) \/ (cfg.Enabled /\ NewClientPanics(cfg))
     THEN phase' = "Panicked" /\ running' = running
     ELSE phase' = "Listen" /\ running' = Components
  /\ UNCHANGED <<file, env, cfg, srv, scoring, storeVars, call>>

\* The port may be taken, and there is none above 65535.
ListenFails ==
  /\ phase = "Listen"
  /\ phase' = "Exited"
  /\ UNCHANGED <<file, env, cfg, running, srv, scoring, storeVars, call>>

Serve ==
  /\ phase = "Listen"
  /\ cfg.GRPCPort <= 65535
  /\ phase' = "Serving"
  /\ srv' = [rrfK |-> running.rrfK, embedder |-> running.embedder # Gone]
  /\ file' = Gone /\ env' = Gone /\ cfg' = Gone /\ running' = Gone
  /\ UNCHANGED <<scoring, storeVars, call>>

-----------------------------------------------------------------------------
(* Other requests *)

Change(k) ==
  /\ phase = "Serving"
  /\ call # Gone => changes < MaxChanges
  /\ present' = IF k \in present THEN present \ {k} ELSE present \cup {k}
  /\ IF call = Gone THEN UNCHANGED <<seen, missed, changes>>
     ELSE /\ seen' = seen \cup present'
          /\ missed' = missed \cup (Key \ present')
          /\ changes' = changes + 1
  /\ UNCHANGED <<startVars, scoring, call>>

-----------------------------------------------------------------------------
(* Which streams a hybrid search uses *)

TextStream == Stream \ {"dense"}
Strategy == Stream \cup {"UNSPECIFIED"}

\* The strategies of a request: none, one, two, or all.
StrategyLists == {<<>>, Streams} \cup {<<s>> : s \in Strategy} \cup {<<s, t>> : s, t \in Strategy}

HasDense(query, vec) == vec \/ (srv.embedder /\ query)

\* What is used when the request leaves it to the server: not TF-IDF and not LSA.
AutoDetected(query, vec) ==
  (IF query THEN {"surface", "bm25"} ELSE {}) \cup (IF HasDense(query, vec) THEN {"dense"} ELSE {})

\* Mutation: what is unspecified sets the flag of the dense stream either way.
OneMoreSets(use, strategy, query, vec) ==
  CASE strategy \in TextStream -> IF query THEN use \cup {strategy} ELSE use \ {strategy}
    [] strategy = "dense"      -> use \cup {"dense"}
    [] OTHER                   -> (use \ {"dense"}) \cup AutoDetected(query, vec)

\* One turn of the loop over the strategies: use are the flags that are set.
OneMore(use, strategy, query, vec) ==
  CASE strategy \in TextStream -> IF query THEN use \cup {strategy} ELSE use \ {strategy}
    [] strategy = "dense"      -> use \cup {"dense"}
    [] OTHER                   -> use \cup AutoDetected(query, vec)

Selected(strategies, query, vec) ==
  IF strategies = <<>> THEN AutoDetected(query, vec)
  ELSE FoldLeft(LAMBDA use, strategy : OneMore(use, strategy, query, vec), {}, strategies)

-----------------------------------------------------------------------------
(* The search handlers. A request has a query, TRUE unless it is empty, and *)
(* a query vector, TRUE unless it is empty.                                *)

Begins(c) ==
  /\ phase = "Serving" /\ call = Gone
  /\ call' = c
  /\ seen' = present /\ missed' = Key \ present /\ changes' = 0
  /\ UNCHANGED <<startVars, scoring, present>>

Goes(c) == call' = c /\ UNCHANGED <<startVars, scoring, storeVars>>

\* Mutation: the list is not cut.
FoundUncut(stream, keys, topK) == Ranked(Restrict(scoring[stream], keys \cap DOMAIN scoring[stream]))

\* What a stream finds among the keys, ranked: all of it, or the first topK.
Found(stream, keys, topK) ==
  Truncate(Ranked(Restrict(scoring[stream], keys \cap DOMAIN scoring[stream])), topK)

Constant(k) == IF ~TooLow(k) THEN k ELSE IF TooLow(srv.rrfK) THEN 6000 ELSE srv.rrfK

\* Mutation: the items are those of an earlier time.
AllKeys == Key
Items == present

\* Up to the embedding: the copy of the items is taken first.
HybridSearch(strategies, query, vec, topK, rrfK) ==
  LET use == Selected(strategies, query, vec)
      embed == "dense" \in use /\ ~vec /\ query /\ srv.embedder
  IN Begins([at |-> IF embed THEN "Embed" ELSE "Search", then |-> "Search",
             vec |-> vec, topK |-> topK, k |-> Constant(rrfK), items |-> Items,
             todo |-> use, lists |-> <<>>, texts |-> {}])

\* The sidecar's vector, or an error or an answer without one.
EmbedQuery ==
  /\ call # Gone /\ call.at = "Embed"
  /\ \E vec \in BOOLEAN : Goes([call EXCEPT !.at = call.then, !.vec = vec])

\* The streams have their turns one after another.
First(todo) == Streams[Min({n \in DOMAIN Streams : Streams[n] \in todo})]

\* The next stream: an empty list is not added, and without a vector there is no
\* dense stream. A text stream may give keys that the store does not have.
SearchStream ==
  /\ call # Gone /\ call.at = "Search" /\ call.todo # {}
  /\ \E docs \in Indexed :
       LET s == First(call.todo)
           list == IF s = "dense"
                   THEN IF call.vec THEN Found(s, call.items, 2 * call.topK) ELSE <<>>
                   ELSE Found(s, docs, 2 * call.topK)
       IN Goes([call EXCEPT !.todo = @ \ {s},
                            !.lists = IF list = <<>> THEN @ ELSE Append(@, list),
                            !.texts = IF s = "dense" THEN @ ELSE @ \cup KeysOf(list)])

Answers(lists, k, topK, ranked, texts) ==
  [at |-> "Enrich", lists |-> lists, k |-> k, topK |-> topK, ranked |-> ranked, texts |-> texts,
   results |-> <<>>]

\* When k is infinite every score is 0, and when it is NaN every score is, so that
\* sort.Slice may leave any order; when it is coarse, any ranks may give the same
\* score.
Fused(lists, topK, k) ==
  LET found == UNION {KeysOf(lists[i]) : i \in DOMAIN lists}
  IN IF k = Infinity THEN {Truncate(Ranked([key \in found |-> <<0, 1>>]), topK)}
     ELSE IF k = NaN \/ k >= Coarse THEN {Truncate(list, topK) : list \in SetToSeqs(found)}
     ELSE {RRFMulti(lists, topK, k)}

Fuse ==
  /\ call # Gone /\ call.at = "Search" /\ call.todo = {}
  /\ \E ranked \in Fused(call.lists, call.topK, call.k) :
       Goes(Answers(call.lists, call.k, call.topK, ranked, call.texts))

\* SurfaceSearch, Bm25Search, LexicalSearch, TfidfSearch and LsaSearch.
TextSearch(s, query, topK) ==
  \E docs \in Indexed :
    LET list == IF query THEN Found(s, docs, topK) ELSE <<>>
    IN Begins(Answers(<<>>, 0, topK, list, KeysOf(list)))

\* VectorSearch: here the copy of the items is taken after the embedding.
VectorSearch(query, vec, topK) ==
  Begins([at |-> IF ~vec /\ query /\ srv.embedder THEN "Embed" ELSE "Dense", then |-> "Dense",
          vec |-> vec, topK |-> topK, k |-> 0, lists |-> <<>>])

SearchVectors ==
  /\ call # Gone /\ call.at = "Dense"
  /\ Goes(Answers(<<>>, 0, call.topK, IF call.vec THEN Found("dense", Items, call.topK) ELSE <<>>, {}))

\* toProtoResults: a Get for each key, and a result without a value if it is gone.
Enrich ==
  /\ call # Gone /\ call.at = "Enrich" /\ Len(call.results) < Len(call.ranked)
  /\ LET k == call.ranked[Len(call.results) + 1]
     IN Goes([call EXCEPT !.results = Append(@, [key |-> k, value |-> k \in present])])

Return ==
  /\ call # Gone /\ call.at = "Enrich" /\ Len(call.results) = Len(call.ranked)
  /\ call' = Gone
  /\ seen' = {} /\ missed' = {} /\ changes' = 0
  /\ UNCHANGED <<startVars, scoring, present>>

-----------------------------------------------------------------------------

Startup == LoadConfig \/ Construct \/ ListenFails \/ Serve

Request ==
  \/ \E strategies \in StrategyLists, query, vec \in BOOLEAN, topK \in Asked, rrfK \in AskedRRFK :
       HybridSearch(strategies, query, vec, topK, rrfK)
  \/ \E query, vec \in BOOLEAN, topK \in Asked : VectorSearch(query, vec, topK)
  \/ \E s \in TextStream, query \in BOOLEAN, topK \in Asked : TextSearch(s, query, topK)

Handle == EmbedQuery \/ SearchStream \/ Fuse \/ SearchVectors \/ Enrich \/ Return

Next == Startup \/ Request \/ Handle \/ \E k \in Key : Change(k)

Spec == Init /\ [][Next]_vars

-----------------------------------------------------------------------------
(* Correctness *)

\* Every variable has its type, and no answer is longer than was asked for.
TypeOK ==
  /\ phase \in {"Load", "Construct", "Listen", "Serving", "Exited", "Panicked"}
  /\ phase = "Serving" <=> srv # Gone
  /\ srv # Gone => srv.embedder \in BOOLEAN /\ srv.rrfK \in (Nat \ {0}) \cup {NaN, Infinity}
  /\ present \subseteq Key /\ seen \subseteq Key /\ missed \subseteq Key
  /\ changes \in 0..MaxChanges
  /\ call # Gone =>
       /\ call.at \in {"Embed", "Search", "Dense", "Enrich"}
       /\ call.lists \in Seq(Seq(Key))
       /\ call.at = "Enrich" =>
            /\ call.ranked \in Seq(Key)
            /\ call.topK > 0 => Len(call.ranked) <= call.topK
            /\ call.results \in Seq([key : Key, value : BOOLEAN])

\* The value a setting was given: by the environment, else by the file, else by
\* default, and a value out of range is not given.
ByFile(s) ==
  /\ file # NotThere /\ file[s] # Missing
  /\ s \in Flag \/ file[s] \in {NaN, Infinity} \/ file[s] > 0
  /\ s = "EvictionThresholdRatio" => file[s] # Infinity /\ (file[s] = NaN \/ file[s] <= 100)

ByEnv(s) ==
  /\ s \in FromEnv /\ env[s] \notin {Missing, Garbage, NaN}
  /\ s \in Flag \/ env[s] = Infinity \/ env[s] > 0

Written(s) ==
  IF s = "Enabled" /\ env[s] = Garbage THEN FALSE
  ELSE IF ByEnv(s) THEN env[s]
  ELSE IF ByFile(s) THEN file[s]
  ELSE DefaultConfig[s]

\* Seconds that a Duration has room for.
FitsDuration(seconds) == seconds * Second < Half

\* A server that listens runs with the configuration as written: what the
\* constructors fall back to never differs from what Load fell back to, and no pool
\* or buffer is empty. Seconds that a Duration has no room for become another
\* period, but the ticker never runs with one that is not positive, and no request
\* to the sidecar is without a deadline. Nothing but such seconds, or a buffer that
\* cannot be allocated, makes main panic (config.go:127-237, main.go:36-68,
\* client.go:52-76, 119-122).
ConfigAsWritten ==
  /\ phase = "Panicked" =>
       \/ ~FitsDuration(Written("TTLCheckIntervalSeconds"))
       \/ Written("Enabled") /\ Written("ChannelBufferSize") > MaxBuffer
  /\ phase = "Listen" =>
       /\ \A s \in Setting : cfg[s] = Written(s)
       /\ running.bm25 = <<Written("BM25K1"), Written("BM25B")>>
       /\ running.ngram = Written("NgramSize") /\ running.lsa = Written("DimK")
       /\ running.rrfK = Written("DefaultRRFK")
       /\ running.limit > 0 /\ running.ticker > 0
       /\ FitsDuration(Written("TTLCheckIntervalSeconds")) =>
            running.ticker = Written("TTLCheckIntervalSeconds") * Second
       /\ running.embedder # Gone <=> Written("Enabled")
       /\ Written("Enabled") =>
            /\ running.embedder.buffer = Written("ChannelBufferSize")
            /\ running.embedder.workers = Written("WorkerPoolSize")
            /\ running.embedder.url = Written("URL")
            /\ running.embedder.requestTimeout > 0
            /\ FitsDuration(Written("TimeoutSeconds")) =>
                 /\ running.embedder.clientTimeout = Written("TimeoutSeconds") * Second
                 /\ running.embedder.requestTimeout = Written("TimeoutSeconds") * Second

\* The streams that strategies name, unless the query they need is not there.
Named(strategies, query) ==
  {s \in ToSet(strategies) \ {"UNSPECIFIED"} : s = "dense" \/ query}

\* A hybrid search uses every stream that its strategies name, in whatever order
\* they come and however they repeat, and no other, unless one is UNSPECIFIED: then
\* it may use others that the fields of the request allow (grpc.go:271-294).
StrategiesAsAsked ==
  phase = "Serving" /\ call = Gone =>
    \A strategies \in StrategyLists \ {<<>>}, query, vec \in BOOLEAN :
      LET use == Selected(strategies, query, vec)
          named == Named(strategies, query)
      IN /\ named \subseteq use
         /\ "UNSPECIFIED" \notin ToSet(strategies) => use = named
         /\ \A s \in use \ named : IF s = "dense" THEN HasDense(query, vec) ELSE query

Ahead(list, j, k) == \E m, n \in DOMAIN list : m < n /\ list[m] = j /\ list[n] = k

\* Rank fusion agrees with its streams where they agree: a key that is ahead of
\* another in every list with the other is ahead of it in the fusion, whatever the
\* lists were cut to, unless the constant is NaN, infinite or coarse; and the fusion
\* is as long as it may be (hybrid.go:16-44).
FusionAgrees ==
  call # Gone /\ call.at = "Enrich" /\ call.lists # <<>> =>
    LET fused == call.ranked
        found == UNION {KeysOf(list) : list \in ToSet(call.lists)}
    IN /\ call.k \notin {NaN, Infinity} /\ call.k < Coarse => \A j, k \in found :
            /\ k \in KeysOf(fused)
            /\ \A list \in ToSet(call.lists) : k \in KeysOf(list) => Ahead(list, j, k)
            => Ahead(fused, j, k)
       /\ KeysOf(fused) \subseteq found
       /\ Len(fused) = IF call.topK > 0 THEN Min({call.topK, Cardinality(found)})
                                        ELSE Cardinality(found)

\* A result that no text index gave is an entry that was in the store at some time
\* during the request, also when the items were copied before a slow embedding. Any
\* result comes with a value only if the entry was there at some time during the
\* request, and without one only if it was not (grpc.go:248, 298-338, 351-366).
ResultsFromRequest ==
  call # Gone /\ call.at = "Enrich" =>
    /\ KeysOf(call.ranked) \ call.texts \subseteq seen
    /\ \A r \in ToSet(call.results) : IF r.value THEN r.key \in seen ELSE r.key \in missed
=============================================================================
