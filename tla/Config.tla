------------------------------- MODULE Config -------------------------------
(***************************************************************************)
(* The configuration (config.go): defaults, the YAML file over them, the   *)
(* fallbacks for what is out of range, and environment variables over      *)
(* that; then what the constructors of the components make of it.          *)
(*                                                                         *)
(* A Config is a record of its settings, whatever section they are in. A   *)
(* float64 is in hundredths (0.90 is 90), NaN or infinite; one that is     *)
(* infinite and negative is as good as any that is negative. A URL is a    *)
(* number, 0 for the empty one.                                            *)
(***************************************************************************)
EXTENDS Integers

CONSTANTS
  Missing,     \* a setting that the file or the environment does not mention
  Garbage,     \* the value of a variable that does not parse
  NaN,         \* a float that is not a number, .nan in YAML
  Infinity,    \* .inf in YAML, Inf in the environment
  NotThere, Unreadable, Malformed, \* what becomes of reading the file
  Second,      \* time.Second, in nanoseconds
  Half,        \* 2^63: a time.Duration is from -Half to Half - 1
  MaxBuffer    \* the largest channel that make can allocate

ASSUME WidthAssumption == Second \in Nat \ {0} /\ Half \in Nat /\ 30 * Second < Half
ASSUME BufferAssumption == MaxBuffer \in Nat /\ 256 <= MaxBuffer

DefaultConfig ==
  [GRPCPort |-> 50051, MetricsPort |-> 2112,
   MaxMemoryBytes |-> 134217728, TTLCheckIntervalSeconds |-> 30, EvictionThresholdRatio |-> 90,
   NgramSize |-> 3, BM25K1 |-> 150, BM25B |-> 75, DimK |-> 64, DefaultRRFK |-> 6000,
   URL |-> 1, TimeoutSeconds |-> 5, WorkerPoolSize |-> 4, ChannelBufferSize |-> 256,
   SurfaceEnabled |-> TRUE, LexicalEnabled |-> TRUE, TFIDFEnabled |-> TRUE, LSAEnabled |-> TRUE,
   Enabled |-> FALSE, AutoEmbedQueries |-> TRUE]

Setting == DOMAIN DefaultConfig
Flag == {"SurfaceEnabled", "LexicalEnabled", "TFIDFEnabled", "LSAEnabled", "Enabled",
         "AutoEmbedQueries"}
Float == {"EvictionThresholdRatio", "BM25K1", "BM25B", "DefaultRRFK"}
FromEnv == {"GRPCPort", "MetricsPort", "MaxMemoryBytes", "Enabled", "URL", "NgramSize", "DimK",
            "DefaultRRFK"}

\* What the file and the environment may give a setting.
Value(s) ==
  CASE s \in Flag  -> BOOLEAN
    [] s \in Float -> Int \cup {NaN, Infinity}
    [] OTHER       -> Int

ASSUME NoValueAssumption ==
  /\ {Missing, Garbage, NaN, Infinity} \cap (Int \cup BOOLEAN) = {}
  /\ Missing \notin {Garbage, NaN, Infinity} /\ Garbage \notin {NaN, Infinity} /\ NaN # Infinity

-----------------------------------------------------------------------------
(* Load                                                                    *)

\* yaml.Unmarshal into the defaults: what the file does not mention stays.
Unmarshal(file, cfg) == [s \in Setting |-> IF file[s] = Missing THEN cfg[s] ELSE file[s]]

\* No comparison with NaN is true, and infinity is above any number.
TooLow(v) == v \notin {NaN, Infinity} /\ v <= 0
TooHigh(v) == v = Infinity \/ (v # NaN /\ v > 100)
Positive(v) == v = Infinity \/ (v # NaN /\ v > 0)

\* Mutation: zero is accepted.
Negative(s, cfg) ==
  /\ s \notin Flag
  /\ cfg[s] \notin {NaN, Infinity} /\ cfg[s] < 0

Invalid(s, cfg) ==
  /\ s \notin Flag
  /\ \/ TooLow(cfg[s])
     \/ s = "EvictionThresholdRatio" /\ TooHigh(cfg[s])

\* The literals of the fallbacks are those of DefaultConfig.
applyValidationAndFallbacks(cfg) ==
  [s \in Setting |-> IF Invalid(s, cfg) THEN DefaultConfig[s] ELSE cfg[s]]

\* A variable counts when it is set, parses and is positive; a URL is taken as it
\* is, and every text but true and 1 disables the embedder.
Overrides(s, env) ==
  /\ s \in FromEnv /\ env[s] # Missing
  /\ s # "Enabled" => env[s] # Garbage /\ Positive(env[s])

applyEnvOverrides(cfg, env) ==
  [s \in Setting |-> IF ~Overrides(s, env) THEN cfg[s]
                     ELSE IF s = "Enabled" THEN env[s] = TRUE ELSE env[s]]

LoadFails(file) == file \in {Unreadable, Malformed}

Load(file, env) ==
  applyEnvOverrides(
    applyValidationAndFallbacks(
      IF file = NotThere THEN DefaultConfig ELSE Unmarshal(file, DefaultConfig)), env)

-----------------------------------------------------------------------------
(* The constructors, each with fallbacks of its own                        *)

NewBM25IndexWithParams(k1, b) == <<IF TooLow(k1) THEN 150 ELSE k1, IF TooLow(b) THEN 75 ELSE b>>
NewNgramIndex(n) == IF n <= 0 THEN 3 ELSE n
NewLSAIndexWithDim(dimK) == IF dimK <= 0 THEN 64 ELSE dimK
ServerRRFK(k) == IF TooLow(k) THEN 6000 ELSE k

\* time.Duration(seconds) * time.Second, which wraps around.
Wrap(n) == ((n + Half) % (2 * Half)) - Half
Duration(seconds) == Wrap(seconds * Second)

\* time.NewTicker panics unless its period is positive.
NewEnginePanics(cfg) == Duration(cfg.TTLCheckIntervalSeconds) <= 0

\* make panics, or memory runs out.
BufferSize(cfg) == IF cfg.ChannelBufferSize <= 0 THEN 256 ELSE cfg.ChannelBufferSize
NewClientPanics(cfg) == BufferSize(cfg) > MaxBuffer

\* The timeout of the HTTP client, and that of every request in Embed, which goes
\* by the setting and not by what the constructor made of it.
ClientTimeout(cfg) == Duration(IF cfg.TimeoutSeconds <= 0 THEN 5 ELSE cfg.TimeoutSeconds)
RequestTimeout(cfg) ==
  IF Duration(cfg.TimeoutSeconds) <= 0 THEN 5 * Second ELSE Duration(cfg.TimeoutSeconds)

NewClientWithCallback(cfg) ==
  [buffer |-> BufferSize(cfg), workers |-> cfg.WorkerPoolSize, url |-> cfg.URL,
   clientTimeout |-> ClientTimeout(cfg), requestTimeout |-> RequestTimeout(cfg)]
=============================================================================
