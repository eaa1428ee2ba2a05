---------------------------- MODULE ServerProofs ----------------------------
(***************************************************************************)
(* Proofs about the server, for every file and environment, every scoring  *)
(* of the keys and every sequence of requests.                             *)
(***************************************************************************)
EXTENDS Server, DataLemmas

-----------------------------------------------------------------------------
(* The configuration                                                       *)

LEMMA SettingsFacts ==
  /\ Setting = {"GRPCPort", "MetricsPort", "MaxMemoryBytes", "TTLCheckIntervalSeconds",
                "EvictionThresholdRatio", "NgramSize", "BM25K1", "BM25B", "DimK", "DefaultRRFK",
                "URL", "TimeoutSeconds", "WorkerPoolSize", "ChannelBufferSize", "SurfaceEnabled",
                "LexicalEnabled", "TFIDFEnabled", "LSAEnabled", "Enabled", "AutoEmbedQueries"}
  /\ Flag \subseteq Setting /\ Float \subseteq Setting /\ FromEnv \subseteq Setting
  /\ Flag \cap Float = {} /\ FromEnv \cap Flag = {"Enabled"}
<1>1. Setting = {"GRPCPort", "MetricsPort", "MaxMemoryBytes", "TTLCheckIntervalSeconds",
                "EvictionThresholdRatio", "NgramSize", "BM25K1", "BM25B", "DimK", "DefaultRRFK",
                "URL", "TimeoutSeconds", "WorkerPoolSize", "ChannelBufferSize", "SurfaceEnabled",
                "LexicalEnabled", "TFIDFEnabled", "LSAEnabled", "Enabled", "AutoEmbedQueries"}
  BY DEF Setting, DefaultConfig
<1>2. Flag \subseteq Setting /\ Float \subseteq Setting /\ FromEnv \subseteq Setting
  BY <1>1 DEF Flag, Float, FromEnv
<1>3. Flag \cap Float = {} /\ FromEnv \cap Flag = {"Enabled"}
  BY DEF Flag, Float, FromEnv
<1> QED
  BY <1>1, <1>2, <1>3

\* The values a valid setting has.
Valid(s) ==
  CASE s \in Flag -> BOOLEAN
    [] s \in Float -> (Nat \ {0}) \cup {NaN, Infinity}
    [] OTHER -> Nat \ {0}

LEMMA ValidValues ==
  ASSUME NEW s
  PROVE  /\ s \in Flag => Value(s) = BOOLEAN /\ Valid(s) = BOOLEAN
         /\ s \in Float => Value(s) = Int \cup {NaN, Infinity} /\ Valid(s) = (Nat \ {0}) \cup {NaN, Infinity}
         /\ s \notin Flag \cup Float => Value(s) = Int /\ Valid(s) = Nat \ {0}
<1>1. CASE s \in Flag
  <2>1. s \notin Float
    BY <1>1, SettingsFacts
  <2>2. Value(s) = BOOLEAN
    BY <1>1, <2>1 DEF Value
  <2>3. Valid(s) = BOOLEAN
    BY <1>1, <2>1 DEF Valid
  <2> QED
    BY <1>1, <2>1, <2>2, <2>3
<1>2. CASE s \in Float
  <2>1. s \notin Flag
    BY <1>2, SettingsFacts
  <2>2. Value(s) = Int \cup {NaN, Infinity}
    BY <1>2, <2>1 DEF Value
  <2>3. Valid(s) = (Nat \ {0}) \cup {NaN, Infinity}
    BY <1>2, <2>1 DEF Valid
  <2> QED
    BY <1>2, <2>1, <2>2, <2>3
<1>3. CASE s \notin Flag \cup Float
  <2>1. Value(s) = Int
    BY <1>3 DEF Value
  <2>2. Valid(s) = Nat \ {0}
    BY <1>3 DEF Valid
  <2> QED
    BY <1>3, <2>1, <2>2
<1> QED
  BY <1>1, <1>2, <1>3

LEMMA DefaultsValid ==
  /\ \A s \in Flag : DefaultConfig[s] = TRUE \/ DefaultConfig[s] = FALSE
  /\ \A s \in Setting \ Flag : DefaultConfig[s] \in Nat \ {0}
  /\ DefaultConfig["EvictionThresholdRatio"] = 90
<1>1. \A s \in Flag : DefaultConfig[s] = TRUE \/ DefaultConfig[s] = FALSE
  BY DEF Flag, DefaultConfig
<1>2. \A s \in Setting \ Flag : DefaultConfig[s] \in Nat \ {0}
  BY SettingsFacts DEF Flag, DefaultConfig
<1>3. DefaultConfig["EvictionThresholdRatio"] = 90
  BY DEF DefaultConfig
<1> QED
  BY <1>1, <1>2, <1>3

LEMMA NoValues ==
  /\ Missing \notin Int /\ Garbage \notin Int /\ NaN \notin Int /\ Infinity \notin Int
  /\ Missing \notin BOOLEAN /\ Garbage \notin BOOLEAN /\ NaN \notin BOOLEAN /\ Infinity \notin BOOLEAN
  /\ Missing # Garbage /\ Missing # NaN /\ Garbage # NaN
  /\ Missing # Infinity /\ Garbage # Infinity /\ NaN # Infinity
  BY NoValueAssumption

\* What the file leaves of the defaults, after the fallbacks.
FromFile(s) == IF ByFile(s) THEN file[s] ELSE DefaultConfig[s]

LEMMA FileFlags ==
  ASSUME NEW s \in Flag, file # NotThere /\ file[s] # Missing => file[s] \in BOOLEAN
  PROVE  /\ FromFile(s) \in BOOLEAN
         /\ FromFile(s) = IF file # NotThere /\ file[s] # Missing THEN file[s] ELSE DefaultConfig[s]
<1>1. s # "EvictionThresholdRatio"
  BY DEF Flag
<1>2. FromFile(s) = IF file # NotThere /\ file[s] # Missing THEN file[s] ELSE DefaultConfig[s]
  BY <1>1 DEF FromFile, ByFile
<1>3. DefaultConfig[s] \in BOOLEAN
  BY DefaultsValid
<1> QED
  BY <1>2, <1>3

LEMMA FileNumbers ==
  ASSUME NEW s \in Setting \ Flag,
         file # NotThere /\ file[s] # Missing => file[s] \in Int \cup {NaN, Infinity},
         NEW merged, merged[s] = IF file # NotThere /\ file[s] # Missing THEN file[s] ELSE DefaultConfig[s]
  PROVE  /\ FromFile(s) \in (Nat \ {0}) \cup {NaN, Infinity}
         /\ s \notin Float /\ (file # NotThere /\ file[s] # Missing => file[s] \in Int) => FromFile(s) \in Nat \ {0}
         /\ FromFile(s) = IF Invalid(s, merged) THEN DefaultConfig[s] ELSE merged[s]
<1>1. DefaultConfig[s] \in Nat \ {0}
  BY DefaultsValid
<1>2. s = "EvictionThresholdRatio" => DefaultConfig[s] = 90
  BY DefaultsValid
<1>3. Invalid(s, merged) <=> \/ merged[s] \notin {NaN, Infinity} /\ merged[s] <= 0
                             \/ /\ s = "EvictionThresholdRatio"
                                /\ merged[s] = Infinity \/ (merged[s] # NaN /\ merged[s] > 100)
  BY DEF Invalid, TooLow, TooHigh
<1> DEFINE given == file # NotThere /\ file[s] # Missing
<1>4. ByFile(s) <=> /\ given
                    /\ file[s] \in {NaN, Infinity} \/ file[s] > 0
                    /\ s = "EvictionThresholdRatio" =>
                         file[s] # Infinity /\ (file[s] = NaN \/ file[s] <= 100)
  BY DEF ByFile
<1>5. CASE ~given
  <2>1. merged[s] = DefaultConfig[s]
    BY <1>5
  <2>2. FromFile(s) = DefaultConfig[s]
    BY <1>4, <1>5 DEF FromFile
  <2> QED
    BY <1>1, <2>1, <2>2
<1>6. CASE given
  <2>1. merged[s] = file[s] /\ file[s] \in Int \cup {NaN, Infinity}
    BY <1>6
  <2> HIDE DEF given
  <2>2. CASE file[s] = NaN
    <3>1. ByFile(s) /\ ~Invalid(s, merged)
      BY <1>3, <1>4, <1>6, <2>1, <2>2, NoValues
    <3> QED
      BY <1>6, <2>1, <2>2, <3>1, NoValues DEF FromFile, given
  <2>4. CASE file[s] = Infinity
    <3>1. file[s] # NaN /\ file[s] \notin Int
      BY <2>4, NoValues
    <3>2. ByFile(s) <=> s # "EvictionThresholdRatio"
      BY <1>4, <1>6, <2>4
    <3>3. Invalid(s, merged) <=> s = "EvictionThresholdRatio"
      BY <1>3, <2>1, <2>4
    <3> QED
      BY <1>1, <1>6, <2>1, <2>4, <3>1, <3>2, <3>3 DEF FromFile, given
  <2>3. CASE file[s] \in Int
    <3>1. file[s] # NaN /\ file[s] # Infinity
      BY <2>3, NoValues
    <3>2. ByFile(s) <=> ~Invalid(s, merged)
      BY <1>3, <1>4, <1>6, <2>1, <2>3, <3>1
    <3>3. ByFile(s) => file[s] \in Nat \ {0}
      BY <1>4, <2>3, <3>1
    <3> QED
      BY <1>1, <2>1, <3>2, <3>3 DEF FromFile
  <2> QED
    BY <2>1, <2>2, <2>3, <2>4
<1> QED
  BY <1>5, <1>6

\* Of a configuration that was loaded, every setting is valid and the one written.
LEMMA LoadedAsWritten ==
  ASSUME file \in File, env \in Env, ~LoadFails(file), NEW s \in Setting
  PROVE  Load(file, env)[s] = Written(s) /\ Written(s) \in Valid(s)
<1> DEFINE merged == IF file = NotThere THEN DefaultConfig ELSE Unmarshal(file, DefaultConfig)
           valid == applyValidationAndFallbacks(merged)
<1>1. file # NotThere /\ file[s] # Missing => file[s] \in Value(s)
  BY FileAssumption DEF LoadFails
<1>2. merged[s] = IF file # NotThere /\ file[s] # Missing THEN file[s] ELSE DefaultConfig[s]
  BY DEF Unmarshal
<1>3. valid[s] = IF Invalid(s, merged) THEN DefaultConfig[s] ELSE merged[s]
  BY DEF applyValidationAndFallbacks
<1>4. Load(file, env)[s] = IF ~Overrides(s, env) THEN valid[s]
                           ELSE IF s = "Enabled" THEN env[s] = TRUE ELSE env[s]
  BY DEF Load, applyEnvOverrides
<1> HIDE DEF merged, valid
<1>5. valid[s] = FromFile(s) /\ FromFile(s) \in Valid(s)
  <2>1. CASE s \in Flag
    <3>1. ~Invalid(s, merged)
      BY <2>1 DEF Invalid
    <3>2. file # NotThere /\ file[s] # Missing => file[s] \in BOOLEAN
      BY <1>1, <2>1, ValidValues
    <3>3. Valid(s) = BOOLEAN
      BY <2>1, ValidValues
    <3> QED
      BY <1>2, <1>3, <2>1, <3>1, <3>2, <3>3, FileFlags
  <2>2. CASE s \in Float
    <3>1. s \in Setting \ Flag
      BY <2>2, SettingsFacts
    <3>2. file # NotThere /\ file[s] # Missing => file[s] \in Int \cup {NaN, Infinity}
      BY <1>1, <2>2, ValidValues
    <3>3. Valid(s) = (Nat \ {0}) \cup {NaN, Infinity}
      BY <2>2, ValidValues
    <3> QED
      BY <1>2, <1>3, <3>1, <3>2, <3>3, FileNumbers
  <2>3. CASE s \notin Flag \cup Float
    <3>1. s \in Setting \ Flag
      BY <2>3
    <3>2. file # NotThere /\ file[s] # Missing => file[s] \in Int
      BY <1>1, <2>3, ValidValues
    <3>3. Valid(s) = Nat \ {0}
      BY <2>3, ValidValues
    <3>4. FromFile(s) = IF Invalid(s, merged) THEN DefaultConfig[s] ELSE merged[s]
      BY <1>2, <3>1, <3>2, FileNumbers
    <3>5. FromFile(s) \in Nat \ {0}
      BY <1>2, <2>3, <3>1, <3>2, FileNumbers
    <3> QED
      BY <1>3, <3>3, <3>4, <3>5
  <2> QED
    BY <2>1, <2>2, <2>3
<1>6. s \in FromEnv => env[s] \in {Missing, Garbage} \cup Value(s)
  BY EnvAssumption
<1>7. ~(s = "Enabled" /\ env[s] = Garbage) /\ ~ByEnv(s) => Written(s) = FromFile(s)
  BY DEF Written, FromFile
<1>8. CASE s = "Enabled"
  <2>1. s \in FromEnv /\ s \in Flag
    BY <1>8 DEF FromEnv, Flag
  <2>2. Value(s) = BOOLEAN /\ Valid(s) = BOOLEAN
    BY <2>1, ValidValues
  <2>3. env[s] \in {Missing, Garbage} \cup BOOLEAN
    BY <1>6, <2>1, <2>2
  <2>4. CASE env[s] = Missing
    <3>1. Written(s) = FromFile(s)
      BY <1>7, <2>4, NoValues DEF ByEnv
    <3>2. ~Overrides(s, env)
      BY <2>4 DEF Overrides
    <3>3. Load(file, env)[s] = valid[s]
      BY <1>4, <3>2
    <3> QED
      BY <1>5, <3>1, <3>3
  <2>5. CASE env[s] = Garbage
    <3>1. Written(s) = FALSE
      BY <1>8, <2>5 DEF Written
    <3>2. Overrides(s, env)
      BY <1>8, <2>1, <2>5, NoValues DEF Overrides
    <3>3. env[s] # TRUE
      BY <2>5, NoValues
    <3>4. Load(file, env)[s] = (env[s] = TRUE)
      BY <1>4, <1>8, <3>2
    <3> QED
      BY <2>2, <3>1, <3>3, <3>4
  <2>6. CASE env[s] \in BOOLEAN
    <3>1. env[s] # Missing /\ env[s] # Garbage /\ env[s] # NaN
      BY <2>6, NoValues
    <3>2. ByEnv(s)
      BY <2>1, <3>1 DEF ByEnv
    <3>3. Written(s) = env[s]
      BY <3>1, <3>2 DEF Written
    <3>4. Overrides(s, env)
      BY <1>8, <2>1, <3>1 DEF Overrides
    <3>5. Load(file, env)[s] = (env[s] = TRUE)
      BY <1>4, <1>8, <3>4
    <3>6. (env[s] = TRUE) = env[s]
      BY <2>6
    <3> QED
      BY <2>2, <2>6, <3>3, <3>5, <3>6
  <2> QED
    BY <2>3, <2>4, <2>5, <2>6
<1>9. CASE s # "Enabled" /\ Overrides(s, env)
  <2>1. /\ s \in FromEnv /\ env[s] \notin {Missing, Garbage, NaN}
        /\ env[s] = Infinity \/ env[s] > 0
    BY <1>9, NoValues DEF Overrides, Positive
  <2>2. s \notin Flag
    BY <1>9, <2>1, SettingsFacts
  <2>3. ByEnv(s)
    BY <2>1 DEF ByEnv
  <2>4. Written(s) = env[s]
    BY <1>9, <2>3 DEF Written
  <2>5. /\ Value(s) \subseteq Int \cup {NaN, Infinity} /\ Nat \ {0} \subseteq Valid(s)
        /\ Infinity \in Value(s) => Infinity \in Valid(s)
    <3>1. CASE s \in Float
      BY <3>1, ValidValues
    <3>2. CASE s \notin Float
      BY <2>2, <3>2, ValidValues, NoValues
    <3> QED
      BY <3>1, <3>2
  <2>6. env[s] \in Int \/ env[s] = Infinity
    BY <1>6, <2>1, <2>5
  <2>7. env[s] \in Valid(s)
    <3>1. CASE env[s] = Infinity
      BY <1>6, <2>1, <2>5, <3>1
    <3>2. CASE env[s] # Infinity
      BY <2>1, <2>5, <2>6, <3>2
    <3> QED
      BY <3>1, <3>2
  <2>8. Load(file, env)[s] = env[s]
    BY <1>4, <1>9
  <2> QED
    BY <2>4, <2>7, <2>8
<1>10. CASE s # "Enabled" /\ ~Overrides(s, env)
  <2>1. ~ByEnv(s)
    <3>1. ByEnv(s) => s \notin Flag
      BY <1>10, SettingsFacts DEF ByEnv
    <3> QED
      BY <1>10, <3>1 DEF Overrides, ByEnv, Positive
  <2>2. Written(s) = FromFile(s)
    BY <1>7, <1>10, <2>1
  <2>3. Load(file, env)[s] = valid[s]
    BY <1>4, <1>10
  <2> QED
    BY <1>5, <2>2, <2>3
<1> QED
  BY <1>8, <1>9, <1>10

-----------------------------------------------------------------------------
(* Which streams a hybrid search uses                                      *)

LEMMA StreamFacts ==
  /\ Stream = {"surface", "bm25", "tfidf", "lsa", "dense"}
  /\ TextStream = {"surface", "bm25", "tfidf", "lsa"}
  /\ Streams \in Seq(Strategy) /\ DOMAIN Streams = 1..5
  /\ \A n \in DOMAIN Streams : Streams[n] \in Stream
  /\ \A s \in Stream : \E n \in DOMAIN Streams : Streams[n] = s
<1>1. Stream = {"surface", "bm25", "tfidf", "lsa", "dense"}
  BY DEF Stream, Streams, ToSet
<1>2. DOMAIN Streams = 1..5
  BY DEF Streams
<1>3. Streams \in Seq(Strategy)
  BY <1>1 DEF Streams, Strategy
<1>4. (\A n \in DOMAIN Streams : Streams[n] \in Stream)
        /\ (\A s \in Stream : \E n \in DOMAIN Streams : Streams[n] = s)
  BY DEF Stream, ToSet
<1> QED
  BY <1>1, <1>2, <1>3, <1>4 DEF TextStream

\* The streams a strategy stands for.
StandsFor(strategy, query, vec) ==
  IF strategy = "UNSPECIFIED" THEN AutoDetected(query, vec)
  ELSE IF strategy = "dense" \/ query THEN {strategy} ELSE {}

LEMMA StandsForStreams ==
  ASSUME NEW query \in BOOLEAN, NEW vec \in BOOLEAN, NEW s
  PROVE  /\ AutoDetected(query, vec) \subseteq Stream
         /\ s \in Strategy => StandsFor(s, query, vec) \subseteq Stream
         /\ ~query => AutoDetected(query, vec) \subseteq {"dense"}
         /\ ~query => StandsFor(s, query, vec) \subseteq {"dense"}
<1>1. AutoDetected(query, vec) \subseteq Stream
  BY StreamFacts DEF AutoDetected
<1>2. ~query => AutoDetected(query, vec) \subseteq {"dense"}
  BY DEF AutoDetected
<1> QED
  BY <1>1, <1>2, StreamFacts DEF StandsFor, Strategy

\* One turn of the loop adds what the strategy stands for, and takes nothing away
\* that was added.
LEMMA OneTurn ==
  ASSUME NEW query \in BOOLEAN, NEW vec \in BOOLEAN, NEW s \in Strategy, NEW use,
         ~query => use \subseteq {"dense"}
  PROVE  OneMore(use, s, query, vec) = use \cup StandsFor(s, query, vec)
<1>1. CASE s \in TextStream
  <2>1. s # "dense" /\ s # "UNSPECIFIED"
    BY <1>1, StreamFacts
  <2>2. OneMore(use, s, query, vec) = IF query THEN use \cup {s} ELSE use \ {s}
    BY <1>1, <2>1 DEF OneMore
  <2>3. StandsFor(s, query, vec) = IF query THEN {s} ELSE {}
    BY <2>1 DEF StandsFor
  <2> QED
    BY <2>1, <2>2, <2>3
<1>2. CASE s = "dense"
  <2>1. s \notin TextStream /\ s # "UNSPECIFIED"
    BY <1>2, StreamFacts
  <2>2. OneMore(use, s, query, vec) = use \cup {"dense"}
    BY <1>2, <2>1 DEF OneMore
  <2>3. StandsFor(s, query, vec) = {"dense"}
    BY <1>2, <2>1 DEF StandsFor
  <2> QED
    BY <2>2, <2>3
<1>3. CASE s = "UNSPECIFIED"
  <2>1. s \notin TextStream /\ s # "dense"
    BY <1>3, StreamFacts
  <2>2. OneMore(use, s, query, vec) = use \cup AutoDetected(query, vec)
    BY <2>1 DEF OneMore
  <2> QED
    BY <1>3, <2>2 DEF StandsFor
<1> QED
  BY <1>1, <1>2, <1>3, StreamFacts DEF Strategy

\* Whatever the strategies are, their number and their order.
LEMMA SelectsAsAsked ==
  ASSUME NEW strategies \in Seq(Strategy), strategies # <<>>,
         NEW query \in BOOLEAN, NEW vec \in BOOLEAN
  PROVE  Selected(strategies, query, vec)
           = UNION {StandsFor(strategies[n], query, vec) : n \in DOMAIN strategies}
<1> DEFINE D == DOMAIN strategies
           stands(n) == StandsFor(strategies[n], query, vec)
           asked(s) == UNION {stands(n) : n \in s}
           iter[s \in SUBSET D] ==
             IF s = {} THEN {}
             ELSE LET x == Max(s) IN OneMore(iter[s \ {x}], strategies[x], query, vec)
           body(i) == [s \in SUBSET D |->
             IF s = {} THEN {}
             ELSE LET x == Max(s) IN OneMore(i[s \ {x}], strategies[x], query, vec)]
<1>1. Selected(strategies, query, vec) = iter[D]
  BY DEF Selected, FoldLeft, MapThenFoldSet
<1>2. D = 1..Len(strategies) /\ Len(strategies) \in Nat
  OBVIOUS
<1>3. IsFiniteSet(D) /\ D \subseteq Int /\ \A n \in D : strategies[n] \in Strategy
  BY <1>2, FS_Interval
<1>4. ASSUME NEW s \in SUBSET D, s # {}
      PROVE  /\ Max(s) \in s
             /\ OneMore(asked(s \ {Max(s)}), strategies[Max(s)], query, vec) = asked(s)
  <2>1. Max(s) \in s
    <3>1. IsFiniteSet(s) /\ s \subseteq Int
      BY <1>3, FS_Subset
    <3> QED
      BY <1>4, <3>1, MaxIn
  <2> DEFINE x == Max(s)  rest == s \ {x}
  <2>2. x \in s /\ x \in D /\ strategies[x] \in Strategy
    BY <1>3, <2>1
  <2>3. ~query => asked(rest) \subseteq {"dense"}
    BY StandsForStreams
  <2>4. s = rest \cup {x}
    BY <2>2
  <2> HIDE DEF x, rest
  <2>5. asked(s) = asked(rest) \cup stands(x)
    <3> HIDE DEF stands
    <3> QED
      BY <2>4
  <2> HIDE DEF asked
  <2>6. OneMore(asked(rest), strategies[x], query, vec) = asked(rest) \cup stands(x)
    BY <2>2, <2>3, OneTurn
  <2> QED
    BY <2>1, <2>5, <2>6 DEF x, rest
<1> HIDE DEF D
<1>5. iter = body(iter)
  <2> SUFFICES \E i : i = body(i)
    OBVIOUS
  <2> DEFINE h == [s \in SUBSET D |-> asked(s)]
  <2>1. ASSUME NEW s \in SUBSET D PROVE h[s] = body(h)[s]
    <3>1. CASE s = {}
      BY <3>1
    <3>2. CASE s # {}
      <4> HIDE DEF asked
      <4>1. s \ {Max(s)} \in SUBSET D
        OBVIOUS
      <4> QED
        BY <1>4, <3>2, <4>1
    <3> QED
      BY <3>1, <3>2
  <2>2. h = body(h)
    BY <2>1
  <2> QED
    BY <2>2, Zenon
<1> HIDE DEF iter
<1> DEFINE same == {s \in SUBSET D : iter[s] = asked(s)}
<1>6. ASSUME NEW s \in SUBSET D, \A u \in SUBSET s : u # s => u \in same
      PROVE  s \in same
  <2>1. CASE s = {}
    BY <1>5, <2>1
  <2>2. CASE s # {}
    <3> HIDE DEF asked
    <3>1. s \ {Max(s)} \in same
      BY <1>4, <1>6, <2>2
    <3>2. iter[s] = OneMore(iter[s \ {Max(s)}], strategies[Max(s)], query, vec)
      BY <1>5, <2>2
    <3> QED
      BY <1>4, <2>2, <3>1, <3>2
  <2> QED
    BY <2>1, <2>2
<1> HIDE DEF same
<1>7. SUBSET D \subseteq same
  BY <1>3, <1>6, SubsetInduction
<1> QED
  BY <1>1, <1>7 DEF same, D

LEMMA StrategyListsTyped == StrategyLists \subseteq Seq(Strategy)
<1> SUFFICES ASSUME NEW list \in StrategyLists PROVE list \in Seq(Strategy)
  OBVIOUS
<1>1. CASE list \in {<<>>, Streams}
  <2>1. <<>> \in Seq(Strategy)
    OBVIOUS
  <2>2. Streams \in Seq(Strategy)
    BY StreamFacts
  <2> QED
    BY <1>1, <2>1, <2>2
<1>2. CASE list \in {<<s>> : s \in Strategy}
  <2>1. PICK s \in Strategy : list = <<s>>
    BY <1>2
  <2>2. <<s>> \in Seq(Strategy)
    OBVIOUS
  <2> QED
    BY <2>1, <2>2
<1>3. CASE list \in {<<s, t>> : s, t \in Strategy}
  <2>1. PICK s \in Strategy, t \in Strategy : list = <<s, t>>
    BY <1>3
  <2>2. <<s, t>> \in Seq(Strategy)
    OBVIOUS
  <2> QED
    BY <2>1, <2>2
<1> QED
  BY <1>1, <1>2, <1>3 DEF StrategyLists

-----------------------------------------------------------------------------
(* Rank fusion                                                             *)

\* A share is positive and the less the lower the rank is.
LEMMA Shares ==
  ASSUME NEW k \in Nat \ {0}, NEW longest \in Nat
  PROVE  /\ \A m \in 1..longest : Share(k, m, longest) \in Nat \ {0}
         /\ \A m, n \in 1..longest : m < n => Share(k, n, longest) < Share(k, m, longest)
<1> DEFINE S == {k + 100 * r : r \in 1..longest}
           share(m) == Share(k, m, longest)
<1>1. S \subseteq Nat \ {0}
  OBVIOUS
<1>2. IsFiniteSet(S)
  <2>1. S \subseteq (k + 100)..(k + 100 * longest)
    OBVIOUS
  <2>2. IsFiniteSet((k + 100)..(k + 100 * longest))
    BY FS_Interval
  <2> QED
    BY <2>1, <2>2, FS_Subset
<1>3. ASSUME NEW m \in 1..longest
      PROVE  share(m) \in Nat \ {0} /\ ProductSet(S) = (k + 100 * m) * share(m)
  <2>1. S \ {k + 100 * m} = {k + 100 * r : r \in (1..longest) \ {m}}
    OBVIOUS
  <2>2. share(m) = ProductSet(S \ {k + 100 * m})
    BY <2>1 DEF Share
  <2> DEFINE x == k + 100 * m
             P == ProductSet(S)
  <2>3. x \in S /\ S \ {x} \in SUBSET S /\ S \in SUBSET S /\ share(m) = ProductSet(S \ {x})
    BY <2>2
  <2> HIDE DEF S, share, x
  <2>4. share(m) \in Nat \ {0} /\ P = x * share(m)
    BY <1>1, <1>2, <2>3, ProductFacts
  <2> QED
    BY <2>4 DEF x
<1> HIDE DEF S
<1>4. ASSUME NEW m \in 1..longest, NEW n \in 1..longest, m < n
      PROVE  share(n) < share(m)
  <2> DEFINE a == share(m)  b == share(n)
  <2>1. a \in Nat \ {0} /\ b \in Nat \ {0} /\ (k + 100 * m) * a = (k + 100 * n) * b
    BY <1>3
  <2> HIDE DEF a, b
  <2>2. SUFFICES ASSUME a <= b PROVE FALSE
    BY <2>1 DEF a, b
  <2>3. (k + 100 * m) * a <= (k + 100 * m) * b
    <3>1. a * (k + 100 * m) <= b * (k + 100 * m)
      BY <2>1, <2>2, Times
    <3> QED
      BY <2>1, <3>1
  <2>4. (k + 100 * m) * b < (k + 100 * n) * b
    BY <1>4, <2>1, Times
  <2> QED
    BY <2>1, <2>3, <2>4
<1> QED
  BY <1>3, <1>4

\* Where a key is in the lists.
PlacesOf(lists, key, longest) ==
  {p \in (DOMAIN lists) \X (1..longest) :
     p[2] \in DOMAIN lists[p[1]] /\ lists[p[1]][p[2]] = key}

\* What a key has from the lists whose numbers are in I.
Part(lists, key, k, longest, I) ==
  SumFunctionOnSet([p \in (DOMAIN lists) \X (1..longest) |-> Share(k, p[2], longest)],
                   {p \in PlacesOf(lists, key, longest) : p[1] \in I})

\* The lists that a search fuses: no key is twice in one.
AreLists(lists, K) ==
  /\ lists \in Seq(Seq(K))
  /\ \A i \in DOMAIN lists : IsInjective(lists[i])

LEMMA ListsLength ==
  ASSUME NEW K, NEW lists, AreLists(lists, K)
  PROVE  LET longest == Max({0} \cup {Len(lists[i]) : i \in DOMAIN lists})
         IN  /\ longest \in Nat
             /\ \A i \in DOMAIN lists : DOMAIN lists[i] \subseteq 1..longest
             /\ IsFiniteSet(DOMAIN lists)
<1> DEFINE S == {0} \cup {Len(lists[i]) : i \in DOMAIN lists}
<1>1. DOMAIN lists = 1..Len(lists) /\ Len(lists) \in Nat
  BY DEF AreLists
<1>2. IsFiniteSet(DOMAIN lists)
  BY <1>1, FS_Interval
<1>3. ASSUME NEW i \in DOMAIN lists
      PROVE  Len(lists[i]) \in Nat /\ DOMAIN lists[i] = 1..Len(lists[i])
  BY <1>1 DEF AreLists
<1>4. IsFiniteSet(S)
  <2>1. IsFiniteSet({Len(lists[i]) : i \in DOMAIN lists})
    <3> DEFINE f == [i \in DOMAIN lists |-> Len(lists[i])]
               R == {Len(lists[i]) : i \in DOMAIN lists}
    <3>1. f \in Surjection(DOMAIN lists, R)
      BY DEF Surjection
    <3> QED
      BY <1>2, <3>1, FS_Surjection
  <2> QED
    BY <2>1, FS_Singleton, FS_Union
<1>5. S \subseteq Nat /\ S # {}
  BY <1>3
<1> DEFINE longest == Max(S)
<1>6. longest \in Nat /\ \A n \in S : n <= longest
  <2>1. S \subseteq Int
    BY <1>5
  <2> HIDE DEF S
  <2> QED
    BY <1>4, <1>5, <2>1, MaxIn
<1>7. \A i \in DOMAIN lists : Len(lists[i]) <= longest
  BY <1>6
<1> HIDE DEF S, longest
<1>8. \A i \in DOMAIN lists : DOMAIN lists[i] \subseteq 1..longest
  BY <1>3, <1>6, <1>7
<1> QED
  BY <1>2, <1>6, <1>8 DEF S, longest

LEMMA ShareTable ==
  ASSUME NEW I, IsFiniteSet(I), NEW k \in Nat \ {0}, NEW longest \in Nat
  PROVE  LET P == I \X (1..longest)
             f == [p \in P |-> Share(k, p[2], longest)]
         IN  IsFiniteSet(P) /\ f \in [P -> Nat] /\ f \in [P -> Int]
<1> DEFINE P == I \X (1..longest)
<1>1. IsFiniteSet(1..longest)
  BY FS_Interval
<1>2. IsFiniteSet(P)
  BY <1>1, FS_Product
<1>3. \A p \in P : Share(k, p[2], longest) \in Nat /\ Share(k, p[2], longest) \in Int
  <2>1. \A m \in 1..longest : Share(k, m, longest) \in Nat \ {0}
    BY Shares
  <2>2. \A p \in P : p[2] \in 1..longest
    OBVIOUS
  <2> HIDE DEF P
  <2> QED
    BY <2>1, <2>2
<1> HIDE DEF P
<1>4. /\ [p \in P |-> Share(k, p[2], longest)] \in [P -> Nat]
      /\ [p \in P |-> Share(k, p[2], longest)] \in [P -> Int]
  BY <1>3
<1> QED
  BY <1>2, <1>4 DEF P

\* One more list adds the share of the key's place in it.
LEMMA PartSplit ==
  ASSUME NEW K, NEW lists, AreLists(lists, K), NEW k \in Nat \ {0}, NEW longest \in Nat,
         IsFiniteSet(DOMAIN lists), \A i \in DOMAIN lists : DOMAIN lists[i] \subseteq 1..longest,
         NEW key, NEW I \in SUBSET (DOMAIN lists)
  PROVE  /\ Part(lists, key, k, longest, I) \in Nat
         /\ \A i \in I :
              /\ key \notin KeysOf(lists[i]) =>
                   Part(lists, key, k, longest, I) = Part(lists, key, k, longest, I \ {i})
              /\ \A n \in DOMAIN lists[i] : lists[i][n] = key =>
                   Part(lists, key, k, longest, I)
                     = Share(k, n, longest) + Part(lists, key, k, longest, I \ {i})
<1> DEFINE P == (DOMAIN lists) \X (1..longest)
           f == [p \in P |-> Share(k, p[2], longest)]
           places(J) == {p \in PlacesOf(lists, key, longest) : p[1] \in J}
<1>1. IsFiniteSet(P)
  BY ShareTable
<1>2. f \in [P -> Nat] /\ f \in [P -> Int]
  BY ShareTable
<1>3. \A J : places(J) \in SUBSET P
  BY DEF PlacesOf
<1>4. \A J : Part(lists, key, k, longest, J) = SumFunctionOnSet(f, places(J))
  BY DEF Part
<1>5. ASSUME NEW i \in I, key \notin KeysOf(lists[i])
      PROVE  places(I) = places(I \ {i})
  BY <1>5 DEF PlacesOf, KeysOf
<1>6. ASSUME NEW i \in I, NEW n \in DOMAIN lists[i], lists[i][n] = key
      PROVE  /\ <<i, n>> \in places(I) /\ <<i, n>> \in P
             /\ places(I) \ {<<i, n>>} = places(I \ {i})
  <2>1. <<i, n>> \in P
    OBVIOUS
  <2>2. <<i, n>> \in places(I)
    BY <1>6, <2>1 DEF PlacesOf
  <2>3. ASSUME NEW p \in places(I), p[1] = i
        PROVE  p = <<i, n>>
    <3>1. p[2] \in DOMAIN lists[i] /\ lists[i][p[2]] = key
      BY <2>3 DEF PlacesOf
    <3>2. IsInjective(lists[i])
      BY DEF AreLists
    <3>3. p[2] = n
      BY <1>6, <3>1, <3>2 DEF IsInjective
    <3> QED
      BY <2>3, <3>3 DEF PlacesOf
  <2>4. \A p \in places(I) : p \in places(I \ {i}) <=> p[1] # i
    OBVIOUS
  <2>5. places(I \ {i}) \subseteq places(I)
    OBVIOUS
  <2>6. <<i, n>>[1] = i
    OBVIOUS
  <2> HIDE DEF places, P
  <2> QED
    BY <2>1, <2>2, <2>3, <2>4, <2>5, <2>6
<1> HIDE DEF P, f, places
<1>7. Part(lists, key, k, longest, I) \in Nat
  BY <1>1, <1>2, <1>3, <1>4, SumOfNaturals
<1>8. ASSUME NEW i \in I, key \notin KeysOf(lists[i])
      PROVE  Part(lists, key, k, longest, I) = Part(lists, key, k, longest, I \ {i})
  BY <1>4, <1>5, <1>8
<1>9. ASSUME NEW i \in I, NEW n \in DOMAIN lists[i], lists[i][n] = key
      PROVE  Part(lists, key, k, longest, I)
               = Share(k, n, longest) + Part(lists, key, k, longest, I \ {i})
  <2> DEFINE p == <<i, n>>
  <2>1. p \in places(I) /\ places(I) \ {p} = places(I \ {i})
    BY <1>6, <1>9
  <2>2. f[p] = Share(k, n, longest)
    BY <1>6, <1>9 DEF f
  <2> HIDE DEF p
  <2>3. SumFunctionOnSet(f, places(I)) = f[p] + SumFunctionOnSet(f, places(I) \ {p})
    BY <1>1, <1>2, <1>3, <2>1, SumFacts
  <2> QED
    BY <1>4, <2>1, <2>2, <2>3
<1> QED
  BY <1>7, <1>8, <1>9

\* Who is ahead in every list has more.
LEMMA MoreAhead ==
  ASSUME NEW K, NEW lists, AreLists(lists, K), NEW k \in Nat \ {0}, NEW longest \in Nat,
         IsFiniteSet(DOMAIN lists), \A i \in DOMAIN lists : DOMAIN lists[i] \subseteq 1..longest,
         NEW j, NEW l,
         \A i \in DOMAIN lists : l \in KeysOf(lists[i]) => Ahead(lists[i], j, l)
  PROVE  \A I \in SUBSET (DOMAIN lists) :
           /\ Part(lists, l, k, longest, I) <= Part(lists, j, k, longest, I)
           /\ (\E i \in I : l \in KeysOf(lists[i])) =>
                Part(lists, l, k, longest, I) < Part(lists, j, k, longest, I)
<1> DEFINE part(key, I) == Part(lists, key, k, longest, I)
           listed(I) == \E i \in I : l \in KeysOf(lists[i])
           good == {I \in SUBSET (DOMAIN lists) : /\ part(l, I) <= part(j, I)
                                                  /\ listed(I) => part(l, I) < part(j, I)}
<1>1. {} \in good
  <2>1. \A key : part(key, {}) = 0
    <3> SUFFICES ASSUME NEW key PROVE part(key, {}) = 0
      OBVIOUS
    <3> DEFINE P == (DOMAIN lists) \X (1..longest)
               f == [p \in P |-> Share(k, p[2], longest)]
    <3>1. IsFiniteSet(P) /\ f \in [P -> Int]
      BY ShareTable
    <3>2. part(key, {}) = SumFunctionOnSet(f, {})
      <4>1. {p \in PlacesOf(lists, key, longest) : p[1] \in {}} = {}
        OBVIOUS
      <4> QED
        BY <4>1 DEF Part
    <3> HIDE DEF f, P
    <3> QED
      BY <3>1, <3>2, SumFacts
  <2>2. ~listed({})
    OBVIOUS
  <2> HIDE DEF part, listed
  <2> QED
    BY <2>1, <2>2
<1>2. ASSUME NEW I \in SUBSET (DOMAIN lists), I # {}
      PROVE  \E i \in I : I \ {i} \in good => I \in good
  <2>1. PICK i \in I : TRUE
    BY <1>2
  <2>2. ASSUME I \ {i} \in good PROVE I \in good
    <3> DEFINE R == I \ {i}
    <3>1. /\ part(l, R) \in Nat /\ part(j, R) \in Nat /\ part(l, I) \in Nat /\ part(j, I) \in Nat
      BY PartSplit
    <3>2. part(l, R) <= part(j, R) /\ (listed(R) => part(l, R) < part(j, R))
      BY <2>2
    <3>3. listed(I) <=> listed(R) \/ l \in KeysOf(lists[i])
      OBVIOUS
    <3>4. CASE l \in KeysOf(lists[i])
      <4>1. PICK m \in DOMAIN lists[i], n \in DOMAIN lists[i] :
                 m < n /\ lists[i][m] = j /\ lists[i][n] = l
        BY <3>4 DEF Ahead
      <4>2. part(l, I) = Share(k, n, longest) + part(l, R)
        BY <4>1, PartSplit
      <4>3. part(j, I) = Share(k, m, longest) + part(j, R)
        BY <4>1, PartSplit
      <4>4. /\ Share(k, n, longest) < Share(k, m, longest)
            /\ Share(k, n, longest) \in Nat /\ Share(k, m, longest) \in Nat
        BY <4>1, Shares
      <4> HIDE DEF part, R, listed
      <4>5. part(l, I) < part(j, I)
        BY <3>1, <3>2, <4>2, <4>3, <4>4
      <4> QED
        BY <3>1, <4>5
    <3>5. CASE l \notin KeysOf(lists[i])
      <4>1. part(l, I) = part(l, R)
        BY <3>5, PartSplit
      <4>2. part(j, R) <= part(j, I)
        <5>1. CASE j \notin KeysOf(lists[i])
          <6>1. part(j, I) = part(j, R)
            BY <5>1, PartSplit
          <6> HIDE DEF part, R
          <6> QED
            BY <3>1, <6>1
        <5>2. CASE j \in KeysOf(lists[i])
          <6>1. PICK m \in DOMAIN lists[i] : lists[i][m] = j
            BY <5>2 DEF KeysOf
          <6>2. part(j, I) = Share(k, m, longest) + part(j, R)
            BY <6>1, PartSplit
          <6>3. Share(k, m, longest) \in Nat
            BY Shares
          <6> HIDE DEF part, R
          <6> QED
            BY <3>1, <6>2, <6>3
        <5> QED
          BY <5>1, <5>2
      <4> HIDE DEF part, R, listed
      <4>3. part(l, I) <= part(j, I) /\ (listed(I) => part(l, I) < part(j, I))
        BY <3>1, <3>2, <3>3, <3>5, <4>1, <4>2
      <4> QED
        BY <4>3
    <3> QED
      BY <3>4, <3>5
  <2> QED
    BY <2>1, <2>2
<1> HIDE DEF good
<1>3. SUBSET (DOMAIN lists) \subseteq good
  <2> DEFINE D == DOMAIN lists
  <2>1. /\ IsFiniteSet(D) /\ {} \in good
        /\ \A I \in SUBSET D : I # {} => \E i \in I : I \ {i} \in good => I \in good
    BY <1>1, <1>2
  <2> HIDE DEF D
  <2>2. SUBSET D \subseteq good
    BY <2>1, ElementInduction
  <2> QED
    BY <2>2 DEF D
<1> QED
  BY <1>3 DEF good

\* The score of a key is its part of all lists.
LEMMA ScoreIsPart ==
  ASSUME NEW K, NEW lists, AreLists(lists, K), NEW k \in Nat \ {0}, NEW longest \in Nat,
         IsFiniteSet(DOMAIN lists), NEW key
  PROVE  FusedScore(lists, key, k, longest) = Part(lists, key, k, longest, DOMAIN lists)
<1> DEFINE P == (DOMAIN lists) \X (1..longest)
           f == [p \in P |-> Share(k, p[2], longest)]
           places == PlacesOf(lists, key, longest)
<1>1. IsFiniteSet(P) /\ f \in [P -> Int] /\ places \in SUBSET P
  BY ShareTable DEF PlacesOf
<1>2. Part(lists, key, k, longest, DOMAIN lists) = SumFunctionOnSet(f, places)
  <2>1. {p \in places : p[1] \in DOMAIN lists} = places
    BY DEF PlacesOf
  <2> QED
    BY <2>1 DEF Part
<1>3. FusedScore(lists, key, k, longest) = SumFunction([p \in places |-> Share(k, p[2], longest)])
  BY DEF FusedScore, PlacesOf
<1>4. [p \in places |-> Share(k, p[2], longest)] = [p \in places |-> f[p]]
  BY <1>1
<1> HIDE DEF P, f, places
<1>5. SumFunction([p \in places |-> f[p]]) = SumFunctionOnSet(f, places)
  BY <1>1, SumRestricted
<1> QED
  BY <1>2, <1>3, <1>4, <1>5

KeysFound(lists) == UNION {KeysOf(list) : list \in ToSet(lists)}

LEMMA FoundFacts ==
  ASSUME NEW K, IsFiniteSet(K), NEW lists, AreLists(lists, K)
  PROVE  /\ KeysFound(lists) = UNION {KeysOf(lists[i]) : i \in DOMAIN lists}
         /\ KeysFound(lists) \subseteq K
         /\ IsFiniteSet(KeysFound(lists)) /\ Cardinality(KeysFound(lists)) \in Nat
<1>1. KeysFound(lists) = UNION {KeysOf(lists[i]) : i \in DOMAIN lists}
  BY DEF KeysFound, ToSet
<1>2. \A i \in DOMAIN lists : KeysOf(lists[i]) \subseteq K
  <2> SUFFICES ASSUME NEW i \in DOMAIN lists, NEW n \in DOMAIN lists[i] PROVE lists[i][n] \in K
    BY DEF KeysOf
  <2>1. lists[i] \in Seq(K)
    BY DEF AreLists
  <2> QED
    BY <2>1
<1>3. KeysFound(lists) \subseteq K
  BY <1>1, <1>2
<1>4. IsFiniteSet(KeysFound(lists))
  BY <1>3, FS_Subset
<1>5. Cardinality(KeysFound(lists)) \in Nat
  BY <1>4, FS_CardinalityType
<1> QED
  BY <1>1, <1>3, <1>4, <1>5

LEMMA SmallerOf ==
  ASSUME NEW a \in Nat \ {0}, NEW b \in Nat
  PROVE  Min({a, b}) = IF b > a THEN a ELSE b
<1> DEFINE S == {a, b}
<1>1. IsFiniteSet(S) /\ S \subseteq Int /\ S # {}
  <2>1. IsFiniteSet({a}) /\ IsFiniteSet({b})
    BY FS_Singleton
  <2>2. IsFiniteSet({a} \cup {b})
    BY <2>1, FS_Union
  <2>3. S = {a} \cup {b}
    OBVIOUS
  <2> QED
    BY <2>2, <2>3
<1>2. a \in S /\ b \in S /\ \A x \in S : x = a \/ x = b
  OBVIOUS
<1> HIDE DEF S
<1>3. Min(S) \in S /\ \A x \in S : Min(S) <= x
  BY <1>1, MinIn
<1> DEFINE least == Min(S)
<1>4. (least = a \/ least = b) /\ least <= a /\ least <= b
  BY <1>2, <1>3
<1> HIDE DEF least
<1>5. least = IF b > a THEN a ELSE b
  BY <1>4
<1> QED
  BY <1>5 DEF S, least

\* What holds of every cut of an order of the keys.
LEMMA CutItem ==
  ASSUME NEW D, NEW n \in Nat, NEW list \in [1..n -> D], NEW topK \in Int,
         NEW i \in 1..Len(Truncate(list, topK))
  PROVE  Truncate(list, topK)[i] = list[i]
  BY DEF Truncate

LEMMA CutFacts ==
  ASSUME NEW D, NEW n \in Nat, NEW list \in [1..n -> D], NEW topK \in Int
  PROVE  /\ Truncate(list, topK) \in Seq(D)
         /\ KeysOf(Truncate(list, topK)) \subseteq D
         /\ topK > 0 => Len(Truncate(list, topK)) <= topK
         /\ topK > 0 /\ n > topK => Len(Truncate(list, topK)) = topK
         /\ ~(topK > 0 /\ n > topK) => Len(Truncate(list, topK)) = n
<1> DEFINE cut == Truncate(list, topK)
           m == IF topK > 0 /\ n > topK THEN topK ELSE n
<1>1. m \in Nat /\ cut \in Seq(D) /\ Len(cut) = m
  BY CutList
<1>2. topK > 0 => m <= topK
  OBVIOUS
<1> HIDE DEF cut
<1>3. KeysOf(cut) \subseteq D
  BY <1>1 DEF KeysOf
<1> QED
  BY <1>1, <1>2, <1>3 DEF cut

\* fused is a cut of a list of the keys in D.
IsCut(fused, D, topK) == \E list \in [1..Cardinality(D) -> D] : fused = Truncate(list, topK)

\* fused keeps the order that the lists agree on.
KeepsOrder(fused, lists) ==
  \A j, l \in KeysFound(lists) :
    /\ l \in KeysOf(fused)
    /\ \A i \in DOMAIN lists : l \in KeysOf(lists[i]) => Ahead(lists[i], j, l)
    => Ahead(fused, j, l)

\* The ranking by the fused scores.
LEMMA FusedRanks ==
  ASSUME NEW K, IsFiniteSet(K), K \subseteq Int, NEW lists, AreLists(lists, K),
         NEW k \in Nat \ {0}, NEW topK \in Int
  PROVE  /\ IsCut(RRFMulti(lists, topK, k), KeysFound(lists), topK)
         /\ KeepsOrder(RRFMulti(lists, topK, k), lists)
<1> DEFINE longest == Max({0} \cup {Len(lists[i]) : i \in DOMAIN lists})
           found == KeysFound(lists)
           part(key) == FusedScore(lists, key, k, longest)
           score == [key \in found |-> <<part(key), 1>>]
           n == Cardinality(found)
           list == Ranked(score)
           fused == RRFMulti(lists, topK, k)
<1>1. /\ longest \in Nat /\ IsFiniteSet(DOMAIN lists)
      /\ \A i \in DOMAIN lists : DOMAIN lists[i] \subseteq 1..longest
  BY ListsLength
<1>2. /\ found = UNION {KeysOf(lists[i]) : i \in DOMAIN lists}
      /\ found \subseteq K /\ IsFiniteSet(found) /\ n \in Nat
  BY FoundFacts
<1>3. RRFConstant(k) = k
  BY DEF RRFConstant
<1>4. fused = Truncate(list, topK)
  BY <1>2, <1>3 DEF RRFMulti
<1> HIDE DEF longest, found, fused
<1>5. ASSUME NEW key
      PROVE  part(key) = Part(lists, key, k, longest, DOMAIN lists) /\ part(key) \in Nat
  <2>1. part(key) = Part(lists, key, k, longest, DOMAIN lists)
    BY <1>1, ScoreIsPart
  <2>2. Part(lists, key, k, longest, DOMAIN lists) \in Nat
    BY <1>1, PartSplit
  <2> QED
    BY <2>1, <2>2
<1> HIDE DEF part
<1>6. IsScore(score) /\ DOMAIN score = found
  <2>1. DOMAIN score = found
    OBVIOUS
  <2>2. \A key \in found : score[key] \in Fraction
    BY <1>5 DEF Fraction
  <2> QED
    BY <1>2, <2>1, <2>2 DEF IsScore, Score
<1>7. ASSUME NEW j \in found, NEW l \in found, part(l) < part(j)
      PROVE  Before(score, j, l)
  <2>1. part(l) \in Nat /\ part(j) \in Nat
    BY <1>5
  <2>2. score[l][1] = part(l) /\ score[l][2] = 1 /\ score[j][1] = part(j) /\ score[j][2] = 1
    OBVIOUS
  <2> HIDE DEF score
  <2>3. score[l][1] * score[j][2] < score[j][1] * score[l][2]
    BY <1>7, <2>1, <2>2
  <2> QED
    BY <2>3 DEF Before, Less
<1> HIDE DEF score
<1>8. /\ list \in [1..n -> found]
      /\ \A i \in 1..n : Place(score, list[i]) = i
      /\ \A key \in found : Place(score, key) \in 1..n /\ list[Place(score, key)] = key
  BY <1>6, RankedList
<1> HIDE DEF list, n
<1>9. /\ fused \in Seq(found) /\ Len(fused) \in 0..n
      /\ \A i \in 1..Len(fused) : fused[i] = list[i]
  <2>1. fused \in Seq(found) /\ Len(fused) = IF topK > 0 /\ n > topK THEN topK ELSE n
    BY <1>2, <1>4, <1>8, CutFacts
  <2>2. \A i \in 1..Len(fused) : fused[i] = list[i]
    BY <1>2, <1>4, <1>8, CutItem
  <2> QED
    BY <1>2, <2>1, <2>2
<1>10. ASSUME NEW j \in found, NEW l \in found, l \in KeysOf(fused),
              \A i \in DOMAIN lists : l \in KeysOf(lists[i]) => Ahead(lists[i], j, l)
       PROVE  Ahead(fused, j, l)
  <2>1. \E i \in DOMAIN lists : l \in KeysOf(lists[i])
    BY <1>2
  <2>2. Part(lists, l, k, longest, DOMAIN lists) < Part(lists, j, k, longest, DOMAIN lists)
    BY <1>1, <1>10, <2>1, MoreAhead
  <2>3. Before(score, j, l)
    BY <1>5, <1>7, <2>2
  <2>4. Place(score, j) < Place(score, l)
    BY <1>6, <2>3, PlacesInOrder
  <2>5. PICK i \in 1..Len(fused) : l = fused[i]
    BY <1>9, <1>10 DEF KeysOf
  <2>6. list[i] = l /\ i \in 1..n
    BY <1>2, <1>9, <2>5
  <2>7. Place(score, l) = i
    BY <1>8, <2>6
  <2> DEFINE p == Place(score, j)
  <2>8. p \in 1..n /\ list[p] = j /\ p < i
    BY <1>8, <2>4, <2>7
  <2> HIDE DEF p
  <2>9. p \in 1..Len(fused)
    BY <1>2, <1>9, <2>5, <2>8
  <2>10. fused[p] = j /\ fused[i] = l /\ p \in DOMAIN fused /\ i \in DOMAIN fused
    BY <1>9, <2>5, <2>8, <2>9
  <2> QED
    BY <2>8, <2>10 DEF Ahead
<1>11. IsCut(fused, found, topK)
  BY <1>4, <1>8 DEF IsCut, n
<1>12. KeepsOrder(fused, lists)
  BY <1>10 DEF KeepsOrder, found
<1> QED
  BY <1>11, <1>12 DEF found, fused

LEMMA CutOfKeys ==
  ASSUME NEW D, Cardinality(D) \in Nat, NEW topK \in Int, NEW fused, IsCut(fused, D, topK)
  PROVE  /\ fused \in Seq(D) /\ KeysOf(fused) \subseteq D
         /\ topK > 0 => Len(fused) <= topK
         /\ Len(fused) = IF topK > 0 /\ Cardinality(D) > topK THEN topK ELSE Cardinality(D)
<1> DEFINE n == Cardinality(D)
<1>1. PICK list \in [1..n -> D] : fused = Truncate(list, topK)
  BY DEF IsCut
<1>2. n \in Nat
  OBVIOUS
<1> HIDE DEF n
<1>3. /\ Truncate(list, topK) \in Seq(D) /\ KeysOf(Truncate(list, topK)) \subseteq D
      /\ topK > 0 => Len(Truncate(list, topK)) <= topK
      /\ topK > 0 /\ n > topK => Len(Truncate(list, topK)) = topK
      /\ ~(topK > 0 /\ n > topK) => Len(Truncate(list, topK)) = n
  BY <1>2, CutFacts
<1> QED
  BY <1>1, <1>3 DEF n

\* Scores that are all the same leave the keys in their own order.
LEMMA TiedRanks ==
  ASSUME NEW D, IsFiniteSet(D), D \subseteq Int, NEW topK \in Int
  PROVE  IsCut(Truncate(Ranked([key \in D |-> <<0, 1>>]), topK), D, topK)
<1> DEFINE score == [key \in D |-> <<0, 1>>]
           list == Ranked(score)
<1>1. <<0, 1>> \in Score
  BY DEF Score, Fraction
<1>2. DOMAIN score = D /\ \A key \in D : score[key] \in Score
  BY <1>1
<1> HIDE DEF score
<1>3. IsScore(score)
  BY <1>2 DEF IsScore
<1>4. list \in [1..Cardinality(D) -> D]
  BY <1>2, <1>3, RankedList
<1> HIDE DEF list
<1>5. IsCut(Truncate(list, topK), D, topK)
  BY <1>4 DEF IsCut
<1> QED
  BY <1>5 DEF list, score

\* A constant that float64 can add a rank to.
Plain(k) == k \notin {NaN, Infinity} /\ k < Coarse

LEMMA FusedAgrees ==
  ASSUME NEW K, IsFiniteSet(K), K \subseteq Int, NEW lists, AreLists(lists, K),
         NEW k \in (Nat \ {0}) \cup {NaN, Infinity}, NEW topK \in Int, NEW fused \in Fused(lists, topK, k)
  PROVE  /\ IsCut(fused, KeysFound(lists), topK)
         /\ Plain(k) => KeepsOrder(fused, lists)
<1> DEFINE found == KeysFound(lists)
<1>1. /\ found = UNION {KeysOf(lists[i]) : i \in DOMAIN lists}
      /\ found \subseteq Int /\ IsFiniteSet(found)
  BY FoundFacts
<1> HIDE DEF found
<1>2. CASE k = Infinity
  <2>1. fused = Truncate(Ranked([key \in found |-> <<0, 1>>]), topK)
    BY <1>1, <1>2 DEF Fused
  <2>2. IsCut(fused, found, topK)
    BY <1>1, <2>1, TiedRanks
  <2> QED
    BY <1>2, <2>2 DEF found, Plain
<1>3. CASE k # Infinity /\ (k = NaN \/ k >= Coarse)
  <2>1. PICK list \in SetToSeqs(found) : fused = Truncate(list, topK)
    BY <1>1, <1>3 DEF Fused
  <2>2. list \in [1..Cardinality(found) -> found]
    BY DEF SetToSeqs
  <2>3. IsCut(fused, found, topK)
    BY <2>1, <2>2 DEF IsCut
  <2>4. ~Plain(k)
    BY <1>3, BoundAssumption DEF Plain
  <2> QED
    BY <2>3, <2>4 DEF found
<1>4. CASE k # Infinity /\ ~(k = NaN \/ k >= Coarse)
  <2>1. k \in Nat \ {0} /\ fused = RRFMulti(lists, topK, k)
    BY <1>4 DEF Fused
  <2> QED
    BY <2>1, FusedRanks
<1> QED
  BY <1>2, <1>3, <1>4

\* A stream finds keys of those that are there, none twice and no more than asked.
LEMMA FoundTyped ==
  ASSUME scoring \in Scoring, NEW s \in Stream, NEW keys \in SUBSET Key, NEW topK \in Int
  PROVE  /\ Found(s, keys, topK) \in Seq(Key) /\ IsInjective(Found(s, keys, topK))
         /\ KeysOf(Found(s, keys, topK)) \subseteq keys
         /\ topK > 0 => Len(Found(s, keys, topK)) <= topK
<1> DEFINE D == keys \cap DOMAIN scoring[s]
           score == Restrict(scoring[s], D)
           n == Cardinality(D)
           list == Ranked(score)
           found == Found(s, keys, topK)
<1>1. DOMAIN score = D /\ \A k \in D : score[k] = scoring[s][k]
  BY DEF Restrict
<1>2. IsFiniteSet(D) /\ n \in Nat /\ D \subseteq Int
  <2>1. D \subseteq Key /\ IsFiniteSet(Key) /\ Key \subseteq Nat
    BY KeyAssumption
  <2> HIDE DEF D
  <2>2. IsFiniteSet(D)
    BY <2>1, FS_Subset
  <2> QED
    BY <2>1, <2>2, FS_CardinalityType
<1>3. \A k \in D : scoring[s][k] \in Score
  BY ScoringAssumption
<1>4. found = Truncate(list, topK)
  BY DEF Found
<1> HIDE DEF D, score, found
<1>5. IsScore(score)
  BY <1>1, <1>2, <1>3 DEF IsScore
<1>6. list \in [1..n -> D] /\ \A i \in 1..n : Place(score, list[i]) = i
  BY <1>1, <1>5, RankedList
<1> HIDE DEF list, n
<1>7. /\ found \in Seq(D) /\ KeysOf(found) \subseteq D
      /\ topK > 0 => Len(found) <= topK
      /\ Len(found) <= n
  <2>1. /\ found \in Seq(D) /\ KeysOf(found) \subseteq D
        /\ topK > 0 => Len(found) <= topK
    BY <1>2, <1>4, <1>6, CutFacts
  <2>2. /\ topK > 0 /\ n > topK => Len(Truncate(list, topK)) = topK
        /\ ~(topK > 0 /\ n > topK) => Len(Truncate(list, topK)) = n
    BY ONLY <1>2, <1>6, topK \in Int, CutFacts
  <2> QED
    BY <1>2, <1>4, <2>1, <2>2
<1>8. \A i \in 1..Len(found) : found[i] = list[i]
  BY <1>2, <1>4, <1>6, CutItem
<1>9. IsInjective(found)
  <2> SUFFICES ASSUME NEW a \in DOMAIN found, NEW b \in DOMAIN found, found[a] = found[b]
               PROVE  a = b
    BY DEF IsInjective
  <2>1. a \in 1..Len(found) /\ b \in 1..Len(found) /\ a \in 1..n /\ b \in 1..n
    BY <1>2, <1>7
  <2>2. Place(score, list[a]) = a /\ Place(score, list[b]) = b
    BY <1>6, <2>1
  <2>3. list[a] = list[b]
    BY <1>8, <2>1
  <2> QED
    BY <2>2, <2>3
<1>10. D \subseteq keys /\ Seq(D) \subseteq Seq(Key)
  BY DEF D
<1> QED
  BY <1>7, <1>9, <1>10 DEF found

-----------------------------------------------------------------------------
(* From the start to listening                                             *)

Handler == [rrfK : (Nat \ {0}) \cup {NaN, Infinity}, embedder : BOOLEAN]

Starting ==
  /\ phase \in {"Load", "Construct", "Listen", "Serving", "Exited", "Panicked"}
  /\ phase \in {"Load", "Construct", "Listen", "Panicked"} => file \in File /\ env \in Env
  /\ phase \in {"Construct", "Listen", "Panicked"} => ~LoadFails(file) /\ cfg = Load(file, env)
  /\ phase = "Panicked" => NewEnginePanics(cfg) \/ (cfg.Enabled /\ NewClientPanics(cfg))
  /\ phase = "Listen" => ~NewEnginePanics(cfg) /\ running = Components
  /\ phase = "Serving" <=> srv # Gone
  /\ srv # Gone => srv \in Handler
  /\ scoring \in Scoring

\* The settings that the constructors look at.
LEMMA Loaded ==
  ASSUME file \in File, env \in Env, ~LoadFails(file), cfg = Load(file, env)
  PROVE  /\ \A s \in Setting : cfg[s] = Written(s)
         /\ cfg.TTLCheckIntervalSeconds \in Nat \ {0}
         /\ cfg.MaxMemoryBytes \in Nat \ {0} /\ cfg.NgramSize \in Nat \ {0}
         /\ cfg.DimK \in Nat \ {0} /\ cfg.TimeoutSeconds \in Nat \ {0}
         /\ cfg.ChannelBufferSize \in Nat \ {0} /\ cfg.WorkerPoolSize \in Nat \ {0}
         /\ cfg.URL \in Nat \ {0}
         /\ cfg.DefaultRRFK \in (Nat \ {0}) \cup {NaN, Infinity}
         /\ cfg.BM25K1 \in (Nat \ {0}) \cup {NaN, Infinity} /\ cfg.BM25B \in (Nat \ {0}) \cup {NaN, Infinity}
         /\ cfg.Enabled \in BOOLEAN
<1>1. \A s \in Setting : cfg[s] = Written(s) /\ cfg[s] \in Valid(s)
  BY LoadedAsWritten
<1>2. \A s \in {"TTLCheckIntervalSeconds", "MaxMemoryBytes", "NgramSize", "DimK", "TimeoutSeconds",
                "ChannelBufferSize", "WorkerPoolSize", "URL"} :
        s \in Setting /\ s \notin Flag \cup Float
  BY SettingsFacts DEF Flag, Float
<1>3. \A s \in {"TTLCheckIntervalSeconds", "MaxMemoryBytes", "NgramSize", "DimK", "TimeoutSeconds",
                "ChannelBufferSize", "WorkerPoolSize", "URL"} : cfg[s] \in Nat \ {0}
  BY <1>1, <1>2, ValidValues
<1>4. \A s \in {"DefaultRRFK", "BM25K1", "BM25B"} : s \in Setting /\ s \in Float
  BY SettingsFacts DEF Float
<1>5. \A s \in {"DefaultRRFK", "BM25K1", "BM25B"} : cfg[s] \in (Nat \ {0}) \cup {NaN, Infinity}
  BY <1>1, <1>4, ValidValues
<1>6. cfg["Enabled"] \in BOOLEAN
  <2>1. "Enabled" \in Setting /\ "Enabled" \in Flag
    BY SettingsFacts
  <2> QED
    BY <1>1, <2>1, ValidValues
<1> QED
  BY <1>1, <1>3, <1>5, <1>6

LEMMA Durations ==
  ASSUME NEW seconds \in Nat \ {0}
  PROVE  /\ Duration(seconds) \in Int
         /\ FitsDuration(seconds) => Duration(seconds) = seconds * Second /\ Duration(seconds) > 0
<1> DEFINE n == seconds * Second
           m == 2 * Half
<1>1. n \in Nat \ {0} /\ m \in Nat \ {0} /\ Half \in Nat
  BY WidthAssumption
<1>2. Duration(seconds) = ((n + Half) % m) - Half
  BY DEF Duration, Wrap
<1>3. FitsDuration(seconds) <=> n < Half
  BY DEF FitsDuration
<1>4. m = Half + Half
  BY <1>1
<1> HIDE DEF n, m
<1>5. (n + Half) % m \in Int
  BY <1>1
<1>6. ASSUME n < Half PROVE (n + Half) % m = n + Half
  BY <1>1, <1>4, <1>6
<1> DEFINE d == (n + Half) % m
<1>7. d \in Int /\ (n < Half => d = n + Half) /\ Duration(seconds) = d - Half
  BY <1>2, <1>5, <1>6
<1> HIDE DEF d
<1>8. n < Half => d - Half = n /\ d - Half > 0
  BY <1>1, <1>7
<1> QED
  BY <1>1, <1>3, <1>7, <1>8 DEF n

\* What the constructor of the embedder makes of a valid configuration.
LEMMA ClientMade ==
  ASSUME file \in File, env \in Env, ~LoadFails(file), cfg = Load(file, env), NEW client,
         client = NewClientWithCallback(cfg)
  PROVE  /\ client # Gone
         /\ BufferSize(cfg) = cfg.ChannelBufferSize
         /\ client.buffer = cfg.ChannelBufferSize
         /\ client.workers = cfg.WorkerPoolSize /\ client.url = cfg.URL
         /\ client.requestTimeout > 0
         /\ FitsDuration(cfg.TimeoutSeconds) =>
              /\ client.clientTimeout = cfg.TimeoutSeconds * Second
              /\ client.requestTimeout = cfg.TimeoutSeconds * Second
<1> DEFINE seconds == cfg.TimeoutSeconds
           d == Duration(seconds)
           buffer == BufferSize(cfg)
           t == RequestTimeout(cfg)
<1>1. seconds \in Nat \ {0}
  BY Loaded
<1>2. d \in Int /\ (FitsDuration(seconds) => d = seconds * Second /\ d > 0)
  BY <1>1, Durations
<1>3. ClientTimeout(cfg) = d
  BY <1>1 DEF ClientTimeout
<1>4. t = IF d <= 0 THEN 5 * Second ELSE d
  BY DEF RequestTimeout
<1>5. buffer = cfg.ChannelBufferSize /\ buffer \in Int
  BY Loaded DEF BufferSize
<1>6. client = [buffer |-> buffer, workers |-> cfg.WorkerPoolSize, url |-> cfg.URL,
                clientTimeout |-> d, requestTimeout |-> t]
  BY <1>3 DEF NewClientWithCallback
<1> HIDE DEF d, buffer, t
<1>7. t \in Int /\ t > 0 /\ (d > 0 => t = d)
  BY <1>2, <1>4, WidthAssumption
<1>8. client # Gone
  <2>1. client \in [buffer : Int, workers : Int, url : Int, clientTimeout : Int, requestTimeout : Int]
    BY <1>2, <1>5, <1>6, <1>7, Loaded
  <2> QED
    BY <2>1, GoneAssumption
<1>9. /\ client.buffer = buffer /\ client.workers = cfg.WorkerPoolSize /\ client.url = cfg.URL
      /\ client.clientTimeout = d /\ client.requestTimeout = t
  BY <1>6
<1> HIDE DEF seconds
<1>10. FitsDuration(seconds) => client.clientTimeout = seconds * Second /\ client.requestTimeout = seconds * Second
  BY <1>2, <1>7, <1>9
<1>11. BufferSize(cfg) = cfg.ChannelBufferSize
  BY <1>5 DEF buffer
<1> QED
  BY <1>5, <1>7, <1>8, <1>9, <1>10, <1>11 DEF seconds

\* Of a valid configuration the constructors make no fallback of their own.
LEMMA Constructed ==
  ASSUME file \in File, env \in Env, ~LoadFails(file), cfg = Load(file, env)
  PROVE  /\ Components.rrfK = cfg.DefaultRRFK
         /\ Components.limit = cfg.MaxMemoryBytes
         /\ Components.ticker = Duration(cfg.TTLCheckIntervalSeconds)
         /\ Components.bm25 = <<cfg.BM25K1, cfg.BM25B>>
         /\ Components.ngram = cfg.NgramSize /\ Components.lsa = cfg.DimK
         /\ Components.embedder # Gone <=> cfg.Enabled
         /\ cfg.Enabled => Components.embedder = NewClientWithCallback(cfg)
<1>1. \A v \in (Nat \ {0}) \cup {NaN, Infinity} : ~TooLow(v)
  BY DEF TooLow
<1>2. Components.rrfK = cfg.DefaultRRFK
  <2>1. Components.rrfK = ServerRRFK(cfg.DefaultRRFK)
    BY DEF Components
  <2>2. ~TooLow(cfg.DefaultRRFK)
    BY <1>1, Loaded
  <2> QED
    BY <2>1, <2>2 DEF ServerRRFK
<1>3. Components.bm25 = <<cfg.BM25K1, cfg.BM25B>>
  BY <1>1, Loaded DEF Components, NewBM25IndexWithParams
<1>4. Components.ngram = cfg.NgramSize /\ Components.lsa = cfg.DimK
  BY Loaded DEF Components, NewNgramIndex, NewLSAIndexWithDim
<1>5. Components.limit = cfg.MaxMemoryBytes /\ Components.ticker = Duration(cfg.TTLCheckIntervalSeconds)
  BY DEF Components
<1>6. NewClientWithCallback(cfg) # Gone
  BY ClientMade
<1>7. Components.embedder = IF cfg.Enabled THEN NewClientWithCallback(cfg) ELSE Gone
  BY DEF Components
<1>8. Components.embedder # Gone <=> cfg.Enabled
  BY <1>6, <1>7, Loaded
<1> QED
  BY <1>2, <1>3, <1>4, <1>5, <1>7, <1>8

LEMMA StartingInit == Init => Starting
  BY DEF Init, Starting

LEMMA StartingStep == Starting /\ [Next]_vars => Starting'
<1> SUFFICES ASSUME Starting, [Next]_vars PROVE Starting'
  OBVIOUS
<1>1. CASE LoadConfig
  <2>1. phase = "Load" /\ UNCHANGED <<file, env, running, srv, scoring>>
    BY <1>1 DEF LoadConfig
  <2>2. phase' = "Exited" \/ (phase' = "Construct" /\ ~LoadFails(file) /\ cfg' = Load(file, env))
    BY <1>1 DEF LoadConfig
  <2>3. LoadFails(file)' <=> LoadFails(file)
    BY <2>1
  <2>4. Load(file, env)' = Load(file, env)
    BY <2>1
  <2> QED
    BY <2>1, <2>2, <2>3, <2>4 DEF Starting
<1>2. CASE Construct
  <2>1. phase = "Construct" /\ UNCHANGED <<file, env, cfg, srv, scoring>>
    BY <1>2 DEF Construct
  <2>2. \/ phase' = "Listen" /\ ~NewEnginePanics(cfg) /\ running' = Components
        \/ phase' = "Panicked" /\ (NewEnginePanics(cfg) \/ (cfg.Enabled /\ NewClientPanics(cfg)))
    BY <1>2 DEF Construct
  <2>3. Components' = Components
    BY <2>1 DEF Components
  <2> QED
    BY <2>1, <2>2, <2>3 DEF Starting
<1>3. CASE ListenFails
  BY <1>3 DEF ListenFails, Starting
<1>4. CASE Serve
  <2>1. phase = "Listen" /\ phase' = "Serving" /\ scoring' = scoring
    BY <1>4 DEF Serve
  <2>2. srv' = [rrfK |-> running.rrfK, embedder |-> running.embedder # Gone]
    BY <1>4 DEF Serve
  <2>3. running.rrfK = cfg.DefaultRRFK /\ cfg.DefaultRRFK \in (Nat \ {0}) \cup {NaN, Infinity}
    BY <2>1, Constructed, Loaded DEF Starting
  <2>4. srv' \in Handler
    BY <2>2, <2>3 DEF Handler
  <2>5. srv' # Gone
    <3>1. Handler \subseteq [rrfK : Int \cup {NaN, Infinity}, embedder : BOOLEAN]
      BY DEF Handler
    <3> QED
      BY <2>4, <3>1, GoneAssumption
  <2> QED
    BY <2>1, <2>4, <2>5 DEF Starting
<1>5. CASE UNCHANGED <<startVars, scoring>>
  BY <1>5 DEF Starting, startVars, Components
<1>6. Request \/ Handle \/ (\E k \in Key : Change(k)) \/ UNCHANGED vars => UNCHANGED <<startVars, scoring>>
  BY DEF Request, Handle, Change, vars, HybridSearch, VectorSearch, TextSearch, Begins, Goes,
         EmbedQuery, SearchStream, Fuse, SearchVectors, Enrich, Return
<1> QED
  BY <1>1, <1>2, <1>3, <1>4, <1>5, <1>6 DEF Next, Startup

-----------------------------------------------------------------------------
(* The store and the request that is followed                              *)

\* What the request remembers of the store.
Storing ==
  /\ present \subseteq Key /\ seen \subseteq Key /\ missed \subseteq Key
  /\ changes \in 0..MaxChanges
  /\ call # Gone => present \subseteq seen /\ Key \ present \subseteq missed

RRFK == (Nat \ {0}) \cup {NaN, Infinity}

HybridCall ==
  [at : {"Embed", "Search"}, then : {"Search"}, vec : BOOLEAN, topK : Int, k : RRFK,
   items : SUBSET Key, todo : SUBSET Stream, lists : Seq(Seq(Key)), texts : SUBSET Key]
VectorCall ==
  [at : {"Embed", "Dense"}, then : {"Dense"}, vec : BOOLEAN, topK : Int, k : {0}, lists : {<<>>}]
AnswerCall ==
  [at : {"Enrich"}, lists : Seq(Seq(Key)), k : Int \cup {NaN, Infinity}, topK : Int, ranked : Seq(Key),
   texts : SUBSET Key, results : Seq([key : Key, value : BOOLEAN])]

\* Every list has keys that were there or that a text index gave, and none twice.
Sourced(lists, texts) == AreLists(lists, Key) /\ KeysFound(lists) \subseteq seen \cup texts

Hybrid(c) == c \in HybridCall /\ c.items \subseteq seen /\ Sourced(c.lists, c.texts)

Answer(c) ==
  /\ c \in AnswerCall
  /\ Sourced(c.lists, c.texts) /\ KeysOf(c.ranked) \subseteq seen \cup c.texts
  /\ c.topK > 0 => Len(c.ranked) <= c.topK
  /\ c.lists # <<>> => c.k \in RRFK /\ c.ranked \in Fused(c.lists, c.topK, c.k)
  /\ \A r \in ToSet(c.results) : IF r.value THEN r.key \in seen ELSE r.key \in missed

Calling == call # Gone => Hybrid(call) \/ call \in VectorCall \/ Answer(call)

ServerInv == Starting /\ Storing /\ Calling

LEMMA StoringInit == Init => Storing /\ Calling
  BY BoundAssumption DEF Init, Storing, Calling

LEMMA StoringStep == Storing /\ [Next]_vars => Storing'
<1> SUFFICES ASSUME Storing, [Next]_vars PROVE Storing'
  OBVIOUS
<1>1. CASE Startup \/ UNCHANGED vars
  <2>1. UNCHANGED <<storeVars, call>>
    BY <1>1 DEF Startup, LoadConfig, Construct, ListenFails, Serve, vars
  <2> QED
    BY <2>1 DEF Storing, storeVars
<1>2. CASE Request
  <2>1. \E c : Begins(c)
    BY <1>2 DEF Request, HybridSearch, VectorSearch, TextSearch
  <2>2. present' = present /\ seen' = present /\ missed' = Key \ present /\ changes' = 0
    BY <2>1 DEF Begins
  <2> QED
    BY <2>2, BoundAssumption DEF Storing
<1>3. CASE EmbedQuery \/ SearchStream \/ Fuse \/ SearchVectors \/ Enrich
  <2>1. call # Gone /\ UNCHANGED storeVars
    BY <1>3 DEF EmbedQuery, SearchStream, Fuse, SearchVectors, Enrich, Goes
  <2> QED
    BY <2>1 DEF Storing, storeVars
<1>4. CASE Return
  BY <1>4, BoundAssumption DEF Return, Storing
<1>5. ASSUME NEW k \in Key, Change(k) PROVE Storing'
  <2>1. present' \subseteq Key /\ call' = call
    BY <1>5 DEF Change, Storing
  <2>2. CASE call = Gone
    BY <1>5, <2>1, <2>2 DEF Change, Storing
  <2>3. CASE call # Gone
    <3>1. seen' = seen \cup present' /\ missed' = missed \cup (Key \ present')
      BY <1>5, <2>3 DEF Change
    <3>2. changes' \in 0..MaxChanges
      <4>1. changes < MaxChanges /\ changes' = changes + 1
        BY <1>5, <2>3 DEF Change
      <4> QED
        BY <4>1, BoundAssumption DEF Storing
    <3> QED
      BY <2>1, <3>1, <3>2 DEF Storing
  <2> QED
    BY <2>2, <2>3
<1> QED
  BY <1>1, <1>2, <1>3, <1>4, <1>5 DEF Next, Handle

LEMMA NoLists == <<>> \in Seq(Seq(Key)) /\ AreLists(<<>>, Key) /\ KeysFound(<<>>) = {}
<1>1. <<>> \in Seq(Seq(Key)) /\ DOMAIN <<>> = {}
  OBVIOUS
<1>2. AreLists(<<>>, Key)
  BY <1>1 DEF AreLists
<1>3. KeysFound(<<>>) = {}
  BY <1>1 DEF KeysFound, ToSet
<1> QED
  BY <1>1, <1>2, <1>3

LEMMA MoreList ==
  ASSUME NEW lists, NEW texts, Sourced(lists, texts), NEW all, texts \subseteq all,
         NEW list \in Seq(Key), IsInjective(list), KeysOf(list) \subseteq seen \cup all
  PROVE  Sourced(Append(lists, list), all)
<1> DEFINE more == Append(lists, list)
<1>1. lists \in Seq(Seq(Key)) /\ (\A i \in DOMAIN lists : IsInjective(lists[i]))
  BY DEF Sourced, AreLists
<1>2. more \in Seq(Seq(Key)) /\ DOMAIN more = (DOMAIN lists) \cup {Len(lists) + 1}
      /\ (\A i \in DOMAIN lists : more[i] = lists[i]) /\ more[Len(lists) + 1] = list
  BY <1>1
<1> HIDE DEF more
<1>3. AreLists(more, Key)
  BY <1>1, <1>2 DEF AreLists
<1>4. \A l \in ToSet(more) : l \in ToSet(lists) \/ l = list
  BY <1>2 DEF ToSet
<1>5. KeysFound(more) \subseteq KeysFound(lists) \cup KeysOf(list)
  BY <1>4 DEF KeysFound
<1> QED
  BY <1>3, <1>5 DEF Sourced, more

LEMMA ConstantTyped ==
  ASSUME srv \in Handler, NEW k \in Int \cup {NaN, Infinity}
  PROVE  Constant(k) \in RRFK
<1>1. srv.rrfK \in RRFK
  BY DEF Handler, RRFK
<1>2. \A v \in Int \cup {NaN, Infinity} : ~TooLow(v) => v \in RRFK
  BY DEF TooLow, RRFK
<1>3. 6000 \in RRFK
  BY DEF RRFK
<1> QED
  BY <1>1, <1>2, <1>3 DEF Constant

LEMMA SelectedStreams ==
  ASSUME NEW strategies \in StrategyLists, NEW query \in BOOLEAN, NEW vec \in BOOLEAN
  PROVE  Selected(strategies, query, vec) \subseteq Stream
<1>1. CASE strategies = <<>>
  BY <1>1, StandsForStreams DEF Selected
<1>2. CASE strategies # <<>>
  <2>1. strategies \in Seq(Strategy)
    BY StrategyListsTyped
  <2>2. \A n \in DOMAIN strategies : strategies[n] \in Strategy
    BY <2>1
  <2>3. \A n \in DOMAIN strategies : StandsFor(strategies[n], query, vec) \subseteq Stream
    BY <2>2, StandsForStreams
  <2>4. Selected(strategies, query, vec)
          = UNION {StandsFor(strategies[n], query, vec) : n \in DOMAIN strategies}
    BY <1>2, <2>1, SelectsAsAsked
  <2> QED
    BY <2>3, <2>4
<1> QED
  BY <1>1, <1>2

LEMMA FirstIn ==
  ASSUME NEW todo \in SUBSET Stream, todo # {}
  PROVE  First(todo) \in todo
<1> DEFINE turns == {n \in DOMAIN Streams : Streams[n] \in todo}
<1>1. turns # {}
  <2>1. PICK s \in todo : s \in Stream
    OBVIOUS
  <2>2. PICK n \in DOMAIN Streams : Streams[n] = s
    BY <2>1, StreamFacts
  <2>3. n \in turns
    BY <2>1, <2>2
  <2> QED
    BY <2>3
<1>2. IsFiniteSet(turns) /\ turns \subseteq Int
  <2> DEFINE last == 5
  <2>1. turns \subseteq 1..last /\ last \in Nat
    BY StreamFacts
  <2> HIDE DEF turns, last
  <2>2. IsFiniteSet(1..last)
    BY <2>1, FS_Interval
  <2>3. IsFiniteSet(turns)
    BY <2>1, <2>2, FS_Subset
  <2> QED
    BY <2>1, <2>3
<1> HIDE DEF turns
<1>3. Min(turns) \in turns
  BY <1>1, <1>2, MinIn
<1> QED
  BY <1>3 DEF First, turns

LEMMA HybridBegins ==
  ASSUME ServerInv, NEW strategies \in StrategyLists, NEW query \in BOOLEAN, NEW vec \in BOOLEAN,
         NEW topK \in Asked, NEW rrfK \in AskedRRFK, HybridSearch(strategies, query, vec, topK, rrfK)
  PROVE  Hybrid(call)'
<1> DEFINE use == Selected(strategies, query, vec)
           embed == "dense" \in use /\ ~vec /\ query /\ srv.embedder
           c == [at |-> IF embed THEN "Embed" ELSE "Search", then |-> "Search",
                 vec |-> vec, topK |-> topK, k |-> Constant(rrfK), items |-> Items,
                 todo |-> use, lists |-> <<>>, texts |-> {}]
<1>1. Begins(c)
  BY DEF HybridSearch
<1>2. phase = "Serving" /\ call' = c /\ seen' = present
  BY <1>1 DEF Begins
<1>3. srv \in Handler /\ present \subseteq Key
  BY <1>2 DEF ServerInv, Starting, Storing
<1>4. Constant(rrfK) \in RRFK
  BY <1>3, AskedAssumption, ConstantTyped
<1>5. use \subseteq Stream
  BY SelectedStreams
<1>6. <<>> \in Seq(Seq(Key)) /\ AreLists(<<>>, Key) /\ KeysFound(<<>>) = {}
  BY NoLists
<1>7. topK \in Int
  BY AskedAssumption
<1>8. Items = present
  BY DEF Items
<1> HIDE DEF use
<1>9. c \in HybridCall
  BY <1>3, <1>4, <1>5, <1>6, <1>7, <1>8 DEF HybridCall
<1>10. c.items = present /\ c.lists = <<>>
  BY <1>8
<1> HIDE DEF c
<1> QED
  BY <1>2, <1>6, <1>9, <1>10 DEF Hybrid, HybridCall, RRFK, Sourced

LEMMA VectorBegins ==
  ASSUME NEW query \in BOOLEAN, NEW vec \in BOOLEAN, NEW topK \in Asked, VectorSearch(query, vec, topK)
  PROVE  (call \in VectorCall)'
<1>1. topK \in Int
  BY AskedAssumption
<1> QED
  BY <1>1 DEF VectorSearch, Begins, VectorCall

\* An answer of one list, or of none, is one that was found.
LEMMA AnswerOfOne ==
  ASSUME NEW topK \in Int, NEW ranked \in Seq(Key), NEW texts \in SUBSET Key,
         KeysOf(ranked) \subseteq seen' \cup texts,
         topK > 0 => Len(ranked) <= topK, call' = Answers(<<>>, 0, topK, ranked, texts)
  PROVE  Answer(call)'
<1> DEFINE c == Answers(<<>>, 0, topK, ranked, texts)
<1>1. c.lists = <<>> /\ c.ranked = ranked /\ c.topK = topK /\ c.texts = texts /\ c.results = <<>>
  BY DEF Answers
<1>2. <<>> \in Seq([key : Key, value : BOOLEAN])
  OBVIOUS
<1>3. <<>> \in Seq(Seq(Key)) /\ AreLists(<<>>, Key) /\ KeysFound(<<>>) = {}
  BY NoLists
<1>4. c \in AnswerCall
  BY <1>2, <1>3 DEF Answers, AnswerCall
<1>5. ToSet(<<>>) = {}
  BY DEF ToSet
<1> HIDE DEF c
<1> QED
  BY <1>1, <1>3, <1>4, <1>5 DEF Answer, AnswerCall, RRFK, Sourced, c

LEMMA TextBegins ==
  ASSUME ServerInv, NEW s \in TextStream, NEW query \in BOOLEAN, NEW topK \in Asked,
         TextSearch(s, query, topK)
  PROVE  Answer(call)'
<1>1. PICK docs \in Indexed :
        LET list == IF query THEN Found(s, docs, topK) ELSE <<>>
        IN Begins(Answers(<<>>, 0, topK, list, KeysOf(list)))
  BY DEF TextSearch
<1> DEFINE ranked == IF query THEN Found(s, docs, topK) ELSE <<>>
           texts == KeysOf(ranked)
<1>2. call' = Answers(<<>>, 0, topK, ranked, texts)
  BY <1>1 DEF Begins
<1>3. topK \in Int /\ scoring \in Scoring /\ s \in Stream /\ docs \in SUBSET Key
  BY AskedAssumption, IndexedAssumption DEF ServerInv, Starting, TextStream
<1>4. /\ ranked \in Seq(Key) /\ texts \in SUBSET Key
      /\ topK > 0 => Len(ranked) <= topK
  <2>1. CASE query
    <3>1. ranked = Found(s, docs, topK)
      BY <2>1
    <3> HIDE DEF ranked
    <3>2. /\ ranked \in Seq(Key) /\ KeysOf(ranked) \subseteq docs
          /\ topK > 0 => Len(ranked) <= topK
      BY <1>3, <3>1, FoundTyped
    <3> QED
      BY <1>3, <3>2
  <2>2. CASE ~query
    <3>1. ranked = <<>>
      BY <2>2
    <3> HIDE DEF ranked
    <3> QED
      BY <1>3, <3>1 DEF KeysOf
  <2> QED
    BY <2>1, <2>2
<1>5. texts = KeysOf(ranked)
  OBVIOUS
<1> HIDE DEF ranked, texts
<1> QED
  BY <1>2, <1>3, <1>4, <1>5, AnswerOfOne

\* Which request it is, from where it is.
LEMMA WhichCall ==
  ASSUME ServerInv, call # Gone
  PROVE  /\ call.at = "Embed" => Hybrid(call) \/ call \in VectorCall
         /\ call.at = "Search" => Hybrid(call)
         /\ call.at = "Dense" => call \in VectorCall
         /\ call.at = "Enrich" => Answer(call)
<1>1. Hybrid(call) \/ call \in VectorCall \/ Answer(call)
  BY DEF ServerInv, Calling
<1>2. Hybrid(call) => call.at \in {"Embed", "Search"}
  BY DEF Hybrid, HybridCall
<1>3. call \in VectorCall => call.at \in {"Embed", "Dense"}
  BY DEF VectorCall
<1>4. Answer(call) => call.at = "Enrich"
  BY DEF Answer, AnswerCall
<1> QED
  BY <1>1, <1>2, <1>3, <1>4

LEMMA EmbedQueryStep ==
  ASSUME ServerInv, EmbedQuery
  PROVE  Calling'
<1>1. PICK vec \in BOOLEAN : call' = [call EXCEPT !.at = call.then, !.vec = vec]
  BY DEF EmbedQuery, Goes
<1>2. call # Gone /\ call.at = "Embed" /\ UNCHANGED storeVars
  BY DEF EmbedQuery, Goes
<1>3. seen' = seen
  BY <1>2 DEF storeVars
<1>4. CASE Hybrid(call)
  <2>1. /\ call' \in HybridCall /\ call'.items = call.items /\ call'.lists = call.lists
        /\ call'.texts = call.texts
    BY <1>1, <1>4 DEF Hybrid, HybridCall
  <2>2. Hybrid(call)'
    BY <1>3, <1>4, <2>1 DEF Hybrid, HybridCall, RRFK, Sourced
  <2> QED
    BY <2>2 DEF Calling
<1>5. CASE call \in VectorCall
  <2>1. call' \in VectorCall
    BY <1>1, <1>5 DEF VectorCall
  <2> QED
    BY <2>1 DEF Calling, VectorCall
<1> QED
  BY <1>2, <1>4, <1>5, WhichCall

\* The list of the next stream, from the documents that a text index has.
NextList(c, docs) ==
  LET s == First(c.todo)
  IN IF s = "dense" THEN IF c.vec THEN Found(s, c.items, 2 * c.topK) ELSE <<>>
     ELSE Found(s, docs, 2 * c.topK)

LEMMA SearchStreamStep ==
  ASSUME ServerInv, SearchStream
  PROVE  Calling'
<1>1. call # Gone /\ call.at = "Search" /\ call.todo # {} /\ UNCHANGED storeVars
  BY DEF SearchStream, Goes
<1>2. PICK docs \in Indexed :
        call' = [call EXCEPT !.todo = @ \ {First(call.todo)},
                             !.lists = IF NextList(call, docs) = <<>> THEN @ ELSE Append(@, NextList(call, docs)),
                             !.texts = IF First(call.todo) = "dense" THEN @ ELSE @ \cup KeysOf(NextList(call, docs))]
  BY DEF SearchStream, Goes, NextList
<1> DEFINE s == First(call.todo)
           list == NextList(call, docs)
           lists == IF list = <<>> THEN call.lists ELSE Append(call.lists, list)
           texts == IF s = "dense" THEN call.texts ELSE call.texts \cup KeysOf(list)
           todo == call.todo \ {s}
<1>3. Hybrid(call) /\ seen' = seen /\ scoring \in Scoring
  BY <1>1, WhichCall DEF storeVars, ServerInv, Starting
<1>4. call \in HybridCall /\ call.items \subseteq seen /\ Sourced(call.lists, call.texts)
  BY <1>3 DEF Hybrid
<1>5. /\ call.todo \in SUBSET Stream /\ call.topK \in Int /\ call.items \in SUBSET Key
      /\ call.texts \in SUBSET Key /\ docs \in SUBSET Key
  BY <1>4, IndexedAssumption DEF HybridCall
<1>6. s \in Stream /\ 2 * call.topK \in Int
  BY <1>1, <1>5, FirstIn
<1>7. /\ list \in Seq(Key) /\ IsInjective(list)
      /\ KeysOf(list) \subseteq Key
      /\ s = "dense" => KeysOf(list) \subseteq call.items
  <2>1. \A keys \in SUBSET Key :
          /\ Found(s, keys, 2 * call.topK) \in Seq(Key) /\ IsInjective(Found(s, keys, 2 * call.topK))
          /\ KeysOf(Found(s, keys, 2 * call.topK)) \subseteq keys
    <3> HIDE DEF s
    <3> QED
      BY <1>3, <1>6, FoundTyped
  <2>2. <<>> \in Seq(Key) /\ IsInjective(<<>>) /\ KeysOf(<<>>) = {}
    BY DEF IsInjective, KeysOf
  <2>3. list = IF s = "dense" THEN IF call.vec THEN Found(s, call.items, 2 * call.topK) ELSE <<>>
               ELSE Found(s, docs, 2 * call.topK)
    BY DEF NextList
  <2> HIDE DEF s, list
  <2> QED
    BY <1>5, <2>1, <2>2, <2>3
<1> HIDE DEF list, s
<1>8. call.texts \subseteq texts /\ texts \in SUBSET Key /\ KeysOf(list) \subseteq seen \cup texts
  BY <1>4, <1>5, <1>7
<1>9. todo \in SUBSET Stream
  BY <1>5
<1>10. call' = [call EXCEPT !.todo = todo, !.lists = lists, !.texts = texts]
  BY <1>2 DEF list, s
<1> HIDE DEF texts, todo
<1>11. Sourced(lists, texts)
  <2>1. CASE list = <<>>
    BY <1>4, <1>8, <2>1 DEF Sourced
  <2>2. CASE list # <<>>
    BY <1>4, <1>7, <1>8, <2>2, MoreList
  <2> QED
    BY <2>1, <2>2
<1>12. lists \in Seq(Seq(Key))
  BY <1>11 DEF Sourced, AreLists
<1> HIDE DEF lists
<1>13. /\ call' \in HybridCall /\ call'.items = call.items /\ call'.lists = lists
       /\ call'.texts = texts
  <2> DEFINE mid == [call EXCEPT !.todo = todo]
             end == [mid EXCEPT !.lists = lists]
  <2>1. mid \in HybridCall /\ mid.items = call.items
    BY <1>4, <1>9 DEF HybridCall
  <2>2. call' = [end EXCEPT !.texts = texts]
    BY <1>4, <1>10 DEF HybridCall
  <2> HIDE DEF mid
  <2>3. end \in HybridCall /\ end.items = call.items /\ end.lists = lists
    BY <1>12, <2>1 DEF HybridCall
  <2> HIDE DEF end
  <2> QED
    BY <1>8, <2>2, <2>3 DEF HybridCall
<1>14. Hybrid(call)'
  BY <1>3, <1>4, <1>11, <1>13 DEF Hybrid, HybridCall, RRFK, Sourced
<1> QED
  BY <1>14 DEF Calling

LEMMA FuseStep ==
  ASSUME ServerInv, Fuse
  PROVE  Calling'
<1>1. call # Gone /\ call.at = "Search" /\ UNCHANGED storeVars
  BY DEF Fuse, Goes
<1>2. PICK ranked \in Fused(call.lists, call.topK, call.k) :
             call' = Answers(call.lists, call.k, call.topK, ranked, call.texts)
  BY DEF Fuse, Goes
<1>3. Hybrid(call) /\ seen' = seen
  BY <1>1, WhichCall DEF storeVars
<1> DEFINE lists == call.lists
           k == call.k
           topK == call.topK
           texts == call.texts
<1>4. /\ Sourced(lists, texts) /\ lists \in Seq(Seq(Key)) /\ k \in RRFK /\ topK \in Int
      /\ texts \in SUBSET Key
  BY <1>3 DEF Hybrid, HybridCall
<1> HIDE DEF lists, k, topK, texts
<1>5. AreLists(lists, Key) /\ KeysFound(lists) \subseteq seen \cup texts /\ IsFiniteSet(Key) /\ Key \subseteq Int
  BY <1>4, KeyAssumption DEF Sourced
<1>6. ranked \in Fused(lists, topK, k)
  BY <1>2 DEF lists, k, topK
<1>7. IsCut(ranked, KeysFound(lists), topK)
  BY <1>4, <1>5, <1>6, FusedAgrees DEF RRFK
<1>8. KeysFound(lists) \subseteq Key /\ Cardinality(KeysFound(lists)) \in Nat
  BY <1>5, FoundFacts
<1>9. /\ ranked \in Seq(Key) /\ KeysOf(ranked) \subseteq seen \cup texts
      /\ topK > 0 => Len(ranked) <= topK
  BY <1>4, <1>5, <1>7, <1>8, CutOfKeys
<1> DEFINE c == Answers(lists, k, topK, ranked, texts)
<1>10. /\ c.lists = lists /\ c.k = k /\ c.topK = topK /\ c.ranked = ranked /\ c.texts = texts
       /\ c.results = <<>>
  BY DEF Answers
<1>11. <<>> \in Seq([key : Key, value : BOOLEAN]) /\ ToSet(<<>>) = {} /\ k \in Int \cup {NaN, Infinity}
  BY <1>4 DEF ToSet, RRFK
<1>12. c \in AnswerCall
  BY <1>4, <1>9, <1>11 DEF Answers, AnswerCall
<1> HIDE DEF c
<1>13. call' = c
  BY <1>2 DEF c, lists, k, topK, texts
<1>14. Answer(call)'
  BY <1>3, <1>4, <1>6, <1>9, <1>10, <1>11, <1>12, <1>13 DEF Answer, AnswerCall, RRFK, Sourced
<1> QED
  BY <1>14 DEF Calling

LEMMA SearchVectorsStep ==
  ASSUME ServerInv, SearchVectors
  PROVE  Calling'
<1> DEFINE topK == call.topK
           ranked == IF call.vec THEN Found("dense", Items, topK) ELSE <<>>
<1>1. call # Gone /\ call.at = "Dense" /\ UNCHANGED storeVars
  BY DEF SearchVectors, Goes
<1>2. call' = Answers(<<>>, 0, topK, ranked, {})
  BY DEF SearchVectors, Goes
<1>3. call \in VectorCall /\ seen' = seen /\ scoring \in Scoring
  BY <1>1, WhichCall DEF storeVars, ServerInv, Starting
<1>4. topK \in Int /\ Items \in SUBSET Key /\ Items \subseteq seen /\ "dense" \in Stream
  BY <1>1, <1>3, StreamFacts DEF VectorCall, Items, ServerInv, Storing
<1> HIDE DEF topK
<1>5. /\ ranked \in Seq(Key) /\ KeysOf(ranked) \subseteq seen
      /\ topK > 0 => Len(ranked) <= topK
  <2>1. /\ Found("dense", Items, topK) \in Seq(Key) /\ KeysOf(Found("dense", Items, topK)) \subseteq Items
        /\ topK > 0 => Len(Found("dense", Items, topK)) <= topK
    BY <1>3, <1>4, FoundTyped
  <2>2. <<>> \in Seq(Key) /\ KeysOf(<<>>) = {} /\ Len(<<>>) = 0
    BY DEF KeysOf
  <2> QED
    BY <1>4, <2>1, <2>2
<1> HIDE DEF ranked
<1> DEFINE none == {}
<1>6. none \in SUBSET Key /\ KeysOf(ranked) \subseteq seen' \cup none /\ call' = Answers(<<>>, 0, topK, ranked, none)
  BY <1>2, <1>3, <1>5
<1> HIDE DEF none
<1>7. Answer(call)'
  BY <1>2, <1>4, <1>5, <1>6, AnswerOfOne
<1> QED
  BY <1>7 DEF Calling

LEMMA EnrichStep ==
  ASSUME ServerInv, Enrich
  PROVE  Calling'
<1> DEFINE n == Len(call.results) + 1
           k == call.ranked[n]
           r == [key |-> k, value |-> k \in present]
<1>1. call # Gone /\ call.at = "Enrich" /\ Len(call.results) < Len(call.ranked) /\ UNCHANGED storeVars
  BY DEF Enrich, Goes
<1>2. call' = [call EXCEPT !.results = Append(call.results, r)]
  BY DEF Enrich, Goes
<1>3. Answer(call) /\ seen' = seen /\ missed' = missed
  BY <1>1, WhichCall DEF storeVars
<1>4. call \in AnswerCall /\ call.results \in Seq([key : Key, value : BOOLEAN]) /\ call.ranked \in Seq(Key)
  BY <1>3 DEF Answer, AnswerCall
<1>5. k \in Key /\ k \in KeysOf(call.ranked)
  BY <1>1, <1>4 DEF KeysOf
<1>6. r \in [key : Key, value : BOOLEAN] /\ r.key = k /\ r.value = (k \in present)
  BY <1>5
<1>7. IF r.value THEN r.key \in seen ELSE r.key \in missed
  <2>1. present \subseteq seen /\ Key \ present \subseteq missed
    BY <1>1 DEF ServerInv, Storing
  <2> QED
    BY <1>5, <2>1
<1> HIDE DEF r
<1>8. /\ Append(call.results, r) \in Seq([key : Key, value : BOOLEAN])
      /\ ToSet(Append(call.results, r)) = ToSet(call.results) \cup {r}
  <2> DEFINE S == [key : Key, value : BOOLEAN]
             old == call.results
  <2>1. old \in Seq(S) /\ r \in S
    BY <1>4, <1>6
  <2> HIDE DEF S, old
  <2>2. Append(old, r) \in Seq(S) /\ ToSet(Append(old, r)) = ToSet(old) \cup {r}
    BY <2>1, SendQueue
  <2> QED
    BY <2>2 DEF S, old
<1>9. /\ call' \in AnswerCall /\ call'.results = Append(call.results, r)
      /\ call'.lists = call.lists /\ call'.k = call.k /\ call'.topK = call.topK
      /\ call'.ranked = call.ranked /\ call'.texts = call.texts
  BY <1>2, <1>4, <1>8 DEF AnswerCall
<1>10. \A x \in ToSet(call'.results) : IF x.value THEN x.key \in seen' ELSE x.key \in missed'
  BY <1>3, <1>7, <1>8, <1>9 DEF Answer
<1>11. Answer(call)'
  BY <1>3, <1>9, <1>10 DEF Answer, AnswerCall, RRFK, Sourced
<1> QED
  BY <1>11 DEF Calling

\* What is remembered of the store grows while a request is followed.
LEMMA CallKept ==
  ASSUME Calling, call' = call, seen \subseteq seen', missed \subseteq missed'
  PROVE  Calling'
<1>1. CASE call = Gone
  BY <1>1 DEF Calling
<1>2. CASE Hybrid(call)
  <2>1. Hybrid(call)'
    BY <1>2 DEF Hybrid, HybridCall, RRFK, Sourced
  <2> QED
    BY <2>1 DEF Calling
<1>3. CASE call \in VectorCall
  BY <1>3 DEF Calling, VectorCall
<1>4. CASE Answer(call)
  <2>1. \A x \in ToSet(call.results) : IF x.value THEN x.key \in seen' ELSE x.key \in missed'
    BY <1>4 DEF Answer
  <2>2. Answer(call)'
    BY <1>4, <2>1 DEF Answer, AnswerCall, RRFK, Sourced
  <2> QED
    BY <2>2 DEF Calling
<1> QED
  BY <1>1, <1>2, <1>3, <1>4 DEF Calling

LEMMA CallingStep == ServerInv /\ [Next]_vars => Calling'
<1> SUFFICES ASSUME ServerInv, [Next]_vars PROVE Calling'
  OBVIOUS
<1>1. CASE Startup \/ UNCHANGED vars
  <2>1. UNCHANGED <<storeVars, call>>
    BY <1>1 DEF Startup, LoadConfig, Construct, ListenFails, Serve, vars
  <2> QED
    BY <2>1, CallKept DEF ServerInv, storeVars
<1>2. CASE \E strategies \in StrategyLists, query, vec \in BOOLEAN, topK \in Asked, rrfK \in AskedRRFK :
             HybridSearch(strategies, query, vec, topK, rrfK)
  BY <1>2, HybridBegins DEF Calling
<1>3. CASE \E query, vec \in BOOLEAN, topK \in Asked : VectorSearch(query, vec, topK)
  BY <1>3, VectorBegins DEF Calling
<1>4. CASE \E s \in TextStream, query \in BOOLEAN, topK \in Asked : TextSearch(s, query, topK)
  BY <1>4, TextBegins DEF Calling
<1>5. CASE EmbedQuery \/ SearchStream \/ Fuse \/ SearchVectors \/ Enrich
  BY <1>5, EmbedQueryStep, SearchStreamStep, FuseStep, SearchVectorsStep, EnrichStep
<1>6. CASE Return
  BY <1>6 DEF Return, Calling
<1>7. ASSUME NEW k \in Key, Change(k) PROVE Calling'
  <2>1. call' = call
    BY <1>7 DEF Change
  <2>2. CASE call = Gone
    BY <2>1, <2>2 DEF Calling
  <2>3. CASE call # Gone
    <3>1. seen \subseteq seen' /\ missed \subseteq missed'
      BY <1>7, <2>3 DEF Change
    <3> QED
      BY <2>1, <3>1, CallKept DEF ServerInv
  <2> QED
    BY <2>2, <2>3
<1> QED
  BY <1>1, <1>2, <1>3, <1>4, <1>5, <1>6, <1>7 DEF Next, Request, Handle

-----------------------------------------------------------------------------
(* Theorems                                                                *)

\* The invariant holds in every state: what main has loaded and built is what the
\* file and the environment say, and what a request has gathered was in the store.
THEOREM ServerCorrect == Spec => []ServerInv
<1>1. Init => ServerInv
  BY StartingInit, StoringInit DEF ServerInv
<1>2. ServerInv /\ [Next]_vars => ServerInv'
  BY StartingStep, StoringStep, CallingStep DEF ServerInv
<1> QED
  BY <1>1, <1>2, PTL DEF Spec

\* Every variable has its type, and no answer is longer than was asked for
\* (main.go:36-100, grpc.go:120-370).
THEOREM ServerTyped == Spec => []TypeOK
<1>1. ServerInv => TypeOK
  <2> SUFFICES ASSUME ServerInv PROVE TypeOK
    OBVIOUS
  <2>1. srv # Gone => srv.embedder \in BOOLEAN /\ srv.rrfK \in (Nat \ {0}) \cup {NaN, Infinity}
    BY DEF ServerInv, Starting, Handler
  <2>2. ASSUME call # Gone
        PROVE  /\ call.at \in {"Embed", "Search", "Dense", "Enrich"}
               /\ call.lists \in Seq(Seq(Key))
               /\ call.at = "Enrich" =>
                    /\ call.ranked \in Seq(Key)
                    /\ call.topK > 0 => Len(call.ranked) <= call.topK
                    /\ call.results \in Seq([key : Key, value : BOOLEAN])
    <3>1. CASE Hybrid(call)
      BY <3>1 DEF Hybrid, HybridCall
    <3>2. CASE call \in VectorCall
      <4>1. <<>> \in Seq(Seq(Key))
        OBVIOUS
      <4> QED
        BY <3>2, <4>1 DEF VectorCall
    <3>3. CASE Answer(call)
      BY <3>3 DEF Answer, AnswerCall
    <3> QED
      BY <2>2, <3>1, <3>2, <3>3 DEF ServerInv, Calling
  <2> QED
    BY <2>1, <2>2 DEF TypeOK, ServerInv, Starting, Storing
<1> QED
  BY <1>1, ServerCorrect, PTL

\* The server listens with the configuration as it was written, with the defaults
\* for what was not written or not valid. Seconds that a time.Duration has room for
\* are the period of the ticker and the timeout of the embedder; for any others the
\* ticker still has a positive period and a request to the sidecar a deadline. main
\* panics for nothing else but such seconds, or a buffer that cannot be allocated
\* (config.go:127-237, main.go:36-68, client.go:52-76, 119-122).
THEOREM ConfigurationAsWritten == Spec => []ConfigAsWritten
<1>1. ServerInv => ConfigAsWritten
  <2> SUFFICES ASSUME ServerInv PROVE ConfigAsWritten
    OBVIOUS
  <2> DEFINE period == Written("TTLCheckIntervalSeconds")
             timeout == Written("TimeoutSeconds")
             client == running.embedder
  <2>1. ASSUME phase \in {"Panicked", "Listen"}
        PROVE  /\ file \in File /\ env \in Env /\ ~LoadFails(file) /\ cfg = Load(file, env)
               /\ cfg.TTLCheckIntervalSeconds = period /\ cfg.TimeoutSeconds = timeout
               /\ cfg.Enabled = Written("Enabled")
               /\ cfg.ChannelBufferSize = Written("ChannelBufferSize")
               /\ period \in Nat \ {0}
    <3>1. file \in File /\ env \in Env /\ ~LoadFails(file) /\ cfg = Load(file, env)
      BY <2>1 DEF ServerInv, Starting
    <3>2. \A s \in Setting : cfg[s] = Written(s)
      BY <3>1, Loaded
    <3>3. cfg.TTLCheckIntervalSeconds \in Nat \ {0}
      BY <3>1, Loaded
    <3> QED
      BY <3>1, <3>2, <3>3, SettingsFacts
  <2>2. ASSUME phase = "Panicked"
        PROVE  \/ ~FitsDuration(period)
               \/ Written("Enabled") /\ Written("ChannelBufferSize") > MaxBuffer
    <3>1. NewEnginePanics(cfg) \/ (cfg.Enabled /\ NewClientPanics(cfg))
      BY <2>2 DEF ServerInv, Starting
    <3>2. CASE NewEnginePanics(cfg)
      <4>1. Duration(period) <= 0
        BY <2>1, <2>2, <3>2 DEF NewEnginePanics
      <4> DEFINE d == Duration(period)
      <4>2. d <= 0 /\ d \in Int /\ (FitsDuration(period) => d > 0)
        BY <2>1, <2>2, <4>1, Durations
      <4> HIDE DEF d
      <4> QED
        BY <4>2
    <3>3. CASE cfg.Enabled /\ NewClientPanics(cfg)
      <4>1. BufferSize(cfg) = cfg.ChannelBufferSize
        BY <2>1, <2>2, ClientMade
      <4> QED
        BY <2>1, <2>2, <3>3, <4>1 DEF NewClientPanics
    <3> QED
      BY <3>1, <3>2, <3>3
  <2>3. ASSUME phase = "Listen"
        PROVE  /\ \A s \in Setting : cfg[s] = Written(s)
               /\ running.bm25 = <<Written("BM25K1"), Written("BM25B")>>
               /\ running.ngram = Written("NgramSize") /\ running.lsa = Written("DimK")
               /\ running.rrfK = Written("DefaultRRFK")
               /\ running.limit > 0 /\ running.ticker > 0
               /\ FitsDuration(period) => running.ticker = period * Second
               /\ client # Gone <=> Written("Enabled")
               /\ Written("Enabled") =>
                    /\ client.buffer = Written("ChannelBufferSize")
                    /\ client.workers = Written("WorkerPoolSize")
                    /\ client.url = Written("URL")
                    /\ client.requestTimeout > 0
                    /\ FitsDuration(timeout) =>
                         /\ client.clientTimeout = timeout * Second
                         /\ client.requestTimeout = timeout * Second
    <3>1. file \in File /\ env \in Env /\ ~LoadFails(file) /\ cfg = Load(file, env) /\ running = Components
      BY <2>3 DEF ServerInv, Starting
    <3>2. \A s \in Setting : cfg[s] = Written(s)
      BY <3>1, Loaded
    <3>3. /\ cfg.BM25K1 = Written("BM25K1") /\ cfg.BM25B = Written("BM25B")
          /\ cfg.NgramSize = Written("NgramSize") /\ cfg.DimK = Written("DimK")
          /\ cfg.DefaultRRFK = Written("DefaultRRFK")
          /\ cfg.WorkerPoolSize = Written("WorkerPoolSize") /\ cfg.URL = Written("URL")
      BY <3>2, SettingsFacts
    <3>4. /\ running.rrfK = cfg.DefaultRRFK
          /\ running.limit = cfg.MaxMemoryBytes
          /\ running.ticker = Duration(cfg.TTLCheckIntervalSeconds)
          /\ running.bm25 = <<cfg.BM25K1, cfg.BM25B>>
          /\ running.ngram = cfg.NgramSize /\ running.lsa = cfg.DimK
          /\ running.embedder # Gone <=> cfg.Enabled
          /\ cfg.Enabled => running.embedder = NewClientWithCallback(cfg)
      BY <3>1, Constructed
    <3>5. running.limit > 0
      BY <3>1, <3>4, Loaded
    <3>6. running.ticker > 0 /\ (FitsDuration(period) => running.ticker = period * Second)
      <4>1. ~(Duration(cfg.TTLCheckIntervalSeconds) <= 0)
        BY <2>3 DEF ServerInv, Starting, NewEnginePanics
      <4> DEFINE d == Duration(period)
      <4>2. d \in Int /\ ~(d <= 0) /\ (FitsDuration(period) => d = period * Second) /\ running.ticker = d
        BY <2>1, <2>3, <3>4, <4>1, Durations
      <4> HIDE DEF d
      <4> QED
        BY <4>2
    <3>7. ASSUME cfg.Enabled
          PROVE  /\ client.buffer = cfg.ChannelBufferSize
                 /\ client.workers = cfg.WorkerPoolSize /\ client.url = cfg.URL
                 /\ client.requestTimeout > 0
                 /\ FitsDuration(cfg.TimeoutSeconds) =>
                      /\ client.clientTimeout = cfg.TimeoutSeconds * Second
                      /\ client.requestTimeout = cfg.TimeoutSeconds * Second
      <4>1. client = NewClientWithCallback(cfg)
        BY <3>4, <3>7
      <4> HIDE DEF client
      <4> QED
        BY <3>1, <4>1, ClientMade
    <3>8. /\ cfg.TimeoutSeconds = timeout /\ cfg.Enabled = Written("Enabled")
          /\ cfg.ChannelBufferSize = Written("ChannelBufferSize")
      BY <2>1, <2>3
    <3> HIDE DEF client, timeout, period
    <3>9. Written("Enabled") =>
                    /\ client.buffer = Written("ChannelBufferSize")
                    /\ client.workers = Written("WorkerPoolSize")
                    /\ client.url = Written("URL")
                    /\ client.requestTimeout > 0
                    /\ FitsDuration(timeout) =>
                         /\ client.clientTimeout = timeout * Second
                         /\ client.requestTimeout = timeout * Second
      BY <3>3, <3>7, <3>8
    <3>10. client # Gone <=> Written("Enabled")
      BY <3>4, <3>8 DEF client
    <3> QED
      BY <3>2, <3>3, <3>4, <3>5, <3>6, <3>9, <3>10
  <2> QED
    BY <2>2, <2>3 DEF ConfigAsWritten
<1> QED
  BY <1>1, ServerCorrect, PTL

\* Whatever strategies come and in whatever order, a hybrid search uses every stream
\* they name, and another only if one of them is UNSPECIFIED and the fields of the
\* request allow it (grpc.go:271-294).
THEOREM StreamsAsAsked == Spec => []StrategiesAsAsked
<1>1. StrategiesAsAsked
  <2> SUFFICES ASSUME NEW strategies \in StrategyLists \ {<<>>}, NEW query \in BOOLEAN, NEW vec \in BOOLEAN
               PROVE  LET use == Selected(strategies, query, vec)
                          named == Named(strategies, query)
                      IN /\ named \subseteq use
                         /\ "UNSPECIFIED" \notin ToSet(strategies) => use = named
                         /\ \A s \in use \ named : IF s = "dense" THEN HasDense(query, vec) ELSE query
    BY DEF StrategiesAsAsked
  <2> DEFINE use == Selected(strategies, query, vec)
             named == Named(strategies, query)
             asked == ToSet(strategies)
  <2>1. strategies \in Seq(Strategy) /\ strategies # <<>>
    BY StrategyListsTyped
  <2>2. use = UNION {StandsFor(strategies[n], query, vec) : n \in DOMAIN strategies}
    BY <2>1, SelectsAsAsked
  <2>3. use = UNION {StandsFor(s, query, vec) : s \in asked}
    BY <2>2 DEF ToSet
  <2>4. named = {s \in asked \ {"UNSPECIFIED"} : s = "dense" \/ query}
    BY DEF Named
  <2> HIDE DEF use, named, asked
  <2>5. named \subseteq use
    <3> SUFFICES ASSUME NEW s \in named PROVE s \in use
      OBVIOUS
    <3>1. s \in asked /\ s \in StandsFor(s, query, vec)
      BY <2>4 DEF StandsFor
    <3> QED
      BY <2>3, <3>1
  <2>6. ASSUME NEW s \in use
        PROVE  \/ s \in named
               \/ "UNSPECIFIED" \in asked /\ s \in AutoDetected(query, vec)
    <3>1. PICK t \in asked : s \in StandsFor(t, query, vec)
      BY <2>3
    <3> QED
      BY <2>4, <3>1 DEF StandsFor
  <2>7. \A s \in AutoDetected(query, vec) : IF s = "dense" THEN HasDense(query, vec) ELSE query
    BY DEF AutoDetected
  <2> QED
    BY <2>5, <2>6, <2>7 DEF use, named, asked
<1> QED
  BY <1>1, PTL

\* Whatever the text indexes have, a result that none of them gave is an entry that
\* was in the store at some time during the request; and whoever gave it, a result
\* has a value only if the entry was there at some time during the request, and none
\* only if it was not (grpc.go:248, 298-338, 351-366).
THEOREM ResultsWereThere == Spec => []ResultsFromRequest
<1>1. ServerInv => ResultsFromRequest
  <2> SUFFICES ASSUME ServerInv, call # Gone, call.at = "Enrich"
               PROVE  /\ KeysOf(call.ranked) \ call.texts \subseteq seen
                      /\ \A r \in ToSet(call.results) : IF r.value THEN r.key \in seen ELSE r.key \in missed
    BY DEF ResultsFromRequest
  <2>1. Answer(call)
    BY WhichCall
  <2> QED
    BY <2>1 DEF Answer
<1> QED
  BY <1>1, ServerCorrect, PTL

\* Rank fusion keeps the order its lists agree on, cut or not, for every constant
\* that float64 can add a rank to, and is as long as it may be for any
\* (hybrid.go:16-44).
THEOREM FusionKeepsOrder == Spec => []FusionAgrees
<1>1. ServerInv => FusionAgrees
  <2> SUFFICES ASSUME ServerInv, call # Gone, call.at = "Enrich", call.lists # <<>>
               PROVE  FusionAgrees
    BY DEF FusionAgrees
  <2> DEFINE lists == call.lists
             fused == call.ranked
             found == KeysFound(lists)
             topK == call.topK
             n == Cardinality(found)
  <2>1. Answer(call)
    BY WhichCall
  <2>2. /\ AreLists(lists, Key) /\ call.k \in RRFK /\ topK \in Int
        /\ fused \in Fused(lists, topK, call.k)
    BY <2>1 DEF Answer, AnswerCall, Sourced
  <2>3. IsFiniteSet(Key) /\ Key \subseteq Int
    BY KeyAssumption
  <2> HIDE DEF lists, fused, topK
  <2>4. IsCut(fused, found, topK) /\ (Plain(call.k) => KeepsOrder(fused, lists))
    BY <2>2, <2>3, FusedAgrees DEF RRFK
  <2>5. n \in Nat
    BY <2>2, <2>3, FoundFacts
  <2> HIDE DEF found
  <2>6. KeysOf(fused) \subseteq found /\ Len(fused) = IF topK > 0 /\ n > topK THEN topK ELSE n
    BY <2>2, <2>4, <2>5, CutOfKeys
  <2>7. Len(fused) = IF topK > 0 THEN Min({topK, n}) ELSE n
    <3>1. CASE topK > 0
      <4>1. Min({topK, n}) = IF n > topK THEN topK ELSE n
        BY <2>2, <2>5, <3>1, SmallerOf
      <4> QED
        BY <2>6, <3>1, <4>1
    <3>2. CASE ~(topK > 0)
      BY <2>6, <3>2
    <3> QED
      BY <3>1, <3>2
  <2>8. ASSUME call.k \notin {NaN, Infinity} /\ call.k < Coarse, NEW j \in found, NEW l \in found, l \in KeysOf(fused),
               \A list \in ToSet(lists) : l \in KeysOf(list) => Ahead(list, j, l)
        PROVE  Ahead(fused, j, l)
    <3>1. \A i \in DOMAIN lists : l \in KeysOf(lists[i]) => Ahead(lists[i], j, l)
      BY <2>8 DEF ToSet
    <3> QED
      BY <2>4, <2>8, <3>1 DEF KeepsOrder, found, Plain
  <2> QED
    BY <2>6, <2>7, <2>8 DEF FusionAgrees, KeysFound, lists, fused, topK, found
<1> QED
  BY <1>1, ServerCorrect, PTL
=============================================================================
