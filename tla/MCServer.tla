------------------------------ MODULE MCServer ------------------------------
(* A file and an environment that give at most one setting a value of their *)
(* own, and streams that agree, disagree and do not find every key.         *)
EXTENDS Server

Silent == [s \in Setting |-> Missing]

Values(s) ==
  CASE s \in Flag -> BOOLEAN
    [] s = "DefaultRRFK" -> {-1, 0, Infinity}
    [] s \in Float -> {-1, 0, 1, 101, NaN, Infinity}
    [] s = "URL" -> {0, 2}
    [] s = "GRPCPort" -> {-1, 0, 1, 70000}
    \* There is room for 51 seconds; 52 become negative, 103 less than one, 512 none.
    [] s \in {"TTLCheckIntervalSeconds", "TimeoutSeconds"} -> {-1, 0, 51, 52, 103, 512}
    [] OTHER -> {-1, 0, 1, 1000}

Texts(s) ==
  IF s = "Enabled" THEN {TRUE, Garbage}
  ELSE IF s = "URL" THEN {2}
  ELSE IF s = "DefaultRRFK" THEN {Garbage, NaN, Infinity} ELSE {Garbage, -1, 0, 7}

MCFile == {NotThere, Unreadable, Malformed, Silent}
            \cup UNION {{[Silent EXCEPT ![s] = v] : v \in Values(s)} : s \in Setting}
MCEnv == {Silent} \cup UNION {{[Silent EXCEPT ![s] = v] : v \in Texts(s)} : s \in FromEnv}

MCIndexed == {Key, {2, 3}}

Places(list) == [k \in KeysOf(list) |-> <<100, CHOOSE n \in DOMAIN list : list[n] = k>>]

MCScoring ==
  {[surface |-> Places(<<1, 2, 3>>), bm25 |-> Places(<<3, 1>>), tfidf |-> Places(<<3, 2, 1>>),
    lsa |-> Places(<<2>>), dense |-> [k \in Key |-> IF k = 1 THEN <<0, 1>> ELSE <<1, 2>>]],
   [surface |-> Places(<<3, 2, 1>>), bm25 |-> Places(<<3, 2>>), tfidf |-> Places(<<2, 1>>),
    lsa |-> Places(<<>>), dense |-> Places(<<3, 1, 2>>)]}
=============================================================================
