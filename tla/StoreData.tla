----------------------------- MODULE StoreData -----------------------------
(***************************************************************************)
(* The data the store keeps (internal/store/engine.go: Item, itemSize) and *)
(* the effect each Engine operation has on the map, as functions of the    *)
(* map. Every module about the store builds on these operators.            *)
(*                                                                         *)
(* A Go map[string]Item is a total function from Key to Entry: a key that  *)
(* is not in the map has the entry Absent. A value and a vector are        *)
(* members of small sets; only their lengths are told apart further.       *)
(* LastAccessedAt is left out: the code writes it and never reads it.      *)
(***************************************************************************)
EXTENDS Integers, FiniteSets

CONSTANTS
  Key, Value, Vector,  \* cache keys, payloads and embeddings
  Cost,                \* CostMs values clients send
  KeyLen,              \* [Key -> Nat], len(key)
  ValueLen,            \* [Value -> Nat], len(item.Value)
  VectorLen,           \* [Vector -> Nat], len(item.Vector); 0 for "no vector"
  SizeofItem,          \* unsafe.Sizeof(Item{})
  MaxMemoryBytes,      \* Engine.maxMemoryBytes
  Absent               \* the entry of a key that is not in the map

Item == [value : Value, costMs : Cost, vector : Vector,
         accessCount : Nat, expiresAt : Nat]

Entry == Item \cup {Absent}

ASSUME KeyAssumption == IsFiniteSet(Key)
ASSUME LenAssumption ==
  /\ KeyLen \in [Key -> Nat]
  /\ ValueLen \in [Value -> Nat]
  /\ VectorLen \in [Vector -> Nat]
ASSUME CostAssumption == Cost \subseteq Int
ASSUME SizeAssumption == SizeofItem \in Nat \ {0} /\ MaxMemoryBytes \in Nat
ASSUME AbsentAssumption == Absent \notin Item

-----------------------------------------------------------------------------
(* Sizes *)

itemSize(key, item) ==
  KeyLen[key] + ValueLen[item.value] + 4 * VectorLen[item.vector] + SizeofItem

EntrySize(key, e) == IF e = Absent THEN 0 ELSE itemSize(key, e)

\* The bytes of a map, each one a pair of its key and its number there, so
\* that the total is a cardinality instead of a sum over the keys.
Bytes(key, e) == {key} \X (1 .. EntrySize(key, e))
Footprint(data) == Cardinality(UNION {Bytes(k, data[k]) : k \in Key})

-----------------------------------------------------------------------------
(* Lookups *)

Present(data) == {k \in Key : data[k] # Absent}
EmptyMap == [k \in Key |-> Absent]

\* The zero time is "no expiry"; time.Time.After is strict.
Expired(e, time) == e # Absent /\ e.expiresAt # 0 /\ time > e.expiresAt

\* What Get finds: an expired entry counts as a miss.
Live(data, key, time) == data[key] # Absent /\ ~Expired(data[key], time)

-----------------------------------------------------------------------------
(* Updates: the map after an operation *)

Put(data, key, e) == [data EXCEPT ![key] = e]
Discard(data, key) == Put(data, key, Absent)
\* Mutation: the access is counted the wrong way.
TouchDown(item) == [item EXCEPT !.accessCount = @ - 1]
Touch(item) == [item EXCEPT !.accessCount = @ + 1]

\* Mutation: the limit is tested before the entry is added.
FitsBefore(data, used, key, item) == used <= MaxMemoryBytes

\* Set's test against the limit, for a counter that holds `used` bytes.
Fits(data, used, key, item) ==
  used + (itemSize(key, item) - EntrySize(key, data[key])) <= MaxMemoryBytes
-----------------------------------------------------------------------------
(* Calls and replies *)

SetOp(k, i) == [name |-> "Set", key |-> k, item |-> i]
GetOp(k)    == [name |-> "Get", key |-> k]
DeleteOp(k) == [name |-> "Delete", key |-> k]
LenOp       == [name |-> "Len"]
ItemsOp     == [name |-> "Items"]
UsageOp     == [name |-> "MemoryUsageBytes"]

Op == [name : {"Set"}, key : Key, item : Item]
        \cup [name : {"Get", "Delete"}, key : Key]
        \cup [name : {"Len", "Items", "MemoryUsageBytes"}]

NoReply     == [tag |-> "none"]
Done(ok)    == [tag |-> "done", ok |-> ok]
Found(e)    == [tag |-> "found", entry |-> e]   \* Absent for a miss
Number(n)   == [tag |-> "number", n |-> n]
Snapshot(d) == [tag |-> "snapshot", items |-> d]
Replies == {NoReply} \cup [tag : {"done"}, ok : BOOLEAN]
             \cup [tag : {"found"}, entry : Entry]
             \cup [tag : {"number"}, n : Int]
             \cup [tag : {"snapshot"}, items : [Key -> Entry]]
=============================================================================
