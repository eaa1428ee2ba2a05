----------------------------- MODULE StoreProofs -----------------------------
(***************************************************************************)
(* Proofs about the store, for every set of keys, every length function    *)
(* and every number of clients: the size of a map, the engine with its     *)
(* lock, its counter and its worker, and Evict.                            *)
(***************************************************************************)
EXTENDS Engine, Eviction, FiniteSetTheorems, TLAPS

-----------------------------------------------------------------------------
(* The footprint of a map                                                  *)

\* itemSize is positive, and a key takes as many bytes as its entry's size.
LEMMA SizeType ==
  ASSUME NEW k \in Key, NEW e \in Entry
  PROVE  /\ EntrySize(k, e) \in Nat
         /\ e # Absent => EntrySize(k, e) > 0
         /\ IsFiniteSet(Bytes(k, e))
         /\ Cardinality(Bytes(k, e)) = EntrySize(k, e)
<1>1. EntrySize(k, e) \in Nat /\ (e # Absent => EntrySize(k, e) > 0)
  <2>1. CASE e = Absent
    BY <2>1 DEF EntrySize
  <2>2. CASE e # Absent
    <3>1. e \in Item
      BY <2>2 DEF Entry
    <3>2. /\ KeyLen[k] \in Nat
          /\ ValueLen[e.value] \in Nat
          /\ VectorLen[e.vector] \in Nat
      BY <3>1, LenAssumption DEF Item
    <3> QED
      BY <2>2, <3>2, SizeAssumption DEF EntrySize, itemSize
  <2> QED
    BY <2>1, <2>2
<1>2. /\ IsFiniteSet(1 .. EntrySize(k, e))
      /\ Cardinality(1 .. EntrySize(k, e)) = EntrySize(k, e)
  BY <1>1, FS_Interval
<1>3. IsFiniteSet({k}) /\ Cardinality({k}) = 1
  BY FS_Singleton
<1>4. /\ IsFiniteSet(Bytes(k, e))
      /\ Cardinality(Bytes(k, e)) = 1 * EntrySize(k, e)
  BY <1>2, <1>3, FS_Product DEF Bytes
<1> QED
  BY <1>1, <1>4

\* The bytes of one key and those of all the others.
LEMMA SplitBytes ==
  ASSUME NEW d \in [Key -> Entry], NEW k \in Key
  PROVE  LET others == UNION {Bytes(j, d[j]) : j \in Key \ {k}}
         IN  /\ IsFiniteSet(others)
             /\ Footprint(d) = Cardinality(others) + EntrySize(k, d[k])
             /\ Cardinality(others) \in Nat
<1> DEFINE others == UNION {Bytes(j, d[j]) : j \in Key \ {k}}
           parts == {Bytes(j, d[j]) : j \in Key \ {k}}
<1>1. IsFiniteSet(Key \ {k})
  BY KeyAssumption, FS_Difference
<1>2. IsFiniteSet(parts)
  <2> DEFINE f == [j \in Key \ {k} |-> Bytes(j, d[j])]
  <2>1. f \in Surjection(Key \ {k}, parts)
    BY DEF Surjection
  <2> QED
    BY <1>1, <2>1, FS_Surjection
<1>3. \A T \in parts : IsFiniteSet(T)
  BY SizeType
<1>4. IsFiniteSet(others)
  BY <1>2, <1>3, FS_UNION
<1>5. UNION {Bytes(j, d[j]) : j \in Key} = others \cup Bytes(k, d[k])
  OBVIOUS
<1>6. others \cap Bytes(k, d[k]) = {}
  BY DEF Bytes
<1>7. /\ IsFiniteSet(Bytes(k, d[k]))
      /\ Cardinality(Bytes(k, d[k])) = EntrySize(k, d[k])
      /\ EntrySize(k, d[k]) \in Nat
  BY SizeType
<1>8. Cardinality(others) \in Nat
  BY <1>4, FS_CardinalityType
<1>9. Cardinality(others \cup Bytes(k, d[k]))
        = Cardinality(others) + Cardinality(Bytes(k, d[k])) - Cardinality({})
  BY <1>4, <1>6, <1>7, FS_Union
<1> HIDE DEF others
<1>10. Footprint(d) = Cardinality(others) + EntrySize(k, d[k])
  <2>1. Cardinality({}) = 0
    BY FS_EmptySet
  <2>2. Footprint(d) = Cardinality(others \cup Bytes(k, d[k]))
    BY <1>5 DEF Footprint
  <2> QED
    BY <1>7, <1>8, <1>9, <2>1, <2>2
<1> QED
  BY <1>4, <1>8, <1>10 DEF others

\* Assigning one entry changes the footprint by the difference of the sizes.
LEMMA FootprintPut ==
  ASSUME NEW d \in [Key -> Entry], NEW k \in Key, NEW e \in Entry
  PROVE  /\ Put(d, k, e) \in [Key -> Entry]
         /\ Footprint(Put(d, k, e))
              = Footprint(d) - EntrySize(k, d[k]) + EntrySize(k, e)
<1> DEFINE others(m) == UNION {Bytes(j, m[j]) : j \in Key \ {k}}
           new == Put(d, k, e)
<1>1. new \in [Key -> Entry] /\ new[k] = e
  BY DEF Put
<1>2. others(new) = others(d)
  BY DEF Put
<1>3. /\ Footprint(d) = Cardinality(others(d)) + EntrySize(k, d[k])
      /\ Cardinality(others(d)) \in Nat
  BY SplitBytes
<1>4. Footprint(new) = Cardinality(others(new)) + EntrySize(k, e)
  BY <1>1, SplitBytes
<1>5. EntrySize(k, d[k]) \in Nat /\ EntrySize(k, e) \in Nat
  BY SizeType
<1> HIDE DEF others, new
<1>6. /\ new \in [Key -> Entry]
      /\ Footprint(new) = Footprint(d) - EntrySize(k, d[k]) + EntrySize(k, e)
  BY <1>1, <1>2, <1>3, <1>4, <1>5
<1> QED
  BY <1>6 DEF new

\* A footprint is a natural number, and zero for the empty map.
LEMMA FootprintType ==
  ASSUME NEW d \in [Key -> Entry]
  PROVE  Footprint(d) \in Nat
<1>1. CASE Key = {}
  <2>1. UNION {Bytes(j, d[j]) : j \in Key} = {}
    BY <1>1
  <2> QED
    BY <2>1, FS_EmptySet DEF Footprint
<1>2. ASSUME NEW k \in Key
      PROVE  Footprint(d) \in Nat
  <2> DEFINE others == UNION {Bytes(j, d[j]) : j \in Key \ {k}}
  <2>1. /\ Footprint(d) = Cardinality(others) + EntrySize(k, d[k])
        /\ Cardinality(others) \in Nat
    BY <1>2, SplitBytes
  <2>2. EntrySize(k, d[k]) \in Nat
    BY <1>2, SizeType
  <2> HIDE DEF others
  <2> QED
    BY <2>1, <2>2
<1> QED
  BY <1>1, <1>2

LEMMA FootprintEmpty == Footprint(EmptyMap) = 0
<1>1. UNION {Bytes(k, EmptyMap[k]) : k \in Key} = {}
  BY DEF EmptyMap, Bytes, EntrySize
<1> QED
  BY <1>1, FS_EmptySet DEF Footprint

-----------------------------------------------------------------------------
(* The engine                                                              *)

LEMMA PutType ==
  ASSUME NEW d \in [Key -> Entry], NEW k \in Key, NEW e \in Entry
  PROVE  /\ Put(d, k, e) \in [Key -> Entry]
         /\ Put(d, k, e)[k] = e
         /\ \A j \in Key \ {k} : Put(d, k, e)[j] = d[j]
         /\ Put(Put(d, k, e), k, d[k]) = d
<1>1. Put(d, k, e) \in [Key -> Entry]
  BY DEF Put
<1>2. Put(d, k, e)[k] = e /\ \A j \in Key \ {k} : Put(d, k, e)[j] = d[j]
  BY DEF Put
<1>3. Put(Put(d, k, e), k, d[k]) = d
  BY DEF Put
<1> QED
  BY <1>1, <1>2, <1>3

LEMMA AbsentEntry == Absent \in Entry
BY DEF Entry

LEMMA InputOpType == InputOp \subseteq Op
BY InputAssumption DEF InputOp, Op, SetOp, GetOp, DeleteOp, LenOp, ItemsOp, UsageOp

LEMMA TouchType ==
  ASSUME NEW e \in Entry, e # Absent
  PROVE  /\ Touch(e) \in Item
         /\ Touch(e).value = e.value
         /\ Touch(e).vector = e.vector
         /\ Touch(e).expiresAt = e.expiresAt
<1>1. e \in Item
  BY DEF Entry
<1> QED
  BY <1>1 DEF Item, Touch

\* A client's key and item, by its call.
LEMMA CallType ==
  ASSUME NEW op \in Op
  PROVE  /\ op.name \in Writing => op.key \in Key
         /\ op.name = "Set" => op.item \in Item
BY DEF Op, Writing

-----------------------------------------------------------------------------
(* Type correctness *)

LEMMA TypeInit == Init => TypeOK
<1> SUFFICES ASSUME Init
             PROVE  TypeOK
  OBVIOUS
<1> USE WorkerAssumption
<1>1. EmptyMap \in [Key -> Entry]
  BY DEF EmptyMap, Entry
<1>2. data \in [Key -> Entry] /\ copied \in [Client -> [Key -> Entry]]
  BY <1>1 DEF Init
<1>3. LenOp \in Op
  BY DEF LenOp, Op
<1>4. call \in [Client -> Op]
  BY <1>3 DEF Init
<1>5. ret \in [Client -> Replies]
  BY DEF Init, NoReply, Replies
<1>6. PcOK
  BY DEF Init, PcOK, Proc, ClientLocation, WorkerLocation
<1>7. pending \in [key : Key \cup {Absent}, old : Entry, delta : Int]
  BY AbsentEntry DEF Init, NoPending
<1>8. /\ memoryUsed \in Int /\ now \in Nat /\ sweepTime \in Nat
      /\ writer \in SUBSET Proc /\ readers \in SUBSET Client
  BY DEF Init
<1>9. tick \in BOOLEAN /\ stopped \in BOOLEAN
  BY DEF Init
<1> QED
  BY <1>2, <1>4, <1>5, <1>6, <1>7, <1>8, <1>9 DEF TypeOK

LEMMA ReplyType ==
  /\ \A b \in BOOLEAN : Done(b) \in Replies
  /\ \A e \in Entry : Found(e) \in Replies
  /\ \A n \in Int : Number(n) \in Replies
  /\ \A d \in [Key -> Entry] : Snapshot(d) \in Replies
  /\ NoReply \in Replies
BY DEF Replies, Done, Found, Number, Snapshot

\* What Write and AddMemoryUsed do to the types of the variables they change.
LEMMA WriteType ==
  ASSUME TypeOK, NEW p \in Proc, NEW k \in Key, NEW e \in Entry, Write(p, k, e)
  PROVE  /\ data' \in [Key -> Entry]
         /\ pending' \in [key : Key \cup {Absent}, old : Entry, delta : Int]
         /\ PcOK'
<1>1. data \in [Key -> Entry] /\ data[k] \in Entry
  BY DEF TypeOK
<1>2. data' \in [Key -> Entry]
  BY <1>1, PutType DEF Write
<1>3. EntrySize(k, e) \in Int /\ EntrySize(k, data[k]) \in Int
  BY <1>1, SizeType
<1>4. pending' \in [key : Key \cup {Absent}, old : Entry, delta : Int]
  BY <1>1, <1>3 DEF Write
<1>5. PcOK'
  BY WorkerAssumption DEF TypeOK, Write, Goto, PcOK, Proc, ClientLocation, WorkerLocation
<1> QED
  BY <1>2, <1>4, <1>5

LEMMA AddMemoryUsedType ==
  ASSUME TypeOK, AddMemoryUsed
  PROVE  /\ memoryUsed' \in Int
         /\ pending' \in [key : Key \cup {Absent}, old : Entry, delta : Int]
         /\ data' \in [Key -> Entry]
         /\ now' \in Nat /\ readers' \in SUBSET Client
         /\ copied' \in [Client -> [Key -> Entry]]
BY AbsentEntry DEF TypeOK, AddMemoryUsed, NoPending

LEMMA GotoType ==
  ASSUME TypeOK, NEW p \in Proc, NEW loc, Goto(p, loc),
         p = Worker => loc \in WorkerLocation,
         p # Worker => loc \in ClientLocation
  PROVE  PcOK'
BY WorkerAssumption DEF TypeOK, PcOK, Goto, Proc

LEMMA ReplyStepType ==
  ASSUME TypeOK, NEW c \in Client, NEW r \in Replies, Reply(c, r)
  PROVE  PcOK' /\ ret' \in [Client -> Replies] /\ call' \in [Client -> Op]
<1>1. PcOK'
  BY WorkerAssumption DEF TypeOK, PcOK, Reply, Goto, Proc, ClientLocation
<1>2. ret' \in [Client -> Replies] /\ call' \in [Client -> Op]
  BY DEF TypeOK, Reply
<1> QED
  BY <1>1, <1>2

\* Every step keeps the types.
LEMMA TypeNext == TypeOK /\ [Next]_vars => TypeOK'
<1> SUFFICES ASSUME TypeOK, [Next]_vars
             PROVE  TypeOK'
  OBVIOUS
<1> USE WorkerAssumption DEF storeVars, lockVars, clientVars, workerVars, Unlock
<1>1. ASSUME NEW c \in Client, NEW op \in InputOp, Call(c, op)
      PROVE  TypeOK'
  <2>1. op \in Op
    BY InputOpType
  <2>2. PcOK'
    BY <1>1, GotoType DEF Call, Proc, ClientLocation
  <2>3. call' \in [Client -> Op] /\ ret' \in [Client -> Replies]
    BY <1>1, <2>1, ReplyType DEF Call, TypeOK
  <2> QED
    BY <1>1, <2>2, <2>3 DEF Call, TypeOK
<1>2. ASSUME NEW c \in Client, Lock(c)
      PROVE  TypeOK'
  <2>1. PcOK'
    BY <1>2, GotoType DEF Lock, Proc, ClientLocation
  <2> QED
    BY <1>2, <2>1 DEF Lock, TypeOK, Proc
<1>3. ASSUME NEW c \in Client, NEW r \in Replies, Leave(c, r)
      PROVE  TypeOK'
  <2>1. PcOK' /\ ret' \in [Client -> Replies] /\ call' \in [Client -> Op]
    BY <1>3, ReplyStepType DEF Leave
  <2> QED
    BY <1>3, <2>1 DEF Leave, Reply, TypeOK
<1>4. ASSUME NEW p \in Proc, NEW k \in Key, NEW e \in Entry, Write(p, k, e)
      PROVE  TypeOK'
  <2>1. /\ data' \in [Key -> Entry]
        /\ pending' \in [key : Key \cup {Absent}, old : Entry, delta : Int]
        /\ PcOK'
    BY <1>4, WriteType
  <2> QED
    BY <1>4, <2>1 DEF Write, TypeOK
<1>5. ASSUME NEW c \in Client, Set(c) \/ Get(c) \/ Delete(c)
      PROVE  TypeOK'
  <2>1. /\ call[c].key \in Key
        /\ call[c].name = "Set" => call[c].item \in Entry
        /\ data[call[c].key] \in Entry
    BY <1>5, CallType DEF Set, Get, Delete, Holds, TypeOK, Writing, Entry
  <2>2. CASE Set(c)
    BY <2>1, <2>2, <1>3, <1>4, ReplyType DEF Set, Holds, Proc
  <2>3. CASE Delete(c)
    BY <2>1, <2>3, <1>3, <1>4, ReplyType, AbsentEntry DEF Delete, Proc
  <2>4. CASE Get(c)
    <3> DEFINE key == call[c].key
               item == Touch(data[key])
    <3>1. CASE data[key] = Absent /\ Leave(c, Found(Absent))
      BY <3>1, <1>3, ReplyType, AbsentEntry
    <3>2. CASE Write(c, key, Absent)
      BY <3>2, <2>1, <1>4, AbsentEntry DEF Proc
    <3>3. CASE /\ Live(data, key, now)
               /\ data' = Put(data, key, item)
               /\ Unlock
               /\ Reply(c, Found(item))
               /\ UNCHANGED <<memoryUsed, pending, now, readers, copied>>
      <4>1. item \in Entry
        BY <3>3, <2>1, TouchType DEF Live, Entry
      <4>2. data' \in [Key -> Entry]
        BY <3>3, <2>1, <4>1, PutType DEF TypeOK
      <4>3. PcOK' /\ ret' \in [Client -> Replies] /\ call' \in [Client -> Op]
        BY <3>3, <4>1, ReplyType, ReplyStepType
      <4> QED
        BY <3>3, <4>2, <4>3 DEF Reply, TypeOK
    <3> QED
      BY <2>4, <3>1, <3>2, <3>3 DEF Get
  <2> QED
    BY <1>5, <2>2, <2>3, <2>4
<1>6. ASSUME NEW c \in Client, Account(c)
      PROVE  TypeOK'
  <2>1. PICK r \in Replies : Reply(c, r)
    BY <1>6, ReplyType, AbsentEntry DEF Account
  <2>2. PcOK' /\ ret' \in [Client -> Replies] /\ call' \in [Client -> Op]
    BY <2>1, ReplyStepType
  <2> QED
    BY <1>6, <2>2, AddMemoryUsedType DEF Account, Reply, TypeOK
<1>7. ASSUME NEW c \in Client, ItemsRLock(c)
      PROVE  TypeOK'
  <2>1. PcOK'
    BY <1>7, GotoType DEF ItemsRLock, Proc, ClientLocation
  <2> QED
    BY <1>7, <2>1 DEF ItemsRLock, TypeOK
<1>8. ASSUME NEW c \in Client, NEW k \in Key, ItemsCopy(c, k)
      PROVE  TypeOK'
  <2>1. copied' \in [Client -> [Key -> Entry]]
    BY <1>8 DEF ItemsCopy, TypeOK
  <2> QED
    BY <1>8, <2>1 DEF ItemsCopy, TypeOK, PcOK
<1>9. ASSUME NEW c \in Client, ItemsReturn(c)
      PROVE  TypeOK'
  <2>1. copied[c] \in [Key -> Entry] /\ EmptyMap \in [Key -> Entry]
    BY DEF TypeOK, EmptyMap, Entry
  <2>2. copied' \in [Client -> [Key -> Entry]]
    BY <1>9, <2>1 DEF ItemsReturn, TypeOK
  <2>3. PcOK' /\ ret' \in [Client -> Replies] /\ call' \in [Client -> Op]
    BY <1>9, <2>1, ReplyType, ReplyStepType DEF ItemsReturn
  <2> QED
    BY <1>9, <2>2, <2>3 DEF ItemsReturn, Reply, TypeOK
<1>10. ASSUME TickerFires \/ Stop \/ TimePasses
       PROVE  TypeOK'
  <2>1. /\ UNCHANGED <<data, memoryUsed, pending, lockVars, pc, clientVars, sweepTime>>
        /\ now' \in Nat
    BY <1>10 DEF TickerFires, Stop, TimePasses, TypeOK
  <2>2. tick' \in BOOLEAN /\ stopped' \in BOOLEAN
    BY <1>10 DEF TickerFires, Stop, TimePasses, TypeOK
  <2> QED
    BY <2>1, <2>2 DEF TypeOK, PcOK
<1>11. ASSUME ReceiveTick \/ ReceiveStop \/ SweepLock \/ SweepDone
       PROVE  TypeOK'
  <2>1. PcOK'
    BY <1>11, GotoType
       DEF ReceiveTick, ReceiveStop, SweepLock, SweepDone, Proc, WorkerLocation
  <2>2. /\ UNCHANGED <<storeVars, readers, clientVars, stopped>>
        /\ writer' \in {writer, {}, {Worker}}
        /\ sweepTime' \in {sweepTime, now, 0}
    BY <1>11 DEF ReceiveTick, ReceiveStop, SweepLock, SweepDone
  <2>3. tick' \in BOOLEAN
    BY <1>11 DEF ReceiveTick, ReceiveStop, SweepLock, SweepDone, TypeOK
  <2> QED
    BY <2>1, <2>2, <2>3 DEF TypeOK, Proc
<1>12. ASSUME NEW k \in Key, SweepDelete(k)
       PROVE  TypeOK'
  <2>1. Write(Worker, k, Absent)
    BY <1>12 DEF SweepDelete
  <2>2. /\ data' \in [Key -> Entry]
        /\ pending' \in [key : Key \cup {Absent}, old : Entry, delta : Int]
        /\ PcOK'
    BY <2>1, WriteType, AbsentEntry DEF Proc
  <2> QED
    BY <1>12, <2>2 DEF SweepDelete, Write, TypeOK
<1>13. ASSUME SweepAccount
       PROVE  TypeOK'
  <2>1. PcOK'
    BY <1>13, GotoType DEF SweepAccount, Proc, WorkerLocation
  <2> QED
    BY <1>13, <2>1, AddMemoryUsedType DEF SweepAccount, TypeOK
<1>14. ASSUME NEW c \in Client, Len(c) \/ MemoryUsageBytes(c)
       PROVE  TypeOK'
  <2>1. Cardinality(Present(data)) \in Int /\ memoryUsed \in Int
    BY KeyAssumption, FS_Subset, FS_CardinalityType DEF Present, TypeOK
  <2>2. PICK r \in Replies : Reply(c, r)
    BY <1>14, <2>1, ReplyType DEF Len, MemoryUsageBytes
  <2>3. PcOK' /\ ret' \in [Client -> Replies] /\ call' \in [Client -> Op]
    BY <2>2, ReplyStepType
  <2> QED
    BY <1>14, <2>2, <2>3 DEF Len, MemoryUsageBytes, Reply, TypeOK
<1>15. CASE UNCHANGED vars
  BY <1>15 DEF vars, TypeOK, PcOK
<1> QED
  BY <1>1, <1>2, <1>3, <1>4, <1>5, <1>6, <1>7, <1>8, <1>9, <1>10, <1>11,
     <1>12, <1>13, <1>14, <1>15
     DEF Next, LockStep, WriteStep, ReadStep, WorkerStep

\* Every variable of the engine always has its type (engine.go, all of it).
THEOREM TypeCorrect == Spec => []TypeOK
<1>1. Init => TypeOK
  BY TypeInit
<1>2. TypeOK /\ [Next]_vars => TypeOK'
  BY TypeNext
<1> QED
  BY <1>1, <1>2, PTL DEF Spec

-----------------------------------------------------------------------------
(* The lock *)

LEMMA LockInit == Init => LockDiscipline
<1> SUFFICES ASSUME Init
             PROVE  LockDiscipline
  OBVIOUS
<1>1. \A p \in Proc : pc[p] \in {"select", "idle"}
  BY DEF Init
<1> QED
  BY <1>1 DEF Init, LockDiscipline, At, Unaccounted, NoReaders, Proc

\* Between locked and unlocked a writer is alone, and the readers stay out.
LEMMA LockNext == TypeOK /\ LockDiscipline /\ [Next]_vars => LockDiscipline'
<1> SUFFICES ASSUME TypeOK, LockDiscipline, [Next]_vars
             PROVE  LockDiscipline'
  OBVIOUS
<1> USE WorkerAssumption
    DEF lockVars, LockDiscipline, At, Goto, Proc, Unlock, Unaccounted, NoReaders
<1>0. pc \in [Proc -> ClientLocation \cup WorkerLocation]
  BY DEF TypeOK, PcOK
<1>1. ASSUME NEW c \in Client, NEW op \in InputOp, Call(c, op)
      PROVE  LockDiscipline'
  BY <1>0, <1>1 DEF Call
<1>2. ASSUME NEW c \in Client, Lock(c)
      PROVE  LockDiscipline'
  BY <1>0, <1>2 DEF Lock, CanAnnounce
<1>3. ASSUME NEW c \in Client, NEW r, At(c, "locked"), Leave(c, r)
      PROVE  LockDiscipline'
  BY <1>0, <1>3 DEF Leave, Reply
<1>4. ASSUME NEW p \in Proc, NEW k, NEW e, At(p, "locked") \/ At(p, "sweep"),
             NoReaders, Write(p, k, e)
      PROVE  LockDiscipline'
  BY <1>0, <1>4 DEF Write
<1>5. ASSUME NEW c \in Client, Set(c) \/ Get(c) \/ Delete(c)
      PROVE  LockDiscipline'
  <2>1. At(c, "locked") /\ NoReaders
    BY <1>5 DEF Set, Get, Delete, Holds
  <2>2. \/ \E r : Leave(c, r)
        \/ \E k, e : Write(c, k, e)
        \/ \E r : Unlock /\ Reply(c, r) /\ UNCHANGED readers
    BY <1>5 DEF Set, Get, Delete
  <2>3. CASE \E r : Unlock /\ Reply(c, r) /\ UNCHANGED readers
    BY <1>0, <2>1, <2>3 DEF Reply
  <2> QED
    BY <1>3, <1>4, <2>1, <2>2, <2>3
<1>6. ASSUME NEW c \in Client, Account(c)
      PROVE  LockDiscipline'
  BY <1>0, <1>6 DEF Account, AddMemoryUsed, Reply
<1>7. ASSUME NEW c \in Client, Len(c) \/ MemoryUsageBytes(c)
      PROVE  LockDiscipline'
  BY <1>0, <1>7 DEF Len, MemoryUsageBytes, Reply, Calls
<1>8. ASSUME NEW c \in Client, ItemsRLock(c)
      PROVE  LockDiscipline'
  BY <1>0, <1>8 DEF ItemsRLock, CanRLock, Calls
<1>9. ASSUME NEW c \in Client, NEW k \in Key, ItemsCopy(c, k)
      PROVE  LockDiscipline'
  BY <1>9 DEF ItemsCopy
<1>10. ASSUME NEW c \in Client, ItemsReturn(c)
       PROVE  LockDiscipline'
  BY <1>0, <1>10 DEF ItemsReturn, Reply
<1>11. ASSUME TickerFires \/ Stop \/ TimePasses
       PROVE  LockDiscipline'
  BY <1>11 DEF TickerFires, Stop, TimePasses
<1>12. ASSUME ReceiveTick \/ ReceiveStop
       PROVE  LockDiscipline'
  BY <1>0, <1>12 DEF ReceiveTick, ReceiveStop
<1>13. ASSUME SweepLock
       PROVE  LockDiscipline'
  BY <1>0, <1>13 DEF SweepLock, CanAnnounce
<1>14. ASSUME NEW k \in Key, SweepDelete(k)
       PROVE  LockDiscipline'
  BY <1>4, <1>14 DEF SweepDelete
<1>15. ASSUME SweepAccount
       PROVE  LockDiscipline'
  BY <1>0, <1>15 DEF SweepAccount, AddMemoryUsed
<1>16. ASSUME SweepDone
       PROVE  LockDiscipline'
  BY <1>0, <1>16 DEF SweepDone
<1>17. CASE UNCHANGED vars
  BY <1>17 DEF vars
<1> QED
  BY <1>1, <1>2, <1>5, <1>6, <1>7, <1>8, <1>9, <1>10, <1>11, <1>12, <1>13,
     <1>14, <1>15, <1>16, <1>17
     DEF Next, LockStep, WriteStep, ReadStep, WorkerStep

-----------------------------------------------------------------------------
(* The counter *)

LEMMA CountedType ==
  ASSUME TypeOK, PendingMatches
  PROVE  CountedData \in [Key -> Entry]
<1>1. CASE Unaccounted
  <2>1. pending.key \in Key /\ pending.old \in Entry
    BY <1>1 DEF TypeOK, PendingMatches
  <2> QED
    BY <1>1, <2>1, PutType DEF TypeOK, CountedData
<1>2. CASE ~Unaccounted
  BY <1>2 DEF TypeOK, CountedData
<1> QED
  BY <1>1, <1>2

\* The first of a writer's two steps: the map moves, the counter does not.
LEMMA WriteCounts ==
  ASSUME IInv, NEW p \in Proc, NEW k \in Key, NEW e \in Entry,
         At(p, "locked") \/ At(p, "sweep"), NoReaders, Write(p, k, e)
  PROVE  /\ ~Unaccounted /\ CountedData = data
         /\ Unaccounted' /\ CountedData' = data
         /\ \A q \in Proc : pc'[q] = "account" <=> q = p
         /\ AccountingExact'
         /\ Footprint(data') = memoryUsed - EntrySize(k, data[k]) + EntrySize(k, e)
         /\ EntrySize(k, data[k]) \in Nat /\ EntrySize(k, e) \in Nat
<1>1. TypeOK /\ LockDiscipline /\ AccountingExact
  BY DEF IInv
<1>2. \A q \in Proc : pc[q] # "account"
  BY <1>1 DEF LockDiscipline, At
<1>3. ~Unaccounted /\ CountedData = data
  BY <1>2 DEF Unaccounted, CountedData, At
<1>4. \A q \in Proc : pc'[q] = "account" <=> q = p
  BY <1>1, <1>2 DEF Write, Goto, TypeOK, PcOK
<1>5. Unaccounted'
  BY <1>4 DEF Unaccounted, At
<1>6. data \in [Key -> Entry]
  BY <1>1 DEF TypeOK
<1>7. CountedData' = data
  <2>1. CountedData' = Put(data', pending'.key, pending'.old)
    BY <1>5 DEF CountedData
  <2>2. data' = Put(data, k, e) /\ pending'.key = k /\ pending'.old = data[k]
    BY DEF Write
  <2> QED
    BY <1>6, <2>1, <2>2, PutType
<1>8. AccountingExact'
  BY <1>1, <1>3, <1>7 DEF AccountingExact, Write
<1>9. /\ Footprint(data') = Footprint(data) - EntrySize(k, data[k]) + EntrySize(k, e)
      /\ Footprint(data) = memoryUsed
      /\ EntrySize(k, data[k]) \in Nat /\ EntrySize(k, e) \in Nat
  BY <1>1, <1>3, <1>6, FootprintPut, SizeType DEF Write, AccountingExact
<1> QED
  BY <1>3, <1>4, <1>5, <1>7, <1>8, <1>9

\* The second one: the counter catches up.
LEMMA AddCounts ==
  ASSUME IInv, NEW p \in Proc, NEW loc, At(p, "account"), loc # "account",
         AddMemoryUsed, Goto(p, loc)
  PROVE  /\ Unaccounted /\ ~Unaccounted'
         /\ CountedData' = data /\ data' = data
         /\ data = Put(CountedData, pending.key, data[pending.key])
         /\ memoryUsed' = Footprint(data)
<1>1. TypeOK /\ LockDiscipline /\ AccountingExact /\ PendingMatches
  BY DEF IInv
<1>2. \A q \in Proc : pc[q] = "account" => q = p
  BY <1>1 DEF LockDiscipline, At
<1>3. Unaccounted /\ ~Unaccounted'
  BY <1>1, <1>2 DEF Unaccounted, At, Goto, TypeOK, PcOK
<1>4. data' = data /\ CountedData' = data
  BY <1>3 DEF AddMemoryUsed, CountedData
<1> DEFINE k == pending.key
           old == pending.old
<1>5. /\ data \in [Key -> Entry] /\ k \in Key /\ old \in Entry /\ data[k] \in Entry
      /\ memoryUsed' = Footprint(CountedData)
                         + (EntrySize(k, data[k]) - EntrySize(k, old))
  BY <1>1, <1>3 DEF TypeOK, AccountingExact, PendingMatches, AddMemoryUsed
<1>6. CountedData = Put(data, k, old)
  BY <1>3 DEF CountedData
<1>7. data = Put(CountedData, k, data[k])
  BY <1>5, <1>6 DEF Put
<1>8. Footprint(CountedData) = Footprint(data) - EntrySize(k, data[k]) + EntrySize(k, old)
  BY <1>5, <1>6, FootprintPut
<1>9. /\ Footprint(data) \in Nat
      /\ EntrySize(k, data[k]) \in Nat /\ EntrySize(k, old) \in Nat
  BY <1>5, FootprintType, SizeType
<1>10. memoryUsed' = Footprint(data)
  <2> HIDE DEF k, old
  <2> QED
    BY <1>5, <1>8, <1>9
<1> QED
  BY <1>3, <1>4, <1>7, <1>10

\* A step that touches neither leaves what is counted alone.
LEMMA QuietCounts ==
  ASSUME UNCHANGED <<data, memoryUsed, pending>>,
         \A p \in Proc : pc'[p] = "account" <=> pc[p] = "account"
  PROVE  /\ Unaccounted' = Unaccounted
         /\ CountedData' = CountedData
         /\ AccountingExact' = AccountingExact
         /\ WithinLimit' = WithinLimit
<1>1. Unaccounted' = Unaccounted
  BY DEF Unaccounted, At
<1>2. CountedData' = CountedData
  BY <1>1 DEF CountedData
<1> QED
  BY <1>1, <1>2 DEF AccountingExact, WithinLimit

\* A hit changes an entry's counter only, so the size stays.
LEMMA TouchCounts ==
  ASSUME NEW d \in [Key -> Entry], NEW k \in Key, d[k] # Absent
  PROVE  Footprint(Put(d, k, Touch(d[k]))) = Footprint(d)
<1>1. d[k] \in Entry /\ Touch(d[k]) \in Entry /\ Touch(d[k]) # Absent
  BY TouchType, AbsentAssumption DEF Entry
<1>2. EntrySize(k, Touch(d[k])) = EntrySize(k, d[k])
  BY <1>1, TouchType DEF EntrySize, itemSize
<1>3. /\ Footprint(Put(d, k, Touch(d[k])))
          = Footprint(d) - EntrySize(k, d[k]) + EntrySize(k, d[k])
      /\ Footprint(d) \in Nat /\ EntrySize(k, d[k]) \in Nat
  BY <1>1, <1>2, FootprintPut, FootprintType, SizeType
<1> QED
  BY <1>3

-----------------------------------------------------------------------------
(* The inductive invariant *)

Safe == AccountingExact /\ WithinLimit /\ CopyCurrent /\ PendingMatches

LEMMA SafeInit == Init => Safe
<1> SUFFICES ASSUME Init
             PROVE  Safe
  OBVIOUS
<1>1. \A p \in Proc : pc[p] \in {"select", "idle"}
  BY DEF Init
<1>2. ~Unaccounted /\ CountedData = EmptyMap
  BY <1>1 DEF Init, Unaccounted, CountedData, At
<1>3. AccountingExact /\ WithinLimit
  BY <1>2, FootprintEmpty, SizeAssumption DEF Init, AccountingExact, WithinLimit
<1>4. CopyCurrent
  BY DEF Init, CopyCurrent, EmptyMap
<1>5. PendingMatches
  BY <1>1, <1>2 DEF Init, PendingMatches, At, Proc, Unaccounted
<1> QED
  BY <1>3, <1>4, <1>5 DEF Safe

\* A writer's first step is safe if the new map fits.
LEMMA WriteSafe ==
  ASSUME IInv, NEW p \in Proc, NEW k \in Key, NEW e \in Entry,
         At(p, "locked") \/ At(p, "sweep"), NoReaders, Write(p, k, e),
         e = Absent \/ Fits(data, memoryUsed, k, e),
         p = Worker => e = Absent /\ Expired(data[k], sweepTime),
         p # Worker => /\ call[p].name \in Writing
                       /\ call[p].key = k
                       /\ IF call[p].name = "Set"
                          THEN e = call[p].item /\ Fits(data, memoryUsed, k, e)
                          ELSE e = Absent
                       /\ call[p].name = "Get" => Expired(data[k], now)
                       /\ call[p].name = "Delete" => data[k] # Absent
  PROVE  Safe'
<1>1. /\ CountedData = data /\ CountedData' = data
      /\ Unaccounted'
      /\ \A q \in Proc : pc'[q] = "account" <=> q = p
      /\ AccountingExact'
      /\ Footprint(data') = memoryUsed - EntrySize(k, data[k]) + EntrySize(k, e)
      /\ EntrySize(k, data[k]) \in Nat /\ EntrySize(k, e) \in Nat
  BY WriteCounts
<1>2. TypeOK /\ WithinLimit /\ PendingMatches /\ LockDiscipline /\ CopyCurrent
  BY DEF IInv
<1>3. WithinLimit'
  <2>1. memoryUsed' = memoryUsed /\ memoryUsed <= MaxMemoryBytes /\ memoryUsed \in Int
    BY <1>2 DEF Write, WithinLimit, TypeOK
  <2>2. CASE e = Absent
    <3>1. EntrySize(k, e) = 0
      BY <2>2 DEF EntrySize
    <3> QED
      BY <1>1, <2>1, <3>1, SizeAssumption DEF WithinLimit
  <2>3. CASE e # Absent /\ Fits(data, memoryUsed, k, e)
    <3>1. memoryUsed + (EntrySize(k, e) - EntrySize(k, data[k])) <= MaxMemoryBytes
      BY <2>3 DEF Fits, EntrySize
    <3> QED
      BY <1>1, <2>1, <3>1, SizeAssumption DEF WithinLimit
  <2> QED
    BY <2>2, <2>3
<1>4. CopyCurrent'
  <2>1. copied' = copied /\ readers = {}
    BY DEF Write, NoReaders, clientVars
  <2>2. \A c \in Client : \A j \in Key : copied[c][j] = Absent
    BY <1>2, <2>1 DEF CopyCurrent
  <2> QED
    BY <2>1, <2>2 DEF CopyCurrent
<1>5. /\ data'[k] = e
      /\ pending' = [key |-> k, old |-> data[k],
                     delta |-> EntrySize(k, e) - EntrySize(k, data[k])]
      /\ memoryUsed' = memoryUsed /\ now' = now /\ sweepTime' = sweepTime /\ call' = call
  BY <1>2, PutType DEF Write, TypeOK, clientVars, workerVars
<1>6. PendingMatches'
  <2>1. sweepTime' <= now'
    BY <1>2, <1>5 DEF PendingMatches
  <2>2. /\ pending'.key \in Key
        /\ pending'.delta = EntrySize(pending'.key, data'[pending'.key])
                              - EntrySize(pending'.key, pending'.old)
    BY <1>5
  <2>3. At(Worker, "account")' =>
          data'[pending'.key] = Absent /\ Expired(pending'.old, sweepTime')
    BY <1>1, <1>5 DEF At, Proc
  <2>4. ASSUME NEW c \in Client, At(c, "account")'
        PROVE  PendingOf(c, call[c])'
    BY <1>1, <1>5, <2>4, WorkerAssumption DEF At, Proc, PendingOf, Fits
  <2>5. \A c \in Client : At(c, "copy")' => call'[c].name = "Items"
    BY <1>2, <1>5 DEF PendingMatches, At, Write, Goto, TypeOK, PcOK, Proc
  <2> QED
    BY <2>1, <2>2, <2>3, <2>4, <2>5 DEF PendingMatches
<1> QED
  BY <1>1, <1>3, <1>4, <1>6 DEF Safe

\* Its second step is safe.
LEMMA AddSafe ==
  ASSUME IInv, NEW p \in Proc, NEW loc \in {"idle", "sweep"}, At(p, "account"),
         AddMemoryUsed, Goto(p, loc), call' = call, sweepTime' = sweepTime
  PROVE  Safe'
<1>1. /\ Unaccounted /\ ~Unaccounted'
      /\ CountedData' = data /\ data' = data
      /\ memoryUsed' = Footprint(data)
  BY AddCounts
<1>2. TypeOK /\ WithinLimit /\ PendingMatches /\ CopyCurrent
  BY DEF IInv
<1>3. AccountingExact' /\ WithinLimit'
  BY <1>1, <1>2 DEF AccountingExact, WithinLimit
<1>4. CopyCurrent'
  BY <1>1, <1>2 DEF CopyCurrent, AddMemoryUsed
<1>5. PendingMatches'
  <2>1. \A q \in Proc : pc'[q] # "account"
    BY <1>1 DEF Unaccounted, At
  <2>2. \A c \in Client : pc'[c] = "copy" => call'[c].name = "Items"
    BY <1>2 DEF PendingMatches, At, Goto, TypeOK, PcOK, Proc
  <2> QED
    BY <1>1, <1>2, <2>1, <2>2 DEF PendingMatches, AddMemoryUsed, At, Proc
<1> QED
  BY <1>3, <1>4, <1>5 DEF Safe

\* So is a step that touches neither the map nor the counter, if the clock and
\* the sweep's clock move forward only and Items copies what is there.
LEMMA QuietSafe ==
  ASSUME IInv, UNCHANGED <<data, memoryUsed, pending>>,
         \A p \in Proc : pc'[p] = "account" <=> pc[p] = "account",
         \A c \in Client : pc[c] = "account" => call'[c] = call[c],
         \A c \in Client : pc'[c] = "copy" => call'[c].name = "Items",
         sweepTime' \in {sweepTime, now, 0}, now' \in {now, now + 1},
         pc[Worker] = "account" => sweepTime' = sweepTime,
         \A c \in Client : \A k \in Key :
           copied'[c][k] = Absent \/ (c \in readers' /\ copied'[c][k] = data[k])
  PROVE  Safe'
<1>1. /\ Unaccounted' = Unaccounted
      /\ CountedData' = CountedData
      /\ AccountingExact' = AccountingExact
      /\ WithinLimit' = WithinLimit
  BY QuietCounts
<1>2. TypeOK /\ AccountingExact /\ WithinLimit /\ PendingMatches
  BY DEF IInv
<1>3. CopyCurrent'
  BY DEF CopyCurrent
<1>4. sweepTime' <= now' /\ now <= now' /\ now \in Nat /\ now' \in Nat
  BY <1>2 DEF PendingMatches, TypeOK
<1>5. ASSUME NEW c \in Client, At(c, "account")'
      PROVE  PendingOf(c, call[c])'
  <2>1. PendingOf(c, call[c]) /\ call'[c] = call[c]
    BY <1>2, <1>5 DEF PendingMatches, At, Proc
  <2>2. call[c].name = "Get" => Expired(pending.old, now')
    <3>1. ASSUME call[c].name = "Get"
          PROVE  Expired(pending.old, now')
      <4>1. Expired(pending.old, now) /\ pending.old \in Item
        BY <1>2, <2>1, <3>1 DEF PendingOf, Expired, TypeOK, Entry
      <4>2. pending.old.expiresAt \in Nat
        BY <4>1 DEF Item
      <4> QED
        BY <1>4, <4>1, <4>2 DEF Expired
    <3> QED
      BY <3>1
  <2> QED
    BY <1>1, <2>1, <2>2 DEF PendingOf, Fits
<1>6. PendingMatches'
  BY <1>1, <1>2, <1>4, <1>5 DEF PendingMatches, At, Proc
<1> QED
  BY <1>1, <1>2, <1>3, <1>6 DEF Safe

LEMMA SafeNext == IInv /\ [Next]_vars => Safe'
<1> SUFFICES ASSUME IInv, [Next]_vars
             PROVE  Safe'
  OBVIOUS
<1> USE WorkerAssumption
<1> USE DEF storeVars, lockVars, clientVars, workerVars
<1>0. /\ TypeOK /\ LockDiscipline /\ CopyCurrent /\ PendingMatches
      /\ pc \in [Proc -> ClientLocation \cup WorkerLocation]
      /\ now \in Nat
  BY DEF IInv, TypeOK, PcOK
<1>1. ASSUME NEW c \in Client, NEW op \in InputOp, Call(c, op)
      PROVE  Safe'
  <2>1. /\ UNCHANGED <<storeVars, lockVars, copied, workerVars>>
        /\ \A p \in Proc : pc'[p] = "account" <=> pc[p] = "account"
        /\ \A d \in Client : pc'[d] = "copy" => pc[d] = "copy" /\ call'[d] = call[d]
        /\ \A d \in Client : pc[d] = "account" => call'[d] = call[d]
    BY <1>0, <1>1 DEF Call, At, Goto, Proc, TypeOK
  <2> QED
    BY <1>0, <2>1, QuietSafe DEF CopyCurrent, PendingMatches, At
<1>2. ASSUME NEW c \in Client, NEW r, Leave(c, r), At(c, "locked")
      PROVE  Safe'
  <2>1. /\ UNCHANGED <<storeVars, readers, copied, call, workerVars>>
        /\ \A p \in Proc : pc'[p] = "account" <=> pc[p] = "account"
        /\ \A d \in Client : pc'[d] = "copy" => pc[d] = "copy"
    BY <1>0, <1>2 DEF Leave, Reply, At, Goto, Proc
  <2> QED
    BY <1>0, <2>1, QuietSafe DEF CopyCurrent, PendingMatches, At
<1>3. ASSUME NEW c \in Client, Lock(c) \/ Len(c) \/ MemoryUsageBytes(c)
      PROVE  Safe'
  <2>1. /\ UNCHANGED <<storeVars, readers, copied, call, workerVars>>
        /\ \A p \in Proc : pc'[p] = "account" <=> pc[p] = "account"
        /\ \A d \in Client : pc'[d] = "copy" => pc[d] = "copy"
    BY <1>0, <1>3 DEF Lock, Len, MemoryUsageBytes, Calls, Reply, At, Goto, Proc
  <2> QED
    BY <1>0, <2>1, QuietSafe DEF CopyCurrent, PendingMatches, At
<1>4. ASSUME NEW c \in Client, Set(c)
      PROVE  Safe'
  <2>1. /\ At(c, "locked") /\ NoReaders /\ call[c].name = "Set"
        /\ call[c].key \in Key /\ call[c].item \in Entry
    BY <1>0, <1>4, CallType DEF Set, Holds, TypeOK, Writing, Entry
  <2>2. CASE /\ Fits(data, memoryUsed, call[c].key, call[c].item)
             /\ Write(c, call[c].key, call[c].item)
    BY <2>1, <2>2, WriteSafe DEF Writing, Proc
  <2> QED
    BY <1>2, <1>4, <2>1, <2>2 DEF Set
<1>5. ASSUME NEW c \in Client, Delete(c)
      PROVE  Safe'
  <2>1. /\ At(c, "locked") /\ NoReaders /\ call[c].name = "Delete"
        /\ call[c].key \in Key
    BY <1>0, <1>5, CallType DEF Delete, Holds, TypeOK, Writing
  <2>2. CASE data[call[c].key] # Absent /\ Write(c, call[c].key, Absent)
    BY <2>1, <2>2, WriteSafe, AbsentEntry DEF Writing, Proc
  <2> QED
    BY <1>2, <1>5, <2>1, <2>2 DEF Delete
<1>6. ASSUME NEW c \in Client, Get(c)
      PROVE  Safe'
  <2> DEFINE key == call[c].key
             item == Touch(data[key])
  <2>1. /\ At(c, "locked") /\ NoReaders /\ call[c].name = "Get"
        /\ key \in Key
    BY <1>0, <1>6, CallType DEF Get, Holds, TypeOK, Writing
  <2>2. CASE Expired(data[key], now) /\ Write(c, key, Absent)
    BY <2>1, <2>2, WriteSafe, AbsentEntry DEF Writing, Proc
  <2>3. CASE /\ Live(data, key, now)
             /\ data' = Put(data, key, item)
             /\ Unlock
             /\ Reply(c, Found(item))
             /\ UNCHANGED <<memoryUsed, pending, now, readers, copied>>
    <3>1. /\ \A p \in Proc : pc[p] # "account"
          /\ \A p \in Proc : pc'[p] # "account"
          /\ \A d \in Client : pc'[d] = "copy" => pc[d] = "copy"
          /\ UNCHANGED <<call, workerVars>>
      BY <1>0, <2>1, <2>3 DEF LockDiscipline, Reply, At, Goto, Proc
    <3>2. ~Unaccounted /\ ~Unaccounted'
      BY <3>1 DEF Unaccounted, At
    <3>3. CountedData = data /\ CountedData' = data'
      BY <3>2 DEF CountedData
    <3>4. Footprint(data') = Footprint(data)
      BY <1>0, <2>1, <2>3, TouchCounts DEF Live, TypeOK
    <3>5. AccountingExact' /\ WithinLimit'
      BY <2>3, <3>3, <3>4 DEF IInv, AccountingExact, WithinLimit
    <3>6. CopyCurrent'
      <4>1. \A d \in Client : \A j \in Key : copied[d][j] = Absent
        BY <1>0, <2>1 DEF CopyCurrent, NoReaders
      <4> QED
        BY <2>3, <4>1 DEF CopyCurrent
    <3>7. PendingMatches'
      BY <1>0, <2>3, <3>1, <3>2 DEF PendingMatches, At, Proc
    <3> QED
      BY <3>5, <3>6, <3>7 DEF Safe
  <2> QED
    BY <1>2, <1>6, <2>1, <2>2, <2>3 DEF Get
<1>7. ASSUME NEW c \in Client, Account(c)
      PROVE  Safe'
  BY <1>7, AddSafe DEF Account, Reply, Proc
<1>8. ASSUME NEW c \in Client, ItemsRLock(c)
      PROVE  Safe'
  <2>1. /\ UNCHANGED <<storeVars, call, copied, workerVars>>
        /\ \A p \in Proc : pc'[p] = "account" <=> pc[p] = "account"
        /\ \A d \in Client : pc'[d] = "copy" => pc[d] = "copy" \/ d = c
        /\ call[c].name = "Items"
        /\ readers' = readers \cup {c}
    BY <1>0, <1>8 DEF ItemsRLock, Calls, At, Goto, Proc
  <2> QED
    BY <1>0, <2>1, QuietSafe DEF CopyCurrent, PendingMatches, At
<1>9. ASSUME NEW c \in Client, NEW k \in Key, ItemsCopy(c, k)
      PROVE  Safe'
  <2>1. /\ UNCHANGED <<storeVars, lockVars, call, pc, workerVars>>
        /\ copied' = [copied EXCEPT ![c][k] = data[k]]
        /\ c \in readers
    BY <1>0, <1>9 DEF ItemsCopy, LockDiscipline
  <2>2. \A d \in Client : \A j \in Key :
          copied'[d][j] = Absent \/ (d \in readers /\ copied'[d][j] = data[j])
    BY <1>0, <2>1 DEF CopyCurrent, TypeOK
  <2> QED
    BY <1>0, <2>1, <2>2, QuietSafe DEF PendingMatches, At
<1>10. ASSUME NEW c \in Client, ItemsReturn(c)
       PROVE  Safe'
  <2>1. /\ UNCHANGED <<storeVars, call, workerVars>>
        /\ \A p \in Proc : pc'[p] = "account" <=> pc[p] = "account"
        /\ \A d \in Client : pc'[d] = "copy" => pc[d] = "copy"
        /\ readers' = readers \ {c}
        /\ copied' = [copied EXCEPT ![c] = EmptyMap]
    BY <1>0, <1>10 DEF ItemsReturn, Reply, At, Goto, Proc
  <2>2. \A d \in Client : copied'[d] = IF d = c THEN EmptyMap ELSE copied[d]
    BY <1>0, <2>1 DEF TypeOK
  <2>3. \A d \in Client : \A j \in Key :
          copied'[d][j] = Absent \/ (d \in readers' /\ copied'[d][j] = data[j])
    BY <1>0, <2>1, <2>2 DEF CopyCurrent, EmptyMap
  <2>4. /\ \A d \in Client : pc'[d] = "copy" => call'[d].name = "Items"
        /\ \A d \in Client : pc[d] = "account" => call'[d] = call[d]
    BY <1>0, <2>1 DEF PendingMatches, At
  <2> QED
    BY <2>1, <2>3, <2>4, QuietSafe
<1>11. ASSUME TickerFires \/ Stop \/ TimePasses
       PROVE  Safe'
  <2>1. /\ UNCHANGED <<data, memoryUsed, pending, lockVars, pc, clientVars, sweepTime>>
        /\ now' \in {now, now + 1}
    BY <1>11 DEF TickerFires, Stop, TimePasses
  <2> QED
    BY <1>0, <2>1, QuietSafe DEF CopyCurrent, PendingMatches, At
<1>12. ASSUME ReceiveTick \/ ReceiveStop \/ SweepLock \/ SweepDone
       PROVE  Safe'
  <2>1. /\ UNCHANGED <<storeVars, readers, clientVars>>
        /\ \A p \in Proc : pc'[p] = "account" <=> pc[p] = "account"
        /\ \A d \in Client : pc'[d] = pc[d]
        /\ pc[Worker] # "account"
        /\ sweepTime' \in {sweepTime, now, 0}
    BY <1>0, <1>12 DEF ReceiveTick, ReceiveStop, SweepLock, SweepDone, At, Goto, Proc
  <2> QED
    BY <1>0, <2>1, QuietSafe DEF CopyCurrent, PendingMatches, At
<1>13. ASSUME NEW k \in Key, SweepDelete(k)
       PROVE  Safe'
  BY <1>13, WriteSafe, AbsentEntry DEF SweepDelete, Proc
<1>14. ASSUME SweepAccount
       PROVE  Safe'
  BY <1>14, AddSafe DEF SweepAccount, Proc
<1>15. CASE UNCHANGED vars
  BY <1>0, <1>15, QuietSafe DEF vars, CopyCurrent, PendingMatches, At
<1> QED
  BY <1>1, <1>3, <1>4, <1>5, <1>6, <1>7, <1>8, <1>9, <1>10, <1>11, <1>12,
     <1>13, <1>14, <1>15
     DEF Next, LockStep, WriteStep, ReadStep, WorkerStep

\* The inductive invariant holds throughout.
THEOREM Inductive == Spec => []IInv
<1>1. Init => IInv
  BY TypeInit, LockInit, SafeInit DEF IInv, Safe
<1>2. IInv /\ [Next]_vars => IInv'
  BY TypeNext, LockNext, SafeNext DEF IInv, Safe
<1> QED
  BY <1>1, <1>2, PTL DEF Spec

\* The byte counter is exact at every instant, but for the change whose bytes
\* are still to be counted.
THEOREM Accounting == Spec => []AccountingExact
<1>1. IInv => AccountingExact
  BY DEF IInv
<1> QED
  BY <1>1, Inductive, PTL

\* Neither the map nor the counter ever exceeds the limit.
THEOREM LimitKept == Spec => []WithinLimit
<1>1. IInv => WithinLimit
  BY DEF IInv
<1> QED
  BY <1>1, Inductive, PTL

-----------------------------------------------------------------------------
(* Refinement *)

Busy == {c \in Client : ~At(c, "idle")}

\* The instance has its own copies of StoreData's operators; they are equal.
LEMMA SameOperators ==
  /\ \A d, k, e : Atomic!Put(d, k, e) = Put(d, k, e)
  /\ \A d, k : Atomic!Discard(d, k) = Discard(d, k)
  /\ \A i : Atomic!Touch(i) = Touch(i)
  /\ \A d : Atomic!Footprint(d) = Footprint(d)
  /\ \A d : Atomic!Present(d) = Present(d)
  /\ \A S : Atomic!Cardinality(S) = Cardinality(S)
  /\ \A e, t : Atomic!Expired(e, t) = Expired(e, t)
  /\ \A d, k, t : Atomic!Live(d, k, t) = Live(d, k, t)
  /\ \A d, n, k, i : Atomic!Fits(d, n, k, i) = Fits(d, n, k, i)
<1> USE DEF Atomic!Put, Put, Atomic!EntrySize, EntrySize, Atomic!itemSize, itemSize
<1>0. \A S : Atomic!Cardinality(S) = Cardinality(S)
  BY DEF Atomic!Cardinality, Cardinality
<1>1. \A d, k, e : Atomic!Put(d, k, e) = Put(d, k, e)
  OBVIOUS
<1>2. \A d, k : Atomic!Discard(d, k) = Discard(d, k)
  BY DEF Atomic!Discard, Discard
<1>3. \A i : Atomic!Touch(i) = Touch(i)
  BY DEF Atomic!Touch, Touch
<1>4. \A d : Atomic!Footprint(d) = Footprint(d)
  <2>1. \A k, e : Atomic!Bytes(k, e) = Bytes(k, e)
    BY DEF Atomic!Bytes, Bytes
  <2>2. ASSUME NEW d
        PROVE  Atomic!Footprint(d) = Footprint(d)
    <3>1. {Atomic!Bytes(k, d[k]) : k \in Key} = {Bytes(k, d[k]) : k \in Key}
      BY <2>1
    <3>2. Atomic!Footprint(d) = Cardinality(UNION {Atomic!Bytes(k, d[k]) : k \in Key})
      BY <1>0 DEF Atomic!Footprint
    <3>3. Footprint(d) = Cardinality(UNION {Bytes(k, d[k]) : k \in Key})
      BY DEF Footprint
    <3> QED
      BY <3>1, <3>2, <3>3
  <2> QED
    BY <2>2
<1>5. \A d : Atomic!Present(d) = Present(d)
  BY DEF Atomic!Present, Present
<1>6. \A e, t : Atomic!Expired(e, t) = Expired(e, t)
  BY DEF Atomic!Expired, Expired
<1>7. \A d, k, t : Atomic!Live(d, k, t) = Live(d, k, t)
  BY <1>6 DEF Atomic!Live, Live
<1>8. \A d, n, k, i : Atomic!Fits(d, n, k, i) = Fits(d, n, k, i)
  BY DEF Atomic!Fits, Fits
<1> QED
  BY <1>0, <1>1, <1>2, <1>3, <1>4, <1>5, <1>6, <1>7, <1>8

LEMMA SameMessages ==
  /\ \A b : Atomic!Done(b) = Done(b)
  /\ \A e : Atomic!Found(e) = Found(e)
  /\ \A n : Atomic!Number(n) = Number(n)
  /\ \A d : Atomic!Snapshot(d) = Snapshot(d)
  /\ Atomic!NoReply = NoReply /\ Atomic!LenOp = LenOp
  /\ Atomic!Op = Op /\ Atomic!EmptyMap = EmptyMap
BY DEF Atomic!Done, Done, Atomic!Found, Found, Atomic!Number, Number,
       Atomic!Snapshot, Snapshot, Atomic!NoReply, NoReply, Atomic!LenOp, LenOp,
       Atomic!Op, Op, Atomic!Item, Item, Atomic!EmptyMap, EmptyMap

\* The reply of c ends its call, and no other step does.
LEMMA ReplyBusy ==
  ASSUME TypeOK, NEW c \in Client, NEW r, ~At(c, "idle"), Reply(c, r)
  PROVE  /\ Busy' = Busy \ {c} /\ c \in Busy
         /\ ret' = [ret EXCEPT ![c] = r] /\ call' = call
BY DEF TypeOK, PcOK, Reply, Goto, At, Busy, Proc

LEMMA GotoBusy ==
  ASSUME TypeOK, NEW p \in Proc, NEW loc, Goto(p, loc),
         loc # "idle", ~At(p, "idle")
  PROVE  Busy' = Busy
BY DEF TypeOK, PcOK, Goto, At, Busy, Proc

\* A step that only moves a goroutine is a stuttering step of the atomic store.
LEMMA QuietStutters ==
  ASSUME UNCHANGED <<storeVars, call, ret>>, Busy' = Busy,
         \A p \in Proc : pc'[p] = "account" <=> pc[p] = "account"
  PROVE  UNCHANGED Atomic!avars
BY QuietCounts DEF Atomic!avars, storeVars, Busy

\* So is the first step of a writer: it takes effect with the second one.
LEMMA WriteStutters ==
  ASSUME IInv, NEW p \in Proc, NEW k \in Key, NEW e \in Entry,
         At(p, "locked") \/ At(p, "sweep"), NoReaders, Write(p, k, e)
  PROVE  UNCHANGED Atomic!avars
<1>1. CountedData' = CountedData
  BY WriteCounts
<1>2. Busy' = Busy
  BY GotoBusy DEF Write, At, IInv
<1> QED
  BY <1>1, <1>2 DEF Atomic!avars, Write, clientVars, Busy

\* Who holds a lock before writing sees the map the counter accounts for.
LEMMA UnderLock ==
  ASSUME IInv, NEW p \in Proc,
         \/ At(p, "locked") \/ At(p, "sweep")
         \/ p \in Client /\ At(p, "copy")
         \/ writer = {}
  PROVE  CountedData = data /\ memoryUsed = Footprint(data) /\ ~Unaccounted
<1>1. LockDiscipline /\ AccountingExact
  BY DEF IInv
<1>2. ~Unaccounted
  BY <1>1 DEF LockDiscipline, Unaccounted, At, NoReaders
<1> QED
  BY <1>1, <1>2 DEF CountedData, AccountingExact

\* Leaving without a write, a client has its reply from the atomic store.
LEMMA LeaveRefines ==
  ASSUME IInv, NEW c \in Client, NEW r, At(c, "locked"), Leave(c, r)
  PROVE  /\ c \in Busy /\ CountedData = data
         /\ CountedData' = data /\ memoryUsed = Footprint(data)
         /\ Atomic!Return(c, r)
<1>1. TypeOK
  BY DEF IInv
<1>2. CountedData = data /\ memoryUsed = Footprint(data) /\ ~Unaccounted
  BY UnderLock DEF Proc
<1>3. /\ Busy' = Busy \ {c} /\ c \in Busy
      /\ ret' = [ret EXCEPT ![c] = r] /\ call' = call
  BY <1>1, ReplyBusy DEF Leave, At
<1>4. \A p \in Proc : pc'[p] = "account" <=> pc[p] = "account"
  BY <1>1 DEF Leave, Reply, Goto, At, Proc, TypeOK, PcOK
<1>5. CountedData' = CountedData
  BY <1>4, QuietCounts DEF Leave, storeVars
<1>6. now' = now
  BY DEF Leave, storeVars
<1> QED
  BY <1>2, <1>3, <1>5, <1>6 DEF Atomic!Return, Busy

\* Adding to the counter is where a write takes effect.
LEMMA AccountRefines ==
  ASSUME IInv, NEW c \in Client, Account(c)
  PROVE  Atomic!Next
<1> DEFINE op == call[c]
           k == pending.key
           r == IF op.name = "Get" THEN Found(Absent) ELSE Done(TRUE)
<1>1. TypeOK /\ PendingMatches /\ AccountingExact
  BY DEF IInv
<1>2. /\ Unaccounted
      /\ CountedData' = data
      /\ data = Put(CountedData, k, data[k])
  BY AddCounts DEF Account, Reply, Proc
<1>3. PendingOf(c, op) /\ k \in Key /\ data \in [Key -> Entry]
      /\ pending.old \in Entry
  BY <1>1, <1>2 DEF Account, PendingMatches, TypeOK
<1>4. CountedData[k] = pending.old
  BY <1>2, <1>3, PutType DEF CountedData
<1>5. memoryUsed = Footprint(CountedData)
  BY <1>1 DEF AccountingExact
<1>6. /\ c \in Busy /\ Atomic!Return(c, r)
  BY <1>1, ReplyBusy DEF Account, At, Atomic!Return, AddMemoryUsed, Busy
<1>7. CASE op.name = "Set"
  <2>1. k = op.key /\ data[k] = op.item /\ Fits(CountedData, memoryUsed, k, op.item)
    BY <1>3, <1>7 DEF PendingOf
  <2>2. Atomic!Set(c)
    BY <1>2, <1>5, <1>6, <1>7, <2>1, SameOperators, SameMessages DEF Atomic!Set, Busy
  <2> QED
    BY <2>2 DEF Atomic!Next
<1>8. CASE op.name = "Get"
  <2>1. k = op.key /\ data[k] = Absent /\ Expired(CountedData[k], now)
    BY <1>3, <1>4, <1>8 DEF PendingOf
  <2>2. Atomic!Get(c)
    BY <1>2, <1>6, <1>8, <2>1, SameOperators, SameMessages DEF Atomic!Get, Busy, Live, Discard
  <2> QED
    BY <2>2 DEF Atomic!Next
<1>9. CASE op.name = "Delete"
  <2>1. k = op.key /\ data[k] = Absent /\ CountedData[k] # Absent
    BY <1>3, <1>4, <1>9 DEF PendingOf
  <2>2. Atomic!Delete(c)
    BY <1>2, <1>6, <1>9, <2>1, SameOperators, SameMessages DEF Atomic!Delete, Busy, Discard
  <2> QED
    BY <2>2 DEF Atomic!Next
<1> QED
  BY <1>3, <1>7, <1>8, <1>9 DEF PendingOf, Writing

\* Every step of the engine is a step of the atomic store or a stutter.
LEMMA StepRefines == IInv /\ [Next]_vars => [Atomic!Next]_(Atomic!avars)
<1> SUFFICES ASSUME IInv, [Next]_vars
             PROVE  Atomic!Next \/ UNCHANGED Atomic!avars
  OBVIOUS
<1> USE WorkerAssumption
<1>0. /\ TypeOK /\ LockDiscipline /\ CopyCurrent /\ PendingMatches
      /\ pc \in [Proc -> ClientLocation \cup WorkerLocation]
      /\ data \in [Key -> Entry]
  BY DEF IInv, TypeOK, PcOK
<1>1. ASSUME NEW c \in Client, NEW op \in InputOp, Call(c, op)
      PROVE  Atomic!Next
  <2>1. /\ c \notin Busy /\ Busy' = Busy \cup {c}
        /\ \A p \in Proc : pc'[p] = "account" <=> pc[p] = "account"
    BY <1>0, <1>1 DEF Call, Goto, At, Busy, Proc
  <2>2. CountedData' = CountedData
    BY <1>1, <2>1, QuietCounts DEF Call, storeVars
  <2>3. call'[c] = op /\ op \in Op
    BY <1>0, <1>1, InputOpType DEF Call, TypeOK
  <2>4. /\ call' = [call EXCEPT ![c] = call'[c]] /\ call'[c] \in Atomic!Op
        /\ ret' = [ret EXCEPT ![c] = Atomic!NoReply]
        /\ now' = now
    <3>1. /\ call' = [call EXCEPT ![c] = op] /\ ret' = [ret EXCEPT ![c] = NoReply]
          /\ now' = now
      BY <1>1 DEF Call, storeVars
    <3> QED
      BY <2>3, <3>1, SameMessages
  <2>5. Atomic!Call(c)
    BY <2>1, <2>2, <2>4 DEF Atomic!Call, Busy
  <2> QED
    BY <2>5 DEF Atomic!Next
<1>2. ASSUME NEW c \in Client, Lock(c) \/ ItemsRLock(c)
      PROVE  UNCHANGED Atomic!avars
  <2>1. Busy' = Busy
    BY <1>0, <1>2, GotoBusy DEF Lock, ItemsRLock, Calls, At, Proc
  <2>2. \A p \in Proc : pc'[p] = "account" <=> pc[p] = "account"
    BY <1>0, <1>2 DEF Lock, ItemsRLock, Calls, Goto, At, Proc
  <2> QED
    BY <1>2, <2>1, <2>2, QuietStutters DEF Lock, ItemsRLock, clientVars
<1>3. ASSUME NEW c \in Client, Set(c)
      PROVE  Atomic!Next \/ UNCHANGED Atomic!avars
  <2>1. /\ At(c, "locked") /\ NoReaders /\ call[c].name = "Set"
        /\ call[c].key \in Key /\ call[c].item \in Entry
    BY <1>0, <1>3, CallType DEF Set, Holds, TypeOK, Writing, Entry
  <2>2. CASE Write(c, call[c].key, call[c].item)
    BY <2>1, <2>2, WriteStutters DEF Proc
  <2>3. CASE /\ ~Fits(data, memoryUsed, call[c].key, call[c].item)
             /\ Leave(c, Done(FALSE))
    <3>1. /\ c \in Busy /\ CountedData = data
          /\ CountedData' = data /\ memoryUsed = Footprint(data)
          /\ Atomic!Return(c, Done(FALSE))
      BY <2>1, <2>3, LeaveRefines
    <3>2. Atomic!Set(c)
      BY <2>1, <2>3, <3>1, SameOperators, SameMessages DEF Atomic!Set, Busy
    <3> QED
      BY <3>2 DEF Atomic!Next
  <2> QED
    BY <1>3, <2>2, <2>3 DEF Set
<1>4. ASSUME NEW c \in Client, Delete(c)
      PROVE  Atomic!Next \/ UNCHANGED Atomic!avars
  <2>1. /\ At(c, "locked") /\ NoReaders /\ call[c].name = "Delete"
        /\ call[c].key \in Key
    BY <1>0, <1>4, CallType DEF Delete, Holds, TypeOK, Writing
  <2>2. CASE Write(c, call[c].key, Absent)
    BY <2>1, <2>2, WriteStutters, AbsentEntry DEF Proc
  <2>3. CASE data[call[c].key] = Absent /\ Leave(c, Done(FALSE))
    <3>1. /\ c \in Busy /\ CountedData = data /\ CountedData' = data
          /\ Atomic!Return(c, Done(FALSE))
      BY <2>1, <2>3, LeaveRefines
    <3>2. Discard(data, call[c].key) = data
      BY <1>0, <2>1, <2>3 DEF Discard, Put
    <3>3. Atomic!Delete(c)
      BY <2>1, <2>3, <3>1, <3>2, SameOperators, SameMessages DEF Atomic!Delete, Busy
    <3> QED
      BY <3>3 DEF Atomic!Next
  <2> QED
    BY <1>4, <2>2, <2>3 DEF Delete
<1>5. ASSUME NEW c \in Client, Get(c)
      PROVE  Atomic!Next \/ UNCHANGED Atomic!avars
  <2> DEFINE key == call[c].key
             item == Touch(data[key])
  <2>1. At(c, "locked") /\ NoReaders /\ call[c].name = "Get" /\ key \in Key
    BY <1>0, <1>5, CallType DEF Get, Holds, TypeOK, Writing
  <2>2. CASE Write(c, key, Absent)
    BY <2>1, <2>2, WriteStutters, AbsentEntry DEF Proc
  <2>3. CASE data[key] = Absent /\ Leave(c, Found(Absent))
    <3>1. /\ c \in Busy /\ CountedData = data /\ CountedData' = data
          /\ Atomic!Return(c, Found(Absent))
      BY <2>1, <2>3, LeaveRefines
    <3>2. Discard(data, key) = data
      BY <1>0, <2>1, <2>3 DEF Discard, Put
    <3>3. Atomic!Get(c)
      BY <2>1, <2>3, <3>1, <3>2, SameOperators, SameMessages DEF Atomic!Get, Busy, Live
    <3> QED
      BY <3>3 DEF Atomic!Next
  <2>4. CASE /\ Live(data, key, now)
             /\ data' = Put(data, key, item)
             /\ Unlock
             /\ Reply(c, Found(item))
             /\ UNCHANGED <<memoryUsed, pending, now, readers, copied>>
    <3>1. CountedData = data /\ ~Unaccounted
      BY <2>1, UnderLock DEF Proc
    <3>2. ~Unaccounted'
      BY <1>0, <2>4, <3>1 DEF Unaccounted, Reply, Goto, At, Proc
    <3>3. CountedData' = data'
      BY <3>2 DEF CountedData
    <3>4. /\ Busy' = Busy \ {c} /\ c \in Busy
          /\ ret' = [ret EXCEPT ![c] = Found(item)] /\ call' = call
      BY <1>0, <2>1, <2>4, ReplyBusy DEF At
    <3>5. Atomic!Get(c)
      BY <2>1, <2>4, <3>1, <3>3, <3>4, SameOperators, SameMessages DEF Atomic!Get, Atomic!Return, Busy
    <3> QED
      BY <3>5 DEF Atomic!Next
  <2> QED
    BY <1>5, <2>2, <2>3, <2>4 DEF Get
<1>6. ASSUME NEW c \in Client, Account(c)
      PROVE  Atomic!Next
  BY <1>6, AccountRefines
<1>7. ASSUME NEW c \in Client, NEW r, Reply(c, r), UNCHANGED storeVars,
             ~At(c, "idle"), ~At(c, "account")
      PROVE  c \in Busy /\ CountedData' = CountedData /\ Atomic!Return(c, r)
  <2>1. \A p \in Proc : pc'[p] = "account" <=> pc[p] = "account"
    BY <1>0, <1>7 DEF Reply, Goto, At, Proc
  <2>2. CountedData' = CountedData
    BY <1>7, <2>1, QuietCounts DEF storeVars
  <2> QED
    BY <1>0, <1>7, <2>2, ReplyBusy DEF Atomic!Return, Busy, storeVars
<1>8. ASSUME NEW c \in Client, Len(c) \/ MemoryUsageBytes(c) \/ ItemsReturn(c)
      PROVE  Atomic!Next
  <2>1. CASE Len(c)
    <3> DEFINE r == Number(Cardinality(Present(data)))
    <3>1. CountedData = data
      BY <2>1, UnderLock DEF Len, CanRLock, Proc
    <3>2. /\ call[c].name = "Len" /\ ~At(c, "idle") /\ ~At(c, "account")
          /\ Reply(c, r) /\ UNCHANGED storeVars
      BY <2>1 DEF Len, Calls, At
    <3>3. c \in Busy /\ CountedData' = CountedData /\ Atomic!Return(c, r)
      BY <1>7, <3>2
    <3>4. r = Atomic!Number(Atomic!Cardinality(Atomic!Present(CountedData)))
      BY <3>1, SameOperators, SameMessages
    <3> HIDE DEF r
    <3>5. Atomic!Query(c)
      BY <3>2, <3>3, <3>4 DEF Atomic!Query, Busy
    <3> QED
      BY <3>5 DEF Atomic!Next
  <2>2. CASE MemoryUsageBytes(c)
    <3> DEFINE r == Number(memoryUsed)
    <3>1. /\ call[c].name = "MemoryUsageBytes" /\ ~At(c, "idle") /\ ~At(c, "account")
          /\ Reply(c, r) /\ UNCHANGED storeVars
      BY <2>2 DEF MemoryUsageBytes, Calls, At
    <3>2. c \in Busy /\ CountedData' = CountedData /\ Atomic!Return(c, r)
      BY <1>7, <3>1
    <3>3. r = Atomic!Number(Atomic!Footprint(CountedData))
      BY SameOperators, SameMessages DEF IInv, AccountingExact
    <3>4. Atomic!Query(c)
      BY <3>1, <3>2, <3>3 DEF Atomic!Query, Busy
    <3> QED
      BY <3>4 DEF Atomic!Next
  <2>3. CASE ItemsReturn(c)
    <3> DEFINE r == Snapshot(copied[c])
    <3>1. /\ call[c].name = "Items" /\ ~At(c, "idle") /\ ~At(c, "account")
          /\ Reply(c, r) /\ UNCHANGED storeVars
      BY <1>0, <2>3 DEF ItemsReturn, PendingMatches, At
    <3>2. CountedData = data
      BY <2>3, UnderLock DEF ItemsReturn, Proc
    <3>3. copied[c] = data
      <4>1. \A k \in Key : copied[c][k] = data[k]
        BY <1>0, <2>3 DEF CopyCurrent, ItemsReturn, Present
      <4> QED
        BY <1>0, <4>1 DEF TypeOK
    <3>4. c \in Busy /\ CountedData' = CountedData /\ Atomic!Return(c, r)
      BY <1>7, <3>1
    <3>5. r = Atomic!Snapshot(CountedData)
      BY <3>2, <3>3, SameMessages
    <3>6. Atomic!Query(c)
      BY <3>1, <3>4, <3>5 DEF Atomic!Query, Busy
    <3> QED
      BY <3>6 DEF Atomic!Next
  <2> QED
    BY <1>8, <2>1, <2>2, <2>3
<1>9. ASSUME NEW c \in Client, NEW k \in Key, ItemsCopy(c, k)
      PROVE  UNCHANGED Atomic!avars
  BY <1>9, QuietStutters DEF ItemsCopy, Busy, At
<1>10. CASE TimePasses
  <2>1. CountedData' = CountedData
    BY <1>10, QuietCounts DEF TimePasses
  <2>2. Atomic!Tick
    BY <1>10, <2>1 DEF TimePasses, Atomic!Tick, clientVars, At
  <2> QED
    BY <2>2 DEF Atomic!Next
<1>11. CASE TickerFires \/ Stop
  BY <1>11, QuietStutters DEF TickerFires, Stop, clientVars, Busy, At
<1>12. CASE ReceiveTick \/ ReceiveStop \/ SweepLock \/ SweepDone
  <2>1. Busy' = Busy
    BY <1>0, <1>12 DEF ReceiveTick, ReceiveStop, SweepLock, SweepDone,
                        Busy, Goto, At, Proc
  <2>2. \A p \in Proc : pc'[p] = "account" <=> pc[p] = "account"
    BY <1>0, <1>12 DEF ReceiveTick, ReceiveStop, SweepLock, SweepDone,
                        Goto, At, Proc
  <2> QED
    BY <1>12, <2>1, <2>2, QuietStutters
       DEF ReceiveTick, ReceiveStop, SweepLock, SweepDone, clientVars
<1>13. ASSUME NEW k \in Key, SweepDelete(k)
       PROVE  UNCHANGED Atomic!avars
  BY <1>13, WriteStutters, AbsentEntry DEF SweepDelete, Proc
<1>14. CASE SweepAccount
  <2> DEFINE k == pending.key
  <2>1. /\ Unaccounted
        /\ CountedData' = data
        /\ data = Put(CountedData, k, data[k])
    BY <1>14, AddCounts DEF SweepAccount, Proc
  <2>2. /\ k \in Key /\ data[k] = Absent
        /\ Expired(pending.old, sweepTime) /\ sweepTime <= now
        /\ pending.old \in Entry /\ now \in Nat /\ sweepTime \in Nat
    BY <1>0, <1>14, <2>1 DEF SweepAccount, PendingMatches, TypeOK
  <2>3. CountedData[k] = pending.old
    BY <1>0, <2>1, <2>2, PutType DEF CountedData
  <2>4. Expired(CountedData[k], now)
    <3>1. pending.old \in Item /\ pending.old.expiresAt \in Nat
      BY <2>2 DEF Expired, Entry, Item
    <3> QED
      BY <2>2, <2>3, <3>1 DEF Expired
  <2>5. Busy' = Busy
    BY <1>0, <1>14 DEF SweepAccount, Busy, Goto, At, Proc
  <2>6. Atomic!Expire(k)
    BY <1>14, <2>1, <2>2, <2>4, <2>5, SameOperators, SameMessages
       DEF Atomic!Expire, SweepAccount, AddMemoryUsed, Discard, Busy
  <2> QED
    BY <2>2, <2>6 DEF Atomic!Next
<1>15. CASE UNCHANGED vars
  BY <1>15, QuietStutters DEF vars, storeVars, clientVars, Busy, At
<1> QED
  BY <1>1, <1>2, <1>3, <1>4, <1>5, <1>6, <1>8, <1>9, <1>10, <1>11, <1>12,
     <1>13, <1>14, <1>15
     DEF Next, LockStep, WriteStep, ReadStep, WorkerStep

\* The locked engine with its separate counter implements the atomic store:
\* every operation of engine.go is linearizable.
THEOREM Refinement == Spec => Linearizable
<1>1. Init => Atomic!Init
  <2>1. SUFFICES ASSUME Init
                 PROVE  Atomic!Init
    OBVIOUS
  <2>2. \A p \in Proc : pc[p] \in {"select", "idle"}
    BY <2>1 DEF Init
  <2>3. CountedData = EmptyMap
    BY <2>1, <2>2 DEF Init, CountedData, Unaccounted, At
  <2> QED
    BY <2>1, <2>3, WorkerAssumption, SameOperators, SameMessages DEF Init, Atomic!Init, At, Proc
<1>2. IInv /\ [Next]_vars => [Atomic!Next]_(Atomic!avars)
  BY StepRefines
<1> QED
  BY <1>1, <1>2, Inductive, PTL DEF Spec, Linearizable, Atomic!Spec

-----------------------------------------------------------------------------
(* Nothing is lost *)

\* Get and the sweep discard expired entries only, and a Set that replaces an
\* entry leaves one: any other disappearance is a Delete of that key.
THEOREM NothingLiveLost == Spec => NoLiveEntryLost
<1> DEFINE Lost(k) == data[k] # Absent /\ data'[k] = Absent
           Excused(k) == \/ Expired(data[k], now)
                         \/ \E c \in Client : Holds(c, "Delete") /\ call[c].key = k
<1>1. ASSUME IInv, [Next]_vars, NEW k \in Key, Lost(k)
      PROVE  Excused(k)
  <2>0. /\ TypeOK /\ PendingMatches /\ data \in [Key -> Entry]
        /\ now \in Nat /\ sweepTime \in Nat /\ sweepTime <= now
    BY <1>1 DEF IInv, TypeOK, PendingMatches
  <2> USE DEF storeVars
  <2>1. ASSUME NEW p, NEW j \in Key, NEW e \in Entry, Write(p, j, e)
        PROVE  j = k /\ e = Absent
    BY <1>1, <2>0, <2>1, PutType DEF Write
  <2>2. ASSUME NEW c \in Client, Set(c)
        PROVE  FALSE
    <3>1. call[c].key \in Key /\ call[c].item \in Item
      BY <2>0, <2>2, CallType DEF Set, Holds, TypeOK, Writing
    <3> QED
      BY <1>1, <2>1, <2>2, <3>1, AbsentAssumption DEF Set, Leave, Entry
  <2>3. ASSUME NEW c \in Client, Get(c)
        PROVE  Excused(k)
    <3> DEFINE key == call[c].key
               item == Touch(data[key])
    <3>1. key \in Key
      BY <2>0, <2>3, CallType DEF Get, Holds, TypeOK, Writing
    <3>2. CASE data[key] = Absent /\ Leave(c, Found(Absent))
      BY <1>1, <3>2 DEF Leave
    <3>3. CASE Expired(data[key], now) /\ Write(c, key, Absent)
      BY <2>1, <3>1, <3>3, AbsentEntry
    <3>4. CASE Live(data, key, now) /\ data' = Put(data, key, item)
      <4>1. item \in Item
        BY <2>0, <3>1, <3>4, TouchType DEF Live
      <4>2. key = k => data'[k] = item
        BY <2>0, <3>1, <3>4, <4>1, PutType DEF Entry
      <4>3. key # k => data'[k] = data[k]
        BY <2>0, <3>1, <3>4, <4>1, PutType DEF Entry
      <4> QED
        BY <1>1, <4>1, <4>2, <4>3, AbsentAssumption
    <3> QED
      BY <2>3, <3>2, <3>3, <3>4 DEF Get
  <2>4. ASSUME NEW c \in Client, Delete(c)
        PROVE  Excused(k)
    <3>1. call[c].key \in Key
      BY <2>0, <2>4, CallType DEF Delete, Holds, TypeOK, Writing
    <3> QED
      BY <1>1, <2>1, <2>4, <3>1, AbsentEntry DEF Delete, Leave
  <2>5. ASSUME NEW j \in Key, SweepDelete(j)
        PROVE  Excused(k)
    <3>1. j = k /\ Expired(data[k], sweepTime)
      BY <2>1, <2>5, AbsentEntry DEF SweepDelete
    <3>2. data[k] \in Item /\ data[k].expiresAt \in Nat
      BY <2>0, <3>1 DEF Expired, Entry, Item
    <3> QED
      BY <2>0, <3>1, <3>2 DEF Expired
  <2>6. ASSUME data' = data
        PROVE  FALSE
    BY <1>1, <2>6
  <2>7. \/ \E c \in Client : Set(c) \/ Get(c) \/ Delete(c)
        \/ \E j \in Key : SweepDelete(j)
        \/ data' = data
    BY <1>1
       DEF Next, LockStep, WriteStep, ReadStep, WorkerStep, vars, Call, Lock, Len,
           ItemsRLock, Account, AddMemoryUsed, MemoryUsageBytes, ItemsReturn,
           ItemsCopy, SweepLock, ReceiveTick, ReceiveStop, SweepAccount,
           SweepDone, TickerFires, Stop, TimePasses
  <2> QED
    BY <2>2, <2>3, <2>4, <2>5, <2>6, <2>7
<1>2. IInv /\ [Next]_vars => [\A k \in Key : Lost(k) => Excused(k)]_vars
  BY <1>1
<1> QED
  BY <1>2, Inductive, PTL DEF Spec, NoLiveEntryLost

-----------------------------------------------------------------------------
(* A call of Evict that nobody disturbs                                    *)

\* What Evict knows between its calls of the engine when nobody interferes.
Undisturbed ==
  Alone =>
    /\ \A k \in Present(entries) : entries[k] = before[k]
    /\ stage \in {"snapshot", "delete"} => Footprint(entries) > target
    /\ stage = "delete" => victim \in Cheapest(entries)
    /\ Gone # {} => victim \in Key

\* The inductive invariant of Evict.
SoloInv ==
  EvictTypeOK /\ CheapestGoFirst /\ NoEntryTooMany /\ ReachesTarget /\ Undisturbed

LEMMA SoloInit == EvictInit => SoloInv
<1> SUFFICES ASSUME EvictInit
             PROVE  SoloInv
  OBVIOUS
<1>1. entries \in [Key -> Entry] /\ before = Absent
  BY ClientAssumption DEF EvictInit, Entry
<1>2. EvictTypeOK
  BY <1>1 DEF EvictInit, EvictTypeOK
<1> QED
  BY <1>1, <1>2
     DEF SoloInv, CheapestGoFirst, NoEntryTooMany, ReachesTarget, Undisturbed, Alone

LEMMA SoloBegin ==
  ASSUME SoloInv, NEW t \in Target, Begin(t)
  PROVE  SoloInv'
<1>1. EvictTypeOK'
  BY DEF SoloInv, EvictTypeOK, Begin
<1>2. Gone' = {}
  BY DEF Begin, Gone
<1> QED
  BY <1>1, <1>2
     DEF SoloInv, Begin, CheapestGoFirst, NoEntryTooMany, ReachesTarget, Undisturbed

LEMMA SoloCheck == SoloInv /\ Check => SoloInv'
<1> SUFFICES ASSUME SoloInv, Check
             PROVE  SoloInv'
  OBVIOUS
<1>1. EvictTypeOK' /\ Footprint(entries) \in Nat /\ target \in Int
  BY TargetAssumption, FootprintType DEF SoloInv, EvictTypeOK, Check
<1>2. Gone' = Gone /\ (Alone' <=> Alone)
  BY DEF Check, Gone, Alone
<1>3. ReachesTarget'
  BY <1>1 DEF Check, AboveTarget, ReachesTarget
<1> QED
  BY <1>1, <1>2, <1>3
     DEF SoloInv, Check, AboveTarget, CheapestGoFirst, NoEntryTooMany, Undisturbed

LEMMA SoloSnapshot == SoloInv /\ TakeSnapshot => SoloInv'
<1> SUFFICES ASSUME SoloInv, TakeSnapshot
             PROVE  SoloInv'
  OBVIOUS
<1>1. /\ stage = "snapshot" /\ entries \in [Key -> Entry] /\ target \in Int
      /\ UNCHANGED <<entries, target, before>>
  BY TargetAssumption DEF SoloInv, EvictTypeOK, TakeSnapshot
<1>2. Alone => Footprint(entries) > target
  BY <1>1 DEF SoloInv, Undisturbed
<1>3. (Alone' <=> Alone) /\ Gone' = Gone /\ CheapestGoFirst'
  BY <1>1 DEF Alone, Gone, SoloInv, CheapestGoFirst
<1>4. CASE Present(entries) = {} /\ stage' = "done" /\ UNCHANGED victim
  <2>1. entries = EmptyMap
    BY <1>1, <1>4 DEF Present, EmptyMap
  <2>2. Alone => target < 0
    BY <1>1, <1>2, <2>1, FootprintEmpty
  <2>3. EvictTypeOK'
    BY <1>1, <1>4 DEF SoloInv, EvictTypeOK
  <2> QED
    BY <1>1, <1>3, <1>4, <2>2, <2>3
       DEF SoloInv, NoEntryTooMany, ReachesTarget, Undisturbed
<1>5. CASE Present(entries) # {} /\ stage' = "delete" /\ victim' \in Cheapest(entries)
  <2>1. victim' \in Key
    BY <1>5 DEF Cheapest, Present
  <2>2. EvictTypeOK' /\ ReachesTarget'
    BY <1>1, <1>5, <2>1 DEF SoloInv, EvictTypeOK, ReachesTarget
  <2>3. NoEntryTooMany'
    <3> SUFFICES ASSUME Alone
                 PROVE  Footprint(Put(entries, victim', before[victim'])) > target
      BY <1>1, <1>3 DEF NoEntryTooMany
    <3>1. entries[victim'] = before[victim']
      BY <1>5 DEF SoloInv, Undisturbed, Cheapest
    <3>2. Put(entries, victim', before[victim']) = entries
      BY <1>1, <2>1, <3>1 DEF Put
    <3> QED
      BY <1>1, <1>2, <3>2
  <2> QED
    BY <1>1, <1>2, <1>3, <1>5, <2>1, <2>2, <2>3 DEF SoloInv, Undisturbed
<1> QED
  BY <1>4, <1>5 DEF TakeSnapshot

LEMMA SoloDelete == SoloInv /\ DeleteVictim => SoloInv'
<1> SUFFICES ASSUME SoloInv, DeleteVictim
             PROVE  SoloInv'
  OBVIOUS
<1>1. /\ stage = "delete" /\ stage' = "check" /\ entries \in [Key -> Entry]
      /\ entries' = Discard(entries, victim) /\ UNCHANGED <<target, victim, before>>
  BY DEF SoloInv, EvictTypeOK, DeleteVictim
<1>2. EvictTypeOK'
  BY <1>1 DEF SoloInv, EvictTypeOK, Discard, Put, Entry
<1>3. CASE ~Alone
  BY <1>1, <1>2, <1>3
     DEF SoloInv, CheapestGoFirst, NoEntryTooMany, ReachesTarget, Undisturbed, Alone
<1>4. CASE Alone
  <2>1. /\ victim \in Cheapest(entries) /\ victim \in Key
        /\ entries[victim] # Absent /\ entries[victim] = before[victim]
        /\ Footprint(entries) > target
    BY <1>1, <1>4 DEF SoloInv, Undisturbed, Cheapest, Present
  <2>2. /\ entries'[victim] = Absent
        /\ \A k \in Key \ {victim} : entries'[k] = entries[k]
    BY <1>1, <2>1 DEF Discard, Put
  <2>3. Gone' = Gone \cup {victim} /\ Present(entries') = Present(entries) \ {victim}
    BY <1>1, <2>1, <2>2 DEF Gone, Present
  <2>4. CheapestGoFirst'
    <3> SUFFICES ASSUME NEW gone \in Gone', NEW left \in Present(entries')
                 PROVE  ~Cheaper(entries'[left], before[gone])
      BY <1>1 DEF CheapestGoFirst
    <3>1. left \in Present(entries) /\ entries'[left] = entries[left]
      BY <2>2, <2>3 DEF Present
    <3>2. CASE gone \in Gone
      BY <1>4, <3>1, <3>2 DEF SoloInv, CheapestGoFirst
    <3>3. CASE gone = victim
      BY <2>1, <3>1, <3>3 DEF Cheapest
    <3> QED
      BY <2>3, <3>2, <3>3
  <2>5. NoEntryTooMany'
    <3>1. Put(entries', victim, before[victim]) = entries
      BY <1>1, <2>1 DEF Discard, Put
    <3> QED
      BY <1>1, <2>1, <3>1 DEF NoEntryTooMany
  <2>6. \A k \in Present(entries') : entries'[k] = before'[k]
    BY <1>1, <1>4, <2>2, <2>3 DEF SoloInv, Undisturbed, Present
  <2> QED
    BY <1>1, <1>2, <2>1, <2>4, <2>5, <2>6 DEF SoloInv, ReachesTarget, Undisturbed
<1> QED
  BY <1>3, <1>4

LEMMA SoloOthers == SoloInv /\ Others => SoloInv'
<1> SUFFICES ASSUME SoloInv, NEW k \in Key,
                    \/ \E i \in ClientItem : ClientSet(k, i)
                    \/ ClientGet(k)
                    \/ Disappears(k)
             PROVE  SoloInv'
  BY DEF Others
<1>1. Interferes /\ \E e \in Entry : entries' = Put(entries, k, e)
  <2>1. CASE \E i \in ClientItem : ClientSet(k, i)
    BY <2>1, ClientAssumption DEF ClientSet, Entry
  <2>2. CASE ClientGet(k)
    <3>1. Touch(entries[k]) \in Entry
      BY <2>2 DEF ClientGet, SoloInv, EvictTypeOK, Entry, Item, Touch
    <3> QED
      BY <2>2, <3>1 DEF ClientGet
  <2>3. CASE Disappears(k)
    BY <2>3 DEF Disappears, Discard, Entry
  <2> QED
    BY <2>1, <2>2, <2>3
<1>2. EvictTypeOK' /\ ~Alone'
  BY <1>1 DEF SoloInv, EvictTypeOK, Interferes, Alone, Put
<1> QED
  BY <1>2 DEF SoloInv, CheapestGoFirst, NoEntryTooMany, ReachesTarget, Undisturbed

\* What Evict knows holds throughout.
THEOREM SoloInvariant == EvictSpec => []SoloInv
<1>1. SoloInv /\ [EvictNext]_evictVars => SoloInv'
  <2>1. SoloInv /\ UNCHANGED evictVars => SoloInv'
    BY DEF evictVars, SoloInv, EvictTypeOK, CheapestGoFirst, NoEntryTooMany, ReachesTarget,
           Undisturbed, Alone, Gone
  <2> QED
    BY <2>1, SoloBegin, SoloCheck, SoloSnapshot, SoloDelete, SoloOthers
       DEF EvictNext, EvictCalls, EvictStep
<1> QED
  BY SoloInit, <1>1, PTL DEF EvictSpec

\* Every reachable state has its type, whoever interferes.
THEOREM EvictTyped == EvictSpec => []EvictTypeOK
<1>1. SoloInv => EvictTypeOK
  BY DEF SoloInv
<1> QED
  BY <1>1, SoloInvariant, PTL

\* An undisturbed Evict takes the cheapest entries first over the whole call
\* (eviction.go:40-59).
THEOREM CheapestFirst == EvictSpec => []CheapestGoFirst
<1>1. SoloInv => CheapestGoFirst
  BY DEF SoloInv
<1> QED
  BY <1>1, SoloInvariant, PTL

\* It never takes an entry more than it has to (eviction.go:41).
THEOREM NoneTooMany == EvictSpec => []NoEntryTooMany
<1>1. SoloInv => NoEntryTooMany
  BY DEF SoloInv
<1> QED
  BY <1>1, SoloInvariant, PTL

\* It returns with the usage at its target (eviction.go:41-43).
THEOREM TargetReached == EvictSpec => []ReachesTarget
<1>1. SoloInv => ReachesTarget
  BY DEF SoloInv
<1> QED
  BY <1>1, SoloInvariant, PTL
=============================================================================
