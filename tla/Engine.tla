------------------------------- MODULE Engine -------------------------------
(***************************************************************************)
(* The Engine of internal/store/engine.go at the grain of its lock: client *)
(* goroutines in Set, Get, Delete, Len, Items and MemoryUsageBytes, the    *)
(* TTL worker, and Stop. `data` is guarded by the RWMutex; `memoryUsed` is *)
(* a separate atomic counter that MemoryUsageBytes reads without the lock, *)
(* so a change of the map and the matching change of the counter are two   *)
(* steps.                                                                  *)
(*                                                                         *)
(* A goroutine that has the lock is alone in touching the map, so what it  *)
(* does up to the first change of shared state is one step, and the        *)
(* deferred unlock is one step with the last change.                       *)
(***************************************************************************)
EXTENDS StoreData

CONSTANTS
  Client,     \* goroutines that call the engine
  Worker,     \* the goroutine of ttlWorker
  InputItem,  \* the items clients pass to Set
  MaxTime,    \* bound: the clock stops here
  MaxHits     \* bound: no Get is called once an entry has this AccessCount

ASSUME WorkerAssumption == Worker \notin Client
ASSUME InputAssumption == InputItem \subseteq Item
ASSUME BoundAssumption == MaxTime \in Nat /\ MaxHits \in Nat

VARIABLES
  data,        \* the map
  memoryUsed,  \* the atomic byte counter
  now,         \* the clock that time.Now reads
  writer,      \* the goroutine, at most one, that new readers wait for
  readers,     \* the goroutines in mu.RLock
  pc,          \* where each goroutine is
  call, ret,   \* each client's last call and its reply
  copied,      \* what each client in Items has copied so far
  pending,     \* the change of the map the counter does not show yet
  tick,        \* ttlTicker.C has a tick to deliver
  stopped,     \* Stop was called: the ticker is off and stopCh is closed
  sweepTime    \* evictExpired's `now`

storeVars == <<data, memoryUsed, pending, now>>
lockVars == <<writer, readers>>
clientVars == <<call, ret, copied>>
workerVars == <<tick, stopped, sweepTime>>
vars == <<storeVars, lockVars, pc, clientVars, workerVars>>

Proc == Client \cup {Worker}

NoPending == [key |-> Absent, old |-> Absent, delta |-> 0]

Init ==
  /\ data = EmptyMap
  /\ memoryUsed = 0
  /\ now = 1  \* 0 is the zero time
  /\ writer = {}
  /\ readers = {}
  /\ pc = [p \in Proc |-> IF p = Worker THEN "select" ELSE "idle"]
  /\ call = [c \in Client |-> LenOp]
  /\ ret = [c \in Client |-> NoReply]
  /\ copied = [c \in Client |-> EmptyMap]
  /\ pending = NoPending
  /\ tick = FALSE
  /\ stopped = FALSE
  /\ sweepTime = 0

-----------------------------------------------------------------------------
(* sync.RWMutex, as package sync documents it: a writer first shuts new  *)
(* readers out, then waits for those inside to leave.                     *)

CanAnnounce == writer = {}
NoReaders == readers = {}
CanRLock == writer = {}
Unlock == writer' = {}

-----------------------------------------------------------------------------
(* Steps shared by the operations *)

At(p, loc) == pc[p] = loc
Goto(p, loc) == pc' = [pc EXCEPT ![p] = loc]

\* The operation of c ends with this reply.
Reply(c, r) ==
  /\ Goto(c, "idle")
  /\ ret' = [ret EXCEPT ![c] = r]
  /\ UNCHANGED <<call, workerVars>>

\* Mutation: an early return without unlocking.
LeaveLocked(c, r) == Reply(c, r) /\ UNCHANGED <<storeVars, lockVars, copied>>

\* c lets the lock go without having changed the map.
Leave(c, r) ==
  /\ Unlock
  /\ Reply(c, r)
  /\ UNCHANGED <<storeVars, readers, copied>>

\* Mutation: the size of the entry that was there is forgotten.
WriteForgetsOld(p, key, e) ==
  /\ data' = Put(data, key, e)
  /\ pending' = [key |-> key, old |-> data[key], delta |-> EntrySize(key, e)]
  /\ Goto(p, "account")
  /\ UNCHANGED <<memoryUsed, now, lockVars, clientVars, workerVars>>

\* p writes (or deletes, for Absent) an entry and still has to account for it.
Write(p, key, e) ==
  /\ data' = Put(data, key, e)
  /\ pending' = [key |-> key, old |-> data[key],
                 delta |-> EntrySize(key, e) - EntrySize(key, data[key])]
  /\ Goto(p, "account")
  /\ UNCHANGED <<memoryUsed, now, lockVars, clientVars, workerVars>>

\* atomic.AddInt64(&e.memoryUsed, delta)
AddMemoryUsed ==
  /\ memoryUsed' = memoryUsed + pending.delta
  /\ pending' = NoPending
  /\ UNCHANGED <<data, now, readers, copied>>

Writing == {"Set", "Get", "Delete"}

\* c is in the operation op: it wants the lock, or it has the write lock.
Calls(c, op) == At(c, "lock") /\ call[c].name = op
Holds(c, op) == At(c, "locked") /\ NoReaders /\ call[c].name = op

-----------------------------------------------------------------------------
(* Clients *)

Call(c, op) ==
  /\ At(c, "idle")
  /\ op.name = "Get" => \A k \in Present(data) : data[k].accessCount < MaxHits
  /\ Goto(c, "lock")
  /\ call' = [call EXCEPT ![c] = op]
  /\ ret' = [ret EXCEPT ![c] = NoReply]
  /\ UNCHANGED <<storeVars, lockVars, copied, workerVars>>

Lock(c) ==
  /\ At(c, "lock")
  /\ call[c].name \in Writing
  /\ CanAnnounce
  /\ writer' = {c}
  /\ Goto(c, "locked")
  /\ UNCHANGED <<storeVars, readers, clientVars, workerVars>>

Set(c) ==
  /\ Holds(c, "Set")
  /\ IF Fits(data, memoryUsed, call[c].key, call[c].item)
     THEN Write(c, call[c].key, call[c].item)
     ELSE Leave(c, Done(FALSE))

Get(c) ==
  /\ Holds(c, "Get")
  /\ LET key == call[c].key
         item == Touch(data[key])
     IN  \/ data[key] = Absent /\ Leave(c, Found(Absent))
         \/ Expired(data[key], now) /\ Write(c, key, Absent)
         \/ /\ Live(data, key, now)
            /\ data' = Put(data, key, item)
            /\ Unlock
            /\ Reply(c, Found(item))
            /\ UNCHANGED <<memoryUsed, pending, now, readers, copied>>

Delete(c) ==
  /\ Holds(c, "Delete")
  /\ IF data[call[c].key] = Absent
     THEN Leave(c, Done(FALSE))
     ELSE Write(c, call[c].key, Absent)

\* The counter follows and the operation returns; a Get that writes missed.
Account(c) ==
  /\ At(c, "account")
  /\ AddMemoryUsed
  /\ Unlock
  /\ Reply(c, IF call[c].name = "Get" THEN Found(Absent) ELSE Done(TRUE))

Len(c) ==
  /\ Calls(c, "Len")
  /\ CanRLock
  /\ Reply(c, Number(Cardinality(Present(data))))
  /\ UNCHANGED <<storeVars, lockVars, copied>>

\* No lock: a single atomic load.
MemoryUsageBytes(c) ==
  /\ Calls(c, "MemoryUsageBytes")
  /\ Reply(c, Number(memoryUsed))
  /\ UNCHANGED <<storeVars, lockVars, copied>>

\* Mutation: Items copies without the lock.
ItemsUnlocked(c) ==
  /\ Calls(c, "Items")
  /\ Goto(c, "copy")
  /\ UNCHANGED <<storeVars, lockVars, clientVars, workerVars>>

ItemsRLock(c) ==
  /\ Calls(c, "Items")
  /\ CanRLock
  /\ readers' = readers \cup {c}
  /\ Goto(c, "copy")
  /\ UNCHANGED <<storeVars, writer, clientVars, workerVars>>

\* for k, v := range e.data { snapshot[k] = v }
ItemsCopy(c, k) ==
  /\ At(c, "copy")
  /\ data[k] # Absent
  /\ copied[c][k] = Absent
  /\ copied' = [copied EXCEPT ![c][k] = data[k]]
  /\ UNCHANGED <<storeVars, lockVars, pc, call, ret, workerVars>>

\* Mutation: Items returns before it has copied everything.
ItemsReturnEarly(c) ==
  /\ At(c, "copy")
  /\ readers' = readers \ {c}
  /\ Reply(c, Snapshot(copied[c]))
  /\ copied' = [copied EXCEPT ![c] = EmptyMap]
  /\ UNCHANGED <<storeVars, writer>>

ItemsReturn(c) ==
  /\ At(c, "copy")
  /\ Present(data) \subseteq Present(copied[c])
  /\ readers' = readers \ {c}
  /\ Reply(c, Snapshot(copied[c]))
  /\ copied' = [copied EXCEPT ![c] = EmptyMap]
  /\ UNCHANGED <<storeVars, writer>>

-----------------------------------------------------------------------------
(* The TTL worker, its ticker and Stop *)

TickerFires ==
  /\ ~stopped /\ ~tick
  /\ tick' = TRUE
  /\ UNCHANGED <<storeVars, lockVars, pc, clientVars, stopped, sweepTime>>

\* Mutation: the sweep compares with the time of the tick before.
ReceiveTickLate ==
  /\ At(Worker, "select") /\ tick
  /\ tick' = FALSE
  /\ sweepTime' = now - 1
  /\ Goto(Worker, "lock")
  /\ UNCHANGED <<storeVars, lockVars, clientVars, stopped>>

\* case <-e.ttlTicker.C: evictExpired reads the clock before it asks for
\* the lock.
ReceiveTick ==
  /\ At(Worker, "select") /\ tick
  /\ tick' = FALSE
  /\ sweepTime' = now
  /\ Goto(Worker, "lock")
  /\ UNCHANGED <<storeVars, lockVars, clientVars, stopped>>

\* Mutation: the worker looks at stopCh only when the ticker has fired.
ReceiveStopOnTick ==
  /\ At(Worker, "select") /\ stopped /\ tick
  /\ Goto(Worker, "exited")
  /\ UNCHANGED <<storeVars, lockVars, clientVars, workerVars>>

\* case <-e.stopCh
ReceiveStop ==
  /\ At(Worker, "select") /\ stopped
  /\ Goto(Worker, "exited")
  /\ UNCHANGED <<storeVars, lockVars, clientVars, workerVars>>

SweepLock ==
  /\ At(Worker, "lock")
  /\ CanAnnounce
  /\ writer' = {Worker}
  /\ Goto(Worker, "sweep")
  /\ UNCHANGED <<storeVars, readers, clientVars, workerVars>>

\* Mutation: the sweep takes whatever has an expiry.
SweepDeleteEarly(k) ==
  /\ At(Worker, "sweep") /\ NoReaders
  /\ data[k] # Absent /\ data[k].expiresAt # 0
  /\ Write(Worker, k, Absent)

SweepDelete(k) ==
  /\ At(Worker, "sweep") /\ NoReaders
  /\ Expired(data[k], sweepTime)
  /\ Write(Worker, k, Absent)

SweepAccount ==
  /\ At(Worker, "account")
  /\ AddMemoryUsed
  /\ Goto(Worker, "sweep")
  /\ UNCHANGED <<writer, call, ret, workerVars>>

SweepDone ==
  /\ At(Worker, "sweep") /\ NoReaders
  /\ \A k \in Key : ~Expired(data[k], sweepTime)
  /\ Unlock
  /\ sweepTime' = 0
  /\ Goto(Worker, "select")
  /\ UNCHANGED <<storeVars, readers, clientVars, tick, stopped>>

\* ttlTicker.Stop discards a tick nobody received (go.mod: go 1.25).
Stop ==
  /\ ~stopped
  /\ stopped' = TRUE
  /\ tick' = FALSE
  /\ UNCHANGED <<storeVars, lockVars, pc, clientVars, sweepTime>>

TimePasses ==
  /\ now < MaxTime
  /\ now' = now + 1
  /\ UNCHANGED <<data, memoryUsed, pending, lockVars, pc, clientVars, workerVars>>

-----------------------------------------------------------------------------

InputOp ==
  {SetOp(k, i) : k \in Key, i \in InputItem}
    \cup {GetOp(k) : k \in Key} \cup {DeleteOp(k) : k \in Key}
    \cup {LenOp, ItemsOp, UsageOp}

\* The steps of c that wait for other goroutines to let it in, those under
\* the write lock, and those that need no lock or hold the read lock.
LockStep(c) == Lock(c) \/ Len(c) \/ ItemsRLock(c)
WriteStep(c) == Set(c) \/ Get(c) \/ Delete(c) \/ Account(c)
ReadStep(c) ==
  MemoryUsageBytes(c) \/ ItemsReturn(c) \/ \E k \in Key : ItemsCopy(c, k)
WorkerStep ==
  \/ ReceiveTick \/ ReceiveStop
  \/ SweepAccount \/ SweepDone \/ \E k \in Key : SweepDelete(k)

Next ==
  \/ \E c \in Client :
       \/ \E op \in InputOp : Call(c, op)
       \/ LockStep(c) \/ WriteStep(c) \/ ReadStep(c)
  \/ SweepLock \/ WorkerStep
  \/ TickerFires \/ Stop \/ TimePasses

Spec == Init /\ [][Next]_vars

\* Go schedules every runnable goroutine, its mutex starves no waiter, and the
\* ticker fires until it is stopped. Nobody has to call, and nobody to Stop.
Fairness ==
  /\ \A c \in Client : SF_vars(LockStep(c)) /\ WF_vars(WriteStep(c) \/ ReadStep(c))
  /\ SF_vars(SweepLock) /\ WF_vars(WorkerStep)
  /\ WF_vars(TickerFires)

FairSpec == Spec /\ Fairness

-----------------------------------------------------------------------------
(* Correctness *)

\* The map the counter accounts for: the change between Write and
\* AddMemoryUsed has not happened yet.
Unaccounted == \E p \in Proc : At(p, "account")
CountedData ==
  IF Unaccounted THEN Put(data, pending.key, pending.old) ELSE data

ClientLocation == {"idle", "lock", "locked", "copy", "account"}
WorkerLocation == {"select", "lock", "sweep", "account", "exited"}

PcOK ==
  /\ pc \in [Proc -> ClientLocation \cup WorkerLocation]
  /\ pc[Worker] \in WorkerLocation
  /\ \A c \in Client : pc[c] \in ClientLocation

\* Every variable has its type.
TypeOK ==
  /\ data \in [Key -> Entry]
  /\ memoryUsed \in Int
  /\ now \in Nat
  /\ writer \in SUBSET Proc
  /\ readers \in SUBSET Client
  /\ PcOK
  /\ call \in [Client -> Op]
  /\ ret \in [Client -> Replies]
  /\ copied \in [Client -> [Key -> Entry]]
  /\ pending \in [key : Key \cup {Absent}, old : Entry, delta : Int]
  /\ tick \in BOOLEAN
  /\ stopped \in BOOLEAN
  /\ sweepTime \in Nat

\* The writer is alone and pc says who it is, and it has no company of readers
\* once it is past waiting for them.
LockDiscipline ==
  /\ \A p \in Proc : p \in writer <=> pc[p] \in {"locked", "account", "sweep"}
  /\ \A p, q \in writer : p = q
  /\ \A c \in Client : c \in readers <=> At(c, "copy")
  /\ Unaccounted => NoReaders

\* The counter is exact (Set, Get, Delete and evictExpired, one addition each):
\* at every instant it is the size of the map, less the one change whose
\* addition is still to come.
AccountingExact == memoryUsed = Footprint(CountedData)

\* Set's promise: neither the map nor the counter ever exceeds the limit, in
\* whatever order entries grow, shrink, expire and are deleted.
WithinLimit == Footprint(data) <= MaxMemoryBytes /\ memoryUsed <= MaxMemoryBytes

\* What Items has copied is still what the map holds.
CopyCurrent ==
  \A c \in Client : \A k \in Key :
    copied[c][k] = Absent \/ (c \in readers /\ copied[c][k] = data[k])

\* What the holder of the lock has just written, as its operation asks.
PendingOf(c, op) ==
  /\ op.name \in Writing
  /\ pending.key = op.key
  /\ IF op.name = "Set"
     THEN /\ data[op.key] = op.item
          /\ Fits(CountedData, memoryUsed, op.key, op.item)
     ELSE data[op.key] = Absent
  /\ op.name = "Get" => Expired(pending.old, now)
  /\ op.name = "Delete" => pending.old # Absent

PendingMatches ==
  /\ sweepTime <= now
  /\ Unaccounted =>
       /\ pending.key \in Key
       /\ pending.delta = EntrySize(pending.key, data[pending.key])
                            - EntrySize(pending.key, pending.old)
  /\ At(Worker, "account") =>
       data[pending.key] = Absent /\ Expired(pending.old, sweepTime)
  /\ \A c \in Client : At(c, "account") => PendingOf(c, call[c])
  /\ \A c \in Client : At(c, "copy") => call[c].name = "Items"

\* The inductive invariant of the engine: whoever is between two steps of Set,
\* Get, Delete, Items or the sweep, one writer or some readers have the lock, at
\* most one change of the map is still to be counted, by the process that made
\* it and with the right amount, and what Items has copied is still current.
IInv ==
  TypeOK /\ LockDiscipline /\ AccountingExact /\ WithinLimit
    /\ CopyCurrent /\ PendingMatches

\* Get and the sweep discard an entry only once it has expired, although the
\* sweep compares with a clock it read before it had the lock; every other
\* disappearance is a Delete of that key.
NoLiveEntryLost ==
  [][\A k \in Key : data[k] # Absent /\ data'[k] = Absent =>
       \/ Expired(data[k], now)
       \/ \E c \in Client : Holds(c, "Delete") /\ call[c].key = k]_vars

\* The engine implements the atomic store: an operation takes effect when it
\* adds to the counter, or, if the size does not change, when it has the lock.
Atomic == INSTANCE AtomicStore WITH
            data <- CountedData,
            busy <- {c \in Client : ~At(c, "idle")}
Linearizable == Atomic!Spec

\* Every call returns, whatever the other clients and the worker do.
CallsReturn == \A c \in Client : ~At(c, "idle") ~> At(c, "idle")

\* Until Stop, an expired entry does not stay although nobody reads it.
ExpiredReclaimed ==
  \A k \in Key : Expired(data[k], now) ~> (stopped \/ ~Expired(data[k], now))

\* After Stop the worker's goroutine ends, wherever Stop found it.
WorkerExits == stopped ~> At(Worker, "exited")
=============================================================================
