---------------------------- MODULE AtomicStore ----------------------------
(***************************************************************************)
(* What the Engine of internal/store/engine.go promises its callers: every *)
(* operation takes effect at one instant between its call and its return,  *)
(* MemoryUsageBytes is exactly the size of the map at that instant, and    *)
(* nothing but an expired entry ever leaves the map on its own. There are  *)
(* no locks, no byte counter and no worker here; Engine implements it.     *)
(***************************************************************************)
EXTENDS StoreData

CONSTANTS
  Client     \* the goroutines that call the engine

VARIABLES
  data,      \* [Key -> Entry]
  now,       \* the clock
  call,      \* [Client -> the operation last called]
  busy,      \* the clients whose call has not returned
  ret        \* [Client -> the reply to the last call]

avars == <<data, now, call, busy, ret>>

Init ==
  /\ data = EmptyMap
  /\ now \in Nat
  /\ call = [c \in Client |-> LenOp]
  /\ busy = {}
  /\ ret = [c \in Client |-> NoReply]

\* Any client may call any operation: call'[c] is an input.
Call(c) ==
  /\ c \notin busy
  /\ busy' = busy \cup {c}
  /\ call'[c] \in Op
  /\ call' = [call EXCEPT ![c] = call'[c]]
  /\ ret' = [ret EXCEPT ![c] = NoReply]
  /\ UNCHANGED <<data, now>>

Return(c, reply) ==
  /\ busy' = busy \ {c}
  /\ ret' = [ret EXCEPT ![c] = reply]
  /\ UNCHANGED <<now, call>>

Set(c) ==
  /\ c \in busy
  /\ call[c].name = "Set"
  /\ LET k == call[c].key
         i == call[c].item
     IN  IF Fits(data, Footprint(data), k, i)
         THEN data' = Put(data, k, i) /\ Return(c, Done(TRUE))
         ELSE UNCHANGED data /\ Return(c, Done(FALSE))

Get(c) ==
  /\ c \in busy
  /\ call[c].name = "Get"
  /\ LET k == call[c].key
     IN  IF Live(data, k, now)
         THEN /\ data' = Put(data, k, Touch(data[k]))
              /\ Return(c, Found(Touch(data[k])))
         ELSE /\ data' = Discard(data, k)
              /\ Return(c, Found(Absent))

Delete(c) ==
  /\ c \in busy
  /\ call[c].name = "Delete"
  /\ data' = Discard(data, call[c].key)
  /\ Return(c, Done(data[call[c].key] # Absent))

Query(c) ==
  /\ c \in busy
  /\ \/ /\ call[c].name = "Len"
        /\ Return(c, Number(Cardinality(Present(data))))
     \/ /\ call[c].name = "MemoryUsageBytes"
        /\ Return(c, Number(Footprint(data)))
     \/ /\ call[c].name = "Items"
        /\ Return(c, Snapshot(data))
  /\ UNCHANGED data

\* An expired entry may be reclaimed at any time.
Expire(k) ==
  /\ Expired(data[k], now)
  /\ data' = Discard(data, k)
  /\ UNCHANGED <<now, call, busy, ret>>

Tick ==
  /\ now' = now + 1
  /\ UNCHANGED <<data, call, busy, ret>>

Next ==
  \/ \E c \in Client : Call(c) \/ Set(c) \/ Get(c) \/ Delete(c) \/ Query(c)
  \/ \E k \in Key : Expire(k)
  \/ Tick

Spec == Init /\ [][Next]_avars
=============================================================================
