------------------------------ MODULE Eviction ------------------------------
(***************************************************************************)
(* Evict of internal/store/eviction.go: check the usage, copy the items,   *)
(* pop the cheapest from a heap, delete it, and again. Its calls to the    *)
(* engine are atomic (Engine implements AtomicStore), but nothing holds    *)
(* the store still between them: clients may read, write and delete, and   *)
(* entries expire. The clock is left out: an expired entry is one that may *)
(* disappear.                                                              *)
(***************************************************************************)
EXTENDS StoreData

CONSTANTS
  StoredItem, \* the items the store may hold to begin with
  ClientItem, \* the items clients pass to Set
  Target,     \* the values of targetBytes that Evict is called with
  MaxReads    \* bound: an entry with this AccessCount is not read again

ASSUME ClientAssumption == ClientItem \subseteq Item /\ StoredItem \subseteq Item
ASSUME TargetAssumption == Target \subseteq Int
ASSUME ReadsAssumption == MaxReads \in Nat

VARIABLES
  entries, \* the map of the engine
  stage,   \* where Evict is
  target,  \* its targetBytes
  victim,  \* the key it popped from the heap last
  before   \* history: the map when Evict was called, Absent if anyone else has
           \* changed it since

evictVars == <<entries, stage, target, victim, before>>

\* CostMs / (AccessCount + 1), compared as exact fractions.
Cheaper(a, b) == a.costMs * (b.accessCount + 1) < b.costMs * (a.accessCount + 1)

\* Mutation: the heap is upside down.
Dearest(items) ==
  {k \in Present(items) : \A j \in Present(items) : ~Cheaper(items[k], items[j])}

\* Where heap.Pop may find its candidate: ties come in the map's random order.
Cheapest(items) ==
  {k \in Present(items) : \A j \in Present(items) : ~Cheaper(items[j], items[k])}

-----------------------------------------------------------------------------
(* Evict *)

\* Mutation: Evict aims one byte lower.
BeginLower(t) ==
  /\ stage \in {"idle", "done"}
  /\ stage' = "check"
  /\ target' = t - 1
  /\ before' = entries
  /\ UNCHANGED <<entries, victim>>

Begin(t) ==
  /\ stage \in {"idle", "done"}
  /\ stage' = "check"
  /\ target' = t
  /\ before' = entries
  /\ UNCHANGED <<entries, victim>>

\* Mutation: the loop's comparison is off by one, either way.
AtTarget == Footprint(entries) >= target
WellAboveTarget == Footprint(entries) > target + 1

AboveTarget == Footprint(entries) > target

Check ==
  /\ stage = "check"
  /\ stage' = IF AboveTarget THEN "snapshot" ELSE "done"
  /\ UNCHANGED <<entries, target, victim, before>>

TakeSnapshot ==
  /\ stage = "snapshot"
  /\ IF Present(entries) = {}
     THEN stage' = "done" /\ UNCHANGED victim
     ELSE stage' = "delete" /\ victim' \in Cheapest(entries)
  /\ UNCHANGED <<entries, target, before>>

\* Mutation: the victim is not deleted.
KeepVictim ==
  /\ stage = "delete"
  /\ stage' = "check"
  /\ UNCHANGED <<entries, target, victim, before>>

DeleteVictim ==
  /\ stage = "delete"
  /\ stage' = "check"
  /\ entries' = Discard(entries, victim)
  /\ UNCHANGED <<target, victim, before>>

EvictStep == Check \/ TakeSnapshot \/ DeleteVictim

-----------------------------------------------------------------------------
(* Everyone else *)

Interferes == before' = Absent /\ UNCHANGED <<stage, target, victim>>

ClientSet(k, i) ==
  /\ Fits(entries, Footprint(entries), k, i)
  /\ entries' = Put(entries, k, i)
  /\ Interferes

ClientGet(k) ==
  /\ entries[k] # Absent
  /\ entries[k].accessCount < MaxReads
  /\ entries' = Put(entries, k, Touch(entries[k]))
  /\ Interferes

\* A Delete, or an expired entry that the engine discards.
Disappears(k) ==
  /\ entries[k] # Absent
  /\ entries' = Discard(entries, k)
  /\ Interferes

Others ==
  \E k \in Key : \/ \E i \in ClientItem : ClientSet(k, i)
                 \/ ClientGet(k) \/ Disappears(k)

-----------------------------------------------------------------------------

EvictInit ==
  /\ entries \in {d \in [Key -> StoredItem \cup {Absent}] :
                 Footprint(d) <= MaxMemoryBytes}
  /\ stage = "idle"
  /\ target = 0
  /\ victim = Absent
  /\ before = Absent

EvictCalls == \E t \in Target : Begin(t)

EvictNext == EvictCalls \/ EvictStep \/ Others

\* Only the goroutine in Evict is sure to go on.
EvictSpec == EvictInit /\ [][EvictNext]_evictVars /\ WF_evictVars(EvictStep)

-----------------------------------------------------------------------------
(* Correctness *)

\* Nobody else has touched the store since Evict was called.
Alone == before # Absent
Gone == {k \in Key : before[k] # Absent /\ entries[k] = Absent}

\* Every variable has its type.
EvictTypeOK ==
  /\ entries \in [Key -> Entry]
  /\ stage \in {"idle", "check", "snapshot", "delete", "done"}
  /\ target \in Target \cup {0}
  /\ victim \in Key \cup {Absent}
  /\ before \in [Key -> Entry] \cup {Absent}

\* Undisturbed, Evict takes entries in the order of their priority: nothing it has
\* left is cheaper than anything it has taken, over the whole call, although
\* it rebuilds the heap for each (eviction.go:40-59).
CheapestGoFirst ==
  Alone =>
    \A gone \in Gone : \A left \in Present(entries) :
      ~Cheaper(entries[left], before[gone])

\* Undisturbed, Evict takes no entry too many: without its last victim the store was
\* still over the target.
NoEntryTooMany ==
  Alone /\ Gone # {} =>
    Footprint(Put(entries, victim, before[victim])) > target

\* Undisturbed, Evict returns with the usage at or below the target, unless the
\* target is negative and it has emptied the store.
ReachesTarget ==
  Alone /\ stage = "done" =>
    Footprint(entries) <= target \/ (Present(entries) = {} /\ target < 0)

\* Evict returns, once clients stop adding faster than it removes: the loop has
\* no other bound.
EvictReturns ==
  <>[][~ \E k \in Key, i \in ClientItem : ClientSet(k, i)]_evictVars
    => (stage = "check" ~> stage = "done")

=============================================================================
