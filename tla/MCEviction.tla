----------------------------- MODULE MCEviction -----------------------------
(* Entries of three and four bytes whose priorities tie, differ by cost and *)
(* differ by accesses only.                                                 *)
EXTENDS Eviction

MCKeyLen == [k \in Key |-> 1]
MCValueLen == [v \in Value |-> IF v = "short" THEN 1 ELSE 2]
MCVectorLen == [v \in Vector |-> 0]

MCItem(v, cost, hits) == [value |-> v, costMs |-> cost, vector |-> "none",
                          accessCount |-> hits, expiresAt |-> 0]
MCStoredItem ==
  {MCItem(v, cost, hits) : v \in Value, cost \in Cost, hits \in {0, 1}}
MCClientItem == {MCItem("short", 1, 0)}

MCTarget == {-1, 3, 7}
=============================================================================
