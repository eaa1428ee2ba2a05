------------------------------ MODULE MCEngine ------------------------------
(* A small store for TLC: entries of three and of five bytes, a limit that  *)
(* holds one of each and not two large ones, and a clock on which the large *)
(* one expires.                                                             *)
EXTENDS Engine, TLC

MCKeyLen == [k \in Key |-> 1]
MCValueLen == [v \in Value |-> IF v = "short" THEN 1 ELSE 3]
MCVectorLen == [v \in Vector |-> 0]

MCItem(v, exp) == [value |-> v, costMs |-> 1, vector |-> "none",
                   accessCount |-> 0, expiresAt |-> exp]
MCExpiringItem == {MCItem("long", 1)}
MCInputItem == {MCItem("short", 0)} \cup MCExpiringItem

Symmetry == Permutations(Client) \cup Permutations(Key)
=============================================================================
