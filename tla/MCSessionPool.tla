--------------------------- MODULE MCSessionPool ---------------------------
(* Instances of SessionPool: two connections through one bastion, or one   *)
(* through a bastion and one addressed directly.                           *)
EXTENDS SessionPool, TLC

Shared == [k \in Keys |-> "bastion"]
Mixed == [k \in Keys |-> IF k = "prod" THEN "bastion" ELSE Direct]

Symmetry == Permutations(Users) \cup Permutations(Callers)
=============================================================================
