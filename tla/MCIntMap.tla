------------------------------ MODULE MCIntMap ------------------------------
(* IntMap on two slots with four keys, one of them negative and three in    *)
(* each other's way, so that a chain has a head, a middle and a last node.  *)
EXTENDS IntMap, TLC

MCKey == {-1, 1, 3, 0}
MCSymmetry == Permutations(Node) \cup Permutations(Value)
===========================================================================
