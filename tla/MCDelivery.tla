---------------------------- MODULE MCDelivery ----------------------------
(* Delivery on small instances.                                            *)
EXTENDS Delivery, TLC

\* each record under a key of its own, the key being the record
OwnKey == [i \in Records |-> i]

OwnKeySymmetry == Permutations(Runs) \cup Permutations(Records)
==========================================================================
