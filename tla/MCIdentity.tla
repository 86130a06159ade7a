----------------------------- MODULE MCIdentity -----------------------------
(* Identity on small instances: emails, a LinkedIn slug and name hashes.   *)
EXTENDS Identity, TLC

CONSTANTS email1, email2, slug1, slug2, hash1, hash2

PersonTiers == [k \in Keys |-> CASE k \in {email1, email2} -> 3
                                 [] k \in {slug1, slug2}   -> 2
                                 [] OTHER                  -> 1]

Symmetry == Permutations(Ids)
=============================================================================
