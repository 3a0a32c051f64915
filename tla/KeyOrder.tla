------------------------------ MODULE KeyOrder ------------------------------
(***************************************************************************)
(* keys() of a StableBTreeMap, as the listings use it: every key once, in  *)
(* key order.  The rank of a key is its place in that order.               *)
(***************************************************************************)
EXTENDS Integers, FiniteSets

in_key_order(keys, rank) ==
    CHOOSE s \in [1 .. Cardinality(keys) -> keys] :
        \A i, j \in 1 .. Cardinality(keys) : i < j => rank[s[i]] < rank[s[j]]

=============================================================================
