----------------------------- MODULE MerkleTree -----------------------------
(***************************************************************************)
(* The Merkle tree of a seed chunk and the walk a verifier does over a     *)
(* proof (seeds/chunks.rs).  SHA-256 is a free constructor: two terms are  *)
(* equal only if they were built from equal parts.                         *)
(***************************************************************************)
EXTENDS Integers, Sequences

CONSTANTS
    CHUNK_SIZE, \* seeds per chunk
    Tiers,      \* tier ids
    Tier,       \* the tier of the tree
    Chunk       \* the chunk_id of the tree

ASSUME MerkleAssumption ==
    CHUNK_SIZE \in Nat \ {0} /\ Chunk \in Nat /\ Tier \in Tiers

-----------------------------------------------------------------------------
(* Building *)

compute_round_id(chunk_id, offset) == chunk_id * CHUNK_SIZE + offset + 1

\* Faulty variant: the leaf does not bind the tier.
Leaf_of_round(tier_id, round_id, seed) == <<"leaf", round_id, seed>>

compute_leaf_hash(tier_id, round_id, seed) == <<"leaf", tier_id, round_id, seed>>

Zero == <<"zero">>
Parent(left, right) == <<"node", left, right>>

PowerOfTwo[k \in 0 .. CHUNK_SIZE] == IF k = 0 THEN 1 ELSE 2 * PowerOfTwo[k - 1]

\* Number of layers above n leaves, padded.
Height(n) == CHOOSE h \in 0 .. n : /\ PowerOfTwo[h] >= n
                                   /\ \A k \in 0 .. h - 1 : PowerOfTwo[k] < n

next_power_of_two(n) == PowerOfTwo[Height(n)]

\* Seed i of the chunk is derived from the master and i: it is i here.
leaves == [i \in 1 .. CHUNK_SIZE |->
              compute_leaf_hash(Tier, compute_round_id(Chunk, i - 1), i - 1)]

padded(ls) ==
    [i \in 1 .. next_power_of_two(Len(ls)) |-> IF i <= Len(ls) THEN ls[i] ELSE Zero]

\* Faulty variant: the last pair of a layer is swapped.
Swapped_pairs(layer) ==
    [i \in 1 .. Len(layer) \div 2 |->
        IF 2 * i = Len(layer) THEN Parent(layer[2 * i], layer[2 * i - 1])
                              ELSE Parent(layer[2 * i - 1], layer[2 * i])]

next_layer(layer) ==
    [i \in 1 .. Len(layer) \div 2 |-> Parent(layer[2 * i - 1], layer[2 * i])]

\* Layer 0 holds the padded leaves, the last one the root.
build_merkle_tree(ls) ==
    LET layer[h \in 0 .. Height(Len(ls))] ==
            IF h = 0 THEN padded(ls) ELSE next_layer(layer[h - 1])
    IN layer

layers == build_merkle_tree(leaves)

get_merkle_root == layers[Height(CHUNK_SIZE)][1]

\* Where the path from a leaf to the root passes through each layer, from 0.
Path(leaf_index) ==
    LET idx[h \in 0 .. Height(CHUNK_SIZE)] ==
            IF h = 0 THEN leaf_index ELSE idx[h - 1] \div 2
    IN idx

\* Faulty variant: the flag of the lowest layer is used on every layer.
Lowest_flag(leaf_index) ==
    [h \in 1 .. Height(CHUNK_SIZE) |->
        LET idx == Path(leaf_index)[h - 1]
        IN [sibling |-> layers[h - 1][IF idx % 2 = 1 THEN idx ELSE idx + 2],
            right |-> leaf_index % 2 = 1]]

\* Entry h of a proof: the sibling of the path's node in layer h - 1 and
\* whether that node is a right child.
generate_merkle_proof(leaf_index) ==
    [h \in 1 .. Height(CHUNK_SIZE) |->
        LET idx == Path(leaf_index)[h - 1]
        IN [sibling |-> layers[h - 1][IF idx % 2 = 1 THEN idx ELSE idx + 2],
            right |-> idx % 2 = 1]]

-----------------------------------------------------------------------------
(* Verifying: someone claims that `seed` is the seed of `round` of `tier`   *)
(* and shows the proof of the leaf at `offset`.  One step per proof entry.  *)

VARIABLES offset, tier, round, seed, \* what is claimed, and the proof shown
          current, height            \* the hash computed so far, and its layer

vars == <<offset, tier, round, seed, current, height>>

\* Rounds of this chunk and of the ones beside it may be claimed.
ClaimedRounds ==
    {r \in (Chunk - 1) * CHUNK_SIZE + 1 .. (Chunk + 2) * CHUNK_SIZE : r >= 1}

Init ==
    /\ offset \in 0 .. CHUNK_SIZE - 1
    /\ tier \in Tiers
    /\ round \in ClaimedRounds
    /\ seed \in 0 .. CHUNK_SIZE - 1
    /\ current = compute_leaf_hash(tier, round, seed)
    /\ height = 0

Walk ==
    /\ height < Height(CHUNK_SIZE)
    /\ LET entry == generate_merkle_proof(offset)[height + 1]
       IN current' = IF entry.right THEN Parent(entry.sibling, current)
                                    ELSE Parent(current, entry.sibling)
    /\ height' = height + 1
    /\ UNCHANGED <<offset, tier, round, seed>>

Spec == Init /\ [][Walk]_vars

-----------------------------------------------------------------------------
(* Properties *)

Done == height = Height(CHUNK_SIZE)
Accepted == Done /\ current = get_merkle_root
Genuine ==
    tier = Tier /\ round = compute_round_id(Chunk, offset) /\ seed = offset

\* Reference definition: the hash over the aligned group of 2 ^ h leaves from
\* index `lo` on, by halving the group instead of layer by layer.
Subtree[h \in 0 .. Height(CHUNK_SIZE)] ==
    [lo \in {j * PowerOfTwo[h] : j \in 0 .. PowerOfTwo[Height(CHUNK_SIZE) - h] - 1} |->
        IF h = 0
        THEN IF lo < CHUNK_SIZE THEN leaves[lo + 1] ELSE Zero
        ELSE Parent(Subtree[h - 1][lo], Subtree[h - 1][lo + PowerOfTwo[h - 1]])]

\* A genuine walk climbs through the hashes of ever larger aligned groups of
\* leaves around the offset, up to the hash over all of them.
WalkClimbsTree ==
    LET size == PowerOfTwo[height]
    IN Genuine => current = Subtree[height][(offset \div size) * size]

\* A verifier accepts the proof for the seed, the round and the tier it was
\* made for and for no other: no seed of the chunk passes for another round,
\* of this chunk or its neighbours, or for the same round of another tier.
AcceptedIffGenuine == Done => (Accepted <=> Genuine)

\* The position flags spell the offset in binary: read with the chunk id
\* they say which round a proof is for.
PositionsSpellOffset ==
    LET proof == generate_merkle_proof(offset)
        Value[h \in 0 .. Height(CHUNK_SIZE)] ==
            IF h = 0 THEN 0
            ELSE Value[h - 1] + (IF proof[h].right THEN PowerOfTwo[h - 1] ELSE 0)
    IN Value[Height(CHUNK_SIZE)] = offset

=============================================================================
