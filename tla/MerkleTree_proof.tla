-------------------------- MODULE MerkleTree_proof --------------------------
(***************************************************************************)
(* Proofs about the Merkle tree of a chunk of any size: the proof of a     *)
(* leaf leads to the root from its own leaf and from no other, and its     *)
(* flags spell the offset.                                                 *)
(***************************************************************************)
EXTENDS MerkleTree, DataLemmas

-----------------------------------------------------------------------------
(* Powers of two and the height of the tree *)

\* The recursive definition of PowerOfTwo computes what it says.
LEMMA Powers ==
    /\ PowerOfTwo[0] = 1
    /\ \A k \in 1 .. CHUNK_SIZE : PowerOfTwo[k] = 2 * PowerOfTwo[k - 1]
<1> DEFINE step == [x \in Nat \X (1 .. CHUNK_SIZE) |-> 2 * x[1]]
           Computes(f) == f = [k \in 0 .. CHUNK_SIZE |->
                                  IF k = 0 THEN 1 ELSE 2 * f[k - 1]]
<1>1. step \in [Nat \X (1 .. CHUNK_SIZE) -> Nat]
  OBVIOUS
<1>2. PICK f : Computed(f, CHUNK_SIZE, Nat, 1, step)
  <2>1. CHUNK_SIZE \in Nat /\ 1 \in Nat
    BY MerkleAssumption
  <2> HIDE DEF step
  <2> QED
    BY <1>1, <2>1, RecursionExists
<1> USE MerkleAssumption
<1>3. /\ f \in [0 .. CHUNK_SIZE -> Nat] /\ f[0] = 1
      /\ \A k \in 1 .. CHUNK_SIZE : f[k] = 2 * f[k - 1]
  <2>1. /\ f \in [0 .. CHUNK_SIZE -> Nat] /\ f[0] = 1
        /\ \A k \in 1 .. CHUNK_SIZE : f[k] = step[<<f[k - 1], k>>]
    <3> HIDE DEF step
    <3> QED
      BY <1>2 DEF Computed
  <2>2. \A k \in 1 .. CHUNK_SIZE : f[k - 1] \in Nat
    <3>1. \A k \in 1 .. CHUNK_SIZE : k - 1 \in 0 .. CHUNK_SIZE
      OBVIOUS
    <3> QED
      BY <2>1, <3>1
  <2>3. \A n \in Nat, k \in 1 .. CHUNK_SIZE : step[<<n, k>>] = 2 * n
    OBVIOUS
  <2> HIDE DEF step
  <2> QED
    BY <2>1, <2>2, <2>3
<1>4. Computes(f)
  <2>1. f = [k \in 0 .. CHUNK_SIZE |-> f[k]]
    BY <1>3
  <2>2. \A k \in 0 .. CHUNK_SIZE : f[k] = IF k = 0 THEN 1 ELSE 2 * f[k - 1]
    BY <1>3
  <2> QED
    BY <2>1, <2>2
<1>5. Computes(PowerOfTwo)
  <2>1. PowerOfTwo = CHOOSE g : Computes(g)
    BY DEF PowerOfTwo
  <2> HIDE DEF Computes
  <2> QED
    BY <1>4, <2>1
<1>6. \A k \in 0 .. CHUNK_SIZE :
        PowerOfTwo[k] = IF k = 0 THEN 1 ELSE 2 * PowerOfTwo[k - 1]
  <2> HIDE DEF PowerOfTwo
  <2> QED
    BY <1>5
<1> QED
  BY <1>6

\* They grow past every number.
LEMMA PowersGrow ==
    \A k \in 0 .. CHUNK_SIZE : PowerOfTwo[k] \in Nat /\ PowerOfTwo[k] > k
<1> DEFINE T == {k \in 0 .. CHUNK_SIZE : PowerOfTwo[k] \in Nat /\ PowerOfTwo[k] > k}
<1>1. 0 \in T
  BY Powers, MerkleAssumption
<1>2. ASSUME NEW k \in 1 .. CHUNK_SIZE, k - 1 \in T
      PROVE  k \in T
  BY <1>2, Powers, MerkleAssumption
<1>3. \A k \in 0 .. CHUNK_SIZE : k \in T
  <2> HIDE DEF T
  <2> QED
    BY <1>1, <1>2, InductionUpTo, MerkleAssumption
<1> QED
  BY <1>3

H == Height(CHUNK_SIZE)

\* The tree has the least number of layers that the leaves fit.
LEMMA HeightFits == H \in 0 .. CHUNK_SIZE /\ PowerOfTwo[H] >= CHUNK_SIZE
<1> DEFINE Fits == {h \in 0 .. CHUNK_SIZE : PowerOfTwo[h] >= CHUNK_SIZE}
           Least(h) == /\ PowerOfTwo[h] >= CHUNK_SIZE
                       /\ \A k \in 0 .. h - 1 : PowerOfTwo[k] < CHUNK_SIZE
<1>1. CHUNK_SIZE \in Fits
  BY PowersGrow, MerkleAssumption
<1>2. PICK h \in Fits : \A k \in Fits : h <= k
  <2>1. Fits \in SUBSET Nat /\ Fits # {}
    BY <1>1
  <2> HIDE DEF Fits
  <2> QED
    BY <2>1, LeastNatural
<1>3. h \in 0 .. CHUNK_SIZE /\ Least(h)
  <2>1. ASSUME NEW k \in 0 .. h - 1
        PROVE  PowerOfTwo[k] < CHUNK_SIZE
    <3>1. k \in 0 .. CHUNK_SIZE /\ k \notin Fits
      BY <1>2, MerkleAssumption
    <3> QED
      BY <3>1, PowersGrow, MerkleAssumption
  <2> QED
    BY <1>2, <2>1
<1>4. H \in 0 .. CHUNK_SIZE /\ Least(H)
  <2>1. H = CHOOSE g \in 0 .. CHUNK_SIZE : Least(g)
    BY DEF H, Height
  <2> HIDE DEF Least
  <2> QED
    BY <1>3, <2>1
<1> QED
  BY <1>4

\* The width of layer h, in powers of two.
LEMMA Widths ==
    /\ H \in Nat
    /\ \A h \in 0 .. H : /\ PowerOfTwo[h] \in Nat \ {0}
                         /\ PowerOfTwo[H - h] \in Nat \ {0}
    /\ \A h \in 1 .. H : /\ PowerOfTwo[h] = 2 * PowerOfTwo[h - 1]
                         /\ PowerOfTwo[H - (h - 1)] = 2 * PowerOfTwo[H - h]
<1>1. H \in Nat /\ CHUNK_SIZE \in Nat
  BY HeightFits, MerkleAssumption
<1>2. ASSUME NEW h \in 0 .. H
      PROVE  h \in 0 .. CHUNK_SIZE /\ H - h \in 0 .. CHUNK_SIZE
  BY <1>1, HeightFits
<1>3. ASSUME NEW h \in 1 .. H
      PROVE  h \in 1 .. CHUNK_SIZE /\ H - (h - 1) \in 1 .. CHUNK_SIZE
             /\ (H - (h - 1)) - 1 = H - h
  BY <1>1, HeightFits
<1> HIDE DEF H
<1>4. ASSUME NEW h \in 0 .. H
      PROVE  /\ PowerOfTwo[h] \in Nat \ {0}
             /\ PowerOfTwo[H - h] \in Nat \ {0}
  BY <1>1, <1>2, PowersGrow
<1>5. ASSUME NEW h \in 1 .. H
      PROVE  /\ PowerOfTwo[h] = 2 * PowerOfTwo[h - 1]
             /\ PowerOfTwo[H - (h - 1)] = 2 * PowerOfTwo[H - h]
  BY <1>1, <1>3, Powers
<1> QED
  BY <1>1, <1>4, <1>5

-----------------------------------------------------------------------------
(* The layers *)

\* The recursive definition of the layers computes them one from the other.
LEMMA LayersBuilt ==
    /\ layers[0] = padded(leaves)
    /\ \A h \in 1 .. H : layers[h] = next_layer(layers[h - 1])
<1> DEFINE Upto(n, f) == f = [h \in 0 .. n |-> IF h = 0 THEN padded(leaves)
                                               ELSE next_layer(f[h - 1])]
           T == {n \in 0 .. H : \E f : Upto(n, f)}
<1>1. H \in Nat /\ Len(leaves) = CHUNK_SIZE
  BY Widths, MerkleAssumption DEF leaves
<1> HIDE DEF H
<1>2. 0 \in T
  <2>1. Upto(0, [h \in 0 .. 0 |-> padded(leaves)])
    OBVIOUS
  <2> HIDE DEF Upto
  <2> QED
    BY <1>1, <2>1
<1>3. ASSUME NEW n \in 1 .. H, n - 1 \in T
      PROVE  n \in T
  <2>1. PICK f : Upto(n - 1, f)
    BY <1>3
  <2> DEFINE g == [h \in 0 .. n |-> IF h < n THEN f[h] ELSE next_layer(f[n - 1])]
  <2>2. ASSUME NEW h \in 0 .. n
        PROVE  g[h] = IF h = 0 THEN padded(leaves) ELSE next_layer(g[h - 1])
    <3>1. CASE h = 0
      BY <1>1, <2>1, <3>1
    <3>2. CASE h # 0
      <4>1. h - 1 \in 0 .. n /\ h - 1 < n
        BY <1>1, <3>2
      <4>2. g[h - 1] = f[h - 1]
        BY <4>1
      <4>3. h < n => f[h] = next_layer(f[h - 1])
        BY <1>1, <2>1, <3>2
      <4>4. h = n \/ h < n
        BY <1>1
      <4> QED
        BY <3>2, <4>2, <4>3, <4>4
    <3> QED
      BY <3>1, <3>2
  <2>3. Upto(n, g)
    BY <2>2
  <2> HIDE DEF g, Upto
  <2> QED
    BY <1>1, <2>3
<1>4. H \in T
  <2> HIDE DEF T
  <2>1. \A i \in 0 .. H : i \in T
    BY <1>1, <1>2, <1>3, InductionUpTo
  <2> QED
    BY <1>1, <2>1
<1>5. Upto(H, layers)
  <2>1. layers = CHOOSE f : Upto(H, f)
    BY <1>1 DEF layers, build_merkle_tree, H
  <2> HIDE DEF Upto
  <2> QED
    BY <1>4, <2>1
<1>6. \A h \in 0 .. H : layers[h] = IF h = 0 THEN padded(leaves)
                                    ELSE next_layer(layers[h - 1])
  <2> HIDE DEF layers
  <2> QED
    BY <1>5
<1> QED
  BY <1>1, <1>6

\* Every layer is half as wide as the one below.
LEMMA LayerWidths == \A h \in 0 .. H : Len(layers[h]) = PowerOfTwo[H - h]
<1> DEFINE T == {h \in 0 .. H : Len(layers[h]) = PowerOfTwo[H - h]}
<1>1. 0 \in T
  <2>1. Len(leaves) = CHUNK_SIZE /\ H \in Nat /\ PowerOfTwo[H] \in Nat /\ H - 0 = H
    BY Widths, MerkleAssumption DEF leaves
  <2>2. layers[0] = [i \in 1 .. PowerOfTwo[H] |->
                        IF i <= CHUNK_SIZE THEN leaves[i] ELSE Zero]
    BY <2>1, LayersBuilt DEF padded, next_power_of_two, H
  <2> HIDE DEF layers, H
  <2> QED
    BY <2>1, <2>2
<1>2. ASSUME NEW h \in 1 .. H, h - 1 \in T
      PROVE  h \in T
  <2> DEFINE w == PowerOfTwo[H - h]
  <2>1. w \in Nat /\ PowerOfTwo[H - (h - 1)] = 2 * w
    BY Widths
  <2>2. layers[h] = next_layer(layers[h - 1]) /\ Len(layers[h - 1]) = 2 * w
    BY <1>2, <2>1, LayersBuilt
  <2>3. (2 * w) \div 2 = w
    BY <2>1
  <2> HIDE DEF w, layers
  <2>4. Len(layers[h]) = w
    BY <2>1, <2>2, <2>3 DEF next_layer
  <2>5. h \in 0 .. H
    BY Widths
  <2> QED
    BY <2>4, <2>5 DEF w
<1>3. \A h \in 0 .. H : h \in T
  <2> HIDE DEF T
  <2> QED
    BY <1>1, <1>2, Widths, InductionUpTo
<1> QED
  BY <1>3

\* The nodes: the leaves with zeros after them, then parents of neighbours.
LEMMA Nodes ==
    /\ \A i \in 1 .. PowerOfTwo[H] :
          layers[0][i] = IF i <= CHUNK_SIZE THEN leaves[i] ELSE Zero
    /\ \A h \in 1 .. H : \A j \in 1 .. PowerOfTwo[H - h] :
          layers[h][j] = Parent(layers[h - 1][2 * j - 1], layers[h - 1][2 * j])
<1>1. ASSUME NEW i \in 1 .. PowerOfTwo[H]
      PROVE  layers[0][i] = IF i <= CHUNK_SIZE THEN leaves[i] ELSE Zero
  <2>1. Len(leaves) = CHUNK_SIZE
    BY MerkleAssumption DEF leaves
  <2>2. layers[0] = [n \in 1 .. PowerOfTwo[H] |->
                        IF n <= CHUNK_SIZE THEN leaves[n] ELSE Zero]
    BY <2>1, LayersBuilt DEF padded, next_power_of_two, H
  <2> HIDE DEF layers, H
  <2> QED
    BY <2>2
<1>2. ASSUME NEW h \in 1 .. H, NEW j \in 1 .. PowerOfTwo[H - h]
      PROVE  layers[h][j] = Parent(layers[h - 1][2 * j - 1], layers[h - 1][2 * j])
  <2> DEFINE w == PowerOfTwo[H - h]
  <2>1. /\ w \in Nat
        /\ PowerOfTwo[H - (h - 1)] = 2 * w
        /\ h - 1 \in 0 .. H
    BY Widths
  <2>2. Len(layers[h - 1]) = 2 * w /\ layers[h] = next_layer(layers[h - 1])
    BY <2>1, LayerWidths, LayersBuilt
  <2>3. (2 * w) \div 2 = w /\ j \in 1 .. w
    BY <2>1
  <2> HIDE DEF w, layers
  <2> QED
    BY <2>1, <2>2, <2>3 DEF next_layer
<1> QED
  BY <1>1, <1>2

-----------------------------------------------------------------------------
(* The path of a leaf *)

\* The recursive definition of a path halves the index at every layer.
LEMMA PathSteps ==
    ASSUME NEW o \in Nat
    PROVE  /\ Path(o)[0] = o
           /\ \A h \in 1 .. H : Path(o)[h] = Path(o)[h - 1] \div 2
           /\ \A h \in 0 .. H : Path(o)[h] \in Nat
<1> DEFINE step == [x \in Nat \X (1 .. H) |-> x[1] \div 2]
           Computes(f) == f = [h \in 0 .. H |->
                                  IF h = 0 THEN o ELSE f[h - 1] \div 2]
<1>1. H \in Nat /\ \A h \in 1 .. H : h - 1 \in 0 .. H
  BY Widths
<1>2. Path(o) = CHOOSE f : Computes(f)
  BY DEF Path, H
<1> HIDE DEF H
<1>3. step \in [Nat \X (1 .. H) -> Nat]
  OBVIOUS
<1>4. \A n \in Nat, h \in 1 .. H : step[<<n, h>>] = n \div 2
  OBVIOUS
<1> HIDE DEF step
<1>5. PICK f : Computed(f, H, Nat, o, step)
  BY <1>1, <1>3, RecursionExists
<1>6. /\ f \in [0 .. H -> Nat] /\ f[0] = o
      /\ \A h \in 1 .. H : f[h] = f[h - 1] \div 2
  BY <1>1, <1>4, <1>5 DEF Computed
<1>7. Computes(f)
  <2>1. \A h \in 0 .. H : f[h] = IF h = 0 THEN o ELSE f[h - 1] \div 2
    BY <1>1, <1>6
  <2> QED
    BY <1>6, <2>1
<1>8. Computes(Path(o))
  <2> HIDE DEF Computes
  <2> QED
    BY <1>2, <1>7
<1> DEFINE path == Path(o)
<1> HIDE DEF path
<1>9. \A h \in 0 .. H : path[h] = IF h = 0 THEN o ELSE path[h - 1] \div 2
  BY <1>8 DEF path
<1>10. path[0] = o /\ \A h \in 1 .. H : path[h] = path[h - 1] \div 2
  BY <1>1, <1>9
<1> DEFINE T == {h \in 0 .. H : path[h] \in Nat}
<1>11. 0 \in T
  BY <1>1, <1>10
<1>12. ASSUME NEW h \in 1 .. H, h - 1 \in T
       PROVE  h \in T
  BY <1>1, <1>10, <1>12
<1>13. \A h \in 0 .. H : h \in T
  <2> HIDE DEF T
  <2> QED
    BY <1>1, <1>11, <1>12, InductionUpTo
<1> QED
  BY <1>10, <1>13 DEF path

\* A quotient is known by the multiples around the dividend.
LEMMA Quotient ==
    ASSUME NEW n \in Nat, NEW d \in Nat \ {0}, NEW q \in Nat,
           d * q <= n, n < d * q + d
    PROVE  n \div d = q
<1> DEFINE p == n \div d
<1>1. p \in Nat /\ d * p <= n /\ n < d * p + d
  OBVIOUS
<1> HIDE DEF p
<1>2. \A x, y \in Nat : x + 1 <= y => d * x + d <= d * y
  <2> SUFFICES ASSUME NEW x \in Nat, NEW y \in Nat, x + 1 <= y
               PROVE  d * x + d <= d * y
    OBVIOUS
  <2>1. PICK k \in Nat : y = x + 1 + k
    <3>1. y - (x + 1) \in Nat /\ y = x + 1 + (y - (x + 1))
      OBVIOUS
    <3> QED
      BY <3>1
  <2>2. d * y = d * x + d + d * k /\ d * k \in Nat
    BY <2>1
  <2>3. d * x \in Nat /\ d * y \in Nat
    OBVIOUS
  <2> QED
    BY <2>2, <2>3
<1>3. d * p \in Nat /\ d * q \in Nat
  BY <1>1
<1>4. ~(p + 1 <= q)
  BY <1>1, <1>2, <1>3
<1>5. ~(q + 1 <= p)
  BY <1>1, <1>2, <1>3
<1>6. p = q
  BY <1>1, <1>4, <1>5
<1> QED
  BY <1>6 DEF p

\* At layer h the path of a leaf is in the group of 2 ^ h leaves it is in.
LEMMA PathPlaces ==
    ASSUME NEW o \in 0 .. CHUNK_SIZE - 1, NEW h \in 0 .. H
    PROVE  /\ Path(o)[h] \in 0 .. PowerOfTwo[H - h] - 1
           /\ Path(o)[h] = o \div PowerOfTwo[h]
<1> DEFINE At(g, i, d, w) == /\ i <= w - 1
                             /\ d * i <= o /\ o < d * i + d
           Placed(g) == At(g, Path(o)[g], PowerOfTwo[g], PowerOfTwo[H - g])
           T == {g \in 0 .. H : Placed(g)}
<1>1. o \in Nat /\ CHUNK_SIZE \in Nat
  BY MerkleAssumption
<1>2. \A g \in 0 .. H : Path(o)[g] \in Nat
  BY <1>1, PathSteps
<1>3. 0 \in T
  <2>1. /\ Path(o)[0] = o /\ H - 0 = H /\ PowerOfTwo[0] = 1
        /\ PowerOfTwo[H] >= CHUNK_SIZE /\ PowerOfTwo[H] \in Nat /\ H \in Nat
    BY <1>1, PathSteps, Powers, HeightFits, Widths
  <2> QED
    BY <1>1, <2>1
<1>4. ASSUME NEW g \in 1 .. H, g - 1 \in T
      PROVE  g \in T
  <2> DEFINE i == Path(o)[g - 1]
             d == PowerOfTwo[g - 1]
             w == PowerOfTwo[H - g]
             half == i \div 2
  <2>1. /\ Path(o)[g] = half
        /\ PowerOfTwo[g] = 2 * d
        /\ PowerOfTwo[H - (g - 1)] = 2 * w
        /\ d \in Nat /\ w \in Nat /\ i \in Nat
        /\ g \in 0 .. H /\ g - 1 \in 0 .. H
    BY <1>1, <1>2, PathSteps, Widths
  <2>2. i <= 2 * w - 1 /\ d * i <= o /\ o < d * i + d
    BY <1>4, <2>1
  <2> HIDE DEF i, d, w
  <2>3. half \in Nat /\ (i = 2 * half \/ i = 2 * half + 1)
    BY <2>1
  <2> HIDE DEF half
  <2>4. half <= w - 1
    BY <2>1, <2>2, <2>3
  <2>5. d * half \in Nat /\ (2 * d) * half = 2 * (d * half)
    BY <2>1, <2>3
  <2>6. d * i = 2 * (d * half) \/ d * i = 2 * (d * half) + d
    BY <2>1, <2>3
  <2>7. (2 * d) * half <= o /\ o < (2 * d) * half + 2 * d
    BY <1>1, <2>1, <2>2, <2>5, <2>6
  <2>8. At(g, half, 2 * d, w)
    BY <2>4, <2>7
  <2> QED
    BY <2>1, <2>8 DEF d, w, half, i
<1>5. Placed(h)
  <2>1. \A g \in 0 .. H : g \in T
    <3> HIDE DEF T
    <3> QED
      BY <1>3, <1>4, Widths, InductionUpTo
  <2> QED
    BY <2>1
<1>6. PowerOfTwo[h] \in Nat \ {0} /\ PowerOfTwo[H - h] \in Nat
  BY Widths
<1> QED
  BY <1>1, <1>2, <1>5, <1>6, Quotient

\* At the top the path is at the root.
LEMMA PathEnds ==
    ASSUME NEW o \in 0 .. CHUNK_SIZE - 1
    PROVE  Path(o)[H] = 0
<1>1. H \in 0 .. H /\ H - H = 0 /\ PowerOfTwo[0] = 1
  BY Widths, Powers
<1>2. Path(o)[H] \in 0 .. PowerOfTwo[H - H] - 1
  BY <1>1, PathPlaces
<1> QED
  BY <1>1, <1>2

-----------------------------------------------------------------------------
(* The walk *)

\* The node of layer h above a leaf.
NodeAbove(o, h) == layers[h][Path(o)[h] + 1]

Entry(o, h) == generate_merkle_proof(o)[h]

Combined(entry, hash) == IF entry.right THEN Parent(entry.sibling, hash)
                                        ELSE Parent(hash, entry.sibling)

\* An entry of a proof is the sibling of the node above the leaf, and every
\* node but the root has one.
LEMMA EntryIsSibling ==
    ASSUME NEW o \in 0 .. CHUNK_SIZE - 1, NEW h \in 1 .. H
    PROVE  /\ (IF Path(o)[h - 1] % 2 = 1 THEN Path(o)[h - 1]
                                         ELSE Path(o)[h - 1] + 2)
                  \in 1 .. Len(layers[h - 1])
           /\ Entry(o, h).sibling =
                  layers[h - 1][IF Path(o)[h - 1] % 2 = 1 THEN Path(o)[h - 1]
                                                          ELSE Path(o)[h - 1] + 2]
           /\ Entry(o, h).right = (Path(o)[h - 1] % 2 = 1)
<1> DEFINE i == Path(o)[h - 1]
           w == PowerOfTwo[H - h]
<1>1. h - 1 \in 0 .. H
  BY Widths
<1>2. w \in Nat \ {0} /\ PowerOfTwo[H - (h - 1)] = 2 * w
  BY Widths
<1>3. i \in 0 .. 2 * w - 1
  BY <1>1, <1>2, PathPlaces
<1>4. Len(layers[h - 1]) = 2 * w
  BY <1>1, <1>2, LayerWidths
<1>5. Entry(o, h) = [sibling |-> layers[h - 1][IF i % 2 = 1 THEN i ELSE i + 2],
                     right |-> i % 2 = 1]
  BY DEF Entry, generate_merkle_proof, H
<1> HIDE DEF i, w, layers
<1>6. (IF i % 2 = 1 THEN i ELSE i + 2) \in 1 .. 2 * w
  BY <1>2, <1>3
<1>7. /\ Entry(o, h).sibling = layers[h - 1][IF i % 2 = 1 THEN i ELSE i + 2]
      /\ Entry(o, h).right = (i % 2 = 1)
  BY <1>5
<1> QED
  BY <1>4, <1>6, <1>7 DEF i

\* A step of a walk goes from the node above the leaf to the next one.
LEMMA WalkUp ==
    ASSUME NEW o \in 0 .. CHUNK_SIZE - 1, NEW h \in 1 .. H
    PROVE  NodeAbove(o, h) = Combined(Entry(o, h), NodeAbove(o, h - 1))
<1> DEFINE i == Path(o)[h - 1]
           half == Path(o)[h]
           low == layers[h - 1]
<1>1. h - 1 \in 0 .. H /\ h \in 0 .. H /\ o \in Nat
  BY Widths, MerkleAssumption
<1>2. i \in Nat /\ half = i \div 2
  BY <1>1, PathSteps
<1>3. half \in 0 .. PowerOfTwo[H - h] - 1 /\ PowerOfTwo[H - h] \in Nat
  BY <1>1, PathPlaces, Widths
<1>4. half + 1 \in 1 .. PowerOfTwo[H - h]
  BY <1>3
<1>5. NodeAbove(o, h) = Parent(low[2 * (half + 1) - 1], low[2 * (half + 1)])
  BY <1>4, Nodes DEF NodeAbove
<1>6. NodeAbove(o, h - 1) = low[i + 1]
  BY DEF NodeAbove
<1>7. /\ Entry(o, h).sibling = low[IF i % 2 = 1 THEN i ELSE i + 2]
      /\ Entry(o, h).right = (i % 2 = 1)
  BY EntryIsSibling
<1> HIDE DEF i, half, low
<1>8. CASE i % 2 = 1
  <2>1. 2 * (half + 1) - 1 = i /\ 2 * (half + 1) = i + 1
    BY <1>2, <1>8
  <2> QED
    BY <1>5, <1>6, <1>7, <1>8, <2>1 DEF Combined
<1>9. CASE i % 2 # 1
  <2>1. 2 * (half + 1) - 1 = i + 1 /\ 2 * (half + 1) = i + 2
    BY <1>2, <1>9
  <2> QED
    BY <1>5, <1>6, <1>7, <1>9, <2>1 DEF Combined
<1> QED
  BY <1>8, <1>9

\* The hash computed so far is the node above the offset if the claim is
\* genuine, and only then.
WalkInv ==
    /\ offset \in 0 .. CHUNK_SIZE - 1
    /\ height \in 0 .. H
    /\ current = NodeAbove(offset, height) <=> Genuine

LEMMA WalkInit == Init => WalkInv
<1> SUFFICES ASSUME Init
             PROVE  WalkInv
  OBVIOUS
<1>1. /\ offset \in 0 .. CHUNK_SIZE - 1 /\ height = 0
      /\ current = compute_leaf_hash(tier, round, seed)
  BY DEF Init
<1>2. /\ offset + 1 \in 1 .. CHUNK_SIZE /\ offset + 1 \in 1 .. PowerOfTwo[H]
      /\ (offset + 1) - 1 = offset
      /\ 0 \in 0 .. H
  BY <1>1, MerkleAssumption, HeightFits, Widths
<1>3. layers[0][offset + 1] = leaves[offset + 1]
  BY <1>2, Nodes, MerkleAssumption
<1>4. leaves[offset + 1] =
          compute_leaf_hash(Tier, compute_round_id(Chunk, offset), offset)
  BY <1>2 DEF leaves
<1>5. Path(offset)[0] = offset
  BY <1>1, PathSteps, MerkleAssumption
<1>6. NodeAbove(offset, height) =
          compute_leaf_hash(Tier, compute_round_id(Chunk, offset), offset)
  BY <1>1, <1>3, <1>4, <1>5 DEF NodeAbove
<1> QED
  BY <1>1, <1>2, <1>6 DEF WalkInv, Genuine, compute_leaf_hash

LEMMA WalkStep == WalkInv /\ [Walk]_vars => WalkInv'
<1>1. CASE UNCHANGED vars
  BY <1>1 DEF WalkInv, Genuine, NodeAbove, vars
<1>2. ASSUME WalkInv, Walk
      PROVE  WalkInv'
  <2> DEFINE g == height + 1
  <2>1. g \in 1 .. H /\ g - 1 = height
    BY <1>2, Widths DEF WalkInv, Walk, H
  <2>2. PICK o \in 0 .. CHUNK_SIZE - 1 : offset = o /\ offset' = o
    BY <1>2 DEF WalkInv, Walk
  <2>3. current' = Combined(Entry(o, g), current)
    BY <1>2, <2>2 DEF Walk, Combined, Entry
  <2>4. NodeAbove(o, g) = Combined(Entry(o, g), NodeAbove(o, height))
    BY <2>1, WalkUp
  <2>5. current' = NodeAbove(o, g) <=> current = NodeAbove(o, height)
    BY <2>3, <2>4 DEF Combined, Parent
  <2>6. height' = g /\ Genuine' = Genuine
    BY <1>2 DEF Walk, Genuine
  <2>7. NodeAbove(offset, height)' = NodeAbove(o, g)
    BY <2>2, <2>6 DEF NodeAbove
  <2>8. g \in 0 .. H
    BY <2>1, Widths
  <2> QED
    BY <1>2, <2>2, <2>5, <2>6, <2>7, <2>8 DEF WalkInv
<1> QED
  BY <1>1, <1>2

LEMMA WalkInvariant == Spec => []WalkInv
  BY WalkInit, WalkStep, PTL DEF Spec

\* A verifier accepts a claim about the seed of a round exactly if it is
\* genuine, for chunks of any size.
THEOREM OnlyGenuineAccepted == Spec => []AcceptedIffGenuine
<1>1. ASSUME WalkInv
      PROVE  AcceptedIffGenuine
  <2> SUFFICES ASSUME Done
               PROVE  Accepted <=> Genuine
    BY DEF AcceptedIffGenuine
  <2>1. height = H
    BY DEF Done, H
  <2>2. Path(offset)[H] = 0
    BY <1>1, PathEnds DEF WalkInv
  <2>3. NodeAbove(offset, height) = get_merkle_root
    BY <2>1, <2>2 DEF NodeAbove, get_merkle_root, H
  <2> QED
    BY <1>1, <2>3 DEF WalkInv, Accepted
<1> QED
  BY <1>1, WalkInvariant, PTL

-----------------------------------------------------------------------------
(* Groups of leaves *)

\* The hashes over the groups of 2 ^ h leaves, from those over half of each.
GroupRow(h, below) ==
    [lo \in {j * PowerOfTwo[h] : j \in 0 .. PowerOfTwo[H - h] - 1} |->
        IF h = 0
        THEN IF lo < CHUNK_SIZE THEN leaves[lo + 1] ELSE Zero
        ELSE Parent(below[lo], below[lo + PowerOfTwo[h - 1]])]

\* The recursive definition of Subtree computes what it says.
LEMMA SubtreesBuilt == \A h \in 0 .. H : Subtree[h] = GroupRow(h, Subtree[h - 1])
<1> DEFINE Upto(n, f) == f = [h \in 0 .. n |-> GroupRow(h, f[h - 1])]
           T == {n \in 0 .. H : \E f : Upto(n, f)}
<1>1. H \in Nat
  BY Widths
<1>2. Subtree = CHOOSE f : Upto(H, f)
  BY DEF Subtree, GroupRow, H
<1> HIDE DEF H
<1>3. \A a, b : GroupRow(0, a) = GroupRow(0, b)
  BY DEF GroupRow
<1>4. 0 \in T
  <2> DEFINE f == [h \in 0 .. 0 |-> GroupRow(h, 0)]
  <2>1. \A h \in 0 .. 0 : GroupRow(h, 0) = GroupRow(h, f[h - 1])
    BY <1>3
  <2>2. Upto(0, f)
    BY <2>1
  <2> HIDE DEF Upto, f
  <2> QED
    BY <1>1, <2>2
<1>5. ASSUME NEW n \in 1 .. H, n - 1 \in T
      PROVE  n \in T
  <2>1. PICK f : Upto(n - 1, f)
    BY <1>5
  <2> DEFINE g == [h \in 0 .. n |-> IF h < n THEN f[h] ELSE GroupRow(n, f[n - 1])]
  <2>2. ASSUME NEW h \in 0 .. n
        PROVE  g[h] = GroupRow(h, g[h - 1])
    <3>1. CASE h = 0
      <4>1. g[0] = GroupRow(0, f[0 - 1])
        BY <1>1, <2>1
      <4> QED
        BY <1>3, <3>1, <4>1
    <3>2. CASE h # 0
      <4>1. h - 1 \in 0 .. n /\ h - 1 < n
        BY <1>1, <3>2
      <4>2. g[h - 1] = f[h - 1]
        BY <4>1
      <4>3. h < n => f[h] = GroupRow(h, f[h - 1])
        BY <1>1, <2>1
      <4>4. h = n \/ h < n
        BY <1>1
      <4> QED
        BY <4>2, <4>3, <4>4
    <3> QED
      BY <3>1, <3>2
  <2>3. Upto(n, g)
    BY <2>2
  <2> HIDE DEF g, Upto
  <2> QED
    BY <1>1, <2>3
<1>6. H \in T
  <2> HIDE DEF T
  <2>1. \A i \in 0 .. H : i \in T
    BY <1>1, <1>4, <1>5, InductionUpTo
  <2> QED
    BY <1>1, <2>1
<1>7. Upto(H, Subtree)
  <2> HIDE DEF Upto
  <2> QED
    BY <1>2, <1>6
<1> HIDE DEF Subtree
<1> QED
  BY <1>7

\* The hash over a group by halves is its node in the layers.
LEMMA GroupsAreNodes ==
    \A h \in 0 .. H : \A j \in 0 .. PowerOfTwo[H - h] - 1 :
        Subtree[h][j * PowerOfTwo[h]] = layers[h][j + 1]
<1> DEFINE Same(h) == \A j \in 0 .. PowerOfTwo[H - h] - 1 :
                          Subtree[h][j * PowerOfTwo[h]] = layers[h][j + 1]
           T == {h \in 0 .. H : Same(h)}
<1>1. H \in Nat /\ CHUNK_SIZE \in Nat
  BY Widths, MerkleAssumption
<1>2. 0 \in T
  <2>1. /\ PowerOfTwo[0] = 1 /\ H - 0 = H /\ PowerOfTwo[H] \in Nat
    BY <1>1, Powers, Widths
  <2> SUFFICES ASSUME NEW j \in 0 .. PowerOfTwo[H] - 1
               PROVE  Subtree[0][j * 1] = layers[0][j + 1]
    BY <1>1, <2>1
  <2>2. j \in Nat /\ j * 1 = j /\ j + 1 \in 1 .. PowerOfTwo[H]
        /\ (j < CHUNK_SIZE <=> j + 1 <= CHUNK_SIZE)
    BY <1>1, <2>1
  <2>3. Subtree[0] = GroupRow(0, Subtree[0 - 1])
    BY <1>1, SubtreesBuilt
  <2>4. j \in {i * PowerOfTwo[0] : i \in 0 .. PowerOfTwo[H - 0] - 1}
    BY <2>1, <2>2
  <2>5. Subtree[0][j] = IF j < CHUNK_SIZE THEN leaves[j + 1] ELSE Zero
    <3> HIDE DEF H, Subtree
    <3> QED
      BY <2>3, <2>4 DEF GroupRow
  <2>6. layers[0][j + 1] = IF j + 1 <= CHUNK_SIZE THEN leaves[j + 1] ELSE Zero
    BY <2>2, Nodes
  <2> QED
    BY <2>2, <2>5, <2>6
<1>3. ASSUME NEW h \in 1 .. H, h - 1 \in T
      PROVE  h \in T
  <2> DEFINE d == PowerOfTwo[h - 1]
             w == PowerOfTwo[H - h]
  <2>1. /\ PowerOfTwo[h] = 2 * d /\ PowerOfTwo[H - (h - 1)] = 2 * w
        /\ d \in Nat /\ w \in Nat
        /\ h - 1 \in 0 .. H /\ h \in 0 .. H
    BY Widths
  <2>2. \A j \in 0 .. 2 * w - 1 : Subtree[h - 1][j * d] = layers[h - 1][j + 1]
    BY <1>3, <2>1
  <2>3. ASSUME NEW j \in 0 .. w - 1
        PROVE  Subtree[h][j * (2 * d)] = layers[h][j + 1]
    <3> DEFINE lo == j * (2 * d)
    <3>1. /\ 2 * j \in 0 .. 2 * w - 1 /\ 2 * j + 1 \in 0 .. 2 * w - 1
          /\ j + 1 \in 1 .. w
          /\ 2 * (j + 1) - 1 = 2 * j + 1 /\ 2 * (j + 1) = (2 * j + 1) + 1
      BY <2>1
    <3>2. lo = (2 * j) * d /\ lo + d = (2 * j + 1) * d
      BY <2>1
    <3>3. lo \in {i * PowerOfTwo[h] : i \in 0 .. PowerOfTwo[H - h] - 1}
      BY <2>1
    <3>4. Subtree[h] = GroupRow(h, Subtree[h - 1])
      BY <2>1, SubtreesBuilt
    <3>5. Subtree[h][lo] = Parent(Subtree[h - 1][lo], Subtree[h - 1][lo + d])
      <4>1. h # 0
        BY <1>1
      <4> HIDE DEF H, Subtree, lo
      <4> QED
        BY <3>3, <3>4, <4>1 DEF GroupRow
    <3>6. layers[h][j + 1] =
              Parent(layers[h - 1][2 * (j + 1) - 1], layers[h - 1][2 * (j + 1)])
      BY <3>1, Nodes
    <3> HIDE DEF lo, d, w, Subtree, layers
    <3>7. /\ Subtree[h - 1][lo] = layers[h - 1][2 * j + 1]
          /\ Subtree[h - 1][lo + d] = layers[h - 1][(2 * j + 1) + 1]
      BY <2>2, <3>1, <3>2
    <3> QED
      BY <3>1, <3>5, <3>6, <3>7 DEF lo
  <2>4. Same(h)
    BY <2>1, <2>3
  <2> HIDE DEF Same
  <2> QED
    BY <2>1, <2>4
<1>4. \A h \in 0 .. H : h \in T
  <2> HIDE DEF T
  <2> QED
    BY <1>1, <1>2, <1>3, InductionUpTo
<1> QED
  BY <1>4

\* A genuine walk climbs through the hashes of the groups around its leaf.
THEOREM GenuineWalkClimbs == Spec => []WalkClimbsTree
<1>1. ASSUME WalkInv
      PROVE  WalkClimbsTree
  <2>1. PICK o \in 0 .. CHUNK_SIZE - 1, h \in 0 .. H : offset = o /\ height = h
    BY <1>1 DEF WalkInv
  <2> DEFINE j == o \div PowerOfTwo[h]
  <2>2. j \in 0 .. PowerOfTwo[H - h] - 1 /\ Path(o)[h] = j
    BY PathPlaces
  <2>3. Subtree[h][j * PowerOfTwo[h]] = layers[h][j + 1]
    BY <2>2, GroupsAreNodes
  <2>4. Genuine => current = NodeAbove(o, h)
    BY <1>1, <2>1 DEF WalkInv
  <2> QED
    BY <2>1, <2>2, <2>3, <2>4 DEF WalkClimbsTree, NodeAbove
<1> QED
  BY <1>1, WalkInvariant, PTL

-----------------------------------------------------------------------------
(* The flags *)

\* The flags add up to the offset, less what the path still has to climb.
LEMMA FlagsSpell ==
    ASSUME NEW o \in 0 .. CHUNK_SIZE - 1
    PROVE  LET proof == generate_merkle_proof(o)
               Value[h \in 0 .. H] ==
                   IF h = 0 THEN 0
                   ELSE Value[h - 1] + (IF proof[h].right THEN PowerOfTwo[h - 1] ELSE 0)
           IN Value[H] = o
<1> DEFINE proof == generate_merkle_proof(o)
           flag(h) == IF proof[h].right THEN PowerOfTwo[h - 1] ELSE 0
           Computes(f) == f = [h \in 0 .. H |->
                                  IF h = 0 THEN 0 ELSE f[h - 1] + flag(h)]
           step == [x \in Nat \X (1 .. H) |-> x[1] + flag(x[2])]
           Value == CHOOSE f : Computes(f)
<1>1. /\ H \in Nat /\ \A h \in 1 .. H : h - 1 \in 0 .. H
      /\ o \in Nat
  BY Widths, MerkleAssumption
<1>2. \A h \in 1 .. H : flag(h) \in Nat
  BY <1>1, Widths
<1> SUFFICES Value[H] = o
  OBVIOUS
<1> HIDE DEF H, flag
<1>3. step \in [Nat \X (1 .. H) -> Nat]
  BY <1>2
<1>4. \A n \in Nat, h \in 1 .. H : step[<<n, h>>] = n + flag(h)
  OBVIOUS
<1> HIDE DEF step
<1>5. PICK f : Computed(f, H, Nat, 0, step)
  BY <1>1, <1>3, RecursionExists
<1>6. /\ f \in [0 .. H -> Nat] /\ f[0] = 0
      /\ \A h \in 1 .. H : f[h] = f[h - 1] + flag(h)
  BY <1>1, <1>4, <1>5 DEF Computed
<1>7. Computes(f)
  <2>1. \A h \in 0 .. H : f[h] = IF h = 0 THEN 0 ELSE f[h - 1] + flag(h)
    BY <1>1, <1>6
  <2> QED
    BY <1>6, <2>1
<1>8. Computes(Value)
  <2> HIDE DEF Computes
  <2> QED
    BY <1>7
<1> HIDE DEF Value
<1>9. \A h \in 0 .. H : Value[h] = IF h = 0 THEN 0 ELSE Value[h - 1] + flag(h)
  BY <1>8
<1> DEFINE Rest(v, i, d) == v \in Nat /\ v + i * d = o
           T == {h \in 0 .. H : Rest(Value[h], Path(o)[h], PowerOfTwo[h])}
<1>10. 0 \in T
  BY <1>1, <1>9, PathSteps, Powers
<1>11. ASSUME NEW h \in 1 .. H, h - 1 \in T
       PROVE  h \in T
  <2> DEFINE v == Value[h - 1]
             i == Path(o)[h - 1]
             d == PowerOfTwo[h - 1]
             half == i \div 2
  <2>1. /\ Path(o)[h] = half /\ i \in Nat
        /\ PowerOfTwo[h] = 2 * d /\ d \in Nat
        /\ h \in 0 .. H /\ h - 1 \in 0 .. H
    BY <1>1, PathSteps, Widths
  <2>2. flag(h) = IF i % 2 = 1 THEN d ELSE 0
    BY EntryIsSibling DEF flag, Entry
  <2>3. Value[h] = v + flag(h)
    BY <1>1, <1>9
  <2>4. v \in Nat /\ v + i * d = o
    BY <1>11
  <2> HIDE DEF v, i, d
  <2>5. half \in Nat
        /\ \/ i % 2 = 1 /\ i = 2 * half + 1
           \/ i % 2 = 0 /\ i = 2 * half
    BY <2>1
  <2> HIDE DEF half
  <2>6. half * (2 * d) = 2 * (half * d) /\ half * d \in Nat
    BY <2>1, <2>5
  <2>7. CASE i % 2 = 1 /\ i = 2 * half + 1
    <3>1. i * d = 2 * (half * d) + d
      BY <2>1, <2>5, <2>7
    <3>2. Rest(v + d, half, 2 * d)
      BY <2>1, <2>4, <2>6, <3>1
    <3> QED
      BY <2>1, <2>2, <2>3, <2>7, <3>2
  <2>8. CASE i % 2 = 0 /\ i = 2 * half
    <3>1. i * d = 2 * (half * d)
      BY <2>1, <2>5, <2>8
    <3>2. Rest(v + 0, half, 2 * d)
      BY <2>1, <2>4, <2>6, <3>1
    <3> QED
      BY <2>1, <2>2, <2>3, <2>8, <3>2
  <2> QED
    BY <2>5, <2>7, <2>8
<1>12. H \in T
  <2> HIDE DEF T
  <2>1. \A h \in 0 .. H : h \in T
    BY <1>1, <1>10, <1>11, InductionUpTo
  <2> QED
    BY <1>1, <2>1
<1>13. PowerOfTwo[H] \in Nat /\ Path(o)[H] = 0
  BY <1>1, Widths, PathEnds
<1> QED
  BY <1>1, <1>12, <1>13

\* The flags of a proof spell its offset in binary.
THEOREM FlagsSpellOffset == Spec => []PositionsSpellOffset
<1>1. ASSUME WalkInv
      PROVE  PositionsSpellOffset
  BY <1>1, FlagsSpell DEF WalkInv, PositionsSpellOffset, H
<1> QED
  BY <1>1, WalkInvariant, PTL

=============================================================================
