---------------------------- MODULE Heap_proofs ----------------------------
(***************************************************************************)
(* Proofs about Heap: for every set of types, sizes and literals and a     *)
(* heap of any length.                                                     *)
(***************************************************************************)
EXTENDS Heap, Induction, FiniteSetTheorems, TLAPS

-----------------------------------------------------------------------------
(* Layout                                                                  *)

\* An element takes 1, 4 or 8 bytes.
LEMMA Widths ==
    ASSUME NEW t
    PROVE  type_byte_size(t) \in {1, 4, 8}
BY DEF type_byte_size

\* A defined type is an array's or a record's.
LEMMA TypeFacts ==
    ASSUME NEW t \in DOMAIN Definitions
    PROVE  \/ /\ IsArray(t) /\ ~IsRecord(t) /\ Dimensions(t) = Definitions[t].dimensions
              /\ Dimensions(t) \in Nat \ {0} /\ Definitions[t].type \in TypeNames
           \/ /\ IsRecord(t) /\ ~IsArray(t) /\ Dimensions(t) = 0
              /\ Definitions[t].fields \in Seq(TypeNames) /\ Len(Definitions[t].fields) \in Nat \ {0}
<1>1. CASE IsArray(t)
  <2>1. ~IsRecord(t)
    BY <1>1 DEF IsArray, IsRecord
  <2> QED
    BY <1>1, <2>1, HeapAssumption DEF Dimensions
<1>2. CASE IsRecord(t)
  <2>1. ~IsArray(t)
    BY <1>2 DEF IsArray, IsRecord
  <2>2. Definitions[t].fields \in Seq(TypeNames) \ {<<>>}
    BY <2>1, HeapAssumption
  <2>3. Len(Definitions[t].fields) \in Nat \ {0}
    BY <2>2
  <2> QED
    BY <1>2, <2>1, <2>2, <2>3 DEF Dimensions
<1> QED
  BY <1>1, <1>2, HeapAssumption

\* The number of elements, dimension by dimension.
LEMMA Products ==
    ASSUME NEW n \in Nat, NEW sizes \in [1 .. n -> Nat]
    PROVE  \E p \in [0 .. n -> Nat] :
             /\ p[0] = 1 /\ \A k \in 1 .. n : p[k] = p[k - 1] * sizes[k]
             /\ Product(sizes) = p[n]
<1> DEFINE step == [k \in 1 .. n |-> [v \in Nat |-> v * sizes[k]]]
           up == [k \in 1 .. n |-> k - 1]
           T(f) == [k \in 0 .. n |-> IF k = 0 THEN 1 ELSE f[k - 1] * sizes[k]]
<1>1. step \in [1 .. n -> [Nat -> Nat]]
  <2>1. ASSUME NEW k \in 1 .. n, NEW v \in Nat PROVE v * sizes[k] \in Nat
    OBVIOUS
  <2> QED
    BY <2>1
<1>2. \A k \in 1 .. n : up[k] \in 0 .. k - 1
  OBVIOUS
<1> HIDE DEF step, up
<1>3. PICK f \in [0 .. n -> Nat] : Solves(f, n, 1, up, step)
  BY <1>1, <1>2, Recursion
<1>4. f = T(f)
  <2>1. ASSUME NEW k \in 1 .. n PROVE step[k][f[up[k]]] = f[k - 1] * sizes[k]
    BY DEF step, up
  <2>2. f = [k \in 0 .. n |-> IF k = 0 THEN 1 ELSE step[k][f[up[k]]]]
    BY <1>3 DEF Solves
  <2>3. ASSUME NEW k \in 0 .. n
        PROVE  f[k] = IF k = 0 THEN 1 ELSE f[k - 1] * sizes[k]
    <3>1. f[k] = IF k = 0 THEN 1 ELSE step[k][f[up[k]]]
      BY <2>2
    <3> QED
      BY <2>1, <3>1
  <2>4. f = [k \in 0 .. n |-> f[k]]
    OBVIOUS
  <2> QED
    BY <2>3, <2>4, Zenon
<1> DEFINE total == CHOOSE g : g = T(g)
<1>5. total = T(total)
  BY <1>4
<1>6. Product(sizes) = total[n]
  <2>1. Len(sizes) = n
    OBVIOUS
  <2> QED
    BY <2>1 DEF Product
<1> HIDE DEF total
<1>7. total[0] = 1 /\ \A k \in 1 .. n : total[k] = total[k - 1] * sizes[k]
  BY <1>5
<1>8. 0 .. n \subseteq {k \in 0 .. n : total[k] \in Nat}
  <2> DEFINE S == {k \in 0 .. n : total[k] \in Nat}
  <2>1. 0 \in S
    BY <1>7
  <2>2. ASSUME NEW k \in 0 .. n - 1, k \in S PROVE k + 1 \in S
    <3>1. total[k + 1] = total[k] * sizes[k + 1] /\ sizes[k + 1] \in Nat
      BY <1>7
    <3> QED
      BY <2>2, <3>1
  <2> HIDE DEF S
  <2>3. 0 .. n \subseteq S
    BY <2>1, <2>2, Steps
  <2> QED
    BY <2>3 DEF S
<1>9. total \in [0 .. n -> Nat]
  BY <1>5, <1>8
<1> QED
  BY <1>6, <1>7, <1>9

\* The number of an element, index by index.
LEMMA Numbers ==
    ASSUME NEW n \in Nat \ {0}, NEW sizes \in [1 .. n -> Nat], NEW at \in [1 .. n -> Int]
    PROVE  \E i \in [1 .. n -> Int] :
             /\ i[1] = at[1] /\ \A k \in 2 .. n : i[k] = i[k - 1] * sizes[k] + at[k]
             /\ curr_index(sizes, at) = i[n]
<1> DEFINE step == [k \in 1 .. n |-> [v \in Int |-> IF k = 1 THEN at[1] ELSE v * sizes[k] + at[k]]]
           up == [k \in 1 .. n |-> k - 1]
           T(f) == [k \in 1 .. n |-> IF k = 1 THEN at[1] ELSE f[k - 1] * sizes[k] + at[k]]
<1>1. step \in [1 .. n -> [Int -> Int]]
  <2>1. ASSUME NEW k \in 1 .. n, NEW v \in Int PROVE v * sizes[k] + at[k] \in Int
    OBVIOUS
  <2> QED
    BY <2>1
<1>2. \A k \in 1 .. n : up[k] \in 0 .. k - 1
  OBVIOUS
<1> HIDE DEF step, up
<1>3. PICK f \in [0 .. n -> Int] : Solves(f, n, 0, up, step)
  <2>1. n \in Nat /\ 0 \in Int
    OBVIOUS
  <2> QED
    BY <1>1, <1>2, <2>1, Recursion
<1> DEFINE g == [k \in 1 .. n |-> f[k]]
<1>4. g = T(g)
  <2>1. ASSUME NEW k \in 1 .. n
        PROVE  step[k][f[up[k]]] = IF k = 1 THEN at[1] ELSE g[k - 1] * sizes[k] + at[k]
    <3>1. step[k][f[k - 1]] = IF k = 1 THEN at[1] ELSE f[k - 1] * sizes[k] + at[k]
      BY DEF step
    <3>2. k # 1 => g[k - 1] = f[k - 1]
      OBVIOUS
    <3> QED
      BY <3>1, <3>2 DEF up
  <2>2. f = [k \in 0 .. n |-> IF k = 0 THEN 0 ELSE step[k][f[up[k]]]]
    BY <1>3 DEF Solves
  <2>3. ASSUME NEW k \in 1 .. n PROVE g[k] = step[k][f[up[k]]]
    <3>1. k \in 0 .. n /\ k # 0 /\ g[k] = f[k]
      OBVIOUS
    <3> HIDE DEF g
    <3> QED
      BY <2>2, <3>1, Zenon
  <2> HIDE DEF g
  <2>4. g = [k \in 1 .. n |-> g[k]]
    BY DEF g
  <2>5. ASSUME NEW k \in 1 .. n
        PROVE  g[k] = IF k = 1 THEN at[1] ELSE g[k - 1] * sizes[k] + at[k]
    <3>1. g[k] = step[k][f[up[k]]]
      BY <2>3
    <3>2. step[k][f[up[k]]] = IF k = 1 THEN at[1] ELSE g[k - 1] * sizes[k] + at[k]
      BY <2>1
    <3> QED
      BY <3>1, <3>2, Zenon
  <2> QED
    BY <2>4, <2>5, Zenon
<1> HIDE DEF g
<1> DEFINE index == CHOOSE h : h = T(h)
<1>5. index = T(index)
  BY <1>4
<1>6. curr_index(sizes, at) = index[n]
  <2>1. Len(at) = n /\ DOMAIN at = 1 .. n
    OBVIOUS
  <2> QED
    BY <2>1 DEF curr_index
<1> HIDE DEF index
<1>7. index[1] = at[1] /\ \A k \in 2 .. n : index[k] = index[k - 1] * sizes[k] + at[k]
  <2>1. ASSUME NEW k \in 1 .. n
        PROVE  index[k] = IF k = 1 THEN at[1] ELSE index[k - 1] * sizes[k] + at[k]
    BY <1>5, Zenon
  <2>2. 1 \in 1 .. n
    OBVIOUS
  <2>3. ASSUME NEW k \in 2 .. n PROVE index[k] = index[k - 1] * sizes[k] + at[k]
    <3>1. k \in 1 .. n /\ k # 1
      OBVIOUS
    <3> QED
      BY <2>1, <3>1
  <2> QED
    BY <2>1, <2>2, <2>3
<1>8. 1 .. n \subseteq {k \in 1 .. n : index[k] \in Int}
  <2> DEFINE S == {k \in 1 .. n : index[k] \in Int}
  <2>1. ASSUME NEW k \in 1 .. n, \A m \in 1 .. k - 1 : m \in S PROVE k \in S
    <3>1. CASE k = 1
      BY <1>7, <3>1
    <3>2. CASE k # 1
      <4>1. k - 1 \in S
        BY <2>1, <3>2
      <4>2. k \in 2 .. n
        BY <3>2
      <4>3. index[k] = index[k - 1] * sizes[k] + at[k]
        BY <1>7, <4>2
      <4> DEFINE a == index[k - 1]
                 w == sizes[k]
                 c == at[k]
      <4>4. a \in Int /\ w \in Int /\ c \in Int
        BY <4>1 DEF S
      <4> HIDE DEF a, w, c
      <4>5. a * w + c \in Int
        BY <4>4
      <4> QED
        BY <4>3, <4>5 DEF S, a, w, c
    <3> QED
      BY <3>1, <3>2
  <2> HIDE DEF S
  <2>2. 1 .. n \subseteq S
    BY <2>1, Strong
  <2> QED
    BY <2>2 DEF S
<1>9. index \in [1 .. n -> Int]
  BY <1>5, <1>8
<1> QED
  BY <1>6, <1>7, <1>9

\* A row of s elements ends where the next begins.
LEMMA Rows ==
    ASSUME NEW a \in Int, NEW b \in Int, NEW s \in Nat, a < b
    PROVE  a * s + s <= b * s
<1>1. b - a - 1 \in Nat
  OBVIOUS
<1>2. (b - a - 1) * s \in Nat
  BY <1>1
<1>3. (b - a - 1) * s = b * s - a * s - s
  OBVIOUS
<1>4. a * s \in Int /\ b * s \in Int
  OBVIOUS
<1> QED
  BY <1>2, <1>3, <1>4

\* Within a row below b, the number is below the end of row b.
LEMMA RowBelow ==
    ASSUME NEW a \in Int, NEW b \in Nat, 0 <= a, a < b, NEW s \in Nat,
           NEW c \in Int, 0 <= c, c < s
    PROVE  0 <= a * s + c /\ a * s + c < b * s
<1>1. a * s + s <= b * s
  BY Rows
<1>2. a * s \in Nat /\ b * s \in Int
  <2>1. a \in Nat
    OBVIOUS
  <2> QED
    BY <2>1
<1> DEFINE as == a * s
           bs == b * s
<1> HIDE DEF as, bs
<1> QED
  BY <1>1, <1>2 DEF as, bs

\* An element within the sizes has a number below the number of elements.
LEMMA NumberBelow ==
    ASSUME NEW n \in Nat \ {0}, NEW sizes \in [1 .. n -> Nat], NEW at \in [1 .. n -> Int],
           Within(at, sizes)
    PROVE  curr_index(sizes, at) \in 0 .. Product(sizes) - 1
<1>1. PICK p \in [0 .. n -> Nat] :
             /\ p[0] = 1 /\ \A k \in 1 .. n : p[k] = p[k - 1] * sizes[k]
             /\ Product(sizes) = p[n]
  BY Products
<1>2. PICK i \in [1 .. n -> Int] :
             /\ i[1] = at[1] /\ \A k \in 2 .. n : i[k] = i[k - 1] * sizes[k] + at[k]
             /\ curr_index(sizes, at) = i[n]
  BY Numbers
<1> DEFINE S == {k \in 1 .. n : 0 <= i[k] /\ i[k] < p[k]}
<1>3. ASSUME NEW k \in 1 .. n, \A m \in 1 .. k - 1 : m \in S PROVE k \in S
  <2>1. 0 <= at[k] /\ at[k] < sizes[k] /\ at[k] \in Int /\ sizes[k] \in Nat
    BY DEF Within
  <2>2. CASE k = 1
    <3>1. p[1] = sizes[1] /\ i[1] = at[1]
      BY <1>1, <1>2
    <3> QED
      BY <2>1, <2>2, <3>1
  <2>3. CASE k # 1
    <3>1. k - 1 \in S
      BY <1>3, <2>3
    <3>2. k \in 2 .. n
      BY <2>3
    <3>3. i[k] = i[k - 1] * sizes[k] + at[k] /\ p[k] = p[k - 1] * sizes[k]
      BY <1>1, <1>2, <3>2
    <3> DEFINE a == i[k - 1]
               b == p[k - 1]
               w == sizes[k]
               c == at[k]
    <3>4. /\ a \in Int /\ b \in Nat /\ 0 <= a /\ a < b
          /\ w \in Nat /\ c \in Int /\ 0 <= c /\ c < w
      <4>1. k - 1 \in 0 .. n
        OBVIOUS
      <4> QED
        BY <2>1, <3>1, <4>1
    <3>5. i[k] = a * w + c /\ p[k] = b * w
      BY <3>3
    <3> HIDE DEF a, b, w, c
    <3>6. 0 <= a * w + c /\ a * w + c < b * w
      BY <3>4, RowBelow, Zenon
    <3>7. 0 <= i[k] /\ i[k] < p[k]
      BY <3>5, <3>6
    <3> QED
      BY <3>7
  <2> QED
    BY <2>2, <2>3
<1> HIDE DEF S
<1>4. 1 .. n \subseteq S
  BY <1>3, Strong
<1>5. n \in S
  BY <1>4
<1> QED
  BY <1>1, <1>2, <1>5 DEF S

\* Two elements within the sizes have different numbers.
LEMMA NumberOwn ==
    ASSUME NEW n \in Nat \ {0}, NEW sizes \in [1 .. n -> Nat],
           NEW at \in [1 .. n -> Int], Within(at, sizes),
           NEW other \in [1 .. n -> Int], Within(other, sizes),
           curr_index(sizes, at) = curr_index(sizes, other)
    PROVE  at = other
<1>1. PICK i \in [1 .. n -> Int] :
             /\ i[1] = at[1] /\ \A k \in 2 .. n : i[k] = i[k - 1] * sizes[k] + at[k]
             /\ curr_index(sizes, at) = i[n]
  BY Numbers
<1>2. PICK j \in [1 .. n -> Int] :
             /\ j[1] = other[1] /\ \A k \in 2 .. n : j[k] = j[k - 1] * sizes[k] + other[k]
             /\ curr_index(sizes, other) = j[n]
  BY Numbers
<1> DEFINE S == {k \in 1 .. n : at[k] = other[k] /\ (k > 1 => i[k - 1] = j[k - 1])}
<1>3. ASSUME NEW k \in 1 .. n, \A m \in k + 1 .. n : m \in S PROVE k \in S
  <2>1. i[k] = j[k]
    <3>1. CASE k = n
      BY <1>1, <1>2, <3>1
    <3>2. CASE k # n
      <4>1. k + 1 \in k + 1 .. n /\ k + 1 > 1 /\ (k + 1) - 1 = k
        BY <3>2
      <4>2. k + 1 > 1 => i[(k + 1) - 1] = j[(k + 1) - 1]
        BY <1>3, <4>1
      <4> QED
        BY <4>1, <4>2
    <3> QED
      BY <3>1, <3>2
  <2>2. CASE k = 1
    BY <1>1, <1>2, <2>1, <2>2
  <2>3. CASE k # 1
    <3>1. k \in 2 .. n
      BY <2>3
    <3>2. i[k] = i[k - 1] * sizes[k] + at[k] /\ j[k] = j[k - 1] * sizes[k] + other[k]
      BY <1>1, <1>2, <3>1
    <3> DEFINE a == i[k - 1]
               b == j[k - 1]
               w == sizes[k]
               c == at[k]
               d == other[k]
    <3>10. k - 1 \in 1 .. n
      BY <3>1
    <3>11. a \in Int /\ b \in Int
      BY <3>10, Zenon
    <3>12. w \in Nat /\ c \in Int /\ d \in Int
      BY Zenon
    <3>13. k \in DOMAIN sizes
      OBVIOUS
    <3>3. /\ a \in Int /\ b \in Int /\ w \in Nat /\ c \in Int /\ d \in Int
          /\ 0 <= c /\ c < w /\ 0 <= d /\ d < w
      <4> HIDE DEF a, b
      <4> QED
        BY <3>11, <3>12, <3>13 DEF Within
    <3> DEFINE aw == a * w
               bw == b * w
    <3>4. aw + c = bw + d
      BY <2>1, <3>2
    <3> HIDE DEF a, b, w, c, d
    <3>5. aw \in Int /\ bw \in Int
      BY <3>3
    <3>6. a < b => aw + w <= bw
      BY <3>3, Rows
    <3>7. b < a => bw + w <= aw
      BY <3>3, Rows
    <3>8. a = b => aw = bw
      OBVIOUS
    <3> HIDE DEF aw, bw
    <3>9. a = b /\ c = d
      BY <3>3, <3>4, <3>5, <3>6, <3>7, <3>8
    <3> QED
      BY <3>9 DEF a, b, c, d
  <2> QED
    BY <2>2, <2>3
<1> HIDE DEF S
<1>4. 1 .. n \subseteq S
  BY <1>3, StrongDown
<1>5. \A k \in 1 .. n : at[k] = other[k]
  BY <1>4 DEF S
<1> QED
  BY <1>5

\* Sizes a block of type t may have.
SizesFor(t) == [1 .. Dimensions(t) -> Nat]

\* The elements of an array are those within its sizes.
LEMMA ArrayPositions ==
    ASSUME NEW t \in DOMAIN Definitions, IsArray(t), NEW sizes \in SizesFor(t)
    PROVE  Positions(t, sizes) = {at \in [1 .. Dimensions(t) -> Int] : Within(at, sizes)}
<1> DEFINE N == UNION {0 .. n - 1 : n \in Range(sizes)}
           D == 1 .. Dimensions(t)
<1>1. ~IsRecord(t) /\ Dimensions(t) \in Nat
  BY TypeFacts
<1>2. DOMAIN sizes = D
  BY DEF SizesFor
<1>3. Positions(t, sizes) = {at \in [D -> N] : Within(at, sizes)}
  BY <1>1, <1>2 DEF Positions
<1>4. Range(sizes) \subseteq Nat
  BY <1>2 DEF Range, SizesFor
<1>5. N \subseteq Int
  BY <1>4
<1>6. ASSUME NEW at \in [D -> Int], Within(at, sizes) PROVE at \in [D -> N]
  <2>1. ASSUME NEW k \in D PROVE at[k] \in N
    <3>1. sizes[k] \in Range(sizes) /\ sizes[k] \in Nat
      BY <1>2 DEF Range, SizesFor
    <3>2. at[k] \in 0 .. sizes[k] - 1
      BY <1>2, <1>6, <3>1 DEF Within
    <3> QED
      BY <3>1, <3>2
  <2> QED
    BY <2>1
<1> HIDE DEF N
<1>7. ASSUME NEW at \in [D -> N] PROVE at \in [D -> Int]
  BY <1>5
<1> QED
  BY <1>3, <1>6, <1>7

\* The elements of a record are its fields, one position each.
LEMMA RecordPositions ==
    ASSUME NEW t \in DOMAIN Definitions, IsRecord(t), NEW sizes,
           NEW at \in Positions(t, sizes)
    PROVE  at[1] \in 0 .. Len(Definitions[t].fields) - 1 /\ at = <<at[1]>>
<1>1. Definitions[t].fields \in Seq(TypeNames)
  BY TypeFacts
<1>2. PICK n \in DOMAIN Definitions[t].fields : at = <<n - 1>>
  BY DEF Positions, Selectors
<1>3. n \in 1 .. Len(Definitions[t].fields)
  BY <1>1
<1> QED
  BY <1>2, <1>3

\* An even number of words of 4 bytes is aligned for values of 8.
LEMMA EvenWords ==
    ASSUME NEW d \in Nat
    PROVE  /\ 4 * d + (IF d % 2 = 1 THEN 4 ELSE 0) \in Nat
           /\ 4 * d <= 4 * d + (IF d % 2 = 1 THEN 4 ELSE 0)
           /\ (4 * d + (IF d % 2 = 1 THEN 4 ELSE 0)) % 8 = 0
<1>1. CASE d % 2 = 1
  <2>1. (4 * d + 4) % 8 = 0
    BY <1>1
  <2> QED
    BY <1>1, <2>1
<1>2. CASE d % 2 # 1
  <2>1. (4 * d) % 8 = 0
    BY <1>2
  <2> QED
    BY <1>2, <2>1
<1> QED
  BY <1>1, <1>2

\* The header has room for the sizes, and elements of every width may follow it.
LEMMA HeaderSize ==
    ASSUME NEW t \in DOMAIN Definitions, IsArray(t)
    PROVE  /\ header_size(t) \in Nat /\ 4 * Dimensions(t) <= header_size(t)
           /\ header_size(t) % type_byte_size(Definitions[t].type) = 0
<1> DEFINE d == Definitions[t].dimensions
           w == type_byte_size(Definitions[t].type)
<1>1. w \in {1, 4, 8}
  BY Widths
<1>2. d \in Nat /\ Dimensions(t) = d
  BY TypeFacts
<1>3. header_size(t) = 4 * d + IF d % 2 = 1 /\ w > 4 THEN 4 ELSE 0
  BY DEF header_size
<1> HIDE DEF d, w
<1>4. CASE w = 8
  <2>1. header_size(t) = 4 * d + IF d % 2 = 1 THEN 4 ELSE 0
    BY <1>3, <1>4
  <2>2. /\ 4 * d + (IF d % 2 = 1 THEN 4 ELSE 0) \in Nat
        /\ 4 * d <= 4 * d + (IF d % 2 = 1 THEN 4 ELSE 0)
        /\ (4 * d + (IF d % 2 = 1 THEN 4 ELSE 0)) % 8 = 0
    BY <1>2, EvenWords
  <2> QED
    BY <1>2, <1>4, <2>1, <2>2 DEF w
<1>5. CASE w # 8
  BY <1>1, <1>2, <1>3, <1>5 DEF w
<1> QED
  BY <1>4, <1>5

\* A block has room for its header, and is not empty.
LEMMA BlockSize ==
    ASSUME NEW t \in DOMAIN Definitions, NEW sizes \in SizesFor(t)
    PROVE  /\ total_bytes(t, sizes) \in Nat \ {0} /\ 4 * Dimensions(t) <= total_bytes(t, sizes)
           /\ IsArray(t) => /\ Product(sizes) \in Nat
                            /\ total_bytes(t, sizes) = header_size(t)
                                 + Product(sizes) * type_byte_size(Definitions[t].type)
<1>1. CASE IsRecord(t)
  BY <1>1, TypeFacts DEF total_bytes, record_byte_size
<1>2. CASE IsArray(t)
  <2> DEFINE w == type_byte_size(Definitions[t].type)
             P == Product(sizes)
             h == header_size(t)
  <2>1. ~IsRecord(t) /\ Dimensions(t) \in Nat \ {0}
    BY <1>2, TypeFacts
  <2>2. P \in Nat
    BY <2>1, Products DEF SizesFor
  <2>3. w \in {1, 4, 8}
    BY Widths
  <2>4. h \in Nat /\ 4 * Dimensions(t) <= h
    BY <1>2, HeaderSize
  <2>5. total_bytes(t, sizes) = P * w + h
    BY <2>1 DEF total_bytes
  <2> HIDE DEF w, P, h
  <2>6. P * w \in Nat
    BY <2>2, <2>3
  <2> DEFINE Pw == P * w
  <2> HIDE DEF Pw
  <2>7. Pw \in Nat /\ total_bytes(t, sizes) = Pw + h
    BY <2>5, <2>6 DEF Pw
  <2>8. total_bytes(t, sizes) \in Nat \ {0} /\ 4 * Dimensions(t) <= total_bytes(t, sizes)
        /\ total_bytes(t, sizes) = h + Pw
    BY <2>1, <2>4, <2>7
  <2> QED
    BY <2>2, <2>8 DEF w, P, h, Pw
<1> QED
  BY <1>1, <1>2, TypeFacts

\* What Offset gives an element, element by number.
LEMMA ArrayOffset ==
    ASSUME NEW t \in DOMAIN Definitions, IsArray(t), NEW sizes \in SizesFor(t),
           NEW at \in Positions(t, sizes)
    PROVE  /\ curr_index(sizes, at) \in 0 .. Product(sizes) - 1
           /\ ElementType(t, at) = Definitions[t].type
           /\ Offset(t, sizes, at) =
                curr_index(sizes, at) * type_byte_size(Definitions[t].type) + header_size(t)
<1>1. ~IsRecord(t) /\ Dimensions(t) \in Nat \ {0}
  BY TypeFacts
<1>2. at \in [1 .. Dimensions(t) -> Int] /\ Within(at, sizes)
  BY ArrayPositions
<1>3. curr_index(sizes, at) \in 0 .. Product(sizes) - 1
  BY <1>1, <1>2, NumberBelow DEF SizesFor
<1> QED
  BY <1>1, <1>3 DEF Offset, ElementType

\* Every element lies behind the header and in the block, where its type is
\* aligned.
LEMMA Placed ==
    ASSUME NEW t \in DOMAIN Definitions, NEW sizes \in SizesFor(t),
           NEW at \in Positions(t, sizes)
    PROVE  LET w == type_byte_size(ElementType(t, at))
               o == Offset(t, sizes, at)
           IN  /\ w \in {1, 4, 8} /\ o \in Nat /\ o % w = 0
               /\ 4 * Dimensions(t) <= o /\ o + w <= total_bytes(t, sizes)
<1> DEFINE w == type_byte_size(ElementType(t, at))
           o == Offset(t, sizes, at)
           total == total_bytes(t, sizes)
<1>1. w \in {1, 4, 8}
  BY Widths
<1>2. CASE IsRecord(t)
  <2> DEFINE f == at[1]
  <2>1. f \in 0 .. Len(Definitions[t].fields) - 1 /\ Len(Definitions[t].fields) \in Nat
    BY <1>2, RecordPositions, TypeFacts
  <2>2. o = 8 * f /\ total = 8 * Len(Definitions[t].fields) /\ Dimensions(t) = 0
    BY <1>2 DEF Offset, total_bytes, record_byte_size, Dimensions
  <2> HIDE DEF w, o, f, total
  <2>3. o \in Nat /\ 4 * Dimensions(t) <= o /\ o + w <= total
    BY <1>1, <2>1, <2>2
  <2>4. o % w = 0
    BY <1>1, <2>1, <2>2
  <2> QED
    BY <1>1, <2>3, <2>4 DEF w, o, total
<1>3. CASE IsArray(t)
  <2> DEFINE i == curr_index(sizes, at)
             P == Product(sizes)
             h == header_size(t)
  <2>1. w = type_byte_size(Definitions[t].type) /\ o = i * w + h /\ i \in 0 .. P - 1
    BY <1>3, ArrayOffset
  <2>2. h \in Nat /\ 4 * Dimensions(t) <= h /\ h % w = 0
    BY <1>3, <2>1, HeaderSize
  <2>3. P \in Nat /\ total = h + P * w
    BY <1>3, <2>1, BlockSize
  <2>4. Dimensions(t) \in Nat
    BY <1>3, TypeFacts
  <2> DEFINE iw == i * w
             Pw == P * w
  <2> HIDE DEF w, o, total, i, P, h
  <2>5. i \in Int /\ P \in Int /\ i < P /\ w \in Nat
    BY <1>1, <2>1, <2>3
  <2>6. iw + w <= Pw
    BY <2>5, Rows
  <2>7. iw \in Nat /\ Pw \in Nat
    BY <1>1, <2>1, <2>3
  <2>8. (iw + h) % w = 0
    BY <1>1, <2>1, <2>2
  <2>9. o = iw + h /\ total = h + Pw
    BY <2>1, <2>3
  <2> HIDE DEF iw, Pw
  <2>10. o \in Nat /\ 4 * Dimensions(t) <= o /\ o + w <= total /\ o % w = 0
    BY <2>2, <2>4, <2>5, <2>6, <2>7, <2>8, <2>9
  <2> QED
    BY <1>1, <2>10 DEF w, o, total
<1> QED
  BY <1>2, <1>3, TypeFacts

\* Of two elements one ends before the other begins.
LEMMA Apart ==
    ASSUME NEW t \in DOMAIN Definitions, NEW sizes \in SizesFor(t),
           NEW at \in Positions(t, sizes), NEW other \in Positions(t, sizes), other # at
    PROVE  \/ Offset(t, sizes, at) + type_byte_size(ElementType(t, at))
                <= Offset(t, sizes, other)
           \/ Offset(t, sizes, other) + type_byte_size(ElementType(t, other))
                <= Offset(t, sizes, at)
<1>1. CASE IsRecord(t)
  <2>1. /\ at[1] \in Int /\ other[1] \in Int /\ at[1] # other[1]
        /\ Offset(t, sizes, at) = 8 * at[1] /\ Offset(t, sizes, other) = 8 * other[1]
    BY <1>1, RecordPositions DEF Offset
  <2>2. /\ type_byte_size(ElementType(t, at)) \in {1, 4, 8}
        /\ type_byte_size(ElementType(t, other)) \in {1, 4, 8}
    BY Widths
  <2> QED
    BY <2>1, <2>2
<1>2. CASE IsArray(t)
  <2> DEFINE w == type_byte_size(Definitions[t].type)
             h == header_size(t)
             i == curr_index(sizes, at)
             j == curr_index(sizes, other)
  <2>1. i \in Int /\ Offset(t, sizes, at) = i * w + h /\ ElementType(t, at) = Definitions[t].type
    BY <1>2, ArrayOffset
  <2>2. j \in Int /\ Offset(t, sizes, other) = j * w + h
        /\ ElementType(t, other) = Definitions[t].type
    BY <1>2, ArrayOffset
  <2>3. i # j
    <3>1. at \in [1 .. Dimensions(t) -> Int] /\ Within(at, sizes)
      BY <1>2, ArrayPositions
    <3>2. other \in [1 .. Dimensions(t) -> Int] /\ Within(other, sizes)
      BY <1>2, ArrayPositions
    <3>3. Dimensions(t) \in Nat \ {0}
      BY <1>2, TypeFacts
    <3> QED
      BY <3>1, <3>2, <3>3, NumberOwn DEF SizesFor
  <2>4. w \in Nat
    BY Widths
  <2>5. h \in Nat
    BY <1>2, HeaderSize
  <2> DEFINE iw == i * w
             jw == j * w
             a == Offset(t, sizes, at)
             b == Offset(t, sizes, other)
  <2>6. a = iw + h /\ b = jw + h
    BY <2>1, <2>2
  <2> HIDE DEF w, h, i, j, a, b
  <2>7. iw \in Int /\ jw \in Int
    BY <2>1, <2>2, <2>4
  <2>8. i < j => iw + w <= jw
    BY <2>1, <2>2, <2>4, Rows
  <2>9. j < i => jw + w <= iw
    BY <2>1, <2>2, <2>4, Rows
  <2> HIDE DEF iw, jw
  <2>10. a + w <= b \/ b + w <= a
    BY <2>1, <2>2, <2>3, <2>4, <2>5, <2>6, <2>7, <2>8, <2>9
  <2> QED
    BY <2>1, <2>2, <2>10 DEF a, b, w
<1> QED
  BY <1>1, <1>2, TypeFacts

-----------------------------------------------------------------------------
(* The blocks                                                              *)

Lengths == {l.length : l \in Literals}

\* A block as reserve and a string make it.
IsBlock(k) ==
    /\ k.type \in DOMAIN Definitions
    /\ k.sizes \in [1 .. Dimensions(k.type) -> Sizes \union Lengths]
    /\ k.bytes = total_bytes(k.type, k.sizes)
    /\ k = [type |-> k.type, sizes |-> k.sizes, bytes |-> k.bytes]

\* The blocks lie in the heap and apart, and each variable has the address of
\* one of its own type, or none.  There was no wild store.
Laid ==
    /\ DOMAIN memory = 8 .. 7 + HeapSize /\ wild = FALSE
    /\ pointer \in [Variables -> DOMAIN blocks \union {NULL}]
    /\ \A x \in Variables : pointer[x] # NULL => blocks[pointer[x]].type = Type[x]
    /\ IsFiniteSet(DOMAIN blocks) /\ Cardinality(DOMAIN blocks) <= MaxBlocks
    /\ DOMAIN blocks \subseteq DOMAIN memory
    /\ \A b \in DOMAIN blocks :
         IsBlock(blocks[b]) /\ Bytes(b, blocks[b].bytes) \subseteq DOMAIN memory
    /\ \A b, c \in DOMAIN blocks :
         b # c => Bytes(b, blocks[b].bytes) \intersect Bytes(c, blocks[c].bytes) = {}

\* The sizes of a block are sizes for its type.
LEMMA BlockFacts ==
    ASSUME NEW k, IsBlock(k)
    PROVE  /\ k.sizes \in SizesFor(k.type) /\ k.bytes \in Nat \ {0}
           /\ 4 * Dimensions(k.type) <= k.bytes /\ Dimensions(k.type) \in Nat
<1>1. Sizes \union Lengths \subseteq Nat
  BY HeapAssumption DEF Lengths
<1>2. k.sizes \in SizesFor(k.type)
  BY <1>1 DEF IsBlock, SizesFor
<1> QED
  BY <1>2, BlockSize, TypeFacts DEF IsBlock

\* The heap has no address 0.
LEMMA Addresses ==
    ASSUME Laid
    PROVE  \A a \in DOMAIN memory : a \in Int /\ a # NULL
BY HeapAssumption DEF Laid, NULL

\* At first there are none.
LEMMA LaidInit == Init => Laid
<1> SUFFICES ASSUME Init PROVE Laid
  OBVIOUS
<1>1. DOMAIN blocks = {}
  BY DEF Init
<1>2. IsFiniteSet({}) /\ Cardinality({}) = 0
  BY FS_EmptySet
<1>3. Cardinality(DOMAIN blocks) <= MaxBlocks
  BY <1>1, <1>2, HeapAssumption
<1>4. pointer \in [Variables -> DOMAIN blocks \union {NULL}] /\ \A x \in Variables : pointer[x] = NULL
  BY DEF Init
<1>5. DOMAIN memory = 8 .. 7 + HeapSize /\ wild = FALSE
  BY DEF Init
<1> QED
  BY <1>1, <1>2, <1>3, <1>4, <1>5 DEF Laid

\* A step that makes a block for x.
Makes(x, base, sizes, bytes) ==
    /\ sizes \in [1 .. Dimensions(Type[x]) -> Sizes \union Lengths]
    /\ bytes = total_bytes(Type[x], sizes) /\ base \in Room(bytes)
    /\ NewBlock(x, base, sizes, bytes)
    /\ DOMAIN memory' = DOMAIN memory /\ wild' = wild

\* And what it comes to.
Made(x, base, sizes, bytes) ==
    /\ base \notin DOMAIN blocks /\ base \in DOMAIN memory /\ base # NULL
    /\ DOMAIN blocks' = DOMAIN blocks \union {base} /\ pointer'[x] = base
    /\ blocks'[base] = [type |-> Type[x], sizes |-> sizes, bytes |-> bytes]
    /\ IsBlock(blocks'[base])
    /\ \A b \in DOMAIN blocks : blocks'[b] = blocks[b]
    /\ Bytes(base, bytes) \subseteq DOMAIN memory \ Taken

\* A new block of any of the sizes lies in the heap and apart from the others.
LEMMA LaidNew ==
    ASSUME Laid, NEW x \in Variables, NEW base, NEW sizes, NEW bytes,
           Makes(x, base, sizes, bytes)
    PROVE  Laid' /\ Made(x, base, sizes, bytes)
<1> DEFINE k == [type |-> Type[x], sizes |-> sizes, bytes |-> bytes]
<1> USE DEF Makes
<1>1. IsBlock(k)
  BY HeapAssumption DEF IsBlock
<1>2. bytes \in Nat \ {0}
  BY <1>1, BlockFacts
<1>3. /\ Cardinality(DOMAIN blocks) < MaxBlocks /\ base \in DOMAIN memory
      /\ Bytes(base, bytes) \subseteq DOMAIN memory \ Taken
  <2>1. ~(Cardinality(DOMAIN blocks) >= MaxBlocks)
    BY DEF Room
  <2>2. Cardinality(DOMAIN blocks) \in Nat
    BY FS_CardinalityType DEF Laid
  <2> QED
    BY <2>1, <2>2, HeapAssumption DEF Room, Laid
<1>4. ASSUME NEW b \in DOMAIN blocks
      PROVE  b \in Int /\ b \in Bytes(b, blocks[b].bytes) /\ Bytes(b, blocks[b].bytes) \subseteq Taken
  <2>1. b \in Int
    BY Addresses DEF Laid
  <2>2. blocks[b].bytes \in Nat \ {0}
    BY BlockFacts DEF Laid
  <2> QED
    BY <2>1, <2>2 DEF Bytes, Taken
<1>5. base \in Int /\ base # NULL /\ base \in Bytes(base, bytes)
  BY <1>2, <1>3, Addresses DEF Bytes
<1>6. base \notin DOMAIN blocks
  BY <1>3, <1>4, <1>5
<1>7. /\ DOMAIN blocks' = DOMAIN blocks \union {base} /\ blocks'[base] = k
      /\ \A b \in DOMAIN blocks : blocks'[b] = blocks[b]
  BY <1>6 DEF NewBlock
<1> HIDE DEF k
<1>8. IsFiniteSet(DOMAIN blocks') /\ Cardinality(DOMAIN blocks') <= MaxBlocks
  <2>1. IsFiniteSet(DOMAIN blocks)
    BY DEF Laid
  <2>2. /\ IsFiniteSet(DOMAIN blocks \union {base})
        /\ Cardinality(DOMAIN blocks \union {base}) = Cardinality(DOMAIN blocks) + 1
    BY <1>6, <2>1, FS_AddElement
  <2>3. Cardinality(DOMAIN blocks) \in Nat
    BY <2>1, FS_CardinalityType
  <2> QED
    BY <1>3, <1>7, <2>2, <2>3, HeapAssumption
<1>9. pointer' = [pointer EXCEPT ![x] = base] /\ pointer'[x] = base
  BY DEF NewBlock, Laid
<1>10. pointer' \in [Variables -> DOMAIN blocks' \union {NULL}]
  BY <1>7, <1>9 DEF Laid
<1>11. k.type = Type[x] /\ k.bytes = bytes
  BY DEF k
<1>12. ASSUME NEW y \in Variables, pointer'[y] # NULL
       PROVE  blocks'[pointer'[y]].type = Type[y]
  <2>1. CASE y = x
    BY <1>7, <1>9, <1>11, <2>1
  <2>2. CASE y # x
    <3>1. pointer'[y] = pointer[y] /\ pointer[y] \in DOMAIN blocks
      BY <1>9, <1>12, <2>2 DEF Laid
    <3> QED
      BY <1>7, <1>12, <3>1 DEF Laid
  <2> QED
    BY <2>1, <2>2
<1>13. \A b \in DOMAIN blocks' :
         IsBlock(blocks'[b]) /\ Bytes(b, blocks'[b].bytes) \subseteq DOMAIN memory'
  BY <1>1, <1>3, <1>7, <1>11 DEF Laid, k
<1>14. ASSUME NEW b \in DOMAIN blocks', NEW c \in DOMAIN blocks', b # c
       PROVE  Bytes(b, blocks'[b].bytes) \intersect Bytes(c, blocks'[c].bytes) = {}
  <2>1. CASE b \in DOMAIN blocks /\ c \in DOMAIN blocks
    BY <1>7, <1>14, <2>1 DEF Laid
  <2>2. CASE b = base
    <3>1. c \in DOMAIN blocks /\ Bytes(c, blocks'[c].bytes) \subseteq Taken
      BY <1>4, <1>7, <1>14, <2>2
    <3> QED
      BY <1>3, <1>7, <1>11, <2>2, <3>1
  <2>3. CASE c = base
    <3>1. b \in DOMAIN blocks /\ Bytes(b, blocks'[b].bytes) \subseteq Taken
      BY <1>4, <1>7, <1>14, <2>3
    <3> QED
      BY <1>3, <1>7, <1>11, <2>3, <3>1
  <2> QED
    BY <1>7, <2>1, <2>2, <2>3
<1>15. DOMAIN blocks' \subseteq DOMAIN memory'
  BY <1>3, <1>7 DEF Laid
<1>16. Laid'
  BY <1>8, <1>10, <1>12, <1>13, <1>14, <1>15 DEF Laid
<1> QED
  BY <1>1, <1>3, <1>5, <1>6, <1>7, <1>9, <1>16 DEF k, Made

\* What reserve makes.
LEMMA ReserveNew ==
    ASSUME Laid, NEW x \in Variables, NEW sizes \in SizesOf(Type[x]), Reserve(x, sizes)
    PROVE  /\ access' = access
           /\ \E base : /\ Makes(x, base, sizes, total_bytes(Type[x], sizes))
                       /\ memory' = Initialize(memory, base, sizes)
<1>1. sizes \in [1 .. Dimensions(Type[x]) -> Sizes \union Lengths]
  BY DEF SizesOf
<1>2. \A base : DOMAIN Initialize(memory, base, sizes) = DOMAIN memory
  BY DEF Initialize
<1> QED
  BY <1>1, <1>2 DEF Reserve, Makes

\* The memory with a header at base, and characters behind it.
Characters(base, sizes, text) ==
    [b \in DOMAIN memory |-> IF b \in Bytes(base + 4, Len(text))
                             THEN <<text[b - base - 3], 0>>
                             ELSE Initialize(memory, base, sizes)[b]]

\* What an assignment of a string makes: an array of its length.
LEMMA StringNew ==
    ASSUME Laid, NEW x \in Variables, NEW l \in Literals, String(x, l)
    PROVE  LET sizes == <<l.length>>
               bytes == total_bytes(Type[x], sizes)
           IN  /\ IsArray(Type[x]) /\ Definitions[Type[x]].type = "character"
               /\ Dimensions(Type[x]) = 1 /\ header_size(Type[x]) = 4 /\ bytes = l.length + 4
               /\ access' = access
               /\ \E base : /\ Makes(x, base, sizes, bytes)
                           /\ memory' = Characters(base, sizes, l.text)
<1> DEFINE sizes == <<l.length>>
           bytes == total_bytes(Type[x], sizes)
           text(base) == [b \in DOMAIN Initialize(memory, base, sizes) |->
                            IF b \in Bytes(base + 4, Len(l.text))
                            THEN <<l.text[b - base - 3], 0>>
                            ELSE Initialize(memory, base, sizes)[b]]
<1>1. /\ IsArray(Type[x]) /\ Definitions[Type[x]].type = "character" /\ Dimensions(Type[x]) = 1
      /\ access' = access /\ wild' = wild
  BY DEF String
<1>2. PICK base \in Room(l.length + 4) :
        NewBlock(x, base, sizes, l.length + 4) /\ memory' = text(base)
  BY DEF String
<1>3. DOMAIN Initialize(memory, base, sizes) = DOMAIN memory /\ DOMAIN memory' = DOMAIN memory
      /\ memory' = Characters(base, sizes, l.text)
  BY <1>2 DEF Initialize, Characters
<1>4. sizes \in [1 .. 1 -> Sizes \union Lengths] /\ l.length \in Nat
  BY HeapAssumption DEF Lengths
<1>5. Type[x] \in DOMAIN Definitions /\ sizes \in SizesFor(Type[x])
  BY <1>1, <1>4, HeapAssumption DEF SizesFor
<1>6. type_byte_size("character") = 1
  BY DEF type_byte_size
<1>7. header_size(Type[x]) = 4
  <2>1. Definitions[Type[x]].dimensions = 1
    BY <1>1, <1>5, TypeFacts
  <2> QED
    BY <1>1, <1>6, <2>1 DEF header_size
<1>8. Product(sizes) = l.length
  <2>1. sizes \in [1 .. 1 -> Nat]
    BY <1>4
  <2> HIDE DEF sizes
  <2>2. PICK p \in [0 .. 1 -> Nat] :
             /\ p[0] = 1 /\ \A k \in 1 .. 1 : p[k] = p[k - 1] * sizes[k]
             /\ Product(sizes) = p[1]
    BY <2>1, Products
  <2>3. p[1] = p[0] * sizes[1] /\ sizes[1] \in Nat
    BY <2>1, <2>2
  <2> QED
    BY <2>2, <2>3 DEF sizes
<1>9. bytes = l.length + 4
  BY <1>1, <1>4, <1>5, <1>6, <1>7, <1>8, BlockSize
<1> HIDE DEF bytes, sizes
<1>10. Makes(x, base, sizes, bytes)
  BY <1>1, <1>2, <1>3, <1>4, <1>9 DEF Makes, bytes
<1> QED
  BY <1>1, <1>3, <1>7, <1>9, <1>10 DEF bytes, sizes

\* A release takes one block away, and from all variables that had its address.
LEMMA LaidRelease ==
    ASSUME Laid, NEW x \in Variables, Release(x)
    PROVE  /\ Laid' /\ pointer[x] \in DOMAIN blocks
           /\ DOMAIN blocks' = DOMAIN blocks \ {pointer[x]}
           /\ \A b \in DOMAIN blocks' : blocks'[b] = blocks[b]
<1> DEFINE p == pointer[x]
<1>1. p \in DOMAIN blocks /\ p # NULL
  BY DEF Laid, Release, Refers
<1>2. DOMAIN blocks' = DOMAIN blocks \ {p} /\ \A b \in DOMAIN blocks' : blocks'[b] = blocks[b]
  BY DEF Release, Restrict
<1>3. pointer' = [y \in Variables |-> IF pointer[y] = p THEN NULL ELSE pointer[y]]
  BY DEF Release
<1>4. DOMAIN memory' = DOMAIN memory /\ wild' = wild
  BY DEF Release, Forget
<1> HIDE DEF p
<1>5. IsFiniteSet(DOMAIN blocks') /\ Cardinality(DOMAIN blocks') <= MaxBlocks
  <2>1. IsFiniteSet(DOMAIN blocks) /\ Cardinality(DOMAIN blocks) <= MaxBlocks
    BY DEF Laid
  <2>2. DOMAIN blocks' \subseteq DOMAIN blocks
    BY <1>2
  <2>3. IsFiniteSet(DOMAIN blocks') /\ Cardinality(DOMAIN blocks') <= Cardinality(DOMAIN blocks)
    BY <2>1, <2>2, FS_Subset
  <2>4. Cardinality(DOMAIN blocks') \in Nat /\ Cardinality(DOMAIN blocks) \in Nat
    BY <2>1, <2>3, FS_CardinalityType
  <2> QED
    BY <2>1, <2>3, <2>4, HeapAssumption
<1>6. pointer' \in [Variables -> DOMAIN blocks' \union {NULL}]
  BY <1>2, <1>3 DEF Laid
<1>7. \A y \in Variables : pointer'[y] # NULL => blocks'[pointer'[y]].type = Type[y]
  BY <1>2, <1>3, <1>6 DEF Laid
<1>8. Laid'
  BY <1>2, <1>4, <1>5, <1>6, <1>7 DEF Laid
<1> QED
  BY <1>1, <1>2, <1>8 DEF p

\* Every step but a wild store keeps the blocks as they have to be.
LEMMA LaidNext == Laid /\ ~wild' /\ [Next]_vars => Laid'
<1> SUFFICES ASSUME Laid, ~wild', [Next]_vars PROVE Laid'
  OBVIOUS
<1>1. CASE UNCHANGED vars
  BY <1>1 DEF vars, Laid
<1>2. ASSUME NEW x \in Variables, NEW sizes \in SizesOf(Type[x]), Reserve(x, sizes) PROVE Laid'
  BY <1>2, ReserveNew, LaidNew
<1>3. ASSUME NEW x \in Variables, NEW l \in Literals, String(x, l) PROVE Laid'
  BY <1>3, StringNew, LaidNew
<1>4. ASSUME NEW x \in Variables, Release(x) PROVE Laid'
  BY <1>4, LaidRelease
<1>5. ASSUME NEW x \in Variables, NEW y \in Variables, Copy(x, y) PROVE Laid'
  <2>1. /\ Type[x] = Type[y] /\ pointer' = [pointer EXCEPT ![x] = pointer[y]]
        /\ UNCHANGED <<memory, blocks, wild>>
    BY <1>5 DEF Copy
  <2>2. pointer' \in [Variables -> DOMAIN blocks' \union {NULL}]
    BY <2>1 DEF Laid
  <2>3. \A z \in Variables : pointer'[z] # NULL => blocks'[pointer'[z]].type = Type[z]
    BY <2>1 DEF Laid
  <2> QED
    BY <2>1, <2>2, <2>3 DEF Laid
<1>6. ASSUME UNCHANGED <<pointer, blocks>>, DOMAIN memory' = DOMAIN memory, wild' = FALSE
      PROVE  Laid'
  BY <1>6 DEF Laid
<1>7. ASSUME NEW x \in Variables, NEW path \in Paths(x), Load(x, path)
      PROVE  Laid'
  BY <1>6, <1>7 DEF Load, Laid
<1>8. ASSUME NEW x \in Variables, NEW path \in Paths(x), NEW v \in Values, Store(x, path, v)
      PROVE  Laid'
  <2>1. wild' \in BOOLEAN /\ UNCHANGED <<pointer, blocks>>
    BY <1>8 DEF Store, Laid
  <2>2. DOMAIN memory' = DOMAIN memory
    BY <1>8 DEF Store, Write
  <2> QED
    BY <1>6, <2>1, <2>2
<1>9. ASSUME NEW x \in Variables, NEW d \in 1 .. Dimensions(Type[x]), Dimension(x, d)
      PROVE  Laid'
  BY <1>6, <1>9 DEF Dimension, Laid
<1> QED
  BY <1>1, <1>2, <1>3, <1>4, <1>5, <1>7, <1>8, <1>9 DEF Next

\* What holds after a wild store, too: where the heap is, and that the store is
\* never undone.
Shape ==
    DOMAIN memory = 8 .. 7 + HeapSize /\ wild \in BOOLEAN /\ access.reported \in BOOLEAN

LEMMA ShapeNext == Shape /\ [Next]_vars => Shape' /\ (wild => wild')
<1> SUFFICES ASSUME Shape, [Next]_vars PROVE Shape' /\ (wild => wild')
  OBVIOUS
<1>1. CASE UNCHANGED vars
  BY <1>1 DEF vars, Shape
<1>2. ASSUME DOMAIN memory' = DOMAIN memory, UNCHANGED <<access, wild>>
      PROVE  Shape' /\ (wild => wild')
  BY <1>2 DEF Shape
<1>3. ASSUME NEW x \in Variables, NEW sizes \in SizesOf(Type[x]), Reserve(x, sizes)
      PROVE  Shape' /\ (wild => wild')
  BY <1>2, <1>3 DEF Reserve, Initialize
<1>4. ASSUME NEW x \in Variables, NEW l \in Literals, String(x, l)
      PROVE  Shape' /\ (wild => wild')
  BY <1>2, <1>4 DEF String, Initialize
<1>5. ASSUME NEW x \in Variables, Release(x) PROVE Shape' /\ (wild => wild')
  BY <1>2, <1>5 DEF Release, Forget
<1>6. ASSUME NEW x \in Variables, NEW y \in Variables, Copy(x, y)
      PROVE  Shape' /\ (wild => wild')
  BY <1>2, <1>6 DEF Copy
<1>7. ASSUME NEW x \in Variables, NEW path \in Paths(x), Load(x, path)
      PROVE  Shape' /\ (wild => wild')
  BY <1>7 DEF Load, Shape
<1>8. ASSUME NEW x \in Variables, NEW path \in Paths(x), NEW v \in Values, Store(x, path, v)
      PROVE  Shape' /\ (wild => wild')
  <2>1. DOMAIN memory' = DOMAIN memory
    BY <1>8 DEF Store, Write
  <2> QED
    BY <1>8, <2>1 DEF Store, Shape
<1>9. ASSUME NEW x \in Variables, NEW d \in 1 .. Dimensions(Type[x]), Dimension(x, d)
      PROVE  Shape' /\ (wild => wild')
  BY <1>9 DEF Dimension, Shape
<1> QED
  BY <1>1, <1>3, <1>4, <1>5, <1>6, <1>7, <1>8, <1>9 DEF Next

LEMMA ShapeInit == Init => Shape
<1> SUFFICES ASSUME Init PROVE Shape
  OBVIOUS
<1>1. DOMAIN memory = 8 .. 7 + HeapSize /\ wild = FALSE
  BY DEF Init
<1>2. access.reported = FALSE
  BY DEF Init
<1> QED
  BY <1>1, <1>2 DEF Shape

\* Until a wild store the blocks are as they have to be.
THEOREM LaidAlways == Spec => [](Shape /\ (wild \/ Laid))
<1>1. Init => Shape /\ Laid
  BY LaidInit, ShapeInit
<1>2. (Shape /\ (wild \/ Laid)) /\ [Next]_vars => (Shape /\ (wild \/ Laid))'
  BY LaidNext, ShapeNext
<1> QED
  BY <1>1, <1>2, PTL DEF Spec

\* For every set of types and literals and a heap of any length: until a store is
\* made behind a failed check, a variable has the address of a block of its own
\* type, and blocks do not overlap.
THEOREM TypeCorrect == Spec => []TypeOK
<1>1. Laid => BlocksApart
  <2> SUFFICES ASSUME Laid PROVE BlocksApart
    OBVIOUS
  <2>1. ASSUME NEW b \in DOMAIN blocks
        PROVE  blocks[b] \in [type : DOMAIN Definitions, bytes : Nat,
                              sizes : Seq(Sizes \union {l.length : l \in Literals})]
    <3>1. IsBlock(blocks[b]) /\ blocks[b].bytes \in Nat /\ Dimensions(blocks[b].type) \in Nat
      BY BlockFacts DEF Laid
    <3>2. blocks[b].sizes \in Seq(Sizes \union Lengths)
      BY <3>1 DEF IsBlock
    <3> QED
      BY <3>1, <3>2 DEF IsBlock, Lengths
  <2>2. \A x \in Variables : pointer[x] # NULL =>
          pointer[x] \in DOMAIN blocks /\ blocks[pointer[x]].type = Type[x]
    BY DEF Laid
  <2> QED
    BY <2>1, <2>2 DEF BlocksApart, Laid
<1>2. Shape /\ (wild \/ Laid) => TypeOK
  BY <1>1 DEF TypeOK, Shape
<1> QED
  BY <1>2, LaidAlways, PTL

\* For every set of types, sizes of any number and magnitude and a heap of any
\* length: until a store is made behind a failed check, every element has bytes
\* of its own, behind the header of its block and inside it, and lies where its
\* type is aligned.
THEOREM ElementsApartAlways == Spec => []ElementsApart
<1>1. Laid => ElementsApart
  <2> SUFFICES ASSUME Laid, NEW b \in DOMAIN blocks,
                      NEW at \in Positions(blocks[b].type, blocks[b].sizes)
               PROVE  /\ Extent(b, at) \subseteq Bytes(b, blocks[b].bytes) \ Header(b)
                      /\ Offset(blocks[b].type, blocks[b].sizes, at)
                           % type_byte_size(ElementType(blocks[b].type, at)) = 0
                      /\ \A other \in Positions(blocks[b].type, blocks[b].sizes) \ {at} :
                           Extent(b, at) \intersect Extent(b, other) = {}
    BY DEF ElementsApart
  <2> DEFINE t == blocks[b].type
             sizes == blocks[b].sizes
             w == type_byte_size(ElementType(t, at))
             o == Offset(t, sizes, at)
             total == blocks[b].bytes
             header == 4 * Dimensions(t)
  <2>1. /\ IsBlock(blocks[b]) /\ t \in DOMAIN Definitions /\ sizes \in SizesFor(t)
        /\ total = total_bytes(t, sizes) /\ total \in Nat /\ header \in Nat
    BY BlockFacts DEF Laid, IsBlock
  <2>2. b \in Int
    BY Addresses DEF Laid
  <2>3. w \in {1, 4, 8} /\ o \in Nat /\ o % w = 0 /\ header <= o /\ o + w <= total
    BY <2>1, Placed
  <2>4. /\ Extent(b, at) = b + o .. b + o + w - 1 /\ Header(b) = b .. b + header - 1
        /\ Bytes(b, blocks[b].bytes) = b .. b + total - 1
    BY DEF Extent, Header, Bytes
  <2>5. ASSUME NEW other \in Positions(t, sizes), other # at
        PROVE  Extent(b, at) \intersect Extent(b, other) = {}
    <3> DEFINE w2 == type_byte_size(ElementType(t, other))
               o2 == Offset(t, sizes, other)
    <3>1. w2 \in {1, 4, 8} /\ o2 \in Nat
      BY <2>1, Placed
    <3>2. o + w <= o2 \/ o2 + w2 <= o
      BY <2>1, <2>5, Apart
    <3>3. Extent(b, other) = b + o2 .. b + o2 + w2 - 1
      BY DEF Extent, Bytes
    <3> HIDE DEF t, sizes, w, o, w2, o2
    <3> QED
      BY <2>2, <2>3, <2>4, <3>1, <3>2, <3>3
  <2> HIDE DEF t, sizes, w, o, total, header
  <2>6. Extent(b, at) \subseteq Bytes(b, blocks[b].bytes) \ Header(b)
    BY <2>1, <2>2, <2>3, <2>4
  <2> QED
    BY <2>3, <2>5, <2>6 DEF t, sizes, w, o
<1>2. wild => ElementsApart
  BY DEF ElementsApart
<1> QED
  BY <1>1, <1>2, LaidAlways, PTL

-----------------------------------------------------------------------------
(* What is in memory                                                       *)

\* A read depends on the bytes it takes and on no other.
LEMMA ReadSame ==
    ASSUME NEW m, NEW n, NEW a \in Int, NEW w \in Nat \ {0}, DOMAIN n = DOMAIN m,
           \A c \in Bytes(a, w) : n[c] = m[c]
    PROVE  Read(n, a, w) = Read(m, a, w)
<1>1. \A k \in 0 .. w - 1 : n[a + k] = m[a + k]
  BY DEF Bytes
<1>2. n[a] = m[a]
  <2>1. a \in Bytes(a, w)
    BY DEF Bytes
  <2> QED
    BY <2>1
<1> QED
  BY <1>1, <1>2 DEF Read

\* Where nothing was stored there is no value to be found.
LEMMA ReadNothing ==
    ASSUME NEW m, NEW a \in Int, NEW w \in Nat \ {0},
           \A c \in Bytes(a, w) : m[c] = <<Unknown, 0>>
    PROVE  Read(m, a, w) = Unknown
<1>1. m[a] = <<Unknown, 0>>
  BY DEF Bytes
<1> QED
  BY <1>1 DEF Read

\* What was stored is found.
LEMMA ReadWritten ==
    ASSUME NEW m, NEW a \in Int, NEW w \in Nat \ {0}, NEW v, Bytes(a, w) \subseteq DOMAIN m
    PROVE  Read(Write(m, a, w, v), a, w) = v
<1> DEFINE n == Write(m, a, w, v)
<1>1. \A c \in Bytes(a, w) : n[c] = <<v, c - a>>
  BY DEF Write
<1> HIDE DEF n
<1>2. \A k \in 0 .. w - 1 : n[a + k] = <<v, k>>
  <2>1. ASSUME NEW k \in 0 .. w - 1 PROVE n[a + k] = <<v, k>>
    <3>1. a + k \in Bytes(a, w) /\ (a + k) - a = k
      BY DEF Bytes
    <3> QED
      BY <1>1, <3>1
  <2> QED
    BY <2>1
<1>3. n[a][1] = v
  <2>1. a \in Bytes(a, w)
    BY DEF Bytes
  <2> QED
    BY <1>1, <2>1
<1>4. Bytes(a, w) \subseteq DOMAIN n
  BY DEF n, Write
<1>5. Read(n, a, w) = v
  BY <1>2, <1>3, <1>4 DEF Read
<1> QED
  BY <1>5 DEF n

\* The sizes a block was made with are what its header holds.
Stored(m, block, b) ==
    [d \in 1 .. Dimensions(block.type) |-> Read(m, b + 4 * (d - 1), 4)] = block.sizes

\* The same memory in a block: the same sizes, the same object.
LEMMA BlockSame ==
    ASSUME NEW m, NEW n, NEW k, IsBlock(k), NEW b \in Int, DOMAIN n = DOMAIN m,
           \A c \in Bytes(b, k.bytes) : n[c] = m[c]
    PROVE  Held(n, k, b) = Held(m, k, b) /\ (Stored(m, k, b) => Stored(n, k, b))
<1> DEFINE t == k.type
           sizes == k.sizes
           D == Dimensions(t)
<1>1. /\ t \in DOMAIN Definitions /\ sizes \in SizesFor(t) /\ D \in Nat
      /\ k.bytes = total_bytes(t, sizes) /\ k.bytes \in Nat /\ 4 * D <= k.bytes
  BY BlockFacts DEF IsBlock
<1>2. ASSUME NEW at \in Positions(t, sizes)
      PROVE  LET w == type_byte_size(ElementType(t, at))
                 o == Offset(t, sizes, at)
             IN  Read(n, b + o, w) = Read(m, b + o, w)
  <2> DEFINE w == type_byte_size(ElementType(t, at))
             o == Offset(t, sizes, at)
  <2>1. w \in {1, 4, 8} /\ o \in Nat /\ o + w <= k.bytes
    BY <1>1, Placed
  <2> HIDE DEF w, o, t, sizes
  <2>2. \A c \in Bytes(b + o, w) : c \in Bytes(b, k.bytes)
    BY <1>1, <2>1 DEF Bytes
  <2>3. b + o \in Int /\ w \in Nat \ {0}
    BY <2>1
  <2>4. Read(n, b + o, w) = Read(m, b + o, w)
    BY <2>2, <2>3, ReadSame
  <2> QED
    BY <2>4 DEF w, o
<1>3. ASSUME NEW d \in 1 .. D PROVE Read(n, b + 4 * (d - 1), 4) = Read(m, b + 4 * (d - 1), 4)
  <2> DEFINE a == b + 4 * (d - 1)
  <2> HIDE DEF t, sizes, D
  <2>1. a \in Int /\ \A c \in Bytes(a, 4) : c \in Bytes(b, k.bytes)
    BY <1>1 DEF Bytes
  <2> HIDE DEF a
  <2>2. Read(n, a, 4) = Read(m, a, 4)
    BY <2>1, ReadSame
  <2> QED
    BY <2>2 DEF a
<1> QED
  BY <1>2, <1>3 DEF Held, Stored

\* The memory becomes m2 by storing the sizes in a header of n words at base.
HeaderOnly(m, m2, base, n, sizes) ==
    /\ \A d \in 1 .. n : Read(m2, base + 4 * (d - 1), 4) = sizes[d]
    /\ \A a \in DOMAIN m \ Bytes(base, 4 * n) : m2[a] = m[a]

\* Byte by byte, the words of a header.
LEMMA Initialized ==
    ASSUME NEW m, NEW base \in Int, NEW n \in Nat, NEW sizes \in [1 .. n -> Nat],
           Bytes(base, 4 * n) \subseteq DOMAIN m
    PROVE  HeaderOnly(m, Initialize(m, base, sizes), base, n, sizes)
<1> DEFINE i == Initialize(m, base, sizes)
<1>1. Len(sizes) = n
  OBVIOUS
<1>2. /\ \A a \in Bytes(base, 4 * n) : i[a] = <<sizes[(a - base) \div 4 + 1], (a - base) % 4>>
      /\ \A a \in DOMAIN m \ Bytes(base, 4 * n) : i[a] = m[a]
      /\ DOMAIN i = DOMAIN m
  BY <1>1 DEF Initialize
<1> HIDE DEF i
<1>3. ASSUME NEW d \in 1 .. n PROVE Read(i, base + 4 * (d - 1), 4) = sizes[d]
  <2> DEFINE a == base + 4 * (d - 1)
  <2>1. ASSUME NEW k \in 0 .. 3 PROVE i[a + k] = <<sizes[d], k>>
    <3>1. /\ a + k \in Bytes(base, 4 * n)
          /\ (a + k) - base = 4 * (d - 1) + k
      BY DEF Bytes
    <3>2. (4 * (d - 1) + k) \div 4 = d - 1 /\ (4 * (d - 1) + k) % 4 = k
      OBVIOUS
    <3>3. ((a + k) - base) \div 4 + 1 = d /\ ((a + k) - base) % 4 = k
      BY <3>1, <3>2
    <3> QED
      BY <1>2, <3>1, <3>3
  <2>2. a \in Int /\ a + 0 = a /\ Bytes(a, 4) \subseteq DOMAIN i
    BY <1>2 DEF Bytes
  <2> HIDE DEF a
  <2>3. i[a] = <<sizes[d], 0>>
    BY <2>1, <2>2
  <2>4. Read(i, a, 4) = sizes[d]
    BY <2>1, <2>2, <2>3 DEF Read
  <2> QED
    BY <2>4 DEF a
<1> QED
  BY <1>2, <1>3 DEF i, HeaderOnly

\* Each header holds the sizes of its block, and what no block takes holds nothing.
Intact ==
    /\ \A b \in DOMAIN blocks : Stored(memory, blocks[b], b)
    /\ \A a \in DOMAIN memory \ Taken : memory[a] = <<Unknown, 0>>

\* Where Intact, the invariant of the runs holds.
LEMMA HeadersOfIntact == Laid /\ Intact => HeadersKept
<1> SUFFICES ASSUME Laid, Intact, NEW b \in DOMAIN blocks
             PROVE  ReadSizes(blocks[b].type, b) =
                      [d \in 1 .. Dimensions(blocks[b].type) |-> blocks[b].sizes[d]]
  BY DEF HeadersKept
<1>1. ReadSizes(blocks[b].type, b) = blocks[b].sizes
  BY DEF Intact, Stored, ReadSizes
<1>2. blocks[b].sizes \in SizesFor(blocks[b].type)
  BY BlockFacts DEF Laid
<1> QED
  BY <1>1, <1>2 DEF SizesFor

\* At first nothing is stored.
LEMMA IntactInit == Init => Intact
<1> SUFFICES ASSUME Init PROVE Intact
  OBVIOUS
<1>1. DOMAIN blocks = {}
  BY DEF Init
<1>2. \A a \in DOMAIN memory : memory[a] = <<Unknown, 0>>
  BY DEF Init
<1> QED
  BY <1>1, <1>2 DEF Intact

\* The step changes no byte outside the block, and stores the sizes in its header.
HeaderStored(x, base, sizes, bytes) ==
    /\ \A a \in DOMAIN memory \ Bytes(base, bytes) : memory'[a] = memory[a]
    /\ \A d \in 1 .. Dimensions(Type[x]) : Read(memory', base + 4 * (d - 1), 4) = sizes[d]

\* A new block whose header is stored leaves the others alone.
LEMMA IntactNew ==
    ASSUME Laid, Intact, NEW x \in Variables, NEW base, NEW sizes, NEW bytes,
           Makes(x, base, sizes, bytes),
           HeaderStored(x, base, sizes, bytes)
    PROVE  /\ Intact'
           /\ \A b \in DOMAIN blocks : Held(memory', blocks'[b], b) = Held(memory, blocks[b], b)
<1>1. /\ base \notin DOMAIN blocks
      /\ DOMAIN blocks' = DOMAIN blocks \union {base}
      /\ blocks'[base] = [type |-> Type[x], sizes |-> sizes, bytes |-> bytes]
      /\ \A b \in DOMAIN blocks : blocks'[b] = blocks[b]
      /\ Bytes(base, bytes) \subseteq DOMAIN memory \ Taken
  <2>1. Made(x, base, sizes, bytes)
    BY LaidNew
  <2> QED
    BY <2>1 DEF Made
<1>2. ASSUME NEW b \in DOMAIN blocks
      PROVE  /\ Held(memory', blocks'[b], b) = Held(memory, blocks[b], b)
             /\ Stored(memory', blocks'[b], b)
  <2>1. /\ blocks'[b] = blocks[b] /\ IsBlock(blocks[b]) /\ b \in Int
        /\ Stored(memory, blocks[b], b)
    BY <1>1, Addresses DEF Laid, Intact
  <2>2. Bytes(b, blocks[b].bytes) \subseteq Taken /\ Bytes(b, blocks[b].bytes) \subseteq DOMAIN memory
    BY DEF Taken, Laid
  <2>3. \A c \in Bytes(b, blocks[b].bytes) : memory'[c] = memory[c]
    BY <1>1, <2>2 DEF HeaderStored
  <2>4. DOMAIN memory' = DOMAIN memory
    BY DEF Makes
  <2> QED
    BY <2>1, <2>3, <2>4, BlockSame
<1>3. Stored(memory', blocks'[base], base)
  <2>1. sizes = [d \in 1 .. Dimensions(Type[x]) |-> sizes[d]]
    BY DEF Makes
  <2> QED
    BY <1>1, <2>1 DEF Stored, HeaderStored
<1>4. Taken \union Bytes(base, bytes) \subseteq Taken'
  <2>1. ASSUME NEW a \in Taken PROVE a \in Taken'
    <3>1. PICK b \in DOMAIN blocks : a \in Bytes(b, blocks[b].bytes)
      BY DEF Taken
    <3> QED
      BY <1>1, <3>1 DEF Taken
  <2>2. Bytes(base, bytes) \subseteq Taken'
    BY <1>1 DEF Taken
  <2> QED
    BY <2>1, <2>2
<1>5. ASSUME NEW a \in DOMAIN memory' \ Taken' PROVE memory'[a] = <<Unknown, 0>>
  <2>1. a \in DOMAIN memory \ Taken /\ a \notin Bytes(base, bytes)
    BY <1>4 DEF Makes
  <2> QED
    BY <2>1 DEF Intact, HeaderStored
<1> QED
  BY <1>1, <1>2, <1>3, <1>5 DEF Intact

\* The memory after a reserve: the sizes in the header and nothing else.
LEMMA ReserveMemory ==
    ASSUME Laid, Intact, NEW x \in Variables, NEW base, NEW sizes, NEW bytes,
           Makes(x, base, sizes, bytes), memory' = Initialize(memory, base, sizes)
    PROVE  /\ HeaderStored(x, base, sizes, bytes)
           /\ \A a \in Bytes(base, bytes) \ Bytes(base, 4 * Dimensions(Type[x])) :
                memory'[a] = <<Unknown, 0>>
<1> DEFINE n == Dimensions(Type[x])
           header == Bytes(base, 4 * n)
<1>1. /\ base \in DOMAIN memory /\ Bytes(base, bytes) \subseteq DOMAIN memory \ Taken
      /\ IsBlock(blocks'[base])
      /\ blocks'[base] = [type |-> Type[x], sizes |-> sizes, bytes |-> bytes]
  <2>1. Made(x, base, sizes, bytes)
    BY LaidNew
  <2> QED
    BY <2>1 DEF Made
<1>2. n \in Nat /\ 4 * n <= bytes /\ bytes \in Nat /\ sizes \in [1 .. n -> Nat]
  BY <1>1, BlockFacts DEF SizesFor
<1>3. base \in Int
  BY <1>1, Addresses
<1> HIDE DEF n
<1>4. header \subseteq Bytes(base, bytes)
  BY <1>2, <1>3 DEF Bytes
<1>5. /\ \A d \in 1 .. n : Read(memory', base + 4 * (d - 1), 4) = sizes[d]
      /\ \A a \in DOMAIN memory \ header : memory'[a] = memory[a]
  <2>1. Bytes(base, 4 * n) \subseteq DOMAIN memory
    BY <1>1, <1>4
  <2>2. HeaderOnly(memory, Initialize(memory, base, sizes), base, n, sizes)
    BY <1>2, <1>3, <2>1, Initialized
  <2> QED
    BY <2>2 DEF HeaderOnly
<1>6. \A a \in Bytes(base, bytes) \ header : memory'[a] = <<Unknown, 0>>
  BY <1>1, <1>5 DEF Intact
<1> QED
  BY <1>4, <1>5, <1>6 DEF n, HeaderStored

\* The memory after a string was assigned: its length in the header, its
\* characters behind it, and nothing else.
LEMMA StringMemory ==
    ASSUME Laid, Intact, NEW x \in Variables, NEW l \in Literals,
           NEW base, NEW sizes, NEW bytes, Makes(x, base, sizes, bytes),
           sizes = <<l.length>>, Dimensions(Type[x]) = 1, bytes = l.length + 4,
           memory' = Characters(base, sizes, l.text)
    PROVE  /\ HeaderStored(x, base, sizes, bytes)
           /\ \A i \in 0 .. l.length - 1 :
                memory'[base + 4 + i] = IF i < Len(l.text) THEN <<l.text[i + 1], 0>>
                                                           ELSE <<Unknown, 0>>
<1> DEFINE m == Initialize(memory, base, sizes)
           L == Len(l.text)
           T == l.length
           chars == Bytes(base + 4, L)
<1>1. /\ base \in DOMAIN memory /\ Bytes(base, bytes) \subseteq DOMAIN memory \ Taken
  <2>1. Made(x, base, sizes, bytes)
    BY LaidNew
  <2> QED
    BY <2>1 DEF Made
<1>2. base \in Int
  BY <1>1, Addresses
<1>3. L \in Nat /\ T \in Nat /\ L <= T /\ bytes = T + 4
  BY HeapAssumption
<1>4. Bytes(base, 4) \subseteq DOMAIN memory
  BY <1>1, <1>2, <1>3 DEF Bytes
<1>5. sizes \in [1 .. 1 -> Nat]
  BY <1>3
<1>6. /\ Read(m, base, 4) = sizes[1]
      /\ \A a \in DOMAIN memory \ Bytes(base, 4) : m[a] = memory[a]
  <2>1. Bytes(base, 4 * 1) \subseteq DOMAIN memory
    BY <1>4
  <2>2. HeaderOnly(memory, m, base, 1, sizes)
    <3>1. HeaderOnly(memory, Initialize(memory, base, sizes), base, 1, sizes)
      BY <1>2, <1>5, <2>1, Initialized
    <3> QED
      BY <3>1
  <2>3. base + 4 * (1 - 1) = base
    BY <1>2
  <2> QED
    BY <2>2, <2>3 DEF HeaderOnly
<1>7. \A a \in DOMAIN memory : memory'[a] = IF a \in chars THEN <<l.text[a - base - 3], 0>> ELSE m[a]
  BY DEF Characters
<1> HIDE DEF m, L, T
<1>8. /\ \A a \in Bytes(base, 4) : a \notin chars
      /\ chars \subseteq Bytes(base, bytes) /\ Bytes(base, 4) \subseteq Bytes(base, bytes)
  BY <1>2, <1>3 DEF Bytes
<1>9. Read(memory', base, 4) = sizes[1]
  <2>1. \A a \in Bytes(base, 4) : memory'[a] = m[a]
    BY <1>4, <1>7, <1>8
  <2>3. DOMAIN memory' = DOMAIN m
    BY DEF Makes, m, Initialize
  <2>2. Read(memory', base, 4) = Read(m, base, 4)
    BY <1>2, <2>1, <2>3, ReadSame
  <2> QED
    BY <1>6, <2>2
<1>10. ASSUME NEW i \in 0 .. T - 1
       PROVE  memory'[base + 4 + i] = IF i < L THEN <<l.text[i + 1], 0>> ELSE <<Unknown, 0>>
  <2> DEFINE a == base + 4 + i
  <2>1. a \in Bytes(base, bytes) /\ a \notin Bytes(base, 4) /\ a - base - 3 = i + 1
    BY <1>2, <1>3 DEF Bytes, T
  <2>2. a \in chars <=> i < L
    BY <1>2, <1>3 DEF Bytes
  <2> HIDE DEF a, chars
  <2>3. a \in DOMAIN memory \ Taken
    BY <1>1, <2>1
  <2>4. memory[a] = <<Unknown, 0>>
    BY <2>3 DEF Intact
  <2>5. m[a] = memory[a]
    BY <1>6, <2>1, <2>3
  <2>6. memory'[a] = IF i < L THEN <<l.text[i + 1], 0>> ELSE <<Unknown, 0>>
    BY <1>7, <2>1, <2>2, <2>3, <2>4, <2>5
  <2> QED
    BY <2>6 DEF a
<1>11. \A d \in 1 .. Dimensions(Type[x]) : Read(memory', base + 4 * (d - 1), 4) = sizes[d]
  <2>1. base + 4 * (1 - 1) = base
    BY <1>2
  <2> QED
    BY <1>9, <2>1
<1>12. \A a \in DOMAIN memory \ Bytes(base, bytes) : memory'[a] = memory[a]
  BY <1>6, <1>7, <1>8
<1> QED
  BY <1>10, <1>11, <1>12 DEF L, T, HeaderStored

\* A release forgets the block's bytes and no others.
LEMMA IntactRelease ==
    ASSUME Laid, Intact, NEW x \in Variables, Release(x)
    PROVE  /\ Intact'
           /\ \A b \in DOMAIN blocks' : Held(memory', blocks'[b], b) = Held(memory, blocks[b], b)
<1> DEFINE p == pointer[x]
           own == Bytes(p, blocks[p].bytes)
<1>1. /\ p \in DOMAIN blocks /\ DOMAIN blocks' = DOMAIN blocks \ {p}
      /\ \A b \in DOMAIN blocks' : blocks'[b] = blocks[b]
  BY LaidRelease
<1>2. /\ DOMAIN memory' = DOMAIN memory
      /\ \A a \in DOMAIN memory : memory'[a] = IF a \in own THEN <<Unknown, 0>> ELSE memory[a]
  BY DEF Release, Forget
<1> HIDE DEF p
<1>3. ASSUME NEW b \in DOMAIN blocks'
      PROVE  /\ Held(memory', blocks'[b], b) = Held(memory, blocks[b], b)
             /\ Stored(memory', blocks'[b], b)
  <2>1. b \in DOMAIN blocks /\ b # p /\ blocks'[b] = blocks[b]
    BY <1>1
  <2>2. /\ IsBlock(blocks[b]) /\ b \in Int /\ Stored(memory, blocks[b], b)
        /\ Bytes(b, blocks[b].bytes) \subseteq DOMAIN memory
        /\ Bytes(b, blocks[b].bytes) \intersect own = {}
    BY <1>1, <2>1, Addresses DEF Laid, Intact
  <2>3. \A c \in Bytes(b, blocks[b].bytes) : memory'[c] = memory[c]
    BY <1>2, <2>2
  <2> QED
    BY <1>2, <2>1, <2>2, <2>3, BlockSame
<1>4. ASSUME NEW a \in DOMAIN memory' \ Taken' PROVE memory'[a] = <<Unknown, 0>>
  <2>1. CASE a \in own
    BY <1>2, <2>1
  <2>2. CASE a \notin own
    <3>1. a \notin Taken
      <4> SUFFICES ASSUME a \in Taken PROVE FALSE
        OBVIOUS
      <4>1. PICK b \in DOMAIN blocks : a \in Bytes(b, blocks[b].bytes)
        BY DEF Taken
      <4>2. b \in DOMAIN blocks' /\ blocks'[b] = blocks[b]
        BY <1>1, <2>2, <4>1
      <4> QED
        BY <4>1, <4>2 DEF Taken
    <3> QED
      BY <1>2, <2>2, <3>1 DEF Intact
  <2> QED
    BY <2>1, <2>2
<1> QED
  BY <1>3, <1>4 DEF Intact

-----------------------------------------------------------------------------
(* One access                                                              *)

\* The place of an access with one selector.
LEMMA PlaceOfOne ==
    ASSUME NEW x, NEW at
    PROVE  LET sizes == ReadSizes(Type[x], pointer[x])
           IN  Place(x, <<at>>) =
                 IF Within(at, sizes)
                 THEN [type |-> ElementType(Type[x], at), computed |-> TRUE, ok |-> TRUE,
                       offset |-> Offset(Type[x], sizes, at)]
                 ELSE [type |-> ElementType(Type[x], at), computed |-> FALSE, ok |-> FALSE,
                       offset |-> 0]
<1> DEFINE first == [type |-> Type[x], offset |-> 0, computed |-> TRUE, ok |-> TRUE]
           sel(p, s) ==
             LET sizes == ReadSizes(p.type, pointer[x])
                 passes == Within(s, sizes)
             IN  [type |-> ElementType(p.type, s), computed |-> passes, ok |-> p.ok /\ passes,
                  offset |-> IF passes THEN Offset(p.type, sizes, s) ELSE 0]
           T(f) == [n \in 0 .. 1 |-> IF n = 0 THEN first ELSE sel(f[n - 1], <<at>>[n])]
           g == [n \in 0 .. 1 |-> IF n = 0 THEN first ELSE sel(first, at)]
           place == CHOOSE f : f = T(f)
<1>1. g = T(g)
  <2>1. g[0] = first
    OBVIOUS
  <2> HIDE DEF first, sel
  <2>2. ASSUME NEW n \in 0 .. 1
        PROVE  g[n] = IF n = 0 THEN first ELSE sel(g[n - 1], <<at>>[n])
    <3>1. CASE n = 0
      BY <3>1
    <3>2. CASE n = 1
      <4>1. n - 1 = 0 /\ <<at>>[n] = at /\ n # 0
        BY <3>2
      <4>2. g[n] = sel(first, at)
        BY <3>2
      <4> HIDE DEF g
      <4> QED
        BY <2>1, <4>1, <4>2
    <3> QED
      BY <3>1, <3>2
  <2>3. g = [n \in 0 .. 1 |-> g[n]]
    OBVIOUS
  <2> HIDE DEF g
  <2> QED
    BY <2>2, <2>3, Zenon
<1>2. place = T(place)
  BY <1>1
<1>3. Place(x, <<at>>) = place[1]
  <2>1. Len(<<at>>) = 1
    OBVIOUS
  <2> QED
    BY <2>1 DEF Place
<1> HIDE DEF place
<1>4. place[0] = first /\ place[1] = sel(first, at)
  <2> HIDE DEF first, sel
  <2>1. place[0] = first
    BY <1>2
  <2>2. place[1] = sel(place[0], at)
    <3>1. 1 \in 0 .. 1 /\ 1 # 0 /\ 1 - 1 = 0 /\ <<at>>[1] = at
      OBVIOUS
    <3>2. place[1] = IF 1 = 0 THEN first ELSE sel(place[1 - 1], <<at>>[1])
      BY <1>2, <3>1, Zenon
    <3> QED
      BY <3>1, <3>2
  <2> QED
    BY <2>1, <2>2
<1>5. CASE Within(at, ReadSizes(Type[x], pointer[x]))
  <2>1. Within(at, ReadSizes(Type[x], pointer[x])) = TRUE
    BY <1>5 DEF Within
  <2> QED
    BY <1>3, <1>4, <2>1
<1>6. CASE ~Within(at, ReadSizes(Type[x], pointer[x]))
  <2>1. Within(at, ReadSizes(Type[x], pointer[x])) = FALSE
    BY <1>6 DEF Within
  <2> QED
    BY <1>3, <1>4, <2>1
<1> QED
  BY <1>5, <1>6

\* The block an access goes to.
LEMMA Accessed ==
    ASSUME Laid, NEW x \in Variables, Refers(x)
    PROVE  /\ pointer[x] \in DOMAIN blocks /\ pointer[x] \in Int
           /\ blocks[pointer[x]].type = Type[x] /\ IsBlock(blocks[pointer[x]])
           /\ Type[x] \in DOMAIN Definitions
           /\ Bytes(pointer[x], blocks[pointer[x]].bytes) \subseteq DOMAIN memory
BY Addresses, HeapAssumption DEF Laid, Refers

\* With one selector an access, the check finds out whether there is such an
\* element, and the place is the element's.
LEMMA AccessPlace ==
    ASSUME Laid, Intact, MaxSelectors < 2, NEW x \in Variables, NEW path \in Paths(x), Refers(x)
    PROVE  LET sizes == blocks[pointer[x]].sizes
           IN  /\ path = <<Last(path)>>
               /\ Place(x, path).ok <=> Last(path) \in Positions(Type[x], sizes)
               /\ Place(x, path).computed <=> Place(x, path).ok
               /\ Place(x, path).ok =>
                    /\ Place(x, path).type = ElementType(Type[x], Last(path))
                    /\ Place(x, path).offset = Offset(Type[x], sizes, Last(path))
<1> DEFINE t == Type[x]
           sizes == blocks[pointer[x]].sizes
<1>1. PICK at \in Selectors(t) : path = <<at>>
  BY DEF Paths
<1>2. Last(path) = at
  BY <1>1 DEF Last
<1>3. /\ pointer[x] \in DOMAIN blocks /\ blocks[pointer[x]].type = t
      /\ t \in DOMAIN Definitions /\ sizes \in SizesFor(t)
  BY Accessed, BlockFacts
<1>4. ReadSizes(t, pointer[x]) = sizes
  BY <1>3 DEF Intact, Stored, ReadSizes
<1>5. Within(at, sizes) <=> at \in Positions(t, sizes)
  <2>1. CASE IsArray(t)
    <3>1. at \in [1 .. Dimensions(t) -> Indices]
      BY <1>1, <1>3, <2>1, TypeFacts DEF Selectors
    <3>2. Indices \subseteq Int
      BY HeapAssumption DEF Indices
    <3>3. at \in [1 .. Dimensions(t) -> Int]
      BY <3>1, <3>2
    <3> QED
      BY <1>3, <2>1, <3>3, ArrayPositions
  <2>2. CASE IsRecord(t)
    <3>1. Positions(t, sizes) = Selectors(t)
      BY <2>2 DEF Positions
    <3>2. DOMAIN sizes = {}
      BY <1>3, <2>2 DEF SizesFor, Dimensions
    <3> QED
      BY <1>1, <3>1, <3>2 DEF Within
  <2> QED
    BY <1>3, <2>1, <2>2, TypeFacts
<1> HIDE DEF t, sizes
<1>6. Place(x, path) =
        IF Within(at, sizes)
        THEN [type |-> ElementType(t, at), computed |-> TRUE, ok |-> TRUE,
              offset |-> Offset(t, sizes, at)]
        ELSE [type |-> ElementType(t, at), computed |-> FALSE, ok |-> FALSE, offset |-> 0]
  BY <1>1, <1>4, PlaceOfOne DEF t
<1>7. /\ path = <<Last(path)>> /\ (Place(x, path).ok <=> Last(path) \in Positions(t, sizes))
      /\ (Place(x, path).computed <=> Place(x, path).ok)
      /\ Place(x, path).ok => /\ Place(x, path).type = ElementType(t, Last(path))
                              /\ Place(x, path).offset = Offset(t, sizes, Last(path))
  BY <1>1, <1>2, <1>5, <1>6
<1> QED
  BY <1>7 DEF t, sizes

\* A store with one selector changes the bytes of the element it names only, so
\* no header, and what no block takes stays as it is.
LEMMA StoreMemory ==
    ASSUME Laid, Intact, MaxSelectors < 2, NEW x \in Variables, NEW path \in Paths(x), NEW v,
           Store(x, path, v), ~wild'
    PROVE  LET p == pointer[x]
               t == Type[x]
               sizes == blocks[p].sizes
               at == Last(path)
               o == Offset(t, sizes, at)
               w == type_byte_size(ElementType(t, at))
           IN  /\ at \in Positions(t, sizes) /\ o \in Nat /\ w \in Nat \ {0}
               /\ 4 * Dimensions(t) <= o /\ o + w <= blocks[p].bytes
               /\ memory' = Write(memory, p + o, w, v)
               /\ DOMAIN memory' = DOMAIN memory
               /\ \A a \in DOMAIN memory \ Bytes(p + o, w) : memory'[a] = memory[a]
               /\ Bytes(p + o, w) \subseteq Bytes(p, blocks[p].bytes) \ Bytes(p, 4 * Dimensions(t))
<1> DEFINE p == pointer[x]
           t == Type[x]
           sizes == blocks[p].sizes
           at == Last(path)
           o == Offset(t, sizes, at)
           w == type_byte_size(ElementType(t, at))
           total == blocks[p].bytes
           D == Dimensions(t)
<1>1. Refers(x) /\ Place(x, path).ok
      /\ memory' = Write(memory, p + Place(x, path).offset, type_byte_size(Place(x, path).type), v)
  <2>1. Refers(x) /\ Place(x, path).computed
    BY DEF Store, Laid
  <2> QED
    BY <2>1, AccessPlace DEF Store, Address
<1>2. at \in Positions(t, sizes) /\ Place(x, path).offset = o
      /\ Place(x, path).type = ElementType(t, at)
  BY <1>1, AccessPlace
<1>3. /\ p \in Int /\ t \in DOMAIN Definitions /\ sizes \in SizesFor(t)
      /\ total = total_bytes(t, sizes) /\ total \in Nat /\ D \in Nat
  BY <1>1, Accessed, BlockFacts DEF IsBlock
<1>4. w \in {1, 4, 8} /\ o \in Nat /\ 4 * D <= o /\ o + w <= total
  BY <1>2, <1>3, Placed
<1>5. memory' = Write(memory, p + o, w, v)
  BY <1>1, <1>2
<1> HIDE DEF p, t, sizes, at, o, w, total, D
<1>6. Bytes(p + o, w) \subseteq Bytes(p, total) \ Bytes(p, 4 * D)
  BY <1>3, <1>4 DEF Bytes
<1>7. DOMAIN memory' = DOMAIN memory
      /\ \A a \in DOMAIN memory \ Bytes(p + o, w) : memory'[a] = memory[a]
  BY <1>5 DEF Write
<1>8. w \in Nat \ {0}
  BY <1>4
<1> QED
  BY <1>2, <1>4, <1>5, <1>6, <1>7, <1>8 DEF p, t, sizes, at, o, w, total, D

\* Such a store keeps the headers.
LEMMA IntactStore ==
    ASSUME Laid, Intact, MaxSelectors < 2, NEW x \in Variables, NEW path \in Paths(x), NEW v,
           Store(x, path, v), ~wild'
    PROVE  /\ Intact' /\ UNCHANGED <<pointer, blocks>>
           /\ \A b \in DOMAIN blocks \ {pointer[x]} :
                Held(memory', blocks[b], b) = Held(memory, blocks[b], b)
<1> DEFINE p == pointer[x]
           own == Bytes(p, blocks[p].bytes)
           header == Bytes(p, 4 * Dimensions(Type[x]))
<1>1. /\ DOMAIN memory' = DOMAIN memory
      /\ \A a \in DOMAIN memory \ (own \ header) : memory'[a] = memory[a]
  BY StoreMemory
<1>2. UNCHANGED <<pointer, blocks>> /\ Refers(x)
  BY DEF Store
<1>3. /\ p \in DOMAIN blocks /\ p \in Int /\ blocks[p].type = Type[x] /\ IsBlock(blocks[p])
      /\ own \subseteq DOMAIN memory
  BY <1>2, Accessed
<1>4. Dimensions(Type[x]) \in Nat /\ 4 * Dimensions(Type[x]) <= blocks[p].bytes
      /\ blocks[p].bytes \in Nat
  BY <1>3, BlockFacts
<1> HIDE DEF p
<1>5. ASSUME NEW b \in DOMAIN blocks, b # p
      PROVE  /\ Held(memory', blocks[b], b) = Held(memory, blocks[b], b)
             /\ Stored(memory', blocks[b], b)
  <2>1. /\ IsBlock(blocks[b]) /\ b \in Int /\ Stored(memory, blocks[b], b)
        /\ Bytes(b, blocks[b].bytes) \subseteq DOMAIN memory
        /\ Bytes(b, blocks[b].bytes) \intersect own = {}
    BY <1>3, <1>5, Addresses DEF Laid, Intact
  <2>2. \A c \in Bytes(b, blocks[b].bytes) : memory'[c] = memory[c]
    BY <1>1, <2>1
  <2> QED
    BY <1>1, <2>1, <2>2, BlockSame
<1>6. Stored(memory', blocks[p], p)
  <2> DEFINE n == Dimensions(Type[x])
  <2>1. ASSUME NEW d \in 1 .. n
        PROVE  Read(memory', p + 4 * (d - 1), 4) = Read(memory, p + 4 * (d - 1), 4)
    <3> DEFINE a == p + 4 * (d - 1)
    <3>1. a \in Int /\ Bytes(a, 4) \subseteq header /\ header \subseteq own
      BY <1>3, <1>4 DEF Bytes
    <3> HIDE DEF a, own, header
    <3>2. \A c \in Bytes(a, 4) : memory'[c] = memory[c]
      BY <1>1, <1>3, <3>1
    <3>3. Read(memory', a, 4) = Read(memory, a, 4)
      BY <1>1, <3>1, <3>2, ReadSame
    <3> QED
      BY <3>3 DEF a
  <2>2. Stored(memory, blocks[p], p)
    BY <1>3 DEF Intact
  <2> QED
    BY <1>3, <2>1, <2>2 DEF Stored
<1>7. ASSUME NEW a \in DOMAIN memory' \ Taken' PROVE memory'[a] = <<Unknown, 0>>
  <2>1. a \in DOMAIN memory \ Taken
    BY <1>1, <1>2, <1>7 DEF Taken
  <2>2. a \notin own
    BY <1>3, <2>1 DEF Taken
  <2> QED
    BY <1>1, <2>1, <2>2 DEF Intact
<1> QED
  BY <1>2, <1>5, <1>6, <1>7 DEF Intact, p

\* The steps that change neither the memory nor the blocks.
LEMMA IntactSame ==
    ASSUME Intact, UNCHANGED <<memory, blocks>>
    PROVE  Intact'
BY DEF Intact, Taken

\* With one selector an access, no step but a wild store breaks a header.
LEMMA IntactNext ==
    ASSUME MaxSelectors < 2
    PROVE  Laid /\ Intact /\ ~wild' /\ [Next]_vars => Intact'
<1> SUFFICES ASSUME Laid, Intact, ~wild', [Next]_vars PROVE Intact'
  OBVIOUS
<1>1. CASE UNCHANGED vars
  BY <1>1, IntactSame DEF vars
<1>2. ASSUME NEW x \in Variables, NEW sizes \in SizesOf(Type[x]), Reserve(x, sizes) PROVE Intact'
  <2> DEFINE bytes == total_bytes(Type[x], sizes)
  <2>1. PICK base : Makes(x, base, sizes, bytes) /\ memory' = Initialize(memory, base, sizes)
    BY <1>2, ReserveNew
  <2> HIDE DEF bytes
  <2>2. HeaderStored(x, base, sizes, bytes)
    BY <2>1, ReserveMemory
  <2> QED
    BY <2>1, <2>2, IntactNew
<1>3. ASSUME NEW x \in Variables, NEW l \in Literals, String(x, l) PROVE Intact'
  <2> DEFINE sizes == <<l.length>>
             bytes == total_bytes(Type[x], sizes)
  <2>1. PICK base : Makes(x, base, sizes, bytes) /\ memory' = Characters(base, sizes, l.text)
    BY <1>3, StringNew
  <2>2. sizes = <<l.length>> /\ Dimensions(Type[x]) = 1 /\ bytes = l.length + 4
    BY <1>3, StringNew
  <2> HIDE DEF sizes, bytes
  <2>3. HeaderStored(x, base, sizes, bytes)
    BY <2>1, <2>2, StringMemory
  <2> QED
    BY <2>1, <2>3, IntactNew
<1>4. ASSUME NEW x \in Variables, Release(x) PROVE Intact'
  BY <1>4, IntactRelease
<1>5. ASSUME NEW x \in Variables, NEW y \in Variables, Copy(x, y) PROVE Intact'
  BY <1>5, IntactSame DEF Copy
<1>6. ASSUME NEW x \in Variables, NEW path \in Paths(x), Load(x, path) PROVE Intact'
  BY <1>6, IntactSame DEF Load
<1>7. ASSUME NEW x \in Variables, NEW path \in Paths(x), NEW v \in Values, Store(x, path, v)
      PROVE  Intact'
  BY <1>7, IntactStore
<1>8. ASSUME NEW x \in Variables, NEW d \in 1 .. Dimensions(Type[x]), Dimension(x, d)
      PROVE  Intact'
  BY <1>8, IntactSame DEF Dimension
<1> QED
  BY <1>1, <1>2, <1>3, <1>4, <1>5, <1>6, <1>7, <1>8 DEF Next

\* While accesses have one selector, and until a wild store, the headers are intact.
LEMMA IntactAlways ==
    ASSUME MaxSelectors < 2
    PROVE  Spec => [](Shape /\ (wild \/ (Laid /\ Intact)))
<1>1. Init => Shape /\ Laid /\ Intact
  BY LaidInit, IntactInit, ShapeInit
<1>2. (Shape /\ (wild \/ (Laid /\ Intact))) /\ [Next]_vars => (Shape /\ (wild \/ (Laid /\ Intact)))'
  <2> SUFFICES ASSUME Shape, wild \/ (Laid /\ Intact), [Next]_vars
               PROVE  Shape' /\ (wild' \/ (Laid' /\ Intact'))
    OBVIOUS
  <2>1. Shape' /\ (wild => wild')
    BY ShapeNext
  <2>2. Laid /\ Intact /\ ~wild' => Laid' /\ Intact'
    BY LaidNext, IntactNext
  <2> QED
    BY <2>1, <2>2
<1> QED
  BY <1>1, <1>2, PTL DEF Spec

\* For every set of types and literals and a heap of any length: as long as an
\* access has one selector, and until a store is made behind a failed check, the
\* sizes an array was made with stay in its header whatever is stored.
THEOREM HeadersKeptAlways ==
    ASSUME MaxSelectors < 2
    PROVE  Spec => []HeadersKept
<1>1. wild \/ (Laid /\ Intact) => HeadersKept
  BY HeadersOfIntact DEF HeadersKept
<1> QED
  BY <1>1, IntactAlways, PTL

-----------------------------------------------------------------------------
(* The refinement of Objects                                               *)

\* The objects the blocks stand for.
Objs == [b \in DOMAIN blocks |-> Held(memory, blocks[b], b)]

\* What a block holds has a value the language knows.
LEMMA HeldFields ==
    ASSUME NEW m, NEW k, NEW b
    PROVE  /\ Held(m, k, b).type = k.type /\ Held(m, k, b).sizes = k.sizes
           /\ DOMAIN Held(m, k, b).contents = Positions(k.type, k.sizes)
           /\ \A at \in Positions(k.type, k.sizes) :
                Held(m, k, b).contents[at] =
                  Read(m, b + Offset(k.type, k.sizes, at), type_byte_size(ElementType(k.type, at)))
           /\ Held(m, k, b) = [type |-> k.type, sizes |-> k.sizes,
                               contents |-> Held(m, k, b).contents]
           /\ Held(m, k, b).contents = [at \in Positions(k.type, k.sizes) |->
                                          Held(m, k, b).contents[at]]
BY DEF Held

\* The contents of an element are read at its offset.
ContentsAt(m, t, sizes, bytes, b, at) ==
    Held(m, [type |-> t, sizes |-> sizes, bytes |-> bytes], b).contents[at] =
      Read(m, b + Offset(t, sizes, at), type_byte_size(ElementType(t, at)))

\* So it is for every element.
LEMMA HeldContents ==
    ASSUME NEW m, NEW t, NEW sizes, NEW bytes, NEW b, NEW at \in Positions(t, sizes)
    PROVE  ContentsAt(m, t, sizes, bytes, b, at)
BY DEF Held, ContentsAt

\* The initial states of the heap are initial states of the language.
LEMMA ObjectsInit == Init => Language!Init
<1> SUFFICES ASSUME Init PROVE Language!Init
  OBVIOUS
<1>1. DOMAIN blocks = {}
  BY DEF Init
<1>2. Objs = << >>
  <2>1. Objs = [b \in {} |-> Held(memory, blocks[b], b)]
    BY <1>1 DEF Objs
  <2> QED
    BY <2>1
<1> QED
  BY <1>2 DEF Init, Language!Init, Objs, NULL

\* A new block is a new object, and the others are what they were.
LEMMA CreatesObject ==
    ASSUME Laid, Intact, NEW x \in Variables, NEW base, NEW sizes, NEW bytes,
           Makes(x, base, sizes, bytes), access' = access,
           HeaderStored(x, base, sizes, bytes)
    PROVE  /\ Language!Creates(x) /\ pointer'[x] = base
           /\ Objs'[base] = Held(memory', [type |-> Type[x], sizes |-> sizes, bytes |-> bytes],
                                 base)
<1>1. Made(x, base, sizes, bytes)
  BY LaidNew
<1>2. \A b \in DOMAIN blocks : Held(memory', blocks'[b], b) = Held(memory, blocks[b], b)
  BY IntactNew
<1>3. /\ pointer' = [pointer EXCEPT ![x] = base] /\ wild' = wild
  BY DEF Makes, NewBlock
<1>4. Objs' = [b \in DOMAIN blocks' |-> Held(memory', blocks'[b], b)]
  BY DEF Objs
<1>5. /\ DOMAIN Objs' = DOMAIN Objs \union {base} /\ base \notin DOMAIN Objs \union {0}
      /\ \A o \in DOMAIN Objs : Objs'[o] = Objs[o]
      /\ Objs'[base] = Held(memory', blocks'[base], base)
  BY <1>1, <1>2, <1>4 DEF Made, Objs, NULL
<1>6. pointer'[x] = base
  BY <1>1 DEF Made
<1>7. Language!Creates(x)
  <2>1. pointer' = [pointer EXCEPT ![x] = pointer'[x]]
    BY <1>3, <1>6
  <2> QED
    BY <1>3, <1>5, <1>6, <2>1 DEF Language!Creates, Objs
<1> QED
  BY <1>1, <1>5, <1>6, <1>7 DEF Made

\* What Objs has at a block.
LEMMA ObjectOf ==
    ASSUME Laid, NEW b \in DOMAIN blocks
    PROVE  Objs[b] = Held(memory, blocks[b], b) /\ DOMAIN Objs = DOMAIN blocks
BY DEF Objs

\* An object that is held and of which some contents are known, is new.
LEMMA HeldNew ==
    ASSUME NEW m, NEW x \in Variables, NEW base, NEW sizes, NEW bytes, NEW known,
           LET k == [type |-> Type[x], sizes |-> sizes, bytes |-> bytes]
           IN  /\ \A at \in Positions(Type[x], sizes) : Held(m, k, base).contents[at] \in Contents
               /\ \A at \in DOMAIN known : Held(m, k, base).contents[at] = known[at]
    PROVE  Language!IsNew(Held(m, [type |-> Type[x], sizes |-> sizes, bytes |-> bytes], base),
                          x, sizes, known)
<1> DEFINE k == [type |-> Type[x], sizes |-> sizes, bytes |-> bytes]
           h == Held(m, k, base)
<1>1. /\ h = [type |-> k.type, sizes |-> k.sizes, contents |-> h.contents]
      /\ h.contents = [at \in Positions(k.type, k.sizes) |-> h.contents[at]]
  BY HeldFields
<1>2. k.type = Type[x] /\ k.sizes = sizes
  OBVIOUS
<1>3. /\ \A at \in Positions(Type[x], sizes) : h.contents[at] \in Contents
      /\ \A at \in DOMAIN known : h.contents[at] = known[at]
  OBVIOUS
<1> HIDE DEF k, h
<1>4. h.contents \in [Positions(Type[x], sizes) -> Contents]
  BY <1>1, <1>2, <1>3
<1>5. h = [type |-> Type[x], sizes |-> sizes, contents |-> h.contents]
  BY <1>1, <1>2
<1>6. Language!IsNew(h, x, sizes, known)
  BY <1>3, <1>4, <1>5 DEF Language!IsNew
<1> QED
  BY <1>6 DEF h, k

\* What a reserve makes is an object whose elements have no contents yet.
LEMMA ReserveObject ==
    ASSUME Laid, Intact, NEW x \in Variables, NEW sizes \in SizesOf(Type[x]), Reserve(x, sizes)
    PROVE  Language!Reserve(x)
<1> DEFINE bytes == total_bytes(Type[x], sizes)
<1>1. PICK base : Makes(x, base, sizes, bytes) /\ memory' = Initialize(memory, base, sizes)
  BY ReserveNew
<1>2. access' = access
  BY ReserveNew
<1> HIDE DEF bytes
<1>3. /\ HeaderStored(x, base, sizes, bytes)
      /\ \A a \in Bytes(base, bytes) \ Bytes(base, 4 * Dimensions(Type[x])) :
           memory'[a] = <<Unknown, 0>>
  BY <1>1, ReserveMemory
<1> DEFINE k == [type |-> Type[x], sizes |-> sizes, bytes |-> bytes]
<1>4. /\ Language!Creates(x) /\ pointer'[x] = base /\ Objs'[base] = Held(memory', k, base)
  BY <1>1, <1>2, <1>3, CreatesObject
<1>5. IsBlock(k) /\ base \in Int
  <2>1. Made(x, base, sizes, bytes)
    BY <1>1, LaidNew
  <2> QED
    BY <2>1, Addresses DEF Made
<1>6. /\ Type[x] \in DOMAIN Definitions /\ sizes \in SizesFor(Type[x])
      /\ bytes = total_bytes(Type[x], sizes) /\ bytes \in Nat /\ Dimensions(Type[x]) \in Nat
  <2>1. k.type = Type[x] /\ k.sizes = sizes /\ k.bytes = bytes
    OBVIOUS
  <2> HIDE DEF k
  <2> QED
    BY <1>5, <2>1, BlockFacts DEF IsBlock
<1>7. ASSUME NEW at \in Positions(Type[x], sizes)
      PROVE  Held(memory', k, base).contents[at] \in Contents
  <2> DEFINE w == type_byte_size(ElementType(Type[x], at))
             o == Offset(Type[x], sizes, at)
             n == Dimensions(Type[x])
  <2>1. w \in {1, 4, 8} /\ o \in Nat /\ 4 * n <= o /\ o + w <= bytes
    BY <1>6, Placed
  <2>2. Held(memory', k, base).contents[at] = Read(memory', base + o, w)
    BY HeldContents DEF ContentsAt
  <2>3. \A a \in Bytes(base, bytes) \ Bytes(base, 4 * n) : memory'[a] = <<Unknown, 0>>
    BY <1>3
  <2>4. n \in Nat
    BY <1>6
  <2> HIDE DEF w, o, k, n
  <2>5. \A c \in Bytes(base + o, w) : c \in Bytes(base, bytes) \ Bytes(base, 4 * n)
    BY <1>5, <1>6, <2>1, <2>4 DEF Bytes
  <2>6. Read(memory', base + o, w) = Unknown
    <3>1. base + o \in Int /\ w \in Nat \ {0}
      BY <1>5, <2>1
    <3> HIDE DEF Unknown
    <3> QED
      BY <2>3, <2>5, <3>1, ReadNothing
  <2> QED
    BY <2>2, <2>6 DEF Contents
<1>8. Language!IsNew(Held(memory', k, base), x, sizes, << >>)
  BY <1>7, HeldNew
<1>9. Language!IsNew(Objs'[pointer'[x]], x, sizes, << >>)
  BY <1>4, <1>8
<1> QED
  BY <1>4, <1>9 DEF Language!Reserve, Objs

\* With one index, that is the number.
LEMMA NumberOfOne ==
    ASSUME NEW sizes \in [1 .. 1 -> Nat], NEW at \in [1 .. 1 -> Int]
    PROVE  curr_index(sizes, at) = at[1]
<1> DEFINE n == 1
<1>1. n \in Nat \ {0} /\ sizes \in [1 .. n -> Nat] /\ at \in [1 .. n -> Int]
  OBVIOUS
<1> HIDE DEF n
<1>2. \E i \in [1 .. n -> Int] :
        /\ i[1] = at[1] /\ \A k \in 2 .. n : i[k] = i[k - 1] * sizes[k] + at[k]
        /\ curr_index(sizes, at) = i[n]
  BY <1>1, Numbers
<1>3. PICK i \in [1 .. n -> Int] : i[1] = at[1] /\ curr_index(sizes, at) = i[n]
  BY <1>2
<1> QED
  BY <1>3 DEF n

\* What a string assignment makes is an object of the literal's length whose
\* first elements are its characters.
LEMMA StringObject ==
    ASSUME Laid, Intact, NEW x \in Variables, NEW l \in Literals, String(x, l)
    PROVE  Language!String(x)
<1> DEFINE sizes == <<l.length>>
           bytes == total_bytes(Type[x], sizes)
           t == Type[x]
           chars == [at \in {<<i - 1>> : i \in DOMAIN l.text} |-> l.text[at[1] + 1]]
<1>1. PICK base : Makes(x, base, sizes, bytes) /\ memory' = Characters(base, sizes, l.text)
  BY StringNew
<1>2. /\ access' = access /\ IsArray(t) /\ Definitions[t].type = "character"
      /\ Dimensions(t) = 1 /\ header_size(t) = 4 /\ bytes = l.length + 4
  BY StringNew
<1>3. sizes = <<l.length>> /\ sizes[1] = l.length
  OBVIOUS
<1>4. l.text \in Seq(Nat) /\ l.length \in Nat /\ Len(l.text) <= l.length /\ Len(l.text) \in Nat
  <2>1. l.text \in Seq(Nat) /\ l.length \in Nat /\ l.length >= Len(l.text)
    BY HeapAssumption
  <2>2. Len(l.text) \in Nat
    BY <2>1
  <2> QED
    BY <2>1, <2>2
<1> HIDE DEF sizes, bytes, t
<1>5. /\ HeaderStored(x, base, sizes, bytes)
      /\ \A i \in 0 .. l.length - 1 :
           memory'[base + 4 + i] = IF i < Len(l.text) THEN <<l.text[i + 1], 0>>
                                                      ELSE <<Unknown, 0>>
  BY <1>1, <1>2, <1>3, StringMemory DEF t
<1> DEFINE k == [type |-> Type[x], sizes |-> sizes, bytes |-> bytes]
<1>6. /\ Language!Creates(x) /\ pointer'[x] = base /\ Objs'[base] = Held(memory', k, base)
  BY <1>1, <1>2, <1>5, CreatesObject
<1>7. IsBlock(k) /\ base \in Int
  <2>1. Made(x, base, sizes, bytes)
    BY <1>1, LaidNew
  <2> QED
    BY <2>1, Addresses DEF Made
<1>8. t \in DOMAIN Definitions /\ sizes \in SizesFor(t)
  <2>1. k.type = t /\ k.sizes = sizes
    BY DEF t
  <2> HIDE DEF k
  <2> QED
    BY <1>7, <2>1, BlockFacts DEF IsBlock
<1>9. ASSUME NEW at \in Positions(t, sizes)
      PROVE  /\ at[1] \in 0 .. l.length - 1 /\ at = <<at[1]>>
             /\ Held(memory', k, base).contents[at] =
                  IF at[1] < Len(l.text) THEN l.text[at[1] + 1] ELSE Unknown
  <2> DEFINE w == type_byte_size(ElementType(t, at))
             o == Offset(t, sizes, at)
             i == at[1]
  <2>1. at \in [1 .. 1 -> Int] /\ Within(at, sizes)
    BY <1>2, <1>8, ArrayPositions
  <2>2. i \in 0 .. l.length - 1 /\ at = <<i>>
    <3>1. DOMAIN sizes = {1}
      BY <1>3
    <3> QED
      BY <1>3, <1>4, <2>1, <3>1 DEF Within
  <2>3. curr_index(sizes, at) = i
    <3>1. sizes \in [1 .. 1 -> Nat]
      BY <1>3, <1>4 DEF sizes
    <3> QED
      BY <2>1, <3>1, NumberOfOne
  <2>4. w = 1 /\ o = i + 4
    <3>1. type_byte_size("character") = 1
      BY DEF type_byte_size
    <3>2. /\ ElementType(t, at) = "character"
          /\ o = curr_index(sizes, at) * type_byte_size("character") + header_size(t)
      BY <1>2, <1>8, ArrayOffset
    <3> HIDE DEF o, i
    <3> QED
      BY <1>2, <2>2, <2>3, <3>1, <3>2
  <2>5. Held(memory', k, base).contents[at] = Read(memory', base + o, w)
    <3>1. ContentsAt(memory', t, sizes, bytes, base, at)
      BY HeldContents
    <3> QED
      BY <3>1 DEF ContentsAt, t
  <2>6. base + o = base + 4 + i
    BY <1>7, <2>2, <2>4
  <2> HIDE DEF w, o, i, k
  <2>9. Bytes(base + o, 1) \subseteq DOMAIN memory'
    <3>1. base + 4 + i \in Bytes(base, bytes)
      BY <1>2, <1>4, <1>7, <2>2 DEF Bytes
    <3>2. Bytes(base, bytes) \subseteq DOMAIN memory /\ DOMAIN memory' = DOMAIN memory
      BY <1>1, LaidNew DEF Made, Makes
    <3> QED
      BY <1>7, <2>6, <3>1, <3>2 DEF Bytes
  <2>7. CASE i < Len(l.text)
    <3>1. memory'[base + o] = <<l.text[i + 1], 0>>
      BY <1>5, <2>2, <2>6, <2>7
    <3>2. Read(memory', base + o, 1) = l.text[i + 1]
      BY <1>7, <2>2, <2>4, <2>9, <3>1 DEF Read
    <3> QED
      BY <2>2, <2>4, <2>5, <2>7, <3>2 DEF i
  <2>8. CASE ~(i < Len(l.text))
    <3>1. memory'[base + o] = <<Unknown, 0>>
      BY <1>5, <2>2, <2>6, <2>8
    <3> HIDE DEF Unknown
    <3>2. Read(memory', base + o, 1) = Unknown
      BY <1>7, <2>2, <2>4, <3>1 DEF Read
    <3> QED
      BY <2>2, <2>4, <2>5, <2>8, <3>2 DEF i
  <2> QED
    BY <2>7, <2>8
<1>10. ASSUME NEW at \in Positions(t, sizes)
       PROVE  Held(memory', k, base).contents[at] \in Contents
  <2> HIDE DEF k
  <2>1. CASE at[1] < Len(l.text)
    <3>1. at[1] + 1 \in DOMAIN l.text
      BY <1>4, <1>9, <2>1
    <3>2. l.text[at[1] + 1] \in Range(l.text)
      BY <3>1 DEF Range
    <3> QED
      BY <1>9, <2>1, <3>2 DEF Contents
  <2>2. CASE ~(at[1] < Len(l.text))
    BY <1>9, <2>2 DEF Contents
  <2> QED
    BY <2>1, <2>2
<1>11. ASSUME NEW at \in DOMAIN chars
       PROVE  Held(memory', k, base).contents[at] = chars[at]
  <2> HIDE DEF k
  <2>1. PICK i \in DOMAIN l.text : at = <<i - 1>>
    OBVIOUS
  <2>5. chars[at] = l.text[at[1] + 1]
    OBVIOUS
  <2> HIDE DEF chars
  <2>2. i \in 1 .. Len(l.text) /\ i \in Int /\ at[1] = i - 1
    <3>1. DOMAIN l.text = 1 .. Len(l.text)
      BY <1>4
    <3>2. at[1] = i - 1
      BY <2>1
    <3> QED
      BY <1>4, <3>1, <3>2
  <2>3. at \in Positions(t, sizes)
    <3>1. at \in [1 .. 1 -> Int]
      BY <2>1, <2>2
    <3>2. Within(at, sizes)
      <4>1. DOMAIN sizes = {1}
        BY DEF sizes
      <4>2. 0 <= at[1] /\ at[1] < l.length
        BY <1>4, <2>2
      <4> QED
        BY <1>3, <4>1, <4>2 DEF Within
    <3>3. Positions(t, sizes) = {a \in [1 .. Dimensions(t) -> Int] : Within(a, sizes)}
      BY <1>2, <1>8, ArrayPositions
    <3> QED
      BY <1>2, <3>1, <3>2, <3>3
  <2>4. at[1] < Len(l.text)
    BY <1>4, <2>2
  <2> QED
    BY <1>9, <2>3, <2>4, <2>5
<1>12. Language!IsNew(Objs'[pointer'[x]], x, <<l.length>>, chars)
  <2> HIDE DEF chars
  <2>1. Language!IsNew(Held(memory', k, base), x, sizes, chars)
    BY <1>10, <1>11, HeldNew DEF t
  <2> QED
    BY <1>3, <1>6, <2>1
<1> QED
  BY <1>6, <1>12 DEF Language!String, Objs

\* A release ends the object for all the variables that have it.
LEMMA ReleaseObject ==
    ASSUME Laid, Intact, NEW x \in Variables, Release(x)
    PROVE  Language!Release(x)
<1> DEFINE p == pointer[x]
<1>1. /\ p \in DOMAIN blocks /\ DOMAIN blocks' = DOMAIN blocks \ {p}
  BY LaidRelease
<1>2. \A b \in DOMAIN blocks' : Held(memory', blocks'[b], b) = Held(memory, blocks[b], b)
  BY IntactRelease
<1>3. Objs' = [b \in DOMAIN blocks' |-> Held(memory', blocks'[b], b)]
  BY DEF Objs
<1>4. /\ p # NULL /\ UNCHANGED <<access, wild>>
      /\ pointer' = [y \in Variables |-> IF pointer[y] = p THEN NULL ELSE pointer[y]]
  BY DEF Release, Refers
<1> HIDE DEF p
<1>5. DOMAIN Objs = DOMAIN blocks /\ \A b \in DOMAIN blocks : Objs[b] = Held(memory, blocks[b], b)
  BY DEF Objs
<1>6. Objs' = [b \in DOMAIN Objs \ {p} |-> Objs[b]]
  BY <1>1, <1>2, <1>3, <1>5
<1>7. Objs' = Restrict(Objs, DOMAIN Objs \ {p})
  BY <1>6 DEF Restrict
<1> QED
  BY <1>4, <1>7 DEF Language!Release, Language!Refers, Objs, NULL, p, Restrict, Language!Restrict

\* A copy makes the two variables refer to the same object.
LEMMA CopyObject ==
    ASSUME Laid, NEW x \in Variables, NEW y \in Variables, Copy(x, y)
    PROVE  Language!Copy(x, y)
<1>1. Objs' = Objs
  BY DEF Copy, Objs
<1> QED
  BY <1>1 DEF Copy, Language!Copy, Objs

\* The object x refers to.
LEMMA AccessedObject ==
    ASSUME Laid, NEW x \in Variables, Refers(x)
    PROVE  LET k == blocks[pointer[x]]
           IN  /\ Language!Refers(x) /\ Language!Object(x) = Held(memory, k, pointer[x])
               /\ Objs[pointer[x]] = Held(memory, k, pointer[x])
               /\ DOMAIN Language!Object(x).contents = Positions(Type[x], k.sizes)
               /\ Language!Object(x).sizes = k.sizes
<1> DEFINE k == blocks[pointer[x]]
<1>1. pointer[x] \in DOMAIN blocks /\ k.type = Type[x]
  BY Accessed
<1>2. Language!Object(x) = Held(memory, k, pointer[x]) /\ Objs[pointer[x]] = Held(memory, k, pointer[x])
  BY <1>1 DEF Language!Object, Objs
<1>3. Language!Refers(x)
  BY DEF Refers, Language!Refers, NULL
<1> HIDE DEF k
<1>4. /\ DOMAIN Held(memory, k, pointer[x]).contents = Positions(Type[x], k.sizes)
      /\ Held(memory, k, pointer[x]).sizes = k.sizes
  BY <1>1 DEF Held
<1> QED
  BY <1>2, <1>3, <1>4 DEF k

\* A check fails where the object has no element.
LEMMA OutOfBoundsObject ==
    ASSUME Laid, Intact, MaxSelectors < 2, NEW x \in Variables, NEW path \in Paths(x),
           Refers(x), ~Place(x, path).ok,
           access'.at = Last(path), access'.reported = ~Place(x, path).ok
    PROVE  Language!OutOfBounds(x)
<1>1. Last(path) \notin Positions(Type[x], blocks[pointer[x]].sizes)
  BY AccessPlace
<1>2. /\ Language!Refers(x)
      /\ DOMAIN Language!Object(x).contents = Positions(Type[x], blocks[pointer[x]].sizes)
  BY AccessedObject
<1> QED
  BY <1>1, <1>2 DEF Language!OutOfBounds

\* A load finds what the element holds, or reports that there is none.
LEMMA LoadObject ==
    ASSUME Laid, Intact, MaxSelectors < 2, NEW x \in Variables, NEW path \in Paths(x),
           Load(x, path)
    PROVE  Language!Load(x) \/ Language!LoadOutOfBounds(x)
<1> DEFINE p == pointer[x]
           k == blocks[p]
           t == Type[x]
           at == Last(path)
           place == Place(x, path)
<1>1. Refers(x) /\ UNCHANGED <<memory, pointer, blocks, wild>>
  BY DEF Load
<1>2. access'.at = at /\ access'.reported = ~place.ok
  BY DEF Load
<1>3. Objs' = Objs
  BY <1>1 DEF Objs
<1>4. CASE ~place.ok
  <2>1. Language!OutOfBounds(x)
    BY <1>1, <1>2, <1>4, OutOfBoundsObject
  <2> QED
    BY <1>1, <1>3, <2>1 DEF Language!LoadOutOfBounds, Objs
<1>5. CASE place.ok
  <2>1. /\ at \in Positions(t, k.sizes) /\ place.offset = Offset(t, k.sizes, at)
        /\ place.type = ElementType(t, at) /\ place.computed
    BY <1>1, <1>5, AccessPlace
  <2>2. /\ Language!Refers(x) /\ Language!Object(x) = Held(memory, k, p)
        /\ DOMAIN Language!Object(x).contents = Positions(t, k.sizes)
    BY <1>1, AccessedObject
  <2>3. k.type = t
    BY <1>1, Accessed
  <2>4. access'.value = Read(memory, p + place.offset, type_byte_size(place.type))
    BY <2>1 DEF Load, Address
  <2> HIDE DEF p, k, t, at, place
  <2>5. Held(memory, k, p).contents[at] =
          Read(memory, p + Offset(t, k.sizes, at), type_byte_size(ElementType(t, at)))
    BY <2>1, <2>3 DEF Held
  <2>6. access'.value = Language!Object(x).contents[at]
    BY <2>1, <2>2, <2>4, <2>5
  <2> QED
    BY <1>1, <1>2, <1>3, <1>5, <2>1, <2>2, <2>6 DEF Language!Load, Objs
<1> QED
  BY <1>4, <1>5

\* A dimension of an object is the one it was made with.
LEMMA DimensionObject ==
    ASSUME Laid, Intact, NEW x \in Variables, NEW d \in 1 .. Dimensions(Type[x]), Dimension(x, d)
    PROVE  Language!Dimension(x)
<1> DEFINE p == pointer[x]
           k == blocks[p]
           t == Type[x]
<1>1. /\ Refers(x) /\ UNCHANGED <<memory, pointer, blocks, wild>> /\ access'.reported = FALSE
      /\ access'.at = <<d>> /\ access'.value = Read(memory, p + 4 * (d - 1), 4)
  BY DEF Dimension
<1>2. /\ Language!Refers(x) /\ Language!Object(x).sizes = k.sizes
  BY <1>1, AccessedObject
<1>3. p \in DOMAIN blocks /\ k.type = t /\ IsBlock(k)
  BY <1>1, Accessed
<1>4. Stored(memory, k, p)
  BY <1>3 DEF Intact
<1>5. Read(memory, p + 4 * (d - 1), 4) = k.sizes[d] /\ d \in DOMAIN k.sizes
  BY <1>3, <1>4 DEF Stored
<1> HIDE DEF p, k, t
<1>6. access'.at = <<d>> /\ access'.value = Language!Object(x).sizes[d]
      /\ d \in DOMAIN Language!Object(x).sizes
  BY <1>1, <1>2, <1>5
<1>7. Objs' = Objs
  BY <1>1 DEF Objs
<1> QED
  BY <1>1, <1>2, <1>6, <1>7 DEF Language!Dimension, Objs

\* A store changes the contents of the element and nothing else of its object.
LEMMA StoreHeld ==
    ASSUME Laid, Intact, MaxSelectors < 2, NEW x \in Variables, NEW path \in Paths(x), NEW v,
           Store(x, path, v), ~wild'
    PROVE  LET p == pointer[x]
               k == blocks[p]
               h == Held(memory, k, p)
           IN  Held(memory', k, p) =
                 [h EXCEPT !.contents = [h.contents EXCEPT ![Last(path)] = v]]
<1> DEFINE p == pointer[x]
           k == blocks[p]
           t == Type[x]
           sizes == k.sizes
           at == Last(path)
           W(e) == type_byte_size(ElementType(t, e))
           O(e) == Offset(t, sizes, e)
           P == Positions(t, sizes)
           h == Held(memory, k, p)
           h2 == Held(memory', k, p)
<1>1. /\ at \in P /\ O(at) \in Nat /\ W(at) \in Nat \ {0}
      /\ memory' = Write(memory, p + O(at), W(at), v)
      /\ \A a \in DOMAIN memory \ Bytes(p + O(at), W(at)) : memory'[a] = memory[a]
      /\ Bytes(p + O(at), W(at)) \subseteq Bytes(p, k.bytes)
  BY StoreMemory
<1>2. Refers(x)
  BY DEF Store
<1>3. p \in Int /\ k.type = t /\ IsBlock(k) /\ t \in DOMAIN Definitions
      /\ Bytes(p, k.bytes) \subseteq DOMAIN memory
  BY <1>2, Accessed
<1>4. sizes \in SizesFor(t) /\ k.bytes = total_bytes(t, sizes) /\ k.bytes \in Nat
  BY <1>3, BlockFacts DEF IsBlock
<1>5. /\ h = [type |-> t, sizes |-> sizes, contents |-> [e \in P |-> Read(memory, p + O(e), W(e))]]
      /\ h2 = [type |-> t, sizes |-> sizes, contents |-> [e \in P |-> Read(memory', p + O(e), W(e))]]
  BY <1>3 DEF Held
<1>6. Read(memory', p + O(at), W(at)) = v
  <2> DEFINE a == p + O(at)
             w == W(at)
  <2>1. a \in Int /\ w \in Nat \ {0} /\ Bytes(a, w) \subseteq DOMAIN memory
        /\ memory' = Write(memory, a, w, v)
    BY <1>1, <1>3
  <2> HIDE DEF a, w
  <2>2. Read(memory', a, w) = v
    BY <2>1, ReadWritten
  <2> QED
    BY <2>2 DEF a, w
<1>10. DOMAIN memory' = DOMAIN memory
  BY StoreMemory
<1>7. ASSUME NEW e \in P, e # at
      PROVE  Read(memory', p + O(e), W(e)) = Read(memory, p + O(e), W(e))
  <2> DEFINE a == p + O(e)
             w == W(e)
             b == p + O(at)
             u == W(at)
  <2>1. w \in {1, 4, 8} /\ O(e) \in Nat /\ O(e) + w <= k.bytes
    BY <1>3, <1>4, <1>7, Placed
  <2>2. O(at) + W(at) <= O(e) \/ O(e) + W(e) <= O(at)
    BY <1>1, <1>3, <1>4, <1>7, Apart
  <2>3. /\ b + u <= a \/ a + w <= b
        /\ a \in Int /\ w \in Nat \ {0} /\ b \in Int /\ u \in Nat
        /\ p <= a /\ a + w <= p + k.bytes
    <3> HIDE DEF O, W, p, k
    <3> QED
      BY <1>1, <1>3, <1>4, <2>1, <2>2 DEF w, u
  <2>4. \A c \in DOMAIN memory \ Bytes(b, u) : memory'[c] = memory[c]
    BY <1>1
  <2>5. k.bytes \in Nat /\ p \in Int /\ Bytes(p, k.bytes) \subseteq DOMAIN memory
    BY <1>3, <1>4
  <2> HIDE DEF a, w, b, u, p, k
  <2>6. \A c \in Bytes(a, w) : c \in Bytes(p, k.bytes) /\ c \notin Bytes(b, u)
    BY <2>3, <2>5 DEF Bytes
  <2>7. \A c \in Bytes(a, w) : memory'[c] = memory[c]
    BY <2>4, <2>5, <2>6
  <2>8. Read(memory', a, w) = Read(memory, a, w)
    BY <1>10, <2>3, <2>7, ReadSame
  <2> QED
    BY <2>8 DEF a, w
<1> DEFINE R(e) == Read(memory, p + O(e), W(e))
           R2(e) == Read(memory', p + O(e), W(e))
<1>8. \A e \in P : R2(e) = IF e = at THEN v ELSE R(e)
  BY <1>6, <1>7
<1>9. /\ h = [type |-> t, sizes |-> sizes, contents |-> [e \in P |-> R(e)]]
      /\ h2 = [type |-> t, sizes |-> sizes, contents |-> [e \in P |-> R2(e)]]
  BY <1>5
<1> HIDE DEF R, R2, P, t, sizes, at, h, h2
<1>11. [e \in P |-> R2(e)] = [[e \in P |-> R(e)] EXCEPT ![at] = v]
  BY <1>8
<1>12. h2 = [h EXCEPT !.contents = [h.contents EXCEPT ![at] = v]]
  BY <1>9, <1>11
<1> QED
  BY <1>12 DEF h, h2, at

\* So it is a store of the language.
LEMMA StoreObject ==
    ASSUME Laid, Intact, MaxSelectors < 2, NEW x \in Variables, NEW path \in Paths(x),
           NEW v \in Values, Store(x, path, v), ~wild'
    PROVE  Language!Store(x)
<1> DEFINE p == pointer[x]
           k == blocks[p]
           at == Last(path)
           h == Held(memory, k, p)
<1>1. /\ Refers(x) /\ UNCHANGED <<pointer, blocks>> /\ wild' = wild
      /\ access'.at = at /\ access'.value = v /\ access'.reported = FALSE /\ Place(x, path).ok
  <2>1. Refers(x) /\ Place(x, path).computed
    BY DEF Store, Laid
  <2>2. Place(x, path).ok
    BY <2>1, AccessPlace
  <2> QED
    BY <2>1, <2>2 DEF Store, Laid
<1>2. at \in Positions(Type[x], k.sizes)
  BY <1>1, AccessPlace
<1>3. /\ Language!Refers(x) /\ Objs[p] = h
      /\ DOMAIN Language!Object(x).contents = Positions(Type[x], k.sizes)
  BY <1>1, AccessedObject
<1>4. Held(memory', k, p) = [h EXCEPT !.contents = [h.contents EXCEPT ![at] = v]]
  BY StoreHeld
<1>5. \A b \in DOMAIN blocks \ {p} : Held(memory', blocks[b], b) = Held(memory, blocks[b], b)
  BY IntactStore
<1>6. p \in DOMAIN blocks
  BY <1>1, Accessed
<1>7. Objs' = [Objs EXCEPT ![p] = [h EXCEPT !.contents = [h.contents EXCEPT ![at] = v]]]
  <2>1. Objs' = [b \in DOMAIN blocks |-> Held(memory', blocks[b], b)]
    BY <1>1 DEF Objs
  <2> HIDE DEF p, h, at
  <2>2. Objs = [b \in DOMAIN blocks |-> Held(memory, blocks[b], b)]
    BY DEF Objs
  <2> QED
    BY <1>4, <1>5, <1>6, <2>1, <2>2
<1>8. v \in Contents
  BY DEF Contents
<1> HIDE DEF p, h, at
<1>9. Objs' = [Objs EXCEPT ![p].contents[at] = v]
  BY <1>3, <1>7
<1> QED
  BY <1>1, <1>2, <1>3, <1>8, <1>9 DEF Language!Store, Objs, p

\* A store behind a failed check is a wild store of the language.
LEMMA StoreWild ==
    ASSUME Laid, Intact, MaxSelectors < 2, NEW x \in Variables, NEW path \in Paths(x),
           NEW v \in Values, Store(x, path, v), wild'
    PROVE  Language!StoreOutOfBounds(x)
<1>1. Refers(x) /\ access'.at = Last(path) /\ access'.reported = ~Place(x, path).ok
  BY DEF Store
<1>2. ~Place(x, path).ok
  BY <1>1, AccessPlace DEF Store, Laid
<1> QED
  BY <1>1, <1>2, OutOfBoundsObject DEF Language!StoreOutOfBounds

\* Every step of the heap is a step of the language.
LEMMA StepsOfObjects ==
    ASSUME MaxSelectors < 2
    PROVE  (Shape /\ (wild \/ (Laid /\ Intact))) /\ [Next]_vars => [Language!Next]_(Language!vars)
<1> SUFFICES ASSUME Shape, wild \/ (Laid /\ Intact), [Next]_vars
             PROVE  [Language!Next]_(Language!vars)
  OBVIOUS
<1>10. CASE wild
  BY <1>10, ShapeNext DEF Language!Next, Language!Wild
<1> SUFFICES ASSUME Laid, Intact PROVE [Language!Next]_(Language!vars)
  BY <1>10
<1>1. CASE UNCHANGED vars
  <2>1. Objs' = Objs
    BY <1>1 DEF vars, Objs
  <2> QED
    BY <1>1, <2>1 DEF vars, Language!vars, Objs
<1>2. ASSUME NEW x \in Variables, NEW sizes \in SizesOf(Type[x]), Reserve(x, sizes)
      PROVE  Language!Next
  BY <1>2, ReserveObject DEF Language!Next
<1>3. ASSUME NEW x \in Variables, NEW l \in Literals, String(x, l) PROVE Language!Next
  BY <1>3, StringObject DEF Language!Next
<1>4. ASSUME NEW x \in Variables, Release(x) PROVE Language!Next
  BY <1>4, ReleaseObject DEF Language!Next
<1>5. ASSUME NEW x \in Variables, NEW y \in Variables, Copy(x, y) PROVE Language!Next
  BY <1>5, CopyObject DEF Language!Next
<1>7. ASSUME NEW x \in Variables, NEW path \in Paths(x), Load(x, path) PROVE Language!Next
  BY <1>7, LoadObject DEF Language!Next
<1>8. ASSUME NEW x \in Variables, NEW path \in Paths(x), NEW v \in Values, Store(x, path, v)
      PROVE  Language!Next
  BY <1>8, StoreObject, StoreWild DEF Language!Next
<1>9. ASSUME NEW x \in Variables, NEW d \in 1 .. Dimensions(Type[x]), Dimension(x, d)
      PROVE  Language!Next
  BY <1>9, DimensionObject DEF Language!Next
<1> QED
  BY <1>1, <1>2, <1>3, <1>4, <1>5, <1>7, <1>8, <1>9 DEF Next

\* For every set of types and literals and a heap of any length: as long as an
\* access has one selector, the bytes and the computed addresses implement the
\* objects of the language.  Until a store is made behind a failed check, a store
\* changes the element it names and no other and a load finds what was stored
\* there last; a check fails where there is no element and nowhere else.
THEOREM ImplementsObjectsAlways ==
    ASSUME MaxSelectors < 2
    PROVE  Spec => ImplementsObjects
<1>1. (Shape /\ (wild \/ (Laid /\ Intact))) /\ [Next]_vars => [Language!Next]_(Language!vars)
  BY StepsOfObjects
<1> QED
  BY <1>1, ObjectsInit, IntactAlways, PTL DEF Spec, ImplementsObjects, Language!Spec

=============================================================================
