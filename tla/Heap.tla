-------------------------------- MODULE Heap --------------------------------
(***************************************************************************)
(* Arrays, records and strings at run time: the memory the emitted code    *)
(* reserves and the addresses it computes for an access.  grammar.y lays   *)
(* an array out as a header of 4 bytes per dimension, padded so that wide  *)
(* elements are aligned, and the elements row by row; a record as 8 bytes  *)
(* per field.  The bounds checks and the dimensions of an array are read   *)
(* back from its header, so they are as good as what is in memory.         *)
(*                                                                         *)
(* A check that fails calls .crash, which reports it and returns: control  *)
(* falls into the access it guards (grammar.y:875-878), which finds in the *)
(* temporary for its offset what happens to be there.  A load then goes on *)
(* with a value from anywhere.  A store is wild: it changes any bytes, and *)
(* the program goes on with a memory of which nothing is known any more.   *)
(*                                                                         *)
(* Memory is bytes: byte k of a value v is <<v, k>>, and a read finds v    *)
(* where all the bytes it takes are v's.                                   *)
(***************************************************************************)
EXTENDS Integers, Sequences, FiniteSets, Functions, SequencesExt, FiniteSetsExt

CONSTANTS
    Variables,   \* variables of an array or record type
    Type,        \* the type each has
    Definitions, \* array types: dimensions and type, record types: fields
    Values,      \* what is stored in elements
    Sizes,       \* sizes of a dimension, which indices go beyond
    Literals,    \* strings: the characters they stand for and the length of their text
    HeapSize,    \* bytes, from the first address on
    MaxBlocks,   \* bound on the blocks that are reserved at a time
    MaxSelectors,\* accesses in a row, as in a(i).f
    Stray        \* where an access may be made whose offset was not computed (anywhere)

NULL == 0
Primitive == {"integer", "character", "Boolean", "address"}

IsArray(t) == t \in DOMAIN Definitions /\ Definitions[t].kind = "array"
IsRecord(t) == t \in DOMAIN Definitions /\ Definitions[t].kind = "record"
TypeNames == Primitive \union DOMAIN Definitions

ASSUME HeapAssumption ==
    /\ Type \in [Variables -> DOMAIN Definitions]
    /\ \A t \in DOMAIN Definitions :
         \/ IsArray(t) /\ Definitions[t].dimensions \in Nat \ {0}
              /\ Definitions[t].type \in TypeNames
         \/ IsRecord(t) /\ Definitions[t].fields \in Seq(TypeNames) \ {<<>>}
    /\ Values \subseteq Nat /\ Sizes \subseteq Nat /\ HeapSize \in Nat /\ MaxBlocks \in Nat
    /\ MaxSelectors \in Nat /\ Stray \subseteq Int
    /\ \A l \in Literals : l.text \in Seq(Nat) /\ l.length \in Nat /\ l.length >= Len(l.text)

VARIABLES
    memory,  \* the bytes of the heap
    pointer, \* the address each variable holds
    access,  \* the last access: where, what was stored or found there, and
             \* whether .crash reported an index out of bounds
    blocks,  \* what was reserved where (not in the program): type, sizes, bytes
    wild     \* a store has been made behind a failed check (not in the program)

vars == <<memory, pointer, access, blocks, wild>>

\* No value: a byte that nothing was stored in, what is left when only a part
\* of a value is overwritten.
Unknown == -1

Init ==
    /\ memory = [a \in 8 .. 7 + HeapSize |-> <<Unknown, 0>>]
    /\ pointer = [x \in Variables |-> NULL]
    /\ access = [at |-> <<>>, value |-> 0, reported |-> FALSE]
    /\ blocks = << >> /\ wild = FALSE

-----------------------------------------------------------------------------
(* Memory                                                                  *)

Bytes(a, width) == a .. a + width - 1

Read(m, a, width) ==
    LET v == m[a][1]
    IN  IF Bytes(a, width) \subseteq DOMAIN m /\ \A k \in 0 .. width - 1 : m[a + k] = <<v, k>>
        THEN v ELSE Unknown

Write(m, a, width, v) ==
    [b \in DOMAIN m |-> IF b \in Bytes(a, width) THEN <<v, b - a>> ELSE m[b]]

\* What is in a block that is freed, and so in one that is reserved, is anyone's guess.
Forget(a, width) == [b \in DOMAIN memory |-> IF b \in Bytes(a, width) THEN <<Unknown, 0>>
                                                                    ELSE memory[b]]

Taken == UNION {Bytes(b, blocks[b].bytes) : b \in DOMAIN blocks}

\* reserve of the run-time library: malloc finds any room, aligned for all types.
\* Once a wild store may have hit what malloc keeps, it may be in use already.
Room(bytes) ==
    IF Cardinality(DOMAIN blocks) >= MaxBlocks THEN {}
    ELSE {a \in DOMAIN memory : /\ a % 8 = 0 /\ Bytes(a, bytes) \subseteq DOMAIN memory
                               /\ \/ wild
                                  \/ Bytes(a, bytes) \intersect Taken = {}}

-----------------------------------------------------------------------------
(* Layout                                                                  *)

type_byte_size(t) ==
    CASE t = "integer" -> 4
      [] t \in {"character", "Boolean"} -> 1
      [] OTHER -> 8

\* A mistake the invariants rule out: the elements begin where the header does.
header_size_None(t) == 0

header_size(t) ==
    LET d == Definitions[t].dimensions
    IN  4 * d + IF d % 2 = 1 /\ type_byte_size(Definitions[t].type) > 4 THEN 4 ELSE 0

\* A mistake the invariants rule out: every field takes its type's size.
record_byte_size_Packed(t) == SumFunction([n \in DOMAIN Definitions[t].fields |->
                                             type_byte_size(Definitions[t].fields[n])])

record_byte_size(t) == 8 * Len(Definitions[t].fields)

Product(sizes) ==
    LET total[n \in 0 .. Len(sizes)] == IF n = 0 THEN 1 ELSE total[n - 1] * sizes[n]
    IN  total[Len(sizes)]

\* The argument of reserve.
total_bytes(t, sizes) ==
    IF IsRecord(t) THEN record_byte_size(t)
    ELSE Product(sizes) * type_byte_size(Definitions[t].type) + header_size(t)

\* Row by row.
curr_index(sizes, at) ==
    LET index[k \in DOMAIN at] == IF k = 1 THEN at[1] ELSE index[k - 1] * sizes[k] + at[k]
    IN  index[Len(at)]

\* Where an element is from the beginning of its block: at names a field by
\* its number, an array element by its indices.
Offset(t, sizes, at) ==
    IF IsRecord(t) THEN 8 * at[1]
    ELSE curr_index(sizes, at) * type_byte_size(Definitions[t].type) + header_size(t)

ElementType(t, at) == IF IsRecord(t) THEN Definitions[t].fields[at[1] + 1]
                                     ELSE Definitions[t].type

\* The header's words, as an access reads them.
Dimensions(t) == IF IsRecord(t) THEN 0 ELSE Definitions[t].dimensions
ReadSizes(t, base) == [d \in 1 .. Dimensions(t) |-> Read(memory, base + 4 * (d - 1), 4)]

-----------------------------------------------------------------------------
(* What emitted code does                                                  *)

\* The dimensions are stored once the block is there.
Initialize(m, base, sizes) ==
    [b \in DOMAIN m |-> IF b \in Bytes(base, 4 * Len(sizes))
                        THEN <<sizes[(b - base) \div 4 + 1], (b - base) % 4>> ELSE m[b]]

NewBlock(x, base, sizes, bytes) ==
    /\ pointer' = [pointer EXCEPT ![x] = base]
    /\ blocks' = [b \in DOMAIN blocks \union {base} |->
                    IF b = base THEN [type |-> Type[x], sizes |-> sizes, bytes |-> bytes]
                    ELSE blocks[b]]

SizesOf(t) == [1 .. Dimensions(t) -> Sizes]

\* x := reserve x and x := reserve x(n, ..).
Reserve(x, sizes) ==
    LET bytes == total_bytes(Type[x], sizes)
    IN  /\ sizes \in SizesOf(Type[x])
        /\ \E base \in Room(bytes) :
             /\ NewBlock(x, base, sizes, bytes)
             /\ memory' = Initialize(memory, base, sizes)
        /\ UNCHANGED <<access, wild>>

\* x := "..." : the length of the text between the quotes, in which an escape
\* takes two characters, is reserved and recorded; the characters follow.
String(x, l) ==
    LET bytes == l.length + 4
        chars(m, base) == [b \in DOMAIN m |-> IF b \in Bytes(base + 4, Len(l.text))
                                              THEN <<l.text[b - base - 3], 0>> ELSE m[b]]
    IN  /\ IsArray(Type[x]) /\ Definitions[Type[x]].type = "character"
        /\ Dimensions(Type[x]) = 1
        /\ \E base \in Room(bytes) :
             /\ NewBlock(x, base, <<l.length>>, bytes)
             /\ memory' = chars(Initialize(memory, base, <<l.length>>), base)
        /\ UNCHANGED <<access, wild>>

\* A variable whose address is a block's.
Refers(x) == pointer[x] # NULL

\* x := release x, whose value is NULL.  What a program does with the address of
\* a released block has no meaning: other variables that have it lose it here,
\* and keep it in the code.
Release(x) ==
    /\ Refers(x)
    /\ blocks' = Restrict(blocks, DOMAIN blocks \ {pointer[x]})
    /\ pointer' = [y \in Variables |-> IF pointer[y] = pointer[x] THEN NULL ELSE pointer[y]]
    /\ memory' = Forget(pointer[x], blocks[pointer[x]].bytes)
    /\ UNCHANGED <<access, wild>>

\* A mistake the invariants rule out: the types are not compared.
Copy_AnyType(x, y) ==
    /\ pointer[x] # pointer[y]
    /\ pointer' = [pointer EXCEPT ![x] = pointer[y]]
    /\ UNCHANGED <<memory, access, blocks, wild>>

\* x := y
Copy(x, y) ==
    /\ Type[x] = Type[y] /\ pointer[x] # pointer[y]
    /\ pointer' = [pointer EXCEPT ![x] = pointer[y]]
    /\ UNCHANGED <<memory, access, blocks, wild>>

\* What may follow a variable of type t: a field, or one index per dimension,
\* in bounds or not.
Indices == Sizes \union {-1}
Selectors(t) ==
    IF IsRecord(t) THEN {<<n - 1>> : n \in DOMAIN Definitions[t].fields}
    ELSE IF IsArray(t) THEN [1 .. Dimensions(t) -> Indices] ELSE {}

\* A mistake the refinement rules out: an index may be negative.
Within_OnlyBelow(at, sizes) == \A k \in DOMAIN sizes : at[k] < sizes[k]

Within(at, sizes) == \A k \in DOMAIN sizes : 0 <= at[k] /\ at[k] < sizes[k]

\* The expression x at1 at2 ..: each selector computes its offset with the
\* header of x's own block, checks it, and replaces the offset of the one before.
\* Where its check fails the offset is not computed.
Place(x, path) ==
    LET select(p, at) ==
          LET sizes == ReadSizes(p.type, pointer[x])
              passes == Within(at, sizes)
          IN  [type |-> ElementType(p.type, at), computed |-> passes, ok |-> p.ok /\ passes,
               offset |-> IF passes THEN Offset(p.type, sizes, at) ELSE 0]
        place[n \in 0 .. Len(path)] ==
          IF n = 0 THEN [type |-> Type[x], offset |-> 0, computed |-> TRUE, ok |-> TRUE]
          ELSE select(place[n - 1], path[n])
    IN  place[Len(path)]

Paths(x) ==
    LET longer == {<<at, next>> : at \in Selectors(Type[x]), next \in
                     UNION {Selectors(ElementType(Type[x], at2)) : at2 \in Selectors(Type[x])}}
    IN  {<<at>> : at \in Selectors(Type[x])}
          \union IF MaxSelectors < 2 THEN {}
                 ELSE {p \in longer : p[2] \in Selectors(ElementType(Type[x], p[1]))}

\* The addresses an access may be made at.
Address(x, place) == IF place.computed THEN {pointer[x] + place.offset} ELSE Stray

\* x(i) := v, x.f := v
Store(x, path, v) ==
    LET place == Place(x, path)
    IN  /\ Refers(x)
        /\ \E a \in Address(x, place) :
             memory' = Write(memory, a, type_byte_size(place.type), v)
        /\ access' = [at |-> Last(path), value |-> v, reported |-> ~place.ok]
        /\ wild' = (wild \/ ~place.computed)
        /\ UNCHANGED <<pointer, blocks>>

\* y := x(i), y := x.f
Load(x, path) ==
    LET place == Place(x, path)
    IN  /\ Refers(x)
        /\ \E a \in Address(x, place) :
             access' = [at |-> Last(path), reported |-> ~place.ok,
                        value |-> Read(memory, a, type_byte_size(place.type))]
        /\ UNCHANGED <<memory, pointer, blocks, wild>>

\* y := x._d
Dimension(x, d) ==
    /\ Refers(x) /\ d \in 1 .. Dimensions(Type[x])
    /\ access' = [at |-> <<d>>, reported |-> FALSE,
                  value |-> Read(memory, pointer[x] + 4 * (d - 1), 4)]
    /\ UNCHANGED <<memory, pointer, blocks, wild>>

Next ==
    \E x \in Variables :
      \/ \E sizes \in SizesOf(Type[x]) : Reserve(x, sizes)
      \/ \E l \in Literals : String(x, l)
      \/ Release(x) \/ \E y \in Variables : Copy(x, y)
      \/ \E path \in Paths(x) :
           Load(x, path) \/ \E v \in Values : Store(x, path, v)
      \/ \E d \in 1 .. Dimensions(Type[x]) : Dimension(x, d)

Spec == Init /\ [][Next]_vars

-----------------------------------------------------------------------------
(* Properties                                                              *)

Contents == {Unknown} \union Values \union UNION {Range(l.text) : l \in Literals}

\* Types.  In particular, until a wild store, a variable has the address of a
\* block of its own type, and blocks do not overlap.
BlocksApart ==
    /\ \A x \in Variables : pointer[x] # NULL =>
         pointer[x] \in DOMAIN blocks /\ blocks[pointer[x]].type = Type[x]
    /\ Cardinality(DOMAIN blocks) <= MaxBlocks
    /\ \A b \in DOMAIN blocks :
         /\ blocks[b] \in [type : DOMAIN Definitions, bytes : Nat,
                          sizes : Seq(Sizes \union {l.length : l \in Literals})]
         /\ \A c \in DOMAIN blocks \ {b} :
              Bytes(b, blocks[b].bytes) \intersect Bytes(c, blocks[c].bytes) = {}

TypeOK ==
    /\ DOMAIN memory = 8 .. 7 + HeapSize
    /\ wild \in BOOLEAN /\ access.reported \in BOOLEAN
    /\ ~wild => BlocksApart

Positions(t, sizes) ==
    IF IsRecord(t) THEN Selectors(t)
    ELSE {at \in [DOMAIN sizes -> UNION {0 .. n - 1 : n \in Range(sizes)}] : Within(at, sizes)}

Extent(b, at) == Bytes(b + Offset(blocks[b].type, blocks[b].sizes, at),
                       type_byte_size(ElementType(blocks[b].type, at)))
Header(b) == Bytes(b, 4 * Dimensions(blocks[b].type))

\* Every element has bytes of its own, in its block and behind the header, for
\* elements of every width, fields of a record included, and lies where its
\* type is aligned.  Until a wild store, which may hit what malloc keeps.
ElementsApart ==
    ~wild => \A b \in DOMAIN blocks :
      LET t == blocks[b].type
          elements == Positions(t, blocks[b].sizes)
      IN  \A at \in elements :
            /\ Extent(b, at) \subseteq Bytes(b, blocks[b].bytes) \ Header(b)
            /\ Offset(t, blocks[b].sizes, at) % type_byte_size(ElementType(t, at)) = 0
            /\ \A other \in elements \ {at} : Extent(b, at) \intersect Extent(b, other) = {}

\* The sizes an array was reserved with stay in its header, whatever is stored in
\* elements and until a store is made behind a failed check: the bounds checks
\* go by them.
HeadersKept ==
    ~wild => \A b \in DOMAIN blocks :
      ReadSizes(blocks[b].type, b) =
        [d \in 1 .. Dimensions(blocks[b].type) |-> blocks[b].sizes[d]]

\* The memory implements the objects of the language: what a block holds is
\* read from its bytes, at the offsets of its elements.
Held(m, block, b) ==
    [type |-> block.type, sizes |-> block.sizes,
     contents |-> [at \in Positions(block.type, block.sizes) |->
                     Read(m, b + Offset(block.type, block.sizes, at),
                          type_byte_size(ElementType(block.type, at)))]]

Language == INSTANCE Objects WITH
    Shapes <- SizesOf,
    objects <- [b \in DOMAIN blocks |-> Held(memory, blocks[b], b)]

\* Until a store is made behind a failed check: a store changes the element it
\* names and no other, of any object; a load finds what was stored there last; a
\* dimension is the one reserved; and a check fails, and is reported, where there
\* is no element, and nowhere else.
ImplementsObjects == Language!Spec
=============================================================================
