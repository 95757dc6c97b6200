--------------------------- MODULE Leaders_proofs ---------------------------
(***************************************************************************)
(* find_leaders is right for a program of any length: the array it counts  *)
(* for is filled exactly, its lines begin the basic blocks, and nothing    *)
(* else flushes the registers.                                             *)
(*                                                                         *)
(* The argument: the count is the number of marks (Counted), the second    *)
(* loop has copied the marks below i, in order, into the first j cells     *)
(* (Copied), and a line is marked exactly when control may arrive there    *)
(* from a transfer the first loop has seen (Covered, Justified).           *)
(***************************************************************************)
EXTENDS Leaders, FiniteSetTheorems, TLAPS

Marked   == {l \in Lines : longList[l] = 1}
Below(k) == {l \in Marked : l < k}

Typed ==
    /\ IR \in [Lines -> Instructions]
    /\ longList \in [Lines -> {0, 1}]
    /\ i \in 0 .. nextinstr
    /\ pc \in {"mark", "collect", "done"}
    /\ pc = "done" => i = nextinstr
    /\ pc = "mark" => j = 0 /\ Leaders = [l \in {} |-> -2]

Counted == numberOfLeaders = Cardinality(Marked)

Copied ==
    pc # "mark" =>
      /\ Leaders \in [0 .. numberOfLeaders - 1 -> Lines \union {-2}]
      /\ j = Cardinality(Below(i))
      /\ \A k \in 0 .. j - 1 : Leaders[k] \in Below(i)
      /\ \A l \in Below(i) : \E k \in 0 .. j - 1 : Leaders[k] = l
      /\ \A k, m \in 0 .. j - 1 : k < m => Leaders[k] < Leaders[m]

Covered ==
    \A k \in Transfers : pc # "mark" \/ k < i => Successors(k) \intersect Lines \subseteq Marked

Justified ==
    \A l \in Marked \ {0} : l - 1 \in Transfers \/ \E t \in Transfers : IR[t].jumpTarget = l

InOrder == Typed /\ Counted /\ Copied /\ Covered /\ Justified

-----------------------------------------------------------------------------
(* Counting                                                                *)

\* The sets that are counted are finite, and none is larger than the program.
LEMMA MarksFinite ==
    /\ IsFiniteSet(Marked) /\ Cardinality(Marked) \in 0 .. nextinstr
    /\ \A k \in Nat : /\ IsFiniteSet(Below(k))
                      /\ Cardinality(Below(k)) \in 0 .. Cardinality(Marked)
<1>1. IsFiniteSet(Lines) /\ Cardinality(Lines) = nextinstr
  BY FS_Interval, SizeAssumption DEF Lines
<1>2. Marked \in SUBSET Lines
  BY DEF Marked
<1>3. IsFiniteSet(Marked) /\ Cardinality(Marked) <= nextinstr
  BY <1>1, <1>2, FS_Subset
<1>4. Cardinality(Marked) \in Nat
  BY <1>3, FS_CardinalityType
<1>5. ASSUME NEW k \in Nat
      PROVE  IsFiniteSet(Below(k)) /\ Cardinality(Below(k)) \in 0 .. Cardinality(Marked)
  <2>1. Below(k) \in SUBSET Marked
    BY DEF Below
  <2>2. IsFiniteSet(Below(k)) /\ Cardinality(Below(k)) <= Cardinality(Marked)
    BY <1>3, <2>1, FS_Subset
  <2> QED
    BY <1>4, <2>2, FS_CardinalityType
<1> QED
  BY <1>3, <1>4, <1>5, SizeAssumption

\* Before the second loop nothing has been copied, after it everything.
LEMMA BelowEnds == Below(0) = {} /\ Below(nextinstr) = Marked
BY SizeAssumption DEF Below, Marked, Lines

\* The next mark the second loop meets is one more than those before it.
LEMMA BelowNext ==
    ASSUME NEW k \in Lines
    PROVE  /\ longList[k] = 1 =>
                /\ Below(k + 1) = Below(k) \union {k}
                /\ Cardinality(Below(k + 1)) = Cardinality(Below(k)) + 1
           /\ longList[k] # 1 => Below(k + 1) = Below(k)
<1>1. longList[k] = 1 => Below(k + 1) = Below(k) \union {k}
  BY SizeAssumption DEF Below, Marked, Lines
<1>2. longList[k] # 1 => Below(k + 1) = Below(k)
  BY SizeAssumption DEF Below, Marked, Lines
<1>3. k \in Nat /\ k \notin Below(k)
  BY SizeAssumption DEF Below, Lines
<1>4. IsFiniteSet(Below(k))
  BY <1>3, MarksFinite
<1> QED
  BY <1>1, <1>2, <1>3, <1>4, FS_AddElement

\* Marking lines that were not marked adds their number to the count.
LEMMA CountNew ==
    ASSUME Counted, NEW news \in SUBSET Lines, \A l \in news : longList[l] # 1,
           Marked' = Marked \union news,
           numberOfLeaders' = numberOfLeaders + Cardinality(news)
    PROVE  Counted'
<1>1. IsFiniteSet(Lines)
  BY FS_Interval, SizeAssumption DEF Lines
<1>2. IsFiniteSet(news)
  BY <1>1, FS_Subset
<1>3. Cardinality(news) \in Nat /\ Cardinality(Marked) \in Nat
  BY <1>2, FS_CardinalityType, MarksFinite
<1>4. Marked \intersect news = {}
  BY DEF Marked
<1>5. Cardinality(Marked \intersect news) = 0
  BY <1>4, FS_EmptySet
<1>6. Cardinality(Marked \union news) =
        Cardinality(Marked) + Cardinality(news) - Cardinality(Marked \intersect news)
  BY <1>2, MarksFinite, FS_Union
<1>7. Cardinality(Marked \union news) = Cardinality(Marked) + Cardinality(news)
  BY <1>3, <1>5, <1>6
<1> QED
  BY <1>7 DEF Counted

-----------------------------------------------------------------------------
(* The steps                                                               *)

\* Nothing is marked at first.
LEMMA InOrderFirst == Init => InOrder
<1> SUFFICES ASSUME Init PROVE InOrder
  OBVIOUS
<1>1. Marked = {}
  BY DEF Init, Marked
<1>2. Typed
  BY SizeAssumption DEF Init, Typed
<1>3. Counted
  BY <1>1, FS_EmptySet DEF Init, Counted
<1>4. Copied
  BY DEF Init, Copied
<1>5. Covered
  BY DEF Init, Covered, Transfers, Lines
<1>6. Justified
  BY <1>1 DEF Justified
<1> QED
  BY <1>2, <1>3, <1>4, <1>5, <1>6 DEF InOrder

\* Where control goes from a transfer is marked, and counted once.
LEMMA MarkKeeps ==
    ASSUME InOrder, NEW outside \in Neighbours, Mark(outside)
    PROVE  InOrder'
<1> DEFINE news == IF i \in Transfers THEN {t \in Successors(i) : Marks(t, outside)} ELSE {}
<1>1. news \in SUBSET Lines /\ \A l \in news : longList[l] # 1
  <2>1. ASSUME i \in Transfers
        PROVE  IR[i].jumpTarget \in Int /\ i + 1 \in Int
    <3>1. i \in Lines /\ IR[i] \in Instructions
      BY <2>1 DEF InOrder, Typed, Transfers
    <3> QED
      BY <3>1, SizeAssumption DEF Instructions, Lines
  <2>2. \A t \in Int : Marks(t, outside) => t \in Lines /\ longList[t] # 1
    BY SizeAssumption DEF Marks, Lines
  <2> QED
    BY <2>1, <2>2 DEF Successors
<1>2. /\ pc = "mark" /\ i < nextinstr /\ i' = i + 1
      /\ longList' = [l \in Lines |-> IF l \in news THEN 1 ELSE longList[l]]
      /\ numberOfLeaders' = numberOfLeaders + Cardinality(news)
      /\ UNCHANGED <<IR, Leaders, j, pc>>
  BY DEF Mark, Step
<1>3. Typed'
  BY <1>2, SizeAssumption DEF InOrder, Typed
<1>4. Marked' = Marked \union news
  BY <1>1, <1>2 DEF Marked, InOrder, Typed
<1>5. Counted'
  BY <1>1, <1>2, <1>4, CountNew DEF InOrder
<1>6. Copied'
  BY <1>2 DEF Copied
<1>7. Covered'
  <2> SUFFICES ASSUME NEW k \in Transfers, k < i + 1, NEW t \in Successors(k) \intersect Lines
               PROVE  t \in Marked \union news
    BY <1>2, <1>4 DEF Covered, Transfers, Successors
  <2>1. CASE k < i
    BY <1>2, <2>1 DEF InOrder, Covered
  <2>2. CASE k = i
    <3>1. t \in Lines /\ t \in Successors(i) /\ i \in Transfers
      BY <2>2
    <3>2. longList[t] # 1 => Marks(t, outside)
      BY <3>1, SizeAssumption DEF Marks, Lines
    <3>3. longList[t] = 1 => t \in Marked
      BY <3>1 DEF Marked
    <3> QED
      BY <3>1, <3>2, <3>3
  <2>3. k \in Int /\ i \in Int
    BY SizeAssumption DEF Transfers, Lines, InOrder, Typed
  <2> QED
    BY <2>1, <2>2, <2>3
<1>8. Justified'
  <2>1. ASSUME NEW l \in news
        PROVE  l - 1 \in Transfers \/ \E t \in Transfers : IR[t].jumpTarget = l
    <3>1. i \in Transfers /\ l \in {IR[i].jumpTarget, i + 1}
      BY DEF Successors
    <3>2. i \in Int
      BY SizeAssumption DEF InOrder, Typed
    <3> QED
      BY <3>1, <3>2
  <2>2. Transfers' = Transfers /\ IR' = IR
    BY <1>2 DEF Transfers
  <2> QED
    BY <1>4, <2>1, <2>2 DEF InOrder, Justified
<1> QED
  BY <1>3, <1>5, <1>6, <1>7, <1>8 DEF InOrder

\* The first line is marked if it is not, and the array is allocated.
LEMMA MarkFirstKeeps ==
    ASSUME InOrder, MarkFirst
    PROVE  InOrder'
<1> DEFINE news == IF longList[0] # 1 THEN {0} ELSE {}
<1>1. 0 \in Lines /\ news \in SUBSET Lines /\ \A l \in news : longList[l] # 1
  BY SizeAssumption DEF Lines
<1>2. /\ pc = "mark" /\ i = nextinstr /\ i' = 0 /\ pc' = "collect" /\ IR' = IR /\ j' = j
      /\ longList' = [longList EXCEPT ![0] = 1]
      /\ numberOfLeaders' = IF longList[0] # 1 THEN numberOfLeaders + 1 ELSE numberOfLeaders
      /\ Leaders' = [l \in 0 .. numberOfLeaders' - 1 |-> -2]
  BY DEF MarkFirst
<1>3. Typed'
  BY <1>1, <1>2, SizeAssumption DEF InOrder, Typed
<1>4. Marked' = Marked \union news
  BY <1>1, <1>2 DEF Marked, InOrder, Typed
<1>5. Counted'
  <2>1. Cardinality(news) = IF longList[0] # 1 THEN 1 ELSE 0
    BY FS_EmptySet, FS_Singleton
  <2>2. numberOfLeaders \in Nat
    BY MarksFinite DEF InOrder, Counted
  <2>3. numberOfLeaders' = numberOfLeaders + Cardinality(news)
    BY <1>2, <2>1, <2>2
  <2> QED
    BY <1>1, <1>4, <2>3, CountNew DEF InOrder
<1>6. Copied'
  <2>1. Below(0)' = {}
    BY <1>3 DEF Below, Marked, Lines
  <2>2. j' = 0 /\ Cardinality(Below(0)') = 0
    BY <1>2, <2>1, FS_EmptySet DEF InOrder, Typed
  <2>3. Leaders' \in [0 .. numberOfLeaders' - 1 -> Lines \union {-2}]
    BY <1>2
  <2> QED
    BY <1>2, <2>1, <2>2, <2>3 DEF Copied
<1>7. Covered'
  <2> SUFFICES ASSUME NEW k \in Transfers
               PROVE  Successors(k) \intersect Lines \subseteq Marked \union news
    BY <1>2, <1>4 DEF Covered, Transfers, Successors
  <2>1. k < i
    BY <1>2, SizeAssumption DEF Transfers, Lines
  <2> QED
    BY <2>1 DEF InOrder, Covered
<1>8. Justified'
  <2>1. Transfers' = Transfers /\ IR' = IR
    BY <1>2 DEF Transfers
  <2> QED
    BY <1>4, <2>1 DEF InOrder, Justified
<1> QED
  BY <1>3, <1>5, <1>6, <1>7, <1>8 DEF InOrder

\* There is a cell for every mark still to be copied.
LEMMA RoomForNext ==
    ASSUME InOrder, pc = "collect", i < nextinstr, longList[i] = 1
    PROVE  j < numberOfLeaders
<1>1. i \in Lines /\ i + 1 \in Nat
  BY SizeAssumption DEF InOrder, Typed, Lines
<1>2. Cardinality(Below(i + 1)) = j + 1
  BY <1>1, BelowNext DEF InOrder, Copied
<1>3. Cardinality(Below(i + 1)) \in 0 .. Cardinality(Marked)
  BY <1>1, MarksFinite
<1>4. i \in Nat /\ j = Cardinality(Below(i))
  BY SizeAssumption DEF InOrder, Typed, Copied
<1>5. j \in Nat /\ Cardinality(Marked) \in Nat
  BY <1>4, MarksFinite, SizeAssumption
<1> QED
  BY <1>2, <1>3, <1>5 DEF InOrder, Counted

\* A marked line goes into the next cell; the marks below it stay where they are.
LEMMA CollectKeeps ==
    ASSUME InOrder, Collect
    PROVE  InOrder'
<1>1. /\ pc = "collect" /\ i < nextinstr /\ i' = i + 1
      /\ UNCHANGED <<IR, longList, numberOfLeaders, pc>>
  BY DEF Collect
<1>2. i \in Lines /\ i \in Nat
  BY <1>1, SizeAssumption DEF InOrder, Typed, Lines
<1>3. j \in Nat /\ numberOfLeaders \in Nat
  BY <1>1, <1>2, MarksFinite DEF InOrder, Counted, Copied
<1>4. /\ Leaders \in [0 .. numberOfLeaders - 1 -> Lines \union {-2}]
      /\ j = Cardinality(Below(i))
      /\ \A k \in 0 .. j - 1 : Leaders[k] \in Below(i)
      /\ \A l \in Below(i) : \E k \in 0 .. j - 1 : Leaders[k] = l
      /\ \A k, m \in 0 .. j - 1 : k < m => Leaders[k] < Leaders[m]
  BY <1>1 DEF InOrder, Copied
<1>5. Typed'
  BY <1>1, <1>2, SizeAssumption DEF InOrder, Typed
<1>6. Marked' = Marked /\ Below(i)' = Below(i + 1)
  BY <1>1 DEF Marked, Below
<1>7. Counted'
  BY <1>1, <1>6 DEF InOrder, Counted
<1>8. Copied'
  <2>1. CASE longList[i] = 1
    <3>1. j < numberOfLeaders
      BY <1>1, <2>1, RoomForNext
    <3>2. Leaders' = [Leaders EXCEPT ![j] = i] /\ j' = j + 1
      BY <2>1 DEF Collect
    <3>3. /\ Below(i + 1) = Below(i) \union {i}
          /\ Cardinality(Below(i + 1)) = j + 1
      BY <1>2, <1>4, <2>1, BelowNext
    <3>4. Leaders' \in [0 .. numberOfLeaders - 1 -> Lines \union {-2}]
      BY <1>2, <1>4, <3>2
    <3>5. Leaders'[j] = i /\ \A k \in 0 .. j - 1 : Leaders'[k] = Leaders[k]
      BY <1>3, <1>4, <3>1, <3>2
    <3>6. \A k \in 0 .. j : k \in 0 .. j - 1 \/ k = j
      BY <1>3
    <3>7. \A l \in Below(i) : l < i
      BY DEF Below
    <3>8. \A k \in 0 .. j : Leaders'[k] \in Below(i + 1)
      BY <1>4, <3>3, <3>5, <3>6
    <3>9. \A l \in Below(i + 1) : \E k \in 0 .. j : Leaders'[k] = l
      <4> SUFFICES ASSUME NEW l \in Below(i + 1) PROVE \E k \in 0 .. j : Leaders'[k] = l
        OBVIOUS
      <4>1. CASE l = i
        BY <1>3, <3>5, <4>1
      <4>2. CASE l \in Below(i)
        <5>1. PICK k \in 0 .. j - 1 : Leaders[k] = l
          BY <1>4, <4>2
        <5> QED
          BY <1>3, <3>5, <5>1
      <4> QED
        BY <3>3, <4>1, <4>2
    <3>10. \A k, m \in 0 .. j : k < m => Leaders'[k] < Leaders'[m]
      <4> SUFFICES ASSUME NEW k \in 0 .. j, NEW m \in 0 .. j, k < m
                   PROVE  Leaders'[k] < Leaders'[m]
        OBVIOUS
      <4>1. k \in 0 .. j - 1
        BY <1>3
      <4>2. CASE m = j
        BY <1>4, <3>5, <3>7, <4>1, <4>2
      <4>3. CASE m \in 0 .. j - 1
        BY <1>4, <3>5, <4>1, <4>3
      <4> QED
        BY <3>6, <4>2, <4>3
    <3>11. j' - 1 = j
      BY <1>3, <3>2
    <3> QED
      BY <1>1, <1>6, <3>2, <3>3, <3>4, <3>8, <3>9, <3>10, <3>11 DEF Copied
  <2>2. CASE longList[i] # 1
    <3>1. Leaders' = Leaders /\ j' = j
      BY <2>2 DEF Collect
    <3>2. Below(i + 1) = Below(i)
      BY <1>2, <2>2, BelowNext
    <3> QED
      BY <1>1, <1>4, <1>6, <3>1, <3>2 DEF Copied
  <2> QED
    BY <2>1, <2>2
<1>9. Transfers' = Transfers
  BY <1>1 DEF Transfers
<1>10. Covered'
  BY <1>1, <1>6, <1>9 DEF InOrder, Covered, Successors
<1>11. Justified'
  BY <1>1, <1>6, <1>9 DEF InOrder, Justified
<1> QED
  BY <1>5, <1>7, <1>8, <1>10, <1>11 DEF InOrder

\* One step of find_leaders keeps all five parts.
LEMMA InOrderStep == InOrder /\ [Next]_vars => InOrder'
<1> SUFFICES ASSUME InOrder, [Next]_vars PROVE InOrder'
  OBVIOUS
<1>1. CASE \E outside \in Neighbours : Mark(outside)
  BY <1>1, MarkKeeps
<1>2. CASE MarkFirst
  BY <1>2, MarkFirstKeeps
<1>3. CASE Collect
  BY <1>3, CollectKeeps
<1>4. CASE Finish
  <2>1. /\ pc = "collect" /\ i = nextinstr /\ pc' = "done"
        /\ UNCHANGED <<IR, longList, numberOfLeaders, Leaders, i, j>>
    BY <1>4 DEF Finish
  <2> QED
    BY <2>1 DEF InOrder, Typed, Counted, Copied, Covered, Justified, Marked, Below,
                Transfers, Successors
<1>5. CASE UNCHANGED vars
  BY <1>5 DEF vars, InOrder, Typed, Counted, Copied, Covered, Justified, Marked, Below,
              Transfers, Successors
<1> QED
  BY <1>1, <1>2, <1>3, <1>4, <1>5 DEF Next

\* So they hold in every state.
LEMMA InOrderAlways == Spec => []InOrder
BY InOrderFirst, InOrderStep, PTL DEF Spec

-----------------------------------------------------------------------------
(* The results                                                             *)

\* For a program of any length and whatever the words next to longList hold,
\* which are read at a call, a return, an unpatched jump and the end of the
\* program: no mark is written outside longList, the loops stay in their
\* bounds, and no more leaders are counted than there are instructions.
THEOREM LeadersTyped == Spec => []TypeOK
<1>1. InOrder => TypeOK
  <2> SUFFICES ASSUME InOrder PROVE TypeOK
    OBVIOUS
  <2>1. numberOfLeaders \in 0 .. nextinstr
    BY MarksFinite DEF InOrder, Counted
  <2>2. i \in Nat
    BY SizeAssumption DEF InOrder, Typed
  <2>3. j \in 0 .. nextinstr
    <3>1. CASE pc = "mark"
      BY <3>1, SizeAssumption DEF InOrder, Typed
    <3>2. CASE pc # "mark"
      BY <2>2, <3>2, MarksFinite, SizeAssumption DEF InOrder, Copied
    <3> QED
      BY <3>1, <3>2
  <2>4. \E n \in 0 .. nextinstr : Leaders \in [0 .. n - 1 -> Lines \union {-2}]
    <3>1. CASE pc = "mark"
      <4>1. Leaders \in [0 .. 0 - 1 -> Lines \union {-2}]
        BY <3>1 DEF InOrder, Typed
      <4> QED
        BY <4>1, SizeAssumption
    <3>2. CASE pc # "mark"
      BY <2>1, <3>2 DEF InOrder, Copied
    <3> QED
      BY <3>1, <3>2
  <2> QED
    BY <2>1, <2>3, <2>4 DEF InOrder, Typed, TypeOK
<1> QED
  BY <1>1, InOrderAlways, PTL

\* For a program of any length, no leader is written past the array that was
\* allocated for the count, every cell is written, and the lines increase.
THEOREM LeadersFitAlways == Spec => []LeadersFit
<1>1. InOrder => LeadersFit
  <2> SUFFICES ASSUME InOrder PROVE LeadersFit
    OBVIOUS
  <2>1. pc = "collect" /\ i < nextinstr /\ longList[i] = 1 => j < numberOfLeaders
    BY RoomForNext
  <2>2. ASSUME pc = "done"
        PROVE  /\ j = numberOfLeaders
               /\ \A k \in DOMAIN Leaders : k > 0 => Leaders[k - 1] < Leaders[k]
    <3>1. j = numberOfLeaders
      BY <2>2, BelowEnds DEF InOrder, Typed, Counted, Copied
    <3>2. DOMAIN Leaders = 0 .. j - 1
      BY <2>2, <3>1 DEF InOrder, Copied
    <3>3. j \in Nat
      BY <3>1, MarksFinite DEF InOrder, Counted
    <3>4. \A k, m \in 0 .. j - 1 : k < m => Leaders[k] < Leaders[m]
      BY <2>2 DEF InOrder, Copied
    <3>5. \A k \in 0 .. j - 1 : k > 0 => k - 1 \in 0 .. j - 1 /\ k - 1 < k
      BY <3>3
    <3> QED
      BY <3>1, <3>2, <3>4, <3>5
  <2> QED
    BY <2>1, <2>2 DEF LeadersFit
<1> QED
  BY <1>1, InOrderAlways, PTL

\* For a program of any length and with any jumps, control enters each block
\* at its first line only and leaves it at its last only.
THEOREM BlocksAreBasicAlways == Spec => []BlocksAreBasic
<1>1. InOrder => BlocksAreBasic
  <2> SUFFICES ASSUME InOrder, pc = "done", NEW b \in DOMAIN Leaders,
                      NEW last, last = IF HasEnd(b) THEN block_end(b) ELSE nextinstr - 1
               PROVE  /\ \A l \in block_start(b) .. last - 1 : l \notin Transfers
                      /\ \A l \in Transfers : IR[l].jumpTarget \notin block_start(b) + 1 .. last
    BY DEF BlocksAreBasic
  <2>1. i = nextinstr /\ nextinstr \in Nat
    BY SizeAssumption DEF InOrder, Typed
  <2>2. Below(i) = Marked /\ j = numberOfLeaders /\ j \in Nat
    BY <2>1, BelowEnds, MarksFinite DEF InOrder, Counted, Copied
  <2>3. /\ DOMAIN Leaders = 0 .. j - 1
        /\ \A k \in 0 .. j - 1 : Leaders[k] \in Marked
        /\ \A l \in Marked : \E k \in 0 .. j - 1 : Leaders[k] = l
        /\ \A k, m \in 0 .. j - 1 : k < m => Leaders[k] < Leaders[m]
    BY <2>2 DEF InOrder, Copied
  <2>4. \A k \in 0 .. j - 1 : Leaders[k] \in 0 .. nextinstr - 1
    BY <2>3 DEF Marked, Lines
  <2>5. last \in Int /\ last <= nextinstr - 1
    BY <2>1, <2>3, <2>4 DEF HasEnd, block_end
  <2>6. block_start(b) \in 0 .. nextinstr - 1
    BY <2>3, <2>4 DEF block_start
  <2>7. \A t \in block_start(b) + 1 .. last : t \notin Marked
    <3> SUFFICES ASSUME NEW t \in Marked, block_start(b) < t, t <= last PROVE FALSE
      BY <2>3, <2>4, <2>5 DEF block_start
    <3>1. PICK k \in 0 .. j - 1 : Leaders[k] = t
      BY <2>3
    <3>2. b < k
      BY <2>2, <2>3, <2>4, <3>1 DEF block_start
    <3>3. b + 1 \in 0 .. j - 1 /\ (k = b + 1 \/ b + 1 < k)
      BY <2>2, <2>3, <3>2
    <3>4. HasEnd(b) /\ Leaders[b + 1] <= t
      BY <2>3, <2>4, <3>1, <3>3 DEF HasEnd
    <3> QED
      BY <2>4, <2>5, <3>1, <3>3, <3>4 DEF HasEnd, block_end
  <2>8. \A t \in Lines : (\E k \in Transfers : t \in Successors(k)) => t \in Marked
    BY DEF InOrder, Covered
  <2>9. ASSUME NEW l \in block_start(b) .. last - 1, l \in Transfers
        PROVE  FALSE
    <3>1. l + 1 \in block_start(b) + 1 .. last /\ l + 1 \in Lines
      BY <2>1, <2>5, <2>6 DEF Lines
    <3> QED
      BY <2>7, <2>8, <2>9, <3>1 DEF Successors
  <2>10. ASSUME NEW l \in Transfers, IR[l].jumpTarget \in block_start(b) + 1 .. last
        PROVE  FALSE
    <3>1. IR[l].jumpTarget \in Lines
      BY <2>1, <2>5, <2>10, <2>6 DEF Lines
    <3> QED
      BY <2>7, <2>8, <2>10, <3>1 DEF Successors
  <2> QED
    BY <2>9, <2>10
<1> QED
  BY <1>1, InOrderAlways, PTL

\* For any program, a line that is flushed at can be arrived at from a jump, a
\* call or a return, or is the first.
THEOREM NoNeedlessFlushAlways == Spec => []NoNeedlessFlush
<1>1. InOrder => NoNeedlessFlush
  BY DEF InOrder, Justified, Marked, NoNeedlessFlush
<1> QED
  BY <1>1, InOrderAlways, PTL

-----------------------------------------------------------------------------
(* The abstract search                                                     *)

FirstMarked == pc # "mark" => longList[0] = 1

\* The first line begins a block, whether control can come back to it or not.
LEMMA FirstMarkedAlways == Spec => []FirstMarked
<1>1. Init => FirstMarked
  BY DEF Init, FirstMarked
<1>2. InOrder /\ FirstMarked /\ [Next]_vars => FirstMarked'
  <2> SUFFICES ASSUME InOrder, FirstMarked, [Next]_vars PROVE FirstMarked'
    OBVIOUS
  <2>1. CASE \E outside \in Neighbours : Mark(outside)
    BY <2>1 DEF Mark, FirstMarked
  <2>2. CASE MarkFirst
    BY <2>2, SizeAssumption DEF MarkFirst, FirstMarked, InOrder, Typed, Lines
  <2>3. CASE Collect
    BY <2>3 DEF Collect, FirstMarked
  <2>4. CASE Finish
    BY <2>4 DEF Finish, FirstMarked
  <2>5. CASE UNCHANGED vars
    BY <2>5 DEF vars, FirstMarked
  <2> QED
    BY <2>1, <2>2, <2>3, <2>4, <2>5 DEF Next
<1> QED
  BY <1>1, <1>2, InOrderAlways, PTL DEF Spec

\* What the array lists in the end are the entrances of the program.
Found == pc = "done" => {Leaders[k] : k \in DOMAIN Leaders} = Blocks!Entrances

LEMMA FoundWhenDone == InOrder /\ FirstMarked => Found
<1> SUFFICES ASSUME InOrder, FirstMarked, pc = "done"
             PROVE  {Leaders[k] : k \in DOMAIN Leaders} = Blocks!Entrances
  BY DEF Found
<1>1. i = nextinstr /\ Below(i) = Marked
  BY BelowEnds DEF InOrder, Typed
<1>2. j = numberOfLeaders
  BY <1>1 DEF InOrder, Copied, Counted
<1>3. /\ DOMAIN Leaders = 0 .. j - 1
      /\ \A k \in 0 .. j - 1 : Leaders[k] \in Marked
      /\ \A l \in Marked : \E k \in 0 .. j - 1 : Leaders[k] = l
  BY <1>1, <1>2 DEF InOrder, Copied
<1>4. {Leaders[k] : k \in DOMAIN Leaders} = Marked
  BY <1>3
<1>5. ASSUME NEW l \in Marked, l # 0
      PROVE  l \in Blocks!Entrances
  <2>1. l \in Lines /\ l \in Int
    BY DEF Marked, Lines
  <2>2. CASE l - 1 \in Transfers
    BY <2>1, <2>2 DEF Blocks!Entrances, Blocks!Exits, Blocks!Lines, Transfers, Lines
  <2>3. CASE \E t \in Transfers : IR[t].jumpTarget = l
    BY <2>1, <2>3 DEF Blocks!Entrances, Blocks!Exits, Blocks!Lines, Transfers, Lines
  <2> QED
    BY <1>5, <2>2, <2>3 DEF InOrder, Justified
<1>6. ASSUME NEW l \in Lines, NEW k \in Lines, l \in Blocks!Exits(k)
      PROVE  l \in Marked
  BY <1>6 DEF Blocks!Exits, Transfers, Successors, InOrder, Covered
<1>7. 0 \in Marked
  BY SizeAssumption DEF FirstMarked, Marked, Lines
<1>8. \A l : l \in Blocks!Entrances <=>
               l = 0 \/ (l \in Lines /\ \E k \in Lines : l \in Blocks!Exits(k))
  BY DEF Blocks!Entrances, Blocks!Lines, Lines
<1> QED
  BY <1>4, <1>5, <1>6, <1>7, <1>8

\* For any program find_leaders hands over its entrances and nothing else:
\* every step of its loops but the last is invisible.
THEOREM FindsTheBlocksAlways == Spec => FindsTheBlocks
<1>1. Init => Blocks!Init
  BY DEF Init, Blocks!Init
<1>2. Found' /\ [Next]_vars => [Blocks!Partition]_(Blocks!vars)
  <2> SUFFICES ASSUME Found', [Next]_vars
               PROVE  [Blocks!Partition]_(Blocks!vars)
    OBVIOUS
  <2>1. CASE (\E outside \in Neighbours : Mark(outside)) \/ MarkFirst \/ Collect
    BY <2>1 DEF Mark, MarkFirst, Collect, Blocks!vars
  <2>2. CASE Finish
    <3>1. pc = "collect" /\ pc' = "done" /\ IR' = IR
      BY <2>2 DEF Finish
    <3>2. {Leaders'[k] : k \in DOMAIN Leaders'} = (Blocks!Entrances)'
      BY <3>1 DEF Found
    <3>3. (Blocks!Entrances)' = Blocks!Entrances
      BY <3>1 DEF Blocks!Entrances, Blocks!Exits, Blocks!Lines
    <3> QED
      BY <3>1, <3>2, <3>3 DEF Blocks!Partition
  <2>3. CASE UNCHANGED vars
    BY <2>3 DEF vars, Blocks!vars
  <2> QED
    BY <2>1, <2>2, <2>3 DEF Next
<1> QED
  BY <1>1, <1>2, FoundWhenDone, InOrderAlways, FirstMarkedAlways, PTL
  DEF Spec, FindsTheBlocks, Blocks!Safety
=============================================================================
