----------------------- MODULE SemanticActions_proofs ------------------------
(***************************************************************************)
(* Proofs about the semantic actions for every set of conditions, every    *)
(* IR array size and every program: types, no jump forgotten or patched    *)
(* twice, no jump out of a function but at its end, and every test and     *)
(* every expression sends control where its condition says.                *)
(***************************************************************************)
EXTENDS SemanticActions, Induction, TLAPS

-----------------------------------------------------------------------------
(* Types                                                                   *)

InstructionType ==
    [op : {"if", "goto", "assign", "return", "param", "call", "crash",
           "read", "write", "compute"},
     cond : SUBSET Valuations, target : -1 .. IR_ARRAY_SIZE]
LineNumbers == 0 .. IR_ARRAY_SIZE
ItemType ==
    [k : ItemKinds, quad : LineNumbers, true_list : SUBSET LineNumbers,
     false_list : SUBSET LineNumbers, truth : SUBSET Valuations, start : LineNumbers]

\* The array size is a natural number.
LEMMA SizeFacts ==
    ASSUME TypeOK
    PROVE  /\ IR_ARRAY_SIZE \in Nat /\ MaxStack \in Nat
           /\ IR \in Seq(InstructionType) /\ nextinstr \in Nat /\ nextinstr <= IR_ARRAY_SIZE
           /\ stack \in Seq(ItemType) /\ Depth \in Nat /\ Depth <= MaxStack
<1>1. workload \in WorkloadType
  BY WorkloadsAssumption DEF TypeOK
<1>2. IR_ARRAY_SIZE \in Nat /\ MaxStack \in Nat
  BY <1>1 DEF WorkloadType, IR_ARRAY_SIZE, MaxStack
<1>3. /\ IR \in Seq(InstructionType) /\ nextinstr <= IR_ARRAY_SIZE
      /\ stack \in Seq(ItemType) /\ Depth <= MaxStack
  BY DEF TypeOK, InstructionType, ItemType, LineNumbers
<1> QED
  BY <1>2, <1>3 DEF nextinstr, Depth

\* Emitting one instruction.
LEMMA EmitTyped ==
    ASSUME NEW S, NEW c \in Seq(S), NEW i \in S
    PROVE  /\ Emit(c, i) \in Seq(S)
           /\ Len(Emit(c, i)) \in Len(c) .. Len(c) + 1
BY DEF Emit

\* Emitting several.
LEMMA EmitAllTyped ==
    ASSUME NEW S, NEW c \in Seq(S), NEW is \in Seq(S)
    PROVE  /\ EmitAll(c, is) \in Seq(S)
           /\ Len(EmitAll(c, is)) \in Len(c) .. Len(c) + Len(is)
BY DEF EmitAll

\* A field of a record is replaced by a value of its type.
LEMMA Retarget ==
    ASSUME NEW A, NEW B, NEW C, NEW i \in [op : A, cond : B, target : C], NEW t \in C
    PROVE  [i EXCEPT !.target = t] \in [op : A, cond : B, target : C]
OBVIOUS

\* Patching changes targets and nothing else.
LEMMA PatchTyped ==
    ASSUME NEW c \in Seq(InstructionType), NEW list, NEW t \in -1 .. IR_ARRAY_SIZE
    PROVE  /\ backpatch(c, list, t) \in Seq(InstructionType)
           /\ Len(backpatch(c, list, t)) = Len(c)
<1>1. CASE error_reported
  BY <1>1 DEF backpatch
<1>2. CASE ~error_reported
  <2> DEFINE d == [n \in 1 .. Len(c) |->
                     IF n - 1 \in list THEN [c[n] EXCEPT !.target = t] ELSE c[n]]
  <2>1. backpatch(c, list, t) = d
    BY <1>2 DEF backpatch
  <2>2. ASSUME NEW n \in 1 .. Len(c) PROVE d[n] \in InstructionType
    <3>1. c[n] \in InstructionType
      OBVIOUS
    <3> QED
      BY <3>1, Retarget DEF InstructionType
  <2>3. d \in [1 .. Len(c) -> InstructionType] /\ Len(c) \in Nat
    BY <2>2
  <2>4. d \in Seq(InstructionType) /\ Len(d) = Len(c)
    BY <2>3
  <2> QED
    BY <2>1, <2>4
<1> QED
  BY <1>1, <1>2

\* The semantic stack after a push, a pop or a reduction of n items.
LEMMA StackTyped ==
    ASSUME NEW S, stack \in Seq(S)
    PROVE  /\ \A i \in S : Push(i) =>
                /\ stack' \in Seq(S) /\ Len(stack') = Depth + 1 /\ Depth < MaxStack
                /\ stack'[Depth + 1] = i
                /\ \A p \in 1 .. Depth : stack'[p] = stack[p]
           /\ \A n \in 0 .. Depth : Pop(n) =>
                /\ stack' \in Seq(S) /\ Len(stack') = Depth - n
                /\ \A p \in 1 .. Depth - n : stack'[p] = stack[p]
           /\ \A n \in 0 .. Depth, i \in S : Replace(n, i) =>
                /\ stack' \in Seq(S) /\ Len(stack') = Depth - n + 1
                /\ stack'[Depth - n + 1] = i
                /\ \A p \in 1 .. Depth - n : stack'[p] = stack[p]
<1>1. Depth \in Nat
  BY DEF Depth
<1>2. ASSUME NEW n \in 0 .. Depth
      PROVE  /\ SubSeq(stack, 1, Depth - n) \in Seq(S)
             /\ Len(SubSeq(stack, 1, Depth - n)) = Depth - n
             /\ \A p \in 1 .. Depth - n : SubSeq(stack, 1, Depth - n)[p] = stack[p]
  BY <1>1 DEF Depth
<1>3. ASSUME NEW i \in S, Push(i)
      PROVE  /\ stack' \in Seq(S) /\ Len(stack') = Depth + 1 /\ Depth < MaxStack
             /\ stack'[Depth + 1] = i
             /\ \A p \in 1 .. Depth : stack'[p] = stack[p]
  BY <1>3 DEF Push, Depth
<1>4. ASSUME NEW n \in 0 .. Depth, Pop(n)
      PROVE  /\ stack' \in Seq(S) /\ Len(stack') = Depth - n
             /\ \A p \in 1 .. Depth - n : stack'[p] = stack[p]
  BY <1>2, <1>4 DEF Pop
<1>5. ASSUME NEW n \in 0 .. Depth, NEW i \in S, Replace(n, i)
      PROVE  /\ stack' \in Seq(S) /\ Len(stack') = Depth - n + 1
             /\ stack'[Depth - n + 1] = i
             /\ \A p \in 1 .. Depth - n : stack'[p] = stack[p]
  <2> DEFINE t == SubSeq(stack, 1, Depth - n)
  <2>1. stack' = Append(t, i)
    BY <1>5 DEF Replace
  <2>2. t \in Seq(S) /\ Len(t) = Depth - n /\ \A p \in 1 .. Depth - n : t[p] = stack[p]
    BY <1>2
  <2> HIDE DEF t
  <2>3. Append(t, i) \in Seq(S) /\ Len(Append(t, i)) = Len(t) + 1
        /\ Append(t, i)[Len(t) + 1] = i /\ \A p \in 1 .. Len(t) : Append(t, i)[p] = t[p]
    BY <2>2
  <2> QED
    BY <2>1, <2>2, <2>3
<1> QED
  BY <1>3, <1>4, <1>5

\* The values the parser makes.
LEMMA ItemUpdate ==
    ASSUME NEW e \in ItemType, NEW T \in SUBSET LineNumbers, NEW F \in SUBSET LineNumbers
    PROVE  \A truth \in SUBSET Valuations :
             /\ [e EXCEPT !.true_list = T, !.false_list = F, !.truth = truth] \in ItemType
             /\ [e EXCEPT !.false_list = F, !.true_list = T, !.truth = truth] \in ItemType
             /\ \A start \in LineNumbers :
                  /\ [e EXCEPT !.false_list = F, !.truth = truth, !.start = start] \in ItemType
                  /\ [e EXCEPT !.true_list = T, !.false_list = F, !.truth = truth,
                               !.start = start] \in ItemType
                  /\ \A quad \in LineNumbers :
                       /\ [e EXCEPT !.true_list = T, !.quad = quad,
                                    !.start = start] \in ItemType
                       /\ [e EXCEPT !.true_list = T, !.false_list = F, !.truth = truth,
                                    !.start = start, !.quad = quad] \in ItemType
<1> DEFINE K == ItemKinds
           L == LineNumbers
           V == Valuations
<1>1. ItemType = [k : K, quad : L, true_list : SUBSET L, false_list : SUBSET L,
                  truth : SUBSET V, start : L]
  BY DEF ItemType
<1> HIDE DEF K, L, V
<1> USE DEF L, V
<1> QED
  BY <1>1

\* A new item is typed.
LEMMA ItemTyped ==
    ASSUME TypeOK, NEW k \in ItemKinds
    PROVE  Item(k) \in ItemType
<1>1. nextinstr \in LineNumbers
  BY SizeFacts DEF LineNumbers
<1> QED
  BY <1>1 DEF Item, ItemType

\* The instructions the actions emit.
LEMMA InstructionTyped ==
    ASSUME TypeOK
    PROVE  /\ \A cond \in SUBSET Valuations : JumpIf(cond) \in InstructionType
           /\ GotoIR \in InstructionType
           /\ \A t \in LineNumbers : [GotoIR EXCEPT !.target = t] \in InstructionType
           /\ \A op \in {"assign", "return", "param", "call", "crash", "read", "write",
                         "compute"} : Plain(op) \in InstructionType
<1> DEFINE C == -1 .. IR_ARRAY_SIZE
<1>1. -1 \in C /\ LineNumbers \subseteq C
  BY SizeFacts DEF LineNumbers
<1>2. InstructionType =
        [op : {"if", "goto", "assign", "return", "param", "call", "crash", "read", "write",
               "compute"}, cond : SUBSET Valuations, target : C]
  BY DEF InstructionType
<1> HIDE DEF C
<1>3. GotoIR \in InstructionType
  BY <1>1, <1>2 DEF GotoIR, Instruction
<1>4. \A t \in LineNumbers : [GotoIR EXCEPT !.target = t] \in InstructionType
  BY <1>1, <1>2, <1>3, Retarget
<1>5. \A cond \in SUBSET Valuations : JumpIf(cond) \in InstructionType
  BY <1>1, <1>2 DEF JumpIf, Instruction
<1>6. ASSUME NEW op \in {"assign", "return", "param", "call", "crash", "read", "write",
                         "compute"}
      PROVE  Plain(op) \in InstructionType
  <2>1. op \in {"if", "goto", "assign", "return", "param", "call", "crash", "read", "write",
                "compute"}
    OBVIOUS
  <2> QED
    BY <1>1, <1>2, <2>1 DEF Plain, Instruction
<1> QED
  BY <1>3, <1>4, <1>5, <1>6

\* What a step must leave typed: the IR, the stack and the bookkeeping.
StackOK(s) == s \in Seq(ItemType) /\ Len(s) <= MaxStack
CodeOK(c) == c \in Seq(InstructionType) /\ Len(c) <= IR_ARRAY_SIZE
FunctionType == [call_index : LineNumbers, end_index : LineNumbers]

\* The types, in these terms.
LEMMA TypeParts ==
    TypeOK <=> /\ CodeOK(IR) /\ error_reported \in BOOLEAN /\ StackOK(stack)
               /\ workload \in Workloads /\ abandoned \subseteq LineNumbers
               /\ functions \subseteq FunctionType
BY DEF TypeOK, CodeOK, StackOK, FunctionType, InstructionType, ItemType, LineNumbers,
       nextinstr, Depth

\* A step that leaves its parts typed leaves the state typed.
LEMMA TypeStep ==
    ASSUME TypeOK, workload' = workload, CodeOK(IR'), error_reported' \in BOOLEAN,
           StackOK(stack'), abandoned' \subseteq LineNumbers, functions' \subseteq FunctionType
    PROVE  TypeOK'
<1>1. /\ CodeOK(IR)' = CodeOK(IR') /\ StackOK(stack)' = StackOK(stack')
      /\ LineNumbers' = LineNumbers /\ FunctionType' = FunctionType
  BY DEF CodeOK, StackOK, InstructionType, ItemType, FunctionType, LineNumbers, IR_ARRAY_SIZE,
         MaxStack
<1>2. workload \in Workloads
  BY DEF TypeOK
<1>3. TypeOK' <=> /\ CodeOK(IR)' /\ error_reported' \in BOOLEAN /\ StackOK(stack)'
                  /\ workload' \in Workloads /\ abandoned' \subseteq LineNumbers'
                  /\ functions' \subseteq FunctionType'
  BY DEF TypeOK, CodeOK, StackOK, FunctionType, InstructionType, ItemType, LineNumbers,
         nextinstr, Depth
<1> QED
  BY <1>1, <1>2, <1>3

\* The IR with at most n lines, none of the present ones lost.
CodeUpTo(c, n) == c \in Seq(InstructionType) /\ Len(c) \in nextinstr .. n

\* How each emit and each patch changes that.
LEMMA Grow ==
    ASSUME TypeOK, NEW c, NEW n \in Nat, CodeUpTo(c, n)
    PROVE  /\ \A i \in InstructionType : CodeUpTo(Emit(c, i), n + 1)
           /\ \A is \in Seq(InstructionType) : CodeUpTo(EmitAll(c, is), n + Len(is))
           /\ \A list, t : t \in LineNumbers => CodeUpTo(backpatch(c, list, t), n)
           /\ \A cond \in SUBSET Valuations : CodeUpTo(TwoWay(c, cond), n + 2)
<1>0. /\ c \in Seq(InstructionType) /\ Len(c) \in Nat /\ nextinstr \in Nat
      /\ Len(c) >= nextinstr /\ Len(c) <= n
  BY SizeFacts DEF CodeUpTo
<1>1. ASSUME NEW i \in InstructionType PROVE CodeUpTo(Emit(c, i), n + 1)
  <2>1. /\ Emit(c, i) \in Seq(InstructionType)
        /\ Len(Emit(c, i)) \in Len(c) .. Len(c) + 1
    BY <1>0, EmitTyped
  <2> QED
    BY <1>0, <2>1 DEF CodeUpTo
<1>2. ASSUME NEW is \in Seq(InstructionType) PROVE CodeUpTo(EmitAll(c, is), n + Len(is))
  <2>1. /\ EmitAll(c, is) \in Seq(InstructionType) /\ Len(is) \in Nat
        /\ Len(EmitAll(c, is)) \in Len(c) .. Len(c) + Len(is)
    BY <1>0, EmitAllTyped
  <2> QED
    BY <1>0, <2>1 DEF CodeUpTo
<1>3. ASSUME NEW list, NEW t \in LineNumbers PROVE CodeUpTo(backpatch(c, list, t), n)
  <2>1. t \in -1 .. IR_ARRAY_SIZE
    BY SizeFacts DEF LineNumbers
  <2> QED
    BY <1>0, <2>1, PatchTyped DEF CodeUpTo
<1>4. ASSUME NEW cond \in SUBSET Valuations PROVE CodeUpTo(TwoWay(c, cond), n + 2)
  <2>1. JumpIf(cond) \in InstructionType /\ GotoIR \in InstructionType
    BY InstructionTyped
  <2>2. /\ <<JumpIf(cond), GotoIR>> \in Seq(InstructionType)
        /\ Len(<<JumpIf(cond), GotoIR>>) = 2
    BY <2>1
  <2> QED
    BY <1>2, <2>2 DEF TwoWay
<1> QED
  BY <1>1, <1>2, <1>3, <1>4

\* The IR as it is, and as a step may leave it.
LEMMA CodeFits ==
    ASSUME TypeOK
    PROVE  /\ CodeUpTo(IR, nextinstr)
           /\ \A c, n : CodeUpTo(c, n) /\ n \in Nat /\ n <= IR_ARRAY_SIZE => CodeOK(c)
BY SizeFacts DEF CodeUpTo, CodeOK, nextinstr

\* The two instructions that store a Boolean value, with the goto between them.
LEMMA StoredFits ==
    ASSUME TypeOK, NEW e, NEW op \in {"assign", "param"}, Room(3)
    PROVE  CodeUpTo(Stored(e, op), nextinstr + 3)
<1> DEFINE n == nextinstr
           c1 == backpatch(IR, e.true_list, n)
           is == <<Plain(op), GotoIR>>
           c2 == EmitAll(c1, is)
           c3 == backpatch(c2, e.false_list, n + 2)
           c4 == Emit(c3, Plain(op))
<1>1. /\ n \in Nat /\ n \in LineNumbers /\ n + 2 \in LineNumbers /\ n + 3 \in LineNumbers
      /\ n + 2 \in Nat /\ n + 3 \in Nat /\ n + 2 + 1 = n + 3
  BY SizeFacts DEF Room, LineNumbers
<1>2. Plain(op) \in InstructionType /\ is \in Seq(InstructionType) /\ Len(is) = 2
  BY InstructionTyped
<1>3. Stored(e, op) = backpatch(c4, makeList(n + 1), n + 3)
  BY DEF Stored
<1>4. CodeUpTo(c1, n)
  BY <1>1, CodeFits, Grow
<1> HIDE DEF c1, is, n
<1>5. CodeUpTo(c2, n + 2)
  BY <1>1, <1>2, <1>4, Grow
<1> HIDE DEF c2
<1>6. CodeUpTo(c3, n + 2)
  BY <1>1, <1>5, Grow
<1> HIDE DEF c3
<1>7. CodeUpTo(c4, n + 3)
  BY <1>1, <1>2, <1>6, Grow
<1> HIDE DEF c4
<1>8. CodeUpTo(Stored(e, op), n + 3)
  BY <1>1, <1>3, <1>7, Grow
<1> QED
  BY <1>8 DEF n

-----------------------------------------------------------------------------
(* The shape of the semantic stack                                         *)

\* Which items own jumps: an expression both lists, a body the one its end
\* will patch.
OwnsByKind(i) ==
    /\ i.k \notin {"expr", "else"} => i.true_list = {}
    /\ i.k \notin {"expr", "while_body", "then"} => i.false_list = {}

\* A function is at the bottom and nowhere else; an operator stands on its
\* left operand.
Shape ==
    /\ Depth > 0 => stack[1].k = "function"
    /\ \A p \in 1 .. Depth :
         /\ stack[p].k = "function" => p = 1
         /\ stack[p].k \in {"or", "and"} => p > 1 /\ stack[p - 1].k = "expr"
         /\ OwnsByKind(stack[p])

\* What holds of the stack whether or not an error was reported.
Sound == TypeOK /\ Shape

\* The kinds of items.
LEMMA Kinds ==
    /\ Openers \subseteq ItemKinds /\ Bodies \subseteq ItemKinds /\ "expr" \in ItemKinds
    /\ "function" \notin Openers /\ "expr" \notin Openers /\ "expr" \notin Bodies
    /\ \A o \in Openers : o \notin {"expr", "else", "while_body", "then", "function", "block"}
BY DEF ItemKinds, Openers, Bodies

\* The items of the stack are typed.
LEMMA StackItems ==
    ASSUME Sound
    PROVE  /\ Depth \in Nat /\ Depth <= MaxStack /\ stack \in Seq(ItemType)
           /\ \A p \in 1 .. Depth : stack[p] \in ItemType
           /\ \A i \in ItemType : /\ i.k \in ItemKinds /\ i.quad \in LineNumbers
                                  /\ i.true_list \in SUBSET LineNumbers
                                  /\ i.false_list \in SUBSET LineNumbers
                                  /\ i.truth \in SUBSET Valuations /\ i.start \in LineNumbers
<1>1. Depth \in Nat /\ Depth <= MaxStack /\ stack \in Seq(ItemType)
  BY SizeFacts DEF Sound
<1>2. \A p \in 1 .. Depth : stack[p] \in ItemType
  BY <1>1 DEF Depth
<1> DEFINE K == ItemKinds
           L == LineNumbers
           V == SUBSET Valuations
<1>3. ItemType = [k : K, quad : L, true_list : SUBSET L, false_list : SUBSET L,
                  truth : V, start : L]
  BY DEF ItemType
<1> HIDE DEF K, L, V
<1>4. \A i \in ItemType : /\ i.k \in K /\ i.quad \in L /\ i.true_list \in SUBSET L
                          /\ i.false_list \in SUBSET L /\ i.truth \in V /\ i.start \in L
  BY <1>3
<1> QED
  BY <1>1, <1>2, <1>4 DEF K, L, V

\* An item is pushed inside a function.
LEMMA PushKeeps ==
    ASSUME Sound, Depth > 0, NEW i \in ItemType, Push(i), i.k # "function",
           i.k \in {"or", "and"} => Top.k = "expr", OwnsByKind(i)
    PROVE  StackOK(stack') /\ Shape'
<1>1. /\ stack' \in Seq(ItemType) /\ Len(stack') = Depth + 1 /\ Depth < MaxStack
      /\ stack'[Depth + 1] = i /\ \A p \in 1 .. Depth : stack'[p] = stack[p]
  BY StackItems, StackTyped
<1>2. Depth \in Nat /\ MaxStack \in Nat /\ Depth' = Depth + 1
  BY <1>1, SizeFacts DEF Sound, Depth
<1>3. ASSUME NEW p \in 1 .. Depth + 1
      PROVE  /\ stack'[p].k = "function" => p = 1
             /\ stack'[p].k \in {"or", "and"} => p > 1 /\ stack'[p - 1].k = "expr"
             /\ OwnsByKind(stack'[p])
  <2>1. CASE p \in 1 .. Depth
    <3>1. stack'[p] = stack[p] /\ (p > 1 => stack'[p - 1] = stack[p - 1])
      BY <1>1, <1>2, <2>1
    <3> QED
      BY <2>1, <3>1 DEF Sound, Shape
  <2>2. CASE p = Depth + 1
    <3>1. stack'[p] = i /\ stack'[p - 1] = Top /\ p > 1
      BY <1>1, <1>2, <2>2 DEF Top
    <3> QED
      BY <3>1
  <2> QED
    BY <1>2, <2>1, <2>2
<1>4. stack'[1].k = "function"
  BY <1>1, <1>2 DEF Sound, Shape
<1>5. Shape'
  BY <1>2, <1>3, <1>4 DEF Shape, OwnsByKind
<1> QED
  BY <1>1, <1>2, <1>5 DEF StackOK

\* The innermost n items become one; the function's own stays.
LEMMA ReplaceKeeps ==
    ASSUME Sound, NEW n \in 1 .. Depth - 1, NEW i \in ItemType, Replace(n, i),
           i.k \notin {"function", "or", "and"}, OwnsByKind(i)
    PROVE  StackOK(stack') /\ Shape'
<1> DEFINE q == Depth - n + 1
<1>1. /\ stack' \in Seq(ItemType) /\ Len(stack') = q
      /\ stack'[q] = i /\ \A p \in 1 .. q - 1 : stack'[p] = stack[p]
  BY StackItems, StackTyped
<1>2. Depth \in Nat /\ MaxStack \in Nat /\ Depth' = q /\ q \in 2 .. Depth /\ Depth <= MaxStack
  BY <1>1, SizeFacts DEF Sound, Depth
<1> HIDE DEF q
<1>3. ASSUME NEW p \in 1 .. q
      PROVE  /\ stack'[p].k = "function" => p = 1
             /\ stack'[p].k \in {"or", "and"} => p > 1 /\ stack'[p - 1].k = "expr"
             /\ OwnsByKind(stack'[p])
  <2>1. CASE p \in 1 .. q - 1
    <3>1. stack'[p] = stack[p] /\ (p > 1 => stack'[p - 1] = stack[p - 1]) /\ p \in 1 .. Depth
      BY <1>1, <1>2, <2>1
    <3> QED
      BY <3>1 DEF Sound, Shape
  <2>2. CASE p = q
    BY <1>1, <2>2
  <2> QED
    BY <1>2, <2>1, <2>2
<1>4. stack'[1].k = "function"
  BY <1>1, <1>2 DEF Sound, Shape
<1>5. Shape'
  BY <1>2, <1>3, <1>4 DEF Shape, OwnsByKind
<1> QED
  BY <1>1, <1>2, <1>5 DEF StackOK

\* Items are popped.
LEMMA PopKeeps ==
    ASSUME Sound, NEW n \in 0 .. Depth, Pop(n)
    PROVE  StackOK(stack') /\ Shape'
<1> DEFINE q == Depth - n
<1>1. stack' \in Seq(ItemType) /\ Len(stack') = q /\ \A p \in 1 .. q : stack'[p] = stack[p]
  BY StackItems, StackTyped
<1>2. Depth \in Nat /\ MaxStack \in Nat /\ Depth' = q /\ q \in 0 .. Depth /\ Depth <= MaxStack
  BY <1>1, SizeFacts DEF Sound, Depth
<1> HIDE DEF q
<1>3. ASSUME NEW p \in 1 .. q
      PROVE  /\ stack'[p].k = "function" => p = 1
             /\ stack'[p].k \in {"or", "and"} => p > 1 /\ stack'[p - 1].k = "expr"
             /\ OwnsByKind(stack'[p])
  <2>1. stack'[p] = stack[p] /\ (p > 1 => stack'[p - 1] = stack[p - 1]) /\ p \in 1 .. Depth
    BY <1>1, <1>2
  <2> QED
    BY <2>1 DEF Sound, Shape
<1>4. q > 0 => stack'[1].k = "function"
  BY <1>1, <1>2 DEF Sound, Shape
<1>5. Shape'
  BY <1>2, <1>3, <1>4 DEF Shape, OwnsByKind
<1> QED
  BY <1>1, <1>2, <1>5 DEF StackOK

\* Under an operand is its opener, with no jumps of its own, and under that
\* the function at least; under OR and AND is the left operand.
LEMMA OperandOnTop ==
    ASSUME Sound, NEW o \in Openers, HasOperand(o)
    PROVE  /\ Depth > 2 /\ Depth \in Nat /\ Top \in ItemType /\ Under \in ItemType
           /\ Top.k = "expr" /\ Top = stack[Depth] /\ Under = stack[Depth - 1]
           /\ Under.true_list = {} /\ Under.false_list = {}
           /\ o \in {"or", "and"} => Depth > 3 /\ Left \in ItemType /\ Left.k = "expr"
<1>1. /\ Depth > 1 /\ Top.k = "expr" /\ Under.k = o /\ Depth \in Nat
      /\ Top = stack[Depth] /\ Under = stack[Depth - 1]
  BY StackItems DEF HasOperand, Top, Under
<1>2. Under.k # "function" /\ Under.true_list = {} /\ Under.false_list = {}
  BY <1>1, Kinds DEF Sound, Shape, OwnsByKind
<1>3. Depth - 1 # 1
  BY <1>1, <1>2 DEF Sound, Shape
<1>4. Top \in ItemType /\ Under \in ItemType
  BY <1>1, StackItems
<1>5. ASSUME o \in {"or", "and"} PROVE Depth > 3 /\ Left \in ItemType /\ Left.k = "expr"
  <2>1. stack[Depth - 2].k = "expr"
    BY <1>1, <1>5 DEF Sound, Shape
  <2>2. Depth - 2 # 1
    BY <1>1, <2>1 DEF Sound, Shape
  <2> QED
    BY <1>1, <1>3, <2>1, <2>2, StackItems DEF Left
<1> QED
  BY <1>1, <1>2, <1>3, <1>4, <1>5

-----------------------------------------------------------------------------
(* Every action keeps the types and the shape                              *)

\* What is left to show of an action that changes no flag and ends no function.
LEMMA SoundStep ==
    ASSUME Sound, workload' = workload, error_reported' = error_reported,
           functions' = functions, NEW n \in Nat, n <= IR_ARRAY_SIZE, CodeUpTo(IR', n),
           StackOK(stack') /\ Shape', abandoned' \subseteq LineNumbers
    PROVE  Sound'
<1>1. CodeOK(IR')
  BY CodeFits DEF Sound
<1>2. error_reported' \in BOOLEAN /\ functions' \subseteq FunctionType
  BY TypeParts DEF Sound
<1>3. TypeOK'
  BY <1>1, <1>2, TypeStep DEF Sound
<1> QED
  BY <1>3 DEF Sound

\* An action that leaves IR and the jumps without owner alone.
LEMMA SoundNoCode ==
    ASSUME Sound, UNCHANGED <<IR, error_reported, decided, functions, abandoned, workload>>,
           StackOK(stack') /\ Shape'
    PROVE  Sound'
<1>1. CodeUpTo(IR', nextinstr) /\ nextinstr \in Nat /\ nextinstr <= IR_ARRAY_SIZE
      /\ abandoned' \subseteq LineNumbers
  BY CodeFits, SizeFacts, TypeParts DEF Sound
<1> QED
  BY <1>1, SoundStep

\* An action that leaves the stack alone.
LEMMA SameStack ==
    ASSUME Sound, UNCHANGED <<stack, workload>>
    PROVE  StackOK(stack') /\ Shape'
<1>1. StackOK(stack)
  BY TypeParts DEF Sound
<1>2. Shape' = Shape
  BY DEF Shape, OwnsByKind, Depth
<1> QED
  BY <1>1, <1>2 DEF Sound

\* Lines that a step makes room for.
LEMMA RoomFor ==
    ASSUME Sound, NEW n \in Nat, Room(n)
    PROVE  /\ \A m \in 0 .. n : nextinstr + m \in LineNumbers /\ nextinstr + m \in Nat
           /\ nextinstr + n <= IR_ARRAY_SIZE
           /\ nextinstr \in Nat /\ nextinstr \in LineNumbers
BY SizeFacts DEF Sound, Room, LineNumbers

\* An expression that begins on a line, with its two jumps.
LEMMA ExpressionTyped ==
    ASSUME Sound, NEW cond \in SUBSET Valuations, NEW start \in LineNumbers, Room(2)
    PROVE  Expression(cond, start) \in ItemType /\ Expression(cond, start).k = "expr"
<1>1. {nextinstr} \in SUBSET LineNumbers /\ {nextinstr + 1} \in SUBSET LineNumbers
  BY RoomFor
<1> DEFINE e == Item("expr")
           f == [e EXCEPT !.true_list = {nextinstr}, !.false_list = {nextinstr + 1},
                          !.truth = cond, !.start = start]
<1>2. e \in ItemType /\ e.k = "expr"
  BY ItemTyped, Kinds DEF Sound, Item
<1>3. Expression(cond, start) = f
  BY DEF Expression, makeList
<1> HIDE DEF e
<1>4. f.k = "expr"
  BY <1>2
<1>5. f \in ItemType
  BY <1>1, <1>2, ItemUpdate
<1> QED
  BY <1>3, <1>4, <1>5

\* A condition.
LEMMA AtomicSound ==
    ASSUME Sound, NEW cond \in SUBSET Valuations, Atomic(cond)
    PROVE  Sound'
<1>1. nextinstr + 2 <= IR_ARRAY_SIZE /\ nextinstr \in LineNumbers /\ nextinstr + 2 \in Nat
  BY RoomFor DEF Atomic
<1>2. CodeUpTo(IR', nextinstr + 2)
  BY <1>1, CodeFits, Grow, SizeFacts DEF Atomic, Sound
<1>3. /\ Expression(cond, nextinstr) \in ItemType /\ Expression(cond, nextinstr).k = "expr"
      /\ OwnsByKind(Expression(cond, nextinstr))
  BY <1>1, ExpressionTyped DEF Atomic, OwnsByKind
<1>4. StackOK(stack') /\ Shape'
  BY <1>3, PushKeeps DEF Atomic, ExpectsExpression
<1>5. abandoned' \subseteq LineNumbers
  BY TypeParts DEF Atomic, Sound
<1> QED
  BY <1>1, <1>2, <1>4, <1>5, SoundStep DEF Atomic

\* The opener of an operand or of a statement.
LEMMA OpenerSound ==
    ASSUME Sound,
           \/ \E op \in {"or", "and"} : Operator(op)
           \/ Negation \/ BeginArgument
           \/ \E op \in Openers \union {"block"} : op \notin {"or", "and"} /\ Begin(op, op)
    PROVE  Sound'
<1>1. PICK op \in Openers \union {"block"} :
         /\ Depth > 0 /\ Push(Item(op))
         /\ op \in {"or", "and"} => Top.k = "expr"
         /\ UNCHANGED <<IR, error_reported, decided, functions, abandoned, workload>>
  BY DEF Operator, Negation, BeginArgument, Begin, ExpectsExpression, InBody, Openers
<1>2. /\ Item(op) \in ItemType /\ Item(op).k = op /\ op # "function"
      /\ OwnsByKind(Item(op))
  BY ItemTyped DEF Sound, ItemKinds, Openers, Bodies, OwnsByKind, Item
<1>3. StackOK(stack') /\ Shape'
  BY <1>1, <1>2, PushKeeps
<1> QED
  BY <1>1, <1>3, SoundNoCode

\* OR, AND and NOT.
LEMMA ReduceSound ==
    ASSUME Sound, ReduceOr \/ ReduceAnd \/ ReduceNot
    PROVE  Sound'
<1>0. Sound => TypeOK
  BY DEF Sound
<1>1. CASE ReduceOr
  <2> DEFINE e == [Left EXCEPT !.false_list = Top.false_list,
                               !.true_list = mergeList(Left.true_list, Top.true_list),
                               !.truth = Left.truth \union Top.truth]
  <2>1. /\ Depth > 3 /\ Depth \in Nat /\ Left \in ItemType /\ Left.k = "expr"
        /\ Top \in ItemType /\ Under \in ItemType
    BY <1>1, OperandOnTop DEF ReduceOr, Openers
  <2>2. e \in ItemType /\ e.k = "expr"
    <3>1. /\ Top.false_list \in SUBSET LineNumbers
          /\ mergeList(Left.true_list, Top.true_list) \in SUBSET LineNumbers
          /\ Left.truth \union Top.truth \in SUBSET Valuations
      BY <2>1, StackItems DEF mergeList
    <3>2. e \in ItemType
      BY <2>1, <3>1, ItemUpdate
    <3>3. e.k = Left.k
      BY <2>1 DEF ItemType
    <3> QED
      BY <2>1, <3>2, <3>3
  <2>3. Replace(3, e)
    BY <1>1 DEF ReduceOr
  <2> HIDE DEF e
  <2>4. StackOK(stack') /\ Shape'
    BY <2>1, <2>2, <2>3, ReplaceKeeps DEF OwnsByKind
  <2>5. CodeUpTo(IR', nextinstr) /\ nextinstr \in Nat /\ nextinstr <= IR_ARRAY_SIZE
    BY <1>0, <1>1, <2>1, StackItems, CodeFits, Grow, SizeFacts DEF ReduceOr
  <2>6. abandoned' \subseteq LineNumbers
    BY <1>0, <1>1, TypeParts DEF ReduceOr
  <2> QED
    BY <1>1, <2>4, <2>5, <2>6, SoundStep DEF ReduceOr
<1>2. CASE ReduceAnd
  <2> DEFINE e == [Left EXCEPT !.true_list = Top.true_list,
                               !.false_list = mergeList(Left.false_list, Top.false_list),
                               !.truth = Left.truth \intersect Top.truth]
  <2>1. /\ Depth > 3 /\ Depth \in Nat /\ Left \in ItemType /\ Left.k = "expr"
        /\ Top \in ItemType /\ Under \in ItemType
    BY <1>2, OperandOnTop DEF ReduceAnd, Openers
  <2>2. e \in ItemType /\ e.k = "expr"
    <3>1. /\ Top.true_list \in SUBSET LineNumbers
          /\ mergeList(Left.false_list, Top.false_list) \in SUBSET LineNumbers
          /\ Left.truth \intersect Top.truth \in SUBSET Valuations
      BY <2>1, StackItems DEF mergeList
    <3>2. e \in ItemType
      BY <2>1, <3>1, ItemUpdate
    <3>3. e.k = Left.k
      BY <2>1 DEF ItemType
    <3> QED
      BY <2>1, <3>2, <3>3
  <2>3. Replace(3, e)
    BY <1>2 DEF ReduceAnd
  <2> HIDE DEF e
  <2>4. StackOK(stack') /\ Shape'
    BY <2>1, <2>2, <2>3, ReplaceKeeps DEF OwnsByKind
  <2>5. CodeUpTo(IR', nextinstr) /\ nextinstr \in Nat /\ nextinstr <= IR_ARRAY_SIZE
    BY <1>0, <1>2, <2>1, StackItems, CodeFits, Grow, SizeFacts DEF ReduceAnd
  <2>6. abandoned' \subseteq LineNumbers
    BY <1>0, <1>2, TypeParts DEF ReduceAnd
  <2> QED
    BY <1>2, <2>4, <2>5, <2>6, SoundStep DEF ReduceAnd
<1>3. CASE ReduceNot
  <2> DEFINE e == [Top EXCEPT !.true_list = Top.false_list, !.false_list = Top.true_list,
                              !.truth = Valuations \ Top.truth]
  <2>1. Depth > 2 /\ Depth \in Nat /\ Top \in ItemType /\ Top.k = "expr"
    BY <1>3, OperandOnTop DEF ReduceNot, Openers
  <2>2. e \in ItemType /\ e.k = "expr"
    <3>1. /\ Top.true_list \in SUBSET LineNumbers /\ Top.false_list \in SUBSET LineNumbers
          /\ Valuations \ Top.truth \in SUBSET Valuations
      BY <2>1, StackItems
    <3>2. e \in ItemType
      BY <2>1, <3>1, ItemUpdate
    <3>3. e.k = Top.k
      BY <2>1 DEF ItemType
    <3> QED
      BY <2>1, <3>2, <3>3
  <2>3. Replace(2, e)
    BY <1>3 DEF ReduceNot
  <2> HIDE DEF e
  <2>4. StackOK(stack') /\ Shape'
    BY <2>1, <2>2, <2>3, ReplaceKeeps DEF OwnsByKind
  <2> QED
    BY <1>3, <2>4, SoundNoCode DEF ReduceNot
<1> QED
  BY <1>1, <1>2, <1>3

\* Jumps that are abandoned are lines of the array.
LEMMA AbandonTyped ==
    ASSUME Sound, NEW list \in SUBSET LineNumbers, Abandon(list)
    PROVE  abandoned' \subseteq LineNumbers
BY TypeParts DEF Sound, Abandon

\* An expression whose two jumps are on lines t and t + 1.
LEMMA ResultTyped ==
    ASSUME Sound, NEW cond \in SUBSET Valuations, Room(2), NEW t \in LineNumbers,
           t + 1 \in LineNumbers
    PROVE  LET f == [Expression(cond, nextinstr) EXCEPT !.true_list = makeList(t),
                                                        !.false_list = makeList(t + 1)]
           IN  f \in ItemType /\ f.k = "expr" /\ OwnsByKind(f) /\ f.truth = cond
               /\ f.true_list = {t} /\ f.false_list = {t + 1}
               /\ f.quad = nextinstr /\ f.start = nextinstr
<1> DEFINE e == Expression(cond, nextinstr)
           f == [e EXCEPT !.true_list = {t}, !.false_list = {t + 1}]
<1>1. nextinstr \in LineNumbers /\ {t} \in SUBSET LineNumbers /\ {t + 1} \in SUBSET LineNumbers
  BY RoomFor
<1>2. e \in ItemType /\ e.k = "expr"
  BY <1>1, ExpressionTyped
<1>3. e.quad = nextinstr /\ e.start = nextinstr /\ e.truth = cond
  BY DEF Expression, Item
<1> HIDE DEF e
<1>4. f = [e EXCEPT !.true_list = {t}, !.false_list = {t + 1}, !.truth = cond]
  BY <1>2, <1>3 DEF ItemType
<1> DEFINE T == {t}
           F == {t + 1}
<1>5. f \in ItemType
  <2>1. f = [e EXCEPT !.true_list = T, !.false_list = F, !.truth = cond]
    BY <1>4
  <2>2. T \in SUBSET LineNumbers /\ F \in SUBSET LineNumbers
    BY <1>1
  <2> HIDE DEF T, F, f
  <2> QED
    BY <1>2, <2>1, <2>2, ItemUpdate
<1>6. f.k = "expr" /\ f.true_list = {t} /\ f.false_list = {t + 1} /\ f.truth = cond
      /\ f.quad = nextinstr /\ f.start = nextinstr
  BY <1>2, <1>3 DEF ItemType
<1> HIDE DEF f
<1>7. f \in ItemType /\ f.k = "expr" /\ OwnsByKind(f) /\ f.truth = cond
      /\ f.true_list = {t} /\ f.false_list = {t + 1}
      /\ f.quad = nextinstr /\ f.start = nextinstr
  BY <1>5, <1>6 DEF OwnsByKind
<1> QED
  BY <1>7 DEF f, e, makeList

\* A comparison of two Boolean variables.
LEMMA CompareBooleansSound ==
    ASSUME Sound, NEW a \in Atoms, NEW b \in Atoms, CompareBooleans(a, b)
    PROVE  Sound'
<1> DEFINE ca == {v \in Valuations : a \in v}
           cb == {v \in Valuations : b \in v}
           both == {v \in Valuations : (a \in v) <=> (b \in v)}
           one == TwoWay(IR, ca)
           operands == TwoWay(one, cb)
           n == Len(operands)
           f == [Expression(both, nextinstr) EXCEPT !.true_list = makeList(n),
                                                    !.false_list = makeList(n + 1)]
<1>1. /\ ca \in SUBSET Valuations /\ cb \in SUBSET Valuations /\ both \in SUBSET Valuations
      /\ Room(6) /\ IR' = TwoWay(operands, both) /\ Push(f) /\ Depth > 0
      /\ Abandon(nextinstr .. nextinstr + 3)
      /\ UNCHANGED <<error_reported, decided, functions, workload>>
  BY DEF CompareBooleans, ExpectsExpression
<1> HIDE DEF ca, cb, both
<1>2. /\ nextinstr \in Nat /\ nextinstr + 2 \in Nat /\ nextinstr + 4 \in Nat
      /\ nextinstr + 6 \in Nat /\ nextinstr + 6 <= IR_ARRAY_SIZE /\ Room(2)
      /\ IR_ARRAY_SIZE \in Nat
  BY <1>1, SizeFacts DEF Sound, Room
<1>3. CodeUpTo(one, nextinstr + 2)
  BY <1>1, <1>2, CodeFits, Grow DEF Sound
<1> HIDE DEF one
<1>4. CodeUpTo(operands, nextinstr + 2 + 2)
  BY <1>1, <1>2, <1>3, Grow DEF Sound
<1> HIDE DEF operands
<1>5. CodeUpTo(IR', nextinstr + 6)
  <2>1. CodeUpTo(operands, nextinstr + 4) /\ nextinstr + 4 + 2 = nextinstr + 6
    BY <1>2, <1>4
  <2>2. CodeUpTo(TwoWay(operands, both), nextinstr + 4 + 2)
    BY <1>1, <1>2, <2>1, Grow DEF Sound
  <2> QED
    BY <1>1, <2>1, <2>2
<1>6. n \in LineNumbers /\ n + 1 \in LineNumbers
  BY <1>2, <1>4 DEF CodeUpTo, LineNumbers
<1> HIDE DEF n
<1>7. f \in ItemType /\ f.k = "expr" /\ OwnsByKind(f)
  <2>1. Sound /\ both \in SUBSET Valuations /\ Room(2)
    BY <1>1, <1>2
  <2> QED
    BY <1>6, <2>1, ResultTyped
<1> HIDE DEF f
<1>8. StackOK(stack') /\ Shape'
  BY <1>1, <1>7, PushKeeps
<1>9. nextinstr .. nextinstr + 3 \in SUBSET LineNumbers
  BY <1>2 DEF LineNumbers
<1>10. abandoned' \subseteq LineNumbers
  BY <1>1, <1>9, AbandonTyped
<1> QED
  BY <1>1, <1>2, <1>5, <1>8, <1>10, SoundStep

\* An argument whose lists are left behind.
LEMMA PackedArgumentSound ==
    ASSUME Sound, NEW a \in Atoms, NEW b \in Atoms, PackedArgument(a, b)
    PROVE  Sound'
<1> DEFINE cond == {v \in Valuations : a \in v}
           cb == {v \in Valuations : b \in v}
           one == TwoWay(IR, cb)
           is == <<Plain("param"), Plain("call")>>
           called == EmitAll(one, is)
           n == Len(called)
           f == [Expression(cond, nextinstr) EXCEPT !.true_list = makeList(n),
                                                    !.false_list = makeList(n + 1)]
<1>1. /\ cond \in SUBSET Valuations /\ cb \in SUBSET Valuations
      /\ Room(6) /\ IR' = TwoWay(called, cond) /\ Push(f) /\ Depth > 0
      /\ Abandon(nextinstr .. nextinstr + 1)
      /\ UNCHANGED <<error_reported, decided, functions, workload>>
  BY DEF PackedArgument, ExpectsExpression
<1> HIDE DEF cond, cb
<1>2. /\ nextinstr \in Nat /\ nextinstr + 2 \in Nat /\ nextinstr + 4 \in Nat
      /\ nextinstr + 6 \in Nat /\ nextinstr + 6 <= IR_ARRAY_SIZE /\ Room(2)
      /\ IR_ARRAY_SIZE \in Nat
  BY <1>1, SizeFacts DEF Sound, Room
<1>3. CodeUpTo(one, nextinstr + 2)
  BY <1>1, <1>2, CodeFits, Grow DEF Sound
<1> HIDE DEF one
<1>4. CodeUpTo(called, nextinstr + 4)
  <2>1. is \in Seq(InstructionType) /\ Len(is) = 2
    BY InstructionTyped DEF Sound
  <2> HIDE DEF is
  <2>2. CodeUpTo(called, nextinstr + 2 + 2)
    BY <1>2, <1>3, <2>1, Grow DEF Sound
  <2>3. nextinstr + 2 + 2 = nextinstr + 4
    BY <1>2
  <2> QED
    BY <2>2, <2>3
<1> HIDE DEF called
<1>5. CodeUpTo(IR', nextinstr + 6)
  <2>1. CodeUpTo(TwoWay(called, cond), nextinstr + 4 + 2)
    BY <1>1, <1>2, <1>4, Grow DEF Sound
  <2>2. nextinstr + 4 + 2 = nextinstr + 6
    BY <1>2
  <2> QED
    BY <1>1, <2>1, <2>2
<1>6. n \in LineNumbers /\ n + 1 \in LineNumbers
  BY <1>2, <1>4 DEF CodeUpTo, LineNumbers
<1> HIDE DEF n
<1>7. f \in ItemType /\ f.k = "expr" /\ OwnsByKind(f)
  <2>1. Sound /\ cond \in SUBSET Valuations /\ Room(2)
    BY <1>1, <1>2
  <2> QED
    BY <1>6, <2>1, ResultTyped
<1> HIDE DEF f
<1>8. StackOK(stack') /\ Shape'
  BY <1>1, <1>7, PushKeeps
<1>9. nextinstr .. nextinstr + 1 \in SUBSET LineNumbers
  BY <1>2 DEF LineNumbers
<1>10. abandoned' \subseteq LineNumbers
  BY <1>1, <1>9, AbandonTyped
<1> QED
  BY <1>1, <1>2, <1>5, <1>8, <1>10, SoundStep

\* A Boolean argument, and the call.
LEMMA EndArgumentSound ==
    ASSUME Sound, NEW a \in Atoms, EndArgument(a)
    PROVE  Sound'
<1> DEFINE cond == {v \in Valuations : a \in v}
           stored == Stored(Top, "param")
           called == Emit(stored, Plain("call"))
           n == Len(called)
           e == Item("expr")
           q == Under.quad
           f == [e EXCEPT !.true_list = makeList(n), !.false_list = makeList(n + 1),
                          !.truth = cond, !.start = n, !.quad = q]
<1>1. /\ cond \in SUBSET Valuations /\ HasOperand("argument")
      /\ Room(6) /\ IR' = TwoWay(called, cond) /\ Replace(2, f)
      /\ UNCHANGED <<error_reported, functions, abandoned, workload>>
  BY DEF EndArgument
<1>2. /\ Depth > 2 /\ Depth \in Nat /\ Under \in ItemType
  BY <1>1, OperandOnTop DEF Openers
<1> HIDE DEF cond
<1>3. /\ nextinstr \in Nat /\ nextinstr + 3 \in Nat /\ nextinstr + 4 \in Nat
      /\ nextinstr + 6 \in Nat /\ nextinstr + 6 <= IR_ARRAY_SIZE /\ Room(3)
      /\ IR_ARRAY_SIZE \in Nat
  BY <1>1, SizeFacts DEF Sound, Room
<1>4. CodeUpTo(stored, nextinstr + 3)
  BY <1>3, StoredFits DEF Sound
<1> HIDE DEF stored
<1>5. CodeUpTo(called, nextinstr + 4)
  <2>1. CodeUpTo(called, nextinstr + 3 + 1)
    BY <1>3, <1>4, Grow, InstructionTyped DEF Sound
  <2>2. nextinstr + 3 + 1 = nextinstr + 4
    BY <1>3
  <2> QED
    BY <2>1, <2>2
<1> HIDE DEF called
<1>6. CodeUpTo(IR', nextinstr + 6)
  <2>1. CodeUpTo(TwoWay(called, cond), nextinstr + 4 + 2)
    BY <1>1, <1>3, <1>5, Grow DEF Sound
  <2>2. nextinstr + 4 + 2 = nextinstr + 6
    BY <1>3
  <2> QED
    BY <1>1, <2>1, <2>2
<1>7. n \in LineNumbers /\ n + 1 \in LineNumbers
  BY <1>3, <1>5 DEF CodeUpTo, LineNumbers
<1> HIDE DEF n
<1>8. q \in LineNumbers /\ e \in ItemType /\ e.k = "expr"
  BY <1>2, StackItems, ItemTyped, Kinds DEF Sound, Item
<1> HIDE DEF e, q
<1>9. f \in ItemType
  <2>1. makeList(n) \in SUBSET LineNumbers /\ makeList(n + 1) \in SUBSET LineNumbers
    BY <1>7 DEF makeList
  <2> QED
    BY <1>1, <1>7, <1>8, <2>1, ItemUpdate
<1>10. f.k = "expr"
  BY <1>8 DEF ItemType
<1> HIDE DEF f
<1>11. StackOK(stack') /\ Shape'
  BY <1>1, <1>2, <1>9, <1>10, ReplaceKeeps DEF OwnsByKind
<1>12. abandoned' \subseteq LineNumbers
  BY <1>1, TypeParts DEF Sound
<1> QED
  BY <1>1, <1>3, <1>6, <1>11, <1>12, SoundStep

\* Statements without nested statements, but for array writes.
LEMMA StatementSound ==
    ASSUME Sound,
           (\E op \in {"assign", "return"} : Simple(op)) \/ Assign \/ Return
    PROVE  Sound'
<1>0. abandoned \subseteq LineNumbers /\ TypeOK
  BY TypeParts DEF Sound
<1>1. ASSUME NEW op \in {"assign", "return"}, Simple(op) PROVE Sound'
  <2>1. nextinstr + 1 \in Nat /\ nextinstr \in Nat /\ nextinstr + 1 <= IR_ARRAY_SIZE
    BY <1>0, <1>1, SizeFacts DEF Simple, Room
  <2>2. CodeUpTo(IR', nextinstr + 1)
    BY <1>0, <1>1, <2>1, CodeFits, Grow, InstructionTyped DEF Simple
  <2>3. StackOK(stack') /\ Shape'
    BY <1>1, SameStack DEF Simple
  <2> QED
    BY <1>0, <1>1, <2>1, <2>2, <2>3, SoundStep DEF Simple
<1>2. ASSUME Assign PROVE Sound'
  <2>1. /\ nextinstr + 3 \in Nat /\ nextinstr \in Nat /\ nextinstr + 3 <= IR_ARRAY_SIZE
        /\ Room(3)
    BY <1>0, <1>2, SizeFacts DEF Assign, Room
  <2>2. CodeUpTo(IR', nextinstr + 3)
    BY <1>0, <1>2, <2>1, StoredFits DEF Assign
  <2>3. Depth > 2 /\ Depth \in Nat
    BY <1>2, OperandOnTop DEF Assign, Openers
  <2>4. StackOK(stack') /\ Shape'
    BY <1>2, <2>3, PopKeeps DEF Assign
  <2> QED
    BY <1>0, <1>2, <2>1, <2>2, <2>4, SoundStep DEF Assign
<1>3. ASSUME Return PROVE Sound'
  <2> DEFINE c1 == backpatch(IR, Top.true_list, nextinstr)
             c2 == Emit(c1, Plain("return"))
             c3 == backpatch(c2, Top.false_list, nextinstr + 1)
  <2>1. /\ nextinstr + 2 \in Nat /\ nextinstr + 1 \in Nat /\ nextinstr \in Nat
        /\ nextinstr + 2 <= IR_ARRAY_SIZE /\ IR_ARRAY_SIZE \in Nat
        /\ IR' = Emit(c3, Plain("return"))
    BY <1>0, <1>3, SizeFacts DEF Return, Room
  <2>2. nextinstr \in LineNumbers /\ nextinstr + 1 \in LineNumbers
        /\ Plain("return") \in InstructionType
    BY <1>0, <2>1, InstructionTyped DEF LineNumbers
  <2>3. CodeUpTo(c1, nextinstr)
    BY <1>0, <2>1, <2>2, CodeFits, Grow
  <2> HIDE DEF c1
  <2>4. CodeUpTo(c2, nextinstr + 1)
    BY <1>0, <2>1, <2>2, <2>3, Grow
  <2> HIDE DEF c2
  <2>5. CodeUpTo(c3, nextinstr + 1)
    BY <1>0, <2>1, <2>2, <2>4, Grow
  <2> HIDE DEF c3
  <2>6. CodeUpTo(IR', nextinstr + 2)
    <3>1. CodeUpTo(IR', nextinstr + 1 + 1) /\ nextinstr + 1 + 1 = nextinstr + 2
      BY <1>0, <2>1, <2>2, <2>5, Grow
    <3> QED
      BY <3>1
  <2>7. Depth > 2 /\ Depth \in Nat
    BY <1>3, OperandOnTop DEF Return, Openers
  <2>8. StackOK(stack') /\ Shape'
    BY <1>3, <2>7, PopKeeps DEF Return
  <2> QED
    BY <1>0, <1>3, <2>1, <2>6, <2>8, SoundStep DEF Return
<1> QED
  BY <1>1, <1>2, <1>3

\* An array write with its bounds checks.
LEMMA IndexedWriteSound ==
    ASSUME Sound, NEW d \in 1 .. 2,
           NEW lo \in [1 .. d -> SUBSET Valuations], NEW hi \in [1 .. d -> SUBSET Valuations],
           IndexedWrite(lo, hi)
    PROVE  Sound'
<1> DEFINE n == nextinstr
           check(k) == <<Plain("read"), JumpIf(lo[k]), JumpIf(hi[k]), GotoIR>>
           first == EmitAll(IR, check(1))
           safe1 == backpatch(first, makeList(n + 2), n + 4)
           crash1 == insertToList(makeList(n + 1), n + 3)
           second == EmitAll(safe1, check(2))
           patched == backpatch(second, makeList(n + 6), n + 8)
           computes == <<Plain("compute"), Plain("compute")>>
           safe2 == EmitAll(patched, computes)
           crash2 == insertToList(insertToList(crash1, n + 5), n + 7)
           checked == IF Len(lo) = 1 THEN safe1 ELSE safe2
           crash_list == IF Len(lo) = 1 THEN crash1 ELSE crash2
           m == n + IF Len(lo) = 1 THEN 4 ELSE 10
           jump == <<Plain("compute"), Plain("compute"), GotoIR>>
           offset == EmitAll(checked, jump)
           pre == backpatch(offset, crash_list, m + 3)
           crash == Emit(pre, Plain("crash"))
           last == backpatch(crash, makeList(m + 2), m + 4)
<1>1. /\ Room(m + 5 - n) /\ IR' = Emit(last, Plain("write"))
      /\ UNCHANGED <<error_reported, stack, functions, abandoned, workload>>
  BY DEF IndexedWrite
<1>2. Len(lo) = d /\ TypeOK /\ abandoned \subseteq LineNumbers
  BY TypeParts DEF Sound
<1>3. /\ n \in Nat /\ m \in Nat /\ m + 3 \in Nat /\ m + 4 \in Nat /\ m + 5 \in Nat
      /\ m + 5 <= IR_ARRAY_SIZE /\ IR_ARRAY_SIZE \in Nat
      /\ m = n + IF d = 1 THEN 4 ELSE 10
  <2>1. n \in Nat /\ IR_ARRAY_SIZE \in Nat
    BY <1>2, SizeFacts
  <2>2. m = n + IF d = 1 THEN 4 ELSE 10
    BY <1>2
  <2>3. n + (m + 5 - n) <= IR_ARRAY_SIZE
    BY <1>1 DEF Room
  <2> HIDE DEF n, m
  <2> QED
    BY <2>1, <2>2, <2>3
<1>4. /\ n + 4 \in LineNumbers /\ m + 3 \in LineNumbers /\ m + 4 \in LineNumbers
      /\ d = 2 => n + 8 \in LineNumbers
      /\ n + 4 \in Nat /\ n + 8 \in Nat /\ n + 10 \in Nat
  BY <1>3 DEF LineNumbers
<1>5. ASSUME NEW k \in 1 .. d
      PROVE  check(k) \in Seq(InstructionType) /\ Len(check(k)) = 4
  <2>1. /\ JumpIf(lo[k]) \in InstructionType /\ JumpIf(hi[k]) \in InstructionType
        /\ GotoIR \in InstructionType /\ Plain("read") \in InstructionType
    BY <1>2, InstructionTyped
  <2> QED
    BY <2>1
<1>6. /\ jump \in Seq(InstructionType) /\ Len(jump) = 3
      /\ computes \in Seq(InstructionType) /\ Len(computes) = 2
      /\ Plain("crash") \in InstructionType /\ Plain("write") \in InstructionType
  <2>1. /\ GotoIR \in InstructionType /\ Plain("compute") \in InstructionType
        /\ Plain("crash") \in InstructionType /\ Plain("write") \in InstructionType
    BY <1>2, InstructionTyped
  <2> QED
    BY <2>1
<1> HIDE DEF check, jump, computes, n, m, crash_list
<1>7. CodeUpTo(first, n + 4)
  <2>1. CodeUpTo(IR, n) /\ check(1) \in Seq(InstructionType) /\ Len(check(1)) = 4
    BY <1>2, <1>5, CodeFits DEF n
  <2> QED
    BY <1>2, <1>3, <2>1, Grow
<1> HIDE DEF first
<1>8. CodeUpTo(safe1, n + 4)
  BY <1>2, <1>4, <1>7, Grow
<1> HIDE DEF safe1
<1>9. CodeUpTo(checked, m)
  <2>1. CASE d = 1
    BY <1>2, <1>3, <1>8, <2>1
  <2>2. CASE d = 2
    <3>1. check(2) \in Seq(InstructionType) /\ Len(check(2)) = 4
      BY <1>5, <2>2
    <3>2. CodeUpTo(second, n + 8)
      <4>1. PICK is \in Seq(InstructionType) : is = check(2) /\ Len(is) = 4
        BY <3>1
      <4>2. CodeUpTo(EmitAll(safe1, is), n + 4 + Len(is))
        BY <1>2, <1>4, <1>8, Grow
      <4>3. n \in Nat
        BY <1>3
      <4>4. n + 4 + 4 = n + 8
        BY <4>3
      <4> QED
        BY <4>1, <4>2, <4>4
    <3> HIDE DEF second
    <3>3. CodeUpTo(patched, n + 8)
      BY <1>2, <1>4, <2>2, <3>2, Grow
    <3> HIDE DEF patched
    <3>4. CodeUpTo(safe2, n + 8 + Len(computes))
      BY <1>2, <1>4, <1>6, <3>3, Grow
    <3>5. n + 8 + Len(computes) = m
      BY <1>3, <1>6, <2>2
    <3> HIDE DEF safe2
    <3> QED
      BY <1>2, <2>2, <3>4, <3>5
  <2> QED
    BY <2>1, <2>2
<1> HIDE DEF checked
<1>10. CodeUpTo(offset, m + 3)
  BY <1>2, <1>3, <1>6, <1>9, Grow
<1> HIDE DEF offset
<1>11. CodeUpTo(pre, m + 3)
  BY <1>2, <1>3, <1>4, <1>10, Grow
<1> HIDE DEF pre
<1>12. CodeUpTo(crash, m + 4)
  <2>1. CodeUpTo(crash, m + 3 + 1) /\ m + 3 + 1 = m + 4
    BY <1>2, <1>3, <1>6, <1>11, Grow
  <2> QED
    BY <2>1
<1> HIDE DEF crash
<1>13. CodeUpTo(last, m + 4)
  BY <1>2, <1>3, <1>4, <1>12, Grow
<1> HIDE DEF last
<1>14. CodeUpTo(IR', m + 5)
  <2>1. CodeUpTo(IR', m + 4 + 1) /\ m + 4 + 1 = m + 5
    BY <1>1, <1>2, <1>3, <1>6, <1>13, Grow
  <2> QED
    BY <2>1
<1>15. StackOK(stack') /\ Shape'
  BY <1>1, SameStack
<1> QED
  BY <1>1, <1>2, <1>3, <1>14, <1>15, SoundStep

\* A body begins: the jumps that are taken when the condition holds lead to it.
LEMMA BodySound ==
    ASSUME Sound, WhileBody \/ ThenBody
    PROVE  Sound'
<1> DEFINE f(k) == [Item(k) EXCEPT !.false_list = Top.false_list, !.truth = Top.truth,
                                   !.start = Under.quad]
<1>1. PICK o \in {"while", "if"}, k \in {"while_body", "then"} :
        /\ HasOperand(o) /\ Replace(2, f(k))
        /\ IR' = backpatch(IR, Top.true_list, nextinstr)
        /\ UNCHANGED <<error_reported, functions, abandoned, workload>>
  BY DEF WhileBody, ThenBody
<1>2. Depth > 2 /\ Depth \in Nat /\ Top \in ItemType /\ Under \in ItemType
  BY <1>1, OperandOnTop DEF Openers
<1>3. f(k) \in ItemType /\ f(k).k = k /\ f(k).true_list = {}
  <2> DEFINE e == Item(k)
  <2>1. e \in ItemType /\ e.k = k /\ e.true_list = {}
    BY ItemTyped DEF Sound, Item, ItemKinds, Bodies
  <2>2. /\ Top.false_list \in SUBSET LineNumbers /\ Top.truth \in SUBSET Valuations
        /\ Under.quad \in LineNumbers
    BY <1>2, StackItems
  <2> HIDE DEF e
  <2>3. f(k) = [e EXCEPT !.false_list = Top.false_list, !.truth = Top.truth,
                         !.start = Under.quad]
    BY DEF e
  <2> DEFINE g == f(k)
             L == Top.false_list
             T == Top.truth
             Q == Under.quad
  <2>4. g = [e EXCEPT !.false_list = L, !.truth = T, !.start = Q]
    BY <2>3
  <2>5. f(k) \in ItemType
    <3>1. L \in SUBSET LineNumbers /\ T \in SUBSET Valuations /\ Q \in LineNumbers
      BY <2>2
    <3> HIDE DEF g, L, T, Q
    <3>2. g \in ItemType
      BY <2>1, <2>4, <3>1 DEF ItemType
    <3> QED
      BY <3>2 DEF g
  <2> QED
    BY <2>1, <2>3, <2>5 DEF ItemType
<1> HIDE DEF f
<1>4. StackOK(stack') /\ Shape'
  BY <1>1, <1>2, <1>3, ReplaceKeeps DEF OwnsByKind
<1>5. /\ TypeOK /\ nextinstr \in Nat /\ nextinstr <= IR_ARRAY_SIZE /\ nextinstr \in LineNumbers
      /\ abandoned \subseteq LineNumbers
  BY SizeFacts, TypeParts DEF Sound, LineNumbers
<1>6. CodeUpTo(IR', nextinstr)
  BY <1>1, <1>5, CodeFits, Grow
<1> QED
  BY <1>1, <1>4, <1>5, <1>6, SoundStep

\* Loops and branches end, or go over to ELSE.
LEMMA EndingSound ==
    ASSUME Sound, EndWhile \/ ElseBody \/ EndElse \/ EndBlock
    PROVE  Sound'
<1>0. /\ TypeOK /\ abandoned \subseteq LineNumbers /\ nextinstr \in Nat /\ IR_ARRAY_SIZE \in Nat
      /\ nextinstr <= IR_ARRAY_SIZE /\ nextinstr \in LineNumbers /\ Depth \in Nat
      /\ IR \in Seq(InstructionType)
  BY SizeFacts, TypeParts DEF Sound, LineNumbers
<1>1. ASSUME Depth > 0
      PROVE  Top \in ItemType /\ Top.start \in LineNumbers /\ Top = stack[Depth]
  BY <1>0, <1>1, StackItems DEF Top
<1>2. ASSUME EndWhile PROVE Sound'
  <2> DEFINE g == [GotoIR EXCEPT !.target = Top.start]
             looped == Emit(IR, g)
  <2>1. /\ Depth > 0 /\ nextinstr + 1 <= IR_ARRAY_SIZE /\ nextinstr + 1 \in Nat
        /\ Pop(1) /\ IR' = backpatch(looped, Top.false_list, Len(looped))
        /\ UNCHANGED <<error_reported, functions, abandoned, workload>>
    BY <1>0, <1>2 DEF EndWhile, BodyDone, Room
  <2>2. g \in InstructionType
    BY <1>0, <1>1, <2>1, InstructionTyped
  <2> HIDE DEF g
  <2>3. CodeUpTo(looped, nextinstr + 1)
    BY <1>0, <2>2, CodeFits, Grow
  <2>4. Len(looped) \in LineNumbers
    BY <1>0, <2>1, <2>3 DEF CodeUpTo, LineNumbers
  <2> HIDE DEF looped
  <2>5. CodeUpTo(IR', nextinstr + 1)
    BY <1>0, <2>1, <2>3, <2>4, Grow
  <2>6. StackOK(stack') /\ Shape'
    BY <1>0, <2>1, PopKeeps
  <2> QED
    BY <1>0, <2>1, <2>5, <2>6, SoundStep
<1>3. ASSUME ElseBody PROVE Sound'
  <2> DEFINE skipped == Emit(IR, GotoIR)
             n == Len(skipped)
             e == Item("else")
             f == [e EXCEPT !.true_list = makeList(nextinstr), !.quad = n,
                            !.start = nextinstr]
  <2>1. /\ Depth > 0 /\ Top.k = "then" /\ Room(1) /\ Replace(1, f)
        /\ IR' = backpatch(skipped, Top.false_list, n)
        /\ UNCHANGED <<error_reported, functions, abandoned, workload>>
    BY <1>3 DEF ElseBody, BodyDone
  <2>2. nextinstr + 1 <= IR_ARRAY_SIZE /\ nextinstr + 1 \in Nat
    BY <1>0, <2>1 DEF Room
  <2>3. CodeUpTo(skipped, nextinstr + 1)
    BY <1>0, CodeFits, Grow, InstructionTyped
  <2>4. n \in LineNumbers
    BY <1>0, <2>2, <2>3 DEF CodeUpTo, LineNumbers
  <2> HIDE DEF skipped, n
  <2>5. CodeUpTo(IR', nextinstr + 1)
    BY <1>0, <2>1, <2>2, <2>3, <2>4, Grow
  <2>6. f \in ItemType /\ f.k = "else" /\ f.false_list = {}
    <3>1. e \in ItemType /\ e.k = "else" /\ e.false_list = {}
      BY ItemTyped DEF Sound, Item, ItemKinds, Bodies
    <3>2. makeList(nextinstr) \in SUBSET LineNumbers /\ {} \in SUBSET LineNumbers
          /\ {} \in SUBSET Valuations
      BY <1>0 DEF makeList
    <3> HIDE DEF e
    <3>3. f \in ItemType
      BY <1>0, <2>4, <3>1, <3>2, ItemUpdate
    <3> QED
      BY <3>1, <3>3 DEF ItemType
  <2> HIDE DEF f
  <2>7. Depth > 1
    BY <1>0, <1>1, <2>1 DEF Sound, Shape
  <2>8. StackOK(stack') /\ Shape'
    BY <1>0, <2>1, <2>6, <2>7, ReplaceKeeps DEF OwnsByKind
  <2> QED
    BY <1>0, <2>1, <2>2, <2>5, <2>8, SoundStep
<1>4. ASSUME EndElse PROVE Sound'
  <2>1. CodeUpTo(IR', nextinstr)
    BY <1>0, <1>4, CodeFits, Grow DEF EndElse
  <2>2. StackOK(stack') /\ Shape'
    BY <1>0, <1>4, PopKeeps DEF EndElse, BodyDone
  <2> QED
    BY <1>0, <1>4, <2>1, <2>2, SoundStep DEF EndElse
<1>5. ASSUME EndBlock PROVE Sound'
  <2>1. StackOK(stack') /\ Shape'
    BY <1>0, <1>5, PopKeeps DEF EndBlock, BodyDone
  <2> QED
    BY <1>5, <2>1, SoundNoCode DEF EndBlock
<1> QED
  BY <1>2, <1>3, <1>4, <1>5

\* Functions begin and end; errors are reported.
LEMMA FunctionSound ==
    ASSUME Sound, BeginFunction \/ EndFunction \/ ReportError
    PROVE  Sound'
<1>0. /\ TypeOK /\ abandoned \subseteq LineNumbers /\ nextinstr \in Nat /\ IR_ARRAY_SIZE \in Nat
      /\ nextinstr <= IR_ARRAY_SIZE /\ nextinstr \in LineNumbers /\ Depth \in Nat
      /\ CodeOK(IR) /\ functions \subseteq FunctionType /\ error_reported \in BOOLEAN
  BY SizeFacts, TypeParts DEF Sound, LineNumbers
<1>1. ASSUME BeginFunction PROVE Sound'
  <2> DEFINE f == Item("function")
  <2>1. f \in ItemType /\ f.k = "function" /\ f.true_list = {} /\ f.false_list = {}
    BY ItemTyped DEF Sound, Item, ItemKinds, Bodies
  <2>2. Depth = 0 /\ Push(f)
        /\ UNCHANGED <<IR, error_reported, decided, functions, abandoned, workload>>
    BY <1>1 DEF BeginFunction, Depth
  <2> HIDE DEF f
  <2>3. stack' \in Seq(ItemType) /\ Len(stack') = 1 /\ 0 < MaxStack /\ stack'[1] = f
    BY <2>1, <2>2, StackItems, StackTyped
  <2>4. StackOK(stack')
    BY <1>0, <2>3, SizeFacts DEF StackOK
  <2>5. Shape'
    BY <2>1, <2>3 DEF Shape, OwnsByKind, Depth
  <2> QED
    BY <2>2, <2>4, <2>5, SoundNoCode
<1>2. ASSUME EndFunction PROVE Sound'
  <2>1. /\ nextinstr > Top.quad \/ error_reported
        /\ Pop(1) /\ UNCHANGED <<IR, error_reported, abandoned, workload>>
        /\ functions' = IF error_reported THEN functions ELSE functions \union
                          {[call_index |-> Top.quad, end_index |-> nextinstr - 1]}
    BY <1>2 DEF EndFunction, BodyDone
  <2>2. Depth > 0
    BY <1>2 DEF EndFunction, BodyDone
  <2>3. Top.quad \in LineNumbers
    BY <1>0, <2>2, StackItems DEF Top
  <2>4. functions' \subseteq FunctionType
    <3>1. CASE error_reported
      BY <1>0, <2>1, <3>1
    <3>2. CASE ~error_reported
      <4>1. nextinstr - 1 \in LineNumbers
        BY <1>0, <2>1, <2>3, <3>2 DEF LineNumbers
      <4>2. [call_index |-> Top.quad, end_index |-> nextinstr - 1] \in FunctionType
        BY <2>3, <4>1 DEF FunctionType
      <4> QED
        BY <1>0, <2>1, <3>2, <4>2
    <3> QED
      BY <3>1, <3>2
  <2>5. StackOK(stack') /\ Shape'
    BY <1>0, <2>1, <2>2, PopKeeps
  <2>6. TypeOK'
    BY <1>0, <2>1, <2>4, <2>5, TypeStep
  <2> QED
    BY <2>5, <2>6 DEF Sound
<1>3. ASSUME ReportError PROVE Sound'
  <2>1. UNCHANGED <<IR, stack, functions, abandoned, workload>> /\ error_reported' = TRUE
    BY <1>3 DEF ReportError
  <2>2. StackOK(stack') /\ Shape'
    BY <2>1, SameStack
  <2>3. TypeOK'
    BY <1>0, <2>1, <2>2, TypeStep
  <2> QED
    BY <2>2, <2>3 DEF Sound
<1> QED
  BY <1>1, <1>2, <1>3

\* The condition a Boolean variable tests.
Holds(a) == {v \in Valuations : a \in v}

\* The bounds checks of an array write compare with conditions.
LEMMA BoundsConditions ==
    \A n \in 1 .. 2 :
      [1 .. n -> {{v \in Valuations : a \in v} : a \in Atoms}]
        \subseteq [1 .. n -> SUBSET Valuations]
<1>1. {{v \in Valuations : a \in v} : a \in Atoms} \subseteq SUBSET Valuations
  OBVIOUS
<1> QED
  BY <1>1

\* No action breaks the types or the shape.
LEMMA SoundNext ==
    ASSUME Sound, [Next]_vars
    PROVE  Sound'
<1>1. CASE \E a \in Atoms : Variable(a) \/ EndArgument(a)
  <2>1. PICK a \in Atoms : Variable(a) \/ EndArgument(a)
    BY <1>1
  <2>2. Holds(a) \in SUBSET Valuations /\ (Variable(a) => Atomic(Holds(a)))
    BY DEF Holds, Variable
  <2> QED
    BY <2>1, <2>2, AtomicSound, EndArgumentSound
<1>2. CASE \E b \in BOOLEAN : Constant(b)
  <2>1. PICK b \in BOOLEAN : Constant(b)
    BY <1>2
  <2>2. Atomic(IF b THEN Valuations ELSE {})
    BY <2>1 DEF Constant
  <2>3. (IF b THEN Valuations ELSE {}) \in SUBSET Valuations
    OBVIOUS
  <2> QED
    BY <2>2, <2>3, AtomicSound
<1>3. CASE \/ \E op \in {"or", "and"} : Operator(op)
           \/ Negation \/ BeginArgument
           \/ \E op \in {"assign", "return"} : Begin(op, op)
           \/ \E k \in {"while", "if", "block"} : Begin(k, k)
  <2>1. \/ \E op \in {"or", "and"} : Operator(op)
        \/ Negation \/ BeginArgument
        \/ \E op \in Openers \union {"block"} : op \notin {"or", "and"} /\ Begin(op, op)
    BY <1>3 DEF Openers
  <2> QED
    BY <2>1, OpenerSound
<1>4. CASE ReduceOr \/ ReduceAnd \/ ReduceNot
  BY <1>4, ReduceSound
<1>5. CASE \E a, b \in Atoms : CompareBooleans(a, b) \/ PackedArgument(a, b)
  BY <1>5, CompareBooleansSound, PackedArgumentSound
<1>6. CASE (\E op \in {"assign", "return"} : Simple(op)) \/ Assign \/ Return
  BY <1>6, StatementSound
<1>7. CASE \E n \in 1 .. 2 :
             \E lo, hi \in [1 .. n -> {{v \in Valuations : a \in v} : a \in Atoms}] :
               IndexedWrite(lo, hi)
  BY <1>7, BoundsConditions, IndexedWriteSound
<1>8. CASE WhileBody \/ ThenBody
  BY <1>8, BodySound
<1>9. CASE EndWhile \/ ElseBody \/ EndElse \/ EndBlock
  BY <1>9, EndingSound
<1>10. CASE BeginFunction \/ EndFunction \/ ReportError
  BY <1>10, FunctionSound
<1>11. CASE UNCHANGED vars
  <2>1. UNCHANGED <<IR, error_reported, decided, functions, abandoned, workload, stack>>
    BY <1>11 DEF vars
  <2> QED
    BY <2>1, SameStack, SoundNoCode
<1> QED
  BY <1>1, <1>2, <1>3, <1>4, <1>5, <1>6, <1>7, <1>8, <1>9, <1>10, <1>11 DEF Next

\* An empty program is typed and has nothing on the stack.
LEMMA SoundAtFirst == Init => Sound
<1> SUFFICES ASSUME Init PROVE Sound
  OBVIOUS
<1>1. workload \in WorkloadType
  BY WorkloadsAssumption DEF Init
<1>2. IR_ARRAY_SIZE \in Nat /\ MaxStack \in Nat
  BY <1>1 DEF WorkloadType, IR_ARRAY_SIZE, MaxStack
<1>3. CodeOK(IR) /\ StackOK(stack) /\ Depth = 0
  BY <1>2 DEF Init, CodeOK, StackOK, Depth
<1>4. TypeOK
  BY <1>3, TypeParts DEF Init
<1> QED
  BY <1>3, <1>4 DEF Sound, Shape

\* So both hold in every state.
LEMMA SoundAlways == Spec => []Sound
BY SoundAtFirst, SoundNext, PTL DEF Spec

\* The IR array is never overrun, no list names a line outside it, and the
\* semantic values have the shapes grammar.y gives them, for every program.
THEOREM TypeCorrect == Spec => []TypeOK
<1>1. Sound => TypeOK
  BY DEF Sound
<1> QED
  BY <1>1, SoundAlways, PTL

-----------------------------------------------------------------------------
(* After an error                                                          *)

\* Every emit and every patch of ir.c looks at error_reported first.
LEMMA FrozenStep ==
    ASSUME [Next]_vars, error_reported
    PROVE  UNCHANGED IR
<1>1. /\ \A c, i : Emit(c, i) = c
      /\ \A c, is : EmitAll(c, is) = c
      /\ \A c, list, t : backpatch(c, list, t) = c
      /\ \A c, cond : TwoWay(c, cond) = c
      /\ \A e, op : Stored(e, op) = IR
  BY DEF Emit, EmitAll, backpatch, TwoWay, Stored
<1>2. CASE \/ \E a \in Atoms : Variable(a) \/ EndArgument(a)
           \/ \E b \in BOOLEAN : Constant(b)
           \/ \E a, b \in Atoms : CompareBooleans(a, b) \/ PackedArgument(a, b)
  <2>1. ASSUME NEW cond, Atomic(cond) PROVE UNCHANGED IR
    BY <1>1, <2>1 DEF Atomic
  <2>2. ASSUME NEW a, EndArgument(a) PROVE UNCHANGED IR
    BY <1>1, <2>2 DEF EndArgument
  <2>3. ASSUME NEW a, NEW b, CompareBooleans(a, b) PROVE UNCHANGED IR
    BY <1>1, <2>3 DEF CompareBooleans
  <2>4. ASSUME NEW a, NEW b, PackedArgument(a, b) PROVE UNCHANGED IR
    BY <1>1, <2>4 DEF PackedArgument
  <2>5. ASSUME NEW a, Variable(a) PROVE UNCHANGED IR
    BY <2>1, <2>5 DEF Variable
  <2>6. ASSUME NEW b, Constant(b) PROVE UNCHANGED IR
    BY <2>1, <2>6 DEF Constant
  <2> QED
    BY <1>2, <2>2, <2>3, <2>4, <2>5, <2>6
<1>3. CASE \/ \E op \in {"or", "and"} : Operator(op)
           \/ Negation \/ BeginArgument
           \/ \E op \in {"assign", "return"} : Begin(op, op)
           \/ \E k \in {"while", "if", "block"} : Begin(k, k)
           \/ BeginFunction \/ EndFunction \/ ReportError \/ EndBlock
  BY <1>3 DEF Operator, Negation, BeginArgument, Begin, BeginFunction, EndFunction,
              ReportError, EndBlock
<1>4. CASE ReduceOr \/ ReduceAnd \/ ReduceNot
  BY <1>1, <1>4 DEF ReduceOr, ReduceAnd, ReduceNot
<1>5. CASE (\E op \in {"assign", "return"} : Simple(op)) \/ Assign \/ Return
  <2>1. ASSUME NEW op, Simple(op) PROVE UNCHANGED IR
    BY <1>1, <2>1 DEF Simple
  <2>2. ASSUME Assign PROVE UNCHANGED IR
    BY <1>1, <2>2 DEF Assign
  <2>3. ASSUME Return PROVE UNCHANGED IR
    BY <1>1, <2>3 DEF Return
  <2> QED
    BY <1>5, <2>1, <2>2, <2>3
<1>6. CASE \E n \in 1 .. 2 :
             \E lo, hi \in [1 .. n -> {{v \in Valuations : a \in v} : a \in Atoms}] :
               IndexedWrite(lo, hi)
  BY <1>1, <1>6 DEF IndexedWrite
<1>7. CASE \/ WhileBody \/ ThenBody \/ EndWhile \/ ElseBody \/ EndElse
           \/ UNCHANGED vars
  <2>1. ASSUME WhileBody \/ ThenBody \/ EndElse PROVE UNCHANGED IR
    BY <1>1, <2>1 DEF WhileBody, ThenBody, EndElse
  <2>2. ASSUME EndWhile PROVE UNCHANGED IR
    BY <1>1, <2>2 DEF EndWhile
  <2>3. ASSUME ElseBody PROVE UNCHANGED IR
    BY <1>1, <2>3 DEF ElseBody
  <2> QED
    BY <1>7, <2>1, <2>2, <2>3 DEF vars
<1> QED
  BY <1>2, <1>3, <1>4, <1>5, <1>6, <1>7 DEF Next

\* So the IR stays as it is once the first error is reported.
THEOREM FrozenAfterErrorAlways == Spec => FrozenAfterError
<1>1. [Next]_vars => [error_reported => UNCHANGED IR]_vars
  BY FrozenStep
<1> QED
  BY <1>1, PTL DEF Spec, FrozenAfterError

-----------------------------------------------------------------------------
(* The IR of the function being compiled                                   *)

\* Where that function begins.
Base == stack[1].quad

\* The jumps of c that have no target yet.
OpenJumps(c) == {i \in 0 .. Len(c) - 1 : c[i + 1].cond # {} /\ c[i + 1].target = -1}

\* c is the IR with the function grown to line n: earlier functions are as
\* they were, the open jumps are W, and the others stay inside the function.
Grown(c, n, W) ==
    /\ c \in Seq(InstructionType) /\ Len(c) = n /\ nextinstr <= n
    /\ \A i \in 0 .. Base - 1 : c[i + 1] = IR[i + 1]
    /\ \A i \in Base .. n - 1 : c[i + 1].target \in {-1} \union Base .. n
    /\ OpenJumps(c) = W

\* The function being compiled begins on a line already passed, and no error
\* has been reported.
Compiling == Sound /\ ~error_reported /\ Depth > 0 /\ Base \in 0 .. nextinstr

\* An instruction is added.
LEMMA GrownEmit ==
    ASSUME Compiling, NEW c, NEW n \in Nat, NEW W, Grown(c, n, W),
           NEW i \in InstructionType, i.target \in {-1} \union Base .. n
    PROVE  Grown(Emit(c, i), n + 1, W \union {l \in {n} : i.cond # {} /\ i.target = -1})
<1> DEFINE d == Append(c, i)
<1>1. Emit(c, i) = d
  BY DEF Compiling, Emit
<1>2. c \in Seq(InstructionType) /\ Len(c) = n /\ nextinstr <= n /\ nextinstr \in Nat
      /\ Base \in Nat /\ Base <= nextinstr
  BY SizeFacts DEF Grown, Compiling, Sound
<1>3. /\ d \in Seq(InstructionType) /\ Len(d) = n + 1 /\ d[n + 1] = i
      /\ \A j \in 0 .. n - 1 : d[j + 1] = c[j + 1]
  BY <1>2
<1> HIDE DEF d
<1>4. \A j \in 0 .. Base - 1 : d[j + 1] = IR[j + 1]
  BY <1>2, <1>3 DEF Grown
<1>5. ASSUME NEW j \in Base .. n PROVE d[j + 1].target \in {-1} \union Base .. n + 1
  <2>1. CASE j = n
    BY <1>2, <1>3, <2>1
  <2>2. CASE j \in Base .. n - 1
    <3>1. d[j + 1] = c[j + 1] /\ c[j + 1].target \in {-1} \union Base .. n
      BY <1>2, <1>3, <2>2 DEF Grown
    <3> QED
      BY <1>2, <3>1
  <2> QED
    BY <1>2, <2>1, <2>2
<1>6. OpenJumps(d) = OpenJumps(c) \union {l \in {n} : i.cond # {} /\ i.target = -1}
  <2>1. \A j \in 0 .. n - 1 : d[j + 1] = c[j + 1]
    BY <1>3
  <2>2. d[n + 1] = i /\ Len(d) = n + 1 /\ Len(c) = n
    BY <1>2, <1>3
  <2>3. 0 .. (n + 1) - 1 = (0 .. n - 1) \union {n}
    BY <1>2
  <2> QED
    BY <2>1, <2>2, <2>3 DEF OpenJumps
<1>7. n + 1 - 1 = n /\ nextinstr <= n + 1
  BY <1>2
<1> QED
  BY <1>1, <1>3, <1>4, <1>5, <1>6, <1>7 DEF Grown

\* Jumps of the function get a target in it.
LEMMA GrownPatch ==
    ASSUME Compiling, NEW c, NEW n \in Nat, NEW W, Grown(c, n, W),
           NEW list, list \subseteq Base .. n - 1, NEW t \in Base .. n, n <= IR_ARRAY_SIZE
    PROVE  Grown(backpatch(c, list, t), n, W \ list)
<1> DEFINE d == backpatch(c, list, t)
<1>1. c \in Seq(InstructionType) /\ Len(c) = n /\ nextinstr <= n /\ nextinstr \in Nat
      /\ Base \in Nat /\ Base <= nextinstr /\ t \in -1 .. IR_ARRAY_SIZE
  BY SizeFacts DEF Grown, Compiling, Sound
<1>2. d \in Seq(InstructionType) /\ Len(d) = n
  BY <1>1, PatchTyped
<1>3. d = [j \in 1 .. n |-> IF j - 1 \in list THEN [c[j] EXCEPT !.target = t] ELSE c[j]]
  BY <1>1 DEF Compiling, backpatch
<1>4. ASSUME NEW j \in 0 .. n - 1
      PROVE  /\ j \notin list => d[j + 1] = c[j + 1]
             /\ j \in list => d[j + 1].target = t /\ d[j + 1].cond = c[j + 1].cond
  <2>1. d[j + 1] = IF j \in list THEN [c[j + 1] EXCEPT !.target = t] ELSE c[j + 1]
    <3>1. j + 1 \in 1 .. n /\ (j + 1) - 1 = j
      OBVIOUS
    <3> QED
      BY <1>3, <3>1
  <2>2. c[j + 1] \in InstructionType
    BY <1>1
  <2> QED
    BY <2>1, <2>2 DEF InstructionType
<1> HIDE DEF d
<1>5. ASSUME NEW j \in 0 .. Base - 1 PROVE d[j + 1] = IR[j + 1]
  <2>1. j \in 0 .. n - 1 /\ j \notin list
    BY <1>1
  <2>2. d[j + 1] = c[j + 1]
    BY <1>4, <2>1
  <2> QED
    BY <2>2 DEF Grown
<1>6. ASSUME NEW j \in Base .. n - 1 PROVE d[j + 1].target \in {-1} \union Base .. n
  <2>1. j \in 0 .. n - 1
    BY <1>1
  <2>2. c[j + 1].target \in {-1} \union Base .. n
    BY DEF Grown
  <2> QED
    BY <1>4, <2>1, <2>2
<1>7. OpenJumps(d) = OpenJumps(c) \ list
  BY <1>1, <1>2, <1>4 DEF OpenJumps
<1>8. Grown(d, n, W \ list)
  BY <1>1, <1>2, <1>5, <1>6, <1>7 DEF Grown
<1> QED
  BY <1>8 DEF d

\* What the emitted instructions add to the open jumps.
LEMMA GrownInstructions ==
    ASSUME Compiling, NEW c, NEW n \in Nat, NEW W, Grown(c, n, W)
    PROVE  /\ \A op \in {"assign", "return", "param", "call", "crash", "read", "write",
                         "compute"} : Grown(Emit(c, Plain(op)), n + 1, W)
           /\ Grown(Emit(c, GotoIR), n + 1, W \union {n})
           /\ \A cond \in SUBSET Valuations :
                /\ Grown(Emit(c, JumpIf(cond)), n + 1, W \union {l \in {n} : cond # {}})
                /\ cond # {} => Grown(Emit(c, JumpIf(cond)), n + 1, W \union {n})
           /\ \A t \in Base .. n : n <= IR_ARRAY_SIZE =>
                Grown(Emit(c, [GotoIR EXCEPT !.target = t]), n + 1, W)
<1>0. TypeOK /\ n \in Nat
  BY DEF Compiling, Sound
<1>1. ASSUME NEW op \in {"assign", "return", "param", "call", "crash", "read", "write",
                         "compute"}
      PROVE  Grown(Emit(c, Plain(op)), n + 1, W)
  <2>1. /\ Plain(op) \in InstructionType /\ Plain(op).target = -1 /\ Plain(op).cond = {}
    BY <1>0, InstructionTyped DEF Plain, Instruction
  <2>2. W \union {l \in {n} : Plain(op).cond # {} /\ Plain(op).target = -1} = W
    BY <2>1
  <2> QED
    BY <2>1, <2>2, GrownEmit
<1>2. Grown(Emit(c, GotoIR), n + 1, W \union {n})
  <2>1. GotoIR \in InstructionType /\ GotoIR.target = -1 /\ GotoIR.cond # {}
    BY <1>0, InstructionTyped DEF GotoIR, Instruction, Valuations
  <2>2. {l \in {n} : GotoIR.cond # {} /\ GotoIR.target = -1} = {n}
    BY <2>1
  <2>3. Grown(Emit(c, GotoIR), n + 1,
              W \union {l \in {n} : GotoIR.cond # {} /\ GotoIR.target = -1})
    BY <2>1, GrownEmit
  <2> QED
    BY <2>2, <2>3
<1>3. ASSUME NEW cond \in SUBSET Valuations
      PROVE  /\ Grown(Emit(c, JumpIf(cond)), n + 1, W \union {l \in {n} : cond # {}})
             /\ cond # {} => Grown(Emit(c, JumpIf(cond)), n + 1, W \union {n})
  <2> DEFINE i == JumpIf(cond)
  <2>1. i \in InstructionType /\ i.target = -1 /\ i.cond = cond
    BY <1>0, InstructionTyped DEF JumpIf, Instruction
  <2> HIDE DEF i
  <2>2. {l \in {n} : i.cond # {} /\ i.target = -1} = {l \in {n} : cond # {}}
    BY <2>1
  <2>3. Grown(Emit(c, i), n + 1, W \union {l \in {n} : i.cond # {} /\ i.target = -1})
    BY <2>1, GrownEmit
  <2>4. cond # {} => {l \in {n} : cond # {}} = {n}
    OBVIOUS
  <2> QED
    BY <2>2, <2>3, <2>4 DEF i
<1>4. ASSUME NEW t \in Base .. n, n <= IR_ARRAY_SIZE
      PROVE  Grown(Emit(c, [GotoIR EXCEPT !.target = t]), n + 1, W)
  <2> DEFINE i == [GotoIR EXCEPT !.target = t]
  <2>1. t \in LineNumbers /\ t # -1
    BY <1>0, <1>4, SizeFacts DEF LineNumbers, Compiling
  <2>2. i \in InstructionType /\ i.target = t
    BY <1>0, <2>1, InstructionTyped DEF GotoIR, Instruction
  <2> HIDE DEF i
  <2>3. W \union {l \in {n} : i.cond # {} /\ i.target = -1} = W
    BY <2>1, <2>2
  <2>4. Grown(Emit(c, i), n + 1, W)
    BY <2>2, <2>3, GrownEmit
  <2> QED
    BY <2>4 DEF i
<1> QED
  BY <1>1, <1>2, <1>3, <1>4

\* Several instructions are one after another.
LEMMA EmitEach ==
    ASSUME ~error_reported, NEW S, NEW c \in Seq(S), NEW i \in S, NEW j \in S
    PROVE  EmitAll(c, <<i, j>>) = Emit(Emit(c, i), j)
BY DEF EmitAll, Emit

\* Three of them.
LEMMA EmitThree ==
    ASSUME ~error_reported, NEW S, NEW c \in Seq(S), NEW i \in S, NEW j \in S, NEW k \in S
    PROVE  EmitAll(c, <<i, j, k>>) = Emit(Emit(Emit(c, i), j), k)
BY DEF EmitAll, Emit

\* Four.
LEMMA EmitFour ==
    ASSUME ~error_reported, NEW S, NEW c \in Seq(S), NEW i \in S, NEW j \in S, NEW k \in S,
           NEW l \in S
    PROVE  EmitAll(c, <<i, j, k, l>>) = Emit(Emit(Emit(Emit(c, i), j), k), l)
<1>1. c \o <<i, j, k, l>> = Append(c \o <<i, j, k>>, l)
  OBVIOUS
<1>2. EmitAll(c, <<i, j, k, l>>) = Emit(EmitAll(c, <<i, j, k>>), l)
  BY <1>1 DEF EmitAll, Emit
<1> QED
  BY <1>2, EmitThree

-----------------------------------------------------------------------------
(* Who will patch which jump                                               *)

\* The jumps of one item, and of the items from a to b.
Lists(i) == i.true_list \union i.false_list
Owned(s, a, b) == {l \in Int : \E p \in a .. b : l \in Lists(s[p])}

\* No jump is in two lists.
Apart(s, n) ==
    /\ \A p \in 1 .. n : s[p].true_list \intersect s[p].false_list = {}
    /\ \A p, q \in 1 .. n : p # q => Lists(s[p]) \intersect Lists(s[q]) = {}

\* The open jumps belong to the items and to the constructs that abandon
\* theirs, each to one of them.
Partition ==
    /\ Unpatched \subseteq abandoned \union Owned(stack, 1, Depth)
    /\ abandoned \subseteq Unpatched
    /\ abandoned \intersect Owned(stack, 1, Depth) = {}
    /\ Apart(stack, Depth)

\* The function being compiled has its lines, its items and its jumps to itself.
Within ==
    /\ \A p \in 1 .. Depth : /\ Lists(stack[p]) \subseteq Base .. nextinstr - 1
                             /\ stack[p].quad \in Base .. nextinstr
                             /\ stack[p].start \in Base .. nextinstr
    /\ \A i \in Base .. nextinstr - 1 : IR[i + 1].target \in {-1} \union Base .. nextinstr
    /\ \A f \in functions : f.end_index < Base

\* While no error has been reported.
Tight ==
    ~error_reported =>
      /\ Partition
      /\ Depth > 0 => Within
      /\ \A f \in functions : f.end_index < nextinstr

\* A function is being compiled and everything is in its place.
Healthy == Sound /\ Tight /\ ~error_reported /\ Depth > 0

\* What follows from that.
LEMMA HealthyFacts ==
    ASSUME Healthy
    PROVE  /\ Compiling /\ Partition /\ Within
           /\ nextinstr \in Nat /\ nextinstr <= IR_ARRAY_SIZE /\ IR_ARRAY_SIZE \in Nat
           /\ Depth \in Nat /\ Base \in Nat /\ Base <= nextinstr
           /\ Unpatched = OpenJumps(IR) /\ Unpatched \subseteq 0 .. nextinstr - 1
           /\ Grown(IR, nextinstr, Unpatched)
<1>1. /\ Sound /\ Partition /\ Within /\ ~error_reported /\ Depth > 0
      /\ \A f \in functions : f.end_index < nextinstr
  BY DEF Healthy, Tight
<1>2. /\ nextinstr \in Nat /\ nextinstr <= IR_ARRAY_SIZE /\ IR_ARRAY_SIZE \in Nat
      /\ Depth \in Nat /\ IR \in Seq(InstructionType)
  BY <1>1, SizeFacts DEF Sound
<1>3. Base \in Nat
  <2>1. stack[1] \in ItemType
    BY <1>1, <1>2, StackItems
  <2>2. stack[1].quad \in LineNumbers
    BY <1>1, <2>1, StackItems
  <2> QED
    BY <1>2, <2>2 DEF Base, LineNumbers
<1>4. Base <= nextinstr
  <2>1. stack[1].quad \in Base .. nextinstr
    BY <1>1, <1>2 DEF Within
  <2> QED
    BY <1>2, <1>3, <2>1 DEF Base
<1>5. Unpatched = OpenJumps(IR) /\ Unpatched \subseteq 0 .. nextinstr - 1
  BY DEF Unpatched, OpenJumps, nextinstr
<1>6. Grown(IR, nextinstr, Unpatched)
  BY <1>1, <1>2, <1>5 DEF Grown, Within, nextinstr
<1> QED
  BY <1>1, <1>2, <1>3, <1>4, <1>5, <1>6 DEF Compiling

\* A step as the lists see it.  Items q and above give way to at most one, with
\* the lists T and F; the IR grows to line m.  The jumps of L are patched, those
\* of U are new, and those of A among them are abandoned.
Moves(q, m, L, U, A, T, F) ==
    /\ q \in 2 .. Depth + 1 /\ m \in Nat /\ nextinstr <= m
    /\ \A p \in 1 .. q - 1 : stack'[p] = stack[p]
    /\ \/ Len(stack') = q - 1 /\ T = {} /\ F = {}
       \/ /\ Len(stack') = q
          /\ stack'[q].true_list = T /\ stack'[q].false_list = F
          /\ stack'[q].quad \in Base .. m /\ stack'[q].start \in Base .. m
    /\ Grown(IR', m, (Unpatched \ L) \union U)
    /\ L \subseteq Owned(stack, q, Depth) /\ Owned(stack, q, Depth) \subseteq L \union T \union F
    /\ T \union F \subseteq (Owned(stack, q, Depth) \ L) \union nextinstr .. m - 1
    /\ T \intersect F = {}
    /\ U \subseteq nextinstr .. m - 1 /\ U \subseteq A \union T \union F
    /\ A \subseteq U /\ A \intersect (T \union F) = {}
    /\ abandoned' = abandoned \union A
    /\ UNCHANGED <<error_reported, functions, workload>>

\* What a step of the function being compiled does to the earlier ones: nothing.
Advances ==
    /\ Tight' /\ UNCHANGED functions
    /\ \A i \in 0 .. Base - 1 : IR'[i + 1] = IR[i + 1]

\* Such a step forgets no jump, patches none twice, and stays in its function.
LEMMA OwnStep ==
    ASSUME Healthy, NEW q, NEW m, NEW L, NEW U, NEW A, NEW T, NEW F,
           Moves(q, m, L, U, A, T, F)
    PROVE  Advances
<1> USE DEF Moves
<1>0. /\ Compiling /\ Partition /\ Within /\ nextinstr \in Nat /\ Depth \in Nat
      /\ Base \in Nat /\ Base <= nextinstr /\ Unpatched \subseteq 0 .. nextinstr - 1
  BY HealthyFacts
<1> DEFINE G == Owned(stack, q, Depth)
           K == Owned(stack, 1, q - 1)
           W == (Unpatched \ L) \union U
<1>1. nextinstr' = m /\ Unpatched' = W
  BY DEF Grown, Unpatched, OpenJumps, nextinstr
<1>2. Depth' \in {q - 1, q} /\ Depth' \in Nat /\ Depth' > 0
  BY DEF Depth
<1>3. Base' = Base
  BY DEF Base
<1>4. /\ Owned(stack, 1, Depth) = K \union G
      /\ K \intersect G = {} /\ K \subseteq Base .. nextinstr - 1
      /\ G \subseteq Base .. nextinstr - 1
  <2>1. 1 .. Depth = 1 .. q - 1 \union q .. Depth
    BY <1>0
  <2>2. \A p \in 1 .. q - 1, r \in q .. Depth : Lists(stack[p]) \intersect Lists(stack[r]) = {}
    BY <1>0 DEF Partition, Apart
  <2>3. Owned(stack, 1, Depth) = K \union G
    BY <2>1 DEF Owned
  <2>4. K \intersect G = {}
    BY <2>2 DEF Owned
  <2>5. Owned(stack, 1, Depth) \subseteq Base .. nextinstr - 1
    BY <1>0 DEF Within, Owned
  <2> QED
    BY <2>3, <2>4, <2>5
<1>5. Owned(stack', 1, Depth') = K \union T \union F
  <2>1. Owned(stack', 1, q - 1) = K
    BY DEF Owned
  <2>2. CASE Len(stack') = q - 1 /\ T = {} /\ F = {}
    BY <2>1, <2>2 DEF Depth
  <2>3. CASE Len(stack') = q /\ stack'[q].true_list = T /\ stack'[q].false_list = F
    <3>1. 1 .. Depth' = 1 .. q - 1 \union {q} /\ Lists(stack'[q]) = T \union F
      BY <1>0, <2>3 DEF Depth, Lists
    <3>2. Owned(stack', 1, Depth') = Owned(stack', 1, q - 1) \union (T \union F)
      BY <3>1 DEF Owned
    <3> QED
      BY <2>1, <3>2
  <2> QED
    BY <2>2, <2>3
<1>6. K \intersect (T \union F) = {}
  <2>1. (nextinstr .. m - 1) \intersect K = {}
    BY <1>0, <1>4
  <2> QED
    BY <1>4, <2>1
<1>7. Unpatched' \subseteq abandoned' \union Owned(stack', 1, Depth')
  <2>1. Unpatched \subseteq abandoned \union K \union G
    BY <1>0, <1>4 DEF Partition
  <2> HIDE DEF G, K
  <2> QED
    BY <1>1, <1>5, <2>1 DEF G
<1>8. abandoned' \subseteq Unpatched'
  <2>1. abandoned \subseteq Unpatched /\ abandoned \intersect G = {}
    BY <1>0, <1>4 DEF Partition
  <2> HIDE DEF G, K
  <2> QED
    BY <1>1, <2>1 DEF G
<1>9. abandoned' \intersect Owned(stack', 1, Depth') = {}
  <2>1. abandoned \intersect G = {} /\ abandoned \intersect K = {}
    BY <1>0, <1>4 DEF Partition
  <2>2. abandoned \intersect (nextinstr .. m - 1) = {}
    BY <1>0 DEF Partition
  <2>3. A \intersect K = {}
    <3>1. (nextinstr .. m - 1) \intersect K = {}
      BY <1>0, <1>4
    <3> QED
      BY <3>1
  <2>4. abandoned \intersect (T \union F) = {}
    BY <2>1, <2>2
  <2> QED
    BY <1>5, <2>1, <2>3, <2>4
<1>10. Apart(stack', Depth')
  <2>1. ASSUME NEW p \in 1 .. q - 1
        PROVE  /\ stack'[p].true_list \intersect stack'[p].false_list = {}
               /\ \A r \in 1 .. q - 1 : p # r => Lists(stack'[p]) \intersect Lists(stack'[r]) = {}
               /\ Lists(stack'[p]) \subseteq K
    <3>1. stack'[p] = stack[p] /\ p \in 1 .. Depth
      BY <1>0
    <3>2. Lists(stack[p]) \subseteq Base .. nextinstr - 1
      BY <1>0, <3>1 DEF Within
    <3>3. Lists(stack[p]) \subseteq K
      BY <1>0, <3>2 DEF Owned
    <3>4. ASSUME NEW r \in 1 .. q - 1, p # r
          PROVE  Lists(stack'[p]) \intersect Lists(stack'[r]) = {}
      <4>1. stack'[r] = stack[r] /\ r \in 1 .. Depth
        BY <1>0
      <4> QED
        BY <1>0, <3>1, <3>4, <4>1 DEF Partition, Apart
    <3>5. stack[p].true_list \intersect stack[p].false_list = {}
      BY <1>0, <3>1 DEF Partition, Apart
    <3> QED
      BY <3>1, <3>3, <3>4, <3>5
  <2>2. CASE Len(stack') = q - 1
    BY <2>1, <2>2 DEF Apart, Depth
  <2>3. CASE Len(stack') = q /\ stack'[q].true_list = T /\ stack'[q].false_list = F
    <3>1. Lists(stack'[q]) = T \union F
      BY <2>3 DEF Lists
    <3>2. \A p \in 1 .. q - 1 : Lists(stack'[p]) \intersect Lists(stack'[q]) = {}
      BY <1>6, <2>1, <3>1
    <3>3. 1 .. q = 1 .. q - 1 \union {q} /\ Depth' = q
      BY <1>0, <2>3 DEF Depth
    <3> HIDE DEF K
    <3> QED
      BY <2>1, <2>3, <3>2, <3>3 DEF Apart
  <2> QED
    BY <2>2, <2>3
<1>11. Partition'
  BY <1>7, <1>8, <1>9, <1>10 DEF Partition, Owned, Apart, Lists
<1>12. Within'
  <2>1. ASSUME NEW p \in 1 .. Depth'
        PROVE  /\ Lists(stack'[p]) \subseteq Base .. m - 1
               /\ stack'[p].quad \in Base .. m /\ stack'[p].start \in Base .. m
    <3>1. CASE p \in 1 .. q - 1
      <4>1. stack'[p] = stack[p] /\ p \in 1 .. Depth
        BY <1>0, <3>1
      <4>2. /\ Lists(stack[p]) \subseteq Base .. nextinstr - 1
            /\ stack[p].quad \in Base .. nextinstr /\ stack[p].start \in Base .. nextinstr
        BY <1>0, <4>1 DEF Within
      <4>3. Base .. nextinstr - 1 \subseteq Base .. m - 1 /\ Base .. nextinstr \subseteq Base .. m
        BY <1>0
      <4> QED
        BY <4>1, <4>2, <4>3
    <3>2. CASE p = q /\ Len(stack') = q
      <4>1. Lists(stack'[q]) = T \union F
        BY <1>0, <3>2 DEF Lists
      <4>2. T \union F \subseteq Base .. m - 1
        <5>1. nextinstr .. m - 1 \subseteq Base .. m - 1
          BY <1>0
        <5>2. G \subseteq Base .. m - 1
          BY <1>0, <1>4
        <5> QED
          BY <5>1, <5>2
      <4> QED
        BY <1>0, <3>2, <4>1, <4>2
    <3> QED
      BY <1>0, <1>2, <3>1, <3>2 DEF Depth
  <2>2. \A i \in Base .. m - 1 : IR'[i + 1].target \in {-1} \union Base .. m
    BY DEF Grown
  <2>3. \A f \in functions' : f.end_index < Base
    BY <1>0 DEF Within
  <2> QED
    BY <1>1, <1>3, <2>1, <2>2, <2>3 DEF Within, Lists
<1>13. \A f \in functions' : f.end_index < m
  <2>1. \A f \in functions : f.end_index < nextinstr
    BY DEF Healthy, Tight
  <2>2. \A f \in functions : f.end_index \in Int
    BY <1>0, TypeParts DEF Compiling, Sound, FunctionType, LineNumbers
  <2> QED
    BY <1>0, <2>1, <2>2
<1>14. Tight'
  BY <1>1, <1>11, <1>12, <1>13 DEF Tight
<1> QED
  BY <1>14 DEF Advances, Grown

\* The jumps of the innermost items.
LEMMA OwnedOnTop ==
    ASSUME Healthy
    PROVE  /\ Owned(stack, Depth + 1, Depth) = {}
           /\ Owned(stack, Depth, Depth) = Lists(Top)
           /\ Lists(Top) \subseteq Base .. nextinstr - 1
           /\ Top.true_list \intersect Top.false_list = {}
           /\ Top.quad \in Base .. nextinstr /\ Top.start \in Base .. nextinstr
           /\ Depth > 1 => /\ Owned(stack, Depth - 1, Depth) = Lists(Under) \union Lists(Top)
                           /\ Lists(Under) \subseteq Base .. nextinstr - 1
                           /\ Under.quad \in Base .. nextinstr
           /\ Depth > 2 => /\ Owned(stack, Depth - 2, Depth)
                                = Lists(Left) \union Lists(Under) \union Lists(Top)
                           /\ Lists(Left) \subseteq Base .. nextinstr - 1
                           /\ Left.true_list \intersect Left.false_list = {}
                           /\ Lists(Left) \intersect Lists(Top) = {}
                           /\ Left.quad \in Base .. nextinstr /\ Left.start \in Base .. nextinstr
<1>0. Within /\ Partition /\ Depth \in Nat /\ Depth > 0
  BY HealthyFacts DEF Healthy
<1>1. Top = stack[Depth] /\ Under = stack[Depth - 1] /\ Left = stack[Depth - 2]
  BY DEF Top, Under, Left
<1>2. \A p \in 1 .. Depth : Lists(stack[p]) \subseteq Int
  BY <1>0 DEF Within
<1>3. Owned(stack, Depth + 1, Depth) = {}
  BY <1>0 DEF Owned
<1>4. Owned(stack, Depth, Depth) = Lists(Top)
  <2>1. Depth .. Depth = {Depth} /\ Lists(stack[Depth]) \subseteq Int
    BY <1>0, <1>2
  <2> QED
    BY <1>1, <2>1 DEF Owned
<1>5. ASSUME Depth > 1
      PROVE  Owned(stack, Depth - 1, Depth) = Lists(Under) \union Lists(Top)
  <2>1. /\ Depth - 1 .. Depth = {Depth - 1, Depth} /\ Lists(stack[Depth]) \subseteq Int
        /\ Lists(stack[Depth - 1]) \subseteq Int
    BY <1>0, <1>2, <1>5
  <2> QED
    BY <1>1, <2>1 DEF Owned
<1>6. ASSUME Depth > 2
      PROVE  Owned(stack, Depth - 2, Depth)
               = Lists(Left) \union Lists(Under) \union Lists(Top)
  <2>1. /\ Depth - 2 .. Depth = {Depth - 2, Depth - 1, Depth}
        /\ Lists(stack[Depth]) \subseteq Int /\ Lists(stack[Depth - 1]) \subseteq Int
        /\ Lists(stack[Depth - 2]) \subseteq Int
    BY <1>0, <1>2, <1>6
  <2> QED
    BY <1>1, <2>1 DEF Owned
<1>7. \A p \in 1 .. Depth : /\ Lists(stack[p]) \subseteq Base .. nextinstr - 1
                            /\ stack[p].quad \in Base .. nextinstr
                            /\ stack[p].start \in Base .. nextinstr
                            /\ stack[p].true_list \intersect stack[p].false_list = {}
  BY <1>0 DEF Within, Partition, Apart
<1>8. Depth > 2 => Lists(Left) \intersect Lists(Top) = {}
  BY <1>0, <1>1 DEF Partition, Apart
<1>9. Depth \in 1 .. Depth /\ (Depth > 1 => Depth - 1 \in 1 .. Depth)
      /\ (Depth > 2 => Depth - 2 \in 1 .. Depth)
  BY <1>0
<1> QED
  BY <1>1, <1>3, <1>4, <1>5, <1>6, <1>7, <1>8, <1>9

\* A test whose condition may be any.
LEMMA GrownTwoWay ==
    ASSUME Compiling, NEW c, NEW n \in Nat, NEW W, Grown(c, n, W),
           NEW cond \in SUBSET Valuations
    PROVE  /\ \E J \in SUBSET {n} : Grown(TwoWay(c, cond), n + 2, W \union (J \union {n + 1}))
           /\ cond # {} => Grown(TwoWay(c, cond), n + 2, W \union {n, n + 1})
<1> DEFINE J == {l \in {n} : cond # {}}
           d == Emit(c, JumpIf(cond))
<1>1. c \in Seq(InstructionType) /\ ~error_reported /\ n + 1 + 1 = n + 2 /\ n + 1 \in Nat
  BY DEF Grown, Compiling
<1>2. JumpIf(cond) \in InstructionType /\ GotoIR \in InstructionType
  BY InstructionTyped DEF Compiling, Sound
<1>3. TwoWay(c, cond) = Emit(d, GotoIR)
  BY <1>1, <1>2, EmitEach DEF TwoWay
<1>4. Grown(d, n + 1, W \union J)
  BY GrownInstructions
<1> HIDE DEF d, J
<1>5. Grown(TwoWay(c, cond), n + 1 + 1, (W \union J) \union {n + 1})
  <2> DEFINE V == W \union J
             k == n + 1
  <2>1. Grown(d, k, V) /\ k \in Nat
    BY <1>1, <1>4
  <2> HIDE DEF V, k
  <2>2. Grown(Emit(d, GotoIR), k + 1, V \union {k})
    BY <2>1, GrownInstructions
  <2> QED
    BY <1>3, <2>2 DEF V, k
<1>6. (W \union J) \union {n + 1} = W \union (J \union {n + 1}) /\ J \in SUBSET {n}
  BY DEF J
<1>7. cond # {} => J = {n}
  BY DEF J
<1>8. {n} \union {n + 1} = {n, n + 1}
  OBVIOUS
<1>9. Grown(TwoWay(c, cond), n + 2, W \union (J \union {n + 1}))
  BY <1>1, <1>5, <1>6
<1> QED
  BY <1>6, <1>7, <1>8, <1>9

\* The two instructions that store a Boolean value use up its jumps, and make none.
LEMMA GrownStored ==
    ASSUME Healthy, NEW op \in {"assign", "param"}, Room(3),
           NEW e, e.true_list \subseteq Base .. nextinstr - 1,
           e.false_list \subseteq Base .. nextinstr - 1
    PROVE  Grown(Stored(e, op), nextinstr + 3, Unpatched \ Lists(e))
<1> DEFINE n == nextinstr
           V == Unpatched
           c1 == backpatch(IR, e.true_list, n)
           c2 == Emit(c1, Plain(op))
           c3 == Emit(c2, GotoIR)
           c4 == backpatch(c3, e.false_list, n + 2)
           c5 == Emit(c4, Plain(op))
<1>0. /\ Compiling /\ n \in Nat /\ IR_ARRAY_SIZE \in Nat /\ n + 3 <= IR_ARRAY_SIZE
      /\ Base \in Nat /\ Base <= n /\ V \subseteq 0 .. n - 1 /\ Grown(IR, n, V)
  BY HealthyFacts DEF Room
<1>1. Stored(e, op) = backpatch(c5, {n + 1}, n + 3)
  <2>1. ~error_reported /\ IR \in Seq(InstructionType) /\ n \in -1 .. IR_ARRAY_SIZE
    BY <1>0, SizeFacts DEF Compiling, Sound
  <2>2. c1 \in Seq(InstructionType)
    BY <2>1, PatchTyped
  <2>3. Plain(op) \in InstructionType /\ GotoIR \in InstructionType
    BY <1>0, InstructionTyped DEF Compiling, Sound
  <2> HIDE DEF c1
  <2>4. EmitAll(c1, <<Plain(op), GotoIR>>) = c3
    BY <2>1, <2>2, <2>3, EmitEach
  <2> HIDE DEF c3
  <2> QED
    BY <2>4 DEF Stored, makeList, c1
<1> HIDE DEF n, V
<1>2. Grown(c1, n, V \ e.true_list)
  <2>1. n \in Base .. n /\ n <= IR_ARRAY_SIZE /\ e.true_list \subseteq Base .. n - 1
    BY <1>0 DEF n
  <2> QED
    BY <1>0, <2>1, GrownPatch
<1> HIDE DEF c1
<1>3. Grown(c2, n + 1, V \ e.true_list)
  BY <1>0, <1>2, GrownInstructions
<1> HIDE DEF c2
<1>4. Grown(c3, n + 2, (V \ e.true_list) \union {n + 1})
  <2>1. n + 1 \in Nat /\ n + 1 + 1 = n + 2
    BY <1>0
  <2>2. Grown(c3, n + 1 + 1, (V \ e.true_list) \union {n + 1})
    BY <1>0, <1>3, <2>1, GrownInstructions
  <2> QED
    BY <2>1, <2>2
<1> HIDE DEF c3
<1>5. Grown(c4, n + 2, ((V \ e.true_list) \union {n + 1}) \ e.false_list)
  <2>1. /\ n + 2 \in Base .. n + 2 /\ n + 2 <= IR_ARRAY_SIZE /\ n + 2 \in Nat
        /\ e.false_list \subseteq Base .. n + 2 - 1
    BY <1>0 DEF n
  <2> QED
    BY <1>0, <1>4, <2>1, GrownPatch
<1> HIDE DEF c4
<1>6. Grown(c5, n + 3, ((V \ e.true_list) \union {n + 1}) \ e.false_list)
  <2>1. n + 2 \in Nat /\ n + 2 + 1 = n + 3
    BY <1>0
  <2>2. Grown(c5, n + 2 + 1, ((V \ e.true_list) \union {n + 1}) \ e.false_list)
    BY <1>0, <1>5, <2>1, GrownInstructions
  <2> QED
    BY <2>1, <2>2
<1> HIDE DEF c5
<1>7. Grown(Stored(e, op), n + 3, (((V \ e.true_list) \union {n + 1}) \ e.false_list) \ {n + 1})
  <2>1. n + 3 \in Base .. n + 3 /\ n + 3 \in Nat /\ {n + 1} \subseteq Base .. n + 3 - 1
    BY <1>0
  <2> QED
    BY <1>0, <1>1, <1>6, <2>1, GrownPatch
<1>8. (((V \ e.true_list) \union {n + 1}) \ e.false_list) \ {n + 1} = V \ Lists(e)
  <2>1. n + 1 \notin V
    BY <1>0
  <2> QED
    BY <2>1 DEF Lists
<1> QED
  BY <1>7, <1>8 DEF n, V

\* A pop of n items.
LEMMA PopMoves ==
    ASSUME Healthy, NEW n \in 0 .. Depth, Pop(n)
    PROVE  /\ Len(stack') = Depth - n + 1 - 1
           /\ \A p \in 1 .. Depth - n + 1 - 1 : stack'[p] = stack[p]
<1>1. Depth \in Nat /\ stack \in Seq(ItemType) /\ Depth - n + 1 - 1 = Depth - n
  BY StackItems DEF Healthy
<1>2. Len(stack') = Depth - n /\ \A p \in 1 .. Depth - n : stack'[p] = stack[p]
  BY <1>1, StackTyped
<1> QED
  BY <1>1, <1>2

\* An expression with two new jumps is pushed.
LEMMA NewExpression ==
    ASSUME Healthy, NEW t \in Nat, nextinstr <= t, NEW J \in SUBSET {t}, NEW A,
           A \subseteq nextinstr .. t - 1,
           Grown(IR', t + 2, Unpatched \union (A \union J \union {t + 1})),
           NEW f, Push(f), f.true_list = {t}, f.false_list = {t + 1},
           f.quad = nextinstr, f.start = nextinstr,
           abandoned' = abandoned \union A, UNCHANGED <<error_reported, functions, workload>>
    PROVE  Advances
<1> DEFINE q == Depth + 1
           U == A \union J \union {t + 1}
<1>0. /\ Depth \in Nat /\ q \in 2 .. Depth + 1 /\ nextinstr \in Nat /\ Base \in Nat
      /\ Base <= nextinstr /\ Owned(stack, q, Depth) = {}
  BY HealthyFacts, OwnedOnTop DEF Healthy
<1>1. /\ Len(stack') = q /\ stack'[q] = f /\ \A p \in 1 .. q - 1 : stack'[p] = stack[p]
  <2> DEFINE S == ItemType \union {f}
  <2>1. stack \in Seq(S) /\ f \in S /\ q - 1 = Depth
    <3>1. stack \in Seq(ItemType)
      BY StackItems DEF Healthy
    <3>2. q - 1 = Depth
      BY <1>0
    <3> QED
      BY <3>1, <3>2
  <2> HIDE DEF S
  <2> QED
    BY <2>1, StackTyped
<1>2. /\ stack'[q].true_list = {t} /\ stack'[q].false_list = {t + 1}
      /\ stack'[q].quad \in Base .. t + 2 /\ stack'[q].start \in Base .. t + 2
  BY <1>0, <1>1
<1>3. /\ {t} \intersect {t + 1} = {}
      /\ {t} \union {t + 1} \subseteq nextinstr .. t + 2 - 1
      /\ A \intersect ({t} \union {t + 1}) = {}
      /\ U \subseteq nextinstr .. t + 2 - 1 /\ U \subseteq A \union {t} \union {t + 1}
      /\ A \subseteq U /\ nextinstr <= t + 2 /\ t + 2 \in Nat
  BY <1>0
<1>4. Grown(IR', t + 2, (Unpatched \ {}) \union U)
  OBVIOUS
<1>5. Moves(q, t + 2, {}, U, A, {t}, {t + 1})
  <2> HIDE DEF q, U
  <2> QED
    BY <1>0, <1>1, <1>2, <1>3, <1>4 DEF Moves
<1> QED
  BY <1>5, OwnStep

\* The innermost n items, or n + 1 of them, become the item i; those jumps that
\* it does not take over, L, are patched, and it brings in U of its own.
Reduces(n, i, m, L, U) ==
    /\ n \in 0 .. Depth - 1 /\ m \in Nat /\ nextinstr <= m
    /\ IF n = 0 THEN Push(i) ELSE Replace(n, i)
    /\ i.quad \in Base .. m /\ i.start \in Base .. m
    /\ Grown(IR', m, (Unpatched \ L) \union U)
    /\ L \subseteq Owned(stack, Depth - n + 1, Depth)
    /\ Owned(stack, Depth - n + 1, Depth) \subseteq L \union Lists(i)
    /\ Lists(i) \subseteq (Owned(stack, Depth - n + 1, Depth) \ L) \union nextinstr .. m - 1
    /\ i.true_list \intersect i.false_list = {}
    /\ U \subseteq nextinstr .. m - 1 /\ U \subseteq Lists(i)
    /\ UNCHANGED <<error_reported, functions, abandoned, workload>>

\* A reduction is a step in that sense.
LEMMA ReductionOwns ==
    ASSUME Healthy, NEW n, NEW i, NEW m, NEW L, NEW U, Reduces(n, i, m, L, U)
    PROVE  Advances
<1> DEFINE q == Depth - n + 1
           T == i.true_list
           F == i.false_list
           A == {}
<1>1. Depth \in Nat /\ q \in 2 .. Depth + 1 /\ Lists(i) = T \union F
  BY HealthyFacts DEF Reduces, Lists
<1>2. /\ Len(stack') = q /\ stack'[q] = i /\ \A p \in 1 .. q - 1 : stack'[p] = stack[p]
  <2> DEFINE S == ItemType \union {i}
  <2>0. stack \in Seq(S) /\ i \in S /\ q - 1 = Depth - n
    BY <1>1, StackItems DEF Healthy, Reduces
  <2> HIDE DEF S
  <2>1. CASE n = 0
    <3>1. Push(i) /\ q = Depth + 1 /\ q - 1 = Depth
      BY <1>1, <2>1 DEF Reduces
    <3> QED
      BY <2>0, <3>1, StackTyped
  <2>2. CASE n # 0
    <3>1. Replace(n, i) /\ n \in 0 .. Depth
      BY <1>1, <2>2 DEF Reduces
    <3> QED
      BY <2>0, <3>1, StackTyped
  <2> QED
    BY <2>1, <2>2
<1>3. /\ stack'[q].true_list = T /\ stack'[q].false_list = F
      /\ stack'[q].quad \in Base .. m /\ stack'[q].start \in Base .. m
  BY <1>2 DEF Reduces
<1>4. abandoned' = abandoned \union A
  BY DEF Reduces
<1>5. /\ U \subseteq A \union T \union F /\ A \subseteq U /\ A \intersect (T \union F) = {}
  BY <1>1 DEF Reduces
<1>6. /\ m \in Nat /\ nextinstr <= m
      /\ Grown(IR', m, (Unpatched \ L) \union U)
      /\ L \subseteq Owned(stack, q, Depth) /\ Owned(stack, q, Depth) \subseteq L \union T \union F
      /\ T \union F \subseteq (Owned(stack, q, Depth) \ L) \union nextinstr .. m - 1
      /\ T \intersect F = {} /\ U \subseteq nextinstr .. m - 1
      /\ UNCHANGED <<error_reported, functions, workload>>
  BY <1>1 DEF Reduces
<1> HIDE DEF q, T, F, A
<1>7. Moves(q, m, L, U, A, T, F)
  BY <1>1, <1>2, <1>3, <1>4, <1>5, <1>6 DEF Moves
<1> QED
  BY <1>7, OwnStep

\* The innermost n items go, and the jumps they own are patched.
Closes(n, m, L) ==
    /\ n \in 0 .. Depth - 1 /\ m \in Nat /\ nextinstr <= m
    /\ \/ Pop(n)
       \/ n = 0 /\ UNCHANGED stack
    /\ Grown(IR', m, Unpatched \ L) /\ L = Owned(stack, Depth - n + 1, Depth)
    /\ UNCHANGED <<error_reported, functions, abandoned, workload>>

\* So is the end of a statement.
LEMMA ClosingOwns ==
    ASSUME Healthy, NEW n, NEW m, NEW L, Closes(n, m, L)
    PROVE  Advances
<1> DEFINE q == Depth - n + 1
           E == {}
<1>1. Depth \in Nat /\ q \in 2 .. Depth + 1 /\ n \in 0 .. Depth
  BY HealthyFacts DEF Closes
<1>2. /\ Len(stack') = q - 1 /\ \A p \in 1 .. q - 1 : stack'[p] = stack[p]
  <2>1. CASE Pop(n)
    BY <1>1, <2>1, PopMoves
  <2>2. CASE n = 0 /\ UNCHANGED stack
    BY <1>1, <2>2 DEF Depth
  <2> QED
    BY <2>1, <2>2 DEF Closes
<1>3. /\ m \in Nat /\ nextinstr <= m /\ L = Owned(stack, q, Depth)
      /\ Grown(IR', m, (Unpatched \ L) \union E)
      /\ UNCHANGED <<error_reported, functions, workload>>
  BY <1>1 DEF Closes
<1>4. /\ abandoned' = abandoned \union E /\ E \subseteq L \union E /\ E = {}
  BY DEF Closes
<1> HIDE DEF q, E
<1>5. Moves(q, m, L, E, E, E, E)
  BY <1>1, <1>2, <1>3, <1>4 DEF Moves
<1> QED
  BY <1>5, OwnStep

-----------------------------------------------------------------------------
(* Every action moves its jumps so                                         *)

\* Conditions are sets of valuations.
LEMMA ExpressionFields ==
    ASSUME Sound, NEW cond \in SUBSET Valuations
    PROVE  /\ Expression(cond, nextinstr).true_list = {nextinstr}
           /\ Expression(cond, nextinstr).false_list = {nextinstr + 1}
           /\ Expression(cond, nextinstr).quad = nextinstr
           /\ Expression(cond, nextinstr).start = nextinstr
BY DEF Expression, Item, makeList

\* A Boolean variable or a comparison is an expression with two new jumps.
LEMMA AtomicOwns ==
    ASSUME Healthy, NEW cond \in SUBSET Valuations, Atomic(cond)
    PROVE  Advances
<1> DEFINE f == Expression(cond, nextinstr)
           n == nextinstr
           W == Unpatched
           A == {}
<1>1. /\ Compiling /\ n \in Nat /\ Grown(IR, n, W) /\ Sound
  BY HealthyFacts DEF Healthy
<1>2. /\ f.true_list = {n} /\ f.false_list = {n + 1} /\ f.quad = nextinstr /\ f.start = nextinstr
  BY <1>1, ExpressionFields
<1>3. /\ IR' = TwoWay(IR, cond) /\ Push(f)
      /\ UNCHANGED <<error_reported, functions, workload>> /\ abandoned' = abandoned \union A
  BY DEF Atomic
<1>4. nextinstr <= n
  BY <1>1
<1> HIDE DEF f, n, W
<1>5. PICK J \in SUBSET {n} : Grown(IR', n + 2, W \union (J \union {n + 1}))
  BY <1>1, <1>3, GrownTwoWay
<1>6. W \union (J \union {n + 1}) = Unpatched \union (A \union J \union {n + 1})
      /\ A \subseteq nextinstr .. n - 1
  BY DEF W
<1> HIDE DEF A
<1>7. Grown(IR', n + 2, Unpatched \union (A \union J \union {n + 1}))
  BY <1>5, <1>6
<1> QED
  BY <1>1, <1>2, <1>3, <1>4, <1>6, <1>7, NewExpression

\* Some valuation makes a condition true.
LEMMA HoldsSomewhere ==
    ASSUME NEW a \in Atoms
    PROVE  {v \in Valuations : a \in v} \in (SUBSET Valuations) \ {{}}
<1>1. {a} \in Valuations /\ a \in {a}
  BY DEF Valuations
<1> QED
  BY <1>1

\* Two tests with some valuation that passes them leave four open jumps.
LEMMA GrownTests ==
    ASSUME Healthy, NEW ca \in SUBSET Valuations, ca # {}, NEW cb \in SUBSET Valuations, cb # {}
    PROVE  /\ Grown(TwoWay(IR, ca), nextinstr + 2, Unpatched \union nextinstr .. nextinstr + 1)
           /\ Grown(TwoWay(TwoWay(IR, ca), cb), nextinstr + 4,
                    Unpatched \union nextinstr .. nextinstr + 3)
<1> DEFINE n == nextinstr
           W == Unpatched
           c == TwoWay(IR, ca)
           V == W \union {n, n + 1}
           k == n + 2
<1>1. Compiling /\ n \in Nat /\ Grown(IR, n, W)
  BY HealthyFacts
<1> HIDE DEF n, W
<1>2. Grown(c, k, V)
  BY <1>1, GrownTwoWay
<1>3. k \in Nat
  BY <1>1
<1> HIDE DEF c, k, V
<1>4. Grown(TwoWay(c, cb), k + 2, V \union {k, k + 1})
  BY <1>1, <1>2, <1>3, GrownTwoWay
<1>5. /\ k + 2 = n + 4 /\ V = W \union n .. n + 1 /\ k = n + 2
      /\ V \union {k, k + 1} = W \union n .. n + 3
  <2>1. {n, n + 1} = n .. n + 1 /\ {n, n + 1, n + 2, n + 3} = n .. n + 3 /\ n + 2 + 1 = n + 3
        /\ n + 2 + 2 = n + 4
    BY <1>1
  <2> QED
    BY <2>1 DEF V, k
<1> QED
  BY <1>2, <1>4, <1>5 DEF n, W, c

\* An expression whose two jumps are on lines t and t + 1, and its fields.
Result(cond, t) == [Expression(cond, nextinstr) EXCEPT !.true_list = makeList(t),
                                                       !.false_list = makeList(t + 1)]
LEMMA ResultFields ==
    ASSUME Sound, NEW cond \in SUBSET Valuations, Room(2), NEW t \in LineNumbers,
           t + 1 \in LineNumbers
    PROVE  /\ Result(cond, t).true_list = {t} /\ Result(cond, t).false_list = {t + 1}
           /\ Result(cond, t).quad = nextinstr /\ Result(cond, t).start = nextinstr
<1> DEFINE e == Expression(cond, nextinstr)
           f == Result(cond, t)
<1>1. nextinstr \in LineNumbers
  BY RoomFor
<1>2. e \in ItemType
  BY <1>1, ExpressionTyped
<1>3. e.quad = nextinstr /\ e.start = nextinstr
  BY ExpressionFields
<1>4. f = [e EXCEPT !.true_list = {t}, !.false_list = {t + 1}]
  BY DEF makeList, Result
<1> HIDE DEF e, f
<1>5. /\ f.true_list = {t} /\ f.false_list = {t + 1}
      /\ f.quad = nextinstr /\ f.start = nextinstr
  BY <1>2, <1>3, <1>4 DEF ItemType
<1> QED
  BY <1>5 DEF f

\* A comparison of Boolean variables is an expression with two new jumps; the
\* four of its operands are abandoned.
LEMMA CompareBooleansOwns ==
    ASSUME Healthy, NEW a \in Atoms, NEW b \in Atoms, CompareBooleans(a, b)
    PROVE  Advances
<1> DEFINE ca == {v \in Valuations : a \in v}
           cb == {v \in Valuations : b \in v}
           both == {v \in Valuations : (a \in v) <=> (b \in v)}
           operands == TwoWay(TwoWay(IR, ca), cb)
           n == nextinstr
           t == Len(operands)
           W == Unpatched
           A == n .. n + 3
           V == W \union A
           f == [Expression(both, nextinstr) EXCEPT !.true_list = makeList(t),
                                                    !.false_list = makeList(t + 1)]
<1>1. /\ both \in SUBSET Valuations
      /\ Room(6) /\ IR' = TwoWay(operands, both) /\ Push(f)
      /\ Abandon(A) /\ UNCHANGED <<error_reported, functions, workload>>
  BY DEF CompareBooleans
<1>2. /\ Compiling /\ Sound /\ n \in Nat /\ nextinstr <= n + 4 /\ n + 4 \in Nat /\ ~error_reported
      /\ IR_ARRAY_SIZE \in Nat
  BY HealthyFacts DEF Healthy
<1>3. Grown(operands, n + 4, V)
  <2>1. ca \in SUBSET Valuations /\ ca # {} /\ cb \in SUBSET Valuations /\ cb # {}
    BY HoldsSomewhere
  <2> HIDE DEF ca, cb
  <2> QED
    BY <2>1, GrownTests
<1> HIDE DEF operands
<1>4. t = n + 4
  BY <1>3 DEF Grown
<1>5. /\ f.true_list = {t} /\ f.false_list = {t + 1} /\ f.quad = nextinstr
      /\ f.start = nextinstr
  <2>1. t \in LineNumbers /\ t + 1 \in LineNumbers /\ Room(2)
    <3>1. n + 6 <= IR_ARRAY_SIZE /\ n \in Nat /\ IR_ARRAY_SIZE \in Nat
      BY <1>1, <1>2 DEF Room
    <3>2. n + 4 \in LineNumbers /\ n + 4 + 1 \in LineNumbers /\ n + 2 <= IR_ARRAY_SIZE
      BY <3>1 DEF LineNumbers
    <3> QED
      BY <1>4, <3>2 DEF Room
  <2>2. both \in SUBSET Valuations /\ Sound
    BY <1>1, <1>2
  <2>3. f = Result(both, t)
    BY DEF Result
  <2> HIDE DEF t, both, f
  <2> QED
    BY <2>1, <2>2, <2>3, ResultFields
<1> HIDE DEF f, both, t
<1>6. abandoned' = abandoned \union A
  BY <1>1, <1>2 DEF Abandon
<1>7. PICK J \in SUBSET {t} : Grown(IR', t + 2, V \union (J \union {t + 1}))
  <2> HIDE DEF V
  <2>1. /\ Grown(operands, t, V) /\ t \in Nat /\ Compiling
        /\ both \in SUBSET Valuations
    BY <1>1, <1>2, <1>3, <1>4
  <2>2. \E J \in SUBSET {t} : Grown(TwoWay(operands, both), t + 2, V \union (J \union {t + 1}))
    BY <2>1, GrownTwoWay
  <2> QED
    BY <1>1, <2>2
<1>8. A \subseteq nextinstr .. t - 1
  BY <1>2, <1>4
<1>9. nextinstr <= t /\ t \in Nat
  BY <1>2, <1>4
<1> HIDE DEF A, n
<1>10. Grown(IR', t + 2, Unpatched \union (A \union J \union {t + 1}))
  <2>1. V \union (J \union {t + 1}) = Unpatched \union (A \union J \union {t + 1})
    OBVIOUS
  <2> QED
    BY <1>7, <2>1
<1> QED
  BY <1>1, <1>2, <1>5, <1>6, <1>8, <1>9, <1>10, NewExpression

\* A packed argument abandons two jumps, and the call makes an expression.
LEMMA PackedArgumentOwns ==
    ASSUME Healthy, NEW a \in Atoms, NEW b \in Atoms, PackedArgument(a, b)
    PROVE  Advances
<1> DEFINE cond == {v \in Valuations : a \in v}
           cb == {v \in Valuations : b \in v}
           one == TwoWay(IR, cb)
           two == Emit(one, Plain("param"))
           called == Emit(two, Plain("call"))
           n == nextinstr
           t == Len(called)
           W == Unpatched
           A == n .. n + 1
           V == W \union A
           f == [Expression(cond, nextinstr) EXCEPT !.true_list = makeList(t),
                                                    !.false_list = makeList(t + 1)]
<1>1. /\ Compiling /\ Sound /\ n \in Nat /\ nextinstr <= n + 4 /\ n + 4 \in Nat /\ ~error_reported
      /\ IR_ARRAY_SIZE \in Nat
  BY HealthyFacts DEF Healthy
<1>2. Grown(one, n + 2, V)
  <2>1. cb \in SUBSET Valuations /\ cb # {}
    BY HoldsSomewhere
  <2> HIDE DEF cb
  <2> QED
    BY <2>1, GrownTests
<1>3. /\ cond \in SUBSET Valuations
      /\ Room(6) /\ IR' = TwoWay(called, cond) /\ Push(f)
      /\ Abandon(A) /\ UNCHANGED <<error_reported, functions, workload>>
  <2>1. Plain("param") \in InstructionType /\ Plain("call") \in InstructionType
        /\ one \in Seq(InstructionType)
    BY <1>1, <1>2, InstructionTyped DEF Sound, Grown
  <2>2. EmitAll(one, <<Plain("param"), Plain("call")>>) = called
    BY <1>1, <2>1, EmitEach
  <2> QED
    BY <2>2 DEF PackedArgument
<1> HIDE DEF one
<1>4. Grown(called, n + 4, V)
  <2> HIDE DEF V, called
  <2>1. Grown(two, n + 2 + 1, V)
    <3> DEFINE k == n + 2
    <3>1. k \in Nat /\ Grown(one, k, V)
      BY <1>1, <1>2
    <3> HIDE DEF k
    <3>2. Grown(two, k + 1, V)
      BY <1>1, <3>1, GrownInstructions
    <3> QED
      BY <3>2 DEF k
  <2> HIDE DEF two
  <2>2. Grown(called, n + 2 + 1 + 1, V) /\ n + 2 + 1 + 1 = n + 4
    <3> DEFINE k == n + 2 + 1
    <3>1. k \in Nat /\ Grown(two, k, V)
      BY <1>1, <2>1
    <3> HIDE DEF k
    <3>2. Grown(called, k + 1, V)
      BY <1>1, <3>1, GrownInstructions DEF called
    <3> QED
      BY <1>1, <3>2 DEF k
  <2> QED
    BY <2>2
<1> HIDE DEF called
<1>5. t = n + 4
  BY <1>4 DEF Grown
<1>6. /\ f.true_list = {t} /\ f.false_list = {t + 1} /\ f.quad = nextinstr
      /\ f.start = nextinstr
  <2>1. t \in LineNumbers /\ t + 1 \in LineNumbers /\ Room(2)
    BY <1>3, <1>1, <1>5, SizeFacts DEF Room, LineNumbers, Sound
  <2>2. cond \in SUBSET Valuations /\ Sound
    BY <1>3, <1>1
  <2>3. f = Result(cond, t)
    BY DEF Result
  <2> HIDE DEF t, cond, f
  <2> QED
    BY <2>1, <2>2, <2>3, ResultFields
<1> HIDE DEF f, cond, t
<1>7. abandoned' = abandoned \union A
  BY <1>3, <1>1 DEF Abandon
<1>8. PICK J \in SUBSET {t} : Grown(IR', t + 2, V \union (J \union {t + 1}))
  <2> HIDE DEF V
  <2>1. /\ Grown(called, t, V) /\ t \in Nat /\ Compiling
        /\ cond \in SUBSET Valuations
    BY <1>3, <1>1, <1>4, <1>5
  <2>2. \E J \in SUBSET {t} : Grown(TwoWay(called, cond), t + 2, V \union (J \union {t + 1}))
    BY <2>1, GrownTwoWay
  <2> QED
    BY <1>3, <2>2
<1>9. A \subseteq nextinstr .. t - 1 /\ nextinstr <= t /\ t \in Nat
  BY <1>1, <1>5
<1> HIDE DEF A, n
<1>10. Grown(IR', t + 2, Unpatched \union (A \union J \union {t + 1}))
  <2>1. V \union (J \union {t + 1}) = Unpatched \union (A \union J \union {t + 1})
    OBVIOUS
  <2> QED
    BY <1>8, <2>1
<1> QED
  BY <1>3, <1>1, <1>6, <1>7, <1>9, <1>10, NewExpression

\* An item with no jumps is pushed.
LEMMA OpenerOwns ==
    ASSUME Healthy, NEW k \in ItemKinds, Push(Item(k)),
           UNCHANGED <<IR, error_reported, functions, abandoned, workload>>
    PROVE  Advances
<1> DEFINE i == Item(k)
           n == 0
           m == nextinstr
           E == {}
<1>1. /\ m \in Nat /\ Depth \in Nat /\ Depth > 0 /\ Base \in Nat /\ Base <= m
      /\ Grown(IR, m, Unpatched) /\ Owned(stack, Depth + 1, Depth) = E
  BY HealthyFacts, OwnedOnTop DEF Healthy
<1>2. i.true_list = E /\ i.false_list = E /\ i.quad = m /\ i.start = m /\ Lists(i) = E
  BY DEF Item, Lists
<1>3. IR' = IR /\ Push(i) /\ UNCHANGED <<error_reported, functions, abandoned, workload>>
  OBVIOUS
<1>4. n \in 0 .. Depth - 1 /\ Depth - n + 1 = Depth + 1 /\ n = 0 /\ m \in Base .. m
      /\ nextinstr <= m
  BY <1>1
<1>5. (Unpatched \ E) \union E = Unpatched /\ E = {} /\ \A S : E \subseteq S
  OBVIOUS
<1>6. \A S : E \intersect S = E /\ E \union S = S
  OBVIOUS
<1> HIDE DEF i, n, m, E
<1>7. Grown(IR', m, (Unpatched \ E) \union E)
  BY <1>1, <1>3, <1>5
<1>8. Reduces(n, i, m, E, E)
  BY <1>1, <1>2, <1>3, <1>4, <1>5, <1>6, <1>7 DEF Reduces
<1> QED
  BY <1>8, ReductionOwns

\* An operand of OR, AND or NOT leaves the jumps the operator decides to the
\* enclosing expression.
LEMMA ReduceOwns ==
    ASSUME Healthy, ReduceOr \/ ReduceAnd \/ ReduceNot
    PROVE  Advances
<1> DEFINE m == nextinstr
           E == {}
<1>0. /\ m \in Nat /\ Depth \in Nat /\ Base \in Nat /\ Base <= m /\ Sound /\ Compiling
      /\ Grown(IR, m, Unpatched) /\ nextinstr <= m /\ m <= IR_ARRAY_SIZE
  BY HealthyFacts DEF Healthy
<1>1. ASSUME NEW o \in {"or", "and"}, HasOperand(o), NEW L, NEW K, NEW e,
             \/ L = Left.false_list /\ K = Left.true_list
             \/ L = Left.true_list /\ K = Left.false_list,
             IR' = backpatch(IR, L, Under.quad), Replace(3, e),
             Lists(e) = K \union Lists(Top), e.true_list \intersect e.false_list = {},
             e.quad = Left.quad, e.start = Left.start,
             UNCHANGED <<error_reported, functions, abandoned, workload>>
      PROVE  Advances
  <2> DEFINE n == 3
  <2>1. /\ Depth > 3 /\ Lists(Under) = {} /\ n \in 0 .. Depth - 1 /\ Depth - n + 1 = Depth - 2
        /\ n # 0 /\ Replace(n, e)
    BY <1>0, <1>1, OperandOnTop DEF Openers, Lists
  <2> HIDE DEF n
  <2>2. /\ Owned(stack, Depth - n + 1, Depth) = Lists(Left) \union Lists(Top)
        /\ Lists(Left) \subseteq Base .. m - 1 /\ Lists(Left) = L \union K
        /\ L \intersect K = {} /\ L \intersect Lists(Top) = {}
        /\ Left.quad \in Base .. m /\ Left.start \in Base .. m /\ Under.quad \in Base .. m
    BY <1>0, <1>1, <2>1, OwnedOnTop DEF Lists
  <2>3. Grown(IR', m, (Unpatched \ L) \union E)
    <3>1. L \subseteq Base .. m - 1 /\ (Unpatched \ L) \union E = Unpatched \ L
      BY <2>2
    <3> HIDE DEF E
    <3> QED
      BY <1>0, <1>1, <2>2, <3>1, GrownPatch
  <2> HIDE DEF m
  <2>4. /\ L \subseteq Lists(Left) \union Lists(Top)
        /\ Lists(Left) \union Lists(Top) \subseteq L \union Lists(e)
        /\ Lists(e) \subseteq ((Lists(Left) \union Lists(Top)) \ L) \union nextinstr .. m - 1
        /\ E \subseteq nextinstr .. m - 1 /\ E \subseteq Lists(e)
    BY <1>1, <2>2
  <2> HIDE DEF E
  <2>5. Reduces(n, e, m, L, E)
    BY <1>0, <1>1, <2>1, <2>2, <2>3, <2>4 DEF Reduces
  <2> QED
    BY <2>5, ReductionOwns
<1>2. CASE ReduceOr
  <2> DEFINE e == [Left EXCEPT !.false_list = Top.false_list,
                               !.true_list = mergeList(Left.true_list, Top.true_list),
                               !.truth = Left.truth \union Top.truth]
             L == Left.false_list
             K == Left.true_list
  <2>1. /\ HasOperand("or") /\ "or" \in Openers /\ IR' = backpatch(IR, L, Under.quad)
        /\ Replace(3, e) /\ UNCHANGED <<error_reported, functions, abandoned, workload>>
    BY <1>2 DEF ReduceOr, Openers
  <2>2. Left \in ItemType /\ Depth > 3
    BY <1>0, <2>1, OperandOnTop
  <2>3. /\ e.false_list = Top.false_list /\ e.true_list = K \union Top.true_list
        /\ e.quad = Left.quad /\ e.start = Left.start
    BY <2>2 DEF ItemType, mergeList
  <2> HIDE DEF e
  <2>4. /\ Lists(e) = K \union Lists(Top) /\ e.true_list \intersect e.false_list = {}
    <3>1. Lists(Left) \intersect Lists(Top) = {} /\ Top.true_list \intersect Top.false_list = {}
      BY <1>0, <2>2, OwnedOnTop
    <3> QED
      BY <2>3, <3>1 DEF Lists
  <2> HIDE DEF L, K
  <2>5. L = Left.false_list /\ K = Left.true_list
    BY DEF L, K
  <2> QED
    BY <1>1, <2>1, <2>3, <2>4, <2>5
<1>3. CASE ReduceAnd
  <2> DEFINE e == [Left EXCEPT !.true_list = Top.true_list,
                               !.false_list = mergeList(Left.false_list, Top.false_list),
                               !.truth = Left.truth \intersect Top.truth]
             L == Left.true_list
             K == Left.false_list
  <2>1. /\ HasOperand("and") /\ "and" \in Openers /\ IR' = backpatch(IR, L, Under.quad)
        /\ Replace(3, e) /\ UNCHANGED <<error_reported, functions, abandoned, workload>>
    BY <1>3 DEF ReduceAnd, Openers
  <2>2. Left \in ItemType /\ Depth > 3
    BY <1>0, <2>1, OperandOnTop
  <2>3. /\ e.true_list = Top.true_list /\ e.false_list = K \union Top.false_list
        /\ e.quad = Left.quad /\ e.start = Left.start
    BY <2>2 DEF ItemType, mergeList
  <2> HIDE DEF e
  <2>4. /\ Lists(e) = K \union Lists(Top) /\ e.true_list \intersect e.false_list = {}
    <3>1. Lists(Left) \intersect Lists(Top) = {} /\ Top.true_list \intersect Top.false_list = {}
      BY <1>0, <2>2, OwnedOnTop
    <3> QED
      BY <2>3, <3>1 DEF Lists
  <2> HIDE DEF L, K
  <2>5. L = Left.true_list /\ K = Left.false_list
    BY DEF L, K
  <2> QED
    BY <1>1, <2>1, <2>3, <2>4, <2>5
<1>4. CASE ReduceNot
  <2> DEFINE e == [Top EXCEPT !.true_list = Top.false_list, !.false_list = Top.true_list,
                              !.truth = Valuations \ Top.truth]
             n == 2
  <2>1. /\ HasOperand("not") /\ "not" \in Openers /\ IR' = IR /\ Replace(n, e)
        /\ UNCHANGED <<error_reported, functions, abandoned, workload>>
    BY <1>4 DEF ReduceNot, Openers
  <2>2. Top \in ItemType /\ Depth > 2 /\ Lists(Under) = {}
    BY <1>0, <2>1, OperandOnTop DEF Lists
  <2>3. /\ e.true_list = Top.false_list /\ e.false_list = Top.true_list
        /\ e.quad = Top.quad /\ e.start = Top.start
    BY <2>2 DEF ItemType
  <2> HIDE DEF e
  <2>4. n \in 0 .. Depth - 1 /\ Depth - n + 1 = Depth - 1 /\ n # 0
    BY <1>0, <2>2
  <2> HIDE DEF n
  <2>5. /\ Owned(stack, Depth - n + 1, Depth) = Lists(Top) /\ Lists(e) = Lists(Top)
        /\ e.true_list \intersect e.false_list = {}
        /\ e.quad \in Base .. m /\ e.start \in Base .. m
    <3>1. Depth > 1
      BY <1>0, <2>2
    <3>2. /\ Owned(stack, Depth - 1, Depth) = Lists(Under) \union Lists(Top)
          /\ Top.true_list \intersect Top.false_list = {}
          /\ Top.quad \in Base .. m /\ Top.start \in Base .. m
      BY <3>1, OwnedOnTop
    <3> HIDE DEF m
    <3> QED
      BY <2>2, <2>3, <2>4, <3>2 DEF Lists
  <2>6. /\ (Unpatched \ E) \union E = Unpatched
        /\ Lists(e) \subseteq (Lists(Top) \ E) \union nextinstr .. m - 1
        /\ Lists(Top) \subseteq E \union Lists(e) /\ \A S : E \subseteq S
    BY <2>5
  <2> HIDE DEF E, m
  <2>7. Reduces(n, e, m, E, E)
    BY <1>0, <2>1, <2>4, <2>5, <2>6 DEF Reduces
  <2> QED
    BY <2>7, ReductionOwns
<1> QED
  BY <1>2, <1>3, <1>4

\* A Boolean argument uses up its jumps, and the call's result has its own.
LEMMA EndArgumentOwns ==
    ASSUME Healthy, NEW a \in Atoms, EndArgument(a)
    PROVE  Advances
<1> DEFINE cond == {v \in Valuations : a \in v}
           stored == Stored(Top, "param")
           called == Emit(stored, Plain("call"))
           t == Len(called)
           l == nextinstr
           e == Item("expr")
           q == Under.quad
           n == 2
           L == Lists(Top)
           V == Unpatched \ L
           f == [e EXCEPT !.true_list = makeList(t), !.false_list = makeList(t + 1),
                          !.truth = cond, !.start = t, !.quad = q]
<1>1. /\ cond \in SUBSET Valuations /\ cond # {} /\ HasOperand("argument")
      /\ Room(6) /\ IR' = TwoWay(called, cond) /\ Replace(n, f)
      /\ UNCHANGED <<error_reported, functions, abandoned, workload>>
  <2>1. cond \in SUBSET Valuations /\ cond # {}
    BY HoldsSomewhere
  <2> QED
    BY <2>1 DEF EndArgument
<1>2. /\ Compiling /\ Sound /\ l \in Nat /\ nextinstr <= l /\ l + 3 \in Nat /\ l + 4 \in Nat
      /\ IR_ARRAY_SIZE \in Nat /\ Base \in Nat /\ Base <= l /\ Room(3)
  BY <1>1, HealthyFacts DEF Healthy, Room
<1>3. /\ Depth > 2 /\ Depth \in Nat /\ Under \in ItemType /\ Top \in ItemType
      /\ Lists(Under) = {}
  BY <1>1, <1>2, OperandOnTop DEF Openers, Lists
<1>4. /\ Top.true_list \subseteq Base .. nextinstr - 1
      /\ Top.false_list \subseteq Base .. nextinstr - 1 /\ q \in Base .. nextinstr
      /\ Owned(stack, Depth - 1, Depth) = L
  BY <1>3, OwnedOnTop DEF Lists
<1>5. Grown(stored, l + 3, V)
  BY <1>2, <1>4, GrownStored
<1> HIDE DEF stored, V, L, cond
<1>6. Grown(called, l + 4, V)
  <2>1. Grown(called, l + 3 + 1, V)
    BY <1>2, <1>5, GrownInstructions
  <2>2. l + 3 + 1 = l + 4
    BY <1>2
  <2> QED
    BY <2>1, <2>2
<1> HIDE DEF called
<1>7. t = l + 4
  BY <1>6 DEF Grown
<1> DEFINE m == t + 2
           U == {t, t + 1}
<1>8. Grown(IR', m, V \union U)
  <2>1. t \in Nat /\ Grown(called, t, V)
    BY <1>2, <1>6, <1>7
  <2> QED
    BY <1>1, <1>2, <2>1, GrownTwoWay
<1>9. e \in ItemType
  BY <1>2, ItemTyped, Kinds DEF Sound
<1> HIDE DEF e
<1>10. f.true_list = {t} /\ f.false_list = {t + 1} /\ f.start = t /\ f.quad = q
  BY <1>9 DEF ItemType, makeList
<1> HIDE DEF f, q, t
<1>11. /\ f.quad \in Base .. m /\ f.start \in Base .. m /\ m \in Nat /\ nextinstr <= m
       /\ Lists(f) = U /\ f.true_list \intersect f.false_list = {}
       /\ U \subseteq nextinstr .. m - 1
  BY <1>2, <1>4, <1>7, <1>10 DEF Lists
<1>12. n \in 0 .. Depth - 1 /\ Depth - n + 1 = Depth - 1 /\ n # 0
  BY <1>3
<1> HIDE DEF n, m, U
<1>13. Owned(stack, Depth - n + 1, Depth) = L
  BY <1>4, <1>12
<1>14. /\ L \subseteq L \union Lists(f) /\ L \subseteq L
       /\ U \subseteq (L \ L) \union nextinstr .. m - 1
  BY <1>11
<1>15. Reduces(n, f, m, L, U)
  BY <1>1, <1>8, <1>11, <1>12, <1>13, <1>14 DEF Reduces, V
<1> QED
  BY <1>15, ReductionOwns

\* Statements that test nothing, and those that store a Boolean value.
LEMMA StatementOwns ==
    ASSUME Healthy, (\E op \in {"assign", "return"} : Simple(op)) \/ Assign \/ Return
    PROVE  Advances
<1> DEFINE l == nextinstr
           V == Unpatched
<1>0. /\ Sound /\ Compiling /\ l \in Nat /\ Depth \in Nat /\ Depth > 0 /\ nextinstr = l
      /\ Base \in Nat /\ Base <= l /\ Grown(IR, l, V) /\ IR_ARRAY_SIZE \in Nat
  BY HealthyFacts DEF Healthy
<1>1. ASSUME NEW op \in {"assign", "return"}, Simple(op) PROVE Advances
  <2> DEFINE n == 0
             L == {}
             m == l + 1
  <2>1. n \in 0 .. Depth - 1 /\ Depth - n + 1 = Depth + 1 /\ n = 0
    BY <1>0
  <2> HIDE DEF n
  <2>2. L = Owned(stack, Depth - n + 1, Depth)
    BY <2>1, OwnedOnTop
  <2>3. V \ L = V
    OBVIOUS
  <2> HIDE DEF L, V
  <2>4. Grown(IR', m, V \ L) /\ UNCHANGED <<error_reported, stack, functions, abandoned, workload>>
    BY <1>0, <1>1, <2>3, GrownInstructions DEF Simple
  <2>5. m \in Nat /\ nextinstr <= m
    BY <1>0
  <2> HIDE DEF m
  <2>6. Closes(n, m, L)
    BY <2>1, <2>2, <2>4, <2>5 DEF Closes, V
  <2> QED
    BY <2>6, ClosingOwns
<1>2. ASSUME NEW o \in {"assign", "return"}, HasOperand(o)
      PROVE  /\ 2 \in 0 .. Depth - 1 /\ Lists(Top) = Owned(stack, Depth - 2 + 1, Depth)
             /\ Top.true_list \subseteq Base .. nextinstr - 1
             /\ Top.false_list \subseteq Base .. nextinstr - 1
  <2>1. Depth > 2 /\ Lists(Under) = {}
    BY <1>0, <1>2, OperandOnTop DEF Openers, Lists
  <2>2. Depth - 2 + 1 = Depth - 1
    BY <1>0
  <2>3. Lists(Top) = Owned(stack, Depth - 2 + 1, Depth)
    <3>1. Depth > 1
      BY <1>0, <2>1
    <3>2. Owned(stack, Depth - 1, Depth) = Lists(Under) \union Lists(Top)
      BY <3>1, OwnedOnTop
    <3> QED
      BY <2>1, <2>2, <3>2
  <2> QED
    BY <1>0, <2>1, <2>3, OwnedOnTop DEF Lists
<1>3. CASE Assign
  <2> DEFINE n == 2
             L == Lists(Top)
             m == l + 3
  <2>1. /\ n \in 0 .. Depth - 1 /\ L = Owned(stack, Depth - n + 1, Depth)
        /\ Top.true_list \subseteq Base .. nextinstr - 1
        /\ Top.false_list \subseteq Base .. nextinstr - 1
    BY <1>2, <1>3 DEF Assign
  <2>2. /\ Pop(n) /\ Room(3) /\ IR' = Stored(Top, "assign")
        /\ UNCHANGED <<error_reported, functions, abandoned, workload>>
    BY <1>3 DEF Assign
  <2> HIDE DEF n
  <2>3. Grown(IR', m, Unpatched \ L)
    BY <1>0, <2>1, <2>2, GrownStored
  <2>4. m \in Nat /\ nextinstr <= m
    BY <1>0
  <2> HIDE DEF m, L
  <2>5. Closes(n, m, L)
    BY <2>1, <2>2, <2>3, <2>4 DEF Closes
  <2> QED
    BY <2>5, ClosingOwns
<1>4. CASE Return
  <2> DEFINE n == 2
             L == Lists(Top)
             m == l + 2
             T == Top.true_list
             F == Top.false_list
             c1 == backpatch(IR, T, l)
             c2 == Emit(c1, Plain("return"))
             c3 == backpatch(c2, F, l + 1)
             c4 == Emit(c3, Plain("return"))
  <2>1. /\ n \in 0 .. Depth - 1 /\ L = Owned(stack, Depth - n + 1, Depth)
        /\ T \subseteq Base .. l - 1 /\ F \subseteq Base .. l - 1
    BY <1>2, <1>4 DEF Return
  <2>2. /\ Pop(n) /\ Room(2) /\ IR' = c4
        /\ UNCHANGED <<error_reported, functions, abandoned, workload>>
    BY <1>4 DEF Return
  <2>3. l + 2 <= IR_ARRAY_SIZE
    BY <2>2 DEF Room
  <2>4. L = T \union F
    BY DEF Lists
  <2> HIDE DEF n, T, F, V, l, L
  <2>5. Grown(c1, l, V \ T)
    <3>1. l \in Base .. l /\ l <= IR_ARRAY_SIZE
      BY <1>0, <2>3
    <3> QED
      BY <1>0, <2>1, <3>1, GrownPatch
  <2> HIDE DEF c1
  <2>6. Grown(c2, l + 1, V \ T)
    BY <1>0, <2>5, GrownInstructions
  <2> HIDE DEF c2
  <2>7. Grown(c3, l + 1, (V \ T) \ F)
    <3> DEFINE k == l + 1
               X == V \ T
    <3>1. /\ k \in Base .. k /\ k <= IR_ARRAY_SIZE /\ k \in Nat /\ F \subseteq Base .. k - 1
      BY <1>0, <2>1, <2>3
    <3>2. Grown(c2, k, X)
      BY <2>6
    <3>3. c3 = backpatch(c2, F, k)
      OBVIOUS
    <3> HIDE DEF k, X, c3
    <3>4. Grown(c3, k, X \ F)
      BY <1>0, <3>1, <3>2, <3>3, GrownPatch
    <3> QED
      BY <3>4 DEF k, X
  <2> HIDE DEF c3
  <2>8. Grown(c4, m, V \ L)
    <3>1. l + 1 + 1 = m /\ l + 1 \in Nat /\ (V \ T) \ F = V \ L
      BY <1>0, <2>4
    <3>2. Grown(c4, l + 1 + 1, (V \ T) \ F)
      BY <1>0, <2>7, <3>1, GrownInstructions
    <3> QED
      BY <3>1, <3>2
  <2>9. m \in Nat /\ nextinstr <= m
    BY <1>0
  <2> HIDE DEF m, c4
  <2>10. Closes(n, m, L)
    BY <2>1, <2>2, <2>8, <2>9 DEF Closes, V
  <2> QED
    BY <2>10, ClosingOwns
<1> QED
  BY <1>1, <1>3, <1>4

\* A loop or a branch is entered: the jumps of the condition's true list get
\* their target, those of its false list wait for the end of the body.
LEMMA BodyOwns ==
    ASSUME Healthy, WhileBody \/ ThenBody
    PROVE  Advances
<1> DEFINE fresh(k) == [Item(k) EXCEPT !.false_list = Top.false_list, !.truth = Top.truth,
                                       !.start = Under.quad]
           n == 2
           m == nextinstr
           L == Top.true_list
           E == {}
<1>0. /\ Sound /\ Compiling /\ m \in Nat /\ Depth \in Nat /\ nextinstr <= m
      /\ Base \in Nat /\ Base <= m /\ Grown(IR, m, Unpatched) /\ m <= IR_ARRAY_SIZE
  BY HealthyFacts DEF Healthy
<1>1. PICK o \in {"while", "if"}, k \in {"while_body", "then"} :
        /\ HasOperand(o) /\ Replace(n, fresh(k)) /\ IR' = backpatch(IR, L, m)
        /\ UNCHANGED <<error_reported, functions, abandoned, workload>>
  BY DEF WhileBody, ThenBody
<1> DEFINE f == fresh(k)
<1>2. Depth > 2 /\ Lists(Under) = {}
  BY <1>0, <1>1, OperandOnTop DEF Openers, Lists
<1>3. /\ f.true_list = E /\ f.false_list = Top.false_list /\ f.quad = m
      /\ f.start = Under.quad
  <2> DEFINE e == Item(k)
  <2>1. e \in ItemType /\ e.true_list = {} /\ e.quad = m
    BY <1>0, ItemTyped DEF Sound, Item, ItemKinds, Bodies
  <2> HIDE DEF e
  <2>2. f = [e EXCEPT !.false_list = Top.false_list, !.truth = Top.truth, !.start = Under.quad]
    BY DEF e
  <2> QED
    BY <2>1, <2>2 DEF ItemType
<1> HIDE DEF fresh
<1>4. /\ Replace(n, f) /\ IR' = backpatch(IR, L, m)
      /\ UNCHANGED <<error_reported, functions, abandoned, workload>>
  BY <1>1
<1>5. n \in 0 .. Depth - 1 /\ Depth - n + 1 = Depth - 1 /\ n # 0
  BY <1>0, <1>2
<1> HIDE DEF n, f
<1>6. /\ Owned(stack, Depth - n + 1, Depth) = Lists(Top) /\ Lists(Top) = L \union Top.false_list
      /\ L \intersect Top.false_list = {} /\ Lists(f) = Top.false_list
      /\ f.quad \in Base .. m /\ f.start \in Base .. m /\ L \subseteq Base .. m - 1
      /\ f.true_list \intersect f.false_list = {}
  <2>1. Depth > 1
    BY <1>0, <1>2
  <2>2. /\ Owned(stack, Depth - 1, Depth) = Lists(Under) \union Lists(Top)
        /\ Under.quad \in Base .. m /\ Lists(Top) \subseteq Base .. m - 1
        /\ Top.true_list \intersect Top.false_list = {}
    BY <2>1, OwnedOnTop
  <2> QED
    BY <1>0, <1>2, <1>3, <1>5, <2>2 DEF Lists
<1>7. Grown(IR', m, (Unpatched \ L) \union E)
  <2>1. (Unpatched \ L) \union E = Unpatched \ L /\ m \in Base .. m
    BY <1>0
  <2> HIDE DEF E
  <2> QED
    BY <1>0, <1>1, <1>6, <2>1, GrownPatch
<1>8. \A S : E \subseteq S
  OBVIOUS
<1> HIDE DEF m, L, E
<1>9. /\ L \subseteq Lists(Top) /\ Lists(Top) \subseteq L \union Lists(f)
      /\ Lists(f) \subseteq (Lists(Top) \ L) \union nextinstr .. m - 1
  BY <1>6
<1>10. Reduces(n, f, m, L, E)
  BY <1>0, <1>5, <1>6, <1>7, <1>8, <1>9, <1>4 DEF Reduces
<1> QED
  BY <1>10, ReductionOwns

\* The end of a loop or a branch patches what its body left waiting.
LEMMA EndingOwns ==
    ASSUME Healthy, EndWhile \/ ElseBody \/ EndElse \/ EndBlock
    PROVE  Advances
<1> DEFINE l == nextinstr
           n == 1
           L == Lists(Top)
           V == Unpatched
<1>0. /\ Sound /\ Compiling /\ l \in Nat /\ Depth \in Nat /\ Depth > 0 /\ nextinstr = l
      /\ Base \in Nat /\ Base <= l /\ Grown(IR, l, V) /\ IR_ARRAY_SIZE \in Nat
      /\ l <= IR_ARRAY_SIZE
  BY HealthyFacts DEF Healthy
<1>1. Top.k \in {"while_body", "then", "else", "block"}
  BY DEF EndWhile, ElseBody, EndElse, EndBlock, BodyDone
<1>2. Depth > 1
  <2>1. Top.k # "function" /\ Top = stack[Depth]
    BY <1>1 DEF Top
  <2> QED
    BY <1>0, <2>1 DEF Sound, Shape
<1>3. n \in 0 .. Depth - 1 /\ Depth - n + 1 = Depth /\ n # 0
  BY <1>0, <1>2
<1> HIDE DEF n
<1>4. /\ Owned(stack, Depth - n + 1, Depth) = L /\ L \subseteq Base .. l - 1
      /\ Top.start \in Base .. l
  BY <1>3, OwnedOnTop
<1>5. OwnsByKind(Top)
  <2>1. Top = stack[Depth] /\ Depth \in 1 .. Depth
    BY <1>0 DEF Top
  <2> QED
    BY <1>0, <2>1 DEF Sound, Shape
<1>6. CASE EndWhile
  <2> DEFINE g == [GotoIR EXCEPT !.target = Top.start]
             looped == Emit(IR, g)
             m == l + 1
  <2>1. /\ Pop(1) /\ IR' = backpatch(looped, Top.false_list, Len(looped)) /\ Room(1)
        /\ UNCHANGED <<error_reported, functions, abandoned, workload>>
        /\ Top.k = "while_body"
    BY <1>6 DEF EndWhile, BodyDone
  <2>2. Top.false_list = L
    BY <1>5, <2>1 DEF OwnsByKind, Lists
  <2>3. m <= IR_ARRAY_SIZE /\ m \in Nat /\ nextinstr <= m /\ m \in Base .. m
    BY <1>0, <2>1 DEF Room
  <2> HIDE DEF L, V
  <2>4. Grown(looped, m, V)
    BY <1>0, <1>4, GrownInstructions
  <2> HIDE DEF looped
  <2>5. Len(looped) = m
    BY <2>4 DEF Grown
  <2>6. L \subseteq Base .. m - 1
    BY <1>0, <1>4
  <2> HIDE DEF m
  <2>7. Grown(IR', m, V \ L)
    BY <1>0, <2>1, <2>2, <2>3, <2>4, <2>5, <2>6, GrownPatch
  <2>8. Pop(n)
    BY <2>1 DEF n
  <2>9. Closes(n, m, L)
    BY <1>3, <1>4, <2>1, <2>3, <2>7, <2>8 DEF Closes, V
  <2> QED
    BY <2>9, ClosingOwns
<1>7. CASE ElseBody
  <2> DEFINE skipped == Emit(IR, GotoIR)
             m == l + 1
             k == Len(skipped)
             e == Item("else")
             f == [e EXCEPT !.true_list = makeList(nextinstr), !.quad = k,
                            !.start = nextinstr]
             U == {l}
  <2>1. /\ Replace(1, f) /\ IR' = backpatch(skipped, Top.false_list, k) /\ Room(1)
        /\ UNCHANGED <<error_reported, functions, abandoned, workload>>
        /\ Top.k = "then"
    BY <1>7 DEF ElseBody, BodyDone
  <2>2. Top.false_list = L
    BY <1>5, <2>1 DEF OwnsByKind, Lists
  <2>3. m <= IR_ARRAY_SIZE /\ m \in Nat /\ nextinstr <= m /\ m \in Base .. m
    BY <1>0, <2>1 DEF Room
  <2> HIDE DEF L, V
  <2>4. Grown(skipped, m, V \union U)
    BY <1>0, GrownInstructions
  <2> HIDE DEF skipped
  <2>5. k = m
    BY <2>4 DEF Grown
  <2>6. /\ f.true_list = U /\ f.false_list = {} /\ f.quad = k /\ f.start = l
    <3>1. e \in ItemType /\ e.false_list = {}
      BY <1>0, ItemTyped DEF Sound, Item, ItemKinds, Bodies
    <3> HIDE DEF e, k
    <3> QED
      BY <3>1 DEF ItemType, makeList
  <2> HIDE DEF f, k
  <2>7. /\ L \subseteq Base .. m - 1 /\ l \in Base .. m /\ U \subseteq l .. m - 1
        /\ Lists(f) = U /\ f.true_list \intersect f.false_list = {}
    BY <1>0, <1>4, <2>6 DEF Lists
  <2>8. L \intersect U = {}
    BY <1>0, <1>4
  <2> HIDE DEF m
  <2>9. Grown(IR', m, (V \union U) \ L)
    BY <1>0, <2>1, <2>2, <2>3, <2>4, <2>5, <2>7, GrownPatch
  <2>10. (V \union U) \ L = (V \ L) \union U
    BY <2>8
  <2>11. IF n = 0 THEN Push(f) ELSE Replace(n, f)
    BY <2>1 DEF n
  <2>12. /\ L \subseteq L \union Lists(f) /\ Lists(f) \subseteq (L \ L) \union nextinstr .. m - 1
    BY <1>0, <2>7
  <2> HIDE DEF U
  <2>13. Reduces(n, f, m, L, U)
    BY <1>0, <1>3, <1>4, <2>1, <2>3, <2>5, <2>6, <2>7, <2>9, <2>10, <2>11, <2>12
       DEF Reduces, V
  <2> QED
    BY <2>13, ReductionOwns
<1>8. CASE EndElse
  <2>1. /\ Pop(1) /\ IR' = backpatch(IR, Top.true_list, l) /\ Top.k = "else"
        /\ UNCHANGED <<error_reported, functions, abandoned, workload>>
    BY <1>8 DEF EndElse, BodyDone
  <2>2. Top.true_list = L
    BY <1>5, <2>1 DEF OwnsByKind, Lists
  <2>3. l \in Base .. l /\ nextinstr <= l
    BY <1>0
  <2> HIDE DEF L, V, l
  <2>4. Grown(IR', l, V \ L)
    BY <1>0, <1>4, <2>1, <2>2, <2>3, GrownPatch
  <2>5. Pop(n)
    BY <2>1 DEF n
  <2>6. Closes(n, l, L)
    BY <1>0, <1>3, <1>4, <2>1, <2>3, <2>4, <2>5 DEF Closes, V
  <2> QED
    BY <2>6, ClosingOwns
<1>9. CASE EndBlock
  <2>1. /\ Pop(1) /\ IR' = IR /\ Top.k = "block"
        /\ UNCHANGED <<error_reported, functions, abandoned, workload>>
    BY <1>9 DEF EndBlock, BodyDone
  <2>2. L = {}
    BY <1>5, <2>1 DEF OwnsByKind, Lists
  <2>3. V \ L = V
    BY <2>2
  <2> HIDE DEF L, V
  <2>4. Grown(IR', l, V \ L) /\ nextinstr <= l
    BY <1>0, <2>1, <2>3
  <2>5. Pop(n)
    BY <2>1 DEF n
  <2> HIDE DEF l
  <2>6. Closes(n, l, L)
    BY <1>0, <1>3, <1>4, <2>1, <2>4, <2>5 DEF Closes, V
  <2> QED
    BY <2>6, ClosingOwns
<1> QED
  BY <1>6, <1>7, <1>8, <1>9

\* The check of one dimension leaves the two jumps to the crash open.
LEMMA GrownCheck ==
    ASSUME Compiling, NEW c, NEW k \in Nat, NEW W, Grown(c, k, W), k + 4 <= IR_ARRAY_SIZE,
           NEW lo \in SUBSET Valuations, lo # {}, NEW hi \in SUBSET Valuations, hi # {}
    PROVE  Grown(backpatch(EmitAll(c, <<Plain("read"), JumpIf(lo), JumpIf(hi), GotoIR>>),
                           makeList(k + 2), k + 4),
                 k + 4, W \union {k + 1, k + 3})
<1> DEFINE c1 == Emit(c, Plain("read"))
           c2 == Emit(c1, JumpIf(lo))
           c3 == Emit(c2, JumpIf(hi))
           c4 == Emit(c3, GotoIR)
           W2 == W \union {k + 1}
           W3 == W2 \union {k + 2}
           W4 == W3 \union {k + 3}
<1>0. /\ Base \in Nat /\ Base <= nextinstr /\ nextinstr <= k /\ nextinstr \in Nat
      /\ TypeOK /\ ~error_reported /\ IR_ARRAY_SIZE \in Nat
  BY SizeFacts DEF Compiling, Sound, Grown
<1>1. /\ k + 1 \in Nat /\ k + 2 \in Nat /\ k + 3 \in Nat /\ k + 4 \in Nat
      /\ k + 1 + 1 = k + 2 /\ k + 2 + 1 = k + 3 /\ k + 3 + 1 = k + 4
  OBVIOUS
<1>2. EmitAll(c, <<Plain("read"), JumpIf(lo), JumpIf(hi), GotoIR>>) = c4
  <2> DEFINE i == Plain("read")
             j == JumpIf(lo)
             o == JumpIf(hi)
             S == InstructionType
  <2>1. i \in S /\ j \in S /\ o \in S /\ GotoIR \in S /\ c \in Seq(S)
    BY <1>0, InstructionTyped DEF Grown
  <2> HIDE DEF i, j, o, S
  <2>2. EmitAll(c, <<i, j, o, GotoIR>>) = Emit(Emit(Emit(Emit(c, i), j), o), GotoIR)
    BY <1>0, <2>1, EmitFour
  <2> QED
    BY <2>2 DEF i, j, o
<1>3. Grown(c1, k + 1, W)
  BY GrownInstructions
<1> HIDE DEF c1
<1>4. Grown(c2, k + 2, W2)
  <2>1. Grown(c2, k + 1 + 1, W2)
    BY <1>1, <1>3, GrownInstructions
  <2> QED
    BY <1>1, <2>1
<1> HIDE DEF c2, W2
<1>5. Grown(c3, k + 3, W3)
  <2>1. Grown(c3, k + 2 + 1, W3)
    BY <1>1, <1>4, GrownInstructions
  <2> QED
    BY <1>1, <2>1
<1> HIDE DEF c3, W3
<1>6. Grown(c4, k + 4, W4)
  <2>1. Grown(c4, k + 3 + 1, W4)
    BY <1>1, <1>5, GrownInstructions
  <2> QED
    BY <1>1, <2>1
<1> HIDE DEF c4, W4
<1>7. Grown(backpatch(c4, {k + 2}, k + 4), k + 4, W4 \ {k + 2})
  <2>1. {k + 2} \subseteq Base .. k + 4 - 1 /\ k + 4 \in Base .. k + 4
    BY <1>0
  <2> QED
    BY <1>1, <1>6, <2>1, GrownPatch
<1>8. W4 \ {k + 2} = W \union {k + 1, k + 3}
  <2>1. k + 2 \notin W /\ k + 2 # k + 1 /\ k + 2 # k + 3
    BY DEF Grown, OpenJumps
  <2> QED
    BY <2>1 DEF W4, W3, W2
<1> QED
  BY <1>2, <1>7, <1>8 DEF makeList

\* The access itself: the offset, a goto over the crash, the crash, where the
\* checks' jumps lead, and the write.
LEMMA GrownAccess ==
    ASSUME Compiling, NEW c, NEW m \in Nat, NEW W, Grown(c, m, W), m + 5 <= IR_ARRAY_SIZE,
           NEW list, list \subseteq Base .. m - 1
    PROVE  LET offset == EmitAll(c, <<Plain("compute"), Plain("compute"), GotoIR>>)
               crash == Emit(backpatch(offset, list, m + 3), Plain("crash"))
           IN  Grown(Emit(backpatch(crash, makeList(m + 2), m + 4), Plain("write")),
                     m + 5, W \ list)
<1> DEFINE c1 == Emit(c, Plain("compute"))
           c2 == Emit(c1, Plain("compute"))
           c3 == Emit(c2, GotoIR)
           c4 == backpatch(c3, list, m + 3)
           c5 == Emit(c4, Plain("crash"))
           c6 == backpatch(c5, {m + 2}, m + 4)
           c7 == Emit(c6, Plain("write"))
           W3 == W \union {m + 2}
           W4 == W3 \ list
           W6 == W4 \ {m + 2}
<1>0. /\ Base \in Nat /\ Base <= nextinstr /\ nextinstr <= m /\ nextinstr \in Nat
      /\ TypeOK /\ ~error_reported /\ IR_ARRAY_SIZE \in Nat
  BY SizeFacts DEF Compiling, Sound, Grown
<1>1. /\ m + 1 \in Nat /\ m + 2 \in Nat /\ m + 3 \in Nat /\ m + 4 \in Nat
      /\ m + 1 + 1 = m + 2 /\ m + 2 + 1 = m + 3 /\ m + 3 + 1 = m + 4 /\ m + 4 + 1 = m + 5
  OBVIOUS
<1>2. EmitAll(c, <<Plain("compute"), Plain("compute"), GotoIR>>) = c3
  <2> DEFINE i == Plain("compute")
             S == InstructionType
  <2>1. i \in S /\ GotoIR \in S /\ c \in Seq(S)
    BY <1>0, InstructionTyped DEF Grown
  <2> HIDE DEF i, S
  <2>2. EmitAll(c, <<i, i, GotoIR>>) = Emit(Emit(Emit(c, i), i), GotoIR)
    BY <1>0, <2>1, EmitThree
  <2> QED
    BY <2>2 DEF i
<1>3. Grown(c1, m + 1, W)
  BY GrownInstructions
<1> HIDE DEF c1
<1>4. Grown(c2, m + 2, W)
  <2>1. Grown(c2, m + 1 + 1, W)
    BY <1>1, <1>3, GrownInstructions
  <2> QED
    BY <1>1, <2>1
<1> HIDE DEF c2
<1>5. Grown(c3, m + 3, W3)
  <2>1. Grown(c3, m + 2 + 1, W3)
    BY <1>1, <1>4, GrownInstructions
  <2> QED
    BY <1>1, <2>1
<1> HIDE DEF c3, W3
<1>6. Grown(c4, m + 3, W4)
  <2> DEFINE k == m + 3
  <2>1. /\ list \subseteq Base .. k - 1 /\ k \in Base .. k /\ k <= IR_ARRAY_SIZE /\ k \in Nat
        /\ Grown(c3, k, W3) /\ c4 = backpatch(c3, list, k) /\ W4 = W3 \ list
    BY <1>0, <1>5
  <2> HIDE DEF k, c4, W4
  <2>2. Grown(c4, k, W4)
    BY <2>1, GrownPatch
  <2> QED
    BY <2>2 DEF k
<1> HIDE DEF c4, W4
<1>7. Grown(c5, m + 4, W4)
  <2>1. Grown(c5, m + 3 + 1, W4)
    BY <1>1, <1>6, GrownInstructions
  <2> QED
    BY <1>1, <2>1
<1> HIDE DEF c5
<1>8. Grown(c6, m + 4, W6)
  <2>1. {m + 2} \subseteq Base .. m + 4 - 1 /\ m + 4 \in Base .. m + 4 /\ m + 4 <= IR_ARRAY_SIZE
    BY <1>0
  <2> QED
    BY <1>1, <1>7, <2>1, GrownPatch
<1> HIDE DEF c6, W6
<1>9. Grown(c7, m + 5, W6)
  <2>1. Grown(c7, m + 4 + 1, W6)
    BY <1>1, <1>8, GrownInstructions
  <2> QED
    BY <1>1, <2>1
<1>10. W6 = W \ list
  <2>1. m + 2 \notin W
    BY DEF Grown, OpenJumps
  <2> QED
    BY <2>1 DEF W6, W4, W3
<1> QED
  BY <1>2, <1>9, <1>10 DEF c6, c5, c4, c3, makeList

\* An array write patches every jump it makes.
LEMMA IndexedWriteOwns ==
    ASSUME Healthy, NEW d \in 1 .. 2,
           NEW lo \in [1 .. d -> (SUBSET Valuations) \ {{}}],
           NEW hi \in [1 .. d -> (SUBSET Valuations) \ {{}}], IndexedWrite(lo, hi)
    PROVE  Advances
<1> DEFINE n == nextinstr
           V == Unpatched
           check(k) == <<Plain("read"), JumpIf(lo[k]), JumpIf(hi[k]), GotoIR>>
           first == EmitAll(IR, check(1))
           safe1 == backpatch(first, makeList(n + 2), n + 4)
           crash1 == insertToList(makeList(n + 1), n + 3)
           second == EmitAll(safe1, check(2))
           patched == backpatch(second, makeList(n + 6), n + 8)
           safe2 == EmitAll(patched, <<Plain("compute"), Plain("compute")>>)
           crash2 == insertToList(insertToList(crash1, n + 5), n + 7)
           checked == IF Len(lo) = 1 THEN safe1 ELSE safe2
           crash_list == IF Len(lo) = 1 THEN crash1 ELSE crash2
           m == n + IF Len(lo) = 1 THEN 4 ELSE 10
           offset == EmitAll(checked, <<Plain("compute"), Plain("compute"), GotoIR>>)
           pre == backpatch(offset, crash_list, m + 3)
           crash == Emit(pre, Plain("crash"))
           last == backpatch(crash, makeList(m + 2), m + 4)
<1>1. /\ Room(m + 5 - n) /\ IR' = Emit(last, Plain("write"))
      /\ UNCHANGED <<error_reported, stack, functions, abandoned, workload>>
  BY DEF IndexedWrite
<1>2. /\ Compiling /\ TypeOK /\ ~error_reported /\ Depth \in Nat /\ Depth > 0 /\ n \in Nat
      /\ Base \in Nat /\ Base <= n /\ Grown(IR, n, V) /\ V \subseteq 0 .. n - 1
      /\ IR_ARRAY_SIZE \in Nat
  BY HealthyFacts DEF Healthy, Sound
<1>3. /\ m \in Nat /\ m + 5 <= IR_ARRAY_SIZE /\ Len(lo) = d /\ n < m
      /\ m = n + IF d = 1 THEN 4 ELSE 10
  <2>1. Len(lo) = d
    OBVIOUS
  <2>2. m = n + IF d = 1 THEN 4 ELSE 10
    BY <2>1
  <2>3. n + (m + 5 - n) <= IR_ARRAY_SIZE
    BY <1>1 DEF Room
  <2> HIDE DEF n, m
  <2> QED
    BY <1>2, <2>1, <2>2, <2>3
<1>4. ASSUME NEW k \in 1 .. d
      PROVE  /\ lo[k] \in SUBSET Valuations /\ lo[k] # {}
             /\ hi[k] \in SUBSET Valuations /\ hi[k] # {}
  OBVIOUS
<1>5. /\ n + 4 \in Nat /\ n + 8 \in Nat /\ n + 4 <= IR_ARRAY_SIZE
      /\ d = 2 => n + 8 <= IR_ARRAY_SIZE
  BY <1>2, <1>3
<1>6. Grown(safe1, n + 4, V \union {n + 1, n + 3})
  <2>1. 1 \in 1 .. d
    OBVIOUS
  <2> HIDE DEF V, n
  <2> QED
    BY <1>2, <1>4, <1>5, <2>1, GrownCheck
<1> HIDE DEF first, safe1
<1>7. crash1 = {n + 1, n + 3} /\ crash2 = {n + 1, n + 3} \union {n + 5, n + 7}
  BY DEF makeList, insertToList
<1> HIDE DEF crash1, crash2
<1>8. ASSUME d = 2
      PROVE  Grown(safe2, n + 10, V \union crash2)
  <2> DEFINE k == n + 4
             W == V \union {n + 1, n + 3}
             X == W \union {k + 1, k + 3}
             c1 == Emit(patched, Plain("compute"))
             c2 == Emit(c1, Plain("compute"))
  <2>1. k \in Nat /\ k + 4 <= IR_ARRAY_SIZE /\ Grown(safe1, k, W) /\ 2 \in 1 .. d
        /\ k + 2 = n + 6 /\ k + 4 = n + 8 /\ k + 1 = n + 5 /\ k + 3 = n + 7
    BY <1>2, <1>5, <1>6, <1>8
  <2>2. X = V \union crash2
    BY <1>7, <2>1
  <2> HIDE DEF k, W
  <2>3. Grown(patched, n + 8, X)
    <3>1. Grown(backpatch(second, makeList(k + 2), k + 4), k + 4, X)
      BY <1>2, <1>4, <2>1, GrownCheck
    <3> HIDE DEF second
    <3> QED
      BY <2>1, <3>1
  <2> HIDE DEF patched, X
  <2>4. safe2 = c2
    <3>1. Plain("compute") \in InstructionType /\ patched \in Seq(InstructionType)
      BY <1>2, <2>3, InstructionTyped DEF Grown
    <3> QED
      BY <1>2, <3>1, EmitEach
  <2>5. Grown(c1, n + 8 + 1, X)
    BY <1>2, <1>5, <2>3, GrownInstructions
  <2> HIDE DEF c1
  <2>6. Grown(c2, n + 8 + 1 + 1, X)
    <3>1. n + 8 + 1 \in Nat
      BY <1>2
    <3> QED
      BY <1>2, <2>5, <3>1, GrownInstructions
  <2>7. n + 8 + 1 + 1 = n + 10
    BY <1>2
  <2> HIDE DEF c2
  <2> QED
    BY <2>2, <2>4, <2>6, <2>7
<1> HIDE DEF safe2
<1>9. Grown(checked, m, V \union crash_list)
  <2>1. CASE d = 1
    BY <1>3, <1>6, <1>7, <2>1
  <2>2. CASE d = 2
    BY <1>3, <1>8, <2>2
  <2> QED
    BY <2>1, <2>2
<1>10. /\ crash_list \subseteq n .. m - 1
  <2>1. CASE d = 1
    <3>1. crash_list = {n + 1, n + 3} /\ m = n + 4
      BY <1>3, <1>7, <2>1
    <3> HIDE DEF crash_list, m, n
    <3> QED
      BY <1>2, <3>1
  <2>2. CASE d = 2
    <3>1. crash_list = {n + 1, n + 3} \union {n + 5, n + 7} /\ m = n + 10
      BY <1>3, <1>7, <2>2
    <3> HIDE DEF crash_list, m, n
    <3> QED
      BY <1>2, <3>1
  <2> QED
    BY <2>1, <2>2
<1> HIDE DEF checked, crash_list, m, n, V
<1>11. crash_list \subseteq Base .. m - 1 /\ (V \union crash_list) \ crash_list = V
  <2>1. V \subseteq 0 .. n - 1
    BY <1>2 DEF V, n
  <2>2. crash_list \intersect V = {}
    BY <1>2, <1>10, <2>1
  <2>3. n .. m - 1 \subseteq Base .. m - 1
    BY <1>2
  <2> QED
    BY <1>10, <2>2, <2>3
<1>12. Grown(IR', m + 5, V)
  <2> DEFINE Y == V \union crash_list
  <2>1. Grown(checked, m, Y) /\ Y \ crash_list = V
    BY <1>9, <1>11
  <2> HIDE DEF Y
  <2>2. Grown(Emit(last, Plain("write")), m + 5, Y \ crash_list)
    BY <1>2, <1>3, <1>11, <2>1, GrownAccess
  <2> QED
    BY <1>1, <2>1, <2>2
<1> DEFINE z == 0
           L == {}
           t == m + 5
<1>13. /\ z \in 0 .. Depth - 1 /\ Depth - z + 1 = Depth + 1 /\ z = 0
       /\ t \in Nat /\ nextinstr <= t /\ V \ L = V
  BY <1>2, <1>3 DEF n
<1> HIDE DEF z
<1>14. L = Owned(stack, Depth - z + 1, Depth)
  BY <1>13, OwnedOnTop
<1> HIDE DEF L
<1>15. Grown(IR', t, Unpatched \ L)
  BY <1>12, <1>13 DEF V
<1> HIDE DEF t
<1>16. Closes(z, t, L)
  BY <1>1, <1>13, <1>14, <1>15 DEF Closes
<1> QED
  BY <1>16, ClosingOwns

-----------------------------------------------------------------------------
(* No jump is forgotten, and none leaves its function                      *)

\* No function is being compiled: only one can begin, or an error be reported.
LEMMA BetweenFunctions ==
    ASSUME Sound, Depth = 0, [Next]_vars
    PROVE  BeginFunction \/ ReportError \/ UNCHANGED vars
BY DEF Next, Variable, Constant, Atomic, EndArgument, Operator, Negation, ReduceOr, ReduceAnd,
       ReduceNot, CompareBooleans, PackedArgument, BeginArgument, Simple, Begin, Assign, Return,
       IndexedWrite, WhileBody, EndWhile, ThenBody, ElseBody, EndElse, EndBlock, EndFunction,
       ExpectsExpression, HasOperand, InBody, BodyDone

\* Every other step of a function is one of those above.
LEMMA HealthyStep ==
    ASSUME Healthy, [Next]_vars
    PROVE  Advances \/ BeginFunction \/ EndFunction \/ ReportError \/ UNCHANGED vars
<1>1. CASE \E a \in Atoms : Variable(a) \/ EndArgument(a)
  <2>1. PICK a \in Atoms : Variable(a) \/ EndArgument(a)
    BY <1>1
  <2>2. Holds(a) \in SUBSET Valuations /\ (Variable(a) => Atomic(Holds(a)))
    BY DEF Holds, Variable
  <2> QED
    BY <2>1, <2>2, AtomicOwns, EndArgumentOwns
<1>2. CASE \E b \in BOOLEAN : Constant(b)
  <2>1. PICK b \in BOOLEAN : Constant(b)
    BY <1>2
  <2>2. Atomic(IF b THEN Valuations ELSE {})
    BY <2>1 DEF Constant
  <2>3. (IF b THEN Valuations ELSE {}) \in SUBSET Valuations
    OBVIOUS
  <2> QED
    BY <2>2, <2>3, AtomicOwns
<1>3. CASE \/ \E op \in {"or", "and"} : Operator(op)
           \/ Negation \/ BeginArgument
           \/ \E op \in {"assign", "return"} : Begin(op, op)
           \/ \E k \in {"while", "if", "block"} : Begin(k, k)
  <2>1. PICK k \in {"or", "and", "not", "argument", "assign", "return", "while", "if", "block"} :
          Push(Item(k)) /\ UNCHANGED <<IR, error_reported, functions, abandoned, workload>>
    BY <1>3 DEF Operator, Negation, BeginArgument, Begin
  <2>2. k \in ItemKinds
    BY DEF ItemKinds, Bodies, Openers
  <2> QED
    BY <2>1, <2>2, OpenerOwns
<1>4. CASE ReduceOr \/ ReduceAnd \/ ReduceNot
  BY <1>4, ReduceOwns
<1>5. CASE \E a, b \in Atoms : CompareBooleans(a, b) \/ PackedArgument(a, b)
  BY <1>5, CompareBooleansOwns, PackedArgumentOwns
<1>6. CASE (\E op \in {"assign", "return"} : Simple(op)) \/ Assign \/ Return
  BY <1>6, StatementOwns
<1>7. CASE \E n \in 1 .. 2 :
             \E lo, hi \in [1 .. n -> {{v \in Valuations : a \in v} : a \in Atoms}] :
               IndexedWrite(lo, hi)
  <2>1. PICK n \in 1 .. 2 :
          \E lo, hi \in [1 .. n -> {{v \in Valuations : a \in v} : a \in Atoms}] :
            IndexedWrite(lo, hi)
    BY <1>7
  <2>2. {{v \in Valuations : a \in v} : a \in Atoms} \subseteq (SUBSET Valuations) \ {{}}
    BY HoldsSomewhere
  <2>3. [1 .. n -> {{v \in Valuations : a \in v} : a \in Atoms}]
          \subseteq [1 .. n -> (SUBSET Valuations) \ {{}}]
    BY <2>2
  <2> QED
    BY <2>1, <2>3, IndexedWriteOwns
<1>8. CASE WhileBody \/ ThenBody
  BY <1>8, BodyOwns
<1>9. CASE EndWhile \/ ElseBody \/ EndElse \/ EndBlock
  BY <1>9, EndingOwns
<1> QED
  BY <1>1, <1>2, <1>3, <1>4, <1>5, <1>6, <1>7, <1>8, <1>9 DEF Next

\* After an error the parser goes on, but no function is added.
LEMMA ErrorStep ==
    ASSUME [Next]_vars, error_reported
    PROVE  error_reported' /\ UNCHANGED functions
<1>1. CASE \/ \E a \in Atoms : Variable(a) \/ EndArgument(a)
           \/ \E b \in BOOLEAN : Constant(b)
           \/ \E a, b \in Atoms : CompareBooleans(a, b) \/ PackedArgument(a, b)
  <2>1. ASSUME NEW a, Variable(a) PROVE UNCHANGED <<error_reported, functions>>
    BY <2>1 DEF Variable, Atomic
  <2>2. ASSUME NEW a, EndArgument(a) PROVE UNCHANGED <<error_reported, functions>>
    BY <2>2 DEF EndArgument
  <2>3. ASSUME NEW b, Constant(b) PROVE UNCHANGED <<error_reported, functions>>
    BY <2>3 DEF Constant, Atomic
  <2>4. ASSUME NEW a, NEW b, CompareBooleans(a, b) PROVE UNCHANGED <<error_reported, functions>>
    BY <2>4 DEF CompareBooleans
  <2>5. ASSUME NEW a, NEW b, PackedArgument(a, b) PROVE UNCHANGED <<error_reported, functions>>
    BY <2>5 DEF PackedArgument
  <2> QED
    BY <1>1, <2>1, <2>2, <2>3, <2>4, <2>5
<1>2. CASE \/ \E op \in {"or", "and"} : Operator(op)
           \/ Negation \/ ReduceOr \/ ReduceAnd \/ ReduceNot \/ BeginArgument
  BY <1>2 DEF Operator, Negation, ReduceOr, ReduceAnd, ReduceNot, BeginArgument
<1>3. CASE \/ \E op \in {"assign", "return"} : Simple(op) \/ Begin(op, op)
           \/ Assign \/ Return
           \/ \E k \in {"while", "if", "block"} : Begin(k, k)
           \/ \E n \in 1 .. 2 :
                \E lo, hi \in [1 .. n -> {{v \in Valuations : a \in v} : a \in Atoms}] :
                  IndexedWrite(lo, hi)
  BY <1>3 DEF Simple, Begin, Assign, Return, IndexedWrite
<1>4. CASE \/ WhileBody \/ EndWhile \/ ThenBody \/ ElseBody \/ EndElse \/ EndBlock
           \/ BeginFunction \/ EndFunction \/ ReportError \/ UNCHANGED vars
  BY <1>4 DEF WhileBody, EndWhile, ThenBody, ElseBody, EndElse, EndBlock, BeginFunction,
              EndFunction, ReportError, vars
<1> QED
  BY <1>1, <1>3, <1>4, <1>2 DEF Next

\* A jump of a completed function leads into it or to the line behind it.
JumpsStayNear ==
    \A f \in functions :
      \A i \in f.call_index .. f.end_index :
        IR[i + 1].target \in {-1} \union f.call_index .. f.end_index + 1

\* A completed function and the current one are apart, and its jumps are inside it.
Linked == Sound /\ Tight /\ JumpsStayNear

\* Completed functions stay as they are while the lines before line n do.
LEMMA JumpsKept ==
    ASSUME Sound, JumpsStayNear, UNCHANGED functions, NEW n \in Nat,
           \A f \in functions : f.end_index < n, \A i \in 0 .. n - 1 : IR'[i + 1] = IR[i + 1]
    PROVE  JumpsStayNear'
<1> SUFFICES ASSUME NEW f \in functions, NEW i \in f.call_index .. f.end_index
             PROVE  IR'[i + 1].target \in {-1} \union f.call_index .. f.end_index + 1
  BY DEF JumpsStayNear
<1>1. functions \subseteq FunctionType
  BY TypeParts DEF Sound
<1>2. f.call_index \in LineNumbers /\ f.end_index \in LineNumbers
  BY <1>1 DEF FunctionType
<1>3. f.call_index \in Nat /\ f.end_index \in Nat /\ f.end_index < n
  BY <1>2 DEF LineNumbers
<1>4. i \in 0 .. n - 1
  BY <1>3
<1> QED
  BY <1>4 DEF JumpsStayNear

\* A function begins where no other has lines, and with no jumps.
LEMMA BeginLinked ==
    ASSUME Linked, ~error_reported, BeginFunction
    PROVE  Tight'
<1> DEFINE i == Item("function")
           n == nextinstr
<1>1. /\ stack = <<>> /\ stack' = <<i>> /\ Depth = 0
      /\ UNCHANGED <<IR, error_reported, functions, abandoned>>
  BY DEF BeginFunction, Push, Depth
<1>2. n \in Nat /\ Partition /\ \A f \in functions : f.end_index < n
  BY SizeFacts DEF Linked, Sound, Tight
<1>3. Lists(i) = {} /\ i.true_list = {} /\ i.quad = n /\ i.start = n
  BY DEF Item, Lists
<1> HIDE DEF i
<1>4. Depth' = 1 /\ Base' = n /\ stack'[1] = i /\ nextinstr' = n /\ Unpatched' = Unpatched
  BY <1>1, <1>3 DEF Depth, Base, nextinstr, Unpatched
<1>5. Owned(stack', 1, 1) = {} /\ Owned(stack, 1, 0) = {}
  BY <1>3, <1>4 DEF Owned
<1> HIDE DEF n
<1>6. Partition'
  <2>1. Apart(stack', 1)
    BY <1>3, <1>4 DEF Apart
  <2>2. Unpatched' \subseteq abandoned' \union Owned(stack', 1, 1) /\ abandoned' \subseteq Unpatched'
    BY <1>1, <1>2, <1>4, <1>5 DEF Partition
  <2> QED
    BY <1>4, <1>5, <2>1, <2>2 DEF Partition, Owned, Apart, Lists
<1>7. Within'
  <2>1. ASSUME NEW p \in 1 .. 1
        PROVE  /\ Lists(stack'[p]) \subseteq n .. n - 1 /\ stack'[p].quad \in n .. n
               /\ stack'[p].start \in n .. n
    BY <1>2, <1>3, <1>4
  <2>2. n .. n - 1 = {}
    BY <1>2
  <2> QED
    BY <1>1, <1>2, <1>4, <2>1, <2>2 DEF Within, Lists
<1> QED
  BY <1>1, <1>2, <1>4, <1>6, <1>7 DEF Tight

\* A function ends with no jumps left to its item, and with its own inside.
LEMMA EndLinked ==
    ASSUME Linked, Healthy, EndFunction
    PROVE  Tight' /\ JumpsStayNear'
<1> DEFINE n == nextinstr
           g == [call_index |-> Base, end_index |-> n - 1]
<1>0. /\ n \in Nat /\ Depth \in Nat /\ Partition /\ Within /\ Base \in Nat /\ Base <= n
      /\ \A f \in functions : f.end_index < Base /\ f.end_index \in Int
  <2>1. functions \subseteq FunctionType
    BY TypeParts DEF Healthy, Sound
  <2>2. \A f \in functions : f.end_index \in LineNumbers
    BY <2>1 DEF FunctionType
  <2> QED
    BY <2>2, HealthyFacts DEF Within, LineNumbers
<1>1. Depth = 1 /\ Top = stack[1] /\ Lists(Top) = {}
  <2>1. Top.k = "function" /\ Top = stack[Depth] /\ Depth \in 1 .. Depth
    BY <1>0 DEF EndFunction, BodyDone, Top
  <2>2. Depth = 1 /\ OwnsByKind(Top)
    BY <2>1 DEF Healthy, Sound, Shape
  <2> QED
    BY <2>1, <2>2 DEF OwnsByKind, Lists
<1>2. /\ Depth' = 0 /\ IR' = IR /\ nextinstr' = n /\ Unpatched' = Unpatched
      /\ UNCHANGED <<error_reported, abandoned>> /\ functions' = functions \union {g}
  <2>1. Pop(1)
    BY DEF EndFunction
  <2>2. Len(stack') = 1 - 1 + 1 - 1
    BY <1>1, <2>1, PopMoves
  <2> QED
    BY <1>1, <2>2 DEF EndFunction, Healthy, Base, Depth, nextinstr, Unpatched
<1>3. Owned(stack, 1, 1) = {} /\ Owned(stack', 1, 0) = {}
  BY <1>1 DEF Owned
<1>4. Partition'
  <2>1. Apart(stack', 0)
    BY DEF Apart
  <2>2. Unpatched' \subseteq abandoned' \union Owned(stack', 1, 0) /\ abandoned' \subseteq Unpatched'
    BY <1>0, <1>1, <1>2, <1>3 DEF Partition
  <2> QED
    BY <1>2, <1>3, <2>1, <2>2 DEF Partition, Owned, Apart, Lists
<1>5. g.end_index = n - 1 /\ g.call_index = Base
  OBVIOUS
<1> HIDE DEF n, g
<1>6. \A f \in functions' : f.end_index < n
  BY <1>0, <1>2, <1>5
<1>7. Tight'
  BY <1>2, <1>4, <1>6 DEF Tight
<1>8. ASSUME NEW f \in functions', NEW i \in f.call_index .. f.end_index
      PROVE  IR'[i + 1].target \in {-1} \union f.call_index .. f.end_index + 1
  <2>1. CASE f \in functions
    BY <1>2, <2>1 DEF Linked, JumpsStayNear
  <2>2. CASE f = g
    <3>1. i \in Base .. n - 1 /\ n - 1 + 1 = n
      BY <1>0, <1>5, <2>2
    <3>2. IR[i + 1].target \in {-1} \union Base .. n
      BY <1>0, <3>1 DEF Within, n
    <3> QED
      BY <1>2, <1>5, <2>2, <3>1, <3>2
  <2> QED
    BY <1>2, <2>1, <2>2
<1>9. JumpsStayNear'
  BY <1>8 DEF JumpsStayNear
<1> QED
  BY <1>7, <1>9

\* Every step keeps it.
LEMMA LinkedNext ==
    ASSUME Linked, [Next]_vars
    PROVE  Linked'
<1>0. Sound' /\ nextinstr \in Nat
  BY SoundNext, SizeFacts DEF Linked, Sound
<1>1. ASSUME UNCHANGED <<IR, functions>> PROVE JumpsStayNear'
  BY <1>1 DEF Linked, JumpsStayNear
<1>2. CASE error_reported
  BY <1>0, <1>1, <1>2, FrozenStep, ErrorStep DEF Linked, Tight
<1>3. CASE ~error_reported /\ ReportError
  BY <1>0, <1>1, <1>3 DEF Linked, Tight, ReportError
<1>4. CASE ~error_reported /\ UNCHANGED vars
  <2>1. Tight'
    BY <1>4 DEF Linked, Tight, Partition, Within, Apart, Owned, Lists, Unpatched, Base, Depth,
                nextinstr, vars
  <2> QED
    BY <1>0, <1>1, <1>4, <2>1 DEF Linked, vars
<1>5. CASE ~error_reported /\ BeginFunction
  BY <1>0, <1>1, <1>5, BeginLinked DEF Linked, BeginFunction
<1>6. CASE ~error_reported /\ Depth = 0
  <2>1. BeginFunction \/ ReportError \/ UNCHANGED vars
    BY <1>6, BetweenFunctions DEF Linked
  <2> QED
    BY <1>3, <1>4, <1>5, <1>6, <2>1
<1>7. CASE ~error_reported /\ Depth # 0
  <2>1. Healthy
    BY <1>7, StackItems DEF Healthy, Linked
  <2>2. CASE Advances
    <3>1. Base \in Nat /\ \A f \in functions : f.end_index < Base
      BY <2>1, HealthyFacts DEF Within
    <3>2. JumpsStayNear'
      BY <2>2, <3>1, JumpsKept DEF Advances, Linked
    <3> QED
      BY <1>0, <2>2, <3>2 DEF Advances, Linked
  <2>3. CASE EndFunction
    BY <1>0, <2>1, <2>3, EndLinked DEF Linked
  <2> QED
    BY <1>3, <1>4, <1>5, <1>7, <2>1, <2>2, <2>3, HealthyStep
<1> QED
  BY <1>2, <1>6, <1>7

\* It holds of the empty program.
LEMMA LinkedAtFirst == Init => Linked
<1> SUFFICES ASSUME Init PROVE Linked
  OBVIOUS
<1>1. Sound /\ Depth = 0 /\ nextinstr = 0
  BY SoundAtFirst DEF Init, Depth, nextinstr
<1>2. Unpatched = {}
  BY <1>1 DEF Unpatched
<1>3. Partition
  BY <1>1, <1>2 DEF Partition, Apart, Init
<1> QED
  BY <1>1, <1>3 DEF Linked, Tight, JumpsStayNear, Init

\* So it always holds.
LEMMA LinkedAlways == Spec => []Linked
BY LinkedAtFirst, LinkedNext, PTL DEF Spec

\* The jumps that the stack's lists name are those its items own.
LEMMA WaitingOwned ==
    ASSUME Sound
    PROVE  DOMAIN stack = 1 .. Depth /\ UNION Waiting = Owned(stack, 1, Depth)
<1>1. DOMAIN stack = 1 .. Depth
  BY StackItems DEF Depth
<1>2. \A p \in 1 .. Depth : Lists(stack[p]) \subseteq Int
  <2> TAKE p \in 1 .. Depth
  <2>1. stack[p].true_list \subseteq LineNumbers /\ stack[p].false_list \subseteq LineNumbers
    BY StackItems
  <2> QED
    BY <2>1 DEF Lists, LineNumbers
<1>3. UNION Waiting = UNION {Lists(stack[p]) : p \in 1 .. Depth}
  BY <1>1 DEF Waiting, Lists
<1> QED
  BY <1>1, <1>2, <1>3 DEF Owned

\* Every jump that is emitted is patched exactly once, in time, unless one of
\* the two constructs that drop their lists emitted it: at any point of any
\* program the open jumps are those in the lists of the semantic values, each
\* in one list.
THEOREM NothingDanglingAlways == Spec => []NothingDangling
<1>1. ASSUME Linked PROVE NothingDangling
  <2>1. SUFFICES ASSUME ~error_reported
                 PROVE  /\ Unpatched \subseteq abandoned \union UNION Waiting
                        /\ abandoned \subseteq {i \in Unpatched : i \notin UNION Waiting}
                        /\ \A k, l \in DOMAIN stack :
                             /\ stack[k].true_list \intersect stack[l].false_list = {}
                             /\ k # l => /\ stack[k].true_list \intersect stack[l].true_list = {}
                                         /\ stack[k].false_list \intersect stack[l].false_list = {}
    BY DEF NothingDangling
  <2>2. Sound /\ Partition
    BY <1>1, <2>1 DEF Linked, Tight
  <2>3. DOMAIN stack = 1 .. Depth /\ UNION Waiting = Owned(stack, 1, Depth)
    BY <2>2, WaitingOwned
  <2>4. ASSUME NEW k \in 1 .. Depth, NEW l \in 1 .. Depth
        PROVE  /\ stack[k].true_list \intersect stack[l].false_list = {}
               /\ k # l => /\ stack[k].true_list \intersect stack[l].true_list = {}
                           /\ stack[k].false_list \intersect stack[l].false_list = {}
    <3>1. stack[k].true_list \intersect stack[k].false_list = {}
      BY <2>2 DEF Partition, Apart
    <3>2. k # l => Lists(stack[k]) \intersect Lists(stack[l]) = {}
      BY <2>2 DEF Partition, Apart
    <3> QED
      BY <3>1, <3>2 DEF Lists
  <2>5. Unpatched \subseteq abandoned \union UNION Waiting
        /\ abandoned \subseteq {i \in Unpatched : i \notin UNION Waiting}
    BY <2>2, <2>3 DEF Partition
  <2> QED
    BY <2>3, <2>4, <2>5
<1> QED
  BY <1>1, LinkedAlways, PTL

-----------------------------------------------------------------------------
(* Where control goes                                                      *)

\* The line after line i, for a valuation: what Step says of any IR.
After(c, i, v) ==
    IF c[i + 1].op = "return" THEN i
    ELSE IF v \notin c[i + 1].cond THEN i + 1
    ELSE IF c[i + 1].target = -1 THEN i ELSE c[i + 1].target

\* Control stays at line g: a jump that is taken and has no target.
Stuck(c, g, v) ==
    /\ g \in 0 .. Len(c) - 1 /\ c[g + 1].op # "return"
    /\ v \in c[g + 1].cond /\ c[g + 1].target = -1

\* P is a set of lines on which control goes from s to g, always forward and
\* over lines before m only.
Path(c, v, s, m, g, P) ==
    /\ P \subseteq (s .. m - 1) \union {g} /\ s \in P /\ g \in P /\ s <= g
    /\ \A i \in P \ {g} : /\ i \in 0 .. Len(c) - 1
                          /\ After(c, i, v) \in P /\ i < After(c, i, v)

Leads(c, v, s, m, g) == \E P : Path(c, v, s, m, g, P)

\* Control from s stays at a jump of list, or at one of ab, without leaving
\* the lines before m.
Stays(c, ab, v, s, m, list) ==
    \E g \in s .. m - 1 :
      g \in list \union ab /\ Stuck(c, g, v) /\ Leads(c, v, s, m, g)

\* d has the lines of c, with targets only where there were none.
Kept(c, d) ==
    /\ Len(c) \in Nat /\ Len(d) \in Nat /\ Len(c) <= Len(d)
    /\ \A i \in 0 .. Len(c) - 1 :
         /\ d[i + 1].op = c[i + 1].op /\ d[i + 1].cond = c[i + 1].cond
         /\ c[i + 1].cond # {} /\ c[i + 1].target # -1 => d[i + 1].target = c[i + 1].target

\* Lines that control has passed are passed the same way later.
LEMMA AfterKept ==
    ASSUME NEW c, NEW d, Kept(c, d), NEW v, NEW i \in 0 .. Len(c) - 1, After(c, i, v) # i
    PROVE  After(d, i, v) = After(c, i, v)
<1>1. /\ d[i + 1].op = c[i + 1].op /\ d[i + 1].cond = c[i + 1].cond
      /\ c[i + 1].cond # {} /\ c[i + 1].target # -1 => d[i + 1].target = c[i + 1].target
  BY DEF Kept
<1>2. c[i + 1].op # "return"
  BY DEF After
<1>3. CASE v \notin c[i + 1].cond
  BY <1>1, <1>2, <1>3 DEF After
<1>4. CASE v \in c[i + 1].cond
  <2>1. c[i + 1].cond # {} /\ c[i + 1].target # -1
    BY <1>2, <1>4 DEF After
  <2> QED
    BY <1>1, <1>2, <1>4, <2>1 DEF After
<1> QED
  BY <1>3, <1>4

\* So a path stays one.
LEMMA LeadsKept ==
    ASSUME NEW c, NEW d, Kept(c, d), NEW v, NEW s, NEW m, NEW g, Leads(c, v, s, m, g)
    PROVE  Leads(d, v, s, m, g)
<1>1. PICK P : Path(c, v, s, m, g, P)
  BY DEF Leads
<1>2. ASSUME NEW i \in P \ {g}
      PROVE  i \in 0 .. Len(d) - 1 /\ After(d, i, v) \in P /\ i < After(d, i, v)
  <2>1. i \in 0 .. Len(c) - 1 /\ After(c, i, v) \in P /\ i < After(c, i, v)
    BY <1>1 DEF Path
  <2>2. After(c, i, v) # i
    BY <2>1
  <2>3. After(d, i, v) = After(c, i, v)
    BY <2>1, <2>2, AfterKept
  <2> QED
    BY <2>1, <2>3 DEF Kept
<1>3. Path(d, v, s, m, g, P)
  BY <1>1, <1>2 DEF Path
<1> QED
  BY <1>3 DEF Leads

\* Control is where it is.
LEMMA Here ==
    ASSUME NEW c, NEW v, NEW s \in Int, NEW m \in Int
    PROVE  Leads(c, v, s, m, s)
<1>1. Path(c, v, s, m, s, {s})
  BY DEF Path
<1> QED
  BY <1>1 DEF Leads

\* A path may be seen as one over more lines.
LEMMA Wider ==
    ASSUME NEW c, NEW v, NEW s \in Int, NEW m \in Int, NEW n \in Int, m <= n, NEW g,
           Leads(c, v, s, m, g)
    PROVE  Leads(c, v, s, n, g)
<1>1. PICK P : Path(c, v, s, m, g, P)
  BY DEF Leads
<1>2. Path(c, v, s, n, g, P)
  BY <1>1 DEF Path
<1> QED
  BY <1>2 DEF Leads

\* One line and what follows.
LEMMA Forward ==
    ASSUME NEW c, NEW v, NEW i \in 0 .. Len(c) - 1, NEW x \in Int, NEW m \in Int, NEW g \in Int,
           After(c, i, v) = x, i < x, i < m, Leads(c, v, x, m, g)
    PROVE  Leads(c, v, i, m, g)
<1>1. PICK P : Path(c, v, x, m, g, P)
  BY DEF Leads
<1>2. Path(c, v, i, m, g, P \union {i})
  BY <1>1 DEF Path
<1> QED
  BY <1>2 DEF Leads

\* A path, the jump at its end and what follows.
LEMMA Onward ==
    ASSUME NEW c, NEW v, NEW s \in Int, NEW m \in Int, NEW n \in Int, NEW x \in Int,
           NEW g \in 0 .. Len(c) - 1, NEW h \in Int,
           Leads(c, v, s, m, g), g < m, After(c, g, v) = x, m <= x, m <= n,
           Leads(c, v, x, n, h)
    PROVE  Leads(c, v, s, n, h)
<1>1. PICK P : Path(c, v, s, m, g, P)
  BY DEF Leads
<1>2. PICK Q : Path(c, v, x, n, h, Q)
  BY DEF Leads
<1>3. s <= g /\ g < x /\ x <= h
  BY <1>1, <1>2 DEF Path
<1>4. P \union Q \subseteq (s .. n - 1) \union {h} /\ s \in P \union Q /\ h \in P \union Q
  BY <1>1, <1>2, <1>3 DEF Path
<1>5. ASSUME NEW i \in (P \union Q) \ {h}
      PROVE  i \in 0 .. Len(c) - 1 /\ After(c, i, v) \in P \union Q /\ i < After(c, i, v)
  <2>1. CASE i \in Q
    BY <1>2, <2>1 DEF Path
  <2>2. CASE i \in P /\ i # g
    BY <1>1, <2>2 DEF Path
  <2>3. CASE i = g
    BY <1>2, <1>3, <2>3 DEF Path
  <2> QED
    BY <2>1, <2>2, <2>3
<1>6. Path(c, v, s, n, h, P \union Q)
  BY <1>3, <1>4, <1>5 DEF Path
<1> QED
  BY <1>6 DEF Leads

\* Staying somewhere is kept if the jump keeps having no target.
LEMMA StaysKept ==
    ASSUME NEW c, NEW d, Kept(c, d), NEW v, NEW s \in Int, NEW m \in Int, NEW n \in Int, m <= n,
           NEW ab, NEW ab2, NEW list, NEW list2, Stays(c, ab, v, s, m, list),
           list \union ab \subseteq list2 \union ab2,
           \A g \in list \union ab : g \in 0 .. Len(c) - 1 /\ c[g + 1].target = -1
                                       => d[g + 1].target = -1
    PROVE  Stays(d, ab2, v, s, n, list2)
<1>1. PICK g \in s .. m - 1 :
        g \in list \union ab /\ Stuck(c, g, v) /\ Leads(c, v, s, m, g)
  BY DEF Stays
<1>2. Leads(d, v, s, n, g)
  BY <1>1, LeadsKept, Wider
<1>3. Stuck(d, g, v)
  BY <1>1 DEF Stuck, Kept
<1>4. g \in s .. n - 1
  BY <1>1
<1> QED
  BY <1>1, <1>2, <1>3, <1>4 DEF Stays

\* When the jumps of list get the target t, control that stayed there gets to t.
LEMMA StaysPatched ==
    ASSUME NEW c, NEW d, Kept(c, d), NEW v, NEW s \in Int, NEW m \in Int, NEW t \in Nat, m <= t,
           NEW ab, NEW ab2, NEW list, Stays(c, ab, v, s, m, list), ab \subseteq ab2,
           \A g \in list : g \in 0 .. Len(c) - 1 => d[g + 1].target = t,
           \A g \in ab : g \in 0 .. Len(c) - 1 /\ c[g + 1].target = -1 => d[g + 1].target = -1,
           NEW n \in Int, m <= n, NEW h \in Int,
           Leads(d, v, t, n, h)
    PROVE  Leads(d, v, s, n, h) \/ Stays(d, ab2, v, s, m, {})
<1>1. PICK g \in s .. m - 1 :
        g \in list \union ab /\ Stuck(c, g, v) /\ Leads(c, v, s, m, g)
  BY DEF Stays
<1>2. Leads(d, v, s, m, g) /\ g \in 0 .. Len(d) - 1
  BY <1>1, LeadsKept DEF Stuck, Kept
<1>3. CASE g \in list
  <2>1. d[g + 1].op # "return" /\ v \in d[g + 1].cond /\ d[g + 1].target = t
    BY <1>1, <1>3 DEF Stuck, Kept
  <2>2. After(d, g, v) = t
    BY <2>1 DEF After
  <2> QED
    BY <1>2, <2>2, Onward
<1>4. CASE g \in ab
  <2>1. Stuck(d, g, v)
    BY <1>1, <1>4 DEF Stuck, Kept
  <2> QED
    BY <1>1, <1>2, <1>4, <2>1 DEF Stays
<1> QED
  BY <1>1, <1>3, <1>4

\* And when control stays somewhere from t on, that is where it stays.
LEMMA StaysThen ==
    ASSUME NEW c, NEW d, Kept(c, d), NEW v, NEW s \in Int, NEW m \in Int, NEW t \in Nat, m <= t,
           NEW ab, NEW ab2, NEW list, Stays(c, ab, v, s, m, list), ab \subseteq ab2,
           \A g \in list : g \in 0 .. Len(c) - 1 => d[g + 1].target = t,
           \A g \in ab : g \in 0 .. Len(c) - 1 /\ c[g + 1].target = -1 => d[g + 1].target = -1,
           NEW n \in Int, m <= n, NEW list2, Stays(d, ab2, v, t, n, list2)
    PROVE  Stays(d, ab2, v, s, n, list2)
<1>1. PICK h \in t .. n - 1 :
        h \in list2 \union ab2 /\ Stuck(d, h, v) /\ Leads(d, v, t, n, h)
  BY DEF Stays
<1>2. CASE Leads(d, v, s, n, h)
  <2>1. s <= h
    BY <1>2 DEF Leads, Path
  <2>2. h \in s .. n - 1
    BY <1>1, <2>1
  <2> QED
    BY <1>1, <1>2, <2>2 DEF Stays
<1>3. CASE Stays(d, ab2, v, s, m, {})
  <2>1. PICK g \in s .. m - 1 : g \in ab2 /\ Stuck(d, g, v) /\ Leads(d, v, s, m, g)
    BY <1>3 DEF Stays
  <2>2. g \in s .. n - 1 /\ Leads(d, v, s, n, g)
    BY <2>1, Wider
  <2> QED
    BY <2>1, <2>2 DEF Stays
<1>4. h \in Int
  BY <1>1
<1> QED
  BY <1>1, <1>2, <1>3, <1>4, StaysPatched

-----------------------------------------------------------------------------
(* Tests and expressions                                                   *)

\* The list an expression leaves through.
Exit(e, v) == IF v \in e.truth THEN e.true_list ELSE e.false_list

\* An expression whose lines end before m answers, from its first line as from
\* where its own jumps start.
Answers(c, ab, e, m) ==
    \A v \in Valuations : /\ Stays(c, ab, v, e.start, m, Exit(e, v))
                          /\ Stays(c, ab, v, e.quad, m, Exit(e, v))

\* The test before a body leads into it, or to the jumps its end will patch.
Guards(c, ab, b) ==
    /\ b.start <= b.quad
    /\ \A v \in Valuations :
         IF v \in b.truth
         THEN Leads(c, v, b.start, b.quad, b.quad) \/ Stays(c, ab, v, b.start, b.quad, {})
         ELSE Stays(c, ab, v, b.start, b.quad, b.false_list)

\* The goto over an else branch.
Skips(c, b) ==
    /\ b.quad = b.start + 1 /\ b.true_list = {b.start}
    /\ \A v \in Valuations : Stuck(c, b.start, v)

\* What an item of the stack stands on.
Placed(k, under) ==
    /\ k \in Bodies \union {"assign", "return", "while", "if"} => under \in Bodies
    /\ k \in {"argument", "packed_argument", "not", "expr"} => under \in Openers

\* Item p of s, whose lines end before m, answers for them; an operand begins
\* where what waits for it does.
ItemSettled(c, ab, s, p, m) ==
    /\ p > 1 => /\ Placed(s[p].k, s[p - 1].k)
                /\ s[p - 1].k \in Openers => s[p].quad = s[p - 1].quad
    /\ s[p].k = "expr" => Answers(c, ab, s[p], m)
    /\ s[p].k \in {"while_body", "then"} => Guards(c, ab, s[p])
    /\ s[p].k = "else" => Skips(c, s[p])
    /\ \A l \in Lists(s[p]) : c[l + 1].cond # {} => c[l + 1].target = -1

\* Where a test sends control.
Goal(d, v) == IF v \in d.truth THEN d.yes ELSE d.no

\* From s, where the test starts or where the goto at its start leads, control
\* gets to the goal over lines before both.
Arrives(c, ab, d, v) ==
    \E s, m \in 0 .. Len(c) :
      /\ s <= m /\ {d.yes, d.no} \subseteq m .. Len(c)
      /\ \/ d.start = s
         \/ /\ d.start \in m + 1 .. Len(c) - 1 /\ After(c, d.start, v) = s
            /\ d.start \notin {d.yes, d.no}
      /\ Leads(c, v, s, m, Goal(d, v)) \/ Stays(c, ab, v, s, m, {})

\* Where the lines of an item end.
End(p) == IF p = Depth THEN nextinstr ELSE stack[p + 1].quad

\* The items of the stack answer for their lines.
Settled ==
    /\ \A p \in 1 .. Depth : ItemSettled(IR, abandoned, stack, p, End(p))
    /\ ExpectsExpression => Top.quad = nextinstr

\* Completed tests decide, and so will those still on the stack.
Decisive ==
    /\ \A d \in decided : \A v \in Valuations : Arrives(IR, abandoned, d, v)
    /\ ~error_reported => Settled

-----------------------------------------------------------------------------
(* Running the IR                                                          *)

\* Where control is after each number of steps.
Run(start, v, stops) ==
    CHOOSE at : at = [n \in 0 .. nextinstr |->
          IF n = 0 THEN start
          ELSE LET i == at[n - 1]
               IN  IF i \in stops \/ i \notin 0 .. nextinstr - 1 THEN i ELSE Step(i, v)]

\* One step of it.
RunStep(i, v, stops) ==
    IF i \in stops \/ i \notin 0 .. nextinstr - 1 THEN i ELSE After(IR, i, v)

\* The recursion defines it.
LEMMA RunIs ==
    ASSUME TypeOK, NEW start \in Int, NEW v, NEW stops
    PROVE  /\ Reaches(start, v, stops) = Run(start, v, stops)[nextinstr]
           /\ Run(start, v, stops)[0] = start
           /\ \A n \in 0 .. nextinstr - 1 :
                Run(start, v, stops)[n + 1] = RunStep(Run(start, v, stops)[n], v, stops)
<1> DEFINE Eq(at) == at = [n \in 0 .. nextinstr |->
                             IF n = 0 THEN start
                             ELSE LET i == at[n - 1]
                                  IN  IF i \in stops \/ i \notin 0 .. nextinstr - 1 THEN i
                                      ELSE Step(i, v)]
           up == [n \in 1 .. nextinstr |-> n - 1]
           one == [i \in Int |-> RunStep(i, v, stops)]
           step == [n \in 1 .. nextinstr |-> one]
<1>0. nextinstr \in Nat /\ IR \in Seq(InstructionType) /\ IR_ARRAY_SIZE \in Nat
  BY SizeFacts
<1>1. ASSUME NEW i PROVE i \in 0 .. nextinstr - 1 => Step(i, v) = After(IR, i, v)
  BY DEF Step, After, Taken
<1>2. ASSUME NEW i \in Int PROVE RunStep(i, v, stops) \in Int
  <2>1. CASE i \in stops \/ i \notin 0 .. nextinstr - 1
    BY <2>1 DEF RunStep
  <2>2. CASE i \notin stops /\ i \in 0 .. nextinstr - 1
    <3>1. IR[i + 1] \in InstructionType
      BY <1>0, <2>2 DEF nextinstr
    <3>2. IR[i + 1].target \in Int
      BY <1>0, <3>1 DEF InstructionType
    <3>3. After(IR, i, v) \in Int
      BY <3>2 DEF After
    <3> QED
      BY <2>2, <3>3 DEF RunStep
  <2> QED
    BY <2>1, <2>2
<1>3. one \in [Int -> Int]
  BY <1>2
<1> HIDE DEF one
<1>4. step \in [1 .. nextinstr -> [Int -> Int]]
  BY <1>3
<1>5. \A n \in 1 .. nextinstr : up[n] \in 0 .. n - 1
  BY <1>0
<1> HIDE DEF step, up
<1>6. PICK f \in [0 .. nextinstr -> Int] : Solves(f, nextinstr, start, up, step)
  BY <1>0, <1>4, <1>5, Recursion
<1> USE DEF step, up
<1>7. ASSUME NEW n \in 1 .. nextinstr
      PROVE  step[n][f[up[n]]] = RunStep(f[n - 1], v, stops)
  <2>1. f[n - 1] \in Int /\ step[n] = one /\ up[n] = n - 1
    BY <1>0, <1>6
  <2> QED
    BY <2>1 DEF one
<1>8. Eq(f)
  <2>1. ASSUME NEW n \in 0 .. nextinstr
        PROVE  f[n] = IF n = 0 THEN start
                      ELSE LET i == f[n - 1]
                           IN  IF i \in stops \/ i \notin 0 .. nextinstr - 1 THEN i
                               ELSE Step(i, v)
    <3>1. f[n] = IF n = 0 THEN start ELSE step[n][f[up[n]]]
      BY <1>6 DEF Solves
    <3>2. CASE n = 0
      BY <3>1, <3>2
    <3>3. CASE n # 0
      <4>1. n \in 1 .. nextinstr
        BY <3>3
      <4>2. f[n] = RunStep(f[n - 1], v, stops)
        BY <1>7, <3>1, <3>3, <4>1
      <4> QED
        BY <1>1, <3>3, <4>2 DEF RunStep
    <3> QED
      BY <3>2, <3>3
  <2>2. f = [n \in 0 .. nextinstr |-> f[n]]
    BY <1>6
  <2> QED
    BY <2>1, <2>2
<1> HIDE DEF step, up
<1>9. Eq(Run(start, v, stops))
  <2> DEFINE C == CHOOSE at : Eq(at)
  <2>1. Eq(C)
    BY <1>8
  <2>2. C = Run(start, v, stops)
    BY DEF Run
  <2> HIDE DEF C, Eq
  <2> QED
    BY <2>1, <2>2
<1>10. Reaches(start, v, stops) = Run(start, v, stops)[nextinstr]
  BY DEF Reaches, Run
<1>11. ASSUME NEW at, Eq(at)
       PROVE  /\ at[0] = start
              /\ \A n \in 0 .. nextinstr - 1 : at[n + 1] = RunStep(at[n], v, stops)
  <2>1. at[0] = start
    BY <1>0, <1>11
  <2>2. ASSUME NEW n \in 0 .. nextinstr - 1 PROVE at[n + 1] = RunStep(at[n], v, stops)
    <3>1. n + 1 \in 0 .. nextinstr /\ n + 1 # 0 /\ (n + 1) - 1 = n
      BY <1>0
    <3>2. at[n + 1] = IF at[n] \in stops \/ at[n] \notin 0 .. nextinstr - 1 THEN at[n]
                      ELSE Step(at[n], v)
      BY <1>11, <3>1
    <3> QED
      BY <1>1, <3>2 DEF RunStep
  <2> QED
    BY <2>1, <2>2
<1> HIDE DEF Eq
<1> QED
  BY <1>9, <1>10, <1>11

\* Control that is at s after o steps follows the path from there to its end.
LEMMA Arrived ==
    ASSUME TypeOK, NEW start \in Int, NEW v, NEW stops, NEW o \in 0 .. 1, o <= nextinstr,
           NEW s \in Nat, NEW m \in Int, NEW g \in Int, NEW P, Path(IR, v, s, m, g, P),
           Run(start, v, stops)[o] = s, m + o <= nextinstr,
           \A i \in P : i \in stops => i = g,
           RunStep(g, v, stops) = g
    PROVE  Reaches(start, v, stops) = g
<1> DEFINE at == Run(start, v, stops)
           Good == {n \in 0 .. nextinstr :
                      n >= o => \/ at[n] = g
                                \/ at[n] \in P /\ at[n] >= s + n - o}
<1>0. nextinstr \in Nat
  BY SizeFacts
<1>1. /\ Reaches(start, v, stops) = at[nextinstr]
      /\ \A n \in 0 .. nextinstr - 1 : at[n + 1] = RunStep(at[n], v, stops)
  BY RunIs
<1>2. at[o] = s
  OBVIOUS
<1>P. P \subseteq Int /\ \A i \in P : i = g \/ i < m
  BY DEF Path
<1> HIDE DEF at
<1>3. o \in Good
  BY <1>0, <1>2 DEF Path
<1>4. 0 \in Good
  BY <1>0, <1>3
<1>5. ASSUME NEW n \in 0 .. nextinstr - 1, n \in Good PROVE n + 1 \in Good
  <2>1. CASE n < o
    <3>1. n + 1 = o \/ n + 1 < o
      BY <2>1
    <3> QED
      BY <1>0, <1>3, <3>1
  <2>2. CASE n >= o /\ at[n] = g
    <3>1. at[n + 1] = g
      BY <1>1, <2>2
    <3> QED
      BY <1>0, <3>1
  <2>3. CASE n >= o /\ at[n] # g
    <3>1. at[n] \in P /\ at[n] >= s + n - o
      BY <1>5, <2>3
    <3>2. at[n] \in 0 .. Len(IR) - 1 /\ After(IR, at[n], v) \in P /\ at[n] < After(IR, at[n], v)
      BY <2>3, <3>1 DEF Path
    <3>3. at[n] \notin stops
      BY <2>3, <3>1
    <3>4. at[n + 1] = After(IR, at[n], v)
      BY <1>1, <3>2, <3>3 DEF RunStep, nextinstr
    <3>5. at[n + 1] \in P /\ at[n + 1] > at[n] /\ at[n + 1] \in Int
      BY <1>P, <3>2, <3>4
    <3>6. at[n + 1] >= s + (n + 1) - o
      BY <3>1, <3>2, <3>5
    <3> QED
      BY <1>0, <3>5, <3>6
  <2> QED
    BY <1>0, <2>1, <2>2, <2>3
<1> HIDE DEF Good
<1>6. nextinstr \in Good
  BY <1>0, <1>4, <1>5, Steps
<1>7. at[nextinstr] = g \/ (at[nextinstr] \in P /\ at[nextinstr] >= s + nextinstr - o)
  BY <1>0, <1>6 DEF Good
<1>8. ASSUME at[nextinstr] \in P, at[nextinstr] >= s + nextinstr - o PROVE at[nextinstr] = g
  <2> DEFINE x == at[nextinstr]
  <2>1. x \in Int /\ (x = g \/ x < m) /\ x >= s + nextinstr - o
    BY <1>8, <1>P
  <2> HIDE DEF x
  <2>2. ~ (x < m)
    BY <1>0, <2>1
  <2> QED
    BY <2>1, <2>2 DEF x
<1> QED
  BY <1>1, <1>7, <1>8

\* A jump that control stays at is where it ends up.
LEMMA StuckStays ==
    ASSUME NEW g, NEW v, Stuck(IR, g, v), NEW stops
    PROVE  RunStep(g, v, stops) = g
BY DEF Stuck, RunStep, After

\* So a test that arrives is one that decides.
LEMMA ArrivesDecides ==
    ASSUME TypeOK, NEW d, NEW v, Arrives(IR, abandoned, d, v)
    PROVE  Reaches(d.start, v, {d.yes, d.no}) \in {Goal(d, v)} \union abandoned
<1> DEFINE stops == {d.yes, d.no}
<1>0. nextinstr \in Nat /\ nextinstr = Len(IR)
  BY SizeFacts DEF nextinstr
<1>1. PICK s \in 0 .. Len(IR), m \in 0 .. Len(IR) :
        /\ s <= m /\ stops \subseteq m .. Len(IR)
        /\ \/ d.start = s
           \/ /\ d.start \in m + 1 .. Len(IR) - 1 /\ After(IR, d.start, v) = s
              /\ d.start \notin stops
        /\ Leads(IR, v, s, m, Goal(d, v)) \/ Stays(IR, abandoned, v, s, m, {})
  BY DEF Arrives
<1>2. Goal(d, v) \in stops
  BY DEF Goal
<1>3. \E o \in 0 .. 1 : /\ m + o <= nextinstr /\ o <= nextinstr /\ d.start \in Int
                        /\ Run(d.start, v, stops)[o] = s
  <2>1. CASE d.start = s
    <3>1. d.start \in Int
      BY <2>1
    <3>2. Run(d.start, v, stops)[0] = s
      BY <2>1, <3>1, RunIs
    <3> QED
      BY <1>0, <3>1, <3>2
  <2>2. CASE /\ d.start \in m + 1 .. Len(IR) - 1 /\ After(IR, d.start, v) = s
             /\ d.start \notin stops
    <3>1. d.start \in 0 .. nextinstr - 1 /\ 0 \in 0 .. nextinstr - 1
      BY <1>0, <2>2
    <3>2. Run(d.start, v, stops)[0] = d.start
      BY <3>1, RunIs
    <3>3. Run(d.start, v, stops)[0 + 1] = RunStep(d.start, v, stops)
      BY <3>1, <3>2, RunIs
    <3>4. Run(d.start, v, stops)[1] = s
      BY <2>2, <3>1, <3>3 DEF RunStep
    <3> QED
      BY <1>0, <2>2, <3>1, <3>4
  <2> QED
    BY <1>1, <2>1, <2>2
<1>4. PICK o \in 0 .. 1 : /\ m + o <= nextinstr /\ o <= nextinstr /\ d.start \in Int
                          /\ Run(d.start, v, stops)[o] = s
  BY <1>3
<1>5. ASSUME NEW g \in Int, NEW P, Path(IR, v, s, m, g, P), RunStep(g, v, stops) = g,
             g \in s .. m - 1 \/ g = Goal(d, v)
      PROVE  Reaches(d.start, v, stops) = g
  <2>1. \A i \in P : i \in stops => i = g
    BY <1>1, <1>5 DEF Path
  <2>2. s \in Nat /\ m \in Int
    OBVIOUS
  <2> HIDE DEF stops
  <2> QED
    BY <1>4, <1>5, <2>1, <2>2, Arrived
<1>6. CASE Leads(IR, v, s, m, Goal(d, v))
  <2>1. PICK P : Path(IR, v, s, m, Goal(d, v), P)
    BY <1>6 DEF Leads
  <2>2. RunStep(Goal(d, v), v, stops) = Goal(d, v)
    BY <1>2 DEF RunStep
  <2>3. Goal(d, v) \in Int
    BY <1>1, <1>2
  <2> QED
    BY <1>5, <2>1, <2>2, <2>3
<1>7. CASE Stays(IR, abandoned, v, s, m, {})
  <2>1. PICK g \in s .. m - 1 : g \in abandoned /\ Stuck(IR, g, v) /\ Leads(IR, v, s, m, g)
    BY <1>7 DEF Stays
  <2>2. PICK P : Path(IR, v, s, m, g, P)
    BY <2>1 DEF Leads
  <2>3. RunStep(g, v, stops) = g
    BY <2>1, StuckStays
  <2>4. Reaches(d.start, v, stops) = g
    <3>1. g \in Int
      BY <2>1
    <3> QED
      BY <1>5, <2>2, <2>3, <3>1
  <2> QED
    BY <2>1, <2>4
<1> QED
  BY <1>1, <1>6, <1>7

\* What the invariant says implies both properties.
LEMMA DecisiveTests ==
    ASSUME Sound, Decisive
    PROVE  TestsDecide
<1>1. ASSUME NEW d \in decided, NEW v \in Valuations
      PROVE  Reaches(d.start, v, {d.yes, d.no})
               \in {IF v \in d.truth THEN d.yes ELSE d.no} \union abandoned
  <2>1. Arrives(IR, abandoned, d, v)
    BY DEF Decisive
  <2>2. Reaches(d.start, v, {d.yes, d.no}) \in {Goal(d, v)} \union abandoned
    BY <2>1, ArrivesDecides DEF Sound
  <2> QED
    BY <2>2 DEF Goal
<1> QED
  BY <1>1 DEF TestsDecide

\* Where the lines of an item end is a line.
LEMMA EndTyped ==
    ASSUME Healthy, NEW p \in 1 .. Depth
    PROVE  /\ End(p) \in Nat /\ End(p) <= nextinstr
           /\ stack[p].quad \in Nat /\ stack[p].quad <= nextinstr
           /\ stack[p].start \in Nat /\ stack[p].start <= nextinstr
<1>0. /\ Within /\ nextinstr \in Nat /\ Depth \in Nat /\ Base \in Nat
  BY HealthyFacts
<1>1. \A q \in 1 .. Depth : /\ stack[q].quad \in Nat /\ stack[q].quad <= nextinstr
                            /\ stack[q].start \in Nat /\ stack[q].start <= nextinstr
  BY <1>0 DEF Within
<1>2. p = Depth \/ p + 1 \in 1 .. Depth
  BY <1>0
<1> QED
  BY <1>0, <1>1, <1>2 DEF End

LEMMA DecisiveExpressions ==
    ASSUME Sound, Tight, Decisive
    PROVE  ExpressionsDecide
<1> SUFFICES ASSUME ~error_reported, NEW p \in DOMAIN stack, stack[p].k = "expr",
                    NEW v \in Valuations
             PROVE  Reaches(stack[p].start, v, {}) \in Exit(stack[p], v) \union abandoned
  BY DEF ExpressionsDecide, Exit
<1>1. p \in 1 .. Depth /\ Depth > 0 /\ Depth \in Nat
  BY StackItems DEF Depth
<1>2. Healthy
  BY <1>1 DEF Healthy
<1>3. /\ stack[p].start \in Nat /\ End(p) \in Int /\ End(p) <= nextinstr
  BY <1>1, <1>2, EndTyped
<1>4. Stays(IR, abandoned, v, stack[p].start, End(p), Exit(stack[p], v))
  BY <1>1 DEF Decisive, Settled, ItemSettled, Answers
<1>5. PICK g \in stack[p].start .. End(p) - 1 :
        /\ g \in Exit(stack[p], v) \union abandoned
        /\ Stuck(IR, g, v) /\ Leads(IR, v, stack[p].start, End(p), g)
  BY <1>4 DEF Stays
<1>6. PICK P : Path(IR, v, stack[p].start, End(p), g, P)
  BY <1>5 DEF Leads
<1>7. TypeOK /\ nextinstr \in Nat
  BY SizeFacts DEF Sound
<1>8. Run(stack[p].start, v, {})[0] = stack[p].start
  BY <1>3, <1>7, RunIs
<1>9. RunStep(g, v, {}) = g
  BY <1>5, StuckStays
<1>10. /\ g \in Int /\ stack[p].start \in Int /\ 0 \in 0 .. 1 /\ 0 <= nextinstr
       /\ End(p) + 0 <= nextinstr /\ \A i \in P : i \in {} => i = g
  BY <1>3, <1>5, <1>7
<1>11. Reaches(stack[p].start, v, {}) = g
  BY <1>3, <1>6, <1>7, <1>8, <1>9, <1>10, Arrived
<1> QED
  BY <1>5, <1>11

-----------------------------------------------------------------------------
(* What a step leaves behind                                               *)

\* d has the lines of the IR, with the jumps of L going to t, those of K to u.
Lines(d, L, t, K, u) ==
    /\ Len(d) \in Nat /\ nextinstr <= Len(d)
    /\ \A i \in 0 .. nextinstr - 1 :
         /\ d[i + 1].op = IR[i + 1].op /\ d[i + 1].cond = IR[i + 1].cond
         /\ d[i + 1].target = IF i \in L THEN t ELSE IF i \in K THEN u ELSE IR[i + 1].target

\* A step as this invariant sees it: items q and above give way to at most one,
\* the jumps of L and K, which are theirs, are patched.
Shifts(q, L, t, K, u, new) ==
    /\ ~error_reported' /\ Tight'
    /\ q \in 2 .. Depth + 1 /\ \A p \in 1 .. q - 1 : stack'[p] = stack[p]
    /\ Len(stack') = q - 1 \/ Len(stack') = q
    /\ Lines(IR', L, t, K, u) /\ L \union K \subseteq Owned(stack, q, Depth)
    /\ abandoned \subseteq abandoned' /\ decided' = decided \union new

\* Such a step keeps the paths there are, and the jumps it does not patch.
LEMMA StepKeeps ==
    ASSUME Healthy, Decisive, NEW q, NEW L, NEW t, NEW K, NEW u, NEW new,
           Shifts(q, L, t, K, u, new)
    PROVE  /\ Kept(IR, IR') /\ nextinstr' \in Nat /\ nextinstr <= nextinstr'
           /\ \A g \in abandoned : IR'[g + 1].target = -1
           /\ \A p \in 1 .. q - 1 : \A g \in Lists(stack[p]) :
                /\ g \in 0 .. nextinstr - 1
                /\ IR'[g + 1].target = IR[g + 1].target /\ IR'[g + 1].cond = IR[g + 1].cond
<1> USE DEF Shifts
<1>0. /\ Within /\ Partition /\ nextinstr \in Nat /\ Depth \in Nat /\ Base \in Nat
  BY HealthyFacts
<1>1. Lines(IR', L, t, K, u) /\ nextinstr = Len(IR) /\ nextinstr' = Len(IR')
  BY DEF nextinstr
<1>2. \A p \in 1 .. Depth : \A l \in Lists(stack[p]) :
        l \in 0 .. nextinstr - 1 /\ (IR[l + 1].cond # {} => IR[l + 1].target = -1)
  <2>1. Settled
    BY DEF Decisive, Healthy
  <2>2. \A p \in 1 .. Depth : Lists(stack[p]) \subseteq Base .. nextinstr - 1
    BY <1>0 DEF Within
  <2>3. \A p \in 1 .. Depth : \A l \in Lists(stack[p]) :
          IR[l + 1].cond # {} => IR[l + 1].target = -1
    BY <2>1 DEF Settled, ItemSettled
  <2>4. ASSUME NEW p \in 1 .. Depth, NEW l \in Lists(stack[p]) PROVE l \in 0 .. nextinstr - 1
    <3>1. l \in Base .. nextinstr - 1
      BY <2>2
    <3> QED
      BY <1>0, <3>1
  <2> QED
    BY <2>3, <2>4
<1>3. Kept(IR, IR')
  <2>1. ASSUME NEW i \in 0 .. Len(IR) - 1, IR[i + 1].cond # {}, IR[i + 1].target # -1
        PROVE  IR'[i + 1].target = IR[i + 1].target
    <3>1. i \notin L /\ i \notin K
      <4>1. ASSUME i \in Owned(stack, q, Depth) PROVE FALSE
        <5>1. PICK p \in q .. Depth : i \in Lists(stack[p])
          BY <4>1 DEF Owned
        <5>2. p \in 1 .. Depth
          BY <1>0
        <5> QED
          BY <1>2, <2>1, <5>1, <5>2
      <4> QED
        BY <4>1
    <3> QED
      BY <1>1, <3>1 DEF Lines
  <2> QED
    BY <1>0, <1>1, <2>1 DEF Lines, Kept
<1>4. ASSUME NEW g \in abandoned PROVE IR'[g + 1].target = -1
  <2>1. Partition'
    BY DEF Tight
  <2>2. g \in Unpatched'
    BY <2>1 DEF Partition
  <2> QED
    BY <2>2 DEF Unpatched
<1>5. ASSUME NEW p \in 1 .. q - 1, NEW g \in Lists(stack[p])
      PROVE  /\ g \in 0 .. nextinstr - 1
             /\ IR'[g + 1].target = IR[g + 1].target /\ IR'[g + 1].cond = IR[g + 1].cond
  <2>1. p \in 1 .. Depth
    BY <1>0
  <2>2. g \notin Owned(stack, q, Depth)
    <3> SUFFICES ASSUME NEW r \in q .. Depth, g \in Lists(stack[r]) PROVE FALSE
      BY DEF Owned
    <3>1. r \in 1 .. Depth /\ r # p
      BY <1>0
    <3> QED
      BY <1>0, <2>1, <3>1 DEF Partition, Apart
  <2> QED
    BY <1>1, <1>2, <2>1, <2>2 DEF Lines
<1> QED
  BY <1>0, <1>1, <1>3, <1>4, <1>5 DEF Lines

\* An item below the step stays settled.
LEMMA BelowSettled ==
    ASSUME Healthy, Decisive, NEW q, NEW L, NEW t, NEW K, NEW u, NEW new,
           Shifts(q, L, t, K, u, new), NEW p \in 1 .. q - 1, NEW m \in Int, End(p) <= m
    PROVE  ItemSettled(IR', abandoned', stack', p, m)
<1>0. /\ nextinstr \in Nat /\ Depth \in Nat /\ q \in 2 .. Depth + 1
  BY HealthyFacts DEF Shifts
<1>1. /\ Kept(IR, IR') /\ \A g \in abandoned : IR'[g + 1].target = -1
      /\ \A g \in Lists(stack[p]) :
           /\ g \in 0 .. nextinstr - 1
           /\ IR'[g + 1].target = IR[g + 1].target /\ IR'[g + 1].cond = IR[g + 1].cond
      /\ abandoned \subseteq abandoned'
  BY StepKeeps DEF Shifts
<1>2. stack'[p] = stack[p] /\ (p > 1 => stack'[p - 1] = stack[p - 1])
  BY <1>0 DEF Shifts
<1>3. p \in 1 .. Depth
  BY <1>0
<1>4. ItemSettled(IR, abandoned, stack, p, End(p))
  BY <1>3 DEF Decisive, Settled, Healthy
<1>5. /\ End(p) \in Int /\ stack[p].quad \in Int /\ stack[p].start \in Int
  BY <1>3, EndTyped
<1> DEFINE e == stack[p]
<1>6. ASSUME NEW v, NEW s \in {e.quad, e.start}, NEW n \in Int, NEW n2 \in Int, n <= n2,
             NEW list \in {{}, e.true_list, e.false_list},
             Stays(IR, abandoned, v, s, n, list)
      PROVE  Stays(IR', abandoned', v, s, n2, list)
  <2>1. list \subseteq Lists(e)
    BY DEF Lists
  <2>2. s \in Int
    BY <1>5
  <2> HIDE DEF e
  <2>3. /\ list \union abandoned \subseteq list \union abandoned'
        /\ \A g \in list \union abandoned : g \in 0 .. Len(IR) - 1 /\ IR[g + 1].target = -1
                                              => IR'[g + 1].target = -1
    BY <1>1, <2>1 DEF e
  <2> QED
    BY <1>1, <1>6, <2>2, <2>3, StaysKept
<1> HIDE DEF e
<1>7. ASSUME e.k = "expr" PROVE Answers(IR', abandoned', e, m)
  <2>1. ASSUME NEW v \in Valuations
        PROVE  /\ Stays(IR', abandoned', v, e.start, m, Exit(e, v))
               /\ Stays(IR', abandoned', v, e.quad, m, Exit(e, v))
    <3>1. /\ Stays(IR, abandoned, v, e.start, End(p), Exit(e, v))
          /\ Stays(IR, abandoned, v, e.quad, End(p), Exit(e, v))
      BY <1>4, <1>7 DEF ItemSettled, Answers, e
    <3>2. Exit(e, v) \in {{}, e.true_list, e.false_list}
      BY DEF Exit
    <3> QED
      BY <1>5, <1>6, <3>1, <3>2
  <2> QED
    BY <2>1 DEF Answers
<1>8. ASSUME e.k \in {"while_body", "then"} PROVE Guards(IR', abandoned', e)
  <2>1. Guards(IR, abandoned, e)
    BY <1>4, <1>8 DEF ItemSettled, e
  <2>2. ASSUME NEW v \in Valuations
        PROVE  /\ v \in e.truth => \/ Leads(IR', v, e.start, e.quad, e.quad)
                                   \/ Stays(IR', abandoned', v, e.start, e.quad, {})
               /\ v \notin e.truth => Stays(IR', abandoned', v, e.start, e.quad, e.false_list)
    <3>1. e.quad \in Int /\ e.quad <= e.quad
      BY <1>5 DEF e
    <3>2. CASE v \in e.truth
      <4>1. \/ Leads(IR, v, e.start, e.quad, e.quad)
            \/ Stays(IR, abandoned, v, e.start, e.quad, {})
        BY <2>1, <3>2 DEF Guards
      <4> QED
        BY <1>1, <1>6, <3>1, <3>2, <4>1, LeadsKept
    <3>3. CASE v \notin e.truth
      <4>1. Stays(IR, abandoned, v, e.start, e.quad, e.false_list)
        BY <2>1, <3>3 DEF Guards
      <4> QED
        BY <1>6, <3>1, <3>3, <4>1
    <3> QED
      BY <3>2, <3>3
  <2> QED
    BY <2>1, <2>2 DEF Guards
<1>9. ASSUME e.k = "else" PROVE Skips(IR', e)
  <2>1. Skips(IR, e)
    BY <1>4, <1>9 DEF ItemSettled, e
  <2>2. e.start \in Lists(e)
    BY <2>1 DEF Skips, Lists
  <2> DEFINE g == e.start
  <2>3. ASSUME NEW v \in Valuations PROVE Stuck(IR', g, v)
    <3>1. Stuck(IR, g, v)
      BY <2>1 DEF Skips
    <3>2. g \in 0 .. Len(IR) - 1
      BY <3>1 DEF Stuck
    <3>3. IR'[g + 1].target = IR[g + 1].target /\ IR'[g + 1].cond = IR[g + 1].cond
      BY <1>1, <2>2 DEF e
    <3> HIDE DEF g
    <3>4. IR'[g + 1].op = IR[g + 1].op /\ g \in 0 .. Len(IR') - 1
      BY <1>1, <3>2 DEF Kept
    <3> QED
      BY <3>1, <3>3, <3>4 DEF Stuck
  <2> QED
    BY <2>1, <2>3 DEF Skips
<1>10. ASSUME NEW l \in Lists(e), IR'[l + 1].cond # {} PROVE IR'[l + 1].target = -1
  BY <1>1, <1>4, <1>10 DEF ItemSettled, e
<1>11. p > 1 => /\ Placed(stack'[p].k, stack'[p - 1].k)
                /\ stack'[p - 1].k \in Openers => stack'[p].quad = stack'[p - 1].quad
  BY <1>2, <1>4 DEF ItemSettled
<1> QED
  BY <1>2, <1>7, <1>8, <1>9, <1>10, <1>11 DEF ItemSettled, e

\* A test that arrived still does.
LEMMA ArrivesKept ==
    ASSUME NEW c, NEW d, Kept(c, d), NEW ab, NEW ab2, ab \subseteq ab2,
           \A g \in ab : d[g + 1].target = -1,
           NEW test, NEW v, Arrives(c, ab, test, v)
    PROVE  Arrives(d, ab2, test, v)
<1>1. PICK s \in 0 .. Len(c), m \in 0 .. Len(c) :
        /\ s <= m /\ {test.yes, test.no} \subseteq m .. Len(c)
        /\ \/ test.start = s
           \/ /\ test.start \in m + 1 .. Len(c) - 1 /\ After(c, test.start, v) = s
              /\ test.start \notin {test.yes, test.no}
        /\ Leads(c, v, s, m, Goal(test, v)) \/ Stays(c, ab, v, s, m, {})
  BY DEF Arrives
<1>2. s \in 0 .. Len(d) /\ m \in 0 .. Len(d) /\ {test.yes, test.no} \subseteq m .. Len(d)
  BY <1>1 DEF Kept
<1>3. \/ test.start = s
      \/ /\ test.start \in m + 1 .. Len(d) - 1 /\ After(d, test.start, v) = s
         /\ test.start \notin {test.yes, test.no}
  <2>1. CASE test.start = s
    BY <2>1
  <2>2. CASE /\ test.start \in m + 1 .. Len(c) - 1 /\ After(c, test.start, v) = s
             /\ test.start \notin {test.yes, test.no}
    <3>1. test.start \in 0 .. Len(c) - 1 /\ After(c, test.start, v) # test.start
      BY <1>1, <2>2
    <3>2. After(d, test.start, v) = s
      BY <2>2, <3>1, AfterKept
    <3> QED
      BY <2>2, <3>2 DEF Kept
  <2> QED
    BY <1>1, <2>1, <2>2
<1>4. Leads(d, v, s, m, Goal(test, v)) \/ Stays(d, ab2, v, s, m, {})
  <2>1. CASE Leads(c, v, s, m, Goal(test, v))
    BY <2>1, LeadsKept
  <2>2. CASE Stays(c, ab, v, s, m, {})
    <3>1. /\ {} \union ab \subseteq {} \union ab2 /\ s \in Int /\ m \in Int /\ m <= m
          /\ \A g \in {} \union ab : g \in 0 .. Len(c) - 1 /\ c[g + 1].target = -1
                                       => d[g + 1].target = -1
      OBVIOUS
    <3> QED
      BY <2>2, <3>1, StaysKept
  <2> QED
    BY <1>1, <2>1, <2>2
<1> QED
  BY <1>1, <1>2, <1>3, <1>4 DEF Arrives

\* So the invariant is kept if what is new keeps it.
LEMMA DecisiveStep ==
    ASSUME Healthy, Decisive, NEW q, NEW L, NEW t, NEW K, NEW u, NEW new,
           Shifts(q, L, t, K, u, new),
           Len(stack') = q - 1 => stack[q - 1].k \in Bodies,
           Len(stack') = q =>
             /\ ItemSettled(IR', abandoned', stack', q, nextinstr')
             /\ stack'[q].quad \in Int /\ stack'[q].quad >= End(q - 1)
             /\ stack'[q].k \in Openers => stack'[q].quad = nextinstr',
           \A d \in new : \A v \in Valuations : Arrives(IR', abandoned', d, v)
    PROVE  Decisive'
<1>0. /\ nextinstr \in Nat /\ Depth \in Nat /\ q \in 2 .. Depth + 1
      /\ nextinstr' \in Nat /\ nextinstr <= nextinstr'
      /\ Kept(IR, IR') /\ \A g \in abandoned : IR'[g + 1].target = -1
      /\ abandoned \subseteq abandoned' /\ decided' = decided \union new
      /\ ~error_reported' /\ Depth' = Len(stack') /\ (Depth' = q - 1 \/ Depth' = q)
  BY HealthyFacts, StepKeeps DEF Shifts, Depth
<1>1. Valuations' = Valuations
  BY DEF Valuations
<1>2. ASSUME NEW d \in decided', NEW v \in Valuations PROVE Arrives(IR', abandoned', d, v)
  <2>1. CASE d \in new
    BY <2>1
  <2>2. CASE d \in decided
    <3>1. Arrives(IR, abandoned, d, v)
      BY <2>2 DEF Decisive
    <3> QED
      BY <1>0, <3>1, ArrivesKept
  <2> QED
    BY <1>0, <2>1, <2>2
<1>3. \A p \in 1 .. q - 1 : End(p) \in Int /\ End(p) <= nextinstr /\ stack'[p] = stack[p]
  BY <1>0, EndTyped DEF Shifts
<1>4. ASSUME NEW p \in 1 .. Depth'
      PROVE  ItemSettled(IR', abandoned', stack', p, End(p)')
  <2>1. CASE p = q
    <3>1. Depth' = q
      BY <1>0, <2>1
    <3>2. End(p)' = nextinstr'
      BY <2>1, <3>1 DEF End
    <3> QED
      BY <1>0, <2>1, <3>1, <3>2
  <2>2. CASE p \in 1 .. q - 1
    <3>1. End(p)' \in Int /\ End(p) <= End(p)'
      <4>1. CASE p = Depth'
        <5>1. End(p)' = nextinstr'
          BY <4>1 DEF End
        <5> QED
          BY <1>0, <1>3, <2>2, <5>1
      <4>2. CASE p # Depth' /\ p = q - 1
        <5>1. Depth' = q /\ p + 1 = q
          BY <1>0, <4>2
        <5>2. End(p)' = stack'[q].quad
          BY <4>2, <5>1 DEF End
        <5> QED
          BY <1>0, <4>2, <5>1, <5>2
      <4>3. CASE p # Depth' /\ p # q - 1
        <5>1. p + 1 \in 1 .. q - 1 /\ p # Depth
          BY <1>0, <2>2, <4>3
        <5>2. End(p)' = stack'[p + 1].quad /\ End(p) = stack[p + 1].quad
          BY <4>3, <5>1 DEF End
        <5>3. End(p)' = End(p)
          BY <1>3, <5>1, <5>2
        <5> QED
          BY <1>3, <2>2, <5>3
      <4> QED
        BY <4>1, <4>2, <4>3
    <3> QED
      BY <2>2, <3>1, BelowSettled
  <2> QED
    BY <1>0, <2>1, <2>2
<1>5. ExpectsExpression' => Top.quad' = nextinstr'
  <2>1. ASSUME ExpectsExpression' PROVE Top.quad' = nextinstr'
    <3>1. Top' = stack'[Depth'] /\ stack'[Depth'].k \in Openers
      BY <2>1 DEF ExpectsExpression, Top
    <3>2. CASE Depth' = q - 1
      <4>1. stack'[q - 1] = stack[q - 1]
        BY <1>0, <1>3
      <4>2. stack[q - 1].k \in Bodies \intersect Openers
        BY <1>0, <3>1, <3>2, <4>1
      <4> QED
        BY <4>2 DEF Bodies, Openers
    <3>3. CASE Depth' = q
      BY <1>0, <3>1, <3>3
    <3> QED
      BY <1>0, <3>2, <3>3
  <2> QED
    BY <2>1
<1>6. Settled'
  BY <1>4, <1>5 DEF Settled
<1> QED
  BY <1>1, <1>2, <1>6 DEF Decisive

-----------------------------------------------------------------------------
(* The code a step emits                                                   *)

\* An instruction is added.
LEMMA EmitLine ==
    ASSUME ~error_reported, NEW c \in Seq(InstructionType), NEW i \in InstructionType
    PROVE  /\ Emit(c, i) \in Seq(InstructionType) /\ Len(Emit(c, i)) = Len(c) + 1
           /\ Emit(c, i)[Len(c) + 1] = i
           /\ \A j \in 0 .. Len(c) - 1 : Emit(c, i)[j + 1] = c[j + 1]
BY DEF Emit

\* So are several.
LEMMA EmitAllLines ==
    ASSUME ~error_reported, NEW c \in Seq(InstructionType), NEW is \in Seq(InstructionType)
    PROVE  /\ EmitAll(c, is) \in Seq(InstructionType) /\ Len(EmitAll(c, is)) = Len(c) + Len(is)
           /\ \A j \in 0 .. Len(c) - 1 : EmitAll(c, is)[j + 1] = c[j + 1]
<1>1. EmitAll(c, is) = c \o is
  BY DEF EmitAll
<1>2. c \o is \in Seq(InstructionType) /\ Len(c \o is) = Len(c) + Len(is)
  OBVIOUS
<1>3. ASSUME NEW j \in 0 .. Len(c) - 1 PROVE (c \o is)[j + 1] = c[j + 1]
  <2>1. j + 1 \in 1 .. Len(c)
    OBVIOUS
  <2> QED
    BY <2>1
<1> QED
  BY <1>1, <1>2, <1>3

\* Jumps are patched.
LEMMA Patched ==
    ASSUME ~error_reported, TypeOK, NEW c \in Seq(InstructionType), NEW list,
           NEW t \in LineNumbers, NEW d, d = backpatch(c, list, t)
    PROVE  /\ d \in Seq(InstructionType) /\ Len(d) = Len(c)
           /\ \A j \in 0 .. Len(c) - 1 :
                /\ j \notin list => d[j + 1] = c[j + 1]
                /\ d[j + 1].op = c[j + 1].op /\ d[j + 1].cond = c[j + 1].cond
                /\ j \in list => d[j + 1].target = t
<1>1. t \in -1 .. IR_ARRAY_SIZE
  BY SizeFacts DEF LineNumbers
<1>2. d \in Seq(InstructionType) /\ Len(d) = Len(c) /\ Len(c) \in Nat
  BY <1>1, PatchTyped
<1>3. d = [n \in 1 .. Len(c) |-> IF n - 1 \in list THEN [c[n] EXCEPT !.target = t] ELSE c[n]]
  BY <1>2 DEF backpatch
<1>4. ASSUME NEW j \in 0 .. Len(c) - 1
      PROVE  /\ j \notin list => d[j + 1] = c[j + 1]
             /\ d[j + 1].op = c[j + 1].op /\ d[j + 1].cond = c[j + 1].cond
             /\ j \in list => d[j + 1].target = t
  <2>1. j + 1 \in 1 .. Len(c) /\ (j + 1) - 1 = j
    BY <1>2
  <2>2. d[j + 1] = IF j \in list THEN [c[j + 1] EXCEPT !.target = t] ELSE c[j + 1]
    BY <1>3, <2>1
  <2>3. c[j + 1] \in InstructionType
    BY <2>1
  <2> QED
    BY <2>2, <2>3 DEF InstructionType
<1> QED
  BY <1>2, <1>4

LEMMA PatchLine ==
    ASSUME ~error_reported, TypeOK, NEW c \in Seq(InstructionType), NEW list, NEW t \in LineNumbers
    PROVE  /\ backpatch(c, list, t) \in Seq(InstructionType)
           /\ Len(backpatch(c, list, t)) = Len(c)
           /\ \A j \in 0 .. Len(c) - 1 :
                /\ j \notin list => backpatch(c, list, t)[j + 1] = c[j + 1]
                /\ backpatch(c, list, t)[j + 1].op = c[j + 1].op
                /\ backpatch(c, list, t)[j + 1].cond = c[j + 1].cond
                /\ j \in list => backpatch(c, list, t)[j + 1].target = t
<1> DEFINE d == backpatch(c, list, t)
<1>1. d = backpatch(c, list, t)
  OBVIOUS
<1> HIDE DEF d
<1>2. /\ d \in Seq(InstructionType) /\ Len(d) = Len(c)
      /\ \A j \in 0 .. Len(c) - 1 :
           /\ j \notin list => d[j + 1] = c[j + 1]
           /\ d[j + 1].op = c[j + 1].op /\ d[j + 1].cond = c[j + 1].cond
           /\ j \in list => d[j + 1].target = t
  BY <1>1, Patched
<1> QED
  BY <1>2 DEF d

\* Lines that nothing has happened to, one list patched, and then another.
LEMMA LinesSame ==
    ASSUME TypeOK
    PROVE  \A t, u : Lines(IR, {}, t, {}, u)
BY SizeFacts DEF Lines, nextinstr

LEMMA LinesFirst ==
    ASSUME TypeOK, ~error_reported, NEW L, NEW t \in LineNumbers
    PROVE  \A u : Lines(backpatch(IR, L, t), L, t, {}, u)
<1>1. IR \in Seq(InstructionType) /\ nextinstr = Len(IR) /\ nextinstr \in Nat
  BY SizeFacts DEF nextinstr
<1> QED
  BY <1>1, PatchLine DEF Lines

LEMMA LinesSecond ==
    ASSUME TypeOK, ~error_reported, NEW c \in Seq(InstructionType), NEW L, NEW t, NEW K,
           NEW u \in LineNumbers, NEW w, Lines(c, L, t, {}, w), L \intersect K = {},
           K \subseteq 0 .. nextinstr - 1
    PROVE  /\ Lines(backpatch(c, K, u), L, t, K, u)
           /\ \A j \in nextinstr .. Len(c) - 1 : backpatch(c, K, u)[j + 1] = c[j + 1]
<1> DEFINE d == backpatch(c, K, u)
<1>1. nextinstr \in Nat /\ Len(c) \in Nat /\ nextinstr <= Len(c)
  BY SizeFacts DEF Lines
<1>2. /\ Len(d) = Len(c)
      /\ \A j \in 0 .. Len(c) - 1 :
           /\ j \notin K => d[j + 1] = c[j + 1]
           /\ d[j + 1].op = c[j + 1].op /\ d[j + 1].cond = c[j + 1].cond
           /\ j \in K => d[j + 1].target = u
  BY PatchLine
<1> HIDE DEF d
<1>3. ASSUME NEW i \in 0 .. nextinstr - 1
      PROVE  /\ d[i + 1].op = IR[i + 1].op /\ d[i + 1].cond = IR[i + 1].cond
             /\ d[i + 1].target = IF i \in L THEN t ELSE IF i \in K THEN u ELSE IR[i + 1].target
  <2>1. i \in 0 .. Len(c) - 1
    BY <1>1
  <2>2. /\ c[i + 1].op = IR[i + 1].op /\ c[i + 1].cond = IR[i + 1].cond
        /\ c[i + 1].target = IF i \in L THEN t ELSE IR[i + 1].target
    BY DEF Lines
  <2> QED
    BY <1>2, <2>1, <2>2
<1>4. ASSUME NEW j \in nextinstr .. Len(c) - 1 PROVE d[j + 1] = c[j + 1]
  <2>1. j \in 0 .. Len(c) - 1 /\ j \notin K
    BY <1>1
  <2> QED
    BY <1>2, <2>1
<1>5. Lines(d, L, t, K, u)
  BY <1>1, <1>2, <1>3 DEF Lines
<1> QED
  BY <1>4, <1>5 DEF d

\* Code that differs in new lines only.
LEMMA LinesLater ==
    ASSUME NEW c, NEW d, NEW L, NEW t, NEW K, NEW u, Lines(c, L, t, K, u), TypeOK,
           Len(d) \in Nat, Len(c) <= Len(d), \A j \in 0 .. nextinstr - 1 : d[j + 1] = c[j + 1]
    PROVE  Lines(d, L, t, K, u)
BY SizeFacts DEF Lines

\* What control does at the instructions emitted.
LEMMA AtPlain ==
    ASSUME NEW c, NEW i, NEW op, op # "return", c[i + 1] = Plain(op), NEW v
    PROVE  After(c, i, v) = i + 1
BY DEF After, Plain, Instruction

LEMMA AtGoto ==
    ASSUME NEW c, NEW i \in 0 .. Len(c) - 1, c[i + 1] = GotoIR, NEW v \in Valuations
    PROVE  Stuck(c, i, v)
BY DEF Stuck, GotoIR, Instruction

LEMMA AtJump ==
    ASSUME NEW c, NEW i \in 0 .. Len(c) - 1, NEW cond, c[i + 1] = JumpIf(cond), NEW v
    PROVE  /\ v \in cond => Stuck(c, i, v)
           /\ v \notin cond => After(c, i, v) = i + 1
           /\ c[i + 1].target = -1
BY DEF Stuck, After, JumpIf, Instruction

\* A test at the end of the code.
LEMMA TwoWayLines ==
    ASSUME TypeOK, ~error_reported, NEW c \in Seq(InstructionType), NEW cond \in SUBSET Valuations
    PROVE  /\ TwoWay(c, cond) \in Seq(InstructionType)
           /\ Len(TwoWay(c, cond)) = Len(c) + 2 /\ Len(c) \in Nat
           /\ \A j \in 0 .. Len(c) - 1 : TwoWay(c, cond)[j + 1] = c[j + 1]
           /\ TwoWay(c, cond)[Len(c) + 1] = JumpIf(cond)
           /\ TwoWay(c, cond)[Len(c) + 2] = GotoIR
<1>1. JumpIf(cond) \in InstructionType /\ GotoIR \in InstructionType
  BY InstructionTyped
<1> DEFINE c1 == Emit(c, JumpIf(cond))
           c2 == Emit(c1, GotoIR)
<1>2. TwoWay(c, cond) = c2
  BY <1>1, EmitEach DEF TwoWay
<1>3. /\ c1 \in Seq(InstructionType) /\ Len(c1) = Len(c) + 1 /\ c1[Len(c) + 1] = JumpIf(cond)
      /\ \A j \in 0 .. Len(c) - 1 : c1[j + 1] = c[j + 1]
  BY <1>1, EmitLine
<1> HIDE DEF c1
<1>4. /\ c2 \in Seq(InstructionType) /\ Len(c2) = Len(c1) + 1 /\ c2[Len(c1) + 1] = GotoIR
      /\ \A j \in 0 .. Len(c1) - 1 : c2[j + 1] = c1[j + 1]
  BY <1>1, <1>3, EmitLine
<1>5. Len(c) \in Nat /\ Len(c) \in 0 .. Len(c1) - 1 /\ Len(c1) + 1 = Len(c) + 2
  BY <1>3
<1> HIDE DEF c2
<1>6. \A j \in 0 .. Len(c) - 1 : j \in 0 .. Len(c1) - 1
  BY <1>3, <1>5
<1> QED
  BY <1>2, <1>3, <1>4, <1>5, <1>6

\* Control at such a test stays at one of its jumps.
LEMMA TwoWayStays ==
    ASSUME TypeOK, ~error_reported, NEW c \in Seq(InstructionType), NEW cond \in SUBSET Valuations,
           NEW v \in Valuations, NEW m \in Int, Len(c) + 2 <= m, NEW ab, NEW list,
           (IF v \in cond THEN Len(c) ELSE Len(c) + 1) \in list \union ab
    PROVE  Stays(TwoWay(c, cond), ab, v, Len(c), m, list)
<1> DEFINE d == TwoWay(c, cond)
           n == Len(c)
<1>1. /\ Len(d) = n + 2 /\ n \in Nat /\ d[n + 1] = JumpIf(cond) /\ d[n + 2] = GotoIR
  BY TwoWayLines
<1> HIDE DEF d, n
<1>2. n \in 0 .. Len(d) - 1 /\ n + 1 \in 0 .. Len(d) - 1 /\ n + 1 + 1 = n + 2
      /\ n \in n .. m - 1 /\ n + 1 \in n .. m - 1 /\ n < n + 1 /\ n < m
  BY <1>1 DEF n
<1>3. CASE v \in cond
  <2>1. Stuck(d, n, v)
    BY <1>1, <1>2, <1>3, AtJump
  <2>2. Leads(d, v, n, m, n)
    BY <1>1, Here
  <2> QED
    BY <1>2, <1>3, <2>1, <2>2 DEF Stays, d, n
<1>4. CASE v \notin cond
  <2>1. After(d, n, v) = n + 1
    BY <1>1, <1>2, <1>4, AtJump
  <2>2. Stuck(d, n + 1, v)
    BY <1>1, <1>2, AtGoto
  <2>3. Leads(d, v, n + 1, m, n + 1)
    BY <1>1, Here
  <2>4. Leads(d, v, n, m, n + 1)
    BY <1>1, <1>2, <2>1, <2>3, Forward
  <2> QED
    BY <1>2, <1>4, <2>2, <2>4 DEF Stays, d, n
<1> QED
  BY <1>3, <1>4

\* Code that is added keeps the code there is.
LEMMA KeptLater ==
    ASSUME NEW c, NEW d, Len(c) \in Nat, Len(d) \in Nat, Len(c) <= Len(d),
           \A j \in 0 .. Len(c) - 1 : d[j + 1] = c[j + 1]
    PROVE  Kept(c, d)
BY DEF Kept

-----------------------------------------------------------------------------
(* Expressions                                                             *)

\* What is known of the innermost item.
LEMMA TopSettled ==
    ASSUME Healthy, Decisive
    PROVE  /\ ItemSettled(IR, abandoned, stack, Depth, nextinstr)
           /\ Top = stack[Depth] /\ Depth \in Nat /\ Depth > 0 /\ nextinstr \in Nat
           /\ Depth > 1 => Under = stack[Depth - 1] /\ End(Depth - 1) = Top.quad
           /\ End(Depth) = nextinstr
           /\ ExpectsExpression => Top.quad = nextinstr
           /\ Sound /\ TypeOK /\ ~error_reported
           /\ nextinstr = Len(IR) /\ IR \in Seq(InstructionType)
<1>0. Depth \in Nat /\ Depth > 0 /\ Settled /\ Sound /\ TypeOK /\ ~error_reported
      /\ nextinstr \in Nat
  BY HealthyFacts DEF Healthy, Decisive, Sound
<1>1. Depth \in 1 .. Depth /\ (Depth > 1 => Depth - 1 \in 1 .. Depth /\ Depth - 1 + 1 = Depth
                                              /\ Depth - 1 # Depth)
  BY <1>0
<1>2. nextinstr = Len(IR) /\ IR \in Seq(InstructionType)
  BY <1>0, SizeFacts DEF nextinstr
<1> QED
  BY <1>0, <1>1, <1>2 DEF Settled, End, Top, Under

\* What is known of an operand, and of the opener that waits for it.
LEMMA OperandSettled ==
    ASSUME Healthy, Decisive, NEW o \in Openers, HasOperand(o)
    PROVE  /\ Answers(IR, abandoned, Top, nextinstr) /\ Top.quad = Under.quad
           /\ Depth > 2 /\ Placed(o, stack[Depth - 2].k)
           /\ stack[Depth - 2].k \in Openers => Under.quad = stack[Depth - 2].quad
           /\ o \in {"or", "and"} =>
                /\ Depth > 3 /\ Answers(IR, abandoned, Left, Under.quad)
                /\ stack[Depth - 3].k \in Openers /\ Left.quad = stack[Depth - 3].quad
<1>1. /\ Depth > 2 /\ Depth \in Nat /\ Top.k = "expr" /\ Under.k = o
      /\ Top = stack[Depth] /\ Under = stack[Depth - 1] /\ Left = stack[Depth - 2]
      /\ o \in {"or", "and"} => Depth > 3 /\ Left.k = "expr"
  BY OperandOnTop DEF HasOperand, Healthy, Left
<1>2. Settled
  BY DEF Healthy, Decisive
<1>3. /\ Depth \in 1 .. Depth /\ Depth > 1 /\ Depth - 1 \in 1 .. Depth /\ Depth - 1 > 1
      /\ Depth - 1 - 1 = Depth - 2 /\ Depth - 2 \in 1 .. Depth
  BY <1>1
<1>4. Answers(IR, abandoned, Top, nextinstr) /\ Top.quad = Under.quad
  <2>1. ItemSettled(IR, abandoned, stack, Depth, nextinstr)
    BY TopSettled
  <2> QED
    BY <1>1, <1>3, <2>1 DEF ItemSettled
<1>5. /\ Placed(o, stack[Depth - 2].k)
      /\ stack[Depth - 2].k \in Openers => Under.quad = stack[Depth - 2].quad
  <2>1. ItemSettled(IR, abandoned, stack, Depth - 1, End(Depth - 1))
    BY <1>2, <1>3 DEF Settled
  <2> QED
    BY <1>1, <1>3, <2>1 DEF ItemSettled
<1>6. ASSUME o \in {"or", "and"}
      PROVE  /\ Depth > 3 /\ Answers(IR, abandoned, Left, Under.quad)
             /\ stack[Depth - 3].k \in Openers /\ Left.quad = stack[Depth - 3].quad
  <2>1. /\ Depth - 2 > 1 /\ Depth - 2 - 1 = Depth - 3 /\ Depth - 2 + 1 = Depth - 1
        /\ Depth - 2 # Depth
    BY <1>1, <1>6
  <2>2. End(Depth - 2) = Under.quad
    BY <1>1, <2>1 DEF End
  <2>3. ItemSettled(IR, abandoned, stack, Depth - 2, Under.quad)
    BY <1>2, <1>3, <2>2 DEF Settled
  <2>4. stack[Depth - 3].k \in Openers
    BY <1>1, <1>6, <2>1, <2>3 DEF ItemSettled, Placed
  <2> QED
    BY <1>1, <1>6, <2>1, <2>3, <2>4 DEF ItemSettled
<1> QED
  BY <1>1, <1>4, <1>5, <1>6

\* An item is pushed.
LEMMA PushSettled ==
    ASSUME Healthy, Decisive, Tight', UNCHANGED <<error_reported, decided>>,
           abandoned \subseteq abandoned', NEW i \in ItemType, Push(i), Lines(IR', {}, 0, {}, 0),
           Placed(i.k, Top.k), i.quad = nextinstr, i.k \notin {"while_body", "then", "else"},
           i.k = "expr" => Answers(IR', abandoned', i, nextinstr'),
           \A l \in Lists(i) : IR'[l + 1].target = -1,
           i.k \in Openers => nextinstr' = nextinstr
    PROVE  Decisive'
<1> DEFINE q == Depth + 1
           E == {}
           o == 0
<1>0. /\ Top = stack[Depth] /\ Depth \in Nat /\ Depth > 0 /\ nextinstr \in Nat
      /\ End(Depth) = nextinstr /\ (ExpectsExpression => Top.quad = nextinstr)
      /\ Sound /\ ~error_reported
  BY TopSettled
<1>1. /\ stack' \in Seq(ItemType) /\ Len(stack') = Depth + 1
      /\ stack'[Depth + 1] = i /\ \A p \in 1 .. Depth : stack'[p] = stack[p]
  BY <1>0, StackItems, StackTyped
<1>2. q \in 2 .. Depth + 1 /\ q - 1 = Depth /\ q - 1 \in 1 .. q - 1 /\ q > 1 /\ Len(stack') # q - 1
  BY <1>0, <1>1
<1>3. Lines(IR', E, o, E, o) /\ E \union E \subseteq Owned(stack, q, Depth)
      /\ decided' = decided \union E /\ ~error_reported'
  BY <1>0
<1>4. Shifts(q, E, o, E, o, E)
  BY <1>1, <1>2, <1>3 DEF Shifts
<1>5. ItemSettled(IR', abandoned', stack', q, nextinstr')
  <2>1. stack'[q] = i /\ stack'[q - 1] = Top
    BY <1>0, <1>1, <1>2
  <2>2. Top.k \in Openers => Top.quad = nextinstr
    BY <1>0 DEF ExpectsExpression
  <2> QED
    BY <2>1, <2>2 DEF ItemSettled
<1>6. /\ stack'[q].quad \in Int /\ stack'[q].quad >= End(q - 1)
      /\ stack'[q].k \in Openers => stack'[q].quad = nextinstr'
  BY <1>0, <1>1, <1>2
<1>7. \A d \in E : \A v \in Valuations : Arrives(IR', abandoned', d, v)
  OBVIOUS
<1> HIDE DEF q, E, o
<1> QED
  BY <1>2, <1>4, <1>5, <1>6, <1>7, DecisiveStep

\* An opener or a body is begun, on code that is as it was.
LEMMA OpenerSettled ==
    ASSUME Healthy, Decisive, Tight', NEW k \in ItemKinds, Push(Item(k)),
           k \notin {"expr", "while_body", "then", "else"}, Placed(k, Top.k),
           UNCHANGED <<IR, error_reported, decided, abandoned, workload>>
    PROVE  Decisive'
<1>0. TypeOK /\ nextinstr' = nextinstr
  BY TopSettled DEF nextinstr
<1> DEFINE i == Item(k)
<1>1. i \in ItemType
  BY <1>0, ItemTyped
<1>2. i.k = k /\ i.quad = nextinstr /\ Lists(i) = {}
  BY DEF Item, Lists
<1>3. Lines(IR', {}, 0, {}, 0)
  BY <1>0, LinesSame
<1> HIDE DEF i
<1>4. Push(i)
  BY DEF i
<1> QED
  BY <1>0, <1>1, <1>2, <1>3, <1>4, PushSettled

\* Openers of expressions and statements.
LEMMA OpenersSettled ==
    ASSUME Healthy, Decisive, Tight',
           \/ \E op \in {"or", "and"} : Operator(op)
           \/ Negation \/ BeginArgument
           \/ \E op \in {"assign", "return", "while", "if", "block"} : Begin(op, op)
    PROVE  Decisive'
<1>1. ASSUME NEW op \in {"or", "and"}, Operator(op) PROVE Decisive'
  <2>1. op \in ItemKinds /\ op \notin {"expr", "while_body", "then", "else"} /\ Placed(op, Top.k)
    BY DEF ItemKinds, Openers, Placed, Bodies
  <2> QED
    BY <1>1, <2>1, OpenerSettled DEF Operator
<1>2. ASSUME NEW op \in {"not", "argument"}, ExpectsExpression, Push(Item(op)),
             UNCHANGED <<IR, error_reported, decided, functions, abandoned, workload>>
      PROVE  Decisive'
  <2>1. op \in ItemKinds /\ op \notin {"expr", "while_body", "then", "else"} /\ Placed(op, Top.k)
    BY <1>2 DEF ItemKinds, Openers, Placed, Bodies, ExpectsExpression
  <2> QED
    BY <1>2, <2>1, OpenerSettled
<1>3. ASSUME NEW op \in {"assign", "return", "while", "if", "block"}, Begin(op, op)
      PROVE  Decisive'
  <2>1. op \in ItemKinds /\ op \notin {"expr", "while_body", "then", "else"} /\ Placed(op, Top.k)
    BY <1>3 DEF ItemKinds, Openers, Placed, Bodies, Begin, InBody
  <2> QED
    BY <1>3, <2>1, OpenerSettled DEF Begin
<1> QED
  BY <1>1, <1>2, <1>3 DEF Negation, BeginArgument

\* A Boolean variable or a comparison.
LEMMA AtomicSettled ==
    ASSUME Healthy, Decisive, Tight', NEW cond \in SUBSET Valuations, Atomic(cond)
    PROVE  Decisive'
<1> DEFINE n == nextinstr
           i == Expression(cond, n)
<1>0. /\ TypeOK /\ Sound /\ ~error_reported /\ n \in Nat /\ n = Len(IR)
      /\ IR \in Seq(InstructionType) /\ IR' = TwoWay(IR, cond) /\ Push(i)
      /\ UNCHANGED <<error_reported, decided, abandoned>> /\ ExpectsExpression /\ Room(2)
  BY TopSettled DEF Atomic
<1>1. /\ Len(IR') = n + 2 /\ \A j \in 0 .. n - 1 : IR'[j + 1] = IR[j + 1]
      /\ IR'[n + 1].target = -1 /\ IR'[n + 2].target = -1
  <2>1. /\ Len(IR') = Len(IR) + 2 /\ \A j \in 0 .. Len(IR) - 1 : IR'[j + 1] = IR[j + 1]
        /\ IR'[Len(IR) + 1] = JumpIf(cond) /\ IR'[Len(IR) + 2] = GotoIR
    BY <1>0, TwoWayLines
  <2> QED
    BY <1>0, <2>1 DEF JumpIf, GotoIR, Instruction
<1>2. /\ i \in ItemType /\ i.k = "expr" /\ i.true_list = {n} /\ i.false_list = {n + 1}
      /\ i.quad = n /\ i.start = n /\ i.truth = cond
  <2>1. n \in LineNumbers
    BY <1>0, RoomFor
  <2>2. i \in ItemType /\ i.k = "expr"
    BY <1>0, <2>1, ExpressionTyped
  <2>3. Item("expr") \in ItemType
    BY <1>0, ItemTyped, Kinds
  <2>4. i.truth = cond
    BY <2>3 DEF Expression, ItemType
  <2> QED
    BY <1>0, <2>2, <2>4, ExpressionFields
<1>3. Lines(IR', {}, 0, {}, 0)
  BY <1>0, <1>1, LinesSame, LinesLater
<1>4. Placed(i.k, Top.k)
  BY <1>0, <1>2 DEF Placed, ExpectsExpression, Bodies
<1>5. nextinstr' = n + 2
  BY <1>1 DEF nextinstr
<1> HIDE DEF i
<1>6. Answers(IR', abandoned', i, nextinstr')
  <2>1. ASSUME NEW v \in Valuations PROVE Stays(IR', abandoned', v, n, n + 2, Exit(i, v))
    <3>1. (IF v \in cond THEN Len(IR) ELSE Len(IR) + 1) \in Exit(i, v) \union abandoned'
      BY <1>0, <1>2 DEF Exit
    <3>2. n + 2 \in Int /\ Len(IR) + 2 <= n + 2
      BY <1>0
    <3> HIDE DEF n
    <3> QED
      BY <1>0, <3>1, <3>2, TwoWayStays
  <2> QED
    BY <1>2, <1>5, <2>1 DEF Answers
<1>7. \A l \in Lists(i) : IR'[l + 1].target = -1
  <2>1. Lists(i) = {n, n + 1} /\ n + 1 + 1 = n + 2
    BY <1>0, <1>2 DEF Lists
  <2> QED
    BY <1>1, <2>1
<1>8. i.k \notin Openers
  BY <1>2, Kinds
<1> HIDE DEF n
<1> QED
  BY <1>0, <1>2, <1>3, <1>4, <1>6, <1>7, <1>8, PushSettled DEF n

\* Control that meets a test whose jumps were abandoned stays there.
LEMMA AbandonedStays ==
    ASSUME TypeOK, ~error_reported, NEW cond \in SUBSET Valuations, NEW d, Len(d) \in Nat,
           nextinstr + 2 <= Len(d),
           \A j \in 0 .. nextinstr + 1 : d[j + 1] = TwoWay(IR, cond)[j + 1],
           NEW ab, {nextinstr, nextinstr + 1} \subseteq ab,
           NEW v \in Valuations, NEW m \in Int, nextinstr + 2 <= m, NEW list
    PROVE  Stays(d, ab, v, nextinstr, m, list)
<1> DEFINE n == nextinstr
           c == TwoWay(IR, cond)
           A == {n, n + 1}
<1>0. n \in Nat /\ n = Len(IR) /\ IR \in Seq(InstructionType)
  BY SizeFacts DEF nextinstr
<1>1. Len(c) = n + 2 /\ c[n + 1] = JumpIf(cond) /\ c[n + 2] = GotoIR
  BY <1>0, TwoWayLines
<1>2. Kept(c, d)
  <2>1. Len(c) \in Nat /\ Len(c) <= Len(d) /\ \A j \in 0 .. Len(c) - 1 : d[j + 1] = c[j + 1]
    BY <1>0, <1>1
  <2> HIDE DEF c
  <2> QED
    BY <2>1, KeptLater
<1>3. Stays(c, A, v, n, m, {})
  <2>1. (IF v \in cond THEN Len(IR) ELSE Len(IR) + 1) \in {} \union A /\ Len(IR) + 2 <= m
    BY <1>0
  <2> HIDE DEF A
  <2>2. Stays(c, A, v, Len(IR), m, {})
    BY <1>0, <2>1, TwoWayStays
  <2> QED
    BY <1>0, <2>2
<1>4. \A g \in {} \union A : g \in 0 .. Len(c) - 1 /\ c[g + 1].target = -1 => d[g + 1].target = -1
  <2>1. \A g \in A : g \in 0 .. n + 1
    BY <1>0
  <2> QED
    BY <2>1
<1>5. {} \union A \subseteq list \union ab /\ m <= m /\ n \in Int
  BY <1>0
<1> HIDE DEF c, A
<1> QED
  BY <1>2, <1>3, <1>4, <1>5, StaysKept

\* A Boolean result of code that abandons the jumps of a test.
LEMMA ResultSettled ==
    ASSUME Healthy, Decisive, Tight', NEW one \in SUBSET Valuations, NEW cond \in SUBSET Valuations,
           NEW c \in Seq(InstructionType), ExpectsExpression, Room(6),
           nextinstr + 2 <= Len(c), Len(c) <= nextinstr + 4,
           \A j \in 0 .. nextinstr + 1 : c[j + 1] = TwoWay(IR, one)[j + 1],
           IR' = TwoWay(c, cond), Push(Result(cond, Len(c))),
           abandoned \subseteq abandoned', {nextinstr, nextinstr + 1} \subseteq abandoned',
           UNCHANGED <<error_reported, decided>>
    PROVE  Decisive'
<1> DEFINE n == nextinstr
           t == Len(c)
           i == Result(cond, t)
<1>0. /\ TypeOK /\ Sound /\ ~error_reported /\ n \in Nat /\ n = Len(IR) /\ t \in Nat
      /\ IR \in Seq(InstructionType)
  BY TopSettled
<1>1. /\ Len(IR') = t + 2 /\ \A j \in 0 .. t - 1 : IR'[j + 1] = c[j + 1]
      /\ IR'[t + 1].target = -1 /\ IR'[t + 2].target = -1
  <2>1. /\ IR'[t + 1] = JumpIf(cond) /\ IR'[t + 2] = GotoIR
        /\ Len(IR') = t + 2 /\ \A j \in 0 .. t - 1 : IR'[j + 1] = c[j + 1]
    BY <1>0, TwoWayLines
  <2> HIDE DEF t
  <2> QED
    BY <2>1 DEF JumpIf, GotoIR, Instruction
<1>2. /\ i \in ItemType /\ i.k = "expr" /\ i.true_list = {t} /\ i.false_list = {t + 1}
      /\ i.quad = n /\ i.start = n
  <2>1. t \in LineNumbers /\ t + 1 \in LineNumbers /\ Room(2)
    <3>1. n + 6 <= IR_ARRAY_SIZE /\ IR_ARRAY_SIZE \in Nat
      BY <1>0, SizeFacts DEF Room
    <3> QED
      BY <1>0, <3>1 DEF LineNumbers, Room
  <2>2. Sound /\ n = nextinstr
    BY <1>0
  <2> HIDE DEF t, n
  <2>3. i \in ItemType /\ i.k = "expr"
    BY <2>1, <2>2, ResultTyped DEF Result
  <2>4. /\ i.true_list = {t} /\ i.false_list = {t + 1}
        /\ i.quad = nextinstr /\ i.start = nextinstr
    BY <2>1, <2>2, ResultFields
  <2> HIDE DEF i
  <2> QED
    BY <2>2, <2>3, <2>4
<1>3. /\ \A j \in 0 .. n + 1 : IR'[j + 1] = TwoWay(IR, one)[j + 1]
      /\ \A j \in 0 .. n - 1 : IR'[j + 1] = IR[j + 1]
  <2>1. \A j \in 0 .. n + 1 : IR'[j + 1] = TwoWay(IR, one)[j + 1]
    <3>1. \A j \in 0 .. n + 1 : j \in 0 .. t - 1
      BY <1>0
    <3> QED
      BY <1>1, <3>1
  <2>2. \A j \in 0 .. n - 1 : TwoWay(IR, one)[j + 1] = IR[j + 1]
    BY <1>0, TwoWayLines
  <2>3. \A j \in 0 .. n - 1 : j \in 0 .. n + 1
    BY <1>0
  <2> QED
    BY <2>1, <2>2, <2>3
<1>4. Lines(IR', {}, 0, {}, 0)
  <2>1. Lines(IR, {}, 0, {}, 0) /\ Len(IR') \in Nat /\ Len(IR) <= Len(IR')
    BY <1>0, <1>1, LinesSame
  <2> QED
    BY <1>0, <1>3, <2>1, LinesLater
<1>5. Placed(i.k, Top.k)
  BY <1>2 DEF Placed, ExpectsExpression, Bodies
<1>6. nextinstr' = t + 2 /\ n + 2 <= t + 2 /\ t + 2 \in Int
  BY <1>0, <1>1 DEF nextinstr
<1> HIDE DEF i
<1>7. Answers(IR', abandoned', i, nextinstr')
  <2>1. ASSUME NEW v \in Valuations PROVE Stays(IR', abandoned', v, n, t + 2, Exit(i, v))
    <3>1. Len(IR') \in Nat /\ n + 2 <= Len(IR')
      BY <1>0, <1>1, <1>6
    <3> HIDE DEF t
    <3> QED
      BY <1>0, <1>3, <1>6, <3>1, AbandonedStays
  <2> QED
    BY <1>2, <1>6, <2>1 DEF Answers
<1>8. \A l \in Lists(i) : IR'[l + 1].target = -1
  <2>1. Lists(i) = {t, t + 1} /\ t + 1 + 1 = t + 2
    BY <1>0, <1>2 DEF Lists
  <2> QED
    BY <1>1, <2>1
<1>9. i.k \notin Openers
  BY <1>2, Kinds
<1>10. Push(i)
  BY DEF i
<1> HIDE DEF n, t
<1> QED
  BY <1>0, <1>2, <1>4, <1>5, <1>7, <1>8, <1>9, <1>10, PushSettled DEF n

\* A comparison of Booleans, and a call with a packed argument.
LEMMA ResultsSettled ==
    ASSUME Healthy, Decisive, Tight', NEW a \in Atoms, NEW b \in Atoms,
           CompareBooleans(a, b) \/ PackedArgument(a, b)
    PROVE  Decisive'
<1> DEFINE ca == {v \in Valuations : a \in v}
           cb == {v \in Valuations : b \in v}
           both == {v \in Valuations : (a \in v) <=> (b \in v)}
           n == nextinstr
<1>0. /\ TypeOK /\ Sound /\ ~error_reported /\ n \in Nat /\ n = Len(IR)
      /\ IR \in Seq(InstructionType)
  BY TopSettled
<1>1. ca \in SUBSET Valuations /\ cb \in SUBSET Valuations /\ both \in SUBSET Valuations
  OBVIOUS
<1>2. ASSUME CompareBooleans(a, b) PROVE Decisive'
  <2> DEFINE one == TwoWay(IR, ca)
             two == TwoWay(one, cb)
  <2>1. /\ ExpectsExpression /\ Room(6) /\ IR' = TwoWay(two, both) /\ Push(Result(both, Len(two)))
        /\ Abandon(n .. n + 3) /\ UNCHANGED <<error_reported, decided>>
    BY <1>2 DEF CompareBooleans, Result
  <2> HIDE DEF ca, cb, both
  <2>2. one \in Seq(InstructionType) /\ Len(one) = n + 2
    BY <1>0, <1>1, TwoWayLines
  <2>3. /\ two \in Seq(InstructionType) /\ Len(two) = Len(one) + 2
        /\ \A j \in 0 .. Len(one) - 1 : two[j + 1] = one[j + 1]
    <3> HIDE DEF one
    <3> QED
      BY <1>0, <1>1, <2>2, TwoWayLines
  <2>4. abandoned' = abandoned \union n .. n + 3
    BY <1>0, <2>1 DEF Abandon
  <2> HIDE DEF two
  <2>5. /\ n + 2 <= Len(two) /\ Len(two) <= n + 4
        /\ \A j \in 0 .. n + 1 : two[j + 1] = TwoWay(IR, ca)[j + 1]
        /\ abandoned \subseteq abandoned' /\ {n, n + 1} \subseteq abandoned'
    BY <1>0, <2>2, <2>3, <2>4
  <2> HIDE DEF two, n
  <2> QED
    BY <1>1, <2>1, <2>3, <2>5, ResultSettled DEF n
<1>3. ASSUME PackedArgument(a, b) PROVE Decisive'
  <2> DEFINE one == TwoWay(IR, cb)
             is == <<Plain("param"), Plain("call")>>
             two == EmitAll(one, is)
  <2>1. /\ ExpectsExpression /\ Room(6) /\ IR' = TwoWay(two, ca) /\ Push(Result(ca, Len(two)))
        /\ Abandon(n .. n + 1) /\ UNCHANGED <<error_reported, decided>>
    BY <1>3 DEF PackedArgument, Result
  <2> HIDE DEF ca, cb
  <2>2. one \in Seq(InstructionType) /\ Len(one) = n + 2
    BY <1>0, <1>1, TwoWayLines
  <2>3. /\ two \in Seq(InstructionType) /\ Len(two) = Len(one) + 2
        /\ \A j \in 0 .. Len(one) - 1 : two[j + 1] = one[j + 1]
    <3>1. Plain("param") \in InstructionType /\ Plain("call") \in InstructionType
      BY <1>0, InstructionTyped
    <3>2. is \in Seq(InstructionType) /\ Len(is) = 2
      BY <3>1
    <3> HIDE DEF one, is
    <3>3. two \in Seq(InstructionType) /\ Len(two) = Len(one) + Len(is)
      BY <1>0, <2>2, <3>2, EmitAllLines
    <3>4. \A j \in 0 .. Len(one) - 1 : two[j + 1] = one[j + 1]
      BY <1>0, <2>2, <3>2, EmitAllLines
    <3> QED
      BY <3>2, <3>3, <3>4
  <2>4. abandoned' = abandoned \union n .. n + 1
    BY <1>0, <2>1 DEF Abandon
  <2> HIDE DEF two
  <2>5. /\ n + 2 <= Len(two) /\ Len(two) <= n + 4
        /\ \A j \in 0 .. n + 1 : two[j + 1] = TwoWay(IR, cb)[j + 1]
        /\ abandoned \subseteq abandoned' /\ {n, n + 1} \subseteq abandoned'
    BY <1>0, <2>2, <2>3, <2>4
  <2> HIDE DEF two, n
  <2> QED
    BY <1>1, <2>1, <2>3, <2>5, ResultSettled DEF n
<1> QED
  BY <1>2, <1>3

\* OR and AND: the jumps that the left operand does not decide by are patched
\* to the right one, whose first line is where it begins.
LEMMA JunctionSettled ==
    ASSUME Healthy, Decisive, Tight', NEW o \in {"or", "and"}, HasOperand(o),
           NEW L, L \in {Left.true_list, Left.false_list}, NEW e \in ItemType,
           IR' = backpatch(IR, L, Under.quad), Replace(3, e),
           UNCHANGED <<error_reported, decided, functions, abandoned, workload>>,
           e.k = "expr", e.quad = Left.quad, e.start = Left.start,
           Lists(e) \subseteq (Lists(Left) \union Lists(Top)) \ L,
           \A v \in Valuations :
             \/ Exit(Left, v) \intersect L = {} /\ Exit(Left, v) \subseteq Exit(e, v)
             \/ Exit(Left, v) = L /\ Exit(Top, v) \subseteq Exit(e, v)
    PROVE  Decisive'
<1> DEFINE q == Depth - 2
           t == Under.quad
           n == nextinstr
           E == {}
           z == 0
<1>0. /\ TypeOK /\ Sound /\ ~error_reported /\ n \in Nat /\ n = Len(IR)
      /\ IR \in Seq(InstructionType) /\ Depth \in Nat
      /\ Answers(IR, abandoned, Top, n) /\ Top.quad = t
      /\ Depth > 3 /\ Answers(IR, abandoned, Left, t)
      /\ stack[Depth - 3].k \in Openers /\ Left.quad = stack[Depth - 3].quad
  BY TopSettled, OperandSettled DEF Openers
<1>1. /\ Owned(stack, q, Depth) = Lists(Left) \union Lists(Under) \union Lists(Top)
      /\ Lists(Left) \subseteq 0 .. n - 1 /\ Lists(Top) \subseteq 0 .. n - 1
      /\ Lists(Left) \intersect Lists(Top) = {} /\ L \subseteq Lists(Left)
      /\ Left.quad \in Nat /\ Left.start \in Nat /\ t \in Nat /\ t <= n /\ Top.quad \in Nat
  <2>1. Base \in Nat /\ \A S : S \subseteq Base .. n - 1 => S \subseteq 0 .. n - 1
    BY HealthyFacts
  <2>2. \A x : x \in Base .. n => x \in Nat /\ x <= n
    BY <1>0, <2>1
  <2>3. Depth > 1 /\ Depth > 2
    BY <1>0
  <2>4. /\ Owned(stack, q, Depth) = Lists(Left) \union Lists(Under) \union Lists(Top)
        /\ Lists(Left) \subseteq Base .. n - 1 /\ Lists(Top) \subseteq Base .. n - 1
        /\ Lists(Left) \intersect Lists(Top) = {}
        /\ Left.quad \in Base .. n /\ Left.start \in Base .. n /\ t \in Base .. n
        /\ Top.quad \in Base .. n
    BY <2>3, OwnedOnTop
  <2>5. L \subseteq Lists(Left)
    BY DEF Lists
  <2> HIDE DEF q, t, n
  <2> QED
    BY <2>1, <2>2, <2>4, <2>5
<1>2. t \in LineNumbers
  BY <1>0, <1>1, SizeFacts DEF LineNumbers
<1>3. Lines(IR', L, t, E, z)
  BY <1>0, <1>2, LinesFirst
<1>4. /\ Len(stack') = q /\ stack'[q] = e /\ \A p \in 1 .. q - 1 : stack'[p] = stack[p]
  <2>1. 3 \in 0 .. Depth /\ Depth - 3 + 1 = q /\ Depth - 3 = q - 1
    BY <1>0
  <2> QED
    BY <1>0, <2>1, StackItems, StackTyped
<1>5. Len(IR') = n /\ nextinstr' = n
  BY <1>0, <1>2, PatchLine DEF nextinstr
<1>6. q \in 2 .. Depth + 1 /\ q - 1 = Depth - 3 /\ q - 1 \in 1 .. q - 1 /\ q > 1
      /\ q - 1 + 1 = q /\ q - 1 # Depth
  BY <1>0
<1>7. Shifts(q, L, t, E, z, E)
  BY <1>0, <1>1, <1>3, <1>4, <1>6 DEF Shifts
<1>8. /\ Kept(IR, IR') /\ \A g \in abandoned : IR'[g + 1].target = -1
  <2> HIDE DEF q, t, n, E, z
  <2> QED
    BY <1>7, StepKeeps
<1>9. ASSUME NEW g \in 0 .. n - 1
      PROVE  /\ g \in L => IR'[g + 1].target = t
             /\ g \notin L => IR'[g + 1].target = IR[g + 1].target
  BY <1>3 DEF Lines
<1>10. ASSUME NEW v \in Valuations, NEW s \in {Left.quad, Left.start}
       PROVE  Stays(IR', abandoned', v, s, n, Exit(e, v))
  <2>1. Stays(IR, abandoned, v, s, t, Exit(Left, v)) /\ s \in Int
    BY <1>0, <1>1 DEF Answers
  <2>2. /\ t \in Int /\ n \in Int /\ t \in Nat /\ t <= n /\ t <= t /\ n <= n
        /\ abandoned \subseteq abandoned'
        /\ \A g \in abandoned : g \in 0 .. Len(IR) - 1 /\ IR[g + 1].target = -1
                                  => IR'[g + 1].target = -1
    BY <1>0, <1>1, <1>8
  <2>3. CASE Exit(Left, v) \intersect L = {} /\ Exit(Left, v) \subseteq Exit(e, v)
    <3>1. \A g \in Exit(Left, v) \union abandoned :
            g \in 0 .. Len(IR) - 1 /\ IR[g + 1].target = -1 => IR'[g + 1].target = -1
      BY <1>0, <1>8, <1>9, <2>3
    <3>2. Exit(Left, v) \union abandoned \subseteq Exit(e, v) \union abandoned'
      BY <2>2, <2>3
    <3> HIDE DEF t, n
    <3> QED
      BY <1>8, <2>1, <2>2, <3>1, <3>2, StaysKept
  <2>4. CASE Exit(Left, v) = L /\ Exit(Top, v) \subseteq Exit(e, v)
    <3>1. Stays(IR, abandoned, v, t, n, Exit(Top, v))
      BY <1>0 DEF Answers
    <3>2. /\ \A g \in Exit(Top, v) \union abandoned :
               g \in 0 .. Len(IR) - 1 /\ IR[g + 1].target = -1 => IR'[g + 1].target = -1
          /\ Exit(Top, v) \union abandoned \subseteq Exit(e, v) \union abandoned'
      <4>1. Exit(Top, v) \intersect L = {}
        BY <1>1 DEF Exit, Lists
      <4> QED
        BY <1>0, <1>8, <1>9, <2>2, <2>4, <4>1
    <3>3. \A g \in L : g \in 0 .. Len(IR) - 1 => IR'[g + 1].target = t
      BY <1>0, <1>9
    <3> HIDE DEF t, n
    <3>4. Stays(IR', abandoned', v, t, n, Exit(e, v))
      BY <1>8, <2>2, <3>1, <3>2, StaysKept
    <3>5. Stays(IR, abandoned, v, s, t, L)
      BY <2>1, <2>4
    <3> QED
      BY <1>8, <2>1, <2>2, <3>3, <3>4, <3>5, StaysThen
  <2> QED
    BY <1>10, <2>3, <2>4
<1>11. Answers(IR', abandoned', e, nextinstr')
  BY <1>5, <1>10 DEF Answers
<1>12. \A l \in Lists(e) : IR'[l + 1].cond # {} => IR'[l + 1].target = -1
  <2>1. ASSUME NEW l \in Lists(e), IR'[l + 1].cond # {} PROVE IR'[l + 1].target = -1
    <3>1. l \in 0 .. n - 1 /\ l \notin L
      BY <1>1
    <3>2. IR[l + 1].cond # {}
      BY <1>3, <2>1, <3>1 DEF Lines
    <3>3. ItemSettled(IR, abandoned, stack, Depth, End(Depth))
          /\ ItemSettled(IR, abandoned, stack, Depth - 2, End(Depth - 2))
      <4>1. Settled /\ Depth \in 1 .. Depth /\ Depth - 2 \in 1 .. Depth
        BY <1>0 DEF Decisive
      <4> QED
        BY <4>1 DEF Settled
    <3>4. l \in Lists(stack[Depth]) \/ l \in Lists(stack[Depth - 2])
      BY DEF Top, Left
    <3>5. IR[l + 1].target = -1
      BY <3>2, <3>3, <3>4 DEF ItemSettled
    <3> QED
      BY <1>9, <3>1, <3>5
  <2> QED
    BY <2>1
<1>13. ItemSettled(IR', abandoned', stack', q, nextinstr')
  <2>1. stack'[q] = e /\ stack'[q - 1] = stack[Depth - 3]
    BY <1>4, <1>6
  <2>2. Placed(e.k, stack[Depth - 3].k)
    BY <1>0 DEF Placed, Bodies
  <2> QED
    BY <1>0, <1>11, <1>12, <2>1, <2>2 DEF ItemSettled
<1>14. stack'[q].quad \in Int /\ stack'[q].quad >= End(q - 1)
  <2>1. End(q - 1) = stack[q].quad
    BY <1>6 DEF End
  <2> QED
    BY <1>1, <1>4, <2>1 DEF Left
<1>15. Len(stack') # q - 1 /\ stack'[q].k \notin Openers
  BY <1>4, <1>6, Kinds
<1>16. \A d \in E : \A v \in Valuations : Arrives(IR', abandoned', d, v)
  OBVIOUS
<1> HIDE DEF q, t, E, z
<1> QED
  BY <1>7, <1>13, <1>14, <1>15, <1>16, DecisiveStep

\* OR, AND and NOT.
LEMMA ReduceSettled ==
    ASSUME Healthy, Decisive, Tight', ReduceOr \/ ReduceAnd \/ ReduceNot
    PROVE  Decisive'
<1>0. Sound /\ ~error_reported
  BY TopSettled
<1>1. ASSUME ReduceOr PROVE Decisive'
  <2> DEFINE e == [Left EXCEPT !.false_list = Top.false_list,
                               !.true_list = mergeList(Left.true_list, Top.true_list),
                               !.truth = Left.truth \union Top.truth]
  <2>1. /\ HasOperand("or") /\ "or" \in Openers /\ IR' = backpatch(IR, Left.false_list, Under.quad)
        /\ Replace(3, e)
        /\ UNCHANGED <<error_reported, decided, functions, abandoned, workload>>
    BY <1>1 DEF ReduceOr, Openers
  <2>2. Left \in ItemType /\ Top \in ItemType /\ Left.k = "expr" /\ Depth > 2
    BY <1>0, <2>1, OperandOnTop
  <2>3. /\ e.false_list = Top.false_list /\ e.true_list = Left.true_list \union Top.true_list
        /\ e.truth = Left.truth \union Top.truth
        /\ e.quad = Left.quad /\ e.start = Left.start /\ e.k = "expr"
    BY <2>2 DEF ItemType, mergeList
  <2>4. e \in ItemType
    BY <2>2 DEF ItemType, mergeList
  <2> HIDE DEF e
  <2>5. /\ Left.true_list \intersect Left.false_list = {}
        /\ Lists(Left) \intersect Lists(Top) = {}
    BY <2>2, OwnedOnTop
  <2>6. Lists(e) \subseteq (Lists(Left) \union Lists(Top)) \ Left.false_list
    BY <2>3, <2>5 DEF Lists
  <2>7. ASSUME NEW v \in Valuations
        PROVE  \/ /\ Exit(Left, v) \intersect Left.false_list = {}
                  /\ Exit(Left, v) \subseteq Exit(e, v)
               \/ Exit(Left, v) = Left.false_list /\ Exit(Top, v) \subseteq Exit(e, v)
    BY <2>3, <2>5 DEF Exit
  <2> QED
    BY <2>1, <2>3, <2>4, <2>6, <2>7, JunctionSettled
<1>2. ASSUME ReduceAnd PROVE Decisive'
  <2> DEFINE e == [Left EXCEPT !.true_list = Top.true_list,
                               !.false_list = mergeList(Left.false_list, Top.false_list),
                               !.truth = Left.truth \intersect Top.truth]
  <2>1. /\ HasOperand("and") /\ "and" \in Openers /\ IR' = backpatch(IR, Left.true_list, Under.quad)
        /\ Replace(3, e)
        /\ UNCHANGED <<error_reported, decided, functions, abandoned, workload>>
    BY <1>2 DEF ReduceAnd, Openers
  <2>2. Left \in ItemType /\ Top \in ItemType /\ Left.k = "expr" /\ Depth > 2
    BY <1>0, <2>1, OperandOnTop
  <2>3. /\ e.true_list = Top.true_list /\ e.false_list = Left.false_list \union Top.false_list
        /\ e.truth = Left.truth \intersect Top.truth
        /\ e.quad = Left.quad /\ e.start = Left.start /\ e.k = "expr"
    BY <2>2 DEF ItemType, mergeList
  <2>4. e \in ItemType
    BY <2>2 DEF ItemType, mergeList
  <2> HIDE DEF e
  <2>5. /\ Left.true_list \intersect Left.false_list = {}
        /\ Lists(Left) \intersect Lists(Top) = {}
    BY <2>2, OwnedOnTop
  <2>6. Lists(e) \subseteq (Lists(Left) \union Lists(Top)) \ Left.true_list
    BY <2>3, <2>5 DEF Lists
  <2>7. ASSUME NEW v \in Valuations
        PROVE  \/ /\ Exit(Left, v) \intersect Left.true_list = {}
                  /\ Exit(Left, v) \subseteq Exit(e, v)
               \/ Exit(Left, v) = Left.true_list /\ Exit(Top, v) \subseteq Exit(e, v)
    BY <2>3, <2>5 DEF Exit
  <2> QED
    BY <2>1, <2>3, <2>4, <2>6, <2>7, JunctionSettled
<1>3. ASSUME ReduceNot PROVE Decisive'
  <2> DEFINE e == [Top EXCEPT !.true_list = Top.false_list, !.false_list = Top.true_list,
                              !.truth = Valuations \ Top.truth]
             q == Depth - 1
             E == {}
             z == 0
  <2>1. /\ HasOperand("not") /\ "not" \in Openers /\ Replace(2, e)
        /\ UNCHANGED <<IR, error_reported, decided, functions, abandoned, workload>>
    BY <1>3 DEF ReduceNot, Openers
  <2>2. /\ Top \in ItemType /\ Top.k = "expr" /\ Depth > 2 /\ Depth \in Nat
        /\ Top = stack[Depth] /\ Under = stack[Depth - 1]
    BY <1>0, <2>1, OperandOnTop
  <2>3. /\ e.true_list = Top.false_list /\ e.false_list = Top.true_list
        /\ e.truth = Valuations \ Top.truth
        /\ e.quad = Top.quad /\ e.start = Top.start /\ e.k = "expr"
    BY <2>2 DEF ItemType
  <2>4. e \in ItemType
    BY <2>2 DEF ItemType
  <2> HIDE DEF e
  <2>5. /\ Answers(IR, abandoned, Top, nextinstr) /\ Top.quad = Under.quad
        /\ stack[Depth - 2].k \in Openers /\ Under.quad = stack[Depth - 2].quad
    <3>1. /\ Answers(IR, abandoned, Top, nextinstr) /\ Top.quad = Under.quad
          /\ Placed("not", stack[Depth - 2].k)
          /\ stack[Depth - 2].k \in Openers => Under.quad = stack[Depth - 2].quad
      BY <2>1, OperandSettled
    <3> QED
      BY <3>1 DEF Placed
  <2>6. Lines(IR', E, z, E, z) /\ nextinstr' = nextinstr
    BY <1>0, <2>1, LinesSame DEF Sound, nextinstr
  <2>7. /\ Len(stack') = q /\ stack'[q] = e /\ \A p \in 1 .. q - 1 : stack'[p] = stack[p]
    <3>1. 2 \in 0 .. Depth /\ Depth - 2 + 1 = q /\ Depth - 2 = q - 1
      BY <2>2
    <3> QED
      BY <1>0, <2>1, <2>4, <3>1, StackItems, StackTyped
  <2>8. q \in 2 .. Depth + 1 /\ q - 1 = Depth - 2 /\ q - 1 \in 1 .. q - 1 /\ q > 1
        /\ q - 1 + 1 = q /\ q - 1 # Depth /\ q \in 1 .. Depth
    BY <2>2
  <2>9. Shifts(q, E, z, E, z, E)
    BY <1>0, <2>1, <2>6, <2>7, <2>8 DEF Shifts
  <2>10. Answers(IR', abandoned', e, nextinstr')
    <3>1. ASSUME NEW v \in Valuations PROVE Exit(e, v) = Exit(Top, v)
      BY <2>3 DEF Exit
    <3>2. IR' = IR /\ abandoned' = abandoned
      BY <2>1
    <3> QED
      BY <2>3, <2>5, <2>6, <3>1, <3>2 DEF Answers
  <2>11. ItemSettled(IR', abandoned', stack', q, nextinstr')
    <3>1. stack'[q] = e /\ stack'[q - 1] = stack[Depth - 2]
      BY <2>7, <2>8
    <3>2. Placed(e.k, stack[Depth - 2].k)
      BY <2>3, <2>5 DEF Placed, Bodies
    <3>3. \A l \in Lists(e) : IR'[l + 1].cond # {} => IR'[l + 1].target = -1
      <4>1. ItemSettled(IR, abandoned, stack, Depth, nextinstr)
        BY TopSettled
      <4>2. \A l \in Lists(Top) : IR[l + 1].cond # {} => IR[l + 1].target = -1
        BY <2>2, <4>1 DEF ItemSettled
      <4> QED
        BY <2>1, <2>3, <4>2 DEF Lists
    <3> QED
      BY <2>3, <2>5, <2>10, <3>1, <3>2, <3>3 DEF ItemSettled
  <2>12. stack'[q].quad \in Int /\ stack'[q].quad >= End(q - 1)
    <3>1. End(q - 1) = stack[q].quad
      BY <2>8 DEF End
    <3>2. stack[q].quad \in Nat
      BY <2>8, EndTyped
    <3> QED
      BY <2>2, <2>3, <2>5, <2>7, <3>1, <3>2
  <2>13. Len(stack') # q - 1 /\ stack'[q].k \notin Openers
    BY <2>3, <2>7, <2>8, Kinds
  <2>14. \A d \in E : \A v \in Valuations : Arrives(IR', abandoned', d, v)
    OBVIOUS
  <2> HIDE DEF q, E, z
  <2> QED
    BY <2>9, <2>11, <2>12, <2>13, <2>14, DecisiveStep
<1> QED
  BY <1>1, <1>2, <1>3

-----------------------------------------------------------------------------
(* Statements                                                              *)

\* A completed expression is a test: its true list leads to t, its false list
\* to u.
LEMMA ExpressionTest ==
    ASSUME Healthy, Decisive, NEW q, NEW t \in Int, NEW u \in Int, NEW new,
           Shifts(q, Top.true_list, t, Top.false_list, u, new), Top.k = "expr",
           nextinstr <= t, t <= nextinstr', nextinstr <= u, u <= nextinstr',
           NEW v \in Valuations
    PROVE  Arrives(IR', abandoned', Test(Top.start, Top.truth, t, u), v)
<1> DEFINE n == nextinstr
           s == Top.start
           T == Top.true_list
           F == Top.false_list
           d == Test(s, Top.truth, t, u)
<1>0. /\ n \in Nat /\ s \in Nat /\ s <= n /\ n = Len(IR) /\ nextinstr' = Len(IR')
      /\ Len(IR') \in Nat /\ n <= Len(IR')
      /\ Kept(IR, IR') /\ abandoned \subseteq abandoned'
      /\ \A g \in abandoned : IR'[g + 1].target = -1
  <2>1. Kept(IR, IR') /\ \A g \in abandoned : IR'[g + 1].target = -1
    BY StepKeeps
  <2>2. Depth \in 1 .. Depth /\ Top = stack[Depth] /\ n \in Nat
    BY TopSettled
  <2>3. s \in Nat /\ s <= n
    BY <2>2, EndTyped
  <2> QED
    BY <2>1, <2>2, <2>3 DEF Shifts, Kept, nextinstr
<1>1. Stays(IR, abandoned, v, s, n, Exit(Top, v))
  <2>1. ItemSettled(IR, abandoned, stack, Depth, n) /\ Top = stack[Depth]
    BY TopSettled
  <2> QED
    BY <2>1 DEF ItemSettled, Answers
<1>2. /\ \A g \in T : g \in 0 .. Len(IR) - 1 => IR'[g + 1].target = t
      /\ T \intersect F = {} => \A g \in F : g \in 0 .. Len(IR) - 1 => IR'[g + 1].target = u
  BY <1>0 DEF Shifts, Lines
<1>3. T \intersect F = {}
  BY OwnedOnTop
<1>4. /\ d.start = s /\ d.yes = t /\ d.no = u
      /\ Goal(d, v) = IF v \in Top.truth THEN t ELSE u
      /\ Exit(Top, v) = IF v \in Top.truth THEN T ELSE F
  BY DEF Test, Goal, Exit
<1> HIDE DEF d, s, T, F
<1>5. ASSUME NEW list, NEW x \in {t, u}, Stays(IR, abandoned, v, s, n, list),
             \A g \in list : g \in 0 .. Len(IR) - 1 => IR'[g + 1].target = x
      PROVE  Leads(IR', v, s, n, x) \/ Stays(IR', abandoned', v, s, n, {})
  <2>1. /\ x \in Nat /\ x \in Int /\ n <= x /\ s \in Int /\ n \in Int /\ n <= n
        /\ \A g \in abandoned : g \in 0 .. Len(IR) - 1 /\ IR[g + 1].target = -1
                                  => IR'[g + 1].target = -1
    BY <1>0
  <2> HIDE DEF n
  <2>2. Leads(IR', v, x, n, x)
    BY <2>1, Here
  <2> QED
    BY <1>0, <1>5, <2>1, <2>2, StaysPatched
<1>6. Leads(IR', v, s, n, Goal(d, v)) \/ Stays(IR', abandoned', v, s, n, {})
  <2>1. CASE v \in Top.truth
    BY <1>1, <1>2, <1>4, <1>5, <2>1
  <2>2. CASE v \notin Top.truth
    BY <1>1, <1>2, <1>3, <1>4, <1>5, <2>2
  <2> QED
    BY <2>1, <2>2
<1>7. s \in 0 .. Len(IR') /\ n \in 0 .. Len(IR') /\ {d.yes, d.no} \subseteq n .. Len(IR')
  BY <1>0, <1>4
<1>8. Arrives(IR', abandoned', d, v)
  BY <1>0, <1>4, <1>6, <1>7 DEF Arrives
<1> QED
  BY <1>8 DEF d, s

\* The lines of a Boolean value that is stored.
LEMMA StoredLines ==
    ASSUME Healthy, NEW op \in {"assign", "param"}, Room(3), NEW e,
           e.true_list \intersect e.false_list = {}, e.false_list \subseteq 0 .. nextinstr - 1
    PROVE  /\ Stored(e, op) \in Seq(InstructionType) /\ Len(Stored(e, op)) = nextinstr + 3
           /\ Lines(Stored(e, op), e.true_list, nextinstr, e.false_list, nextinstr + 2)
           /\ \A v \in Valuations : /\ After(Stored(e, op), nextinstr, v) = nextinstr + 1
                                    /\ After(Stored(e, op), nextinstr + 1, v) = nextinstr + 3
                                    /\ After(Stored(e, op), nextinstr + 2, v) = nextinstr + 3
<1> DEFINE n == nextinstr
           T == e.true_list
           F == e.false_list
           c1 == backpatch(IR, T, n)
           c2 == Emit(c1, Plain(op))
           c3 == Emit(c2, GotoIR)
           c4 == backpatch(c3, F, n + 2)
           c5 == Emit(c4, Plain(op))
           d == backpatch(c5, {n + 1}, n + 3)
<1>0. /\ TypeOK /\ ~error_reported /\ n \in Nat /\ n = Len(IR) /\ IR \in Seq(InstructionType)
      /\ n \in LineNumbers /\ n + 2 \in LineNumbers /\ n + 3 \in LineNumbers
      /\ n + 0 = n
      /\ Plain(op) \in InstructionType /\ GotoIR \in InstructionType /\ Plain(op).op = op
  <2>1. Sound /\ TypeOK /\ ~error_reported /\ 3 \in Nat
    BY DEF Healthy, Sound
  <2>2. /\ n \in Nat /\ IR \in Seq(InstructionType) /\ n = Len(IR)
    BY <2>1, SizeFacts DEF nextinstr
  <2>3. /\ n \in LineNumbers /\ n + 2 \in LineNumbers /\ n + 3 \in LineNumbers
    BY <2>1, RoomFor
  <2>4. Plain(op) \in InstructionType /\ GotoIR \in InstructionType
    BY <2>1, InstructionTyped
  <2>5. Plain(op).op = op
    BY DEF Plain, Instruction
  <2>6. n + 0 = n
    BY <2>2
  <2> QED
    BY <2>1, <2>2, <2>3, <2>4, <2>5, <2>6
<1>1. /\ c1 \in Seq(InstructionType) /\ Len(c1) = n /\ Lines(c1, T, n, {}, 0)
  BY <1>0, PatchLine, LinesFirst
<1>2. Stored(e, op) = d
  <2> HIDE DEF c1
  <2>1. EmitAll(c1, <<Plain(op), GotoIR>>) = c3
    BY <1>0, <1>1, EmitEach
  <2> HIDE DEF c3
  <2> QED
    BY <2>1 DEF Stored, makeList, c1
<1>11. T \intersect F = {} /\ F \subseteq 0 .. nextinstr - 1
  OBVIOUS
<1> HIDE DEF n, c1, T, F
<1>3. /\ c2 \in Seq(InstructionType) /\ Len(c2) = n + 1 /\ c2[n + 1] = Plain(op)
      /\ \A j \in 0 .. n - 1 : c2[j + 1] = c1[j + 1]
  <2>1. /\ c2 \in Seq(InstructionType) /\ Len(c2) = Len(c1) + 1 /\ c2[Len(c1) + 1] = Plain(op)
        /\ \A j \in 0 .. Len(c1) - 1 : c2[j + 1] = c1[j + 1]
    BY <1>0, <1>1, EmitLine
  <2> QED
    BY <1>1, <2>1
<1> HIDE DEF c2
<1>4. /\ c3 \in Seq(InstructionType) /\ Len(c3) = n + 2 /\ c3[n + 2] = GotoIR
      /\ \A j \in 0 .. n : c3[j + 1] = c2[j + 1]
  <2>1. /\ c3 \in Seq(InstructionType) /\ Len(c3) = Len(c2) + 1 /\ c3[Len(c2) + 1] = GotoIR
        /\ \A j \in 0 .. Len(c2) - 1 : c3[j + 1] = c2[j + 1]
    BY <1>0, <1>3, EmitLine
  <2>2. Len(c2) + 1 = n + 2 /\ Len(c2) - 1 = n
    BY <1>0, <1>3
  <2> QED
    BY <2>1, <2>2
<1> HIDE DEF c3
<1>5. Lines(c3, T, n, {}, 0) /\ c3[n + 1] = Plain(op)
  <2>1. ASSUME NEW j \in 0 .. n - 1 PROVE c3[j + 1] = c1[j + 1]
    <3>1. j \in 0 .. n
      BY <1>0
    <3> QED
      BY <1>3, <1>4, <3>1
  <2>2. Len(c3) \in Nat /\ Len(c1) <= Len(c3) /\ n \in 0 .. n
    BY <1>0, <1>1, <1>4
  <2> QED
    BY <1>0, <1>1, <1>3, <1>4, <2>1, <2>2, LinesLater DEF n
<1>6. /\ c4 \in Seq(InstructionType) /\ Len(c4) = n + 2 /\ Lines(c4, T, n, F, n + 2)
      /\ c4[n + 1] = Plain(op) /\ c4[n + 2] = GotoIR
  <2> DEFINE u == n + 2
  <2>1. u \in LineNumbers
    BY <1>0
  <2>2. c4 = backpatch(c3, F, u) /\ n \in n .. Len(c3) - 1 /\ n + 1 \in n .. Len(c3) - 1
        /\ n + 1 + 1 = n + 2
    BY <1>0, <1>4
  <2> HIDE DEF u, c4
  <2>3. c4 \in Seq(InstructionType) /\ Len(c4) = Len(c3)
    BY <1>0, <1>4, <2>1, <2>2, PatchLine
  <2>4. /\ Lines(c4, T, n, F, u)
        /\ \A j \in n .. Len(c3) - 1 : c4[j + 1] = c3[j + 1]
    <3>1. Lines(c3, T, nextinstr, {}, 0) /\ c3 \in Seq(InstructionType)
      BY <1>4, <1>5 DEF n
    <3>2. Lines(c4, T, nextinstr, F, u)
      BY <1>0, <1>11, <2>1, <2>2, <3>1, LinesSecond
    <3>3. ASSUME NEW j \in n .. Len(c3) - 1 PROVE c4[j + 1] = c3[j + 1]
      <4>1. j \in 0 .. Len(c3) - 1 /\ j \notin F
        BY <1>0, <1>4, <1>11 DEF n
      <4> QED
        BY <1>0, <1>4, <2>1, <2>2, <4>1, PatchLine
    <3> QED
      BY <3>2, <3>3 DEF n
  <2> QED
    BY <1>4, <1>5, <2>2, <2>3, <2>4 DEF u
<1> HIDE DEF c4
<1>7. /\ c5 \in Seq(InstructionType) /\ Len(c5) = n + 3 /\ c5[n + 1] = Plain(op)
      /\ c5[n + 2] = GotoIR /\ c5[n + 3] = Plain(op)
      /\ \A j \in 0 .. n - 1 : c5[j + 1] = c4[j + 1]
  <2>1. /\ c5 \in Seq(InstructionType) /\ Len(c5) = Len(c4) + 1 /\ c5[Len(c4) + 1] = Plain(op)
        /\ \A j \in 0 .. Len(c4) - 1 : c5[j + 1] = c4[j + 1]
    BY <1>0, <1>6, EmitLine
  <2>2. /\ Len(c4) + 1 = n + 3 /\ n \in 0 .. Len(c4) - 1 /\ n + 1 \in 0 .. Len(c4) - 1
        /\ n + 1 + 1 = n + 2 /\ \A j \in 0 .. n - 1 : j \in 0 .. Len(c4) - 1
    BY <1>0, <1>6
  <2> QED
    BY <1>6, <2>1, <2>2
<1> HIDE DEF c5
<1>8. /\ d \in Seq(InstructionType) /\ Len(d) = n + 3 /\ d[n + 1] = Plain(op)
      /\ d[n + 3] = Plain(op)
      /\ d[n + 2].op = "goto" /\ d[n + 2].cond = Valuations /\ d[n + 2].target = n + 3
      /\ \A j \in 0 .. n - 1 : d[j + 1] = c4[j + 1]
  <2>1. /\ d \in Seq(InstructionType) /\ Len(d) = Len(c5)
        /\ \A j \in 0 .. Len(c5) - 1 :
             /\ j \notin {n + 1} => d[j + 1] = c5[j + 1]
             /\ d[j + 1].op = c5[j + 1].op /\ d[j + 1].cond = c5[j + 1].cond
             /\ j \in {n + 1} => d[j + 1].target = n + 3
    <3> DEFINE list == {n + 1}
               u == n + 3
    <3>1. u \in LineNumbers /\ d = backpatch(c5, list, u)
      BY <1>0
    <3> HIDE DEF list, u, d
    <3>2. /\ d \in Seq(InstructionType) /\ Len(d) = Len(c5)
          /\ \A j \in 0 .. Len(c5) - 1 :
               /\ j \notin list => d[j + 1] = c5[j + 1]
               /\ d[j + 1].op = c5[j + 1].op /\ d[j + 1].cond = c5[j + 1].cond
               /\ j \in list => d[j + 1].target = u
      BY <1>0, <1>7, <3>1, PatchLine
    <3> QED
      BY <3>2 DEF list, u
  <2>2. /\ n \in 0 .. Len(c5) - 1 /\ n \notin {n + 1} /\ n + 1 \in 0 .. Len(c5) - 1
        /\ n + 1 + 1 = n + 2 /\ n + 2 \in 0 .. Len(c5) - 1 /\ n + 2 \notin {n + 1}
        /\ n + 2 + 1 = n + 3
        /\ \A j \in 0 .. n - 1 : j \in 0 .. Len(c5) - 1 /\ j \notin {n + 1}
    BY <1>0, <1>7
  <2>3. GotoIR.op = "goto" /\ GotoIR.cond = Valuations
    BY DEF GotoIR, Instruction
  <2> HIDE DEF d
  <2> QED
    BY <1>7, <2>1, <2>2, <2>3
<1> HIDE DEF d
<1>9. Lines(d, T, n, F, n + 2)
  <2>1. Len(d) \in Nat /\ Len(c4) <= Len(d)
    BY <1>0, <1>6, <1>8
  <2> QED
    BY <1>0, <1>6, <1>8, <2>1, LinesLater DEF n
<1>10. ASSUME NEW v \in Valuations
       PROVE  /\ After(d, n, v) = n + 1 /\ After(d, n + 1, v) = n + 3
              /\ After(d, n + 2, v) = n + 3
  <2>1. After(d, n, v) = n + 1
    BY <1>8, AtPlain
  <2>2. n + 1 + 1 = n + 2 /\ n + 3 # -1 /\ n + 2 + 1 = n + 3
    BY <1>0
  <2>3. After(d, n + 2, v) = n + 2 + 1
    <3>1. d[n + 2 + 1] = Plain(op) /\ op # "return"
      BY <1>8, <2>2
    <3> QED
      BY <3>1, AtPlain
  <2> QED
    BY <1>8, <2>1, <2>2, <2>3 DEF After
<1> QED
  BY <1>2, <1>8, <1>9, <1>10 DEF n, T, F

\* The instruction for true does not run into the one for false.
LEMMA StoredArrives ==
    ASSUME NEW c, NEW n \in Nat, Len(c) \in Nat, n + 3 <= Len(c), NEW v \in Valuations,
           After(c, n, v) = n + 1, After(c, n + 1, v) = n + 3, NEW ab
    PROVE  Arrives(c, ab, Test(n, Valuations, n + 3, n + 2), v)
<1> DEFINE d == Test(n, Valuations, n + 3, n + 2)
           x == n + 1
           y == n + 3
           m == n + 2
<1>1. /\ n \in 0 .. Len(c) - 1 /\ x \in 0 .. Len(c) - 1 /\ y \in Int /\ m \in Int /\ x \in Int
      /\ n < x /\ x < y /\ n < m /\ x < m
      /\ n \in 0 .. Len(c) /\ m \in 0 .. Len(c) /\ n <= m
      /\ y \in m .. Len(c) /\ m \in m .. Len(c)
  OBVIOUS
<1>2. d.start = n /\ d.yes = y /\ d.no = m /\ Goal(d, v) = y
  BY DEF Test, Goal
<1>3. After(c, n, v) = x /\ After(c, x, v) = y
  OBVIOUS
<1> HIDE DEF d, x, y, m
<1>4. Leads(c, v, y, m, y)
  BY <1>1, Here
<1>5. Leads(c, v, x, m, y)
  BY <1>1, <1>3, <1>4, Forward
<1>6. Leads(c, v, n, m, y)
  BY <1>1, <1>3, <1>5, Forward
<1>7. Arrives(c, ab, d, v)
  BY <1>1, <1>2, <1>6 DEF Arrives
<1> QED
  BY <1>7 DEF d, y, m

\* A statement consumes its expression.
LEMMA ConsumedSettled ==
    ASSUME Healthy, Decisive, Tight', NEW o \in {"assign", "return"}, HasOperand(o), Pop(2),
           UNCHANGED <<error_reported, abandoned>>, NEW t \in Int, NEW u \in Int,
           nextinstr <= t, t <= nextinstr', nextinstr <= u, u <= nextinstr',
           Lines(IR', Top.true_list, t, Top.false_list, u), NEW more,
           decided' = decided \union ({Test(Top.start, Top.truth, t, u)} \union more),
           \A d \in more : \A v \in Valuations : Arrives(IR', abandoned', d, v)
    PROVE  Decisive'
<1> DEFINE q == Depth - 1
           new == {Test(Top.start, Top.truth, t, u)} \union more
           T == Top.true_list
           F == Top.false_list
<1>0. /\ ~error_reported /\ Depth \in Nat /\ Depth > 2 /\ o \in Openers /\ Top.k = "expr"
      /\ Placed(o, stack[Depth - 2].k)
  <2>1. o \in Openers
    BY DEF Openers
  <2> QED
    BY <2>1, TopSettled, OperandSettled DEF HasOperand
<1>1. Len(stack') = q - 1 /\ \A p \in 1 .. q - 1 : stack'[p] = stack[p]
  <2>1. 2 \in 0 .. Depth /\ Depth - 2 + 1 - 1 = q - 1
    BY <1>0
  <2> QED
    BY <2>1, PopMoves
<1>2. q \in 2 .. Depth + 1 /\ q - 1 = Depth - 2
  BY <1>0
<1>3. T \union F \subseteq Owned(stack, q, Depth)
  BY <1>0, OwnedOnTop DEF Lists
<1>4. Shifts(q, T, t, F, u, new)
  BY <1>0, <1>1, <1>2, <1>3 DEF Shifts
<1>5. Len(stack') # q /\ stack[q - 1].k \in Bodies
  BY <1>0, <1>1, <1>2 DEF Placed
<1>6. \A d \in new : \A v \in Valuations : Arrives(IR', abandoned', d, v)
  <2>1. Shifts(q, Top.true_list, t, Top.false_list, u, new)
    BY <1>4
  <2> HIDE DEF q, new
  <2>2. ASSUME NEW v \in Valuations
        PROVE  Arrives(IR', abandoned', Test(Top.start, Top.truth, t, u), v)
    BY <1>0, <2>1, ExpressionTest
  <2> QED
    BY <2>2 DEF new
<1> HIDE DEF q, new, T, F
<1> QED
  BY <1>4, <1>5, <1>6, DecisiveStep

\* x := e and RETURN e for a Boolean e.
LEMMA ConsumersSettled ==
    ASSUME Healthy, Decisive, Tight', Assign \/ Return
    PROVE  Decisive'
<1> DEFINE n == nextinstr
           T == Top.true_list
           F == Top.false_list
           e == Top
<1>0. /\ TypeOK /\ Sound /\ ~error_reported /\ n \in Nat /\ n = Len(IR)
      /\ IR \in Seq(InstructionType)
  BY TopSettled
<1>1. T \intersect F = {} /\ F \subseteq 0 .. n - 1
  <2>1. Base \in Nat /\ Lists(Top) \subseteq Base .. n - 1
    BY HealthyFacts, OwnedOnTop
  <2>2. F \subseteq Lists(Top)
    BY DEF Lists
  <2>3. Base .. n - 1 \subseteq 0 .. n - 1
    BY <1>0, <2>1
  <2> QED
    BY <2>1, <2>2, <2>3, OwnedOnTop
<1>2. ASSUME Assign PROVE Decisive'
  <2> DEFINE d == Stored(e, "assign")
             u == n + 2
             more == {Test(n, Valuations, n + 3, u)}
  <2>1. /\ HasOperand("assign") /\ Room(3) /\ IR' = d /\ Pop(2)
        /\ UNCHANGED <<error_reported, abandoned>>
        /\ decided' = decided \union ({Test(Top.start, Top.truth, n, u)} \union more)
    BY <1>0, <1>2 DEF Assign, Decide, StoredTests
  <2>2. /\ e.true_list \intersect e.false_list = {}
        /\ e.false_list \subseteq 0 .. nextinstr - 1
    BY <1>1
  <2> HIDE DEF e, T, F
  <2>3. /\ d \in Seq(InstructionType) /\ Len(d) = nextinstr + 3
        /\ Lines(d, e.true_list, nextinstr, e.false_list, nextinstr + 2)
        /\ \A v \in Valuations : /\ After(d, nextinstr, v) = nextinstr + 1
                                 /\ After(d, nextinstr + 1, v) = nextinstr + 3
    BY <2>1, <2>2, StoredLines
  <2> HIDE DEF d
  <2>4. /\ nextinstr' = n + 3 /\ n \in Int /\ u \in Int /\ n <= n /\ n <= nextinstr'
        /\ n <= u /\ u <= nextinstr' /\ n + 3 <= Len(IR') /\ Len(IR') \in Nat
    BY <1>0, <2>1, <2>3 DEF nextinstr
  <2>5. \A t \in more : \A v \in Valuations : Arrives(IR', abandoned', t, v)
    <3>1. ASSUME NEW v \in Valuations
          PROVE  Arrives(IR', abandoned', Test(n, Valuations, n + 3, n + 2), v)
      BY <1>0, <2>1, <2>3, <2>4, StoredArrives
    <3> QED
      BY <3>1
  <2>6. Lines(IR', Top.true_list, n, Top.false_list, u)
    BY <2>1, <2>3 DEF e
  <2> HIDE DEF n, u, more
  <2> QED
    BY <2>1, <2>4, <2>5, <2>6, ConsumedSettled DEF n
<1>3. ASSUME Return PROVE Decisive'
  <2> DEFINE c1 == backpatch(IR, T, n)
             c2 == Emit(c1, Plain("return"))
             u == n + 1
             c3 == backpatch(c2, F, u)
             c4 == Emit(c3, Plain("return"))
             more == {}
  <2>1. /\ HasOperand("return") /\ Room(2) /\ IR' = c4 /\ Pop(2)
        /\ UNCHANGED <<error_reported, abandoned>>
        /\ decided' = decided \union ({Test(Top.start, Top.truth, n, u)} \union more)
    BY <1>0, <1>3 DEF Return, Decide
  <2>2. n \in LineNumbers /\ u \in LineNumbers /\ Plain("return") \in InstructionType
    <3>1. n + 2 <= IR_ARRAY_SIZE /\ IR_ARRAY_SIZE \in Nat
      BY <1>0, <2>1, SizeFacts DEF Room
    <3>2. n \in LineNumbers /\ u \in LineNumbers
      BY <1>0, <3>1 DEF LineNumbers
    <3> QED
      BY <1>0, <3>2, InstructionTyped
  <2> HIDE DEF T, F, n
  <2>3. /\ c1 \in Seq(InstructionType) /\ Len(c1) = n /\ Lines(c1, T, n, {}, 0)
    BY <1>0, <2>2, PatchLine, LinesFirst DEF n
  <2> HIDE DEF c1
  <2>4. /\ c2 \in Seq(InstructionType) /\ Len(c2) = n + 1
        /\ \A j \in 0 .. n - 1 : c2[j + 1] = c1[j + 1]
    <3>1. /\ c2 \in Seq(InstructionType) /\ Len(c2) = Len(c1) + 1
          /\ \A j \in 0 .. Len(c1) - 1 : c2[j + 1] = c1[j + 1]
      BY <1>0, <2>2, <2>3, EmitLine
    <3> QED
      BY <2>3, <3>1
  <2> HIDE DEF c2
  <2>5. Lines(c2, T, n, {}, 0)
    <3>1. Len(c2) \in Nat /\ Len(c1) <= Len(c2)
      BY <1>0, <2>3, <2>4
    <3> QED
      BY <1>0, <2>3, <2>4, <3>1, LinesLater DEF n
  <2> HIDE DEF u
  <2>6. c3 \in Seq(InstructionType) /\ Len(c3) = n + 1 /\ Lines(c3, T, n, F, u)
    <3>1. c3 \in Seq(InstructionType) /\ Len(c3) = Len(c2)
      BY <1>0, <2>2, <2>4, PatchLine
    <3>2. Lines(c3, T, n, F, u)
      BY <1>0, <1>1, <2>2, <2>4, <2>5, LinesSecond DEF n
    <3> QED
      BY <2>4, <3>1, <3>2
  <2> HIDE DEF c3
  <2>7. /\ c4 \in Seq(InstructionType) /\ Len(c4) = n + 2
        /\ \A j \in 0 .. n - 1 : c4[j + 1] = c3[j + 1]
    <3>1. /\ c4 \in Seq(InstructionType) /\ Len(c4) = Len(c3) + 1
          /\ \A j \in 0 .. Len(c3) - 1 : c4[j + 1] = c3[j + 1]
      BY <1>0, <2>2, <2>6, EmitLine
    <3>2. Len(c3) + 1 = n + 2 /\ \A j \in 0 .. n - 1 : j \in 0 .. Len(c3) - 1
      BY <1>0, <2>6
    <3> QED
      BY <3>1, <3>2
  <2> HIDE DEF c4
  <2>8. Lines(c4, T, n, F, u)
    <3>1. Len(c4) \in Nat /\ Len(c3) <= Len(c4)
      BY <1>0, <2>6, <2>7
    <3> QED
      BY <1>0, <2>6, <2>7, <3>1, LinesLater DEF n
  <2>9. /\ nextinstr' = n + 2 /\ n \in Int /\ u \in Int /\ n <= n /\ n <= nextinstr'
        /\ n <= u /\ u <= nextinstr'
    BY <1>0, <2>1, <2>7 DEF nextinstr, u
  <2>10. \A t \in more : \A v \in Valuations : Arrives(IR', abandoned', t, v)
    OBVIOUS
  <2>11. Lines(IR', Top.true_list, n, Top.false_list, u)
    BY <2>1, <2>8 DEF T, F
  <2> HIDE DEF more
  <2> QED
    BY <2>1, <2>9, <2>10, <2>11, ConsumedSettled DEF n
<1> QED
  BY <1>2, <1>3

\* Code is added in a body, with tests of its own.
LEMMA InBodySettled ==
    ASSUME Healthy, Decisive, Tight', InBody, UNCHANGED <<error_reported, stack, abandoned>>,
           Lines(IR', {}, 0, {}, 0), NEW new, decided' = decided \union new,
           \A d \in new : \A v \in Valuations : Arrives(IR', abandoned', d, v)
    PROVE  Decisive'
<1> DEFINE q == Depth + 1
           E == {}
           z == 0
<1>0. /\ ~error_reported /\ Depth \in Nat /\ Depth > 0 /\ Top = stack[Depth]
  BY TopSettled
<1>1. /\ q \in 2 .. Depth + 1 /\ q - 1 = Depth /\ Len(stack') = q - 1
      /\ \A p \in 1 .. q - 1 : stack'[p] = stack[p]
  BY <1>0 DEF Depth
<1>2. Shifts(q, E, z, E, z, new)
  BY <1>0, <1>1 DEF Shifts
<1>3. Len(stack') # q /\ stack[q - 1].k \in Bodies
  BY <1>0, <1>1 DEF InBody
<1> HIDE DEF q, E, z
<1> QED
  BY <1>2, <1>3, DecisiveStep

\* One instruction.
LEMMA SimpleSettled ==
    ASSUME Healthy, Decisive, Tight', NEW op \in {"assign", "return"}, Simple(op)
    PROVE  Decisive'
<1>0. /\ TypeOK /\ ~error_reported /\ nextinstr = Len(IR) /\ IR \in Seq(InstructionType)
  BY TopSettled
<1>1. /\ InBody /\ IR' = Emit(IR, Plain(op))
      /\ UNCHANGED <<error_reported, stack, decided, abandoned>>
  BY DEF Simple
<1>2. Plain(op) \in InstructionType
  BY <1>0, InstructionTyped
<1>3. /\ Len(IR') = Len(IR) + 1 /\ \A j \in 0 .. nextinstr - 1 : IR'[j + 1] = IR[j + 1]
  BY <1>0, <1>1, <1>2, EmitLine
<1>4. Lines(IR', {}, 0, {}, 0)
  <2>1. Lines(IR, {}, 0, {}, 0) /\ Len(IR') \in Nat /\ Len(IR) <= Len(IR')
    BY <1>0, <1>3, LinesSame
  <2> QED
    BY <1>0, <1>3, <2>1, LinesLater
<1> DEFINE new == {}
<1>5. decided' = decided \union new /\ \A d \in new : \A v \in Valuations :
                                         Arrives(IR', abandoned', d, v)
  BY <1>1
<1> HIDE DEF new
<1> QED
  BY <1>1, <1>4, <1>5, InBodySettled

\* Control that is one line before where it stays, stays there.
LEMMA StaysForward ==
    ASSUME NEW c, NEW ab, NEW v, NEW i \in 0 .. Len(c) - 1, NEW x \in Int, NEW m \in Int, NEW list,
           After(c, i, v) = x, i < x, x <= m, Stays(c, ab, v, x, m, list)
    PROVE  Stays(c, ab, v, i, m, list)
<1>1. PICK g \in x .. m - 1 :
        g \in list \union ab /\ Stuck(c, g, v) /\ Leads(c, v, x, m, g)
  BY DEF Stays
<1>2. g \in Int /\ i < m /\ g \in i .. m - 1
  BY <1>1
<1>3. Leads(c, v, i, m, g)
  BY <1>1, <1>2, Forward
<1> QED
  BY <1>1, <1>2, <1>3 DEF Stays

\* The result of a call with a Boolean argument: control gets to its test by
\* either of the two instructions that push the argument.
LEMMA ArgumentSettled ==
    ASSUME Healthy, Decisive, Tight', NEW a \in Atoms, EndArgument(a)
    PROVE  Decisive'
<1> DEFINE n == nextinstr
           cond == {v \in Valuations : a \in v}
           e == Top
           stored == Stored(e, "param")
           called == Emit(stored, Plain("call"))
           t == Len(called)
           i == [Item("expr") EXCEPT !.true_list = makeList(t), !.false_list = makeList(t + 1),
                                     !.truth = cond, !.start = t, !.quad = Under.quad]
           T == Top.true_list
           F == Top.false_list
           u == n + 2
           new == {Test(Top.start, Top.truth, n, u), Test(n, Valuations, n + 3, u)}
           q == Depth - 1
<1>0. /\ TypeOK /\ Sound /\ ~error_reported /\ n \in Nat /\ n = Len(IR)
      /\ IR \in Seq(InstructionType)
  BY TopSettled
<1>1. /\ HasOperand("argument") /\ Room(6) /\ IR' = TwoWay(called, cond) /\ Replace(2, i)
      /\ UNCHANGED <<error_reported, abandoned>> /\ decided' = decided \union new
  BY <1>0 DEF EndArgument, Decide, StoredTests
<1>2. /\ T \intersect F = {} /\ F \subseteq 0 .. n - 1 /\ T \union F = Lists(Top)
      /\ Top.quad \in Nat /\ Top.quad <= n
  <2>1. /\ Base \in Nat /\ Lists(Top) \subseteq Base .. n - 1 /\ T \intersect F = {}
        /\ Top.quad \in Base .. n
    BY HealthyFacts, OwnedOnTop
  <2>2. F \subseteq Lists(Top) /\ T \union F = Lists(Top)
    BY DEF Lists
  <2>3. Base .. n - 1 \subseteq 0 .. n - 1 /\ \A x \in Base .. n : x \in Nat /\ x <= n
    BY <1>0, <2>1
  <2> QED
    BY <2>1, <2>2, <2>3
<1>3. /\ Depth \in Nat /\ Depth > 2 /\ Top.k = "expr"
      /\ Answers(IR, abandoned, Top, n) /\ Top.quad = Under.quad
      /\ stack[Depth - 2].k \in Openers /\ Under.quad = stack[Depth - 2].quad
      /\ Under = stack[Depth - 1]
  <2>1. "argument" \in Openers
    BY DEF Openers
  <2>2. /\ Answers(IR, abandoned, Top, n) /\ Top.quad = Under.quad
        /\ Placed("argument", stack[Depth - 2].k)
        /\ stack[Depth - 2].k \in Openers => Under.quad = stack[Depth - 2].quad
    BY <1>1, <2>1, OperandSettled
  <2> QED
    BY <1>0, <1>1, <2>1, <2>2, OperandOnTop DEF Placed
<1>4. cond \in SUBSET Valuations
  OBVIOUS
<1>5. /\ \A m \in 0 .. 6 : n + m \in LineNumbers
      /\ Plain("call") \in InstructionType /\ Room(3)
  <2>1. n + 6 <= IR_ARRAY_SIZE /\ IR_ARRAY_SIZE \in Nat
    BY <1>0, <1>1, SizeFacts DEF Room
  <2>2. \A m \in 0 .. 6 : n + m \in LineNumbers
    BY <1>0, <2>1 DEF LineNumbers
  <2>3. Room(3)
    BY <1>0, <2>1 DEF Room
  <2> QED
    BY <1>0, <2>2, <2>3, InstructionTyped
<1>6. /\ stored \in Seq(InstructionType) /\ Len(stored) = n + 3 /\ Lines(stored, T, n, F, u)
      /\ \A v \in Valuations : /\ After(stored, n, v) = n + 1
                               /\ After(stored, n + 1, v) = n + 3
                               /\ After(stored, n + 2, v) = n + 3
  <2>1. /\ e.true_list \intersect e.false_list = {}
        /\ e.false_list \subseteq 0 .. nextinstr - 1
    BY <1>2
  <2>2. e.true_list = T /\ e.false_list = F /\ u = n + 2
    OBVIOUS
  <2> HIDE DEF e, T, F, u
  <2>3. /\ stored \in Seq(InstructionType) /\ Len(stored) = nextinstr + 3
        /\ Lines(stored, e.true_list, nextinstr, e.false_list, nextinstr + 2)
        /\ \A v \in Valuations : /\ After(stored, nextinstr, v) = nextinstr + 1
                                 /\ After(stored, nextinstr + 1, v) = nextinstr + 3
                                 /\ After(stored, nextinstr + 2, v) = nextinstr + 3
    BY <1>5, <2>1, StoredLines
  <2> HIDE DEF stored
  <2> QED
    BY <2>2, <2>3
<1> HIDE DEF stored, cond
<1>7. /\ called \in Seq(InstructionType) /\ t = n + 4 /\ called[n + 4] = Plain("call")
      /\ \A j \in 0 .. n + 2 : called[j + 1] = stored[j + 1]
  <2>1. /\ called \in Seq(InstructionType) /\ Len(called) = Len(stored) + 1
        /\ called[Len(stored) + 1] = Plain("call")
        /\ \A j \in 0 .. Len(stored) - 1 : called[j + 1] = stored[j + 1]
    BY <1>0, <1>5, <1>6, EmitLine
  <2>2. Len(stored) + 1 = n + 4 /\ Len(stored) - 1 = n + 2
    BY <1>0, <1>6
  <2> HIDE DEF called
  <2> QED
    BY <2>1, <2>2
<1> HIDE DEF called
<1>8. /\ Len(IR') = n + 6 /\ \A j \in 0 .. n + 3 : IR'[j + 1] = called[j + 1]
      /\ IR'[t + 1].target = -1 /\ IR'[t + 2].target = -1 /\ Len(IR') \in Nat
  <2>1. /\ Len(IR') = Len(called) + 2 /\ \A j \in 0 .. Len(called) - 1 : IR'[j + 1] = called[j + 1]
        /\ IR'[Len(called) + 1] = JumpIf(cond) /\ IR'[Len(called) + 2] = GotoIR
    BY <1>0, <1>1, <1>4, <1>7, TwoWayLines
  <2>2. Len(called) + 2 = n + 6 /\ Len(called) - 1 = n + 3 /\ n + 6 \in Nat
    BY <1>0, <1>7
  <2> QED
    BY <2>1, <2>2 DEF JumpIf, GotoIR, Instruction
<1>9. \A j \in 0 .. n + 2 : IR'[j + 1] = stored[j + 1]
  BY <1>0, <1>7, <1>8
<1>10. Lines(IR', T, n, F, u)
  <2>1. Len(stored) <= Len(IR') /\ \A j \in 0 .. n - 1 : IR'[j + 1] = stored[j + 1]
    <3>1. Len(stored) <= Len(IR')
      BY <1>0, <1>6, <1>8
    <3>2. ASSUME NEW j \in 0 .. n - 1 PROVE j \in 0 .. n + 2
      BY <1>0
    <3> QED
      BY <1>9, <3>1, <3>2
  <2> HIDE DEF u, T, F
  <2> QED
    BY <1>0, <1>6, <1>8, <2>1, LinesLater
<1>11. ASSUME NEW v \in Valuations
       PROVE  /\ After(IR', n, v) = n + 1 /\ After(IR', n + 1, v) = n + 3
              /\ After(IR', n + 2, v) = n + 3 /\ After(IR', n + 3, v) = n + 4
  <2>1. n \in 0 .. n + 2 /\ n + 1 \in 0 .. n + 2 /\ n + 2 \in 0 .. n + 2 /\ n + 3 \in 0 .. n + 3
        /\ n + 3 + 1 = n + 4
    BY <1>0
  <2>2. /\ After(IR', n, v) = After(stored, n, v)
        /\ After(IR', n + 1, v) = After(stored, n + 1, v)
        /\ After(IR', n + 2, v) = After(stored, n + 2, v)
    BY <1>9, <2>1 DEF After
  <2>3. IR'[n + 3 + 1] = Plain("call")
    BY <1>7, <1>8, <2>1
  <2>4. After(IR', n + 3, v) = n + 3 + 1
    BY <2>3, AtPlain
  <2> QED
    BY <1>6, <2>1, <2>2, <2>4
<1>12. /\ i \in ItemType /\ i.k = "expr" /\ i.true_list = {t} /\ i.false_list = {t + 1}
       /\ i.quad = Under.quad /\ i.start = t /\ i.truth = cond
  <2>1. Item("expr") \in ItemType /\ Item("expr").k = "expr"
    BY <1>0, ItemTyped, Kinds DEF Item
  <2>2. t \in LineNumbers /\ {t} \in SUBSET LineNumbers /\ {t + 1} \in SUBSET LineNumbers
        /\ Under.quad \in LineNumbers
    <3>1. n + 4 \in LineNumbers /\ n + 5 \in LineNumbers /\ t + 1 = n + 5
      BY <1>0, <1>5, <1>7
    <3>2. Under \in ItemType
      BY <1>0, <1>3, StackItems
    <3> QED
      BY <1>0, <1>7, <3>1, <3>2, StackItems
  <2> DEFINE f == Item("expr")
             S == {t}
             U == {t + 1}
  <2>3. i = [f EXCEPT !.true_list = S, !.false_list = U, !.truth = cond, !.start = t,
                      !.quad = Under.quad]
    BY DEF makeList
  <2>4. f \in ItemType /\ f.k = "expr" /\ S \in SUBSET LineNumbers /\ U \in SUBSET LineNumbers
    BY <2>1, <2>2
  <2> HIDE DEF i, f, t, S, U
  <2>5. /\ i \in ItemType /\ i.k = "expr" /\ i.true_list = S /\ i.false_list = U
        /\ i.quad = Under.quad /\ i.start = t /\ i.truth = cond
    BY <1>4, <2>2, <2>3, <2>4 DEF ItemType
  <2> QED
    BY <2>5 DEF S, U
<1> HIDE DEF i
<1>13. /\ Len(stack') = q /\ stack'[q] = i /\ \A p \in 1 .. q - 1 : stack'[p] = stack[p]
  <2>1. 2 \in 0 .. Depth /\ Depth - 2 + 1 = q /\ Depth - 2 = q - 1
    BY <1>3
  <2> QED
    BY <1>0, <1>1, <1>12, <2>1, StackItems, StackTyped
<1>14. /\ q \in 2 .. Depth + 1 /\ q - 1 = Depth - 2 /\ q - 1 \in 1 .. q - 1 /\ q > 1
       /\ q - 1 + 1 = q /\ q - 1 # Depth /\ q \in 1 .. Depth
  BY <1>3
<1>15. Shifts(q, T, n, F, u, new)
  <2>1. T \union F \subseteq Owned(stack, q, Depth)
    BY <1>2, <1>3, OwnedOnTop
  <2> QED
    BY <1>0, <1>1, <1>10, <1>13, <1>14, <2>1 DEF Shifts
<1>16. nextinstr' = n + 6 /\ n + 6 \in Nat
  BY <1>0, <1>8 DEF nextinstr
<1>17. ASSUME NEW v \in Valuations
       PROVE  /\ Stays(IR', abandoned', v, t, n + 6, Exit(i, v))
              /\ Stays(IR', abandoned', v, n, n + 6, Exit(i, v))
              /\ Stays(IR', abandoned', v, n + 2, n + 6, Exit(i, v))
  <2>1. (IF v \in cond THEN Len(called) ELSE Len(called) + 1) \in Exit(i, v) \union abandoned'
    BY <1>12 DEF Exit
  <2>2. Len(called) + 2 <= n + 6 /\ n + 6 \in Int
    BY <1>0, <1>7
  <2>3. Stays(IR', abandoned', v, t, n + 6, Exit(i, v))
    BY <1>0, <1>1, <1>4, <1>7, <2>1, <2>2, TwoWayStays
  <2> DEFINE m == n + 6
             n1 == n + 1
             n2 == n + 2
             n3 == n + 3
             n4 == n + 4
  <2>4. /\ n \in 0 .. Len(IR') - 1 /\ n1 \in 0 .. Len(IR') - 1 /\ n2 \in 0 .. Len(IR') - 1
        /\ n3 \in 0 .. Len(IR') - 1 /\ n4 \in Int /\ m \in Int
        /\ n < n1 /\ n1 < n3 /\ n2 < n3 /\ n3 < n4 /\ n1 <= m /\ n3 <= m /\ n4 <= m
        /\ n \in Int /\ n1 \in Int /\ n2 \in Int /\ n3 \in Int
    BY <1>0, <1>8
  <2>5. /\ After(IR', n, v) = n1 /\ After(IR', n1, v) = n3
        /\ After(IR', n2, v) = n3 /\ After(IR', n3, v) = n4
    BY <1>11
  <2>6. Stays(IR', abandoned', v, n4, m, Exit(i, v))
    BY <1>7, <2>3
  <2> HIDE DEF n, n1, n2, n3, n4, m
  <2>7. Stays(IR', abandoned', v, n3, m, Exit(i, v))
    BY <2>4, <2>5, <2>6, StaysForward
  <2>8. Stays(IR', abandoned', v, n2, m, Exit(i, v)) /\ Stays(IR', abandoned', v, n1, m, Exit(i, v))
    BY <2>4, <2>5, <2>7, StaysForward
  <2>9. Stays(IR', abandoned', v, n, m, Exit(i, v))
    BY <2>4, <2>5, <2>8, StaysForward
  <2> QED
    BY <2>3, <2>8, <2>9 DEF m, n2
<1>18. Kept(IR, IR') /\ \A g \in abandoned : IR'[g + 1].target = -1
  <2> HIDE DEF q, T, F, n, u, new
  <2> QED
    BY <1>15, StepKeeps
<1>19. ASSUME NEW v \in Valuations
       PROVE  Stays(IR', abandoned', v, Under.quad, n + 6, Exit(i, v))
  <2> DEFINE s == Top.quad
             m == n + 6
  <2>1. Stays(IR, abandoned, v, s, n, Exit(Top, v)) /\ s \in Int /\ s = Under.quad
    BY <1>2, <1>3 DEF Answers
  <2>2. /\ n \in Int /\ m \in Int /\ n \in Nat /\ u \in Nat /\ n <= n /\ n <= u /\ n <= m
        /\ abandoned \subseteq abandoned'
        /\ \A g \in abandoned : g \in 0 .. Len(IR) - 1 /\ IR[g + 1].target = -1
                                  => IR'[g + 1].target = -1
    BY <1>0, <1>1, <1>18
  <2>3. /\ Stays(IR', abandoned', v, n, m, Exit(i, v))
        /\ Stays(IR', abandoned', v, u, m, Exit(i, v))
    BY <1>17
  <2>4. /\ \A g \in T : g \in 0 .. Len(IR) - 1 => IR'[g + 1].target = n
        /\ \A g \in F : g \in 0 .. Len(IR) - 1 => IR'[g + 1].target = u
    BY <1>0, <1>2, <1>10 DEF Lines
  <2>5. Exit(Top, v) = T \/ Exit(Top, v) = F
    BY DEF Exit
  <2> HIDE DEF n, u, m, s, T, F
  <2>6. CASE Exit(Top, v) = T
    <3>1. Stays(IR, abandoned, v, s, n, T)
      BY <2>1, <2>6
    <3> QED
      BY <1>18, <2>1, <2>2, <2>3, <2>4, <3>1, StaysThen DEF m
  <2>7. CASE Exit(Top, v) = F
    <3>1. Stays(IR, abandoned, v, s, n, F)
      BY <2>1, <2>7
    <3> QED
      BY <1>18, <2>1, <2>2, <2>3, <2>4, <3>1, StaysThen DEF m
  <2> QED
    BY <2>5, <2>6, <2>7
<1>20. Answers(IR', abandoned', i, nextinstr')
  BY <1>12, <1>16, <1>17, <1>19 DEF Answers
<1>21. \A l \in Lists(i) : IR'[l + 1].target = -1
  <2>1. Lists(i) = {t, t + 1} /\ t + 1 + 1 = t + 2
    BY <1>0, <1>7, <1>12 DEF Lists
  <2> QED
    BY <1>8, <2>1
<1>22. ItemSettled(IR', abandoned', stack', q, nextinstr')
  <2>1. stack'[q] = i /\ stack'[q - 1] = stack[Depth - 2]
    BY <1>13, <1>14
  <2>2. Placed(i.k, stack[Depth - 2].k)
    BY <1>3, <1>12 DEF Placed, Bodies
  <2> QED
    BY <1>3, <1>12, <1>20, <1>21, <2>1, <2>2 DEF ItemSettled
<1>23. stack'[q].quad \in Int /\ stack'[q].quad >= End(q - 1)
  <2>1. End(q - 1) = stack[q].quad /\ stack[q].quad \in Nat
    BY <1>14, EndTyped DEF End
  <2> QED
    BY <1>3, <1>12, <1>13, <2>1
<1>24. Len(stack') # q - 1 /\ stack'[q].k \notin Openers
  BY <1>12, <1>13, <1>14, Kinds
<1>25. \A d \in new : \A v \in Valuations : Arrives(IR', abandoned', d, v)
  <2>1. ASSUME NEW v \in Valuations
        PROVE  Arrives(IR', abandoned', Test(Top.start, Top.truth, n, u), v)
    <3>1. Shifts(q, Top.true_list, n, Top.false_list, u, new)
      BY <1>15
    <3>2. n \in Int /\ u \in Int /\ n <= n /\ n <= nextinstr' /\ n <= u /\ u <= nextinstr'
      BY <1>0, <1>16
    <3> HIDE DEF q, new, u
    <3> QED
      BY <1>3, <3>1, <3>2, ExpressionTest
  <2>2. ASSUME NEW v \in Valuations
        PROVE  Arrives(IR', abandoned', Test(n, Valuations, n + 3, n + 2), v)
    <3>1. n + 3 <= Len(IR')
      BY <1>0, <1>8
    <3> QED
      BY <1>0, <1>8, <1>11, <3>1, StoredArrives
  <2> QED
    BY <2>1, <2>2
<1> HIDE DEF q, n, u, T, F, new
<1> QED
  BY <1>15, <1>22, <1>23, <1>24, <1>25, DecisiveStep

-----------------------------------------------------------------------------
(* Loops and branches                                                      *)

\* A loop or a branch is entered.
LEMMA BodySettled ==
    ASSUME Healthy, Decisive, Tight', WhileBody \/ ThenBody
    PROVE  Decisive'
<1> DEFINE n == nextinstr
           q == Depth - 1
           T == Top.true_list
           F == Top.false_list
           fresh(k) == [Item(k) EXCEPT !.false_list = F, !.truth = Top.truth,
                                       !.start = Under.quad]
           E == {}
           z == 0
<1>0. /\ TypeOK /\ Sound /\ ~error_reported /\ n \in Nat /\ n = Len(IR)
      /\ IR \in Seq(InstructionType)
  BY TopSettled
<1>1. PICK o \in {"while", "if"}, k \in {"while_body", "then"} :
        /\ HasOperand(o) /\ Replace(2, fresh(k)) /\ IR' = backpatch(IR, T, n)
        /\ UNCHANGED <<error_reported, decided, abandoned>>
  BY DEF WhileBody, ThenBody
<1> DEFINE f == fresh(k)
<1>2. /\ Depth \in Nat /\ Depth > 2 /\ Top.k = "expr" /\ Top \in ItemType /\ Under \in ItemType
      /\ Answers(IR, abandoned, Top, n) /\ Top.quad = Under.quad
      /\ stack[Depth - 2].k \in Bodies /\ Under = stack[Depth - 1]
  <2>1. o \in Openers
    BY DEF Openers
  <2>2. /\ Answers(IR, abandoned, Top, n) /\ Top.quad = Under.quad
        /\ Placed(o, stack[Depth - 2].k)
    BY <1>1, <2>1, OperandSettled
  <2> QED
    BY <1>0, <1>1, <2>1, <2>2, OperandOnTop DEF Placed
<1>3. /\ T \intersect F = {} /\ T \union F = Lists(Top)
      /\ T \union F \subseteq 0 .. n - 1
      /\ Top.quad \in Nat /\ Top.quad <= n /\ Owned(stack, q, Depth) = Lists(Under) \union Lists(Top)
  <2>1. /\ Base \in Nat /\ Lists(Top) \subseteq Base .. n - 1 /\ T \intersect F = {}
        /\ Top.quad \in Base .. n
    BY HealthyFacts, OwnedOnTop
  <2>2. T \union F = Lists(Top)
    BY DEF Lists
  <2>3. Base .. n - 1 \subseteq 0 .. n - 1 /\ \A x \in Base .. n : x \in Nat /\ x <= n
    BY <1>0, <2>1
  <2>4. Depth > 1
    BY <1>2
  <2>5. Owned(stack, q, Depth) = Lists(Under) \union Lists(Top)
    BY <2>4, OwnedOnTop
  <2> QED
    BY <2>1, <2>2, <2>3, <2>5
<1>4. /\ f \in ItemType /\ f.k = k /\ f.true_list = {} /\ f.false_list = F /\ f.quad = n
      /\ f.start = Under.quad /\ f.truth = Top.truth
  <2> DEFINE e == Item(k)
  <2>1. e \in ItemType /\ e.true_list = {} /\ e.quad = n /\ e.k = k
    BY <1>0, ItemTyped DEF Item, ItemKinds, Bodies
  <2>2. F \in SUBSET LineNumbers /\ Top.truth \in SUBSET Valuations /\ Under.quad \in LineNumbers
    BY <1>0, <1>2, StackItems
  <2>3. f = [e EXCEPT !.false_list = F, !.truth = Top.truth, !.start = Under.quad]
    OBVIOUS
  <2> HIDE DEF e, f, F
  <2>4. f \in ItemType
    BY <2>1, <2>2, <2>3, ItemUpdate
  <2> QED
    BY <2>1, <2>3, <2>4 DEF ItemType
<1>5. Replace(2, f)
  BY <1>1
<1> HIDE DEF fresh, f
<1>6. /\ Len(stack') = q /\ stack'[q] = f /\ \A p \in 1 .. q - 1 : stack'[p] = stack[p]
  <2>1. 2 \in 0 .. Depth /\ Depth - 2 + 1 = q /\ Depth - 2 = q - 1
    BY <1>2
  <2> QED
    BY <1>0, <1>4, <1>5, <2>1, StackItems, StackTyped
<1>7. /\ q \in 2 .. Depth + 1 /\ q - 1 = Depth - 2 /\ q - 1 \in 1 .. q - 1 /\ q > 1
      /\ q - 1 + 1 = q /\ q - 1 # Depth /\ q \in 1 .. Depth
  BY <1>2
<1>8. n \in LineNumbers
  BY <1>0, SizeFacts DEF LineNumbers
<1>9. Lines(IR', T, n, E, z) /\ nextinstr' = n
  BY <1>0, <1>1, <1>8, LinesFirst, PatchLine DEF nextinstr
<1>10. Shifts(q, T, n, E, z, E)
  BY <1>0, <1>1, <1>3, <1>6, <1>7, <1>9 DEF Shifts
<1>11. Kept(IR, IR') /\ \A g \in abandoned : IR'[g + 1].target = -1
  <2> HIDE DEF q, T, n, E, z
  <2> QED
    BY <1>10, StepKeeps
<1>12. ASSUME NEW g \in 0 .. n - 1
       PROVE  /\ g \in T => IR'[g + 1].target = n
              /\ g \notin T => /\ IR'[g + 1].target = IR[g + 1].target
                               /\ IR'[g + 1].cond = IR[g + 1].cond
  BY <1>9 DEF Lines
<1>13. Guards(IR', abandoned', f)
  <2> DEFINE s == Top.quad
  <2>1. /\ s \in Int /\ n \in Int /\ n \in Nat /\ n <= n /\ abandoned \subseteq abandoned'
        /\ \A g \in abandoned : g \in 0 .. Len(IR) - 1 /\ IR[g + 1].target = -1
                                  => IR'[g + 1].target = -1
    BY <1>0, <1>1, <1>3, <1>11
  <2>2. ASSUME NEW v \in Valuations, v \in Top.truth
        PROVE  Leads(IR', v, s, n, n) \/ Stays(IR', abandoned', v, s, n, {})
    <3>1. Stays(IR, abandoned, v, s, n, T)
      BY <1>2, <2>2 DEF Answers, Exit
    <3>2. \A g \in T : g \in 0 .. Len(IR) - 1 => IR'[g + 1].target = n
      BY <1>0, <1>12
    <3> HIDE DEF s, n, T
    <3>3. Leads(IR', v, n, n, n)
      BY <2>1, Here
    <3> QED
      BY <1>11, <2>1, <3>1, <3>2, <3>3, StaysPatched
  <2>3. ASSUME NEW v \in Valuations, v \notin Top.truth
        PROVE  Stays(IR', abandoned', v, s, n, F)
    <3>1. Stays(IR, abandoned, v, s, n, F)
      BY <1>2, <2>3 DEF Answers, Exit
    <3>2. /\ F \union abandoned \subseteq F \union abandoned'
          /\ \A g \in F \union abandoned : g \in 0 .. Len(IR) - 1 /\ IR[g + 1].target = -1
                                             => IR'[g + 1].target = -1
      BY <1>0, <1>3, <1>12, <2>1
    <3> HIDE DEF s, n, F
    <3> QED
      BY <1>11, <2>1, <3>1, <3>2, StaysKept
  <2>4. f.start = s /\ f.quad = n /\ f.truth = Top.truth /\ f.false_list = F /\ s <= n
    BY <1>2, <1>3, <1>4
  <2> HIDE DEF s, n, F
  <2> QED
    BY <2>2, <2>3, <2>4 DEF Guards
<1>14. \A l \in Lists(f) : IR'[l + 1].cond # {} => IR'[l + 1].target = -1
  <2>1. ASSUME NEW l \in F, IR'[l + 1].cond # {} PROVE IR'[l + 1].target = -1
    <3>1. l \in 0 .. n - 1 /\ l \notin T /\ l \in Lists(Top)
      BY <1>3
    <3>2. IR[l + 1].cond # {}
      BY <1>12, <2>1, <3>1
    <3>3. ItemSettled(IR, abandoned, stack, Depth, n) /\ Top = stack[Depth]
      BY TopSettled
    <3>4. IR[l + 1].target = -1
      BY <3>1, <3>2, <3>3 DEF ItemSettled
    <3> QED
      BY <1>12, <3>1, <3>4
  <2>2. Lists(f) = F
    BY <1>4 DEF Lists
  <2> QED
    BY <2>1, <2>2
<1>15. ItemSettled(IR', abandoned', stack', q, nextinstr')
  <2>1. stack'[q] = f /\ stack'[q - 1] = stack[Depth - 2] /\ f.k = k
    BY <1>4, <1>6, <1>7
  <2>2. k \in Bodies /\ k # "expr" /\ k # "else" /\ Bodies \intersect Openers = {}
    BY DEF Bodies, Openers
  <2>3. Placed(k, stack[Depth - 2].k)
    BY <1>2, <2>2 DEF Placed, Openers, Bodies
  <2> QED
    BY <1>2, <1>13, <1>14, <2>1, <2>2, <2>3 DEF ItemSettled
<1>16. stack'[q].quad \in Int /\ stack'[q].quad >= End(q - 1)
  <2>1. End(q - 1) = stack[q].quad
    BY <1>7 DEF End
  <2> QED
    BY <1>0, <1>2, <1>3, <1>4, <1>6, <2>1
<1>17. Len(stack') # q - 1 /\ stack'[q].k \notin Openers
  BY <1>4, <1>6, <1>7 DEF Openers
<1>18. \A d \in E : \A v \in Valuations : Arrives(IR', abandoned', d, v)
  OBVIOUS
<1> HIDE DEF q, n, E, z, T
<1> QED
  BY <1>10, <1>15, <1>16, <1>17, <1>18, DecisiveStep

\* Where the test before a body leads when its false list goes to u, from its
\* first line as from a goto to that line.
LEMMA GuardTest ==
    ASSUME Healthy, Decisive, NEW q, NEW t, NEW u \in Int, NEW new,
           Shifts(q, {}, t, Top.false_list, u, new), Top.k \in {"while_body", "then"},
           nextinstr <= u, u <= nextinstr', NEW s \in Int, NEW v \in Valuations,
           \/ s = Top.start
           \/ /\ s \in Top.quad + 1 .. nextinstr' - 1 /\ s # u
              /\ After(IR', s, v) = Top.start
    PROVE  Arrives(IR', abandoned', Test(s, Top.truth, Top.quad, u), v)
<1> DEFINE n == nextinstr
           a == Top.start
           m == Top.quad
           F == Top.false_list
           d == Test(s, Top.truth, m, u)
<1>0. /\ n \in Nat /\ a \in Nat /\ a <= m /\ m \in Nat /\ m <= n /\ n = Len(IR)
      /\ nextinstr' = Len(IR') /\ Len(IR') \in Nat /\ n <= Len(IR')
      /\ Kept(IR, IR') /\ abandoned \subseteq abandoned'
      /\ \A g \in abandoned : IR'[g + 1].target = -1
      /\ Guards(IR, abandoned, Top)
  <2>1. Kept(IR, IR') /\ \A g \in abandoned : IR'[g + 1].target = -1
    BY StepKeeps
  <2>2. Depth \in 1 .. Depth /\ Top = stack[Depth] /\ n \in Nat
        /\ ItemSettled(IR, abandoned, stack, Depth, n)
    BY TopSettled
  <2>3. a \in Nat /\ m \in Nat /\ m <= n
    BY <2>2, EndTyped
  <2>4. Guards(IR, abandoned, Top)
    BY <2>2 DEF ItemSettled
  <2> QED
    BY <2>1, <2>2, <2>3, <2>4 DEF Shifts, Kept, nextinstr, Guards
<1>1. \A g \in F : g \in 0 .. Len(IR) - 1 => IR'[g + 1].target = u
  BY <1>0 DEF Shifts, Lines
<1>2. /\ d.start = s /\ d.yes = m /\ d.no = u
      /\ Goal(d, v) = IF v \in Top.truth THEN m ELSE u
  BY DEF Test, Goal
<1>3. /\ v \in Top.truth => Leads(IR, v, a, m, m) \/ Stays(IR, abandoned, v, a, m, {})
      /\ v \notin Top.truth => Stays(IR, abandoned, v, a, m, F)
  BY <1>0 DEF Guards
<1>4. /\ a \in Int /\ m \in Int /\ m <= m /\ u \in Nat /\ m <= u
      /\ \A g \in abandoned : g \in 0 .. Len(IR) - 1 /\ IR[g + 1].target = -1
                                => IR'[g + 1].target = -1
  BY <1>0
<1>5. /\ a \in 0 .. Len(IR') /\ m \in 0 .. Len(IR') /\ a <= m
      /\ {d.yes, d.no} \subseteq m .. Len(IR')
      /\ \/ d.start = a
         \/ /\ d.start \in m + 1 .. Len(IR') - 1 /\ After(IR', d.start, v) = a
            /\ d.start \notin {d.yes, d.no}
  BY <1>0, <1>2, <1>4
<1> HIDE DEF d, a, m, F
<1>6. Leads(IR', v, a, m, Goal(d, v)) \/ Stays(IR', abandoned', v, a, m, {})
  <2>1. CASE v \in Top.truth /\ Leads(IR, v, a, m, m)
    BY <1>0, <1>2, <2>1, LeadsKept
  <2>2. CASE v \in Top.truth /\ Stays(IR, abandoned, v, a, m, {})
    <3> DEFINE E == {}
    <3>1. /\ E \union abandoned \subseteq E \union abandoned'
          /\ \A g \in E \union abandoned : g \in 0 .. Len(IR) - 1 /\ IR[g + 1].target = -1
                                             => IR'[g + 1].target = -1
          /\ Stays(IR, abandoned, v, a, m, E)
      BY <1>0, <1>4, <2>2
    <3> HIDE DEF E
    <3>2. Stays(IR', abandoned', v, a, m, E)
      BY <1>0, <1>4, <3>1, StaysKept
    <3> QED
      BY <3>2 DEF E
  <2>3. CASE v \notin Top.truth
    <3>1. Leads(IR', v, u, m, u)
      BY <1>4, Here
    <3>2. Stays(IR, abandoned, v, a, m, F)
      BY <1>3, <2>3
    <3>3. Leads(IR', v, a, m, u) \/ Stays(IR', abandoned', v, a, m, {})
      BY <1>0, <1>1, <1>4, <3>1, <3>2, StaysPatched
    <3> QED
      BY <1>2, <2>3, <3>3
  <2> QED
    BY <1>3, <2>1, <2>2, <2>3
<1>7. Arrives(IR', abandoned', d, v)
  BY <1>5, <1>6 DEF Arrives
<1> QED
  BY <1>7 DEF d, m

\* A body stands on another one.
LEMMA BodyOnTop ==
    ASSUME Healthy, Decisive, Top.k \in {"while_body", "then", "else", "block"}
    PROVE  /\ Depth \in Nat /\ Depth > 1 /\ stack[Depth - 1].k \in Bodies
           /\ Owned(stack, Depth, Depth) = Lists(Top)
           /\ Lists(Top) \subseteq 0 .. nextinstr - 1
           /\ Top.true_list \intersect Top.false_list = {}
           /\ End(Depth - 1) = Top.quad /\ Top.quad \in Nat /\ Top.quad <= nextinstr
<1>0. /\ Depth \in Nat /\ Depth > 0 /\ Sound /\ Top = stack[Depth] /\ nextinstr \in Nat
      /\ ItemSettled(IR, abandoned, stack, Depth, nextinstr)
      /\ Depth > 1 => End(Depth - 1) = Top.quad
  BY TopSettled
<1>1. Depth > 1
  <2>1. Top.k # "function"
    OBVIOUS
  <2> QED
    BY <1>0, <2>1 DEF Sound, Shape
<1>2. stack[Depth - 1].k \in Bodies
  BY <1>0, <1>1 DEF ItemSettled, Placed, Bodies
<1>3. /\ Owned(stack, Depth, Depth) = Lists(Top) /\ Lists(Top) \subseteq Base .. nextinstr - 1
      /\ Top.true_list \intersect Top.false_list = {} /\ Base \in Nat
  BY OwnedOnTop, HealthyFacts
<1>4. Base .. nextinstr - 1 \subseteq 0 .. nextinstr - 1
  BY <1>0, <1>3
<1>5. Top.quad \in Nat /\ Top.quad <= nextinstr
  BY <1>0, EndTyped
<1> QED
  BY <1>0, <1>1, <1>2, <1>3, <1>4, <1>5

\* A body is left.
LEMMA LeaveShifts ==
    ASSUME Healthy, Decisive, Tight', Top.k \in {"while_body", "then", "else", "block"}, Pop(1),
           UNCHANGED <<error_reported, abandoned>>, NEW L, NEW t, NEW K, NEW u,
           Lines(IR', L, t, K, u), L \union K \subseteq Lists(Top), NEW new,
           decided' = decided \union new
    PROVE  Shifts(Depth, L, t, K, u, new) /\ Len(stack') = Depth - 1
<1>0. /\ Depth \in Nat /\ Depth > 1 /\ Owned(stack, Depth, Depth) = Lists(Top)
  BY BodyOnTop
<1>1. ~error_reported
  BY TopSettled
<1>2. Len(stack') = Depth - 1 /\ \A p \in 1 .. Depth - 1 : stack'[p] = stack[p]
  <2>1. 1 \in 0 .. Depth /\ Depth - 1 + 1 - 1 = Depth - 1
    BY <1>0
  <2> QED
    BY <2>1, PopMoves
<1>3. Depth \in 2 .. Depth + 1
  BY <1>0
<1> QED
  BY <1>0, <1>1, <1>2, <1>3 DEF Shifts

LEMMA LeaveSettled ==
    ASSUME Healthy, Decisive, Top.k \in {"while_body", "then", "else", "block"},
           NEW L, NEW t, NEW K, NEW u, NEW new, Shifts(Depth, L, t, K, u, new),
           Len(stack') = Depth - 1,
           \A d \in new : \A v \in Valuations : Arrives(IR', abandoned', d, v)
    PROVE  Decisive'
<1> DEFINE q == Depth
<1>0. /\ q \in Nat /\ stack[q - 1].k \in Bodies
  BY BodyOnTop
<1>1. Shifts(q, L, t, K, u, new) /\ Len(stack') = q - 1 /\ Len(stack') # q
  BY <1>0
<1> HIDE DEF q
<1> QED
  BY <1>0, <1>1, DecisiveStep

\* The code at the end of a loop or of the first branch of two: a goto, and the
\* false list of the condition leads to the line after it.
LEMMA EndingLines ==
    ASSUME Healthy, Decisive, Top.k \in {"while_body", "then"}, Room(1),
           NEW g \in InstructionType, IR' = backpatch(Emit(IR, g), Top.false_list, Len(Emit(IR, g)))
    PROVE  /\ Lines(IR', {}, 0, Top.false_list, nextinstr + 1)
           /\ nextinstr' = nextinstr + 1 /\ IR'[nextinstr + 1] = g
           /\ Len(Emit(IR, g)) = nextinstr + 1
<1> DEFINE n == nextinstr
           F == Top.false_list
           c == Emit(IR, g)
           u == n + 1
           E == {}
           z == 0
<1>0. /\ TypeOK /\ Sound /\ ~error_reported /\ n \in Nat /\ n = Len(IR)
      /\ IR \in Seq(InstructionType)
  BY TopSettled
<1>1. F \subseteq 0 .. n - 1
  BY BodyOnTop DEF Lists
<1>2. u \in LineNumbers
  BY <1>0, SizeFacts DEF Room, LineNumbers
<1>3. /\ c \in Seq(InstructionType) /\ Len(c) = u /\ c[u] = g
      /\ \A j \in 0 .. n - 1 : c[j + 1] = IR[j + 1]
  <2>1. /\ c \in Seq(InstructionType) /\ Len(c) = Len(IR) + 1 /\ c[Len(IR) + 1] = g
        /\ \A j \in 0 .. Len(IR) - 1 : c[j + 1] = IR[j + 1]
    BY <1>0, EmitLine
  <2> QED
    BY <1>0, <2>1
<1>4. IR' = backpatch(c, F, u)
  BY <1>3
<1> HIDE DEF c, F
<1>5. Lines(c, E, z, E, z)
  <2>1. Lines(IR, E, z, E, z) /\ Len(c) \in Nat /\ Len(IR) <= Len(c)
    BY <1>0, <1>3, LinesSame
  <2> QED
    BY <1>0, <1>3, <2>1, LinesLater
<1>6. /\ IR' \in Seq(InstructionType) /\ Len(IR') = Len(c)
      /\ \A j \in 0 .. Len(c) - 1 : j \notin F => IR'[j + 1] = c[j + 1]
  <2> HIDE DEF n, u
  <2> QED
    BY <1>0, <1>2, <1>3, <1>4, PatchLine
<1>7. Lines(IR', E, z, F, u)
  <2>1. E \intersect F = {} /\ Lines(c, E, z, {}, z)
    BY <1>5
  <2> HIDE DEF u, E, z
  <2> QED
    BY <1>0, <1>1, <1>2, <1>3, <1>4, <2>1, LinesSecond
<1>8. IR'[n + 1] = g
  <2>1. n \in 0 .. Len(c) - 1 /\ n \notin F
    BY <1>0, <1>1, <1>3
  <2> QED
    BY <1>3, <1>6, <2>1
<1> QED
  BY <1>3, <1>6, <1>7, <1>8 DEF F, c, nextinstr

\* The end of a loop: its goto leads to the condition.
LEMMA LoopSettled ==
    ASSUME Healthy, Decisive, Tight', EndWhile
    PROVE  Decisive'
<1> DEFINE n == nextinstr
           F == Top.false_list
           a == Top.start
           m == Top.quad
           u == n + 1
           g == [GotoIR EXCEPT !.target = a]
           new == {Test(a, Top.truth, m, u), Test(n, Top.truth, m, u)}
           E == {}
           z == 0
<1>0. /\ TypeOK /\ Sound /\ ~error_reported /\ n \in Nat /\ n = Len(IR)
  BY TopSettled
<1>1. /\ Top.k = "while_body" /\ n > m /\ Room(1) /\ Pop(1)
      /\ IR' = backpatch(Emit(IR, g), F, Len(Emit(IR, g)))
      /\ UNCHANGED <<error_reported, abandoned>> /\ decided' = decided \union new
  BY <1>0 DEF EndWhile, BodyDone, Decide
<1>2. a \in LineNumbers /\ a \in Nat /\ m \in Nat
  <2>1. Depth \in 1 .. Depth /\ Top = stack[Depth]
    BY TopSettled
  <2> QED
    BY <1>0, <2>1, StackItems DEF LineNumbers
<1>3. g \in InstructionType /\ g.op = "goto" /\ g.cond = Valuations /\ g.target = a
  BY <1>0, <1>2, InstructionTyped DEF GotoIR, Instruction
<1> HIDE DEF g
<1>4. Lines(IR', E, z, F, u) /\ nextinstr' = u /\ IR'[n + 1] = g
  BY <1>1, <1>3, EndingLines
<1>5. Shifts(Depth, E, z, F, u, new) /\ Len(stack') = Depth - 1
  <2>1. E \union F \subseteq Lists(Top)
    BY DEF Lists
  <2> HIDE DEF E, z, F, u, new
  <2> QED
    BY <1>1, <1>4, <2>1, LeaveShifts
<1>6. ASSUME NEW v \in Valuations PROVE After(IR', n, v) = a
  BY <1>2, <1>3, <1>4 DEF After
<1>7. ASSUME NEW s \in {a, n}, NEW v \in Valuations
      PROVE  Arrives(IR', abandoned', Test(s, Top.truth, m, u), v)
  <2>1. /\ s \in Int /\ u \in Int /\ n <= u /\ u <= nextinstr'
        /\ \/ s = Top.start
           \/ /\ s \in Top.quad + 1 .. nextinstr' - 1 /\ s # u
              /\ After(IR', s, v) = Top.start
    BY <1>0, <1>1, <1>2, <1>4, <1>6
  <2>2. Shifts(Depth, {}, z, Top.false_list, u, new) /\ Top.k \in {"while_body", "then"}
    BY <1>1, <1>5
  <2> HIDE DEF z, u, new
  <2> QED
    BY <2>1, <2>2, GuardTest
<1>8. \A d \in new : \A v \in Valuations : Arrives(IR', abandoned', d, v)
  BY <1>7
<1> HIDE DEF E, z, F, u, new
<1> QED
  BY <1>1, <1>5, <1>8, LeaveSettled

\* The goto over an else branch.
LEMMA ElseSettled ==
    ASSUME Healthy, Decisive, Tight', ElseBody
    PROVE  Decisive'
<1> DEFINE n == nextinstr
           F == Top.false_list
           u == n + 1
           new == {Test(Top.start, Top.truth, Top.quad, u)}
           E == {}
           z == 0
           c == Emit(IR, GotoIR)
           q == Depth
           f == [Item("else") EXCEPT !.true_list = makeList(n), !.quad = Len(c), !.start = n]
<1>0. /\ TypeOK /\ Sound /\ ~error_reported /\ n \in Nat /\ n = Len(IR)
  BY TopSettled
<1>1. /\ Top.k = "then" /\ Room(1) /\ Replace(1, f) /\ IR' = backpatch(c, F, Len(c))
      /\ UNCHANGED <<error_reported, abandoned>> /\ decided' = decided \union new
  BY <1>0 DEF ElseBody, BodyDone, Decide
<1>2. GotoIR \in InstructionType /\ n \in LineNumbers /\ u \in LineNumbers
  BY <1>0, <1>1, InstructionTyped, SizeFacts DEF Room, LineNumbers
<1>3. Lines(IR', E, z, F, u) /\ nextinstr' = u /\ IR'[n + 1] = GotoIR /\ Len(c) = u
  BY <1>1, <1>2, EndingLines
<1>4. /\ Depth \in Nat /\ Depth > 1 /\ stack[Depth - 1].k \in Bodies
      /\ Owned(stack, Depth, Depth) = Lists(Top) /\ End(Depth - 1) = Top.quad
      /\ Top.quad \in Nat /\ Top.quad <= n
  BY <1>1, BodyOnTop
<1>5. /\ f \in ItemType /\ f.k = "else" /\ f.true_list = {n} /\ f.false_list = {}
      /\ f.quad = u /\ f.start = n
  <2> DEFINE e == Item("else")
             S == {n}
  <2>1. e \in ItemType /\ e.false_list = {} /\ e.k = "else"
    BY <1>0, ItemTyped DEF Item, ItemKinds, Bodies
  <2>2. S \in SUBSET LineNumbers /\ f = [e EXCEPT !.true_list = S, !.quad = Len(c), !.start = n]
    BY <1>2 DEF makeList
  <2> HIDE DEF e, S, f, c, u
  <2>3. /\ f \in ItemType /\ f.k = "else" /\ f.true_list = S /\ f.false_list = {}
        /\ f.quad = u /\ f.start = n
    BY <1>2, <1>3, <2>1, <2>2 DEF ItemType
  <2> QED
    BY <2>3 DEF S
<1> HIDE DEF f, c
<1>6. /\ Len(stack') = q /\ stack'[q] = f /\ \A p \in 1 .. q - 1 : stack'[p] = stack[p]
  <2>1. 1 \in 0 .. Depth /\ Depth - 1 + 1 = q /\ Depth - 1 = q - 1
    BY <1>4
  <2> QED
    BY <1>0, <1>1, <1>5, <2>1, StackItems, StackTyped
<1>7. q \in 2 .. Depth + 1 /\ q - 1 \in 1 .. q - 1 /\ q > 1
  BY <1>4
<1>8. Shifts(q, E, z, F, u, new)
  <2>1. E \union F \subseteq Owned(stack, q, Depth)
    BY <1>4 DEF Lists
  <2> QED
    BY <1>0, <1>1, <1>3, <1>6, <1>7, <2>1 DEF Shifts
<1>9. Skips(IR', f)
  <2>1. ASSUME NEW v \in Valuations PROVE Stuck(IR', n, v)
    <3>1. n \in 0 .. Len(IR') - 1
      BY <1>0, <1>3 DEF nextinstr
    <3> QED
      BY <1>3, <3>1, AtGoto
  <2> QED
    BY <1>5, <2>1 DEF Skips
<1>10. \A l \in Lists(f) : IR'[l + 1].target = -1
  <2>1. Lists(f) = {n} /\ GotoIR.target = -1
    BY <1>5 DEF Lists, GotoIR, Instruction
  <2> QED
    BY <1>3, <2>1
<1>11. ItemSettled(IR', abandoned', stack', q, nextinstr')
  <2>1. stack'[q] = f /\ stack'[q - 1] = stack[Depth - 1]
    BY <1>6, <1>7
  <2>2. Placed("else", stack[Depth - 1].k) /\ Bodies \intersect Openers = {}
    BY <1>4 DEF Placed, Bodies, Openers
  <2> QED
    BY <1>4, <1>5, <1>9, <1>10, <2>1, <2>2 DEF ItemSettled
<1>12. /\ stack'[q].quad \in Int /\ stack'[q].quad >= End(q - 1)
       /\ stack'[q].k \notin Openers /\ Len(stack') # q - 1
  BY <1>0, <1>4, <1>5, <1>6, <1>7 DEF Openers
<1>13. \A d \in new : \A v \in Valuations : Arrives(IR', abandoned', d, v)
  <2>1. ASSUME NEW v \in Valuations
        PROVE  Arrives(IR', abandoned', Test(Top.start, Top.truth, Top.quad, u), v)
    <3>1. Shifts(q, {}, z, Top.false_list, u, new) /\ Top.k \in {"while_body", "then"}
      BY <1>1, <1>8
    <3>2. u \in Int /\ n <= u /\ u <= nextinstr'
      BY <1>0, <1>3
    <3>3. Top.start \in Int
      <4>1. Depth \in 1 .. Depth /\ Top = stack[Depth]
        BY TopSettled
      <4> QED
        BY <4>1, EndTyped
    <3> DEFINE s == Top.start
    <3>4. s = Top.start /\ s \in Int
      BY <3>3
    <3> HIDE DEF q, z, u, new, s
    <3>5. Arrives(IR', abandoned', Test(s, Top.truth, Top.quad, u), v)
      BY <3>1, <3>2, <3>4, GuardTest
    <3> QED
      BY <3>5 DEF s
  <2> QED
    BY <2>1
<1> HIDE DEF q, E, z, F, u, new
<1> QED
  BY <1>8, <1>11, <1>12, <1>13, DecisiveStep

\* The end of an else branch, where the goto over it leads, and of a block.
LEMMA EndElseSettled ==
    ASSUME Healthy, Decisive, Tight', EndElse
    PROVE  Decisive'
<1> DEFINE n == nextinstr
           a == Top.start
           L == Top.true_list
           m == Top.quad
           d == Test(a, Valuations, n, m)
           new == {d}
           E == {}
           z == 0
<1>0. /\ TypeOK /\ Sound /\ ~error_reported /\ n \in Nat /\ n = Len(IR)
      /\ ItemSettled(IR, abandoned, stack, Depth, n) /\ Top = stack[Depth]
  BY TopSettled
<1>1. /\ Top.k = "else" /\ Pop(1) /\ IR' = backpatch(IR, L, n)
      /\ UNCHANGED <<error_reported, abandoned>> /\ decided' = decided \union new
  BY <1>0 DEF EndElse, BodyDone, Decide
<1>2. n \in LineNumbers
  BY <1>0, SizeFacts DEF LineNumbers
<1>3. Lines(IR', L, n, E, z) /\ nextinstr' = n /\ Len(IR') = n
  <2>1. IR \in Seq(InstructionType)
    BY TopSettled
  <2>2. Len(IR') = Len(IR)
    BY <1>0, <1>1, <1>2, <2>1, PatchLine
  <2> HIDE DEF n, L
  <2>3. \A w : Lines(IR', L, n, {}, w)
    BY <1>0, <1>1, <1>2, LinesFirst
  <2> QED
    BY <1>0, <2>2, <2>3 DEF nextinstr
<1>4. Shifts(Depth, L, n, E, z, new) /\ Len(stack') = Depth - 1
  <2>1. L \union E \subseteq Lists(Top)
    BY DEF Lists
  <2> HIDE DEF E, z, L, n, new
  <2> QED
    BY <1>1, <1>3, <2>1, LeaveShifts
<1>5. /\ m = a + 1 /\ L = {a} /\ \A v \in Valuations : Stuck(IR, a, v)
      /\ m \in Nat /\ m <= n /\ a \in Nat
  <2>1. Skips(IR, Top)
    BY <1>0, <1>1 DEF ItemSettled
  <2>2. m \in Nat /\ m <= n
    BY <1>1, BodyOnTop
  <2>3. Depth \in 1 .. Depth
    BY TopSettled
  <2>4. a \in Nat
    BY <1>0, <2>3, EndTyped
  <2> QED
    BY <2>1, <2>2, <2>4 DEF Skips
<1>6. ASSUME NEW v \in Valuations PROVE Arrives(IR', abandoned', d, v)
  <2>1. a \in 0 .. n - 1 /\ a \in L
    BY <1>0, <1>5
  <2>2. IR'[a + 1].op # "return" /\ v \in IR'[a + 1].cond /\ IR'[a + 1].target = n
    BY <1>3, <1>5, <2>1 DEF Lines, Stuck
  <2>3. After(IR', a, v) = n
    BY <1>0, <2>2 DEF After
  <2>4. /\ a \in 0 .. Len(IR') - 1 /\ n \in Int /\ m \in Int /\ a < n /\ a < m
        /\ a \in 0 .. Len(IR') /\ m \in 0 .. Len(IR') /\ a <= m /\ {n, m} \subseteq m .. Len(IR')
    BY <1>0, <1>3, <1>5
  <2>5. d.start = a /\ d.yes = n /\ d.no = m /\ Goal(d, v) = n
    BY DEF Test, Goal
  <2> HIDE DEF a, n, m, d
  <2>6. Leads(IR', v, n, m, n)
    BY <2>4, Here
  <2>7. Leads(IR', v, a, m, n)
    BY <2>3, <2>4, <2>6, Forward
  <2> QED
    BY <2>4, <2>5, <2>7 DEF Arrives
<1>7. \A x \in new : \A v \in Valuations : Arrives(IR', abandoned', x, v)
  BY <1>6
<1> HIDE DEF n, L, E, z, new
<1> QED
  BY <1>1, <1>4, <1>7, LeaveSettled

LEMMA BlockSettled ==
    ASSUME Healthy, Decisive, Tight', EndBlock
    PROVE  Decisive'
<1> DEFINE E == {}
           z == 0
<1>0. TypeOK
  BY TopSettled
<1>1. /\ Top.k = "block" /\ Pop(1) /\ UNCHANGED <<IR, error_reported, abandoned>>
      /\ decided' = decided \union E
  BY DEF EndBlock, BodyDone
<1>2. Lines(IR', E, z, E, z)
  BY <1>0, <1>1, LinesSame
<1>3. E \union E \subseteq Lists(Top) /\ \A d \in E : \A v \in Valuations :
                                            Arrives(IR', abandoned', d, v)
  OBVIOUS
<1> HIDE DEF E, z
<1>4. Shifts(Depth, E, z, E, z, E) /\ Len(stack') = Depth - 1
  BY <1>1, <1>2, <1>3, LeaveShifts
<1> QED
  BY <1>1, <1>3, <1>4, LeaveSettled

-----------------------------------------------------------------------------
(* Array writes                                                            *)

\* The check of a dimension whose lines begin at line k.
CheckAt(c, k, lo, hi) ==
    /\ c[k + 1] = Plain("read") /\ c[k + 2] = JumpIf(lo) /\ c[k + 4] = GotoIR
    /\ c[k + 3].op = "if" /\ c[k + 3].cond = hi /\ c[k + 3].target = k + 4

\* d is c with such a check, made when c ends before line k.
CheckAdded(c, d, k, lo, hi) ==
    /\ d \in Seq(InstructionType) /\ Len(d) = k + 4 /\ CheckAt(d, k, lo, hi)
    /\ \A j \in 0 .. k - 1 : d[j + 1] = c[j + 1]

LEMMA CheckLines ==
    ASSUME TypeOK, ~error_reported, NEW c \in Seq(InstructionType), NEW k \in Nat, Len(c) = k,
           k + 4 \in LineNumbers, NEW lo \in SUBSET Valuations, NEW hi \in SUBSET Valuations
    PROVE  CheckAdded(c, backpatch(EmitAll(c, <<Plain("read"), JumpIf(lo), JumpIf(hi), GotoIR>>),
                                   makeList(k + 2), k + 4), k, lo, hi)
<1> DEFINE d == backpatch(EmitAll(c, <<Plain("read"), JumpIf(lo), JumpIf(hi), GotoIR>>),
                          makeList(k + 2), k + 4)
           i == Plain("read")
           a == JumpIf(lo)
           b == JumpIf(hi)
           c1 == Emit(c, i)
           c2 == Emit(c1, a)
           c3 == Emit(c2, b)
           c4 == Emit(c3, GotoIR)
<1>1. i \in InstructionType /\ a \in InstructionType /\ b \in InstructionType
      /\ GotoIR \in InstructionType
  BY InstructionTyped
<1>2. b.op = "if" /\ b.cond = hi
  BY DEF JumpIf, Instruction
<1>3. d = backpatch(c4, {k + 2}, k + 4)
  <2>1. d = backpatch(EmitAll(c, <<i, a, b, GotoIR>>), {k + 2}, k + 4)
    BY DEF makeList
  <2> HIDE DEF i, a, b
  <2>2. EmitAll(c, <<i, a, b, GotoIR>>) = c4
    BY <1>1, EmitFour
  <2> QED
    BY <2>1, <2>2
<1>4. CheckAt(d, k, lo, hi) <=> /\ d[k + 1] = i /\ d[k + 2] = a /\ d[k + 4] = GotoIR
                                /\ d[k + 3].op = "if" /\ d[k + 3].cond = hi
                                /\ d[k + 3].target = k + 4
  BY DEF CheckAt
<1> HIDE DEF i, a, b, d
<1>5. /\ c1 \in Seq(InstructionType) /\ Len(c1) = k + 1 /\ c1[k + 1] = i
      /\ \A j \in 0 .. k - 1 : c1[j + 1] = c[j + 1]
  BY <1>1, EmitLine
<1> HIDE DEF c1
<1>6. /\ c2 \in Seq(InstructionType) /\ Len(c2) = k + 2 /\ c2[k + 2] = a
      /\ \A j \in 0 .. k : c2[j + 1] = c1[j + 1]
  <2>1. /\ c2 \in Seq(InstructionType) /\ Len(c2) = Len(c1) + 1 /\ c2[Len(c1) + 1] = a
        /\ \A j \in 0 .. Len(c1) - 1 : c2[j + 1] = c1[j + 1]
    BY <1>1, <1>5, EmitLine
  <2>2. Len(c1) + 1 = k + 2 /\ Len(c1) - 1 = k
    BY <1>5
  <2> QED
    BY <2>1, <2>2
<1> HIDE DEF c2
<1>7. /\ c3 \in Seq(InstructionType) /\ Len(c3) = k + 3 /\ c3[k + 3] = b
      /\ \A j \in 0 .. k + 1 : c3[j + 1] = c2[j + 1]
  <2>1. /\ c3 \in Seq(InstructionType) /\ Len(c3) = Len(c2) + 1 /\ c3[Len(c2) + 1] = b
        /\ \A j \in 0 .. Len(c2) - 1 : c3[j + 1] = c2[j + 1]
    BY <1>1, <1>6, EmitLine
  <2>2. Len(c2) + 1 = k + 3 /\ Len(c2) - 1 = k + 1
    BY <1>6
  <2> QED
    BY <2>1, <2>2
<1> HIDE DEF c3
<1>8. /\ c4 \in Seq(InstructionType) /\ Len(c4) = k + 4 /\ c4[k + 4] = GotoIR
      /\ \A j \in 0 .. k + 2 : c4[j + 1] = c3[j + 1]
  <2>1. /\ c4 \in Seq(InstructionType) /\ Len(c4) = Len(c3) + 1 /\ c4[Len(c3) + 1] = GotoIR
        /\ \A j \in 0 .. Len(c3) - 1 : c4[j + 1] = c3[j + 1]
    BY <1>1, <1>7, EmitLine
  <2>2. Len(c3) + 1 = k + 4 /\ Len(c3) - 1 = k + 2
    BY <1>7
  <2> QED
    BY <2>1, <2>2
<1> HIDE DEF c4
<1>9. /\ d \in Seq(InstructionType) /\ Len(d) = k + 4
      /\ \A j \in 0 .. k + 3 : /\ j \notin {k + 2} => d[j + 1] = c4[j + 1]
                               /\ d[j + 1].op = c4[j + 1].op /\ d[j + 1].cond = c4[j + 1].cond
                               /\ j \in {k + 2} => d[j + 1].target = k + 4
  <2> DEFINE L == {k + 2}
             t == k + 4
  <2>0. d = backpatch(c4, L, t) /\ t \in LineNumbers
    BY <1>3
  <2> HIDE DEF L, t
  <2>1. /\ d \in Seq(InstructionType) /\ Len(d) = Len(c4)
        /\ \A j \in 0 .. Len(c4) - 1 :
             /\ j \notin L => d[j + 1] = c4[j + 1]
             /\ d[j + 1].op = c4[j + 1].op /\ d[j + 1].cond = c4[j + 1].cond
             /\ j \in L => d[j + 1].target = t
    <3>1. c4 \in Seq(InstructionType)
      BY <1>8
    <3> DEFINE p == backpatch(c4, L, t)
    <3>2. /\ p \in Seq(InstructionType) /\ Len(p) = Len(c4)
          /\ \A j \in 0 .. Len(c4) - 1 :
               /\ j \notin L => p[j + 1] = c4[j + 1]
               /\ p[j + 1].op = c4[j + 1].op /\ p[j + 1].cond = c4[j + 1].cond
               /\ j \in L => p[j + 1].target = t
      BY <2>0, <3>1, PatchLine
    <3>3. d = p
      BY <2>0
    <3> HIDE DEF p
    <3> QED
      BY <3>2, <3>3
  <2>2. Len(c4) - 1 = k + 3
    BY <1>8
  <2> QED
    BY <1>8, <2>1, <2>2 DEF L, t
<1>10. ASSUME NEW j \in 0 .. k - 1 PROVE d[j + 1] = c[j + 1]
  <2>1. j \in 0 .. k /\ j \in 0 .. k + 1 /\ j \in 0 .. k + 2 /\ j \in 0 .. k + 3
        /\ j \notin {k + 2}
    OBVIOUS
  <2>2. d[j + 1] = c4[j + 1]
    BY <1>9, <2>1
  <2>3. c4[j + 1] = c3[j + 1]
    BY <1>8, <2>1
  <2>4. c3[j + 1] = c2[j + 1]
    BY <1>7, <2>1
  <2>5. c2[j + 1] = c1[j + 1] /\ c1[j + 1] = c[j + 1]
    BY <1>5, <1>6, <2>1
  <2> QED
    BY <2>2, <2>3, <2>4, <2>5
<1>11. /\ k \in 0 .. k /\ k \in 0 .. k + 1 /\ k \in 0 .. k + 2 /\ k \in 0 .. k + 3
       /\ k + 1 \in 0 .. k + 1 /\ k + 1 \in 0 .. k + 2 /\ k + 1 \in 0 .. k + 3
       /\ k + 2 \in 0 .. k + 2 /\ k + 2 \in 0 .. k + 3 /\ k + 3 \in 0 .. k + 3
       /\ k \notin {k + 2} /\ k + 1 \notin {k + 2} /\ k + 3 \notin {k + 2} /\ k + 2 \in {k + 2}
       /\ k + 1 + 1 = k + 2 /\ k + 2 + 1 = k + 3 /\ k + 3 + 1 = k + 4
  OBVIOUS
<1>12. d[k + 1] = i
  <2>1. d[k + 1] = c4[k + 1]
    BY <1>9, <1>11
  <2>2. c4[k + 1] = c3[k + 1] /\ c3[k + 1] = c2[k + 1]
    BY <1>7, <1>8, <1>11
  <2> QED
    BY <1>5, <1>6, <1>11, <2>1, <2>2
<1>13. d[k + 2] = a
  <2>1. d[k + 1 + 1] = c4[k + 1 + 1] /\ c4[k + 1 + 1] = c3[k + 1 + 1]
        /\ c3[k + 1 + 1] = c2[k + 1 + 1]
    BY <1>7, <1>8, <1>9, <1>11
  <2> QED
    BY <1>6, <1>11, <2>1
<1>14. d[k + 3].op = "if" /\ d[k + 3].cond = hi /\ d[k + 3].target = k + 4
  <2>1. /\ d[k + 2 + 1].op = c4[k + 2 + 1].op /\ d[k + 2 + 1].cond = c4[k + 2 + 1].cond
        /\ d[k + 2 + 1].target = k + 4 /\ c4[k + 2 + 1] = c3[k + 2 + 1]
    BY <1>8, <1>9, <1>11
  <2> QED
    BY <1>2, <1>7, <1>11, <2>1
<1>15. d[k + 4] = GotoIR
  <2>1. d[k + 3 + 1] = c4[k + 3 + 1]
    BY <1>9, <1>11
  <2> QED
    BY <1>8, <1>11, <2>1
<1>16. CheckAdded(c, d, k, lo, hi)
  BY <1>4, <1>9, <1>10, <1>12, <1>13, <1>14, <1>15 DEF CheckAdded
<1> QED
  BY <1>16 DEF d

\* Such a check is passed inside the bounds only, and left to g otherwise.
Checks(c, v, k, lo, hi, m, g) ==
    /\ v \in lo \/ v \notin hi => Leads(c, v, k, m, g)
    /\ v \notin lo /\ v \in hi =>
         \A h \in Int : Leads(c, v, k + 4, m, h) => Leads(c, v, k, m, h)

\* It is, once its jumps have the target g.
LEMMA CheckLeads ==
    ASSUME NEW c, NEW k \in Nat, NEW lo, NEW hi, NEW g \in Nat, NEW m \in Int,
           k + 4 <= m, m <= g, Len(c) \in Nat, m <= Len(c),
           c[k + 1].op = "read" /\ c[k + 1].cond = {},
           c[k + 2].op = "if" /\ c[k + 2].cond = lo /\ c[k + 2].target = g,
           c[k + 3].op = "if" /\ c[k + 3].cond = hi /\ c[k + 3].target = k + 4,
           c[k + 4].op = "goto" /\ c[k + 4].cond = Valuations /\ c[k + 4].target = g,
           NEW v \in Valuations
    PROVE  Checks(c, v, k, lo, hi, m, g)
<1> DEFINE k1 == k + 1
           k2 == k + 2
           k3 == k + 3
           k4 == k + 4
<1>1. /\ k \in 0 .. Len(c) - 1 /\ k1 \in 0 .. Len(c) - 1 /\ k2 \in 0 .. Len(c) - 1
      /\ k3 \in 0 .. Len(c) - 1
      /\ k1 \in Int /\ k2 \in Int /\ k3 \in Int /\ k4 \in Int /\ g \in Int
      /\ k < k1 /\ k1 < k2 /\ k2 < k3 /\ k2 < k4 /\ k1 < g /\ k3 < g
      /\ k < m /\ k1 < m /\ k2 < m /\ k3 < m
  OBVIOUS
<1>2. /\ k + 1 = k1 /\ k1 + 1 = k + 2 /\ k2 + 1 = k + 3 /\ k3 + 1 = k + 4
      /\ k1 + 1 = k2 /\ k2 + 1 = k3 /\ g # -1 /\ k + 4 # -1 /\ k4 = k + 4
  OBVIOUS
<1>3. /\ After(c, k, v) = k1
      /\ After(c, k1, v) = IF v \in lo THEN g ELSE k2
      /\ After(c, k2, v) = IF v \in hi THEN k4 ELSE k3
      /\ After(c, k3, v) = g
  <2>1. c[k + 1].op # "return" /\ v \notin c[k + 1].cond
    OBVIOUS
  <2>2. After(c, k, v) = k1
    BY <2>1 DEF After
  <2> HIDE DEF k1, k2, k3, k4
  <2>3. After(c, k1, v) = IF v \in lo THEN g ELSE k2
    BY <1>2 DEF After
  <2>4. After(c, k2, v) = IF v \in hi THEN k4 ELSE k3
    BY <1>2 DEF After
  <2>5. After(c, k3, v) = g
    BY <1>2 DEF After
  <2> QED
    BY <2>2, <2>3, <2>4, <2>5
<1> HIDE DEF k1, k2, k3
<1>4. Leads(c, v, g, m, g)
  BY <1>1, Here
<1>5. ASSUME NEW h \in Int, Leads(c, v, k2, m, h), v \notin lo PROVE Leads(c, v, k, m, h)
  <2>1. Leads(c, v, k1, m, h)
    BY <1>1, <1>3, <1>5, Forward
  <2> QED
    BY <1>1, <1>3, <2>1, Forward
<1>6. CASE v \in lo
  <2>1. Leads(c, v, k1, m, g)
    BY <1>1, <1>3, <1>4, <1>6, Forward
  <2>2. Leads(c, v, k, m, g)
    BY <1>1, <1>3, <2>1, Forward
  <2> QED
    BY <1>6, <2>2 DEF Checks
<1>7. CASE v \notin lo /\ v \notin hi
  <2>1. Leads(c, v, k3, m, g)
    BY <1>1, <1>3, <1>4, Forward
  <2>2. Leads(c, v, k2, m, g)
    BY <1>1, <1>3, <1>7, <2>1, Forward
  <2> QED
    BY <1>1, <1>5, <1>7, <2>2 DEF Checks
<1>8. CASE v \notin lo /\ v \in hi
  <2>1. ASSUME NEW h \in Int, Leads(c, v, k4, m, h) PROVE Leads(c, v, k, m, h)
    <3>1. Leads(c, v, k2, m, h)
      <4> HIDE DEF k4
      <4> QED
        BY <1>1, <1>3, <1>8, <2>1, Forward
    <3> QED
      BY <1>5, <1>8, <3>1
  <2> QED
    BY <1>8, <2>1 DEF Checks
<1> QED
  BY <1>6, <1>7, <1>8 DEF Checks

\* The lines of the access itself, and what its goto and the checks' jumps get.
AccessAdded(c, d, m, list) ==
    /\ Len(d) = m + 5
    /\ \A j \in 0 .. m - 1 :
         /\ j \notin list => d[j + 1] = c[j + 1]
         /\ d[j + 1].op = c[j + 1].op /\ d[j + 1].cond = c[j + 1].cond
         /\ j \in list => d[j + 1].target = m + 3
    /\ \A v \in Valuations : /\ After(d, m, v) = m + 1 /\ After(d, m + 1, v) = m + 2
                             /\ After(d, m + 2, v) = m + 4

LEMMA AccessLines ==
    ASSUME TypeOK, ~error_reported, NEW c \in Seq(InstructionType), NEW m \in Nat, Len(c) = m,
           m + 5 \in LineNumbers, NEW list, list \subseteq 0 .. m - 1
    PROVE  LET offset == EmitAll(c, <<Plain("compute"), Plain("compute"), GotoIR>>)
               crash == Emit(backpatch(offset, list, m + 3), Plain("crash"))
               d == Emit(backpatch(crash, makeList(m + 2), m + 4), Plain("write"))
           IN  AccessAdded(c, d, m, list)
<1> DEFINE i == Plain("compute")
           t == m + 3
           u == m + 4
           K == {m + 2}
           c1 == Emit(c, i)
           c2 == Emit(c1, i)
           c3 == Emit(c2, GotoIR)
           c4 == backpatch(c3, list, t)
           c5 == Emit(c4, Plain("crash"))
           c6 == backpatch(c5, K, u)
           d == Emit(c6, Plain("write"))
           S == InstructionType
<1>1. /\ i \in S /\ GotoIR \in S /\ Plain("crash") \in S /\ Plain("write") \in S
      /\ t \in LineNumbers /\ u \in LineNumbers
  <2>1. i \in S /\ GotoIR \in S /\ Plain("crash") \in S /\ Plain("write") \in S
    BY InstructionTyped
  <2>2. t \in LineNumbers /\ u \in LineNumbers
    BY SizeFacts DEF LineNumbers
  <2> QED
    BY <2>1, <2>2
<1>2. EmitAll(c, <<Plain("compute"), Plain("compute"), GotoIR>>) = c3 /\ makeList(m + 2) = K
  <2>1. EmitAll(c, <<i, i, GotoIR>>) = c3
    <3> HIDE DEF i
    <3> QED
      BY <1>1, EmitThree
  <2> QED
    BY <2>1 DEF makeList
<1>3. /\ m + 1 + 1 = m + 2 /\ m + 2 + 1 = m + 3 /\ m + 3 + 1 = m + 4
      /\ m + 3 = t /\ m + 4 = u /\ m + 2 \in K /\ u # -1
      /\ \A j \in 0 .. m + 3 : j \in K <=> j = m + 2
      /\ \A j \in 0 .. m + 2 : j \in list => j \in 0 .. m - 1
  OBVIOUS
<1>4. i.op # "return" /\ i.cond = {} /\ GotoIR.op = "goto" /\ GotoIR.cond = Valuations
  BY DEF Plain, GotoIR, Instruction
<1> HIDE DEF i, t, u, K, S
<1>5. /\ c1 \in Seq(S) /\ Len(c1) = m + 1 /\ c1[m + 1] = i
      /\ \A j \in 0 .. m - 1 : c1[j + 1] = c[j + 1]
  BY <1>1, EmitLine DEF S
<1> HIDE DEF c1
<1>6. /\ c2 \in Seq(S) /\ Len(c2) = m + 2 /\ c2[m + 2] = i
      /\ \A j \in 0 .. m : c2[j + 1] = c1[j + 1]
  <2>1. /\ c2 \in Seq(S) /\ Len(c2) = Len(c1) + 1 /\ c2[Len(c1) + 1] = i
        /\ \A j \in 0 .. Len(c1) - 1 : c2[j + 1] = c1[j + 1]
    BY <1>1, <1>5, EmitLine DEF S
  <2>2. Len(c1) + 1 = m + 2 /\ Len(c1) - 1 = m
    BY <1>5
  <2> QED
    BY <2>1, <2>2
<1> HIDE DEF c2
<1>7. /\ c3 \in Seq(S) /\ Len(c3) = m + 3 /\ c3[m + 3] = GotoIR
      /\ \A j \in 0 .. m + 1 : c3[j + 1] = c2[j + 1]
  <2>1. /\ c3 \in Seq(S) /\ Len(c3) = Len(c2) + 1 /\ c3[Len(c2) + 1] = GotoIR
        /\ \A j \in 0 .. Len(c2) - 1 : c3[j + 1] = c2[j + 1]
    BY <1>1, <1>6, EmitLine DEF S
  <2>2. Len(c2) + 1 = m + 3 /\ Len(c2) - 1 = m + 1
    BY <1>6
  <2> QED
    BY <2>1, <2>2
<1> HIDE DEF c3
<1>8. /\ c4 \in Seq(S) /\ Len(c4) = m + 3
      /\ \A j \in 0 .. m + 2 :
           /\ j \notin list => c4[j + 1] = c3[j + 1]
           /\ c4[j + 1].op = c3[j + 1].op /\ c4[j + 1].cond = c3[j + 1].cond
           /\ j \in list => c4[j + 1].target = t
  <2>1. /\ c4 \in Seq(S) /\ Len(c4) = Len(c3)
        /\ \A j \in 0 .. Len(c3) - 1 :
             /\ j \notin list => c4[j + 1] = c3[j + 1]
             /\ c4[j + 1].op = c3[j + 1].op /\ c4[j + 1].cond = c3[j + 1].cond
             /\ j \in list => c4[j + 1].target = t
    <3>1. c3 \in Seq(InstructionType) /\ t \in LineNumbers
      BY <1>1, <1>7 DEF S
    <3>2. c4 = backpatch(c3, list, t)
      OBVIOUS
    <3> HIDE DEF c4
    <3> QED
      BY <3>1, <3>2, Patched DEF S
  <2>2. Len(c3) - 1 = m + 2
    BY <1>7
  <2> QED
    BY <1>7, <2>1, <2>2
<1> HIDE DEF c4
<1>9. /\ c5 \in Seq(S) /\ Len(c5) = m + 4 /\ \A j \in 0 .. m + 2 : c5[j + 1] = c4[j + 1]
  <2>1. /\ c5 \in Seq(S) /\ Len(c5) = Len(c4) + 1
        /\ \A j \in 0 .. Len(c4) - 1 : c5[j + 1] = c4[j + 1]
    BY <1>1, <1>8, EmitLine DEF S
  <2>2. Len(c4) + 1 = m + 4 /\ Len(c4) - 1 = m + 2
    BY <1>8
  <2> QED
    BY <2>1, <2>2
<1> HIDE DEF c5
<1>10. /\ c6 \in Seq(S) /\ Len(c6) = m + 4
       /\ \A j \in 0 .. m + 3 :
            /\ j \notin K => c6[j + 1] = c5[j + 1]
            /\ c6[j + 1].op = c5[j + 1].op /\ c6[j + 1].cond = c5[j + 1].cond
            /\ j \in K => c6[j + 1].target = u
  <2>1. /\ c6 \in Seq(S) /\ Len(c6) = Len(c5)
        /\ \A j \in 0 .. Len(c5) - 1 :
             /\ j \notin K => c6[j + 1] = c5[j + 1]
             /\ c6[j + 1].op = c5[j + 1].op /\ c6[j + 1].cond = c5[j + 1].cond
             /\ j \in K => c6[j + 1].target = u
    <3>1. c5 \in Seq(InstructionType) /\ u \in LineNumbers
      BY <1>1, <1>9 DEF S
    <3>2. c6 = backpatch(c5, K, u)
      OBVIOUS
    <3> HIDE DEF c6
    <3> QED
      BY <3>1, <3>2, Patched DEF S
  <2>2. Len(c5) - 1 = m + 3
    BY <1>9
  <2> QED
    BY <1>9, <2>1, <2>2
<1> HIDE DEF c6
<1>11. /\ Len(d) = m + 5 /\ \A j \in 0 .. m + 3 : d[j + 1] = c6[j + 1]
  <2>1. /\ Len(d) = Len(c6) + 1 /\ \A j \in 0 .. Len(c6) - 1 : d[j + 1] = c6[j + 1]
    BY <1>1, <1>10, EmitLine DEF S
  <2>2. Len(c6) + 1 = m + 5 /\ Len(c6) - 1 = m + 3
    BY <1>10
  <2> QED
    BY <2>1, <2>2
<1> HIDE DEF d
<1>12. ASSUME NEW j \in 0 .. m - 1
       PROVE  /\ d[j + 1] = c4[j + 1] /\ c3[j + 1] = c[j + 1] /\ j \in 0 .. m + 2
  <2>1. j \in 0 .. m /\ j \in 0 .. m + 1 /\ j \in 0 .. m + 2 /\ j \in 0 .. m + 3 /\ j # m + 2
    OBVIOUS
  <2>2. d[j + 1] = c6[j + 1]
    BY <1>11, <2>1
  <2>3. c6[j + 1] = c5[j + 1]
    BY <1>3, <1>10, <2>1
  <2>4. c5[j + 1] = c4[j + 1]
    BY <1>9, <2>1
  <2>5. c3[j + 1] = c2[j + 1] /\ c2[j + 1] = c1[j + 1]
    BY <1>6, <1>7, <2>1
  <2>6. c1[j + 1] = c[j + 1]
    BY <1>5
  <2> QED
    BY <2>1, <2>2, <2>3, <2>4, <2>5, <2>6
<1>13. /\ m \in 0 .. m + 3 /\ m + 1 \in 0 .. m + 3 /\ m + 2 \in 0 .. m + 3
       /\ m \in 0 .. m + 2 /\ m + 1 \in 0 .. m + 2 /\ m + 2 \in 0 .. m + 2
       /\ m \in 0 .. m + 1 /\ m + 1 \in 0 .. m + 1 /\ m \in 0 .. m
       /\ m \notin K /\ m + 1 \notin K
       /\ m \notin list /\ m + 1 \notin list /\ m + 2 \notin list
  BY DEF K
<1>14. d[m + 1] = i
  <2>1. d[m + 1] = c6[m + 1] /\ c6[m + 1] = c5[m + 1]
    BY <1>10, <1>11, <1>13
  <2>2. c5[m + 1] = c4[m + 1] /\ c4[m + 1] = c3[m + 1]
    BY <1>8, <1>9, <1>13
  <2>3. c3[m + 1] = c2[m + 1] /\ c2[m + 1] = c1[m + 1]
    BY <1>6, <1>7, <1>13
  <2> QED
    BY <1>5, <2>1, <2>2, <2>3
<1>15. d[m + 2] = i
  <2>1. d[m + 1 + 1] = c6[m + 1 + 1] /\ c6[m + 1 + 1] = c5[m + 1 + 1]
    BY <1>10, <1>11, <1>13
  <2>2. c5[m + 1 + 1] = c4[m + 1 + 1] /\ c4[m + 1 + 1] = c3[m + 1 + 1]
    BY <1>8, <1>9, <1>13
  <2>3. c3[m + 1 + 1] = c2[m + 1 + 1]
    BY <1>7, <1>13
  <2> QED
    BY <1>3, <1>6, <2>1, <2>2, <2>3
<1>16. d[m + 3].op = "goto" /\ d[m + 3].cond = Valuations /\ d[m + 3].target = u
  <2>1. /\ d[m + 2 + 1] = c6[m + 2 + 1] /\ c6[m + 2 + 1].op = c5[m + 2 + 1].op
        /\ c6[m + 2 + 1].cond = c5[m + 2 + 1].cond /\ c6[m + 2 + 1].target = u
    BY <1>3, <1>10, <1>11, <1>13
  <2>2. c5[m + 2 + 1] = c4[m + 2 + 1] /\ c4[m + 2 + 1] = c3[m + 2 + 1]
    BY <1>8, <1>9, <1>13
  <2> QED
    BY <1>3, <1>4, <1>7, <2>1, <2>2
<1>17. ASSUME NEW v \in Valuations
       PROVE  /\ After(d, m, v) = m + 1 /\ After(d, m + 1, v) = m + 2
              /\ After(d, m + 2, v) = m + 4
  <2>1. After(d, m, v) = m + 1
    BY <1>4, <1>14 DEF After
  <2>2. After(d, m + 1, v) = m + 2
    BY <1>3, <1>4, <1>15 DEF After
  <2>3. After(d, m + 2, v) = m + 4
    BY <1>3, <1>16 DEF After
  <2> QED
    BY <2>1, <2>2, <2>3
<1>18. ASSUME NEW j \in 0 .. m - 1
       PROVE  /\ j \notin list => d[j + 1] = c[j + 1]
              /\ d[j + 1].op = c[j + 1].op /\ d[j + 1].cond = c[j + 1].cond
              /\ j \in list => d[j + 1].target = m + 3
  BY <1>3, <1>8, <1>12
<1>19. AccessAdded(c, d, m, list)
  BY <1>11, <1>17, <1>18 DEF AccessAdded
<1> QED
  BY <1>2, <1>3, <1>19 DEF d, c6, c5, c4

\* So a check whose jumps the access patches is passed inside the bounds only.
LEMMA CheckPasses ==
    ASSUME NEW c, NEW d, NEW k \in Nat, NEW m \in Nat, k + 4 <= m, NEW list,
           AccessAdded(c, d, m, list),
           {k + 1, k + 3} \subseteq list, k \notin list, k + 2 \notin list,
           NEW lo, NEW hi, CheckAt(c, k, lo, hi), NEW v \in Valuations
    PROVE  Checks(d, v, k, lo, hi, m, m + 3)
<1>0. /\ Len(d) = m + 5
      /\ \A j \in 0 .. m - 1 :
           /\ j \notin list => d[j + 1] = c[j + 1]
           /\ d[j + 1].op = c[j + 1].op /\ d[j + 1].cond = c[j + 1].cond
           /\ j \in list => d[j + 1].target = m + 3
  BY DEF AccessAdded
<1> DEFINE g == m + 3
<1>1. /\ k \in 0 .. m - 1 /\ k + 1 \in 0 .. m - 1 /\ k + 2 \in 0 .. m - 1 /\ k + 3 \in 0 .. m - 1
      /\ k + 1 + 1 = k + 2 /\ k + 2 + 1 = k + 3 /\ k + 3 + 1 = k + 4
      /\ g \in Nat /\ m <= g /\ Len(d) \in Nat /\ m <= Len(d) /\ m \in Int
  BY <1>0
<1>2. d[k + 1] = Plain("read")
  BY <1>0, <1>1 DEF CheckAt
<1>3. d[k + 2].op = "if" /\ d[k + 2].cond = lo /\ d[k + 2].target = g
  <2>1. /\ d[k + 1 + 1].op = c[k + 1 + 1].op /\ d[k + 1 + 1].cond = c[k + 1 + 1].cond
        /\ d[k + 1 + 1].target = g
    BY <1>0, <1>1
  <2>2. c[k + 2].op = "if" /\ c[k + 2].cond = lo
    BY DEF CheckAt, JumpIf, Instruction
  <2> QED
    BY <1>1, <2>1, <2>2
<1>4. d[k + 3].op = "if" /\ d[k + 3].cond = hi /\ d[k + 3].target = k + 4
  <2>1. d[k + 2 + 1] = c[k + 2 + 1]
    BY <1>0, <1>1
  <2> QED
    BY <1>1, <2>1 DEF CheckAt
<1>5. d[k + 4].op = "goto" /\ d[k + 4].cond = Valuations /\ d[k + 4].target = g
  <2>1. /\ d[k + 3 + 1].op = c[k + 3 + 1].op /\ d[k + 3 + 1].cond = c[k + 3 + 1].cond
        /\ d[k + 3 + 1].target = g
    BY <1>0, <1>1
  <2>2. c[k + 4].op = "goto" /\ c[k + 4].cond = Valuations
    BY DEF CheckAt, GotoIR, Instruction
  <2> QED
    BY <1>1, <2>1, <2>2
<1>6. d[k + 1].op = "read" /\ d[k + 1].cond = {}
  BY <1>2 DEF Plain, Instruction
<1> HIDE DEF g
<1>7. Checks(d, v, k, lo, hi, m, g)
  BY <1>1, <1>3, <1>4, <1>5, <1>6, CheckLeads
<1> QED
  BY <1>7 DEF g

\* An array write: every index in range gets to the write, none other does.
LEMMA IndexedWriteSettled ==
    ASSUME Healthy, Decisive, Tight', NEW d \in 1 .. 2,
           NEW lo \in [1 .. d -> SUBSET Valuations], NEW hi \in [1 .. d -> SUBSET Valuations],
           IndexedWrite(lo, hi)
    PROVE  Decisive'
<1> DEFINE n == nextinstr
           check(k) == <<Plain("read"), JumpIf(lo[k]), JumpIf(hi[k]), GotoIR>>
           first == EmitAll(IR, check(1))
           safe1 == backpatch(first, makeList(n + 2), n + 4)
           crash1 == insertToList(makeList(n + 1), n + 3)
           second == EmitAll(safe1, check(2))
           patched == backpatch(second, makeList(n + 6), n + 8)
           safe2 == EmitAll(patched, <<Plain("compute"), Plain("compute")>>)
           crash2 == insertToList(insertToList(crash1, n + 5), n + 7)
           checked == IF Len(lo) = 1 THEN safe1 ELSE safe2
           crash_list == IF Len(lo) = 1 THEN crash1 ELSE crash2
           m == n + IF Len(lo) = 1 THEN 4 ELSE 10
           offset == EmitAll(checked, <<Plain("compute"), Plain("compute"), GotoIR>>)
           pre == backpatch(offset, crash_list, m + 3)
           crash == Emit(pre, Plain("crash"))
           last == backpatch(crash, makeList(m + 2), m + 4)
           inside == {v \in Valuations : \A k \in DOMAIN lo : v \notin lo[k] /\ v \in hi[k]}
           new == {Test(n, inside, m, m + 3), Test(m, Valuations, m + 4, m + 3)}
           S == InstructionType
<1>0. /\ TypeOK /\ Sound /\ ~error_reported /\ n \in Nat /\ n = Len(IR) /\ IR \in Seq(S)
      /\ IR_ARRAY_SIZE \in Nat
  BY TopSettled, HealthyFacts
<1>1. /\ InBody /\ Room(m + 5 - n) /\ IR' = Emit(last, Plain("write"))
      /\ UNCHANGED <<error_reported, stack, abandoned>> /\ decided' = decided \union new
  BY <1>0 DEF IndexedWrite, Decide
<1>2. /\ Len(lo) = d /\ DOMAIN lo = 1 .. d /\ m = n + IF d = 1 THEN 4 ELSE 10
  <2>1. Len(lo) = d /\ DOMAIN lo = 1 .. d
    OBVIOUS
  <2> QED
    BY <2>1
<1>3. /\ m \in Nat /\ n + 4 <= m /\ m + 5 \in LineNumbers
      /\ n + 4 \in LineNumbers /\ (d = 2 => n + 8 \in LineNumbers)
  <2>1. n + (m + 5 - n) <= IR_ARRAY_SIZE
    BY <1>1 DEF Room
  <2> HIDE DEF n, m
  <2> QED
    BY <1>0, <1>2, <2>1 DEF LineNumbers
<1>4. ASSUME NEW k \in 1 .. d PROVE lo[k] \in SUBSET Valuations /\ hi[k] \in SUBSET Valuations
  OBVIOUS
<1>5. /\ safe1 \in Seq(S) /\ Len(safe1) = n + 4 /\ CheckAt(safe1, n, lo[1], hi[1])
      /\ \A j \in 0 .. n - 1 : safe1[j + 1] = IR[j + 1]
  <2> DEFINE a == lo[1]
             b == hi[1]
  <2>1. /\ safe1 = backpatch(EmitAll(IR, <<Plain("read"), JumpIf(a), JumpIf(b), GotoIR>>),
                            makeList(n + 2), n + 4)
        /\ a \in SUBSET Valuations /\ b \in SUBSET Valuations
    OBVIOUS
  <2> HIDE DEF n, a, b, safe1
  <2>2. Len(IR) = n /\ n \in Nat /\ n + 4 \in LineNumbers /\ IR \in Seq(S)
    BY <1>0, <1>3
  <2>3. CheckAdded(IR, safe1, n, a, b)
    BY <1>0, <2>1, <2>2, CheckLines
  <2> QED
    BY <2>3 DEF a, b, CheckAdded
<1> HIDE DEF first, safe1
<1>6. crash1 = {n + 1, n + 3} /\ crash2 = {n + 1, n + 3} \union {n + 5, n + 7}
  BY DEF makeList, insertToList
<1> HIDE DEF crash1, crash2
<1>7. ASSUME d = 2
      PROVE  /\ safe2 \in Seq(S) /\ Len(safe2) = n + 10
             /\ \A j \in 0 .. n + 3 : safe2[j + 1] = safe1[j + 1]
             /\ CheckAt(safe2, n + 4, lo[2], hi[2])
             /\ safe2[n + 8 + 1] = Plain("compute") /\ safe2[n + 9 + 1] = Plain("compute")
  <2> DEFINE k == n + 4
             i == Plain("compute")
             c1 == Emit(patched, i)
             c2 == Emit(c1, i)
  <2>1. /\ k \in Nat /\ k + 4 \in LineNumbers /\ Len(safe1) = k /\ 2 \in 1 .. d
        /\ k + 2 = n + 6 /\ k + 4 = n + 8
    BY <1>0, <1>3, <1>5, <1>7
  <2> HIDE DEF k
  <2>2. /\ patched \in Seq(S) /\ Len(patched) = k + 4 /\ CheckAt(patched, k, lo[2], hi[2])
        /\ \A j \in 0 .. k - 1 : patched[j + 1] = safe1[j + 1]
    <3> DEFINE a == lo[2]
               b == hi[2]
    <3>1. patched = backpatch(EmitAll(safe1, <<Plain("read"), JumpIf(a), JumpIf(b), GotoIR>>),
                              makeList(k + 2), k + 4)
      BY <2>1
    <3>2. a \in SUBSET Valuations /\ b \in SUBSET Valuations
      BY <2>1
    <3> HIDE DEF patched, a, b
    <3>3. safe1 \in Seq(S)
      BY <1>5
    <3>4. CheckAdded(safe1, patched, k, a, b)
      BY <1>0, <2>1, <3>1, <3>2, <3>3, CheckLines
    <3> QED
      BY <3>4 DEF a, b, CheckAdded
  <2> HIDE DEF patched
  <2>3. i \in S
    BY <1>0, InstructionTyped
  <2>4. safe2 = c2
    <3> HIDE DEF i
    <3> QED
      BY <1>0, <2>2, <2>3, EmitEach DEF i
  <2> HIDE DEF i
  <2>5. /\ c1 \in Seq(S) /\ Len(c1) = k + 4 + 1 /\ c1[k + 4 + 1] = i
        /\ \A j \in 0 .. k + 4 - 1 : c1[j + 1] = patched[j + 1]
    <3>1. /\ c1 \in Seq(S) /\ Len(c1) = Len(patched) + 1 /\ c1[Len(patched) + 1] = i
          /\ \A j \in 0 .. Len(patched) - 1 : c1[j + 1] = patched[j + 1]
      BY <1>0, <2>2, <2>3, EmitLine
    <3>2. Len(patched) = k + 4 
      BY <2>1, <2>2
    <3>3. k \in Nat
      BY <2>1
    <3> HIDE DEF c1, S, patched
    <3> QED
      BY <3>1, <3>2, <3>3
  <2> HIDE DEF c1
  <2>6. /\ c2 \in Seq(S) /\ Len(c2) = k + 4 + 1 + 1 /\ c2[k + 4 + 1 + 1] = i
        /\ \A j \in 0 .. k + 4 + 1 - 1 : c2[j + 1] = c1[j + 1]
    <3>1. /\ c2 \in Seq(S) /\ Len(c2) = Len(c1) + 1 /\ c2[Len(c1) + 1] = i
          /\ \A j \in 0 .. Len(c1) - 1 : c2[j + 1] = c1[j + 1]
      BY <1>0, <2>3, <2>5, EmitLine
    <3>2. Len(c1) = k + 4 + 1 
      BY <2>1, <2>5
    <3>3. k \in Nat
      BY <2>1
    <3> HIDE DEF c2, S, patched
    <3> QED
      BY <3>1, <3>2, <3>3
  <2> HIDE DEF c2, safe2
  <2>7. ASSUME NEW j \in 0 .. k + 3 PROVE c2[j + 1] = patched[j + 1]
    <3>1. j \in 0 .. k + 4 - 1 /\ j \in 0 .. k + 4 + 1 - 1
      BY <2>1
    <3> QED
      BY <2>5, <2>6, <3>1
  <2>8. CheckAt(c2, k, lo[2], hi[2])
    <3>1. /\ k \in 0 .. k + 3 /\ k + 1 \in 0 .. k + 3
          /\ k + 2 \in 0 .. k + 3 /\ k + 3 \in 0 .. k + 3
          /\ k + 1 + 1 = k + 2 /\ k + 2 + 1 = k + 3 /\ k + 3 + 1 = k + 4
      BY <2>1
    <3>2. c2[k + 1] = patched[k + 1]
      BY <2>7, <3>1
    <3>3. c2[k + 2] = patched[k + 2] /\ c2[k + 3] = patched[k + 3] /\ c2[k + 4] = patched[k + 4]
      <4>1. /\ c2[k + 1 + 1] = patched[k + 1 + 1] /\ c2[k + 2 + 1] = patched[k + 2 + 1]
            /\ c2[k + 3 + 1] = patched[k + 3 + 1]
        BY <2>7, <3>1
      <4> QED
        BY <3>1, <4>1
    <3> QED
      BY <2>2, <3>2, <3>3 DEF CheckAt
  <2>9. c2[n + 8 + 1] = i /\ c2[n + 9 + 1] = i
    <3>1. k + 4 = n + 8 /\ k + 4 + 1 + 1 = n + 9 + 1 /\ k + 4 \in 0 .. k + 4 + 1 - 1
      BY <1>0, <2>1
    <3>2. c2[k + 4 + 1] = c1[k + 4 + 1]
      BY <2>6, <3>1
    <3> QED
      BY <2>5, <2>6, <3>1, <3>2
  <2>10. ASSUME NEW j \in 0 .. n + 3 PROVE c2[j + 1] = safe1[j + 1]
    <3>1. j \in 0 .. k - 1 /\ j \in 0 .. k + 3
      BY <1>0, <2>1 DEF k
    <3> QED
      BY <2>2, <2>7, <3>1
  <2>11. Len(c2) = n + 10
    BY <1>0, <2>1, <2>6
  <2> QED
    BY <2>4, <2>6, <2>8, <2>9, <2>10, <2>11 DEF i, k
<1> HIDE DEF safe2
<1> HIDE DEF n
<1>8. ASSUME d = 2 PROVE CheckAt(safe2, n, lo[1], hi[1])
  <2>1. /\ n \in 0 .. n + 3 /\ n + 1 \in 0 .. n + 3 /\ n + 2 \in 0 .. n + 3 /\ n + 3 \in 0 .. n + 3
        /\ n + 1 + 1 = n + 2 /\ n + 2 + 1 = n + 3 /\ n + 3 + 1 = n + 4
    BY <1>0
  <2>2. safe2[n + 1] = safe1[n + 1]
    BY <1>7, <1>8, <2>1
  <2>3. safe2[n + 2] = safe1[n + 2] /\ safe2[n + 3] = safe1[n + 3] /\ safe2[n + 4] = safe1[n + 4]
    <3>1. /\ safe2[n + 1 + 1] = safe1[n + 1 + 1] /\ safe2[n + 2 + 1] = safe1[n + 2 + 1]
          /\ safe2[n + 3 + 1] = safe1[n + 3 + 1]
      BY <1>7, <1>8, <2>1
    <3> QED
      BY <2>1, <3>1
  <2> QED
    BY <1>5, <2>2, <2>3 DEF CheckAt
<1>9. /\ checked \in Seq(S) /\ Len(checked) = m /\ CheckAt(checked, n, lo[1], hi[1])
      /\ \A j \in 0 .. n - 1 : checked[j + 1] = IR[j + 1]
  <2>1. CASE d = 1
    BY <1>2, <1>5, <2>1
  <2>2. CASE d = 2
    <3>1. checked = safe2 /\ m = n + 10
      BY <1>2, <2>2
    <3>2. ASSUME NEW j \in 0 .. n - 1 PROVE safe2[j + 1] = IR[j + 1]
      <4>1. j \in 0 .. n + 3
        BY <1>0
      <4> QED
        BY <1>5, <1>7, <2>2, <4>1
    <3> HIDE DEF checked, m
    <3> QED
      BY <1>7, <1>8, <2>2, <3>1, <3>2
  <2> QED
    BY <2>1, <2>2
<1>10. /\ crash_list \subseteq n .. m - 1 /\ {n + 1, n + 3} \subseteq crash_list
       /\ n \notin crash_list /\ n + 2 \notin crash_list
       /\ d = 2 => /\ {n + 4 + 1, n + 4 + 3} \subseteq crash_list /\ n + 4 \notin crash_list
                   /\ n + 4 + 2 \notin crash_list /\ n + 8 \notin crash_list
                   /\ n + 9 \notin crash_list /\ m = n + 10 /\ checked = safe2
       /\ d = 1 => m = n + 4
  <2>1. CASE d = 1
    <3>1. crash_list = {n + 1, n + 3} /\ m = n + 4
      BY <1>2, <1>6, <2>1
    <3> HIDE DEF crash_list, m, checked
    <3> QED
      BY <1>0, <2>1, <3>1
  <2>2. CASE d = 2
    <3>1. crash_list = {n + 1, n + 3} \union {n + 5, n + 7} /\ m = n + 10 /\ checked = safe2
      BY <1>2, <1>6, <2>2
    <3> HIDE DEF crash_list, m, checked
    <3> QED
      BY <1>0, <2>2, <3>1
  <2>3. d = 1 \/ d = 2
    OBVIOUS
  <2> HIDE DEF checked, crash_list, m
  <2> QED
    BY <2>1, <2>2, <2>3
<1> HIDE DEF checked, crash_list, m
<1>20. AccessAdded(checked, IR', m, crash_list)
  <2>1. crash_list \subseteq 0 .. m - 1
    <3>1. n .. m - 1 \subseteq 0 .. m - 1
      BY <1>0
    <3> QED
      BY <1>10, <3>1
  <2> DEFINE w == Emit(last, Plain("write"))
  <2>2. AccessAdded(checked, w, m, crash_list)
    BY <1>0, <1>3, <1>9, <2>1, AccessLines
  <2>3. IR' = w
    BY <1>1
  <2> HIDE DEF w
  <2> QED
    BY <2>2, <2>3
<1>11. /\ Len(IR') = m + 5
       /\ \A j \in 0 .. m - 1 :
            /\ j \notin crash_list => IR'[j + 1] = checked[j + 1]
            /\ IR'[j + 1].op = checked[j + 1].op /\ IR'[j + 1].cond = checked[j + 1].cond
            /\ j \in crash_list => IR'[j + 1].target = m + 3
       /\ \A v \in Valuations : /\ After(IR', m, v) = m + 1 /\ After(IR', m + 1, v) = m + 2
                                /\ After(IR', m + 2, v) = m + 4
  BY <1>20 DEF AccessAdded
<1> HIDE DEF last
<1>12. Lines(IR', {}, 0, {}, 0)
  <2>1. ASSUME NEW j \in 0 .. nextinstr - 1 PROVE IR'[j + 1] = IR[j + 1]
    <3>1. j \in 0 .. m - 1 /\ j \notin crash_list /\ j \in 0 .. n - 1
      BY <1>0, <1>3, <1>10 DEF n
    <3> QED
      BY <1>9, <1>11, <3>1
  <2>2. Lines(IR, {}, 0, {}, 0) /\ Len(IR') \in Nat /\ Len(IR) <= Len(IR')
    <3>1. Lines(IR, {}, 0, {}, 0)
      BY <1>0, LinesSame
    <3> QED
      BY <1>0, <1>3, <1>11, <3>1
  <2> QED
    BY <1>0, <2>1, <2>2, LinesLater
<1>13. ASSUME NEW v \in Valuations
       PROVE  Leads(IR', v, n, m, IF v \in inside THEN m ELSE m + 3)
  <2>0. m \in Int /\ m + 3 \in Int /\ n \in Nat /\ 1 \in 1 .. d
    BY <1>0, <1>3
  <2>1. Leads(IR', v, m, m, m)
    BY <2>0, Here
  <2>2. /\ v \in lo[1] \/ v \notin hi[1] => Leads(IR', v, n, m, m + 3)
        /\ v \notin lo[1] /\ v \in hi[1] =>
             \A h \in Int : Leads(IR', v, n + 4, m, h) => Leads(IR', v, n, m, h)
    <3>1. Checks(IR', v, n, lo[1], hi[1], m, m + 3)
      BY <1>0, <1>3, <1>9, <1>10, <1>20, CheckPasses
    <3> QED
      BY <3>1 DEF Checks
  <2>3. v \in inside <=> \A k \in 1 .. d : v \notin lo[k] /\ v \in hi[k]
    BY <1>2
  <2> HIDE DEF inside
  <2>4. CASE v \in lo[1] \/ v \notin hi[1]
    <3>1. v \notin inside
      BY <2>0, <2>3, <2>4
    <3> QED
      BY <2>2, <2>4, <3>1
  <2>5. CASE v \notin lo[1] /\ v \in hi[1] /\ d = 1
    <3>1. v \in inside
      BY <2>3, <2>5
    <3>2. Leads(IR', v, n + 4, m, m)
      BY <1>10, <2>1, <2>5
    <3> QED
      BY <2>0, <2>2, <2>5, <3>1, <3>2
  <2>6. CASE v \notin lo[1] /\ v \in hi[1] /\ d = 2
    <3> DEFINE k == n + 4
               a == n + 8
               b == n + 9
    <3>1. /\ k \in Nat /\ k + 4 <= m /\ k + 4 = a /\ CheckAt(checked, k, lo[2], hi[2])
          /\ {k + 1, k + 3} \subseteq crash_list /\ k \notin crash_list /\ k + 2 \notin crash_list
      BY <1>0, <1>7, <1>10, <2>6
    <3>2. /\ a \in 0 .. m - 1 /\ b \in 0 .. m - 1 /\ a < b /\ b < m /\ a < m /\ b \in Int
          /\ a + 1 = b /\ b + 1 = m
          /\ a \in 0 .. Len(IR') - 1 /\ b \in 0 .. Len(IR') - 1
          /\ a \notin crash_list /\ b \notin crash_list
          /\ checked[a + 1] = Plain("compute") /\ checked[b + 1] = Plain("compute")
      BY <1>0, <1>3, <1>7, <1>10, <1>11, <2>6
    <3>3. 1 .. d = {1, 2}
      BY <2>6
    <3>4. (\A h \in Int : Leads(IR', v, k, m, h) => Leads(IR', v, n, m, h))
      BY <2>2, <2>6
    <3> HIDE DEF k, a, b
    <3>5. /\ v \in lo[2] \/ v \notin hi[2] => Leads(IR', v, k, m, m + 3)
          /\ v \notin lo[2] /\ v \in hi[2] =>
               \A h \in Int : Leads(IR', v, k + 4, m, h) => Leads(IR', v, k, m, h)
      <4>1. Checks(IR', v, k, lo[2], hi[2], m, m + 3)
        BY <1>3, <1>20, <3>1, CheckPasses
      <4> QED
        BY <4>1 DEF Checks
    <3>6. IR'[a + 1] = Plain("compute") /\ IR'[b + 1] = Plain("compute")
      BY <1>11, <3>2
    <3>7. After(IR', a, v) = b /\ After(IR', b, v) = m
      BY <3>2, <3>6, AtPlain
    <3>8. Leads(IR', v, b, m, m)
      BY <2>0, <2>1, <3>2, <3>7, Forward
    <3>9. Leads(IR', v, a, m, m)
      BY <2>0, <3>2, <3>7, <3>8, Forward
    <3>10. CASE v \in lo[2] \/ v \notin hi[2]
      <4>1. v \notin inside
        BY <2>3, <3>3, <3>10
      <4> QED
        BY <2>0, <3>4, <3>5, <3>10, <4>1
    <3>11. CASE v \notin lo[2] /\ v \in hi[2]
      <4>1. v \in inside
        BY <2>3, <2>6, <3>3, <3>11
      <4> QED
        BY <2>0, <3>1, <3>4, <3>5, <3>9, <3>11, <4>1
    <3> QED
      BY <3>10, <3>11
  <2>7. d = 1 \/ d = 2
    OBVIOUS
  <2> QED
    BY <2>4, <2>5, <2>6, <2>7
<1>14. ASSUME NEW v \in Valuations PROVE Leads(IR', v, m, m + 3, m + 4)
  <2> DEFINE a == m + 1
             b == m + 2
             t == m + 3
             u == m + 4
  <2>1. /\ m \in 0 .. Len(IR') - 1 /\ a \in 0 .. Len(IR') - 1 /\ b \in 0 .. Len(IR') - 1
        /\ a \in Int /\ b \in Int /\ t \in Int /\ u \in Int
        /\ m < a /\ a < b /\ b < u /\ m < t /\ a < t /\ b < t
    BY <1>3, <1>11
  <2>2. After(IR', m, v) = a /\ After(IR', a, v) = b /\ After(IR', b, v) = u
    BY <1>11
  <2> HIDE DEF a, b, t, u
  <2>3. Leads(IR', v, u, t, u)
    BY <2>1, Here
  <2>4. Leads(IR', v, b, t, u)
    BY <2>1, <2>2, <2>3, Forward
  <2>5. Leads(IR', v, a, t, u)
    BY <2>1, <2>2, <2>4, Forward
  <2>6. Leads(IR', v, m, t, u)
    BY <2>1, <2>2, <2>5, Forward
  <2> QED
    BY <2>6 DEF t, u
<1> HIDE DEF inside
<1>15. ASSUME NEW v \in Valuations
       PROVE  Arrives(IR', abandoned', Test(n, inside, m, m + 3), v)
  <2> DEFINE t == Test(n, inside, m, m + 3)
  <2>1. /\ t.start = n /\ {t.yes, t.no} = {m, m + 3}
        /\ Goal(t, v) = IF v \in inside THEN m ELSE m + 3
    BY DEF Test, Goal
  <2>2. /\ n \in 0 .. Len(IR') /\ m \in 0 .. Len(IR') /\ n <= m
        /\ {m, m + 3} \subseteq m .. Len(IR')
    BY <1>0, <1>3, <1>11
  <2> HIDE DEF t
  <2>3. Arrives(IR', abandoned', t, v)
    BY <1>13, <2>1, <2>2 DEF Arrives
  <2> QED
    BY <2>3 DEF t
<1>16. ASSUME NEW v \in Valuations
       PROVE  Arrives(IR', abandoned', Test(m, Valuations, m + 4, m + 3), v)
  <2> DEFINE t == Test(m, Valuations, m + 4, m + 3)
             b == m + 3
  <2>1. t.start = m /\ {t.yes, t.no} = {m + 4, m + 3} /\ Goal(t, v) = m + 4
    BY DEF Test, Goal
  <2>2. /\ m \in 0 .. Len(IR') /\ b \in 0 .. Len(IR') /\ m <= b
        /\ {m + 4, m + 3} \subseteq b .. Len(IR')
    BY <1>3, <1>11
  <2>3. Leads(IR', v, m, b, m + 4)
    BY <1>14
  <2> HIDE DEF t, b
  <2>4. Arrives(IR', abandoned', t, v)
    BY <2>1, <2>2, <2>3 DEF Arrives
  <2> QED
    BY <2>4 DEF t
<1>17. \A t \in new : \A v \in Valuations : Arrives(IR', abandoned', t, v)
  BY <1>15, <1>16
<1> HIDE DEF new
<1> QED
  BY <1>1, <1>12, <1>17, InBodySettled

-----------------------------------------------------------------------------
(* Every test decides                                                      *)

\* Every step inside a function keeps the invariant.
LEMMA DecisiveSteps ==
    ASSUME Healthy, Decisive, Tight', [Next]_vars
    PROVE  Decisive' \/ BeginFunction \/ EndFunction \/ ReportError \/ UNCHANGED vars
<1>1. CASE \E a \in Atoms : Variable(a) \/ EndArgument(a)
  <2>1. PICK a \in Atoms : Variable(a) \/ EndArgument(a)
    BY <1>1
  <2>2. Holds(a) \in SUBSET Valuations /\ (Variable(a) => Atomic(Holds(a)))
    BY DEF Holds, Variable
  <2> QED
    BY <2>1, <2>2, AtomicSettled, ArgumentSettled
<1>2. CASE \E b \in BOOLEAN : Constant(b)
  <2>1. PICK b \in BOOLEAN : Constant(b)
    BY <1>2
  <2>2. Atomic(IF b THEN Valuations ELSE {})
    BY <2>1 DEF Constant
  <2>3. (IF b THEN Valuations ELSE {}) \in SUBSET Valuations
    OBVIOUS
  <2> QED
    BY <2>2, <2>3, AtomicSettled
<1>3. CASE \/ \E op \in {"or", "and"} : Operator(op)
           \/ Negation \/ BeginArgument
           \/ \E op \in {"assign", "return"} : Begin(op, op)
           \/ \E k \in {"while", "if", "block"} : Begin(k, k)
  BY <1>3, OpenersSettled
<1>4. CASE ReduceOr \/ ReduceAnd \/ ReduceNot
  BY <1>4, ReduceSettled
<1>5. CASE \E a, b \in Atoms : CompareBooleans(a, b) \/ PackedArgument(a, b)
  BY <1>5, ResultsSettled
<1>6. CASE (\E op \in {"assign", "return"} : Simple(op)) \/ Assign \/ Return
  BY <1>6, SimpleSettled, ConsumersSettled
<1>7. CASE \E n \in 1 .. 2 :
             \E lo, hi \in [1 .. n -> {{v \in Valuations : a \in v} : a \in Atoms}] :
               IndexedWrite(lo, hi)
  <2>1. PICK n \in 1 .. 2 :
          \E lo, hi \in [1 .. n -> {{v \in Valuations : a \in v} : a \in Atoms}] :
            IndexedWrite(lo, hi)
    BY <1>7
  <2>2. \E lo, hi \in [1 .. n -> SUBSET Valuations] : IndexedWrite(lo, hi)
    BY <2>1, BoundsConditions
  <2> QED
    BY <2>2, IndexedWriteSettled
<1>8. CASE WhileBody \/ ThenBody
  BY <1>8, BodySettled
<1>9. CASE EndWhile \/ ElseBody \/ EndElse \/ EndBlock
  BY <1>9, LoopSettled, ElseSettled, EndElseSettled, BlockSettled
<1> QED
  BY <1>1, <1>2, <1>3, <1>4, <1>5, <1>6, <1>7, <1>8, <1>9 DEF Next

\* After an error nothing more is promised.
LEMMA SilentStep ==
    ASSUME [Next]_vars, error_reported
    PROVE  UNCHANGED <<decided, abandoned>>
<1>1. /\ \A tests : Decide(tests) => UNCHANGED decided
      /\ \A list : Abandon(list) => UNCHANGED abandoned
  BY DEF Decide, Abandon
<1>2. CASE \/ \E a \in Atoms : Variable(a) \/ EndArgument(a)
           \/ \E b \in BOOLEAN : Constant(b)
           \/ \E a, b \in Atoms : CompareBooleans(a, b) \/ PackedArgument(a, b)
  <2>1. ASSUME NEW a, Variable(a) PROVE UNCHANGED <<decided, abandoned>>
    BY <2>1 DEF Variable, Atomic
  <2>2. ASSUME NEW a, EndArgument(a) PROVE UNCHANGED <<decided, abandoned>>
    BY <1>1, <2>2 DEF EndArgument
  <2>3. ASSUME NEW b, Constant(b) PROVE UNCHANGED <<decided, abandoned>>
    BY <2>3 DEF Constant, Atomic
  <2>4. ASSUME NEW a, NEW b, CompareBooleans(a, b) PROVE UNCHANGED <<decided, abandoned>>
    BY <1>1, <2>4 DEF CompareBooleans
  <2>5. ASSUME NEW a, NEW b, PackedArgument(a, b) PROVE UNCHANGED <<decided, abandoned>>
    BY <1>1, <2>5 DEF PackedArgument
  <2> QED
    BY <1>2, <2>1, <2>2, <2>3, <2>4, <2>5
<1>3. CASE \/ \E op \in {"or", "and"} : Operator(op)
           \/ Negation \/ ReduceOr \/ ReduceAnd \/ ReduceNot \/ BeginArgument
  BY <1>3 DEF Operator, Negation, ReduceOr, ReduceAnd, ReduceNot, BeginArgument
<1>4. CASE \E op \in {"assign", "return"} : Simple(op) \/ Begin(op, op)
  BY <1>4 DEF Simple, Begin
<1>5. CASE \E k \in {"while", "if", "block"} : Begin(k, k)
  BY <1>5 DEF Begin
<1>6. CASE Assign \/ Return
  BY <1>1, <1>6 DEF Assign, Return
<1>7. CASE \E n \in 1 .. 2 :
             \E lo, hi \in [1 .. n -> {{v \in Valuations : a \in v} : a \in Atoms}] :
               IndexedWrite(lo, hi)
  <2>1. ASSUME NEW lo, NEW hi, IndexedWrite(lo, hi) PROVE UNCHANGED <<decided, abandoned>>
    BY <1>1, <2>1 DEF IndexedWrite
  <2> QED
    BY <1>7, <2>1
<1>8. CASE WhileBody \/ EndWhile \/ ThenBody
  BY <1>1, <1>8 DEF WhileBody, EndWhile, ThenBody
<1>9. CASE ElseBody \/ EndElse \/ EndBlock
  BY <1>1, <1>9 DEF ElseBody, EndElse, EndBlock
<1>10. CASE BeginFunction \/ EndFunction \/ ReportError \/ UNCHANGED vars
  BY <1>10 DEF BeginFunction, EndFunction, ReportError, vars
<1> QED
  BY <1>2, <1>3, <1>4, <1>5, <1>6, <1>7, <1>8, <1>9, <1>10 DEF Next

\* What was decided is, on the same lines.
LEMMA DecidedKept ==
    ASSUME Decisive, UNCHANGED <<IR, decided, abandoned>>
    PROVE  \A d \in decided' : \A v \in Valuations : Arrives(IR', abandoned', d, v)
BY DEF Decisive

\* A function begins with an item that has no lines, and ends with none left.
LEMMA FunctionSettled ==
    ASSUME Linked, Decisive, ~error_reported, BeginFunction \/ EndFunction
    PROVE  Decisive'
<1>1. UNCHANGED <<IR, decided, abandoned>>
  BY DEF BeginFunction, EndFunction
<1>2. Valuations' = Valuations
  BY DEF Valuations
<1>3. CASE BeginFunction
  <2> DEFINE i == Item("function")
  <2>1. stack = <<>> /\ stack' = <<i>>
    BY <1>3 DEF BeginFunction, Push
  <2>2. i.k = "function" /\ Lists(i) = {}
    BY DEF Item, Lists
  <2> HIDE DEF i
  <2>3. Depth' = 1 /\ stack'[1] = i /\ Top' = i
    BY <2>1 DEF Depth, Top
  <2>4. ItemSettled(IR', abandoned', stack', 1, End(1)')
    BY <2>2, <2>3 DEF ItemSettled
  <2>5. ~ExpectsExpression'
    BY <2>2, <2>3 DEF ExpectsExpression, Openers
  <2>6. Settled'
    BY <2>3, <2>4, <2>5 DEF Settled
  <2> QED
    BY <1>1, <1>2, <2>6, DecidedKept DEF Decisive
<1>4. CASE EndFunction
  <2>1. Depth > 0 /\ Top.k = "function" /\ Pop(1)
    BY <1>4 DEF EndFunction, BodyDone
  <2>2. Sound /\ Depth \in Nat /\ Healthy
    BY <2>1, StackItems DEF Linked, Healthy
  <2>3. Depth = 1
    BY <2>1, <2>2 DEF Sound, Shape, Top
  <2>4. Depth' = 0
    <3>1. Len(stack') = 1 - 1 + 1 - 1
      BY <2>1, <2>2, <2>3, PopMoves
    <3> QED
      BY <3>1 DEF Depth
  <2>5. Settled'
    BY <2>4 DEF Settled, ExpectsExpression
  <2> QED
    BY <1>1, <1>2, <2>5, DecidedKept DEF Decisive
<1> QED
  BY <1>3, <1>4

\* Every step keeps the invariant.
LEMMA DecisiveNext ==
    ASSUME Linked, Linked', Decisive, [Next]_vars
    PROVE  Decisive'
<1>1. Valuations' = Valuations
  BY DEF Valuations
<1>2. ASSUME UNCHANGED <<IR, decided, abandoned>>, error_reported' PROVE Decisive'
  BY <1>1, <1>2, DecidedKept DEF Decisive
<1>3. CASE error_reported
  <2>1. UNCHANGED <<IR, decided, abandoned>> /\ error_reported'
    BY <1>3, FrozenStep, SilentStep, ErrorStep
  <2> QED
    BY <1>2, <2>1
<1>4. CASE ReportError
  BY <1>2, <1>4 DEF ReportError
<1>5. CASE UNCHANGED vars
  <2>1. UNCHANGED <<IR, decided, abandoned, stack, error_reported>>
    BY <1>5 DEF vars
  <2>2. Settled' <=> Settled
    BY <2>1 DEF Settled, ExpectsExpression, Top, Depth, End, nextinstr, ItemSettled, Answers,
                Guards, Skips, Stays, Stuck, Lists
  <2> QED
    BY <1>1, <2>1, <2>2, DecidedKept DEF Decisive
<1>6. CASE ~error_reported /\ Depth = 0
  <2>1. BeginFunction \/ ReportError \/ UNCHANGED vars
    BY <1>6, BetweenFunctions DEF Linked
  <2> QED
    BY <1>4, <1>5, <1>6, <2>1, FunctionSettled
<1>7. CASE ~error_reported /\ Depth # 0
  <2>1. Healthy /\ Tight'
    BY <1>7, StackItems DEF Healthy, Linked
  <2> QED
    BY <1>4, <1>5, <1>7, <2>1, DecisiveSteps, FunctionSettled
<1> QED
  BY <1>3, <1>6, <1>7

\* It holds of the empty program.
LEMMA DecisiveAtFirst == Init => Decisive
<1> SUFFICES ASSUME Init PROVE Decisive
  OBVIOUS
<1>1. decided = {} /\ Depth = 0
  BY DEF Init, Depth
<1> QED
  BY <1>1 DEF Decisive, Settled, ExpectsExpression

\* So it always holds.
LEMMA DecisiveAlways == Spec => [](Linked /\ Decisive)
<1>1. Linked /\ Decisive /\ [Next]_vars => (Linked /\ Decisive)'
  BY LinkedNext, DecisiveNext
<1>2. Init => Linked /\ Decisive
  BY LinkedAtFirst, DecisiveAtFirst
<1> QED
  BY <1>1, <1>2, PTL DEF Spec

\* Short circuits, branches, loops and bounds checks: in every compiled program
\* control that reaches a completed test goes on at its yes side in exactly the
\* valuations that make it true and at its no side in the others, unless it
\* meets a jump of one of the two constructs that drop their lists.  The lists
\* that grammar.y backpatches are the right ones, for any nesting of operators
\* and statements, any number of conditions and any size of the IR array.
THEOREM TestsDecideAlways == Spec => []TestsDecide
<1>1. Linked /\ Decisive => TestsDecide
  BY DecisiveTests DEF Linked
<1> QED
  BY <1>1, DecisiveAlways, PTL

\* And an expression whose jumps are still open leaves through a jump of its
\* true list exactly when it is true and through one of its false list when not,
\* whatever has been reduced to it: the lists that OR, AND and NOT merge and
\* swap never lose or exchange a way out.
THEOREM ExpressionsDecideAlways == Spec => []ExpressionsDecide
<1>1. Linked /\ Decisive => ExpressionsDecide
  BY DecisiveExpressions DEF Linked
<1> QED
  BY <1>1, DecisiveAlways, PTL
-----------------------------------------------------------------------------
(* Which jumps lead behind the function                                    *)

\* The IR has k lines, and none of the function being compiled jumps past
\* line k, or not even there.
Good(c, k) ==
    /\ c \in Seq(InstructionType) /\ Len(c) = k
    /\ \A i \in Base .. k - 1 : c[i + 1].target <= k
Sealed(c, k) ==
    /\ c \in Seq(InstructionType) /\ Len(c) = k
    /\ \A i \in Base .. k - 1 : c[i + 1].target < k

\* The targets of typed code are integers.
LEMMA TargetsTyped ==
    ASSUME Healthy, NEW c \in Seq(InstructionType), NEW i \in 1 .. Len(c)
    PROVE  c[i].target \in Int
<1>1. c[i] \in InstructionType
  OBVIOUS
<1>2. IR_ARRAY_SIZE \in Nat
  BY HealthyFacts
<1> QED
  BY <1>1, <1>2 DEF InstructionType

LEMMA SealedIsGood ==
    ASSUME Healthy, NEW c, NEW k \in Nat, Sealed(c, k)
    PROVE  Good(c, k)
<1>1. Base \in Nat
  BY HealthyFacts
<1>2. ASSUME NEW i \in Base .. k - 1 PROVE c[i + 1].target \in Int
  <2>1. i + 1 \in 1 .. Len(c)
    BY <1>1 DEF Sealed
  <2> QED
    BY <2>1, TargetsTyped DEF Sealed
<1> QED
  BY <1>2 DEF Sealed, Good

\* Instructions without a target are emitted behind all others.
LEMMA EmitAllSeals ==
    ASSUME Healthy, NEW c, NEW k \in Nat, Good(c, k), NEW is \in Seq(InstructionType),
           Len(is) > 0, \A j \in 1 .. Len(is) : is[j].target = -1
    PROVE  /\ Sealed(EmitAll(c, is), k + Len(is))
           /\ Good(EmitAll(c, is), k + Len(is))
<1> DEFINE d == c \o is
           m == k + Len(is)
<1>1. EmitAll(c, is) = d /\ Base \in Nat
  BY HealthyFacts DEF Compiling, EmitAll
<1>2. /\ d \in Seq(InstructionType) /\ Len(d) = m
      /\ \A j \in 1 .. k : d[j] = c[j]
      /\ \A j \in k + 1 .. m : d[j] = is[j - k]
  <2>1. c \in Seq(InstructionType) /\ Len(c) = k
    BY DEF Good
  <2>2. d \in Seq(InstructionType)
    BY <2>1
  <2>3. Len(d) = m
    BY <2>1
  <2>4. \A j \in 1 .. k : d[j] = c[j]
    BY <2>1
  <2>5. \A j \in k + 1 .. m : d[j] = is[j - k]
    BY <2>1
  <2> QED
    BY <2>2, <2>3, <2>4, <2>5
<1>3. m \in Nat /\ k < m
  OBVIOUS
<1>4. ASSUME NEW i \in Base .. m - 1 PROVE d[i + 1].target < m
  <2>1. CASE i < k
    <3>1. i + 1 \in 1 .. k /\ i + 1 \in 1 .. Len(c) /\ i \in Base .. k - 1
      BY <1>1, <2>1 DEF Good
    <3>2. c[i + 1].target \in Int
      BY <3>1, TargetsTyped DEF Good
    <3> QED
      BY <1>2, <1>3, <3>1, <3>2 DEF Good
  <2>2. CASE i >= k
    <3>1. i + 1 \in k + 1 .. m /\ i + 1 - k \in 1 .. Len(is)
      BY <1>1, <1>3, <2>2
    <3> QED
      BY <1>2, <1>3, <3>1
  <2>3. i < k \/ i >= k
    BY <1>1
  <2> QED
    BY <2>1, <2>2, <2>3
<1>5. Sealed(EmitAll(c, is), m)
  BY <1>1, <1>2, <1>4 DEF Sealed
<1> QED
  BY <1>3, <1>5, SealedIsGood

LEMMA EmitSeals ==
    ASSUME Healthy, NEW c, NEW k \in Nat, Good(c, k), NEW i \in InstructionType, i.target = -1
    PROVE  Sealed(Emit(c, i), k + 1) /\ Good(Emit(c, i), k + 1)
<1> DEFINE is == <<i>>
<1>1. is \in Seq(InstructionType) /\ Len(is) = 1
  OBVIOUS
<1>2. \A j \in 1 .. Len(is) : is[j].target = -1
  <2>1. is[1] = i
    OBVIOUS
  <2> HIDE DEF is
  <2> QED
    BY <1>1, <2>1
<1>3. EmitAll(c, is) = Emit(c, i)
  <2>1. c \o <<i>> = Append(c, i)
    BY DEF Good
  <2> QED
    BY <2>1 DEF EmitAll, Emit
<1> HIDE DEF is
<1>4. Len(is) > 0
  BY <1>1
<1>5. Sealed(EmitAll(c, is), k + Len(is)) /\ Good(EmitAll(c, is), k + Len(is))
  BY <1>1, <1>2, <1>4, EmitAllSeals
<1> QED
  BY <1>1, <1>3, <1>5

\* No list is patched to a line behind the next.
LEMMA PatchGood ==
    ASSUME Healthy, NEW c, NEW k \in Nat, Good(c, k), NEW list, NEW t \in LineNumbers, t <= k
    PROVE  Good(backpatch(c, list, t), k)
<1> DEFINE d == backpatch(c, list, t)
<1>1. ~error_reported /\ Base \in Nat /\ IR_ARRAY_SIZE \in Nat
  BY HealthyFacts DEF Compiling
<1>2. t \in -1 .. IR_ARRAY_SIZE
  BY <1>1 DEF LineNumbers
<1>3. d \in Seq(InstructionType) /\ Len(d) = k
  BY <1>2, PatchTyped DEF Good
<1>4. ASSUME NEW i \in Base .. k - 1 PROVE d[i + 1].target <= k
  <2>1. i + 1 \in DOMAIN c /\ c[i + 1].target <= k
    BY <1>1 DEF Good
  <2>2. c[i + 1] \in InstructionType
    BY <2>1 DEF Good
  <2>3. d[i + 1] = IF i + 1 - 1 \in list THEN [c[i + 1] EXCEPT !.target = t] ELSE c[i + 1]
    BY <1>1, <2>1 DEF backpatch
  <2>4. [c[i + 1] EXCEPT !.target = t].target = t
    BY <2>2 DEF InstructionType
  <2> QED
    BY <2>1, <2>3, <2>4
<1> QED
  BY <1>3, <1>4 DEF Good

\* The instructions the actions emit have no target.
LEMMA NoTargets ==
    ASSUME Healthy
    PROVE  /\ \A cond \in SUBSET Valuations :
                JumpIf(cond) \in InstructionType /\ JumpIf(cond).target = -1
           /\ GotoIR \in InstructionType /\ GotoIR.target = -1
           /\ \A op \in {"assign", "return", "param", "call", "crash", "read", "write",
                         "compute"} : Plain(op) \in InstructionType /\ Plain(op).target = -1
BY InstructionTyped DEF Healthy, Sound, JumpIf, GotoIR, Plain, Instruction

LEMMA TwoWaySeals ==
    ASSUME Healthy, NEW c, NEW k \in Nat, Good(c, k), NEW cond \in SUBSET Valuations
    PROVE  Sealed(TwoWay(c, cond), k + 2) /\ Good(TwoWay(c, cond), k + 2)
<1> DEFINE is == <<JumpIf(cond), GotoIR>>
<1>1. is \in Seq(InstructionType) /\ Len(is) = 2 /\ \A j \in 1 .. Len(is) : is[j].target = -1
  <2>1. is \in Seq(InstructionType) /\ Len(is) = 2
    BY NoTargets
  <2>2. is[1].target = -1 /\ is[2].target = -1
    BY NoTargets
  <2> HIDE DEF is
  <2> QED
    BY <2>1, <2>2
<1>2. TwoWay(c, cond) = EmitAll(c, is)
  BY DEF TwoWay
<1> HIDE DEF is
<1>4. Len(is) > 0
  BY <1>1
<1>3. Sealed(EmitAll(c, is), k + Len(is)) /\ Good(EmitAll(c, is), k + Len(is))
  BY <1>1, <1>4, EmitAllSeals
<1> QED
  BY <1>1, <1>2, <1>3

\* No jump leads behind the next line.
LEMMA GoodFirst ==
    ASSUME Healthy
    PROVE  Good(IR, nextinstr)
<1>1. /\ IR \in Seq(InstructionType) /\ nextinstr \in Nat /\ Base \in Nat
      /\ \A i \in Base .. nextinstr - 1 : IR[i + 1].target \in {-1} \union Base .. nextinstr
  BY HealthyFacts, SizeFacts DEF Healthy, Sound, Within
<1> QED
  BY <1>1 DEF Good, nextinstr

\* The function begins where it did.
LEMMA SameBase ==
    ASSUME Healthy
    PROVE  /\ \A i : Push(i) => Depth' = Depth + 1 /\ Base' = Base /\ stack'[Depth + 1] = i
                                /\ \A p \in 1 .. Depth : stack'[p] = stack[p]
           /\ \A n \in 0 .. Depth - 1 : Pop(n) =>
                Depth' = Depth - n /\ Base' = Base /\ \A p \in 1 .. Depth - n : stack'[p] = stack[p]
           /\ \A n \in 0 .. Depth - 1 : \A i : Replace(n, i) =>
                /\ Depth' = Depth - n + 1 /\ Base' = Base /\ stack'[Depth - n + 1] = i
                /\ \A p \in 1 .. Depth - n : stack'[p] = stack[p]
<1> DEFINE Short(n) == SubSeq(stack, 1, Depth - n)
           Longer(n, i) == Append(Short(n), i)
<1>1. Depth \in Nat /\ Depth > 0 /\ stack \in Seq(ItemType) /\ Len(stack) = Depth
  BY StackItems DEF Healthy, Depth
<1>2. ASSUME NEW n \in 0 .. Depth - 1, NEW i
      PROVE  /\ Len(Short(n)) = Depth - n /\ \A p \in 1 .. Depth - n : Short(n)[p] = stack[p]
             /\ Len(Longer(n, i)) = Depth - n + 1 /\ Longer(n, i)[Depth - n + 1] = i
             /\ \A p \in 1 .. Depth - n : Longer(n, i)[p] = stack[p]
  <2> DEFINE t == SubSeq(stack, 1, Depth - n)
             S == ItemType \union {i}
  <2>1. t \in Seq(ItemType) /\ Len(t) = Depth - n /\ \A p \in 1 .. Depth - n : t[p] = stack[p]
    BY <1>1
  <2> HIDE DEF t
  <2>2. /\ Len(Append(t, i)) = Len(t) + 1 /\ Append(t, i)[Len(t) + 1] = i
        /\ \A p \in 1 .. Len(t) : Append(t, i)[p] = t[p]
    BY <2>1
  <2> QED
    BY <2>1, <2>2 DEF t
<1>3. ASSUME NEW i
      PROVE  /\ Len(Append(stack, i)) = Depth + 1 /\ Append(stack, i)[Depth + 1] = i
             /\ \A p \in 1 .. Depth : Append(stack, i)[p] = stack[p]
  BY <1>1
<1>4. ASSUME NEW i, Push(i)
      PROVE  Depth' = Depth + 1 /\ Base' = Base /\ stack'[Depth + 1] = i
             /\ \A p \in 1 .. Depth : stack'[p] = stack[p]
  <2>1. stack' = Append(stack, i) /\ Depth' = Len(stack')
    BY <1>4 DEF Push, Depth
  <2>2. 1 \in 1 .. Depth
    BY <1>1
  <2> QED
    BY <1>3, <2>1, <2>2 DEF Base
<1>5. ASSUME NEW n \in 0 .. Depth - 1, Pop(n)
      PROVE  Depth' = Depth - n /\ Base' = Base /\ \A p \in 1 .. Depth - n : stack'[p] = stack[p]
  <2>1. stack' = Short(n) /\ Depth' = Len(stack')
    BY <1>5 DEF Pop, Depth
  <2> HIDE DEF Short, Longer
  <2>2. 1 \in 1 .. Depth - n
    BY <1>1
  <2>3. Depth' = Depth - n /\ \A p \in 1 .. Depth - n : stack'[p] = stack[p]
    BY <1>2, <2>1
  <2> QED
    BY <2>2, <2>3 DEF Base
<1>6. ASSUME NEW n \in 0 .. Depth - 1, NEW i, Replace(n, i)
      PROVE  /\ Depth' = Depth - n + 1 /\ Base' = Base /\ stack'[Depth - n + 1] = i
             /\ \A p \in 1 .. Depth - n : stack'[p] = stack[p]
  <2>1. stack' = Longer(n, i) /\ Depth' = Len(stack')
    BY <1>6 DEF Replace, Depth
  <2> HIDE DEF Short, Longer
  <2>2. 1 \in 1 .. Depth - n
    BY <1>1
  <2>3. /\ Depth' = Depth - n + 1 /\ stack'[Depth - n + 1] = i
        /\ \A p \in 1 .. Depth - n : stack'[p] = stack[p]
    BY <1>2, <2>1
  <2> QED
    BY <2>2, <2>3 DEF Base
<1> QED
  BY <1>4, <1>5, <1>6

\* Why a jump may lead to the line emitted next: a completed test goes there,
\* or the body that begins there was the goal of one still on the stack.
Reason ==
    \/ \E d \in decided : d.start \in Base .. nextinstr - 1 /\ nextinstr \in {d.yes, d.no}
    \/ \E p \in 1 .. Depth :
         stack[p].k \in {"while_body", "then", "else"} /\ stack[p].quad = nextinstr

JumpBehind == \E i \in Base .. nextinstr - 1 : IR[i + 1].target = nextinstr

Leaving == ~error_reported /\ Depth > 0 /\ JumpBehind => Reason

\* No jump leads there when the last thing done was to emit.
LEMMA SealedLeaves ==
    ASSUME Healthy, NEW k \in Nat, Sealed(IR', k), Base' = Base
    PROVE  Leaving'
<1>1. nextinstr' = k
  BY DEF Sealed, nextinstr
<1> QED
  BY <1>1 DEF Sealed, Leaving, JumpBehind

\* The reason stays when items are put on the stack or taken off that are no
\* bodies waiting for their end.
LEMMA ReasonStays ==
    ASSUME Healthy, Leaving, NEW q \in 0 .. Depth, Depth' \in Nat, Depth' >= q, Base' = Base,
           \A p \in 1 .. q : stack'[p] = stack[p],
           \A p \in q + 1 .. Depth : stack[p].k \notin {"while_body", "then", "else"},
           UNCHANGED <<IR, decided>>
    PROVE  Leaving'
<1>1. Depth \in Nat /\ ~error_reported /\ nextinstr' = nextinstr /\ Depth > 0
  BY HealthyFacts DEF Compiling, nextinstr
<1> SUFFICES ASSUME JumpBehind PROVE Reason'
  BY <1>1 DEF Leaving, JumpBehind
<1>2. Reason
  BY <1>1 DEF Leaving
<1>3. CASE \E d \in decided : d.start \in Base .. nextinstr - 1 /\ nextinstr \in {d.yes, d.no}
  BY <1>1, <1>3 DEF Reason
<1>4. CASE \E p \in 1 .. Depth :
             stack[p].k \in {"while_body", "then", "else"} /\ stack[p].quad = nextinstr
  <2>1. PICK p \in 1 .. Depth :
               stack[p].k \in {"while_body", "then", "else"} /\ stack[p].quad = nextinstr
    BY <1>4
  <2>2. p \in 1 .. q
    BY <1>1, <2>1
  <2>3. p \in 1 .. Depth' /\ stack'[p] = stack[p]
    BY <1>1, <2>2
  <2> QED
    BY <1>1, <2>1, <2>3 DEF Reason
<1> QED
  BY <1>2, <1>3, <1>4 DEF Reason
\* Instructions alone, or expressions with new jumps of their own.
LEMMA ExpressionLeaves ==
    ASSUME Healthy
    PROVE  /\ \A cond \in SUBSET Valuations : Atomic(cond) => Leaving'
           /\ \A a, b : CompareBooleans(a, b) \/ PackedArgument(a, b) => Leaving'
           /\ \A op \in {"assign", "return"} : Simple(op) => Leaving'
<1> DEFINE n == nextinstr
<1>1. Good(IR, n) /\ n \in Nat
  BY GoodFirst, HealthyFacts
<1> HIDE DEF n
<1>2. ASSUME NEW cond \in SUBSET Valuations, Atomic(cond) PROVE Leaving'
  <2>1. Sealed(IR', n + 2)
    BY <1>1, <1>2, TwoWaySeals DEF Atomic
  <2>2. Base' = Base
    BY <1>2, SameBase DEF Atomic
  <2> QED
    BY <1>1, <2>1, <2>2, SealedLeaves
<1>3. ASSUME NEW a, NEW b, CompareBooleans(a, b) PROVE Leaving'
  <2> DEFINE ca == {v \in Valuations : a \in v}
             cb == {v \in Valuations : b \in v}
             both == {v \in Valuations : (a \in v) <=> (b \in v)}
             c == TwoWay(IR, ca)
             d == TwoWay(c, cb)
  <2>1. IR' = TwoWay(d, both) /\ Base' = Base
    BY <1>3, SameBase DEF CompareBooleans
  <2>2. {ca, cb, both} \subseteq SUBSET Valuations
    OBVIOUS
  <2> HIDE DEF ca, cb, both
  <2>3. Good(c, n + 2)
    BY <1>1, <2>2, TwoWaySeals
  <2> HIDE DEF c
  <2>4. Good(d, n + 2 + 2)
    BY <1>1, <2>2, <2>3, TwoWaySeals
  <2> HIDE DEF d
  <2>5. Sealed(IR', n + 2 + 2 + 2)
    BY <1>1, <2>1, <2>2, <2>4, TwoWaySeals
  <2> QED
    BY <1>1, <2>1, <2>5, SealedLeaves
<1>4. ASSUME NEW a, NEW b, PackedArgument(a, b) PROVE Leaving'
  <2> DEFINE ca == {v \in Valuations : a \in v}
             cb == {v \in Valuations : b \in v}
             c == TwoWay(IR, cb)
             is == <<Plain("param"), Plain("call")>>
             d == EmitAll(c, is)
  <2>1. IR' = TwoWay(d, ca) /\ Base' = Base
    BY <1>4, SameBase DEF PackedArgument
  <2>2. {ca, cb} \subseteq SUBSET Valuations
    OBVIOUS
  <2> HIDE DEF ca, cb
  <2>3. Good(c, n + 2)
    BY <1>1, <2>2, TwoWaySeals
  <2>4. is \in Seq(InstructionType) /\ Len(is) = 2
    BY NoTargets
  <2>5. \A j \in 1 .. Len(is) : is[j].target = -1
    <3>1. is[1].target = -1 /\ is[2].target = -1
      BY NoTargets
    <3> HIDE DEF is
    <3> QED
      BY <2>4, <3>1
  <2> HIDE DEF c, is
  <2>6. Good(d, n + 2 + 2)
    <3>1. Len(is) > 0 /\ n + 2 \in Nat
      BY <1>1, <2>4
    <3>2. Good(d, n + 2 + Len(is))
      BY <2>3, <2>4, <2>5, <3>1, EmitAllSeals
    <3> QED
      BY <2>4, <3>2
  <2> HIDE DEF d
  <2>7. Sealed(IR', n + 2 + 2 + 2)
    BY <1>1, <2>1, <2>2, <2>6, TwoWaySeals
  <2> QED
    BY <1>1, <2>1, <2>7, SealedLeaves
<1>5. ASSUME NEW op \in {"assign", "return"}, Simple(op) PROVE Leaving'
  <2>1. Sealed(IR', n + 1)
    BY <1>1, <1>5, EmitSeals, NoTargets DEF Simple
  <2>2. Base' = Base
    BY <1>5 DEF Simple, Base
  <2> QED
    BY <1>1, <2>1, <2>2, SealedLeaves
<1> QED
  BY <1>2, <1>3, <1>4, <1>5

\* The two stores of a Boolean value: the jump over the second leads behind it.
LEMMA StoredGood ==
    ASSUME Healthy, NEW e, NEW op \in {"assign", "param"}, Room(3)
    PROVE  Good(Stored(e, op), nextinstr + 3)
<1> DEFINE n == nextinstr
           onTrue == backpatch(IR, e.true_list, n)
           is == <<Plain(op), GotoIR>>
           stored == EmitAll(onTrue, is)
           onFalse == backpatch(stored, e.false_list, n + 2)
           c == Emit(onFalse, Plain(op))
<1>1. Good(IR, n) /\ n \in Nat /\ {n, n + 2, n + 3} \subseteq LineNumbers
  BY GoodFirst, HealthyFacts DEF Room, LineNumbers
<1>2. Stored(e, op) = backpatch(c, makeList(n + 1), n + 3)
  BY DEF Stored
<1> HIDE DEF n
<1>3. Good(onTrue, n)
  BY <1>1, PatchGood
<1>4. is \in Seq(InstructionType) /\ Len(is) = 2
  BY NoTargets
<1>5. \A j \in 1 .. Len(is) : is[j].target = -1
  <2>1. is[1].target = -1 /\ is[2].target = -1
    BY NoTargets
  <2> HIDE DEF is
  <2> QED
    BY <1>4, <2>1
<1> HIDE DEF onTrue, is
<1>6. Good(stored, n + 2)
  <2>1. Len(is) > 0
    BY <1>4
  <2>2. Good(stored, n + Len(is))
    BY <1>1, <1>3, <1>4, <1>5, <2>1, EmitAllSeals
  <2> QED
    BY <1>4, <2>2
<1> HIDE DEF stored
<1>7. Good(onFalse, n + 2)
  BY <1>1, <1>6, PatchGood
<1> HIDE DEF onFalse
<1>8. Good(c, n + 2 + 1)
  <2>1. Plain(op) \in InstructionType /\ Plain(op).target = -1 /\ n + 2 \in Nat
    BY <1>1, NoTargets
  <2> QED
    BY <1>7, <2>1, EmitSeals
<1> HIDE DEF c
<1>9. n + 2 + 1 = n + 3
  BY <1>1
<1>10. Good(backpatch(c, makeList(n + 1), n + 3), n + 3)
  BY <1>1, <1>8, <1>9, PatchGood
<1> QED
  BY <1>2, <1>10 DEF n

\* What takes a Boolean value off the stack.
LEMMA ConsumerLeaves ==
    ASSUME Healthy
    PROVE  /\ \A a : EndArgument(a) => Leaving'
           /\ Assign \/ Return => Leaving'
<1> DEFINE n == nextinstr
<1>1. /\ Good(IR, n) /\ n \in Nat /\ Depth \in Nat /\ Base \in Nat /\ Base <= n
      /\ n <= IR_ARRAY_SIZE /\ IR_ARRAY_SIZE \in Nat /\ ~error_reported
  BY GoodFirst, HealthyFacts DEF Compiling
<1>2. ASSUME NEW o \in Openers, HasOperand(o) PROVE 2 \in 0 .. Depth - 1
  <2>1. Depth > 2
    BY <1>2, OperandOnTop DEF Healthy
  <2> QED
    BY <1>1, <2>1
<1>3. ASSUME NEW a, EndArgument(a) PROVE Leaving'
  <2> DEFINE ca == {v \in Valuations : a \in v}
             s == Stored(Top, "param")
             c == Emit(s, Plain("call"))
  <2>1. IR' = TwoWay(c, ca) /\ ca \in SUBSET Valuations
    BY <1>3 DEF EndArgument
  <2>2. Base' = Base
    <3>1. HasOperand("argument") /\ "argument" \in Openers
      BY <1>3 DEF EndArgument, Openers
    <3>2. 2 \in 0 .. Depth - 1
      BY <1>2, <3>1
    <3>3. \E i : Replace(2, i)
      BY <1>3 DEF EndArgument
    <3> QED
      BY <3>2, <3>3, SameBase
  <2>3. Room(3)
    BY <1>1, <1>3 DEF EndArgument, Room
  <2> HIDE DEF ca
  <2>4. Good(s, n + 3)
    BY <2>3, StoredGood
  <2> HIDE DEF s, n
  <2>5. Good(c, n + 3 + 1)
    BY <1>1, <2>4, NoTargets, EmitSeals
  <2> HIDE DEF c
  <2>6. Sealed(IR', n + 3 + 1 + 2)
    BY <1>1, <2>1, <2>5, TwoWaySeals
  <2> QED
    BY <1>1, <2>2, <2>6, SealedLeaves
<1>4. ASSUME Assign PROVE Leaving'
  <2>1. Good(IR', n + 3) /\ Room(3)
    BY <1>4, StoredGood DEF Assign
  <2>2. nextinstr' = n + 3
    BY <2>1 DEF Good, nextinstr
  <2>3. Base' = Base
    <3>1. HasOperand("assign") /\ "assign" \in Openers /\ Pop(2)
      BY <1>4 DEF Assign, Openers
    <3> QED
      BY <1>2, <3>1, SameBase
  <2>4. Test(n, Valuations, n + 3, n + 2) \in decided'
    BY <1>1, <1>4 DEF Assign, Decide, StoredTests
  <2> HIDE DEF n
  <2>5. Test(n, Valuations, n + 3, n + 2).start = n /\ Test(n, Valuations, n + 3, n + 2).yes = n + 3
    BY DEF Test
  <2>6. n \in Base .. n + 3 - 1
    BY <1>1
  <2>7. Reason'
    BY <2>2, <2>3, <2>4, <2>5, <2>6 DEF Reason
  <2> QED
    BY <2>7 DEF Leaving
<1>5. ASSUME Return PROVE Leaving'
  <2> DEFINE onTrue == backpatch(IR, Top.true_list, n)
             one == Emit(onTrue, Plain("return"))
             onFalse == backpatch(one, Top.false_list, n + 1)
  <2>1. IR' = Emit(onFalse, Plain("return")) /\ {n, n + 1} \subseteq LineNumbers
    BY <1>1, <1>5 DEF Return, Room, LineNumbers
  <2>2. Base' = Base
    <3>1. HasOperand("return") /\ "return" \in Openers /\ Pop(2)
      BY <1>5 DEF Return, Openers
    <3> QED
      BY <1>2, <3>1, SameBase
  <2> HIDE DEF n
  <2>3. Good(onTrue, n)
    BY <1>1, <2>1, PatchGood
  <2> HIDE DEF onTrue
  <2>4. Good(one, n + 1)
    BY <1>1, <2>3, NoTargets, EmitSeals
  <2> HIDE DEF one
  <2>5. Good(onFalse, n + 1)
    BY <1>1, <2>1, <2>4, PatchGood
  <2> HIDE DEF onFalse
  <2>6. Sealed(IR', n + 1 + 1)
    BY <1>1, <2>1, <2>5, NoTargets, EmitSeals
  <2> QED
    BY <1>1, <2>2, <2>6, SealedLeaves
<1> QED
  BY <1>3, <1>4, <1>5

\* A bounds check, before its safe line is patched.
LEMMA CheckGood ==
    ASSUME Healthy, NEW c, NEW k \in Nat, Good(c, k), NEW l \in SUBSET Valuations,
           NEW h \in SUBSET Valuations
    PROVE  Good(EmitAll(c, <<Plain("read"), JumpIf(l), JumpIf(h), GotoIR>>), k + 4)
<1> DEFINE is == <<Plain("read"), JumpIf(l), JumpIf(h), GotoIR>>
<1>1. is \in Seq(InstructionType) /\ Len(is) = 4
  BY NoTargets
<1>2. is[1].target = -1 /\ is[2].target = -1 /\ is[3].target = -1 /\ is[4].target = -1
  BY NoTargets
<1> HIDE DEF is
<1>3. \A j \in 1 .. Len(is) : is[j].target = -1
  BY <1>1, <1>2
<1>4. Len(is) > 0
  BY <1>1
<1>5. Good(EmitAll(c, is), k + Len(is))
  BY <1>1, <1>3, <1>4, EmitAllSeals
<1> QED
  BY <1>1, <1>5 DEF is

\* An array write ends with the write.
LEMMA IndexedWriteLeaves ==
    ASSUME Healthy, NEW d \in 1 .. 2, NEW lo \in [1 .. d -> SUBSET Valuations],
           NEW hi \in [1 .. d -> SUBSET Valuations], IndexedWrite(lo, hi)
    PROVE  Leaving'
<1> DEFINE n == nextinstr
           first == EmitAll(IR, <<Plain("read"), JumpIf(lo[1]), JumpIf(hi[1]), GotoIR>>)
           safe1 == backpatch(first, makeList(n + 2), n + 4)
           crash1 == insertToList(makeList(n + 1), n + 3)
           second == EmitAll(safe1, <<Plain("read"), JumpIf(lo[2]), JumpIf(hi[2]), GotoIR>>)
           patched == backpatch(second, makeList(n + 6), n + 8)
           two == <<Plain("compute"), Plain("compute")>>
           safe2 == EmitAll(patched, two)
           crash2 == insertToList(insertToList(crash1, n + 5), n + 7)
           checked == IF Len(lo) = 1 THEN safe1 ELSE safe2
           crash_list == IF Len(lo) = 1 THEN crash1 ELSE crash2
           m == n + IF Len(lo) = 1 THEN 4 ELSE 10
           three == <<Plain("compute"), Plain("compute"), GotoIR>>
           offset == EmitAll(checked, three)
           pre == backpatch(offset, crash_list, m + 3)
           crash == Emit(pre, Plain("crash"))
           last == backpatch(crash, makeList(m + 2), m + 4)
<1>1. Room(m + 5 - n) /\ IR' = Emit(last, Plain("write")) /\ UNCHANGED stack
  BY DEF IndexedWrite
<1>2. Good(IR, n) /\ n \in Nat /\ IR_ARRAY_SIZE \in Nat
  BY GoodFirst, HealthyFacts
<1>3. Len(lo) = d
  OBVIOUS
<1>4. /\ m \in Nat /\ m + 5 <= IR_ARRAY_SIZE /\ m = n + IF d = 1 THEN 4 ELSE 10
  <2>1. m = n + IF d = 1 THEN 4 ELSE 10
    BY <1>3
  <2>2. n + (m + 5 - n) <= IR_ARRAY_SIZE
    BY <1>1 DEF Room
  <2> HIDE DEF n, m
  <2> QED
    BY <1>2, <2>1, <2>2
<1>5. /\ n + 4 \in LineNumbers /\ m + 3 \in LineNumbers /\ m + 4 \in LineNumbers
      /\ d = 2 => n + 8 \in LineNumbers
  <2> HIDE DEF n, m
  <2> QED
    BY <1>2, <1>4 DEF LineNumbers
<1>6. /\ two \in Seq(InstructionType) /\ Len(two) = 2 /\ Len(two) > 0
      /\ three \in Seq(InstructionType) /\ Len(three) = 3 /\ Len(three) > 0
  BY NoTargets
<1>7. /\ \A j \in 1 .. Len(two) : two[j].target = -1
      /\ \A j \in 1 .. Len(three) : three[j].target = -1
  <2>1. /\ two[1].target = -1 /\ two[2].target = -1
        /\ three[1].target = -1 /\ three[2].target = -1 /\ three[3].target = -1
    BY NoTargets
  <2> HIDE DEF two, three
  <2> QED
    BY <1>6, <2>1
<1> HIDE DEF n, two, three
<1>8. Good(safe1, n + 4)
  <2>1. lo[1] \in SUBSET Valuations /\ hi[1] \in SUBSET Valuations
    OBVIOUS
  <2>2. Good(first, n + 4)
    BY <1>2, <2>1, CheckGood
  <2> HIDE DEF first
  <2> QED
    BY <1>2, <1>5, <2>2, PatchGood
<1> HIDE DEF first, safe1
<1>9. ASSUME d = 2 PROVE Good(safe2, n + 10)
  <2>1. lo[2] \in SUBSET Valuations /\ hi[2] \in SUBSET Valuations
    BY <1>9
  <2>2. Good(second, n + 4 + 4)
    BY <1>2, <1>8, <2>1, CheckGood
  <2> HIDE DEF second
  <2>3. n + 4 + 4 = n + 8 /\ n + 8 \in Nat /\ n + 8 + 2 = n + 10
    BY <1>2
  <2>4. Good(patched, n + 8)
    BY <1>5, <1>9, <2>2, <2>3, PatchGood
  <2> HIDE DEF patched
  <2>5. Good(safe2, n + 8 + Len(two))
    BY <1>6, <1>7, <2>3, <2>4, EmitAllSeals
  <2> QED
    BY <1>6, <2>3, <2>5
<1> HIDE DEF crash1, crash2, second, patched, safe2
<1>10. Good(checked, m)
  BY <1>3, <1>4, <1>8, <1>9
<1> HIDE DEF checked, crash_list, m
<1>11. Good(offset, m + 3)
  <2>1. Good(offset, m + Len(three))
    BY <1>4, <1>6, <1>7, <1>10, EmitAllSeals
  <2> QED
    BY <1>6, <2>1
<1> HIDE DEF offset
<1>12. m + 3 \in Nat /\ m + 4 \in Nat /\ m + 3 + 1 = m + 4 /\ m + 4 + 1 \in Nat
  <2>1. m \in Nat
    BY <1>4
  <2> QED
    BY <2>1
<1>13. Good(pre, m + 3)
  BY <1>5, <1>11, <1>12, PatchGood
<1> HIDE DEF pre
<1>14. Good(crash, m + 4)
  <2>1. Plain("crash") \in InstructionType /\ Plain("crash").target = -1
    BY NoTargets
  <2>2. Good(crash, m + 3 + 1)
    BY <1>12, <1>13, <2>1, EmitSeals
  <2> QED
    BY <1>12, <2>2
<1> HIDE DEF crash
<1>15. Good(last, m + 4)
  BY <1>5, <1>12, <1>14, PatchGood
<1> HIDE DEF last
<1>16. Sealed(IR', m + 4 + 1)
  <2>1. Plain("write") \in InstructionType /\ Plain("write").target = -1
    BY NoTargets
  <2> QED
    BY <1>1, <1>12, <1>15, <2>1, EmitSeals
<1>17. Base' = Base
  BY <1>1 DEF Base
<1> QED
  BY <1>12, <1>16, <1>17, SealedLeaves

\* Operators and openers emit nothing.
LEMMA OpenerLeaves ==
    ASSUME Healthy, Leaving, NEW i, Push(i), UNCHANGED <<IR, decided>>
    PROVE  Leaving'
<1>1. /\ Depth \in Nat /\ Depth' = Depth + 1 /\ Base' = Base
      /\ \A p \in 1 .. Depth : stack'[p] = stack[p]
  BY SameBase, HealthyFacts
<1>2. \A p \in Depth + 1 .. Depth : FALSE
  BY <1>1
<1>3. Depth \in 0 .. Depth /\ Depth' \in Nat /\ Depth' >= Depth
  BY <1>1
<1> QED
  BY <1>1, <1>2, <1>3, ReasonStays

\* The right operand begins before the next line.
LEMMA ReduceLeaves ==
    ASSUME Healthy, Decisive, Leaving, ReduceOr \/ ReduceAnd \/ ReduceNot
    PROVE  Leaving'
<1> DEFINE n == nextinstr
<1>1. /\ Depth \in Nat /\ n \in Nat /\ Base \in Nat /\ Base <= n /\ n <= IR_ARRAY_SIZE
      /\ IR_ARRAY_SIZE \in Nat /\ ~error_reported /\ Depth > 0
  BY HealthyFacts DEF Compiling
<1>2. ASSUME NEW o \in {"or", "and"}, HasOperand(o), NEW i, Replace(3, i), NEW list,
             IR' = backpatch(IR, list, Under.quad), UNCHANGED decided
      PROVE  Leaving'
  <2>1. /\ Depth > 3 /\ Top.k = "expr" /\ Under.k = o /\ Left.k = "expr"
        /\ Top = stack[Depth] /\ Under = stack[Depth - 1] /\ Left = stack[Depth - 2]
    BY <1>2, OperandOnTop DEF Healthy, Openers, HasOperand, Left
  <2>2. Answers(IR, abandoned, Top, n) /\ Top.quad = Under.quad
    BY <1>2, OperandSettled DEF Openers
  <2>3. Under.quad \in Nat /\ Under.quad < n
    <3>1. {} \in Valuations
      BY DEF Valuations
    <3>2. Stays(IR, abandoned, {}, Top.quad, n, Exit(Top, {}))
      BY <2>2, <3>1 DEF Answers
    <3>3. \E g \in Under.quad .. n - 1 : TRUE
      BY <2>2, <3>2 DEF Stays
    <3>4. Under.quad \in Nat
      BY <1>1, <2>1, EndTyped
    <3> QED
      BY <1>1, <3>3, <3>4
  <2>4. /\ Depth' = Depth - 2 /\ Base' = Base /\ \A p \in 1 .. Depth - 3 : stack'[p] = stack[p]
    <3>1. 3 \in 0 .. Depth - 1 /\ Depth - 3 + 1 = Depth - 2
      BY <1>1, <2>1
    <3> QED
      BY <1>2, <3>1, SameBase
  <2>5. nextinstr' = n
    <3>1. Under.quad \in -1 .. IR_ARRAY_SIZE /\ IR \in Seq(InstructionType)
      BY <1>1, <2>3, SizeFacts DEF Healthy, Sound
    <3> QED
      BY <1>2, <3>1, PatchTyped DEF nextinstr
  <2> SUFFICES ASSUME NEW j \in Base .. n - 1, IR'[j + 1].target = n PROVE Reason'
    BY <2>4, <2>5 DEF Leaving, JumpBehind
  <2>6. IR[j + 1].target = n
    <3>1. j + 1 \in DOMAIN IR /\ IR[j + 1] \in InstructionType
      <4>1. IR \in Seq(InstructionType) /\ n = Len(IR)
        BY SizeFacts DEF Healthy, Sound, nextinstr
      <4> QED
        BY <1>1, <4>1
    <3>2. IR'[j + 1] = IF j + 1 - 1 \in list THEN [IR[j + 1] EXCEPT !.target = Under.quad]
                       ELSE IR[j + 1]
      BY <1>1, <1>2, <3>1 DEF backpatch
    <3>3. [IR[j + 1] EXCEPT !.target = Under.quad].target = Under.quad
      BY <3>1 DEF InstructionType
    <3> QED
      BY <1>1, <2>3, <3>2, <3>3
  <2>7. Reason
    BY <1>1, <2>6 DEF Leaving, JumpBehind
  <2>8. CASE \E d \in decided : d.start \in Base .. n - 1 /\ n \in {d.yes, d.no}
    BY <1>2, <2>4, <2>5, <2>8 DEF Reason
  <2>9. CASE \E p \in 1 .. Depth : stack[p].k \in {"while_body", "then", "else"} /\ stack[p].quad = n
    <3>1. PICK p \in 1 .. Depth : stack[p].k \in {"while_body", "then", "else"} /\ stack[p].quad = n
      BY <2>9
    <3>2. p # Depth /\ p # Depth - 1 /\ p # Depth - 2
      BY <1>2, <2>1, <3>1
    <3>3. p \in 1 .. Depth - 3
      BY <1>1, <3>2
    <3>4. p \in 1 .. Depth' /\ stack'[p] = stack[p]
      BY <1>1, <2>4, <3>3
    <3> QED
      BY <2>5, <3>1, <3>4 DEF Reason
  <2> QED
    BY <2>7, <2>8, <2>9 DEF Reason
<1>3. ASSUME ReduceNot PROVE Leaving'
  <2>1. HasOperand("not") /\ (\E i : Replace(2, i)) /\ UNCHANGED <<IR, decided>>
    BY <1>3 DEF ReduceNot
  <2>2. /\ Depth > 2 /\ Top.k = "expr" /\ Under.k = "not"
        /\ Top = stack[Depth] /\ Under = stack[Depth - 1]
    BY <2>1, OperandOnTop DEF Healthy, Openers, HasOperand
  <2>3. 2 \in 0 .. Depth - 1 /\ Depth - 2 \in 0 .. Depth
    BY <1>1, <2>2
  <2>4. Depth' = Depth - 2 + 1 /\ Base' = Base /\ \A p \in 1 .. Depth - 2 : stack'[p] = stack[p]
    BY <2>1, <2>3, SameBase
  <2>5. ASSUME NEW p \in Depth - 2 + 1 .. Depth
        PROVE  stack[p].k \notin {"while_body", "then", "else"}
    <3>1. p = Depth \/ p = Depth - 1
      BY <1>1
    <3> QED
      BY <2>2, <3>1
  <2>6. Depth' \in Nat /\ Depth' >= Depth - 2
    BY <1>1, <2>2, <2>4
  <2> QED
    BY <2>1, <2>3, <2>4, <2>5, <2>6, ReasonStays
<1> QED
  BY <1>2, <1>3 DEF ReduceOr, ReduceAnd

\* A body begins at the line emitted next: its test leads there.
LEMMA BodyLeaves ==
    ASSUME Healthy, WhileBody \/ ThenBody
    PROVE  Leaving'
<1>1. /\ Depth \in Nat /\ nextinstr <= IR_ARRAY_SIZE /\ nextinstr \in Nat
      /\ IR_ARRAY_SIZE \in Nat
  BY HealthyFacts
<1>2. PICK o \in {"while", "if"}, k \in {"while_body", "then"} :
        /\ HasOperand(o) /\ IR' = backpatch(IR, Top.true_list, nextinstr)
        /\ Replace(2, [Item(k) EXCEPT !.false_list = Top.false_list,
                         !.truth = Top.truth, !.start = Under.quad])
  BY DEF WhileBody, ThenBody
<1> DEFINE i == [Item(k) EXCEPT !.false_list = Top.false_list,
                   !.truth = Top.truth, !.start = Under.quad]
<1>3. i.k = k /\ i.quad = nextinstr
  BY DEF Item
<1>4. Replace(2, i)
  BY <1>2
<1> HIDE DEF i
<1>5. 2 \in 0 .. Depth - 1
  <2>1. Depth > 2
    BY <1>2, OperandOnTop DEF Healthy, Openers
  <2> QED
    BY <1>1, <2>1
<1>6. Depth' = Depth - 2 + 1 /\ stack'[Depth - 2 + 1] = i
  BY <1>4, <1>5, SameBase
<1>7. Depth' \in 1 .. Depth' /\ stack'[Depth'] = i
  BY <1>1, <1>5, <1>6
<1>8. nextinstr' = nextinstr
  <2>1. nextinstr \in -1 .. IR_ARRAY_SIZE /\ IR \in Seq(InstructionType)
    BY <1>1, SizeFacts DEF Healthy, Sound
  <2> QED
    BY <1>2, <2>1, PatchTyped DEF nextinstr
<1>9. Reason'
  BY <1>3, <1>7, <1>8 DEF Reason
<1> QED
  BY <1>9 DEF Leaving

\* The end of a body: what it ends leads behind it, or its else branch begins.
LEMMA EndingLeaves ==
    ASSUME Healthy, Decisive, Leaving, EndWhile \/ ElseBody \/ EndElse \/ EndBlock
    PROVE  Leaving'
<1> DEFINE n == nextinstr
<1>1. /\ Depth \in Nat /\ n \in Nat /\ Base \in Nat /\ Base <= n /\ n <= IR_ARRAY_SIZE
      /\ IR_ARRAY_SIZE \in Nat /\ ~error_reported /\ Within
      /\ IR \in Seq(InstructionType) /\ n = Len(IR)
  BY HealthyFacts, SizeFacts DEF Compiling, Healthy, Sound, nextinstr
<1>2. /\ Top.k \in {"while_body", "then", "else", "block"} /\ n > Top.quad
      /\ Top = stack[Depth]
  BY <1>1 DEF EndWhile, ElseBody, EndElse, EndBlock, BodyDone, Top
<1>3. Depth > 1 /\ Top.quad \in Nat /\ 1 \in 0 .. Depth - 1 /\ Depth \in 1 .. Depth
  BY <1>1, <1>2, BodyOnTop
<1>4. Top.start \in Base .. n /\ Top.quad \in Base .. n
  BY <1>1, <1>2, <1>3 DEF Within
<1>5. ASSUME EndWhile PROVE Leaving'
  <2> DEFINE looped == Emit(IR, [GotoIR EXCEPT !.target = Top.start])
  <2>1. /\ IR' = backpatch(looped, Top.false_list, Len(looped)) /\ Pop(1) /\ Room(1)
        /\ Test(n, Top.truth, Top.quad, n + 1) \in decided'
    BY <1>1, <1>5 DEF EndWhile, Decide
  <2>2. looped \in Seq(InstructionType) /\ Len(looped) = n + 1
    <3>1. Top.start \in LineNumbers
      BY <1>1, <1>4 DEF LineNumbers
    <3>2. [GotoIR EXCEPT !.target = Top.start] \in InstructionType
      BY <3>1, InstructionTyped DEF Healthy, Sound
    <3> QED
      BY <1>1, <3>2 DEF Emit
  <2> HIDE DEF looped
  <2>3. nextinstr' = n + 1
    <3>1. n + 1 \in -1 .. IR_ARRAY_SIZE
      BY <1>1, <2>1 DEF Room
    <3> QED
      BY <2>1, <2>2, <3>1, PatchTyped DEF nextinstr
  <2>4. Base' = Base
    BY <1>3, <2>1, SameBase
  <2> DEFINE d == Test(n, Top.truth, Top.quad, n + 1)
  <2>5. d.start = n /\ d.no = n + 1
    BY DEF Test
  <2> HIDE DEF d, n
  <2>6. n \in Base .. n + 1 - 1
    BY <1>1
  <2>7. Reason'
    BY <2>1, <2>3, <2>4, <2>5, <2>6 DEF Reason, d
  <2> QED
    BY <2>7 DEF Leaving
<1>6. ASSUME ElseBody PROVE Leaving'
  <2> DEFINE skipped == Emit(IR, GotoIR)
             i == [Item("else") EXCEPT !.true_list = makeList(n),
                            !.quad = Len(skipped), !.start = n]
  <2>1. /\ IR' = backpatch(skipped, Top.false_list, Len(skipped)) /\ Replace(1, i) /\ Room(1)
    BY <1>6 DEF ElseBody
  <2>2. skipped \in Seq(InstructionType) /\ Len(skipped) = n + 1
    BY <1>1, NoTargets DEF Emit
  <2>3. i.k = "else" /\ i.quad = Len(skipped)
    BY DEF Item
  <2> HIDE DEF skipped, i
  <2>4. nextinstr' = n + 1
    <3>1. n + 1 \in -1 .. IR_ARRAY_SIZE
      BY <1>1, <2>1 DEF Room
    <3> QED
      BY <2>1, <2>2, <3>1, PatchTyped DEF nextinstr
  <2>5. Depth' = Depth - 1 + 1 /\ stack'[Depth - 1 + 1] = i
    BY <1>3, <2>1, SameBase
  <2>6. Depth' \in 1 .. Depth' /\ stack'[Depth'] = i
    BY <1>1, <1>3, <2>5
  <2>7. Reason'
    BY <2>2, <2>3, <2>4, <2>6 DEF Reason
  <2> QED
    BY <2>7 DEF Leaving
<1>7. ASSUME EndElse PROVE Leaving'
  <2>1. /\ IR' = backpatch(IR, Top.true_list, n) /\ Pop(1)
        /\ Test(Top.start, Valuations, n, Top.quad) \in decided' /\ Top.k = "else"
    BY <1>1, <1>7 DEF EndElse, Decide, BodyDone
  <2>2. nextinstr' = n
    <3>1. n \in -1 .. IR_ARRAY_SIZE
      BY <1>1
    <3> QED
      BY <1>1, <2>1, <3>1, PatchTyped DEF nextinstr
  <2>3. Base' = Base
    BY <1>3, <2>1, SameBase
  <2>4. Top.start \in Base .. n - 1
    <3>1. ItemSettled(IR, abandoned, stack, Depth, n)
      BY TopSettled
    <3>2. Top.quad = Top.start + 1
      BY <1>2, <2>1, <3>1 DEF ItemSettled, Skips
    <3> QED
      BY <1>1, <1>2, <1>4, <3>2
  <2> DEFINE d == Test(Top.start, Valuations, n, Top.quad)
  <2>5. d.start = Top.start /\ d.yes = n
    BY DEF Test
  <2> HIDE DEF d, n
  <2>6. Reason'
    BY <2>1, <2>2, <2>3, <2>4, <2>5 DEF Reason, d
  <2> QED
    BY <2>6 DEF Leaving
<1>8. ASSUME EndBlock PROVE Leaving'
  <2>1. Top.k = "block" /\ Pop(1) /\ UNCHANGED <<IR, decided>>
    BY <1>8 DEF EndBlock, BodyDone
  <2>2. Depth' = Depth - 1 /\ Base' = Base /\ \A p \in 1 .. Depth - 1 : stack'[p] = stack[p]
    BY <1>3, <2>1, SameBase
  <2>3. ASSUME NEW p \in Depth - 1 + 1 .. Depth
        PROVE  stack[p].k \notin {"while_body", "then", "else"}
    <3>1. p = Depth
      BY <1>1
    <3> QED
      BY <1>2, <2>1, <3>1
  <2>4. Depth - 1 \in 0 .. Depth /\ Depth' \in Nat /\ Depth' >= Depth - 1
    BY <1>1, <1>3, <2>2
  <2> QED
    BY <2>1, <2>2, <2>3, <2>4, ReasonStays
<1> QED
  BY <1>5, <1>6, <1>7, <1>8

\* Nothing that was decided is forgotten.
LEMMA DecidedGrows ==
    ASSUME [Next]_vars
    PROVE  decided \subseteq decided'
<1>1. \A tests : Decide(tests) => decided \subseteq decided'
  BY DEF Decide
<1>2. CASE \/ \E a \in Atoms : Variable(a) \/ EndArgument(a)
           \/ \E b \in BOOLEAN : Constant(b)
           \/ \E a, b \in Atoms : CompareBooleans(a, b) \/ PackedArgument(a, b)
  <2>1. ASSUME NEW a, Variable(a) PROVE UNCHANGED decided
    BY <2>1 DEF Variable, Atomic
  <2>2. ASSUME NEW a, EndArgument(a) PROVE decided \subseteq decided'
    BY <1>1, <2>2 DEF EndArgument
  <2>3. ASSUME NEW b, Constant(b) PROVE UNCHANGED decided
    BY <2>3 DEF Constant, Atomic
  <2>4. ASSUME NEW a, NEW b, CompareBooleans(a, b) PROVE UNCHANGED decided
    BY <2>4 DEF CompareBooleans
  <2>5. ASSUME NEW a, NEW b, PackedArgument(a, b) PROVE UNCHANGED decided
    BY <2>5 DEF PackedArgument
  <2> QED
    BY <1>2, <2>1, <2>2, <2>3, <2>4, <2>5
<1>3. CASE \/ \E op \in {"or", "and"} : Operator(op)
           \/ Negation \/ ReduceOr \/ ReduceAnd \/ ReduceNot \/ BeginArgument
  BY <1>3 DEF Operator, Negation, ReduceOr, ReduceAnd, ReduceNot, BeginArgument
<1>4. CASE \/ \E op \in {"assign", "return"} : Simple(op) \/ Begin(op, op)
           \/ \E k \in {"while", "if", "block"} : Begin(k, k)
  BY <1>4 DEF Simple, Begin
<1>5. CASE Assign \/ Return
  BY <1>1, <1>5 DEF Assign, Return
<1>6. CASE \E n \in 1 .. 2 :
             \E lo, hi \in [1 .. n -> {{v \in Valuations : a \in v} : a \in Atoms}] :
               IndexedWrite(lo, hi)
  <2>1. ASSUME NEW lo, NEW hi, IndexedWrite(lo, hi) PROVE decided \subseteq decided'
    BY <1>1, <2>1 DEF IndexedWrite
  <2> QED
    BY <1>6, <2>1
<1>7. CASE WhileBody \/ EndWhile \/ ThenBody
  BY <1>1, <1>7 DEF WhileBody, EndWhile, ThenBody
<1>8. CASE ElseBody \/ EndElse \/ EndBlock
  BY <1>1, <1>8 DEF ElseBody, EndElse, EndBlock
<1>9. CASE BeginFunction \/ EndFunction \/ ReportError \/ UNCHANGED vars
  BY <1>9 DEF BeginFunction, EndFunction, ReportError, vars
<1> QED
  BY <1>2, <1>3, <1>4, <1>5, <1>6, <1>7, <1>8, <1>9 DEF Next

\* Inside a function a jump to the line emitted next has its reason.
LEMMA LeavingInside ==
    ASSUME Healthy, Decisive, Leaving, [Next]_vars
    PROVE  Leaving' \/ BeginFunction \/ EndFunction \/ ReportError \/ UNCHANGED vars
<1>1. CASE \E a \in Atoms : Variable(a) \/ EndArgument(a)
  <2>1. PICK a \in Atoms : Variable(a) \/ EndArgument(a)
    BY <1>1
  <2>2. Holds(a) \in SUBSET Valuations /\ (Variable(a) => Atomic(Holds(a)))
    BY DEF Holds, Variable
  <2> QED
    BY <2>1, <2>2, ExpressionLeaves, ConsumerLeaves
<1>2. CASE \E b \in BOOLEAN : Constant(b)
  <2>1. PICK b \in BOOLEAN : Constant(b)
    BY <1>2
  <2>2. Atomic(IF b THEN Valuations ELSE {})
    BY <2>1 DEF Constant
  <2>3. (IF b THEN Valuations ELSE {}) \in SUBSET Valuations
    OBVIOUS
  <2> QED
    BY <2>2, <2>3, ExpressionLeaves
<1>3. CASE \/ \E op \in {"or", "and"} : Operator(op)
           \/ Negation \/ BeginArgument
           \/ \E op \in {"assign", "return"} : Begin(op, op)
           \/ \E k \in {"while", "if", "block"} : Begin(k, k)
  <2>1. PICK i : Push(i) /\ UNCHANGED <<IR, decided>>
    BY <1>3 DEF Operator, Negation, BeginArgument, Begin
  <2> QED
    BY <2>1, OpenerLeaves
<1>4. CASE ReduceOr \/ ReduceAnd \/ ReduceNot
  BY <1>4, ReduceLeaves
<1>5. CASE \E a, b \in Atoms : CompareBooleans(a, b) \/ PackedArgument(a, b)
  BY <1>5, ExpressionLeaves
<1>6. CASE (\E op \in {"assign", "return"} : Simple(op)) \/ Assign \/ Return
  BY <1>6, ExpressionLeaves, ConsumerLeaves
<1>7. CASE \E n \in 1 .. 2 :
             \E lo, hi \in [1 .. n -> {{v \in Valuations : a \in v} : a \in Atoms}] :
               IndexedWrite(lo, hi)
  <2>1. PICK n \in 1 .. 2 :
          \E lo, hi \in [1 .. n -> {{v \in Valuations : a \in v} : a \in Atoms}] :
            IndexedWrite(lo, hi)
    BY <1>7
  <2>2. \E lo, hi \in [1 .. n -> SUBSET Valuations] : IndexedWrite(lo, hi)
    BY <2>1, BoundsConditions
  <2> QED
    BY <2>2, IndexedWriteLeaves
<1>8. CASE WhileBody \/ ThenBody
  BY <1>8, BodyLeaves
<1>9. CASE EndWhile \/ ElseBody \/ EndElse \/ EndBlock
  BY <1>9, EndingLeaves
<1> QED
  BY <1>1, <1>2, <1>3, <1>4, <1>5, <1>6, <1>7, <1>8, <1>9 DEF Next

\* And everywhere: a function begins with no lines.
LEMMA LeavingStep ==
    ASSUME Linked, Decisive, Leaving, [Next]_vars
    PROVE  Leaving'
<1>1. ASSUME error_reported' PROVE Leaving'
  BY <1>1 DEF Leaving
<1>2. CASE error_reported
  BY <1>1, <1>2, ErrorStep
<1>3. CASE ReportError
  BY <1>1, <1>3 DEF ReportError
<1>4. CASE UNCHANGED vars
  BY <1>4 DEF vars, Leaving, JumpBehind, Reason, Base, Depth, nextinstr
<1>5. CASE ~error_reported /\ BeginFunction
  <2> DEFINE i == Item("function")
  <2>1. stack' = <<i>> /\ IR' = IR /\ i.quad = nextinstr
    BY <1>5 DEF BeginFunction, Push, Item
  <2> HIDE DEF i
  <2>2. Base' = nextinstr' /\ nextinstr \in Nat /\ nextinstr' = nextinstr
    BY <2>1, SizeFacts DEF Base, nextinstr, Linked, Sound
  <2>3. ~JumpBehind'
    BY <2>2 DEF JumpBehind
  <2> QED
    BY <2>3 DEF Leaving
<1>6. CASE ~error_reported /\ Depth = 0
  <2>1. BeginFunction \/ ReportError \/ UNCHANGED vars
    BY <1>6, BetweenFunctions DEF Linked
  <2> QED
    BY <1>3, <1>4, <1>5, <1>6, <2>1
<1>7. CASE ~error_reported /\ Depth # 0
  <2>1. Healthy
    BY <1>7, StackItems DEF Healthy, Linked
  <2>2. CASE EndFunction
    <3>1. Depth \in Nat /\ Depth > 0 /\ Top.k = "function" /\ Pop(1)
      BY <2>1, <2>2, StackItems DEF EndFunction, BodyDone, Healthy
    <3>2. Depth = 1
      BY <2>1, <3>1 DEF Healthy, Sound, Shape, Top
    <3>3. Depth' = 0
      <4>1. Len(stack') = 1 - 1 + 1 - 1
        BY <2>1, <3>1, <3>2, PopMoves
      <4> QED
        BY <4>1 DEF Depth
    <3> QED
      BY <3>3 DEF Leaving
  <2> QED
    BY <1>3, <1>4, <1>5, <1>7, <2>1, <2>2, LeavingInside
<1> QED
  BY <1>2, <1>6, <1>7

\* Completed functions stay as they are, and one that ends has its reasons.
LEMMA LeaveStep ==
    ASSUME Linked, Linked', Leaving, JumpsLeaveAtEnd, [Next]_vars
    PROVE  JumpsLeaveAtEnd'
<1>0. decided \subseteq decided' /\ functions \subseteq FunctionType
  BY DecidedGrows, TypeParts DEF Linked, Sound
<1>1. ASSUME NEW n \in Nat, \A f \in functions : f.end_index < n,
             \A i \in 0 .. n - 1 : IR'[i + 1] = IR[i + 1], NEW f \in functions,
             NEW i \in f.call_index .. f.end_index
      PROVE  \/ IR'[i + 1].target \in {-1} \union f.call_index .. f.end_index
             \/ /\ IR'[i + 1].target = f.end_index + 1
                /\ \E d \in decided' : /\ d.start \in f.call_index .. f.end_index
                                       /\ f.end_index + 1 \in {d.yes, d.no}
  <2>1. f.call_index \in LineNumbers /\ f.end_index \in LineNumbers
    BY <1>0 DEF FunctionType
  <2>2. i \in 0 .. n - 1
    BY <1>1, <2>1 DEF LineNumbers
  <2>3. IR'[i + 1] = IR[i + 1]
    BY <1>1, <2>2
  <2> QED
    BY <1>0, <2>3 DEF JumpsLeaveAtEnd
<1>2. ASSUME UNCHANGED <<IR, functions>> PROVE JumpsLeaveAtEnd'
  BY <1>0, <1>2 DEF JumpsLeaveAtEnd
<1>3. CASE error_reported
  BY <1>2, <1>3, FrozenStep, ErrorStep DEF Linked
<1>4. CASE ReportError \/ BeginFunction \/ UNCHANGED vars
  BY <1>2, <1>4 DEF ReportError, BeginFunction, vars
<1>5. CASE ~error_reported /\ Depth = 0
  BY <1>4, <1>5, BetweenFunctions DEF Linked
<1>6. CASE ~error_reported /\ Depth # 0
  <2>1. Healthy
    BY <1>6, StackItems DEF Healthy, Linked
  <2>2. Base \in Nat /\ \A f \in functions : f.end_index < Base
    BY <2>1, HealthyFacts DEF Within
  <2>3. CASE Advances
    BY <1>1, <2>2, <2>3 DEF Advances, JumpsLeaveAtEnd
  <2>4. CASE EndFunction
    <3> DEFINE n == nextinstr
               g == [call_index |-> Base, end_index |-> n - 1]
    <3>1. Depth \in Nat /\ Depth > 0 /\ Top.k = "function" /\ n \in Nat
      BY <2>1, <2>4, HealthyFacts, StackItems DEF EndFunction, BodyDone, Healthy
    <3>2. Depth = 1
      BY <2>1, <3>1 DEF Healthy, Sound, Shape, Top
    <3>3. Top = stack[1]
      BY <3>2 DEF Top
    <3>4. UNCHANGED <<IR, decided>> /\ functions' = functions \union {g}
      BY <1>6, <2>4, <3>3 DEF EndFunction, Base
    <3>5. g.call_index = Base /\ g.end_index = n - 1 /\ g \in functions'
      BY <3>4
    <3> HIDE DEF g
    <3>6. ASSUME NEW i \in Base .. n - 1
          PROVE  \/ IR[i + 1].target \in {-1} \union Base .. n - 1
                 \/ /\ IR[i + 1].target = n
                    /\ \E d \in decided : d.start \in Base .. n - 1 /\ n \in {d.yes, d.no}
      <4>1. IR[i + 1].target \in {-1} \union Base .. n
        BY <2>1, HealthyFacts DEF Within
      <4>2. CASE IR[i + 1].target = n
        <5>1. Reason
          BY <1>6, <3>1, <4>2 DEF Leaving, JumpBehind
        <5>2. \A p \in 1 .. Depth : stack[p].k = "function"
          BY <3>1, <3>2, <3>3
        <5> QED
          BY <4>2, <5>1, <5>2 DEF Reason
      <4> QED
        BY <2>2, <3>1, <4>1, <4>2
    <3>7. n - 1 + 1 = n
      BY <3>1
    <3> HIDE DEF n
    <3>8. ASSUME NEW f \in functions', NEW i \in f.call_index .. f.end_index
          PROVE  \/ IR'[i + 1].target \in {-1} \union f.call_index .. f.end_index
                 \/ /\ IR'[i + 1].target = f.end_index + 1
                    /\ \E d \in decided' : /\ d.start \in f.call_index .. f.end_index
                                           /\ f.end_index + 1 \in {d.yes, d.no}
      <4>1. CASE f \in functions
        BY <3>4, <4>1 DEF JumpsLeaveAtEnd
      <4>2. CASE f = g
        BY <3>4, <3>5, <3>6, <3>7, <4>2
      <4> QED
        BY <3>4, <4>1, <4>2
    <3> QED
      BY <3>8 DEF JumpsLeaveAtEnd
  <2> QED
    BY <1>4, <2>1, <2>3, <2>4, HealthyStep
<1> QED
  BY <1>3, <1>5, <1>6

\* In the IR of any program a jump leads to a line of its own function, and in
\* one case to the line behind it: where a branch, a loop or a Boolean
\* assignment that was completed in that function goes on.
THEOREM JumpsLeaveAtEndAlways == Spec => []JumpsLeaveAtEnd
<1>1. Init => Leaving /\ JumpsLeaveAtEnd
  <2>1. Init => Depth = 0
    BY DEF Init, Depth
  <2> QED
    BY <2>1 DEF Init, Leaving, JumpsLeaveAtEnd
<1>2. /\ Linked /\ Decisive /\ Leaving /\ JumpsLeaveAtEnd /\ [Next]_vars /\ Linked'
      => Leaving' /\ JumpsLeaveAtEnd'
  BY LeavingStep, LeaveStep
<1> QED
  BY <1>1, <1>2, DecisiveAlways, PTL DEF Spec
=============================================================================
