-------------------------- MODULE SemanticActions ---------------------------
(***************************************************************************)
(* The translation of grammar.y: the semantic actions that emit IR and the *)
(* lists of ir.c that fill its jump targets in later (backpatching).       *)
(*                                                                         *)
(* The state is the parser's: its semantic stack and the IR array.  Every  *)
(* action below is one or more reductions of the grammar together with     *)
(* their semantic actions; which one comes next is the program being       *)
(* compiled, so Next ranges over all programs of a bounded size.           *)
(* Parentheses emit nothing, so any tree of operators is some expression.  *)
(*                                                                         *)
(* A Boolean value at run time is a valuation of the atomic conditions a   *)
(* program tests; a conditional jump carries the valuations it is taken    *)
(* in, and an expression the valuations in which it is true.               *)
(***************************************************************************)
EXTENDS Integers, Sequences, FiniteSets, SequencesExt

CONSTANTS
    Atoms,    \* the conditions tested: Boolean variables, comparisons
    Workloads \* the kinds of program compiled, see WorkloadType

FormSet == {"while", "if", "block", "statement", "assign", "return", "constant",
            "call", "array", "or", "and", "not", "compare_booleans",
            "packed_argument", "unreturned", "error"}

\* A workload is the set of constructs its programs use, the size of the IR
\* array (2048 in ir.h: emit exits when it is full) and a bound on the depth
\* of the semantic stack.
WorkloadType == [forms : SUBSET FormSet, lines : Nat, depth : Nat]

ASSUME WorkloadsAssumption == Workloads \subseteq WorkloadType

VARIABLES
    workload,
    IR,             \* the instructions; nextinstr is their number
    error_reported, \* ir.c's flag: nothing is emitted or patched any more
    stack,          \* the parser's semantic values, innermost last
    \* what control has been promised to do (not in the program)
    decided,        \* completed tests and joins
    functions,      \* completed functions: [call_index, end_index]
    abandoned       \* jumps whose lists no item of the stack takes over

vars == <<workload, IR, error_reported, stack, decided, functions, abandoned>>

Forms == workload.forms
IR_ARRAY_SIZE == workload.lines
MaxStack == workload.depth

Valuations == SUBSET Atoms

\* An instruction: what it is, when it jumps, and where to (-1: not known yet).
Instruction(op, cond, target) == [op |-> op, cond |-> cond, target |-> target]
JumpIf(cond) == Instruction("if", cond, -1)
GotoIR       == Instruction("goto", Valuations, -1)
Plain(op)    == Instruction(op, {}, -1)

nextinstr == Len(IR)

-----------------------------------------------------------------------------
(* ir.c.  Lists are sets of instruction indices.                           *)

Emit(code, i) == IF error_reported THEN code ELSE Append(code, i)

\* A mistake the invariants rule out: emitting goes on after an error.
EmitAll_Always(code, is) == code \o is

EmitAll(code, is) == IF error_reported THEN code ELSE code \o is

\* A mistake the invariants rule out: the target is one past where it should be.
backpatch_OffByOne(code, list, target) ==
    [n \in DOMAIN code |-> IF n - 1 \in list THEN [code[n] EXCEPT !.target = target + 1]
                           ELSE code[n]]

backpatch(code, list, target) ==
    IF error_reported THEN code
    ELSE [n \in DOMAIN code |-> IF n - 1 \in list THEN [code[n] EXCEPT !.target = target]
                                ELSE code[n]]

\* A mistake the invariants rule out: the list is made after the emit.
makeList_AfterEmit(i) == {i + 1}

\* A mistake the invariants rule out: the second list is dropped.
mergeList_First(a, b) == a

\* A mistake the invariants rule out: the list starts over.
insertToList_Restart(l, i) == {i}

makeList(i)        == {i}
mergeList(a, b)    == a \union b
insertToList(l, i) == l \union {i}

\* A mistake the invariants rule out: the array is checked once, not per instruction.
Room_Once(n) == nextinstr <= IR_ARRAY_SIZE

\* emit exits the compiler rather than write past the array.
Room(n) == nextinstr + n <= IR_ARRAY_SIZE

-----------------------------------------------------------------------------
(* The semantic stack                                                      *)

\* quad is nextinstr where the item begins (the M of the rule it belongs to).
Item(k) == [k |-> k, quad |-> nextinstr, true_list |-> {}, false_list |-> {},
            truth |-> {}, start |-> nextinstr]

Bodies == {"function", "while_body", "then", "else", "block"}
Openers == {"while", "if", "assign", "return", "argument", "packed_argument",
            "and", "or", "not"}
ItemKinds == Bodies \union Openers \union {"expr"}

Depth == Len(stack)
Top == stack[Depth]
Under == stack[Depth - 1]

InBody == Depth > 0 /\ Top.k \in Bodies
ExpectsExpression == Depth > 0 /\ Top.k \in Openers
HasOperand(opener) == Depth > 1 /\ Top.k = "expr" /\ Under.k = opener

Push(i) == Depth < MaxStack /\ stack' = Append(stack, i)
Pop(n)  == stack' = SubSeq(stack, 1, Depth - n)
Replace(n, i) == stack' = Append(SubSeq(stack, 1, Depth - n), i)

\* Jumps just emitted whose lists are dropped with the value they belong to.
Abandon(list) == abandoned' = IF error_reported THEN abandoned ELSE abandoned \union list

\* A test: control that reaches start goes on at yes or at no.
Test(start, truth, yes, no) == [start |-> start, truth |-> truth, yes |-> yes, no |-> no]
Decide(tests) == decided' = IF error_reported THEN decided ELSE decided \union tests

\* Types.  In particular emit never writes past the IR array, and no jump
\* targets a line beyond the one that is emitted next.
TypeOK ==
    /\ IR \in Seq([op : {"if", "goto", "assign", "return", "param", "call", "crash",
                         "read", "write", "compute"},
                   cond : SUBSET Valuations, target : -1 .. IR_ARRAY_SIZE])
    /\ nextinstr <= IR_ARRAY_SIZE
    /\ error_reported \in BOOLEAN
    /\ stack \in Seq([k : ItemKinds, quad : 0 .. IR_ARRAY_SIZE,
                      true_list : SUBSET (0 .. IR_ARRAY_SIZE),
                      false_list : SUBSET (0 .. IR_ARRAY_SIZE),
                      truth : SUBSET Valuations, start : 0 .. IR_ARRAY_SIZE])
    /\ Depth <= MaxStack
    /\ workload \in Workloads /\ abandoned \subseteq 0 .. IR_ARRAY_SIZE
    /\ functions \subseteq [call_index : 0 .. IR_ARRAY_SIZE, end_index : 0 .. IR_ARRAY_SIZE]

Init ==
    /\ IR = <<>> /\ error_reported = FALSE /\ stack = <<>>
    /\ decided = {} /\ functions = {} /\ abandoned = {}
    /\ workload \in Workloads

-----------------------------------------------------------------------------
(* expression                                                              *)

\* A jump to the true side and a goto to the false side, both unpatched.
TwoWay(code, cond) == EmitAll(code, <<JumpIf(cond), GotoIR>>)

Expression(cond, start) ==
    [Item("expr") EXCEPT !.true_list = makeList(nextinstr),
                         !.false_list = makeList(nextinstr + 1),
                         !.truth = cond, !.start = start]

Atomic(cond) ==
    /\ ExpectsExpression /\ Room(2)
    /\ IR' = TwoWay(IR, cond)
    /\ Push(Expression(cond, nextinstr))
    /\ UNCHANGED <<error_reported, decided, functions, abandoned, workload>>

\* A Boolean variable, or a comparison of integers or characters.
Variable(a) == Atomic({v \in Valuations : a \in v})
Constant(b) == "constant" \in Forms /\ Atomic(IF b THEN Valuations ELSE {})

\* expression OR . / expression AND . / NOT . / expression EQUAL_TO .
\* with the M that follows OR and AND.
Operator(op) ==
    /\ op \in Forms \intersect {"or", "and"}
    /\ Depth > 0 /\ Top.k = "expr"
    /\ Push(Item(op))
    /\ UNCHANGED <<IR, error_reported, decided, functions, abandoned, workload>>

Negation ==
    /\ "not" \in Forms /\ ExpectsExpression
    /\ Push(Item("not"))
    /\ UNCHANGED <<IR, error_reported, decided, functions, abandoned, workload>>

\* The left operand, two below the top.
Left == stack[Depth - 2]

ReduceOr ==
    /\ HasOperand("or")
    /\ IR' = backpatch(IR, Left.false_list, Under.quad)
    /\ Replace(3, [Left EXCEPT !.false_list = Top.false_list,
                               !.true_list = mergeList(Left.true_list, Top.true_list),
                               !.truth = Left.truth \union Top.truth])
    /\ UNCHANGED <<error_reported, decided, functions, abandoned, workload>>

ReduceAnd ==
    /\ HasOperand("and")
    /\ IR' = backpatch(IR, Left.true_list, Under.quad)
    /\ Replace(3, [Left EXCEPT !.true_list = Top.true_list,
                               !.false_list = mergeList(Left.false_list, Top.false_list),
                               !.truth = Left.truth \intersect Top.truth])
    /\ UNCHANGED <<error_reported, decided, functions, abandoned, workload>>

ReduceNot ==
    /\ HasOperand("not")
    /\ Replace(2, [Top EXCEPT !.true_list = Top.false_list, !.false_list = Top.true_list,
                              !.truth = Valuations \ Top.truth])
    /\ UNCHANGED <<IR, error_reported, decided, functions, abandoned, workload>>

\* a = b for Boolean variables: each was reduced to an expression of its own
\* first, with jumps of its own, and the comparison makes new lists.
CompareBooleans(a, b) ==
    LET both == {v \in Valuations : (a \in v) <=> (b \in v)}
        operands == TwoWay(TwoWay(IR, {v \in Valuations : a \in v}),
                           {v \in Valuations : b \in v})
    IN  /\ "compare_booleans" \in Forms /\ ExpectsExpression /\ Room(6)
        /\ IR' = TwoWay(operands, both)
        /\ Push([Expression(both, nextinstr) EXCEPT
                   !.true_list = makeList(Len(operands)),
                   !.false_list = makeList(Len(operands) + 1)])
        /\ Abandon(nextinstr .. nextinstr + 3)
        /\ UNCHANGED <<error_reported, decided, functions, workload>>

\* The value of a Boolean expression e is stored by the two instructions op,
\* one for true and one for false, with a goto between them when control must
\* not run into the second.
Stored(e, op) ==
    LET onTrue  == backpatch(IR, e.true_list, nextinstr)
        onFalse == backpatch(EmitAll(onTrue, <<Plain(op), GotoIR>>), e.false_list, nextinstr + 2)
    IN  backpatch(Emit(onFalse, Plain(op)), makeList(nextinstr + 1), nextinstr + 3)

StoredTests(e) ==
    {Test(e.start, e.truth, nextinstr, nextinstr + 2),
     Test(nextinstr, Valuations, nextinstr + 3, nextinstr + 2)}

\* f(b): the value is pushed by one of two PARAMs, and the result of the call
\* is a Boolean variable, here a, of the enclosing expression.
BeginArgument ==
    /\ "call" \in Forms /\ ExpectsExpression
    /\ Push(Item("argument"))
    /\ UNCHANGED <<IR, error_reported, decided, functions, abandoned, workload>>

EndArgument(a) ==
    LET cond == {v \in Valuations : a \in v}
        called == Emit(Stored(Top, "param"), Plain("call"))
    IN  /\ HasOperand("argument") /\ Room(6)
        /\ IR' = TwoWay(called, cond)
        /\ Replace(2, [Item("expr") EXCEPT !.true_list = makeList(Len(called)),
                                           !.false_list = makeList(Len(called) + 1),
                                           !.truth = cond, !.start = Len(called),
                                           !.quad = Under.quad])
        /\ Decide(StoredTests(Top))
        /\ UNCHANGED <<error_reported, functions, abandoned, workload>>

\* f(b, ..) where f takes its record field by field: b's entry is pushed as it
\* is and its lists are left behind.
PackedArgument(a, b) ==
    LET cond == {v \in Valuations : a \in v}
        called == EmitAll(TwoWay(IR, {v \in Valuations : b \in v}),
                          <<Plain("param"), Plain("call")>>)
    IN  /\ "packed_argument" \in Forms /\ ExpectsExpression /\ Room(6)
        /\ IR' = TwoWay(called, cond)
        /\ Push([Expression(cond, nextinstr) EXCEPT
                   !.true_list = makeList(Len(called)),
                   !.false_list = makeList(Len(called) + 1)])
        /\ Abandon(nextinstr .. nextinstr + 1)
        /\ UNCHANGED <<error_reported, decided, functions, workload>>

-----------------------------------------------------------------------------
(* simple_statement                                                        *)

\* x := e and RETURN e for an e that is not Boolean: one instruction.
Simple(op) ==
    /\ "statement" \in Forms /\ InBody /\ Room(1)
    /\ IR' = Emit(IR, Plain(op))
    /\ UNCHANGED <<error_reported, stack, decided, functions, abandoned, workload>>

Begin(opener, form) ==
    /\ InBody /\ form \in Forms
    /\ Push(Item(opener))
    /\ UNCHANGED <<IR, error_reported, decided, functions, abandoned, workload>>

Assign ==
    /\ HasOperand("assign") /\ Room(3)
    /\ IR' = Stored(Top, "assign")
    /\ Pop(2)
    /\ Decide(StoredTests(Top))
    /\ UNCHANGED <<error_reported, functions, abandoned, workload>>

Return ==
    LET onTrue == backpatch(IR, Top.true_list, nextinstr)
        onFalse == backpatch(Emit(onTrue, Plain("return")), Top.false_list, nextinstr + 1)
    IN  /\ HasOperand("return") /\ Room(2)
        /\ IR' = Emit(onFalse, Plain("return"))
        /\ Pop(2)
        /\ Decide({Test(Top.start, Top.truth, nextinstr, nextinstr + 1)})
        /\ UNCHANGED <<error_reported, functions, abandoned, workload>>

\* a(i) := e for one dimension, a(i, j) := e for two: the bounds check of the
\* assignable, the offset, a goto over the crash, the crash and the write.
\* Dimension k is below zero in the valuations lo[k], below its size in hi[k].
IndexedWrite(lo, hi) ==
    LET n == nextinstr
        check(k) == <<Plain("read"), JumpIf(lo[k]), JumpIf(hi[k]), GotoIR>>
        first == EmitAll(IR, check(1))
        safe1 == backpatch(first, makeList(n + 2), n + 4)
        crash1 == insertToList(makeList(n + 1), n + 3)
        second == EmitAll(safe1, check(2))
        safe2 == EmitAll(backpatch(second, makeList(n + 6), n + 8),
                         <<Plain("compute"), Plain("compute")>>)
        crash2 == insertToList(insertToList(crash1, n + 5), n + 7)
        checked == IF Len(lo) = 1 THEN safe1 ELSE safe2
        crash_list == IF Len(lo) = 1 THEN crash1 ELSE crash2
        m == n + IF Len(lo) = 1 THEN 4 ELSE 10
        offset == EmitAll(checked, <<Plain("compute"), Plain("compute"), GotoIR>>)
        crash == Emit(backpatch(offset, crash_list, m + 3), Plain("crash"))
        inside == {v \in Valuations : \A k \in DOMAIN lo : v \notin lo[k] /\ v \in hi[k]}
    IN  /\ "array" \in Forms /\ InBody /\ Room(m + 5 - n)
        /\ IR' = Emit(backpatch(crash, makeList(m + 2), m + 4), Plain("write"))
        /\ Decide({Test(n, inside, m, m + 3), Test(m, Valuations, m + 4, m + 3)})
        /\ UNCHANGED <<error_reported, stack, functions, abandoned, workload>>

-----------------------------------------------------------------------------
(* compound_statement                                                      *)

\* A statement list is never empty, and every statement emits something.
BodyDone(k) == Depth > 0 /\ Top.k = k /\ (nextinstr > Top.quad \/ error_reported)

\* WHILE M ( expression ) M {...}
WhileBody ==
    /\ HasOperand("while")
    /\ IR' = backpatch(IR, Top.true_list, nextinstr)
    /\ Replace(2, [Item("while_body") EXCEPT !.false_list = Top.false_list,
                     !.truth = Top.truth, !.start = Under.quad])
    /\ UNCHANGED <<error_reported, decided, functions, abandoned, workload>>

EndWhile ==
    /\ BodyDone("while_body") /\ Room(1)
    /\ IR' = LET looped == Emit(IR, [GotoIR EXCEPT !.target = Top.start])
             IN  backpatch(looped, Top.false_list, Len(looped))
    /\ Pop(1)
    /\ Decide({Test(Top.start, Top.truth, Top.quad, nextinstr + 1),
               Test(nextinstr, Top.truth, Top.quad, nextinstr + 1)})
    /\ UNCHANGED <<error_reported, functions, abandoned, workload>>

\* IF ( expression ) M THEN {...}
ThenBody ==
    /\ HasOperand("if")
    /\ IR' = backpatch(IR, Top.true_list, nextinstr)
    /\ Replace(2, [Item("then") EXCEPT !.false_list = Top.false_list,
                     !.truth = Top.truth, !.start = Under.quad])
    /\ UNCHANGED <<error_reported, decided, functions, abandoned, workload>>

\* sblock N ELSE M {...}: n_list in the else item is its true_list.
ElseBody ==
    /\ BodyDone("then") /\ Room(1)
    /\ LET skipped == Emit(IR, GotoIR)
       IN  /\ IR' = backpatch(skipped, Top.false_list, Len(skipped))
           /\ Replace(1, [Item("else") EXCEPT !.true_list = makeList(nextinstr),
                            !.quad = Len(skipped), !.start = nextinstr])
    /\ Decide({Test(Top.start, Top.truth, Top.quad, nextinstr + 1)})
    /\ UNCHANGED <<error_reported, functions, abandoned, workload>>

EndElse ==
    /\ BodyDone("else")
    /\ IR' = backpatch(IR, Top.true_list, nextinstr)
    /\ Pop(1)
    /\ Decide({Test(Top.start, Valuations, nextinstr, Top.quad)})
    /\ UNCHANGED <<error_reported, functions, abandoned, workload>>

EndBlock ==
    /\ BodyDone("block") /\ Pop(1)
    /\ UNCHANGED <<IR, error_reported, decided, functions, abandoned, workload>>

-----------------------------------------------------------------------------
(* definition                                                              *)

BeginFunction ==
    /\ stack = <<>> /\ Push(Item("function"))
    /\ UNCHANGED <<IR, error_reported, decided, functions, abandoned, workload>>

\* Nothing is emitted at the end of a function; the last statement need not
\* be a return.
EndFunction ==
    /\ BodyDone("function")
    /\ "unreturned" \notin Forms => nextinstr > 0 /\ IR[nextinstr].op = "return"
    /\ Pop(1)
    /\ functions' = IF error_reported THEN functions ELSE functions \union
                      {[call_index |-> Top.quad, end_index |-> nextinstr - 1]}
    /\ UNCHANGED <<IR, error_reported, decided, abandoned, workload>>

\* report_type_error and yyerror: parsing goes on.
ReportError ==
    /\ "error" \in Forms /\ ~error_reported
    /\ error_reported' = TRUE
    /\ UNCHANGED <<IR, stack, decided, functions, abandoned, workload>>

Next ==
    \/ \E a \in Atoms : Variable(a) \/ EndArgument(a)
    \/ \E b \in BOOLEAN : Constant(b)
    \/ \E op \in {"or", "and"} : Operator(op)
    \/ Negation \/ ReduceOr \/ ReduceAnd \/ ReduceNot
    \/ \E a, b \in Atoms : CompareBooleans(a, b) \/ PackedArgument(a, b)
    \/ BeginArgument
    \/ \E op \in {"assign", "return"} : Simple(op) \/ Begin(op, op)
    \/ Assign \/ Return
    \/ \E n \in 1 .. 2 : \E lo, hi \in [1 .. n -> {{v \in Valuations : a \in v} : a \in Atoms}] :
         IndexedWrite(lo, hi)
    \/ \E k \in {"while", "if", "block"} : Begin(k, k)
    \/ WhileBody \/ EndWhile \/ ThenBody \/ ElseBody \/ EndElse \/ EndBlock
    \/ BeginFunction \/ EndFunction \/ ReportError

Spec == Init /\ [][Next]_vars

-----------------------------------------------------------------------------
(* Running the IR                                                          *)

Taken(i, v) == v \in IR[i + 1].cond

\* One instruction.  Control stays at a jump whose target is not known yet and
\* leaves at a return; a call comes back, and .crash ends in a ret as well.
Step(i, v) == IF IR[i + 1].op = "return" THEN i
              ELSE IF ~Taken(i, v) THEN i + 1
              ELSE IF IR[i + 1].target = -1 THEN i ELSE IR[i + 1].target

\* Where control from start first is in stops, or where it ends up.
Reaches(start, v, stops) ==
    LET at[n \in 0 .. nextinstr] ==
          IF n = 0 THEN start
          ELSE LET i == at[n - 1]
               IN  IF i \in stops \/ i \notin 0 .. nextinstr - 1 THEN i ELSE Step(i, v)
    IN  at[nextinstr]

\* Short circuits, branches, loops and bounds checks: every completed test
\* sends control where its condition says, in every valuation, unless control
\* meets a jump that was abandoned.
TestsDecide ==
    \A d \in decided, v \in Valuations :
      LET goal == IF v \in d.truth THEN d.yes ELSE d.no
      IN  Reaches(d.start, v, {d.yes, d.no}) \in {goal} \union abandoned

\* An expression still on the stack leaves through a jump of its true list
\* exactly when it is true, and otherwise through one of its false list, or
\* stays at a jump that was abandoned.
ExpressionsDecide ==
    ~error_reported => \A k \in DOMAIN stack : stack[k].k = "expr" =>
      \A v \in Valuations :
        LET list == IF v \in stack[k].truth THEN stack[k].true_list
                                            ELSE stack[k].false_list
        IN  Reaches(stack[k].start, v, {}) \in list \union abandoned

\* The jumps without a target are those some item of the stack will patch,
\* each in one list of one item, and those of the two constructs that abandon
\* theirs, which nothing patches: none else is forgotten, none patched twice.
Unpatched == {i \in 0 .. nextinstr - 1 : IR[i + 1].cond # {} /\ IR[i + 1].target = -1}
Waiting == {stack[k].true_list : k \in DOMAIN stack}
             \union {stack[k].false_list : k \in DOMAIN stack}
NothingDangling ==
    ~error_reported =>
      /\ Unpatched \subseteq abandoned \union UNION Waiting
      /\ abandoned \subseteq {i \in Unpatched : i \notin UNION Waiting}
      /\ \A k, l \in DOMAIN stack :
           /\ stack[k].true_list \intersect stack[l].false_list = {}
           /\ k # l => /\ stack[k].true_list \intersect stack[l].true_list = {}
                       /\ stack[k].false_list \intersect stack[l].false_list = {}

\* A jump of a function leads to a line of it.  One goes on from there: the way
\* out of a branch, loop or Boolean assignment at the very end of the function
\* leads to the line behind, where there is no line of it any more.
JumpsLeaveAtEnd ==
    \A f \in functions :
      LET lines  == f.call_index .. f.end_index
          behind == f.end_index + 1
      IN  \A i \in lines :
            \/ IR[i + 1].target \in {-1} \union lines
            \/ /\ IR[i + 1].target = behind
               /\ \E d \in decided : d.start \in lines /\ behind \in {d.yes, d.no}

\* A function without a return statement gets out through the epilogue after
\* its last instruction: none of its jumps leads past it.  The line behind is
\* where the next function begins, and its label is put there.
EndsInEpilogue ==
    \A f \in functions :
      LET lines == f.call_index .. f.end_index
      IN  (\A i \in lines : IR[i + 1].op # "return") =>
            \A i \in lines : IR[i + 1].target \in lines \union {-1}

\* Once an error is reported the IR stays as it is.
FrozenAfterError == [][error_reported => UNCHANGED IR]_vars
=============================================================================
