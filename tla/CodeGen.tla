------------------------------ MODULE CodeGen -------------------------------
(***************************************************************************)
(* The code generator of cg.c: generateAsForFunc and ir2as with one        *)
(* handler per IR instruction.  An action is one call of ir2as: the flush  *)
(* and the label of a leader, then the whole handler.                      *)
(*                                                                         *)
(* The IR is the environment: the next instruction is any one the parser   *)
(* may emit at that point, restricted to the forms in Kinds.  A discipline *)
(* is a condition on the IR under which one documented promise of the      *)
(* generator holds; the runs that leave one out show why it is needed.     *)
(***************************************************************************)
EXTENDS RegisterFile

CONSTANTS
    Kinds,       \* the IR forms the environment emits
    Disciplines, \* the disciplines the IR keeps
    MaxParams    \* bound on |param_count| and on the arguments of a call

KindSet == {"assign", "assign_string", "copy", "fold", "binary", "binary_const",
            "const_add", "const_sub", "divide", "unary", "mem_read", "mem_write",
            "if_true", "if_relop", "goto", "param", "param_string",
            "param_boolean", "call", "return", "return_string"}

DisciplineSet == {"copies_temporaries", "fresh_targets", "clean_dividends",
                  "no_eviction_clash", "ends_flushed"}

ASSUME InputAssumption ==
    /\ Kinds \subseteq KindSet /\ Disciplines \subseteq DisciplineSet
    /\ MaxParams \in Nat \ {0}

VARIABLES
    cg,          \* register file, descriptors and the contents they stand for
    param_count, \* cg.c's count of the arguments pushed for the next call
    cgFlag,      \* FALSE: printCG writes no assembly file
    \* the IR so far
    phase,       \* where in a function, or in a call's argument list, it is
    live,        \* temporaries that hold a value some instruction still reads
    mustLead,    \* the last instruction makes the next one a leader
    \* what the emitted code does, as far as the generator promises something
    stale,       \* operands the last instruction took from a wrong place
    pushed,      \* argument words on the stack for the next call
    jumped       \* a goto has been generated

vars == <<cg, param_count, cgFlag, phase, live, mustLead, stale, pushed, jumped>>

Phases == {"entry",       \* before the first instruction of a function
           "statement",   \* after an instruction that leaves the block open
           "branch",      \* after a conditional jump: another jump follows
           "transfer",    \* after a goto or a call
           "arguments",   \* after a PARAM
           "param_test",  \* after the jumps of a Boolean argument's expression
           "param_true", "param_join", \* inside the two PARAMs of a Boolean
           "returned", "unreturned"}   \* after RETURN, with or without epilogue

\* Types.  In particular the round robin of getReg stays inside the registers
\* it may evict.
TypeOK ==
    /\ cg \in GeneratorState
    /\ param_count \in -MaxParams .. MaxParams
    /\ cgFlag \in BOOLEAN
    /\ phase \in Phases
    /\ live \subseteq Temps
    /\ mustLead \in BOOLEAN
    /\ stale \subseteq Entries
    /\ pushed \in 0 .. MaxParams
    /\ jumped \in BOOLEAN

Init ==
    /\ cg = initialize_register_file
    /\ param_count = 0
    /\ cgFlag = TRUE
    /\ phase = "entry"
    /\ live = {}
    /\ mustLead = FALSE
    /\ stale = {}
    /\ pushed = 0
    /\ jumped = FALSE

-----------------------------------------------------------------------------
(* The environment: which instruction may come next.                       *)

Keeps(d) == d \in Disciplines

Operands == Locals \union live \union Consts
Readable == Locals \union live

\* A temporary is a new entry each time the parser creates one.
FreshTemp(x) ==
    x \in Temps \ live /\ cg.reg_index[x] = NOT_IN_REGISTER /\ Claimants(cg, x) = {}

\* So is a constant.
FreshConst(c) ==
    c \in Consts /\ cg.reg_index[c] = NOT_IN_REGISTER /\ Claimants(cg, c) = {}

InStatements(k) ==
    k \in Kinds /\ cgFlag /\ phase \in {"entry", "statement", "transfer"}

\* Every predecessor of a leader agrees on a variable being in its own slot
\* and on nothing else.
Join(s) == [s EXCEPT !.reg = [i \in Regs |-> {}],
                     !.mem = [c \in Cells |-> s.mem[c] \intersect {c}]]

\* ir2as: a leader first flushes the registers.  The next instruction is one
\* after a jump or a call; any other may be the target of a jump.
AtStart == {Join(freeAllRegs(cg))} \union (IF mustLead THEN {} ELSE {cg})

\* The state the instruction leaves.  Only contents a later instruction can
\* ask for are kept.
Emit(s, wrong, nowLive) ==
    LET kept == Locals \union nowLive \union {SAVED_RBP}
        used(i) == s.register_file[i] # NULL \/ \E e \in Entries : s.reg_index[e] = i
    IN  /\ cg' = [s EXCEPT
                    !.reg = [i \in Regs |-> IF used(i) THEN s.reg[i] \intersect kept ELSE {}],
                    !.mem = [d \in Cells |-> IF d \in kept THEN s.mem[d] \intersect kept
                                                            ELSE {}]]
        /\ live' = nowLive
        /\ stale' = wrong

\* The operands among vs that s does not hold where the instruction reads.
Missing(s, vs) == {v \in vs : v \notin s.reg[s.reg_index[v]]}

Plain ==
    /\ phase' = "statement" /\ mustLead' = FALSE
    /\ UNCHANGED <<param_count, cgFlag, pushed, jumped>>

-----------------------------------------------------------------------------
(* x := y                                                                  *)

\* A constant other than a string: a move into x's register.
AssignConst(x) ==
    /\ InStatements("assign")
    /\ \E s0 \in AtStart :
         LET s1 == getReg(s0, x)
         IN  /\ Keeps("fresh_targets") => Claimants(s1, x) = {s1.reg_index[x]}
             /\ Emit(Compute(s1, s1.reg_index[x], x), {}, live)
    /\ Plain

\* A string: x's register is chosen, everything is flushed, the literal is
\* built by a call of reserve, and the register is claimed again.
AssignString(x) ==
    /\ InStatements("assign_string")
    /\ \E s0 \in AtStart :
         LET s1 == getReg(s0, x)
             r  == s1.reg_index[x]
             s2 == Clobber(freeAllRegs(s1))
         IN  Emit(Compute(setRegisterVariable(s2, r, x), r, x), {}, live)
    /\ Plain

\* A variable: y's register becomes x's and y has none.
AssignCopy(x, y) ==
    /\ InStatements("copy")
    /\ Keeps("copies_temporaries") => y \in Temps
    /\ \E s0 \in AtStart :
         LET s1 == loadReg(s0, y)
             r  == s1.reg_index[y]
             s2 == Detach(setRegisterVariable(s1, r, x), y)
         IN  /\ Keeps("fresh_targets") => Claimants(s1, x) = {}
             /\ Emit(Alias(s2, x, y), Missing(s1, {y}), live \ {y})
    /\ Plain

-----------------------------------------------------------------------------
(* x := y op z, x := op y.  The parser's x is always a new temporary.      *)

\* Both operands constant: folded into a move.
BinaryFold(x) ==
    /\ InStatements("fold") /\ FreshTemp(x)
    /\ \E s0 \in AtStart :
         LET s1 == getReg(s0, x)
         IN  Emit(Compute(s1, s1.reg_index[x], x), {}, live \union {x})
    /\ Plain

\* The register r of operand y is saved, overwritten and given to x.
OverwriteOperand(s, x, y, r) ==
    Detach(setRegisterVariable(Compute(saveRegVariable(s, r, y), r, x), r, x), y)

\* ADD, SUB and MUL of two variables.
BinaryVars(x, y, z, dead) ==
    /\ InStatements("binary") /\ FreshTemp(x)
    /\ dead \subseteq {y, z}
    /\ \E s0 \in AtStart :
         LET s1 == loadReg(s0, y)
             ry == s1.reg_index[y]
             s2 == loadReg(s1, z)
         IN  /\ Keeps("no_eviction_clash") => s2.reg_index[y] = ry
             /\ Emit(OverwriteOperand(s2, x, y, ry),
                     {v \in {y} : v \notin s2.reg[ry]} \union Missing(s2, {z}),
                     (live \ dead) \union {x})
    /\ Plain

\* ADD, SUB and MUL with a constant right operand, ADD and MUL with a
\* constant left one, and the negation of a variable.
OneOperand(x, y, dead) ==
    /\ FreshTemp(x)
    /\ dead \subseteq {y}
    /\ \E s0 \in AtStart :
         LET s1 == loadReg(s0, y)
         IN  Emit(OverwriteOperand(s1, x, y, s1.reg_index[y]),
                  Missing(s1, {y}), (live \ dead) \union {x})
    /\ Plain

BinaryRightConst(x, y, dead) == InStatements("binary_const") /\ OneOperand(x, y, dead)
BinaryLeftConst(x, z, dead)  == InStatements("const_add") /\ OneOperand(x, z, dead)
UnaryVar(x, y, dead)         == InStatements("unary") /\ OneOperand(x, y, dead)

\* SUB with a constant left operand c: c gets a register of its own, which
\* saveRegVariable stores to the slot of c before x takes it over.
ConstMinusVar(x, c, z, dead) ==
    /\ InStatements("const_sub") /\ FreshTemp(x) /\ FreshConst(c)
    /\ dead \subseteq {z}
    /\ \E s0 \in AtStart :
         LET s1 == loadReg(s0, z)
             rz == s1.reg_index[z]
             s2 == getReg(s1, c)
             rc == s2.reg_index[c]
         IN  /\ Keeps("no_eviction_clash") => rc # rz
             /\ Emit(OverwriteOperand(Garbage(s2, rc), x, c, rc),
                     {v \in {z} : v \notin Garbage(s2, rc).reg[rz]},
                     (live \ dead) \union {x})
    /\ Plain

\* The operand's value is in its slot as well, or nobody reads it again.
CleanDividend(s, y, dead) == y \in Readable \ dead => y \in s.mem[y]

\* handleBinaryOp loads the variable operands, then handleDivision (handleRem)
\* loads y into %rax, then z, and stores the result to the slot of x.
Divide(x, y, z, dead) ==
    /\ InStatements("divide") /\ FreshTemp(x)
    /\ \A c \in {y, z} \intersect Consts : FreshConst(c)
    /\ {y, z} \intersect Vars # {} /\ dead \subseteq {y, z}
    /\ \E s0 \in AtStart :
         LET load(s, v) == IF v \in Consts THEN s ELSE loadReg(s, v)
             s1 == load(load(s0, y), z)
             s2 == load(freeReg(freeReg(s1, RAX_INDEX), RDX_INDEX), y)
             wy == IF y \in Consts THEN {} ELSE Missing(s2, {y})
             s3 == IF z \in Consts
                   THEN LET t == getReg(s2, z)
                        IN  setRegisterVariable(Garbage(t, t.reg_index[z]), t.reg_index[z], z)
                   ELSE loadReg(s2, z)
             wz == IF z \in Consts THEN {} ELSE Missing(s3, {z})
             s4 == ComputeInSlot(Garbage(Garbage(s3, RAX_INDEX), RDX_INDEX), x)
             s5 == freeReg(freeReg(s4, RAX_INDEX), RDX_INDEX)
         IN  /\ Keeps("clean_dividends") => CleanDividend(s3, y, dead)
             /\ Emit(Detach(Detach(s5, y), x), wy \union wz, (live \ dead) \union {x})
    /\ Plain

-----------------------------------------------------------------------------
(* x := y[z], y[z] := x.  A variable z is a temporary computed for this    *)
(* access alone.                                                           *)

MemReadConst(x, y) ==
    /\ FreshTemp(x)
    /\ \E s0 \in AtStart :
         LET s1 == loadReg(s0, y)
             s2 == getReg(s1, x)
         IN  Emit(Compute(s2, s2.reg_index[x], x), Missing(s1, {y}), live \union {x})
    /\ UNCHANGED <<param_count, cgFlag, pushed, jumped>>

\* The address is computed in z's register; x gets its register while
\* register_file still gives that one to z; then it is released.
MemReadVar(x, y, z) ==
    /\ InStatements("mem_read") /\ FreshTemp(x) /\ y # z
    /\ \E s0 \in AtStart :
         LET s1 == loadReg(s0, y)
             ry == s1.reg_index[y]
             s2 == loadReg(s1, z)
             rz == s2.reg_index[z]
             s3 == Detach(Garbage(s2, rz), z)
             s4 == getReg(s3, x)
         IN  /\ Keeps("no_eviction_clash") => s2.reg_index[y] = ry /\ s4.reg_index[x] # rz
             /\ Emit(setRegisterVariable(Compute(s4, s4.reg_index[x], x), rz, NULL),
                     {v \in {y} : v \notin s2.reg[ry]} \union Missing(s2, {z}),
                     (live \ {z}) \union {x})
    /\ Plain

\* x is loaded before y and z unless it is an immediate.
MemWrite(x, y, z, dead) ==
    /\ InStatements("mem_write")
    /\ Cardinality({x, y, z}) = 3 /\ dead \subseteq {x}
    /\ \E s0 \in AtStart :
         LET s1 == IF x \in Consts THEN s0 ELSE loadReg(s0, x)
             s2 == loadReg(s1, y)
             s3 == IF z \in Consts THEN s2 ELSE loadReg(s2, z)
             at(v, s) == s.reg_index[v]
             first == IF x \in Consts THEN {} ELSE {v \in {x} : v \notin s3.reg[at(x, s1)]}
             base  == {v \in {y} : v \notin s3.reg[at(y, s2)]}
             index == IF z \in Consts THEN {} ELSE Missing(s3, {z})
             rz    == at(z, s3)
         IN  /\ Keeps("no_eviction_clash") =>
                  /\ x \in Vars => at(x, s3) = at(x, s1)
                  /\ at(y, s3) = at(y, s2)
             /\ Emit(IF z \in Consts THEN s3
                     ELSE setRegisterVariable(Detach(Garbage(s3, rz), z), rz, NULL),
                     first \union base \union index, live \ (dead \union {z}))
    /\ Plain

-----------------------------------------------------------------------------
(* Jumps                                                                   *)

\* An operand of a comparison: constants are moved into a register too.
loadOperand(s, v) ==
    IF v \in Consts
    THEN LET t == getReg(s, v)
         IN  setRegisterVariable(Garbage(t, t.reg_index[v]), t.reg_index[v], v)
    ELSE loadReg(s, v)

Branches(k) == InStatements(k) \/ (k \in Kinds /\ cgFlag /\ phase = "branch")

IfTrue(x) ==
    /\ InStatements("if_true")
    /\ x \in Consts => FreshConst(x)
    /\ \E s0 \in AtStart :
         LET s1 == loadOperand(freeAllRegs(s0), x)
         IN  Emit(s1, Missing(s1, {x} \intersect Vars), live)
    /\ phase' = "branch" /\ mustLead' = TRUE
    /\ UNCHANGED <<param_count, cgFlag, pushed, jumped>>

\* supported: every constant operand is an integer or a Boolean.  Otherwise
\* the handler gives up, with no jump emitted, and turns the output off.
IfRelop(x, y, supported) ==
    /\ Branches("if_relop")
    /\ \A c \in {x, y} \intersect Consts : FreshConst(c)
    /\ supported \/ {x, y} \intersect Consts # {}
    /\ \E s0 \in AtStart :
         LET s1 == freeAllRegs(s0)
             s2 == loadOperand(s1, x)
             s3 == loadOperand(s2, y)
             r  == s2.reg_index[x]
             first == IF x \in Consts THEN {} ELSE {v \in {x} : v \notin s3.reg[r]}
         IN  IF supported
             THEN Emit(s3, first \union Missing(s3, {y} \intersect Vars), live)
             ELSE Emit(s1, {}, live)
    /\ cgFlag' = supported
    /\ phase' = "branch" /\ mustLead' = TRUE
    /\ UNCHANGED <<param_count, pushed, jumped>>

\* -MaxParams stands for every smaller count as well.
More(n) == IF n = -MaxParams THEN {n, n + 1} ELSE {n + 1}

\* A mistake the invariants rule out: the goto is not counted as a pop.
Fewer_NotTaken(n) == n

Fewer(n) == IF n = -MaxParams THEN n ELSE n - 1

\* A goto of a statement, a loop, a Boolean expression or a bounds check.  The
\* expression may be the argument of a call.
Goto ==
    /\ Branches("goto")
    /\ \E s0 \in AtStart : Emit(freeAllRegs(s0), {}, live)
    /\ param_count' = Fewer(param_count) /\ jumped' = TRUE
    /\ \/ phase' = "transfer"
       \/ phase = "branch" /\ "param_boolean" \in Kinds /\ phase' = "param_test"
    /\ mustLead' = TRUE /\ UNCHANGED <<cgFlag, pushed>>

-----------------------------------------------------------------------------
(* Calls: PARAM x_n .. PARAM x_1, CALL f                                   *)

InArguments(k) ==
    /\ k \in Kinds /\ cgFlag /\ phase \in {"entry", "statement", "transfer", "arguments"}
    /\ pushed < MaxParams

\* A mistake the invariants rule out: an argument is pushed and not counted.
Push_NotCounted ==
    /\ pushed' = pushed + 1 /\ mustLead' = FALSE
    /\ UNCHANGED <<param_count, cgFlag, jumped>>

Push ==
    /\ param_count' \in More(param_count) /\ pushed' = pushed + 1
    /\ mustLead' = FALSE /\ UNCHANGED <<cgFlag, jumped>>

Param(x) ==
    /\ InArguments("param")
    /\ \E s0 \in AtStart :
         LET s1 == IF x \in Consts THEN s0 ELSE loadReg(s0, x)
         IN  Emit(s1, Missing(s1, {x} \intersect Vars), live \ {x})
    /\ phase' = "arguments" /\ Push

ParamString ==
    /\ InArguments("param_string")
    /\ \E s0 \in AtStart : Emit(Clobber(freeAllRegs(s0)), {}, live)
    /\ phase' = "arguments" /\ Push

\* The Boolean argument b of f(b), whose expression ends with a goto where it is
\* false: PARAM true; GOTO next; PARAM false; next: The expression jumps to the
\* two PARAMs.
ParamTrue ==
    /\ phase = "param_test"
    /\ Emit(Join(freeAllRegs(cg)), {}, live)
    /\ phase' = "param_true" /\ Push

\* The code after this goto runs on the path that did not push true.
ParamGoto ==
    /\ phase = "param_true"
    /\ \E s0 \in AtStart : Emit(freeAllRegs(s0), {}, live)
    /\ param_count' = Fewer(param_count) /\ pushed' = pushed - 1 /\ jumped' = TRUE
    /\ phase' = "param_join" /\ mustLead' = TRUE /\ UNCHANGED cgFlag

\* The CALL after this PARAM is the target of ParamGoto: a leader.
ParamFalse ==
    /\ phase = "param_join"
    /\ Emit(Join(freeAllRegs(cg)), {}, live)
    /\ param_count' \in More(param_count) /\ pushed' = pushed + 1
    /\ phase' = "arguments" /\ mustLead' = TRUE /\ UNCHANGED <<cgFlag, jumped>>

\* A record passed field by field reads each field before its PARAM.
ReadField(x, y) ==
    /\ "mem_read" \in Kinds /\ cgFlag
    /\ phase \in {"entry", "statement", "transfer", "arguments"}
    /\ MemReadConst(x, y)
    /\ phase' = (IF phase = "arguments" THEN phase ELSE "statement")
    /\ mustLead' = FALSE

\* x is the temporary the result is stored to, NULL for the calls of .crash and
\* of release.  What is pushed for the next call starts from nothing.
Call(x) ==
    /\ "call" \in Kinds /\ cgFlag
    /\ phase \in {"entry", "statement", "transfer", "arguments"}
    /\ x # NULL => FreshTemp(x)
    /\ \E s0 \in AtStart :
         LET s1 == Clobber(freeAllRegs(s0))
         IN  Emit(IF x = NULL THEN s1 ELSE ComputeInSlot(s1, x), {},
                  live \union ({x} \ {NULL}))
    /\ param_count' = IF param_count > 0 THEN 0 ELSE param_count
    /\ pushed' = 0
    /\ phase' = "transfer" /\ mustLead' = TRUE /\ UNCHANGED <<cgFlag, jumped>>

-----------------------------------------------------------------------------
(* Returns and function boundaries                                         *)

\* A string literal is built and left in %rax; the handler returns before
\* nukeRegisters and the epilogue.
ReturnString ==
    /\ InStatements("return_string")
    /\ \E s0 \in AtStart : Emit(Clobber(freeAllRegs(s0)), {}, {})
    /\ phase' = "unreturned" /\ mustLead' = TRUE
    /\ UNCHANGED <<param_count, cgFlag, pushed, jumped>>

\* x is read from its register, or from its slot, into %rax.
Return(x) ==
    /\ InStatements("return")
    /\ \E s0 \in AtStart :
         LET s1 == IF s0.reg_index[x] # RAX_INDEX THEN freeReg(s0, RAX_INDEX) ELSE s0
             from == IF s0.reg_index[x] # NOT_IN_REGISTER
                     THEN s1.reg[s0.reg_index[x]] ELSE s1.mem[Cell(x)]
         IN  Emit(nukeRegisters(s1), {v \in {x} \intersect Vars : v \notin from}, {})
    /\ phase' = "returned" /\ mustLead' = TRUE
    /\ UNCHANGED <<param_count, cgFlag, pushed, jumped>>

\* The function ends; the next one starts in a new frame.  Neither
\* register_file nor param_count is reset.  Functions are generated from the
\* last defined to the first, so the first instruction of the next one need
\* not follow the last one of this in the IR: it may or may not be a leader.
NextFunction ==
    /\ cgFlag
    /\ phase \in {"statement", "transfer", "returned"}
    /\ Keeps("ends_flushed") => phase # "statement"
    /\ cg' = [cg EXCEPT !.reg = initialize_register_file.reg,
                        !.mem = initialize_register_file.mem]
    /\ phase' = "entry" /\ live' = {} /\ stale' = {} /\ mustLead' = FALSE
    /\ UNCHANGED <<param_count, cgFlag, pushed, jumped>>

\* The code after a RETURN is the target of a jump, or unreachable.
AfterReturn ==
    /\ phase = "returned"
    /\ cg' = [cg EXCEPT !.reg = initialize_register_file.reg,
                        !.mem = initialize_register_file.mem]
    /\ phase' = "transfer"
    /\ UNCHANGED <<param_count, cgFlag, live, mustLead, stale, pushed, jumped>>

Next ==
    \/ \E x \in Locals : AssignConst(x) \/ AssignString(x)
    \/ \E x \in Locals, y \in Readable : AssignCopy(x, y)
    \/ \E x \in Temps : BinaryFold(x)
    \/ \E x \in Temps, y, z \in Readable, dead \in SUBSET live : BinaryVars(x, y, z, dead)
    \/ \E x \in Temps, y \in Readable, dead \in SUBSET live :
         \/ BinaryRightConst(x, y, dead)
         \/ BinaryLeftConst(x, y, dead)
         \/ UnaryVar(x, y, dead)
         \/ \E c \in Consts : ConstMinusVar(x, c, y, dead)
    \/ \E x \in Temps, y, z \in Operands, dead \in SUBSET live : Divide(x, y, z, dead)
    \/ \E x \in Temps, y \in Readable, z \in live : MemReadVar(x, y, z)
    \/ \E x \in Operands, y \in Readable, z \in live \union Consts, dead \in SUBSET live :
         MemWrite(x, y, z, dead)
    \/ \E x \in Operands : IfTrue(x) \/ Param(x) \/ Return(x)
    \/ \E x, y \in Operands, supported \in BOOLEAN : IfRelop(x, y, supported)
    \/ Goto
    \/ ParamString \/ ParamTrue \/ ParamGoto \/ ParamFalse
    \/ \E x \in Temps, y \in Readable : ReadField(x, y)
    \/ \E x \in Temps \union {NULL} : Call(x)
    \/ ReturnString \/ NextFunction \/ AfterReturn

Spec == Init /\ [][Next]_vars

-----------------------------------------------------------------------------
(* Properties                                                              *)

\* %rax and %rdx belong to division, calls and returns: no variable is ever
\* given one of them, and the round-robin victim never is one.
ReservedRegisters ==
    /\ cg.register_file[RAX_INDEX] = NULL /\ cg.register_file[RDX_INDEX] = NULL
    /\ \A e \in Entries : cg.reg_index[e] \notin {RAX_INDEX, RDX_INDEX}
    /\ cg.victim \in Allocatable

\* A variable that thinks it is in a register is the one register_file
\* gives that register to.
DescriptorsAgree ==
    \A e \in Entries : cg.reg_index[e] # NOT_IN_REGISTER =>
                          cg.register_file[cg.reg_index[e]] = e

\* Wherever loadReg would look for a variable some later instruction may
\* read, it finds the value the IR gives that variable.
ValuesFindable ==
    phase \notin {"returned", "unreturned"} => \A v \in Readable :
      v \in IF cg.reg_index[v] # NOT_IN_REGISTER
            THEN cg.reg[cg.reg_index[v]] ELSE cg.mem[v]

\* Every operand of an instruction was read where its value was.
OperandsCurrent == stale = {}

\* At a jump or a call every live variable is in its slot: the code on the
\* other side starts with an empty register file.
TransferInMemory ==
    phase \in {"branch", "transfer", "param_test", "param_join"} =>
      \A v \in Readable : v \in cg.mem[v]

\* The caller's %rbp is what the epilogue will pop.
FramePointerSaved == SAVED_RBP \in cg.mem[SAVED_RBP]

\* A call takes no more words off the stack than were pushed for it, on either
\* path of a Boolean argument and whatever gotos and calls came before: neither
\* locals nor a saved %rbp are ever popped.
OwnArgumentsOnly == param_count <= pushed

\* Until the first goto of the program it takes all of them off.
BalancedUntilGoto == ~jumped => param_count = pushed

\* A function starts with no register claimed.
CleanEntry == phase = "entry" => \A i \in Regs : cg.register_file[i] = NULL
=============================================================================
