---------------------------- MODULE RegisterFile ----------------------------
(***************************************************************************)
(* The register allocator of the code generator: register_file, victim and *)
(* the reg_index field of every symbol-table entry, with the helpers of    *)
(* cg.c that read and change them (getReg .. nukeRegisters).               *)
(*                                                                         *)
(* A helper of cg.c does two things at once: it changes the descriptors at *)
(* compile time and it emits instructions that move values at run time.    *)
(* The state record therefore carries both sides:                          *)
(*   register_file, reg_index, victim   the generator's own variables      *)
(*   reg, mem                           which variables' CURRENT values    *)
(*                                      each register and each stack slot  *)
(*                                      holds once the emitted code ran    *)
(* "Current" is the value the IR program gives the variable at this point, *)
(* so "v \in s.reg[i]" reads: register i holds what v should be.           *)
(***************************************************************************)
EXTENDS Integers, FiniteSets

CONSTANTS
    REGISTER_FILE_SIZE, \* 12 in cg.h
    Locals,             \* locals and parameters of the function being compiled
    Temps,              \* the parser's temporaries
    Consts,             \* entries of class CONSTANT
    NULL,               \* an empty register_file[i].variable
    SAVED_RBP           \* the caller's frame pointer, stored at 0(%rbp)

Vars    == Locals \union Temps
Entries == Vars \union Consts
Cells   == Vars \union {SAVED_RBP}

ASSUME SizeAssumption == REGISTER_FILE_SIZE \in Nat /\ REGISTER_FILE_SIZE >= 5
ASSUME EntriesAssumption ==
    /\ Locals \intersect Temps = {} /\ Vars \intersect Consts = {}
    /\ NULL \notin Entries /\ SAVED_RBP \notin Entries

RAX_INDEX       == 0
RDX_INDEX       == 3
FIRST_VICTIM    == 4
NOT_IN_REGISTER == -1

Regs        == 0 .. REGISTER_FILE_SIZE - 1
Allocatable == Regs \ {RAX_INDEX, RDX_INDEX}

Least(S)    == CHOOSE i \in S : \A j \in S : i <= j
Greatest(S) == CHOOSE i \in S : \A j \in S : j <= i

GeneratorState ==
    [register_file : [Regs -> Entries \union {NULL}],
     reg_index     : [Entries -> Regs \union {NOT_IN_REGISTER}],
     victim        : Allocatable,
     reg           : [Regs -> SUBSET Cells],
     mem           : [Cells -> SUBSET Cells]]

\* The slot an entry's offset names.  assign_offsets skips constants, whose
\* offset stays the 0 of insert_variable: that is where %rbp was pushed.
Cell(e) == IF e \in Consts THEN SAVED_RBP ELSE e

\* Function entry: every variable is in its own slot, no register is claimed.
initialize_register_file ==
    [register_file |-> [i \in Regs |-> NULL],
     reg_index     |-> [e \in Entries |-> NOT_IN_REGISTER],
     victim        |-> FIRST_VICTIM,
     reg           |-> [i \in Regs |-> {}],
     mem           |-> [c \in Cells |-> {c}]]

-----------------------------------------------------------------------------
(* What emitted instructions do to the contents.                           *)

\* x gets a new value: nothing holds it any more.
Forget(s, x) ==
    [s EXCEPT !.reg = [i \in Regs |-> s.reg[i] \ {x}],
              !.mem = [c \in Cells |-> s.mem[c] \ {x}]]

\* x gets a new value, computed into register r (or stored to its slot).
Compute(s, r, x)   == [Forget(s, x) EXCEPT !.reg[r] = {x}]
ComputeInSlot(s, x) == [Forget(s, x) EXCEPT !.mem[x] = {x}]

\* x := y without a move: whatever holds y now holds x too.
Alias(s, x, y) ==
    LET with(S) == IF y \in S THEN S \union {x} ELSE S \ {x}
    IN  [s EXCEPT !.reg = [i \in Regs |-> with(s.reg[i])],
                  !.mem = [c \in Cells |-> with(s.mem[c])]]

\* A call: the callee saves no register.
Clobber(s) == [s EXCEPT !.reg = [i \in Regs |-> {}]]

\* A register gets a value that is no variable's.
Garbage(s, r) == [s EXCEPT !.reg[r] = {}]

-----------------------------------------------------------------------------
(* The helpers of cg.c.                                                    *)

\* A mistake the invariants rule out: constants are stored like variables.
Spill_AnyClass(s, i, v) ==
    [s EXCEPT !.mem[Cell(v)] = s.reg[i], !.reg_index[v] = NOT_IN_REGISTER,
              !.register_file[i] = NULL]

\* Register i, claimed by v, is stored to the slot of v (a constant has none)
\* and neither knows the other any more.
Spill(s, i, v) ==
    [s EXCEPT !.mem = IF v \in Consts THEN s.mem ELSE [s.mem EXCEPT ![v] = s.reg[i]],
              !.reg_index = [s.reg_index EXCEPT ![v] = NOT_IN_REGISTER],
              !.register_file = [s.register_file EXCEPT ![i] = NULL]]

freeReg(s, i) ==
    IF s.register_file[i] = NULL THEN s ELSE Spill(s, i, s.register_file[i])

FreeSet(s) == {i \in Allocatable : s.register_file[i] = NULL}

Claim(s, i, v) == [s EXCEPT !.register_file[i] = v, !.reg_index[v] = i]

\* A mistake the invariants rule out: the round robin does not skip %rax and %rdx.
NextVictim_NoSkip(i) == (i + 1) % REGISTER_FILE_SIZE

NextVictim(i) ==
    LET j == (i + 1) % REGISTER_FILE_SIZE
    IN  IF j \in {RAX_INDEX, RDX_INDEX} THEN j + 1 ELSE j

\* The register returned is the reg_index of v in the resulting state.
getReg(s, v) ==
    IF s.reg_index[v] # NOT_IN_REGISTER THEN s
    ELSE IF FreeSet(s) # {} THEN Claim(s, Least(FreeSet(s)), v)
    ELSE [Claim(freeReg(s, s.victim), s.victim, v)
            EXCEPT !.victim = NextVictim(s.victim)]

\* A mistake the invariants rule out: the register is claimed and not filled.
loadReg_NoMove(s, v) == getReg(s, v)

loadReg(s, v) ==
    IF s.reg_index[v] # NOT_IN_REGISTER THEN s
    ELSE LET t == getReg(s, v)
         IN  [t EXCEPT !.reg[t.reg_index[v]] = t.mem[Cell(v)]]

\* A mistake the invariants rule out: nothing is stored.
saveRegVariable_NoStore(s, r, v) == s

\* Stores register r to the slot of v, the variable of the caller's copy of
\* the Register: register_file[r] may name another one by now.
saveRegVariable(s, r, v) == [s EXCEPT !.mem[Cell(v)] = s.reg[r]]

setRegisterVariable(s, r, v) ==
    IF v = NULL THEN [s EXCEPT !.register_file[r] = NULL] ELSE Claim(s, r, v)

\* A mistake the invariants rule out: the variable keeps its reg_index.
Detach_Forgotten(s, v) == s

\* var_entry.reg_index = NOT_IN_REGISTER, which leaves register_file alone.
Detach(s, v) == [s EXCEPT !.reg_index[v] = NOT_IN_REGISTER]

Claimants(s, v) == {i \in Regs : s.register_file[i] = v}

\* A mistake the invariants rule out: the registers are cleared, not stored.
freeAllRegs_NoStore(s) ==
    [s EXCEPT !.register_file = [i \in Regs |-> NULL],
              !.reg_index = [e \in Entries |-> NOT_IN_REGISTER],
              !.victim = FIRST_VICTIM]

\* freeReg(0), freeReg(1), ...: a slot keeps what the highest register that
\* claims its variable stores.
freeAllRegs(s) ==
    [s EXCEPT
       !.register_file = [i \in Regs |-> NULL],
       !.reg_index = [e \in Entries |->
                        IF Claimants(s, e) = {} THEN @[e] ELSE NOT_IN_REGISTER],
       !.victim = FIRST_VICTIM,
       !.mem = [c \in Cells |->
                  IF c \in Vars /\ Claimants(s, c) # {}
                  THEN s.reg[Greatest(Claimants(s, c))] ELSE @[c]]]

\* A mistake the invariants rule out: only the victim is reset.
nukeRegisters_VictimOnly(s) == [s EXCEPT !.victim = FIRST_VICTIM]

nukeRegisters(s) ==
    [s EXCEPT
       !.register_file = [i \in Regs |-> IF i = RAX_INDEX THEN @[i] ELSE NULL],
       !.reg_index = [e \in Entries |->
                        IF Claimants(s, e) \ {RAX_INDEX} = {} THEN @[e]
                        ELSE NOT_IN_REGISTER],
       !.victim = FIRST_VICTIM]
=============================================================================
