--------------------------- MODULE CodeGen_proofs ---------------------------
(***************************************************************************)
(* Proofs about CodeGen for every register file of at least 5 registers,   *)
(* every set of variables and every choice of Kinds and Disciplines.       *)
(***************************************************************************)
EXTENDS CodeGen, WellFoundedInduction, FiniteSetTheorems, TLAPS

-----------------------------------------------------------------------------
(* Least and greatest registers                                            *)

\* A nonempty set of registers has a least one: the initial segments 0 .. i
\* of the register file are well-founded under inclusion.
LEMMA HasLeast ==
    ASSUME NEW S \in SUBSET Regs, S # {}
    PROVE  \E n \in S : \A m \in S : n <= m
<1> DEFINE T == {0 .. i : i \in S}
           R == StrictSubsetOrdering(Regs)
<1>1. S \subseteq Nat /\ \A i \in S : 0 .. i \subseteq Regs
  BY SizeAssumption DEF Regs
<1>2. IsWellFoundedOn(R, SUBSET Regs)
  <2>1. IsFiniteSet(Regs)
    BY SizeAssumption, FS_Interval DEF Regs
  <2>2. FiniteSubsetsOf(Regs) = SUBSET Regs
    BY <2>1, FS_FiniteSubsetsOfFinite
  <2> QED
    BY <2>2, FS_StrictSubsetOrderingWellFounded
<1>3. T \subseteq SUBSET Regs /\ T # {}
  BY <1>1
<1>4. PICK x \in T : \A y \in T : <<y, x>> \notin R
  <2> HIDE DEF T, R
  <2> QED BY <1>2, <1>3, WFMin
<1>5. PICK n \in S : x = 0 .. n
  BY <1>4
<1>6. ASSUME NEW m \in S PROVE n <= m
  <2>1. <<0 .. m, 0 .. n>> \notin R
    BY <1>4, <1>5
  <2>2. 0 .. m \in SUBSET Regs /\ 0 .. n \in SUBSET Regs
    BY <1>1
  <2>3. ~ (0 .. m \subseteq 0 .. n /\ 0 .. m # 0 .. n)
    BY <2>1, <2>2 DEF StrictSubsetOrdering
  <2>4. m \in Nat /\ n \in Nat
    BY <1>1
  <2>5. ASSUME m < n PROVE FALSE
    <3>1. n \in 0 .. n /\ n \notin 0 .. m
      BY <2>4, <2>5
    <3> QED BY <2>3, <2>4, <2>5, <3>1
  <2> QED BY <2>4, <2>5
<1> QED
  BY <1>6

\* The scan of getReg for a free register finds one of them.
LEMMA LeastIn ==
    ASSUME NEW S \in SUBSET Regs, S # {}
    PROVE  Least(S) \in S
BY HasLeast DEF Least

\* The last register freeAllRegs stores to a slot is one that claims it.
LEMMA GreatestIn ==
    ASSUME NEW S \in SUBSET Regs, S # {}
    PROVE  Greatest(S) \in S
<1> DEFINE mirror(i) == REGISTER_FILE_SIZE - 1 - i
           M == {mirror(i) : i \in S}
<1>1. \A i \in S : i \in Nat /\ i <= REGISTER_FILE_SIZE - 1
  BY SizeAssumption DEF Regs
<1>2. \A i \in S : mirror(i) \in Regs
  BY <1>1, SizeAssumption DEF Regs
<1>3. M \in SUBSET Regs /\ M # {}
  BY <1>2
<1>4. \E n \in M : \A m \in M : n <= m
  <2> HIDE DEF M
  <2> QED BY <1>3, HasLeast
<1>5. PICK i \in S : \A j \in S : mirror(i) <= mirror(j)
  BY <1>4
<1>6. \A j \in S : j <= i
  BY <1>1, <1>5, SizeAssumption
<1> QED
  BY <1>6 DEF Greatest

-----------------------------------------------------------------------------
(* What the helpers of cg.c preserve                                       *)

\* The type of the generator's state and the two reserved registers.
Reserved(s) ==
    /\ s \in GeneratorState
    /\ s.register_file[RAX_INDEX] = NULL /\ s.register_file[RDX_INDEX] = NULL
    /\ \A e \in Entries : s.reg_index[e] \notin {RAX_INDEX, RDX_INDEX}

\* The descriptors agree, for any state of the generator.
Agree(s) ==
    \A e \in Entries : s.reg_index[e] # NOT_IN_REGISTER =>
                          s.register_file[s.reg_index[e]] = e

\* A function and a record with new values, as names the lemmas can share.
Update(f, k, v)         == [f EXCEPT ![k] = v]
WithContents(s, rg, m) == [s EXCEPT !.reg = rg, !.mem = m]

\* Where the named registers and the entries' slots lie.
LEMMA RegisterFacts ==
    /\ RAX_INDEX \in Regs /\ RDX_INDEX \in Regs /\ FIRST_VICTIM \in Allocatable
    /\ Allocatable \subseteq Regs /\ NOT_IN_REGISTER \notin Regs
    /\ \A e \in Entries : e # NULL /\ Cell(e) \in Cells
    /\ Vars \subseteq Cells /\ Vars \subseteq Entries /\ Consts \subseteq Entries
BY SizeAssumption, EntriesAssumption
   DEF RAX_INDEX, RDX_INDEX, FIRST_VICTIM, NOT_IN_REGISTER, Regs, Allocatable,
       Entries, Vars, Cells, Cell

\* The round-robin victim skips %rax and %rdx.
LEMMA NextVictimAllocatable ==
    ASSUME NEW i \in Allocatable
    PROVE  NextVictim(i) \in Allocatable
BY SizeAssumption DEF NextVictim, Allocatable, Regs, RAX_INDEX, RDX_INDEX

\* Ghost steps change contents only.
LEMMA ContentsOnly ==
    ASSUME NEW s, Reserved(s), NEW rg \in [Regs -> SUBSET Cells],
           NEW m \in [Cells -> SUBSET Cells]
    PROVE  /\ Reserved(WithContents(s, rg, m))
           /\ Agree(s) => Agree(WithContents(s, rg, m))
           /\ WithContents(s, rg, m).register_file = s.register_file
           /\ WithContents(s, rg, m).reg_index = s.reg_index
           /\ WithContents(s, rg, m).victim = s.victim
BY DEF Reserved, GeneratorState, Agree, WithContents

\* freeReg empties one register and keeps the descriptors in order.
LEMMA freeRegKeeps ==
    ASSUME NEW s, Reserved(s), NEW i \in Regs, NEW t, t = freeReg(s, i)
    PROVE  /\ Reserved(t) /\ (Agree(s) => Agree(t))
           /\ t.register_file = Update(s.register_file, i, NULL)
           /\ t.victim = s.victim
<1>0. s \in GeneratorState
  BY DEF Reserved
<1>1. CASE s.register_file[i] = NULL
  <2>1. t = s
    BY <1>1 DEF freeReg
  <2>2. s.register_file = Update(s.register_file, i, NULL)
    BY <1>0, <1>1 DEF GeneratorState, Update
  <2> QED
    BY <2>1, <2>2
<1>2. CASE s.register_file[i] # NULL
  <2> DEFINE v == s.register_file[i]
             f == Update(s.register_file, i, NULL)
             x == Update(s.reg_index, v, NOT_IN_REGISTER)
             m == IF v \in Consts THEN s.mem ELSE [s.mem EXCEPT ![v] = s.reg[i]]
  <2>1. v \in Entries /\ (v \notin Consts => v \in Cells)
    BY <1>0, <1>2 DEF GeneratorState, Entries, Cells
  <2>2. t = [s EXCEPT !.mem = m, !.reg_index = x, !.register_file = f]
    <3>1. t = Spill(s, i, v)
      BY <1>2 DEF freeReg
    <3> HIDE DEF v
    <3> QED BY <3>1 DEF Spill, Update
  <2>3. /\ f \in [Regs -> Entries \union {NULL}]
        /\ x \in [Entries -> Regs \union {NOT_IN_REGISTER}]
        /\ m \in [Cells -> SUBSET Cells]
    BY <1>0, <2>1 DEF GeneratorState, Update
  <2>4. f[RAX_INDEX] = NULL \/ f[RAX_INDEX] = s.register_file[RAX_INDEX]
    BY <1>0, RegisterFacts DEF GeneratorState, Update
  <2>5. f[RDX_INDEX] = NULL \/ f[RDX_INDEX] = s.register_file[RDX_INDEX]
    BY <1>0, RegisterFacts DEF GeneratorState, Update
  <2>6. \A e \in Entries : x[e] = NOT_IN_REGISTER \/ x[e] = s.reg_index[e]
    BY <1>0 DEF GeneratorState, Update
  <2>7. Agree(s) => \A e \in Entries : x[e] # NOT_IN_REGISTER => f[x[e]] = e
    BY <1>0, <2>1 DEF GeneratorState, Agree, Update
  <2> HIDE DEF f, x, m, v
  <2>8. /\ t \in GeneratorState /\ t.register_file = f /\ t.reg_index = x
        /\ t.victim = s.victim
    BY <1>0, <2>2, <2>3 DEF GeneratorState
  <2>9. Reserved(t)
    BY <2>4, <2>5, <2>6, <2>8
       DEF Reserved, NOT_IN_REGISTER, RAX_INDEX, RDX_INDEX
  <2>10. Agree(s) => Agree(t)
    BY <2>7, <2>8 DEF Agree
  <2> QED
    BY <2>8, <2>9, <2>10 DEF f
<1> QED
  BY <1>1, <1>2

\* A register that can be allocated is given to v; the entry that was found
\* in it, if any, is not in a register afterwards.
LEMMA ClaimKeeps ==
    ASSUME NEW s, Reserved(s), NEW i \in Allocatable, NEW v \in Entries
    PROVE  /\ Reserved(Claim(s, i, v))
           /\ Claim(s, i, v).reg_index = Update(s.reg_index, v, i)
           /\ Claim(s, i, v).register_file = Update(s.register_file, i, v)
           /\ Claim(s, i, v).victim = s.victim
           /\ Agree(s) /\ s.register_file[i] = NULL => Agree(Claim(s, i, v))
BY RegisterFacts
   DEF Reserved, GeneratorState, Agree, Claim, Allocatable, NOT_IN_REGISTER, Update

\* An entry may always forget which register it is in.
LEMMA DetachKeeps ==
    ASSUME NEW s, Reserved(s), NEW v \in Entries
    PROVE  /\ Reserved(Detach(s, v))
           /\ Detach(s, v).register_file = s.register_file
           /\ Detach(s, v).reg_index = Update(s.reg_index, v, NOT_IN_REGISTER)
           /\ Agree(s) => Agree(Detach(s, v))
BY RegisterFacts
   DEF Reserved, GeneratorState, Agree, Detach, NOT_IN_REGISTER, RAX_INDEX, RDX_INDEX, Update

\* getReg gives v a register that may be allocated, evicting in order.
LEMMA getRegKeeps ==
    ASSUME NEW s, Reserved(s), NEW v \in Entries
    PROVE  /\ Reserved(getReg(s, v))
           /\ getReg(s, v).reg_index[v] \in Allocatable
           /\ Agree(s) => Agree(getReg(s, v))
<1>1. CASE s.reg_index[v] # NOT_IN_REGISTER
  BY <1>1 DEF getReg, Reserved, GeneratorState, Allocatable
<1>2. CASE s.reg_index[v] = NOT_IN_REGISTER /\ FreeSet(s) # {}
  <2> DEFINE i == Least(FreeSet(s))
  <2>1. FreeSet(s) \in SUBSET Regs
    BY RegisterFacts DEF FreeSet
  <2>2. i \in FreeSet(s)
    BY <1>2, <2>1, LeastIn
  <2>3. i \in Allocatable /\ s.register_file[i] = NULL
    BY <2>2 DEF FreeSet
  <2>4. getReg(s, v) = Claim(s, i, v)
    BY <1>2 DEF getReg
  <2>5. s.reg_index \in [Entries -> Regs \union {NOT_IN_REGISTER}]
    BY DEF Reserved, GeneratorState
  <2> HIDE DEF i
  <2>6. /\ Reserved(Claim(s, i, v)) /\ (Agree(s) => Agree(Claim(s, i, v)))
        /\ Claim(s, i, v).reg_index = Update(s.reg_index, v, i)
    BY <2>3, ClaimKeeps
  <2>7. Claim(s, i, v).reg_index[v] = i
    BY <2>5, <2>6 DEF Update
  <2> QED
    BY <2>3, <2>4, <2>6, <2>7
<1>3. CASE s.reg_index[v] = NOT_IN_REGISTER /\ FreeSet(s) = {}
  <2> DEFINE i == s.victim
             t == freeReg(s, i)
             w == Claim(t, i, v)
  <2>1. i \in Allocatable /\ i \in Regs
    BY RegisterFacts DEF Reserved, GeneratorState
  <2>2. /\ Reserved(t) /\ (Agree(s) => Agree(t))
        /\ t.register_file = Update(s.register_file, i, NULL)
    BY <2>1, freeRegKeeps
  <2>3. t.register_file[i] = NULL
    BY <2>1, <2>2 DEF Reserved, GeneratorState, Update
  <2>4. /\ Reserved(w) /\ (Agree(t) => Agree(w))
        /\ w.reg_index = Update(t.reg_index, v, i)
    <3> HIDE DEF t
    <3> QED BY <2>1, <2>2, <2>3, ClaimKeeps
  <2>5. getReg(s, v) = [w EXCEPT !.victim = NextVictim(i)]
    BY <1>3 DEF getReg
  <2>6. NextVictim(i) \in Allocatable
    BY <2>1, NextVictimAllocatable
  <2>7. t.reg_index \in [Entries -> Regs \union {NOT_IN_REGISTER}]
    BY <2>2 DEF Reserved, GeneratorState
  <2> HIDE DEF w, t, i
  <2>8. /\ Reserved(getReg(s, v)) /\ (Agree(w) => Agree(getReg(s, v)))
        /\ getReg(s, v).reg_index = w.reg_index
    BY <2>4, <2>5, <2>6 DEF Reserved, GeneratorState, Agree
  <2> QED
    BY <2>1, <2>2, <2>4, <2>7, <2>8 DEF Update
<1> QED
  BY <1>1, <1>2, <1>3

\* loadReg gives v a register as getReg does; the move touches contents only.
LEMMA loadRegKeeps ==
    ASSUME NEW s, Reserved(s), NEW v \in Entries
    PROVE  /\ Reserved(loadReg(s, v))
           /\ loadReg(s, v).reg_index[v] \in Allocatable
           /\ Agree(s) => Agree(loadReg(s, v))
<1>1. CASE s.reg_index[v] # NOT_IN_REGISTER
  BY <1>1 DEF loadReg, Reserved, GeneratorState, Allocatable
<1>2. CASE s.reg_index[v] = NOT_IN_REGISTER
  <2> DEFINE t == getReg(s, v)
             r == t.reg_index[v]
  <2>1. Reserved(t) /\ r \in Allocatable /\ (Agree(s) => Agree(t))
    BY getRegKeeps
  <2>2. loadReg(s, v) = [t EXCEPT !.reg[r] = t.mem[Cell(v)]]
    BY <1>2 DEF loadReg
  <2> HIDE DEF t
  <2>3. t.mem[Cell(v)] \in SUBSET Cells
    BY <2>1, RegisterFacts DEF Reserved, GeneratorState
  <2> DEFINE regs == [t.reg EXCEPT ![r] = t.mem[Cell(v)]]
             u == [t EXCEPT !.reg = regs]
  <2>4. loadReg(s, v) = u /\ t \in GeneratorState
    BY <2>1, <2>2 DEF Reserved, GeneratorState
  <2>5. regs \in [Regs -> SUBSET Cells]
    BY <2>1, <2>3, <2>4 DEF GeneratorState
  <2> HIDE DEF regs
  <2>6. u \in GeneratorState
    BY <2>4, <2>5 DEF GeneratorState
  <2>7. u.register_file = t.register_file /\ u.reg_index = t.reg_index
    BY <2>4 DEF GeneratorState
  <2> HIDE DEF u
  <2>8. Reserved(u)
    BY <2>1, <2>6, <2>7 DEF Reserved
  <2>9. Agree(t) => Agree(u)
    BY <2>7 DEF Agree
  <2> QED
    BY <2>1, <2>4, <2>7, <2>8, <2>9
<1> QED
  BY <1>1, <1>2

-----------------------------------------------------------------------------
(* The same facts as one predicate: the reserved registers always, and the *)
(* agreement of the descriptors for IR whose operands evict no other.      *)

Good(s) == Reserved(s) /\ (Keeps("no_eviction_clash") => Agree(s))

\* getReg and loadReg, from one good state to another.
LEMMA GoodLoad ==
    ASSUME NEW s, Good(s), NEW v \in Entries
    PROVE  /\ Good(loadReg(s, v)) /\ loadReg(s, v).reg_index[v] \in Allocatable
           /\ Good(getReg(s, v)) /\ getReg(s, v).reg_index[v] \in Allocatable
BY loadRegKeeps, getRegKeeps DEF Good

\* freeReg, likewise.
LEMMA GoodFree ==
    ASSUME NEW s, Good(s), NEW i \in Regs
    PROVE  Good(freeReg(s, i))
BY freeRegKeeps DEF Good

\* No descriptor depends on what the registers and the slots contain.
LEMMA GoodContents ==
    ASSUME NEW s, Good(s), NEW rg \in [Regs -> SUBSET Cells],
           NEW m \in [Cells -> SUBSET Cells]
    PROVE  /\ Good(WithContents(s, rg, m))
           /\ WithContents(s, rg, m).register_file = s.register_file
           /\ WithContents(s, rg, m).reg_index = s.reg_index
           /\ WithContents(s, rg, m).victim = s.victim
BY ContentsOnly DEF Good

\* The emitted instructions, which no descriptor depends on.
LEMMA GoodEmitted ==
    ASSUME NEW s, Good(s), NEW r \in Regs, NEW x \in Vars
    PROVE  /\ Good(Compute(s, r, x)) /\ Compute(s, r, x).reg_index = s.reg_index
           /\ Compute(s, r, x).register_file = s.register_file
           /\ Good(ComputeInSlot(s, x))
           /\ \A y \in Vars : /\ Good(Alias(s, x, y))
                              /\ Alias(s, x, y).reg_index = s.reg_index
<1>1. /\ s \in GeneratorState /\ x \in Cells
  BY RegisterFacts DEF Good, Reserved
<1>2. Good(Compute(s, r, x)) /\ Compute(s, r, x).reg_index = s.reg_index
      /\ Compute(s, r, x).register_file = s.register_file
  <2> DEFINE rg == [[i \in Regs |-> s.reg[i] \ {x}] EXCEPT ![r] = {x}]
             m  == [c \in Cells |-> s.mem[c] \ {x}]
  <2>1. rg \in [Regs -> SUBSET Cells] /\ m \in [Cells -> SUBSET Cells]
    BY <1>1 DEF GeneratorState
  <2>2. Compute(s, r, x) = WithContents(s, rg, m)
    BY <1>1 DEF WithContents, Compute, Forget, GeneratorState
  <2> HIDE DEF rg, m
  <2> QED BY <2>1, <2>2, GoodContents
<1>3. Good(ComputeInSlot(s, x))
  <2> DEFINE rg == [i \in Regs |-> s.reg[i] \ {x}]
             m  == [[c \in Cells |-> s.mem[c] \ {x}] EXCEPT ![x] = {x}]
  <2>1. rg \in [Regs -> SUBSET Cells] /\ m \in [Cells -> SUBSET Cells]
    BY <1>1 DEF GeneratorState
  <2>2. ComputeInSlot(s, x) = WithContents(s, rg, m)
    BY <1>1 DEF WithContents, ComputeInSlot, Forget, GeneratorState
  <2> HIDE DEF rg, m
  <2> QED BY <2>1, <2>2, GoodContents
<1>4. ASSUME NEW y \in Vars
      PROVE  Good(Alias(s, x, y)) /\ Alias(s, x, y).reg_index = s.reg_index
  <2> DEFINE with(S) == IF y \in S THEN S \union {x} ELSE S \ {x}
             rg == [i \in Regs |-> with(s.reg[i])]
             m  == [c \in Cells |-> with(s.mem[c])]
  <2>1. rg \in [Regs -> SUBSET Cells] /\ m \in [Cells -> SUBSET Cells]
    BY <1>1 DEF GeneratorState
  <2>2. Alias(s, x, y) = WithContents(s, rg, m)
    BY DEF WithContents, Alias
  <2> HIDE DEF rg, m
  <2> QED BY <2>1, <2>2, GoodContents
<1> QED
  BY <1>2, <1>3, <1>4

\* A call clobbers every register and no descriptor.
LEMMA GoodClobber ==
    ASSUME NEW s, Good(s)
    PROVE  /\ Good(Clobber(s)) /\ Clobber(s).register_file = s.register_file
           /\ Clobber(s).reg_index = s.reg_index
<1> DEFINE rg == [i \in Regs |-> {}]
<1>1. rg \in [Regs -> SUBSET Cells] /\ s.mem \in [Cells -> SUBSET Cells]
  BY DEF Good, Reserved, GeneratorState
<1>2. Clobber(s) = WithContents(s, rg, s.mem)
  BY DEF Good, Reserved, GeneratorState, Clobber, WithContents
<1> HIDE DEF rg
<1> QED
  BY <1>1, <1>2, GoodContents

\* Overwriting a register, or storing one, leaves the descriptors alone.
LEMMA GoodOverwritten ==
    ASSUME NEW s, Good(s), NEW r \in Regs, NEW v \in Entries
    PROVE  /\ Good(Garbage(s, r)) /\ Garbage(s, r).reg_index = s.reg_index
           /\ Garbage(s, r).register_file = s.register_file
           /\ Good(saveRegVariable(s, r, v))
           /\ saveRegVariable(s, r, v).reg_index = s.reg_index
<1>1. s \in GeneratorState /\ Cell(v) \in Cells
  BY RegisterFacts DEF Good, Reserved
<1>2. /\ s.reg \in [Regs -> SUBSET Cells] /\ s.mem \in [Cells -> SUBSET Cells]
      /\ Update(s.reg, r, {}) \in [Regs -> SUBSET Cells]
      /\ Update(s.mem, Cell(v), s.reg[r]) \in [Cells -> SUBSET Cells]
  BY <1>1 DEF GeneratorState, Update
<1>3. /\ Garbage(s, r) = WithContents(s, Update(s.reg, r, {}), s.mem)
      /\ saveRegVariable(s, r, v) =
           WithContents(s, s.reg, Update(s.mem, Cell(v), s.reg[r]))
  BY <1>1 DEF Garbage, saveRegVariable, GeneratorState, WithContents, Update
<1>4. Good(Garbage(s, r)) /\ Garbage(s, r).reg_index = s.reg_index
      /\ Garbage(s, r).register_file = s.register_file
  BY <1>2, <1>3, GoodContents
<1>5. Good(saveRegVariable(s, r, v)) /\ saveRegVariable(s, r, v).reg_index = s.reg_index
  BY <1>2, <1>3, GoodContents
<1> QED
  BY <1>4, <1>5

-----------------------------------------------------------------------------
(* Registers changing hands                                                *)

\* Register r, which y is in, is given to x and y is in none: the shape of
\* every handler that reuses the register of an operand.
LEMMA GoodHandOver ==
    ASSUME NEW s, Good(s), NEW r \in Allocatable, NEW x \in Entries, NEW y \in Entries,
           Keeps("no_eviction_clash") => s.reg_index[y] = r
    PROVE  /\ Good(Detach(setRegisterVariable(s, r, x), y))
           /\ Detach(setRegisterVariable(s, r, x), y).victim = s.victim
<1> DEFINE t == Claim(s, r, x)
<1>1. Reserved(s) /\ r \in Regs /\ x # NULL
  BY RegisterFacts DEF Good
<1>2. setRegisterVariable(s, r, x) = t
  BY <1>1 DEF setRegisterVariable
<1>3. /\ Reserved(t) /\ t.victim = s.victim
      /\ t.reg_index = Update(s.reg_index, x, r)
      /\ t.register_file = Update(s.register_file, r, x)
  BY <1>1, ClaimKeeps
<1> HIDE DEF t
<1>4. /\ Reserved(Detach(t, y)) /\ Detach(t, y).register_file = t.register_file
      /\ Detach(t, y).reg_index = Update(t.reg_index, y, NOT_IN_REGISTER)
      /\ Detach(t, y).victim = t.victim
  BY <1>3, DetachKeeps DEF Detach, Reserved, GeneratorState
<1>5. ASSUME Agree(s), s.reg_index[y] = r
      PROVE  Agree(Detach(t, y))
  <2> SUFFICES ASSUME NEW e \in Entries,
                      Detach(t, y).reg_index[e] # NOT_IN_REGISTER
               PROVE  Detach(t, y).register_file[Detach(t, y).reg_index[e]] = e
    BY DEF Agree
  <2>1. /\ s.reg_index \in [Entries -> Regs \union {NOT_IN_REGISTER}]
        /\ s.register_file \in [Regs -> Entries \union {NULL}]
    BY <1>1 DEF Reserved, GeneratorState
  <2>2. e # y
    BY <1>3, <1>4, <2>1 DEF Update
  <2>3. CASE e = x
    BY <1>1, <1>3, <1>4, <2>1, <2>2, <2>3 DEF Update
  <2>4. CASE e # x
    <3>1. Detach(t, y).reg_index[e] = s.reg_index[e] /\ s.reg_index[e] \in Regs
      BY <1>3, <1>4, <2>1, <2>2, <2>4 DEF Update
    <3>2. s.register_file[s.reg_index[e]] = e /\ s.register_file[r] = y
      BY <1>5, <3>1 DEF Agree, Allocatable, Regs, NOT_IN_REGISTER
    <3> QED
      BY <1>3, <1>4, <2>1, <2>2, <3>1, <3>2 DEF Update
  <2> QED
    BY <2>3, <2>4
<1> QED
  BY <1>2, <1>3, <1>4, <1>5 DEF Good

\* setRegisterVariable(s, r, v) for the register v is in already.
LEMMA GoodReclaim ==
    ASSUME NEW s, Good(s), NEW v \in Entries, s.reg_index[v] \in Allocatable
    PROVE  /\ Good(setRegisterVariable(s, s.reg_index[v], v))
           /\ setRegisterVariable(s, s.reg_index[v], v).reg_index = s.reg_index
<1> DEFINE r == s.reg_index[v]
           t == Claim(s, r, v)
<1>1. Reserved(s) /\ r \in Regs /\ v # NULL /\ r # NOT_IN_REGISTER
  BY RegisterFacts DEF Good
<1>2. setRegisterVariable(s, r, v) = t
  BY <1>1 DEF setRegisterVariable
<1>3. /\ s.reg_index \in [Entries -> Regs \union {NOT_IN_REGISTER}]
      /\ s.register_file \in [Regs -> Entries \union {NULL}]
  BY <1>1 DEF Reserved, GeneratorState
<1>4. /\ Reserved(t) /\ t.reg_index = s.reg_index
      /\ t.register_file = Update(s.register_file, r, v)
  BY <1>1, <1>3, ClaimKeeps DEF Update
<1>5. ASSUME Agree(s) PROVE Agree(t)
  <2>1. s.register_file[r] = v
    BY <1>1, <1>5 DEF Agree
  <2>2. t.register_file = s.register_file
    BY <1>3, <1>4, <2>1 DEF Update
  <2> HIDE DEF t
  <2> QED
    BY <1>4, <1>5, <2>2 DEF Agree
<1> QED
  BY <1>2, <1>4, <1>5 DEF Good

\* A register no entry is in is emptied.
LEMMA GoodEmptied ==
    ASSUME NEW s, Good(s), NEW r \in Regs,
           Keeps("no_eviction_clash") => \A e \in Entries : s.reg_index[e] # r
    PROVE  Good(setRegisterVariable(s, r, NULL))
<1> DEFINE t == [s EXCEPT !.register_file[r] = NULL]
<1>1. Reserved(s) /\ setRegisterVariable(s, r, NULL) = t
  BY DEF Good, setRegisterVariable
<1>2. Reserved(t)
  BY <1>1, RegisterFacts DEF Reserved, GeneratorState
<1>3. ASSUME Agree(s), \A e \in Entries : s.reg_index[e] # r
      PROVE  Agree(t)
  <2>1. /\ t.reg_index = s.reg_index
        /\ t.register_file = Update(s.register_file, r, NULL)
        /\ s.reg_index \in [Entries -> Regs \union {NOT_IN_REGISTER}]
        /\ s.register_file \in [Regs -> Entries \union {NULL}]
    BY <1>1 DEF Reserved, GeneratorState, Update
  <2> HIDE DEF t
  <2> QED
    BY <1>3, <2>1 DEF Agree, Update
<1> QED
  BY <1>1, <1>2, <1>3 DEF Good

\* Operand z, in register r, is taken out of it and r is emptied.
LEMMA GoodDropped ==
    ASSUME NEW s, Good(s), NEW z \in Entries, s.reg_index[z] \in Allocatable
    PROVE  Good(setRegisterVariable(Detach(s, z), s.reg_index[z], NULL))
<1> DEFINE r == s.reg_index[z]
           t == Detach(s, z)
<1>1. Reserved(s) /\ r \in Regs /\ r # NOT_IN_REGISTER
  BY RegisterFacts DEF Good
<1>2. /\ Reserved(t) /\ t.register_file = s.register_file
      /\ t.reg_index = Update(s.reg_index, z, NOT_IN_REGISTER)
      /\ Agree(s) => Agree(t)
  BY <1>1, DetachKeeps
<1> HIDE DEF t
<1>3. ASSUME Agree(s), NEW e \in Entries PROVE t.reg_index[e] # r
  <2>1. s.reg_index \in [Entries -> Regs \union {NOT_IN_REGISTER}]
    BY <1>1 DEF Reserved, GeneratorState
  <2>2. s.reg_index[e] = r => e = z
    BY <1>1, <1>3 DEF Agree
  <2> QED
    BY <1>1, <1>2, <2>1, <2>2 DEF Update
<1>4. Good(t) /\ (Keeps("no_eviction_clash") => \A e \in Entries : t.reg_index[e] # r)
  BY <1>2, <1>3 DEF Good
<1> HIDE DEF r
<1>5. Good(setRegisterVariable(t, r, NULL))
  BY <1>1, <1>4, GoodEmptied
<1> QED
  BY <1>5 DEF t, r

\* freeReg touches no other register and at most the entry it stores.
LEMMA freeRegElsewhere ==
    ASSUME NEW s, Reserved(s), NEW i \in Regs
    PROVE  \A e \in Entries : \/ freeReg(s, i).reg_index[e] = s.reg_index[e]
                              \/ freeReg(s, i).reg_index[e] = NOT_IN_REGISTER
<1> DEFINE v == s.register_file[i]
<1>1. s.reg_index \in [Entries -> Regs \union {NOT_IN_REGISTER}] /\ s \in GeneratorState
  BY DEF Reserved, GeneratorState
<1>2. CASE v = NULL
  BY <1>2 DEF freeReg
<1>3. CASE v # NULL
  <2>1. freeReg(s, i) = Spill(s, i, v)
    BY <1>3 DEF freeReg
  <2> HIDE DEF v
  <2>2. Spill(s, i, v).reg_index = Update(s.reg_index, v, NOT_IN_REGISTER)
    BY <1>1 DEF Spill, GeneratorState, Update
  <2> QED
    BY <1>1, <2>1, <2>2 DEF Update
<1> QED
  BY <1>2, <1>3

\* getReg(s, v) changes one register, the one v is in afterwards, and takes
\* at most one other entry out of its register.
LEMMA getRegElsewhere ==
    ASSUME NEW s, Reserved(s), NEW v \in Entries
    PROVE  /\ \A i \in Regs : i # getReg(s, v).reg_index[v] =>
                getReg(s, v).register_file[i] = s.register_file[i]
           /\ \A e \in Entries \ {v} :
                \/ getReg(s, v).reg_index[e] = s.reg_index[e]
                \/ getReg(s, v).reg_index[e] = NOT_IN_REGISTER
<1>1. /\ s.reg_index \in [Entries -> Regs \union {NOT_IN_REGISTER}]
      /\ s.register_file \in [Regs -> Entries \union {NULL}]
  BY DEF Reserved, GeneratorState
<1>2. CASE s.reg_index[v] # NOT_IN_REGISTER
  BY <1>2 DEF getReg
<1>3. CASE s.reg_index[v] = NOT_IN_REGISTER /\ FreeSet(s) # {}
  <2> DEFINE i == Least(FreeSet(s))
  <2>1. FreeSet(s) \in SUBSET Regs
    BY RegisterFacts DEF FreeSet
  <2>2. i \in Allocatable
    BY <1>3, <2>1, LeastIn DEF FreeSet
  <2>3. getReg(s, v) = Claim(s, i, v)
    BY <1>3 DEF getReg
  <2> HIDE DEF i
  <2>4. /\ getReg(s, v).reg_index = Update(s.reg_index, v, i)
        /\ getReg(s, v).register_file = Update(s.register_file, i, v)
    BY <2>2, <2>3, ClaimKeeps
  <2> QED
    BY <1>1, <2>2, <2>4, RegisterFacts DEF Update
<1>4. CASE s.reg_index[v] = NOT_IN_REGISTER /\ FreeSet(s) = {}
  <2> DEFINE i == s.victim
             t == freeReg(s, i)
             w == Claim(t, i, v)
  <2>1. i \in Allocatable /\ i \in Regs
    BY RegisterFacts DEF Reserved, GeneratorState
  <2>2. Reserved(t) /\ t.register_file = Update(s.register_file, i, NULL)
    BY <2>1, freeRegKeeps
  <2>3. \A e \in Entries : t.reg_index[e] \in {s.reg_index[e], NOT_IN_REGISTER}
    BY <2>1, freeRegElsewhere
  <2> HIDE DEF t
  <2>4. /\ Reserved(w)
        /\ w.reg_index = Update(t.reg_index, v, i)
        /\ w.register_file = Update(t.register_file, i, v)
    BY <2>1, <2>2, ClaimKeeps
  <2>5. getReg(s, v) = [w EXCEPT !.victim = NextVictim(i)]
    BY <1>4 DEF getReg, t
  <2> HIDE DEF w, i
  <2>6. /\ getReg(s, v).reg_index = w.reg_index
        /\ getReg(s, v).register_file = w.register_file
    BY <2>4, <2>5 DEF Reserved, GeneratorState
  <2>7. t.reg_index \in [Entries -> Regs \union {NOT_IN_REGISTER}]
    BY <2>2 DEF Reserved, GeneratorState
  <2> QED
    BY <1>1, <2>1, <2>2, <2>3, <2>4, <2>6, <2>7 DEF Update
<1> QED
  BY <1>2, <1>3, <1>4

-----------------------------------------------------------------------------
(* Flushes                                                                 *)

\* No entry is in a register after freeAllRegs, and no register is claimed.
LEMMA GoodFlush ==
    ASSUME NEW s, Good(s)
    PROVE  /\ Good(freeAllRegs(s))
           /\ \A i \in Regs : freeAllRegs(s).register_file[i] = NULL
<1> DEFINE t == freeAllRegs(s)
           f == [i \in Regs |-> NULL]
           x == [e \in Entries |-> IF Claimants(s, e) = {} THEN s.reg_index[e]
                                   ELSE NOT_IN_REGISTER]
           m == [c \in Cells |-> IF c \in Vars /\ Claimants(s, c) # {}
                                 THEN s.reg[Greatest(Claimants(s, c))] ELSE s.mem[c]]
<1>1. s \in GeneratorState /\ Reserved(s)
  BY DEF Good, Reserved
<1>2. /\ f \in [Regs -> Entries \union {NULL}]
      /\ x \in [Entries -> Regs \union {NOT_IN_REGISTER}]
  BY <1>1 DEF GeneratorState
<1>3. m \in [Cells -> SUBSET Cells]
  <2> SUFFICES ASSUME NEW c \in Cells, c \in Vars /\ Claimants(s, c) # {}
               PROVE  s.reg[Greatest(Claimants(s, c))] \in SUBSET Cells
    BY <1>1 DEF GeneratorState
  <2>1. Claimants(s, c) \in SUBSET Regs
    BY DEF Claimants
  <2>2. Greatest(Claimants(s, c)) \in Regs
    BY <2>1, GreatestIn
  <2> QED
    BY <1>1, <2>2 DEF GeneratorState
<1>4. t = [s EXCEPT !.register_file = f, !.reg_index = x, !.victim = FIRST_VICTIM, !.mem = m]
  BY <1>1 DEF freeAllRegs, GeneratorState
<1>5. ASSUME Agree(s), NEW e \in Entries PROVE x[e] = NOT_IN_REGISTER
  <2>1. s.reg_index[e] # NOT_IN_REGISTER => s.reg_index[e] \in Claimants(s, e)
    BY <1>1, <1>5 DEF Agree, Claimants, GeneratorState
  <2> QED
    BY <2>1
<1>6. \A e \in Entries : x[e] \in {NOT_IN_REGISTER, s.reg_index[e]}
  OBVIOUS
<1>7. \A i \in Regs : f[i] = NULL
  OBVIOUS
<1> HIDE DEF t, f, x, m
<1>8. /\ t \in GeneratorState /\ t.register_file = f /\ t.reg_index = x
  BY <1>1, <1>2, <1>3, <1>4, RegisterFacts DEF GeneratorState
<1>9. Reserved(t)
  BY <1>1, <1>6, <1>7, <1>8, RegisterFacts
     DEF Reserved, NOT_IN_REGISTER, RAX_INDEX, RDX_INDEX
<1>10. Agree(s) => Agree(t)
  BY <1>5, <1>8 DEF Agree
<1> QED
  BY <1>7, <1>8, <1>9, <1>10 DEF Good, t

\* nukeRegisters clears both sides of every claim but the one of %rax.
LEMMA GoodNuked ==
    ASSUME NEW s, Good(s)
    PROVE  Good(nukeRegisters(s))
<1> DEFINE t == nukeRegisters(s)
           f == [i \in Regs |-> IF i = RAX_INDEX THEN s.register_file[i] ELSE NULL]
           x == [e \in Entries |->
                   IF Claimants(s, e) \ {RAX_INDEX} = {} THEN s.reg_index[e]
                   ELSE NOT_IN_REGISTER]
<1>1. s \in GeneratorState /\ Reserved(s)
  BY DEF Good, Reserved
<1>2. /\ f \in [Regs -> Entries \union {NULL}]
      /\ x \in [Entries -> Regs \union {NOT_IN_REGISTER}]
      /\ f[RAX_INDEX] = NULL /\ f[RDX_INDEX] = NULL
  BY <1>1, RegisterFacts DEF GeneratorState, Reserved
<1>3. t = [s EXCEPT !.register_file = f, !.reg_index = x, !.victim = FIRST_VICTIM]
  BY <1>1 DEF nukeRegisters, GeneratorState
<1>4. ASSUME Agree(s), NEW e \in Entries PROVE x[e] = NOT_IN_REGISTER
  <2>1. s.reg_index[e] # NOT_IN_REGISTER =>
          s.reg_index[e] \in Claimants(s, e) \ {RAX_INDEX}
    BY <1>1, <1>4 DEF Agree, Claimants, GeneratorState, Reserved
  <2> QED
    BY <2>1
<1>5. \A e \in Entries : x[e] \in {NOT_IN_REGISTER, s.reg_index[e]}
  OBVIOUS
<1> HIDE DEF t, f, x
<1>6. /\ t \in GeneratorState /\ t.register_file = f /\ t.reg_index = x
  BY <1>1, <1>2, <1>3, RegisterFacts DEF GeneratorState
<1>7. Reserved(t)
  BY <1>1, <1>2, <1>5, <1>6 DEF Reserved, NOT_IN_REGISTER, RAX_INDEX, RDX_INDEX
<1>8. Agree(s) => Agree(t)
  BY <1>4, <1>6 DEF Agree
<1> QED
  BY <1>7, <1>8 DEF Good, t

\* Meeting the other predecessors of a leader changes contents only.
LEMMA GoodJoin ==
    ASSUME NEW s, Good(s)
    PROVE  Good(Join(s))
<1> DEFINE rg == [i \in Regs |-> {}]
           m  == [c \in Cells |-> s.mem[c] \intersect {c}]
<1>1. rg \in [Regs -> SUBSET Cells] /\ m \in [Cells -> SUBSET Cells]
  BY DEF Good, Reserved, GeneratorState
<1>2. Join(s) = WithContents(s, rg, m)
  BY DEF Join, WithContents
<1> HIDE DEF rg, m
<1> QED
  BY <1>1, <1>2, GoodContents

\* Every way an instruction may start from a good state is good.
LEMMA GoodStart ==
    ASSUME Good(cg)
    PROVE  \A s0 \in AtStart : Good(s0)
BY GoodFlush, GoodJoin DEF AtStart

\* The state an instruction leaves is good when its handler's is.
LEMMA GoodEmit ==
    ASSUME NEW s, Good(s), NEW wrong, NEW nowLive, Emit(s, wrong, nowLive)
    PROVE  Good(cg')
<1> DEFINE kept == Locals \union nowLive \union {SAVED_RBP}
           used(i) == s.register_file[i] # NULL \/ \E e \in Entries : s.reg_index[e] = i
           rg == [i \in Regs |-> IF used(i) THEN s.reg[i] \intersect kept ELSE {}]
           m == [d \in Cells |-> IF d \in kept THEN s.mem[d] \intersect kept ELSE {}]
<1>1. rg \in [Regs -> SUBSET Cells] /\ m \in [Cells -> SUBSET Cells]
  BY DEF Good, Reserved, GeneratorState
<1>2. cg' = WithContents(s, rg, m)
  BY DEF Emit, WithContents
<1> HIDE DEF rg, m
<1> QED
  BY <1>1, <1>2, GoodContents

-----------------------------------------------------------------------------
(* Each instruction keeps the register file in order                       *)

FileInOrder == Good(cg) /\ live \subseteq Temps

\* Every operand the environment may name is an entry.
LEMMA OperandFacts ==
    ASSUME FileInOrder
    PROVE  /\ Readable \subseteq Vars /\ Readable \subseteq Entries
           /\ Operands \subseteq Entries /\ Operands \subseteq Vars \union Consts
           /\ Locals \subseteq Vars /\ Temps \subseteq Vars /\ Vars \subseteq Entries
           /\ Consts \subseteq Entries
BY DEF FileInOrder, Readable, Operands, Vars, Entries

\* A handler ends in Emit.
LEMMA EmitKeeps ==
    ASSUME NEW s, Good(s), NEW wrong, NEW nowLive \in SUBSET Temps, Emit(s, wrong, nowLive)
    PROVE  FileInOrder'
<1>1. Good(cg')
  BY GoodEmit
<1>2. live' = nowLive
  BY DEF Emit
<1> QED
  BY <1>1, <1>2 DEF FileInOrder, Good, Reserved, Agree, Keeps

\* x := c keeps the register file in order.
LEMMA AssignConstKeeps ==
    ASSUME FileInOrder, NEW x \in Locals, AssignConst(x)
    PROVE  FileInOrder'
<1>1. PICK s0 \in AtStart :
        LET s1 == getReg(s0, x) IN Emit(Compute(s1, s1.reg_index[x], x), {}, live)
  BY DEF AssignConst
<1> DEFINE s1 == getReg(s0, x)
           r  == s1.reg_index[x]
<1>2. x \in Vars /\ x \in Entries /\ live \in SUBSET Temps
  BY OperandFacts DEF FileInOrder
<1>3. Good(s1) /\ r \in Regs
  BY <1>2, GoodStart, GoodLoad, RegisterFacts DEF FileInOrder
<1> HIDE DEF s1
<1>4. Good(Compute(s1, r, x))
  BY <1>2, <1>3, GoodEmitted
<1>5. Emit(Compute(s1, r, x), {}, live)
  BY <1>1 DEF s1
<1> QED
  BY <1>2, <1>4, <1>5, EmitKeeps

\* So does x := "...", whose register is claimed again after the flush.
LEMMA AssignStringKeeps ==
    ASSUME FileInOrder, NEW x \in Locals, AssignString(x)
    PROVE  FileInOrder'
<1>1. PICK s0 \in AtStart :
        LET s1 == getReg(s0, x)
            r  == s1.reg_index[x]
            s2 == Clobber(freeAllRegs(s1))
        IN  Emit(Compute(setRegisterVariable(s2, r, x), r, x), {}, live)
  BY DEF AssignString
<1> DEFINE s1 == getReg(s0, x)
           r  == s1.reg_index[x]
           s2 == Clobber(freeAllRegs(s1))
           s3 == setRegisterVariable(s2, r, x)
<1>2. /\ x \in Vars /\ x \in Entries /\ x # NULL /\ live \in SUBSET Temps
  BY OperandFacts, EntriesAssumption DEF FileInOrder
<1>3. Good(s1) /\ r \in Allocatable /\ r \in Regs
  BY <1>2, GoodStart, GoodLoad, RegisterFacts DEF FileInOrder
<1> HIDE DEF s1
<1>4. Good(freeAllRegs(s1)) /\ freeAllRegs(s1).register_file[r] = NULL
  BY <1>3, GoodFlush
<1>5. Good(s2) /\ s2.register_file[r] = NULL
  BY <1>4, GoodClobber
<1> HIDE DEF s2, r
<1>6. Good(s3)
  BY <1>2, <1>3, <1>5, ClaimKeeps DEF Good, setRegisterVariable
<1> HIDE DEF s3
<1>7. Good(Compute(s3, r, x))
  BY <1>2, <1>3, <1>6, GoodEmitted
<1>8. Emit(Compute(s3, r, x), {}, live)
  BY <1>1 DEF s1, s2, s3, r
<1> QED
  BY <1>2, <1>7, <1>8, EmitKeeps

\* So does x := y: y's register becomes x's.
LEMMA AssignCopyKeeps ==
    ASSUME FileInOrder, NEW x \in Locals, NEW y \in Readable, AssignCopy(x, y)
    PROVE  FileInOrder'
<1>1. PICK s0 \in AtStart :
        LET s1 == loadReg(s0, y)
            r  == s1.reg_index[y]
            s2 == Detach(setRegisterVariable(s1, r, x), y)
        IN  Emit(Alias(s2, x, y), Missing(s1, {y}), live \ {y})
  BY DEF AssignCopy
<1> DEFINE s1 == loadReg(s0, y)
           r  == s1.reg_index[y]
           s2 == Detach(setRegisterVariable(s1, r, x), y)
<1>2. /\ x \in Vars /\ x \in Entries /\ y \in Vars /\ y \in Entries
      /\ live \ {y} \in SUBSET Temps
  BY OperandFacts DEF FileInOrder
<1>3. Good(s1) /\ r \in Allocatable /\ r \in Regs
  BY <1>2, GoodStart, GoodLoad, RegisterFacts DEF FileInOrder
<1> HIDE DEF s1
<1>4. Good(s2)
  BY <1>2, <1>3, GoodHandOver
<1> HIDE DEF s2
<1>5. Good(Alias(s2, x, y))
  BY <1>2, <1>3, <1>4, GoodEmitted
<1>6. Emit(Alias(s2, x, y), Missing(s1, {y}), live \ {y})
  BY <1>1 DEF s1, s2
<1> QED
  BY <1>2, <1>5, <1>6, EmitKeeps

\* So does a folded operation.
LEMMA BinaryFoldKeeps ==
    ASSUME FileInOrder, NEW x \in Temps, BinaryFold(x)
    PROVE  FileInOrder'
<1>1. PICK s0 \in AtStart :
        LET s1 == getReg(s0, x) IN Emit(Compute(s1, s1.reg_index[x], x), {}, live \union {x})
  BY DEF BinaryFold
<1> DEFINE s1 == getReg(s0, x)
           r  == s1.reg_index[x]
<1>2. x \in Vars /\ x \in Entries /\ live \union {x} \in SUBSET Temps
  BY OperandFacts DEF FileInOrder
<1>3. Good(s1) /\ r \in Regs
  BY <1>2, GoodStart, GoodLoad, RegisterFacts DEF FileInOrder
<1> HIDE DEF s1
<1>4. Good(Compute(s1, r, x))
  BY <1>2, <1>3, GoodEmitted
<1>5. Emit(Compute(s1, r, x), {}, live \union {x})
  BY <1>1 DEF s1
<1> QED
  BY <1>2, <1>4, <1>5, EmitKeeps

\* Saving the register of y, overwriting it and handing it to x.
LEMMA GoodOverwriteOperand ==
    ASSUME NEW s, Good(s), NEW r \in Allocatable, NEW x \in Vars, NEW y \in Entries,
           Keeps("no_eviction_clash") => s.reg_index[y] = r
    PROVE  Good(OverwriteOperand(s, x, y, r))
<1> DEFINE t == saveRegVariable(s, r, y)
           w == Compute(t, r, x)
<1>1. r \in Regs /\ x \in Entries
  BY RegisterFacts DEF Entries
<1>2. Good(t) /\ t.reg_index = s.reg_index
  BY <1>1, GoodOverwritten
<1> HIDE DEF t
<1>3. Good(w) /\ w.reg_index = s.reg_index
  BY <1>1, <1>2, GoodEmitted
<1> HIDE DEF w
<1>4. Good(Detach(setRegisterVariable(w, r, x), y))
  BY <1>1, <1>3, GoodHandOver
<1> QED
  BY <1>4 DEF OverwriteOperand, t, w

\* Two variable operands: z may take y's register, which the discipline excludes.
LEMMA BinaryVarsKeeps ==
    ASSUME FileInOrder, NEW x \in Temps, NEW y \in Readable, NEW z \in Readable,
           NEW dead, BinaryVars(x, y, z, dead)
    PROVE  FileInOrder'
<1>1. PICK s0 \in AtStart :
         LET s1 == loadReg(s0, y)
             ry == s1.reg_index[y]
             s2 == loadReg(s1, z)
         IN  /\ Keeps("no_eviction_clash") => s2.reg_index[y] = ry
             /\ Emit(OverwriteOperand(s2, x, y, ry),
                     {v \in {y} : v \notin s2.reg[ry]} \union Missing(s2, {z}),
                     (live \ dead) \union {x})
  BY DEF BinaryVars
<1> DEFINE s1 == loadReg(s0, y)
           ry == s1.reg_index[y]
           s2 == loadReg(s1, z)
           wrong == {v \in {y} : v \notin s2.reg[ry]} \union Missing(s2, {z})
<1>2. /\ x \in Vars /\ y \in Entries /\ z \in Entries
      /\ (live \ dead) \union {x} \in SUBSET Temps
  BY OperandFacts DEF FileInOrder
<1>3. Good(s1) /\ ry \in Allocatable
  BY <1>2, GoodStart, GoodLoad DEF FileInOrder
<1>4. /\ Keeps("no_eviction_clash") => s2.reg_index[y] = ry
      /\ Emit(OverwriteOperand(s2, x, y, ry), wrong, (live \ dead) \union {x})
  BY <1>1
<1> HIDE DEF s1, wrong
<1>5. Good(s2)
  BY <1>2, <1>3, GoodLoad
<1> HIDE DEF s2, ry
<1>6. Good(OverwriteOperand(s2, x, y, ry))
  BY <1>2, <1>3, <1>4, <1>5, GoodOverwriteOperand
<1> QED
  BY <1>2, <1>4, <1>6, EmitKeeps

\* One variable operand: its register becomes the result's.
LEMMA OneOperandKeeps ==
    ASSUME FileInOrder, NEW x \in Temps, NEW y \in Readable, NEW dead, OneOperand(x, y, dead)
    PROVE  FileInOrder'
<1>1. PICK s0 \in AtStart :
         LET s1 == loadReg(s0, y)
         IN  Emit(OverwriteOperand(s1, x, y, s1.reg_index[y]),
                  Missing(s1, {y}), (live \ dead) \union {x})
  BY DEF OneOperand
<1> DEFINE s1 == loadReg(s0, y)
           ry == s1.reg_index[y]
<1>2. x \in Vars /\ y \in Entries /\ (live \ dead) \union {x} \in SUBSET Temps
  BY OperandFacts DEF FileInOrder
<1>3. Good(s1) /\ ry \in Allocatable
  BY <1>2, GoodStart, GoodLoad DEF FileInOrder
<1>4. Emit(OverwriteOperand(s1, x, y, ry), Missing(s1, {y}), (live \ dead) \union {x})
  BY <1>1
<1> HIDE DEF s1
<1>5. Good(OverwriteOperand(s1, x, y, ry))
  BY <1>2, <1>3, GoodOverwriteOperand
<1> QED
  BY <1>2, <1>4, <1>5, EmitKeeps

\* c - z: the constant's register becomes the result's.
LEMMA ConstMinusVarKeeps ==
    ASSUME FileInOrder, NEW x \in Temps, NEW c \in Consts, NEW z \in Readable,
           NEW dead, ConstMinusVar(x, c, z, dead)
    PROVE  FileInOrder'
<1>1. PICK s0 \in AtStart :
         LET s1 == loadReg(s0, z)
             rz == s1.reg_index[z]
             s2 == getReg(s1, c)
             rc == s2.reg_index[c]
         IN  Emit(OverwriteOperand(Garbage(s2, rc), x, c, rc),
                  {v \in {z} : v \notin Garbage(s2, rc).reg[rz]},
                  (live \ dead) \union {x})
  BY DEF ConstMinusVar
<1> DEFINE s1 == loadReg(s0, z)
           s2 == getReg(s1, c)
           rc == s2.reg_index[c]
           s3 == Garbage(s2, rc)
           wrong == {v \in {z} : v \notin s3.reg[s1.reg_index[z]]}
<1>2. /\ x \in Vars /\ z \in Entries /\ c \in Entries
      /\ (live \ dead) \union {x} \in SUBSET Temps
  BY OperandFacts DEF FileInOrder
<1>3. Good(s1)
  BY <1>2, GoodStart, GoodLoad DEF FileInOrder
<1>4. Emit(OverwriteOperand(s3, x, c, rc), wrong, (live \ dead) \union {x})
  BY <1>1
<1> HIDE DEF s1, wrong
<1>5. Good(s2) /\ rc \in Allocatable /\ rc \in Regs
  BY <1>2, <1>3, GoodLoad, RegisterFacts
<1> HIDE DEF s2
<1>6. Good(s3) /\ s3.reg_index = s2.reg_index
  BY <1>2, <1>5, GoodOverwritten
<1> HIDE DEF s3
<1>7. Good(OverwriteOperand(s3, x, c, rc))
  BY <1>2, <1>5, <1>6, GoodOverwriteOperand
<1> QED
  BY <1>2, <1>4, <1>7, EmitKeeps

\* A constant operand gets a register of its own and claims it twice.
LEMMA GoodConstant ==
    ASSUME NEW s, Good(s), NEW c \in Entries
    PROVE  LET t == getReg(s, c)
           IN  Good(setRegisterVariable(Garbage(t, t.reg_index[c]), t.reg_index[c], c))
<1> DEFINE t == getReg(s, c)
           r == t.reg_index[c]
           w == Garbage(t, r)
<1>1. Good(t) /\ r \in Allocatable /\ r \in Regs
  BY GoodLoad, RegisterFacts
<1> HIDE DEF t
<1>2. Good(w) /\ w.reg_index = t.reg_index
  BY <1>1, GoodOverwritten
<1> HIDE DEF w
<1>3. Good(setRegisterVariable(w, w.reg_index[c], c))
  BY <1>1, <1>2, GoodReclaim
<1>4. Good(setRegisterVariable(w, r, c))
  BY <1>2, <1>3
<1> QED
  BY <1>4 DEF t, w

\* Detaching an entry, from one good state to another.
LEMMA GoodDetach ==
    ASSUME NEW s, Good(s), NEW v \in Entries
    PROVE  Good(Detach(s, v))
BY DetachKeeps DEF Good

\* Division and remainder: %rax and %rdx are freed, never claimed.
LEMMA DivideKeeps ==
    ASSUME FileInOrder, NEW x \in Temps, NEW y \in Operands, NEW z \in Operands,
           NEW dead, Divide(x, y, z, dead)
    PROVE  FileInOrder'
<1> DEFINE load(s, v) == IF v \in Consts THEN s ELSE loadReg(s, v)
           inReg(s, v) == IF v \in Consts
                          THEN LET t == getReg(s, v)
                               IN  setRegisterVariable(Garbage(t, t.reg_index[v]), t.reg_index[v], v)
                          ELSE loadReg(s, v)
           both(s) == load(load(s, y), z)
           free2(s) == freeReg(freeReg(s, RAX_INDEX), RDX_INDEX)
           s4(s) == ComputeInSlot(Garbage(Garbage(s, RAX_INDEX), RDX_INDEX), x)
           last(s) == Detach(Detach(free2(s4(s)), y), x)
<1>1. PICK s0 \in AtStart : \E wrong :
        Emit(last(inReg(load(free2(both(s0)), y), z)), wrong, (live \ dead) \union {x})
  BY DEF Divide
<1>2. PICK wrong :
        Emit(last(inReg(load(free2(both(s0)), y), z)), wrong, (live \ dead) \union {x})
  BY <1>1
<1>3. /\ x \in Vars /\ x \in Entries /\ y \in Entries /\ z \in Entries
      /\ (live \ dead) \union {x} \in SUBSET Temps
  BY OperandFacts DEF FileInOrder
<1>4. RAX_INDEX \in Regs /\ RDX_INDEX \in Regs
  BY RegisterFacts
<1>5. \A s : \A v \in Entries : Good(s) => Good(load(s, v))
  BY GoodLoad
<1>6. \A s : \A v \in Entries : Good(s) => Good(inReg(s, v))
  BY GoodLoad, GoodConstant
<1>7. \A s : Good(s) => Good(free2(s))
  BY <1>4, GoodFree
<1>8. \A s : Good(s) => Good(s4(s))
  BY <1>3, <1>4, GoodOverwritten, GoodEmitted
<1> HIDE DEF s4, free2, inReg, load
<1>9. \A s : Good(s) => Good(last(s))
  BY <1>3, <1>7, <1>8, GoodDetach
<1> HIDE DEF last
<1>10. Good(s0)
  BY GoodStart DEF FileInOrder
<1>11. Good(last(inReg(load(free2(both(s0)), y), z)))
  BY <1>3, <1>5, <1>6, <1>7, <1>9, <1>10
<1> QED
  BY <1>2, <1>3, <1>11, EmitKeeps

\* A read at a constant offset.
LEMMA MemReadConstKeeps ==
    ASSUME FileInOrder, NEW x \in Temps, NEW y \in Readable, MemReadConst(x, y)
    PROVE  FileInOrder'
<1>1. PICK s0 \in AtStart :
         LET s1 == loadReg(s0, y)
             s2 == getReg(s1, x)
         IN  Emit(Compute(s2, s2.reg_index[x], x), Missing(s1, {y}), live \union {x})
  BY DEF MemReadConst
<1> DEFINE s1 == loadReg(s0, y)
           s2 == getReg(s1, x)
           r  == s2.reg_index[x]
           wrong == Missing(s1, {y})
<1>2. /\ x \in Vars /\ x \in Entries /\ y \in Entries
      /\ live \union {x} \in SUBSET Temps
  BY OperandFacts DEF FileInOrder
<1>3. Good(s1)
  BY <1>2, GoodStart, GoodLoad DEF FileInOrder
<1>4. Emit(Compute(s2, r, x), wrong, live \union {x})
  BY <1>1
<1> HIDE DEF s1, wrong
<1>5. Good(s2) /\ r \in Regs
  BY <1>2, <1>3, GoodLoad, RegisterFacts
<1> HIDE DEF s2
<1>6. Good(Compute(s2, r, x))
  BY <1>2, <1>5, GoodEmitted
<1> QED
  BY <1>2, <1>4, <1>6, EmitKeeps

\* z gives its register up before x gets one, and register_file names z there
\* until the end: nothing else may have moved in.
LEMMA MemReadVarKeeps ==
    ASSUME FileInOrder, NEW x \in Temps, NEW y \in Readable, NEW z \in live,
           MemReadVar(x, y, z)
    PROVE  FileInOrder'
<1>1. PICK s0 \in AtStart : \E wrong :
         LET s1 == loadReg(s0, y)
             s2 == loadReg(s1, z)
             rz == s2.reg_index[z]
             s3 == Detach(Garbage(s2, rz), z)
             s4 == getReg(s3, x)
         IN  /\ Keeps("no_eviction_clash") => s4.reg_index[x] # rz
             /\ Emit(setRegisterVariable(Compute(s4, s4.reg_index[x], x), rz, NULL),
                     wrong, (live \ {z}) \union {x})
  BY DEF MemReadVar
<1> DEFINE s1 == loadReg(s0, y)
           s2 == loadReg(s1, z)
           rz == s2.reg_index[z]
           g  == Garbage(s2, rz)
           s3 == Detach(g, z)
           s4 == getReg(s3, x)
           rx == s4.reg_index[x]
           s5 == Compute(s4, rx, x)
<1>2. PICK wrong :
        /\ Keeps("no_eviction_clash") => rx # rz
        /\ Emit(setRegisterVariable(s5, rz, NULL), wrong, (live \ {z}) \union {x})
  BY <1>1
<1>3. /\ x \in Vars /\ x \in Entries /\ y \in Entries /\ z \in Entries /\ x # z
      /\ (live \ {z}) \union {x} \in SUBSET Temps
  BY OperandFacts DEF FileInOrder, MemReadVar, FreshTemp, Readable
<1>4. Good(s1)
  BY <1>3, GoodStart, GoodLoad DEF FileInOrder
<1> HIDE DEF s1
<1>5. Good(s2) /\ rz \in Allocatable /\ rz \in Regs
  BY <1>3, <1>4, GoodLoad, RegisterFacts
<1> HIDE DEF s2
<1>6. Good(g) /\ g.reg_index = s2.reg_index /\ g.register_file = s2.register_file
  BY <1>3, <1>5, GoodOverwritten
<1> HIDE DEF g
<1>7. /\ Good(s3) /\ s3.register_file = g.register_file
      /\ s3.reg_index = Update(g.reg_index, z, NOT_IN_REGISTER)
  BY <1>3, <1>6, DetachKeeps DEF Good
<1> HIDE DEF s3
<1>8. Good(s4) /\ rx \in Allocatable /\ rx \in Regs
  BY <1>3, <1>7, GoodLoad, RegisterFacts
<1>9. /\ \A i \in Regs : i # rx => s4.register_file[i] = s3.register_file[i]
      /\ \A e \in Entries \ {x} : s4.reg_index[e] \in {s3.reg_index[e], NOT_IN_REGISTER}
  BY <1>3, <1>7, getRegElsewhere DEF Good
<1> HIDE DEF s4
<1>10. Good(s5) /\ s5.reg_index = s4.reg_index
  BY <1>3, <1>8, GoodEmitted
<1> HIDE DEF s5
<1>11. ASSUME Keeps("no_eviction_clash"), NEW e \in Entries, s5.reg_index[e] = rz
       PROVE  FALSE
  <2>1. e # x
    BY <1>2, <1>10, <1>11
  <2>2. rz # NOT_IN_REGISTER
    BY <1>5, RegisterFacts
  <2>3. s3.reg_index[e] = rz
    BY <1>9, <1>10, <1>11, <2>1, <2>2
  <2>4. s3.register_file[rz] = e /\ s2.register_file[rz] = z
    BY <1>3, <1>5, <1>7, <1>11, <2>2, <2>3 DEF Good, Agree
  <2>5. e = z
    BY <1>6, <1>7, <2>4
  <2>6. s3.reg_index[z] = NOT_IN_REGISTER
    BY <1>3, <1>6, <1>7 DEF Update, Good, Reserved, GeneratorState
  <2> QED
    BY <2>2, <2>3, <2>5, <2>6
<1>12. Good(setRegisterVariable(s5, rz, NULL))
  BY <1>5, <1>10, <1>11, GoodEmptied
<1> QED
  BY <1>2, <1>3, <1>12, EmitKeeps

\* A write: z's register is released last.
LEMMA MemWriteKeeps ==
    ASSUME FileInOrder, NEW x \in Operands, NEW y \in Readable,
           NEW z \in live \union Consts, NEW dead, MemWrite(x, y, z, dead)
    PROVE  FileInOrder'
<1> DEFINE load(s, v) == IF v \in Consts THEN s ELSE loadReg(s, v)
           drop(s) == setRegisterVariable(
                        Detach(Garbage(s, s.reg_index[z]), z), s.reg_index[z], NULL)
           last(s) == IF z \in Consts THEN s ELSE drop(s)
           s3(s) == load(loadReg(load(s, x), y), z)
<1>1. PICK s0 \in AtStart : \E wrong :
        Emit(last(s3(s0)), wrong, live \ (dead \union {z}))
  BY DEF MemWrite
<1>2. PICK wrong : Emit(last(s3(s0)), wrong, live \ (dead \union {z}))
  BY <1>1
<1>3. /\ x \in Entries /\ y \in Entries /\ z \in Entries
      /\ live \ (dead \union {z}) \in SUBSET Temps
  BY OperandFacts DEF FileInOrder, Readable
<1>4. Good(s0)
  BY GoodStart DEF FileInOrder
<1>5. Good(loadReg(load(s0, x), y))
  BY <1>3, <1>4, GoodLoad
<1>6. Good(s3(s0)) /\ (z \notin Consts => s3(s0).reg_index[z] \in Allocatable)
  BY <1>3, <1>5, GoodLoad
<1> DEFINE t == s3(s0)
           r == t.reg_index[z]
           g == Garbage(t, r)
<1> HIDE DEF t
<1>7. ASSUME z \notin Consts PROVE Good(drop(t))
  <2>1. Good(t) /\ r \in Allocatable /\ r \in Regs
    BY <1>6, <1>7, RegisterFacts DEF t
  <2>2. Good(g) /\ g.reg_index = t.reg_index
    BY <1>3, <2>1, GoodOverwritten
  <2> HIDE DEF g
  <2>3. Good(setRegisterVariable(Detach(g, z), g.reg_index[z], NULL))
    BY <1>3, <2>1, <2>2, GoodDropped
  <2>4. Good(setRegisterVariable(Detach(g, z), r, NULL))
    BY <2>2, <2>3
  <2> QED
    BY <2>4 DEF g
<1>8. Good(last(t))
  BY <1>6, <1>7 DEF t
<1>9. Emit(last(t), wrong, live \ (dead \union {z}))
  BY <1>2 DEF t
<1> HIDE DEF last
<1> QED
  BY <1>3, <1>8, <1>9, EmitKeeps

\* An operand of a comparison, loaded or moved into a register.
LEMMA GoodOperand ==
    ASSUME NEW s, Good(s), NEW v \in Entries
    PROVE  Good(loadOperand(s, v))
<1>1. CASE v \in Consts
  BY <1>1, GoodConstant DEF loadOperand
<1>2. CASE v \notin Consts
  BY <1>2, GoodLoad DEF loadOperand
<1> QED
  BY <1>1, <1>2

\* Conditional jumps and gotos flush first.
LEMMA JumpsKeep ==
    ASSUME FileInOrder
    PROVE  /\ \A x \in Operands : IfTrue(x) => FileInOrder'
           /\ \A x, y \in Operands : \A supported :
                IfRelop(x, y, supported) => FileInOrder'
           /\ Goto => FileInOrder'
<1>1. /\ Operands \subseteq Entries /\ live \in SUBSET Temps
      /\ \A s0 \in AtStart : Good(s0) /\ Good(freeAllRegs(s0))
  BY OperandFacts, GoodStart, GoodFlush DEF FileInOrder
<1>2. ASSUME NEW x \in Operands, IfTrue(x) PROVE FileInOrder'
  <2>1. PICK s0 \in AtStart : \E wrong :
          Emit(loadOperand(freeAllRegs(s0), x), wrong, live)
    BY <1>2 DEF IfTrue
  <2>2. Good(loadOperand(freeAllRegs(s0), x))
    BY <1>1, GoodOperand
  <2> QED
    BY <1>1, <2>1, <2>2, EmitKeeps
<1>3. ASSUME NEW x \in Operands, NEW y \in Operands, NEW supported,
             IfRelop(x, y, supported)
      PROVE  FileInOrder'
  <2>1. PICK s0 \in AtStart : \E wrong :
          \/ Emit(loadOperand(loadOperand(freeAllRegs(s0), x), y), wrong, live)
          \/ Emit(freeAllRegs(s0), wrong, live)
    BY <1>3 DEF IfRelop
  <2>2. Good(loadOperand(loadOperand(freeAllRegs(s0), x), y))
    BY <1>1, GoodOperand
  <2> QED
    BY <1>1, <2>1, <2>2, EmitKeeps
<1>4. ASSUME Goto PROVE FileInOrder'
  BY <1>1, <1>4, EmitKeeps DEF Goto
<1> QED
  BY <1>2, <1>3, <1>4

\* The steps of an argument list and the call itself.
LEMMA CallsKeep ==
    ASSUME FileInOrder
    PROVE  /\ \A x \in Operands : Param(x) => FileInOrder'
           /\ ParamString \/ ParamTrue \/ ParamGoto \/ ParamFalse => FileInOrder'
           /\ \A x \in Temps \union {NULL} : Call(x) => FileInOrder'
<1>1. /\ Operands \subseteq Entries /\ live \in SUBSET Temps
      /\ \A s0 \in AtStart : Good(s0) /\ Good(freeAllRegs(s0))
      /\ Good(Join(freeAllRegs(cg)))
  BY OperandFacts, GoodStart, GoodFlush, GoodJoin DEF FileInOrder
<1>3. ASSUME NEW x \in Operands, Param(x) PROVE FileInOrder'
  <2>1. PICK s0 \in AtStart : \E wrong :
          Emit(IF x \in Consts THEN s0 ELSE loadReg(s0, x), wrong, live \ {x})
    BY <1>3 DEF Param
  <2>2. Good(IF x \in Consts THEN s0 ELSE loadReg(s0, x))
    BY <1>1, GoodLoad
  <2>3. live \ {x} \in SUBSET Temps
    BY <1>1
  <2> QED
    BY <2>1, <2>2, <2>3, EmitKeeps
<1>4. ASSUME ParamString PROVE FileInOrder'
  BY <1>1, <1>4, GoodClobber, EmitKeeps DEF ParamString
<1>5. ASSUME ParamTrue \/ ParamGoto \/ ParamFalse PROVE FileInOrder'
  BY <1>1, <1>5, EmitKeeps DEF ParamTrue, ParamGoto, ParamFalse
<1>6. ASSUME NEW x \in Temps \union {NULL}, Call(x) PROVE FileInOrder'
  <2>1. PICK s0 \in AtStart :
          Emit(IF x = NULL THEN Clobber(freeAllRegs(s0))
               ELSE ComputeInSlot(Clobber(freeAllRegs(s0)), x), {},
               live \union ({x} \ {NULL}))
    BY <1>6 DEF Call
  <2>2. Good(Clobber(freeAllRegs(s0)))
    BY <1>1, GoodClobber
  <2>3. RAX_INDEX \in Regs /\ Temps \subseteq Vars
    BY RegisterFacts DEF Vars
  <2>4. Good(IF x = NULL THEN Clobber(freeAllRegs(s0))
             ELSE ComputeInSlot(Clobber(freeAllRegs(s0)), x))
    BY <2>2, <2>3, GoodEmitted
  <2>5. live \union ({x} \ {NULL}) \in SUBSET Temps
    BY <1>1
  <2> QED
    BY <2>1, <2>4, <2>5, EmitKeeps
<1> QED
  BY <1>3, <1>4, <1>5, <1>6

\* Returns, the code behind them and the next function.
LEMMA BoundariesKeep ==
    ASSUME FileInOrder
    PROVE  /\ ReturnString => FileInOrder'
           /\ \A x \in Operands : Return(x) => FileInOrder'
           /\ NextFunction \/ AfterReturn => FileInOrder'
<1>1. /\ Operands \subseteq Entries /\ RAX_INDEX \in Regs
      /\ \A s0 \in AtStart : Good(s0) /\ Good(freeAllRegs(s0))
  BY OperandFacts, GoodStart, GoodFlush, RegisterFacts DEF FileInOrder
<1>2. ASSUME ReturnString PROVE FileInOrder'
  <2>1. PICK s0 \in AtStart : Emit(Clobber(freeAllRegs(s0)), {}, {})
    BY <1>2 DEF ReturnString
  <2>2. Good(Clobber(freeAllRegs(s0)))
    BY <1>1, GoodClobber
  <2> QED
    BY <2>1, <2>2, EmitKeeps
<1>3. ASSUME NEW x \in Operands, Return(x) PROVE FileInOrder'
  <2>1. PICK s0 \in AtStart : \E wrong :
          LET s1 == IF s0.reg_index[x] # RAX_INDEX THEN freeReg(s0, RAX_INDEX) ELSE s0
          IN  Emit(nukeRegisters(s1), wrong, {})
    BY <1>3 DEF Return
  <2> DEFINE s1 == IF s0.reg_index[x] # RAX_INDEX THEN freeReg(s0, RAX_INDEX) ELSE s0
  <2>2. Good(s1)
    BY <1>1, GoodFree
  <2>3. PICK wrong : Emit(nukeRegisters(s1), wrong, {})
    BY <2>1
  <2> HIDE DEF s1
  <2>4. Good(nukeRegisters(s1))
    BY <2>2, GoodNuked
  <2> QED
    BY <2>3, <2>4, EmitKeeps
<1>4. ASSUME NextFunction \/ AfterReturn PROVE FileInOrder'
  <2> DEFINE rg == initialize_register_file.reg
             m  == initialize_register_file.mem
  <2>1. rg \in [Regs -> SUBSET Cells] /\ m \in [Cells -> SUBSET Cells]
    BY DEF initialize_register_file
  <2>2. cg' = WithContents(cg, rg, m)
    BY <1>4 DEF NextFunction, AfterReturn, WithContents
  <2> HIDE DEF rg, m
  <2>3. Good(cg')
    BY <2>1, <2>2, GoodContents DEF FileInOrder
  <2>4. live' \subseteq Temps
    BY <1>4 DEF NextFunction, AfterReturn, FileInOrder
  <2> QED
    BY <2>3, <2>4 DEF FileInOrder, Good, Reserved, Agree, Keeps
<1> QED
  BY <1>2, <1>3, <1>4

-----------------------------------------------------------------------------
(* Theorems                                                                *)

\* The register file starts in order.
LEMMA InOrderAtFirst == Init => FileInOrder
<1> SUFFICES ASSUME Init PROVE FileInOrder
  OBVIOUS
<1> DEFINE s == initialize_register_file
<1>1. s \in GeneratorState
  BY RegisterFacts DEF initialize_register_file, GeneratorState
<1>2. /\ \A i \in Regs : s.register_file[i] = NULL
      /\ \A e \in Entries : s.reg_index[e] = NOT_IN_REGISTER
  BY DEF initialize_register_file
<1> HIDE DEF s
<1>3. Reserved(s) /\ Agree(s)
  BY <1>1, <1>2, RegisterFacts
     DEF Reserved, Agree, NOT_IN_REGISTER, RAX_INDEX, RDX_INDEX
<1> QED
  BY <1>3 DEF Init, FileInOrder, Good, s

\* One step of any kind keeps it in order.
LEMMA InOrderNext == FileInOrder /\ [Next]_vars => FileInOrder'
<1> SUFFICES ASSUME FileInOrder, [Next]_vars PROVE FileInOrder'
  OBVIOUS
<1>1. CASE \E x \in Locals : AssignConst(x) \/ AssignString(x)
  BY <1>1, AssignConstKeeps, AssignStringKeeps
<1>2. CASE \E x \in Locals, y \in Readable : AssignCopy(x, y)
  BY <1>2, AssignCopyKeeps
<1>3. CASE \E x \in Temps : BinaryFold(x)
  BY <1>3, BinaryFoldKeeps
<1>4. CASE \E x \in Temps, y, z \in Readable, dead \in SUBSET live : BinaryVars(x, y, z, dead)
  BY <1>4, BinaryVarsKeeps
<1>5. CASE \E x \in Temps, y \in Readable, dead \in SUBSET live :
             \/ BinaryRightConst(x, y, dead)
             \/ BinaryLeftConst(x, y, dead)
             \/ UnaryVar(x, y, dead)
             \/ \E c \in Consts : ConstMinusVar(x, c, y, dead)
  BY <1>5, OneOperandKeeps, ConstMinusVarKeeps
     DEF BinaryRightConst, BinaryLeftConst, UnaryVar
<1>6. CASE \E x \in Temps, y, z \in Operands, dead \in SUBSET live : Divide(x, y, z, dead)
  BY <1>6, DivideKeeps
<1>7. CASE \E x \in Temps, y \in Readable, z \in live : MemReadVar(x, y, z)
  BY <1>7, MemReadVarKeeps
<1>8. CASE \E x \in Operands, y \in Readable, z \in live \union Consts, dead \in SUBSET live :
             MemWrite(x, y, z, dead)
  BY <1>8, MemWriteKeeps
<1>9. CASE \E x \in Operands : IfTrue(x) \/ Param(x) \/ Return(x)
  BY <1>9, JumpsKeep, CallsKeep, BoundariesKeep
<1>10. CASE \E x, y \in Operands, supported \in BOOLEAN : IfRelop(x, y, supported)
  BY <1>10, JumpsKeep
<1>11. CASE Goto
  BY <1>11, JumpsKeep
<1>12. CASE ParamString \/ ParamTrue \/ ParamGoto \/ ParamFalse
  BY <1>12, CallsKeep
<1>13. CASE \E x \in Temps, y \in Readable : ReadField(x, y)
  BY <1>13, MemReadConstKeeps DEF ReadField
<1>14. CASE \E x \in Temps \union {NULL} : Call(x)
  BY <1>14, CallsKeep
<1>15. CASE ReturnString \/ NextFunction \/ AfterReturn
  BY <1>15, BoundariesKeep
<1>16. CASE UNCHANGED vars
  BY <1>16 DEF vars, FileInOrder, Good, Reserved, Agree, Keeps
<1> QED
  BY <1>1, <1>2, <1>3, <1>4, <1>5, <1>6, <1>7, <1>8, <1>9, <1>10, <1>11, <1>12,
     <1>13, <1>14, <1>15, <1>16 DEF Next

\* So it is in order in every state.
LEMMA InOrderAlways == Spec => []FileInOrder
<1> QED
  BY InOrderAtFirst, InOrderNext, PTL DEF Spec

\* Whatever the IR, no handler of cg.c ever leaves a variable in %rax or %rdx,
\* and the victim is never one of them.
THEOREM ReservedRegistersAlways == Spec => []ReservedRegisters
<1>1. FileInOrder => ReservedRegisters
  BY DEF FileInOrder, Good, Reserved, GeneratorState, ReservedRegisters
<1> QED
  BY <1>1, InOrderAlways, PTL

\* For IR in which no operand's register is taken for another operand of the
\* same instruction, reg_index never names a register that register_file gives
\* to another variable: the copies, divisions and indexings that leave stale
\* claims behind only ever leave them on the other side.
THEOREM DescriptorsAgreeAlways ==
    ASSUME Keeps("no_eviction_clash")
    PROVE  Spec => []DescriptorsAgree
<1>1. FileInOrder => DescriptorsAgree
  BY DEF FileInOrder, Good, Agree, DescriptorsAgree
<1> QED
  BY <1>1, InOrderAlways, PTL

-----------------------------------------------------------------------------
(* The argument count                                                      *)

ArgumentPhases == {"arguments", "param_true", "param_join"}

\* What bounds the count: it never exceeds the words pushed for the next call,
\* of which there are none outside an argument list.
CallOrder ==
    /\ phase \in Phases /\ jumped \in BOOLEAN
    /\ param_count \in -MaxParams .. MaxParams
    /\ pushed \in 0 .. MaxParams
    /\ param_count <= pushed
    /\ phase \notin ArgumentPhases => pushed = 0
    /\ phase = "param_true" => pushed > 0
    /\ phase = "param_join" => pushed < MaxParams

\* The instructions that neither push, call nor jump.
LEMMA PlainCalls ==
    ASSUME CallOrder, UNCHANGED <<param_count, pushed, jumped>>, phase \notin ArgumentPhases,
           phase' \in Phases \ ArgumentPhases
    PROVE  CallOrder' /\ (BalancedUntilGoto => BalancedUntilGoto')
BY DEF CallOrder, BalancedUntilGoto, ArgumentPhases

\* One step of the count, for the instructions that change it.
LEMMA CallOrderNext ==
    ASSUME CallOrder, [Next]_vars
    PROVE  CallOrder' /\ (BalancedUntilGoto => BalancedUntilGoto')
<1> USE InputAssumption
<1>1. ASSUME Plain, phase \in {"entry", "statement", "transfer"}
      PROVE  CallOrder' /\ (BalancedUntilGoto => BalancedUntilGoto')
  BY <1>1, PlainCalls DEF Plain, CallOrder, ArgumentPhases, Phases
<1>2. CASE \E x \in Locals : AssignConst(x) \/ AssignString(x)
  BY <1>1, <1>2 DEF AssignConst, AssignString, InStatements
<1>3. CASE \E x \in Locals, y \in Readable : AssignCopy(x, y)
  BY <1>1, <1>3 DEF AssignCopy, InStatements
<1>4. CASE \E x \in Temps : BinaryFold(x)
  BY <1>1, <1>4 DEF BinaryFold, InStatements
<1>5. CASE \E x \in Temps, y, z \in Readable, dead \in SUBSET live : BinaryVars(x, y, z, dead)
  BY <1>1, <1>5 DEF BinaryVars, InStatements
<1>6. CASE \E x \in Temps, y \in Readable, dead \in SUBSET live :
             \/ BinaryRightConst(x, y, dead)
             \/ BinaryLeftConst(x, y, dead)
             \/ UnaryVar(x, y, dead)
             \/ \E c \in Consts : ConstMinusVar(x, c, y, dead)
  BY <1>1, <1>6 DEF BinaryRightConst, BinaryLeftConst, UnaryVar, OneOperand,
                    ConstMinusVar, InStatements
<1>7. CASE \E x \in Temps, y, z \in Operands, dead \in SUBSET live : Divide(x, y, z, dead)
  BY <1>1, <1>7 DEF Divide, InStatements
<1>8. CASE \E x \in Temps, y \in Readable, z \in live : MemReadVar(x, y, z)
  BY <1>1, <1>8 DEF MemReadVar, InStatements
<1>9. CASE \E x \in Operands, y \in Readable, z \in live \union Consts, dead \in SUBSET live :
             MemWrite(x, y, z, dead)
  BY <1>1, <1>9 DEF MemWrite, InStatements
<1>10. CASE \E x \in Operands : IfTrue(x)
  BY <1>10, PlainCalls DEF IfTrue, InStatements, CallOrder, ArgumentPhases, Phases
<1>11. CASE \E x, y \in Operands, supported \in BOOLEAN : IfRelop(x, y, supported)
  BY <1>11, PlainCalls
     DEF IfRelop, Branches, InStatements, CallOrder, ArgumentPhases, Phases
<1>12. CASE Goto
  <2>1. /\ phase \notin ArgumentPhases
        /\ phase' \in {"transfer", "param_test"} /\ pushed' = pushed /\ jumped'
        /\ param_count' = Fewer(param_count)
    BY <1>12 DEF Goto, Branches, InStatements, ArgumentPhases
  <2>2. jumped' \in BOOLEAN
    BY <1>12 DEF Goto
  <2> QED
    BY <2>1, <2>2 DEF CallOrder, BalancedUntilGoto, ArgumentPhases, Phases, Fewer
<1>13. CASE (\E x \in Operands : Param(x)) \/ ParamString \/ ParamTrue
  <2>1. /\ phase \in {"entry", "statement", "transfer", "arguments", "param_test"}
        /\ pushed < MaxParams
        /\ param_count' \in More(param_count) /\ pushed' = pushed + 1 /\ jumped' = jumped
        /\ phase' \in {"arguments", "param_true"}
    <3>1. CASE (\E x \in Operands : Param(x)) \/ ParamString
      BY <3>1 DEF Param, ParamString, InArguments, Push
    <3>2. CASE ParamTrue
      BY <3>2 DEF ParamTrue, Push, CallOrder, ArgumentPhases
    <3> QED BY <1>13, <3>1, <3>2
  <2>2. CallOrder'
    BY <2>1 DEF CallOrder, ArgumentPhases, Phases, More
  <2>3. BalancedUntilGoto => BalancedUntilGoto'
    BY <2>1 DEF CallOrder, BalancedUntilGoto, More
  <2> QED
    BY <2>2, <2>3
<1>14. CASE ParamGoto
  <2>1. /\ phase = "param_true" /\ phase' = "param_join"
        /\ param_count' = Fewer(param_count) /\ pushed' = pushed - 1 /\ jumped' = TRUE
    BY <1>14 DEF ParamGoto
  <2> QED
    BY <2>1 DEF CallOrder, BalancedUntilGoto, ArgumentPhases, Phases, Fewer
<1>15. CASE ParamFalse
  <2>1. /\ phase = "param_join" /\ phase' = "arguments" /\ jumped' = jumped
        /\ param_count' \in More(param_count) /\ pushed' = pushed + 1
    BY <1>15 DEF ParamFalse
  <2>2. CallOrder'
    BY <2>1 DEF CallOrder, ArgumentPhases, Phases, More
  <2>3. BalancedUntilGoto => BalancedUntilGoto'
    BY <2>1 DEF CallOrder, BalancedUntilGoto, More
  <2> QED
    BY <2>2, <2>3
<1>16. CASE \E x \in Temps, y \in Readable : ReadField(x, y)
  <2>1. /\ UNCHANGED <<param_count, pushed, jumped>>
        /\ phase \in {"entry", "statement", "transfer", "arguments"}
        /\ phase' = IF phase = "arguments" THEN phase ELSE "statement"
    BY <1>16 DEF ReadField, MemReadConst
  <2> QED
    BY <2>1 DEF CallOrder, BalancedUntilGoto, ArgumentPhases, Phases
<1>17. CASE \E x \in Temps \union {NULL} : Call(x)
  <2>1. /\ pushed' = 0 /\ jumped' = jumped
        /\ param_count' = IF param_count > 0 THEN 0 ELSE param_count
        /\ phase' = "transfer"
    BY <1>17 DEF Call
  <2> QED
    BY <2>1 DEF CallOrder, BalancedUntilGoto, ArgumentPhases, Phases
<1>18. CASE \E x \in Operands : Return(x)
  BY <1>18, PlainCalls DEF Return, InStatements, CallOrder, ArgumentPhases, Phases
<1>19. CASE ReturnString
  BY <1>19, PlainCalls DEF ReturnString, InStatements, CallOrder, ArgumentPhases, Phases
<1>20. CASE NextFunction
  <2>1. /\ phase \in {"statement", "transfer", "returned"}
        /\ phase' = "entry" /\ UNCHANGED <<param_count, pushed, jumped>>
    BY <1>20 DEF NextFunction
  <2> QED
    BY <2>1 DEF CallOrder, BalancedUntilGoto, ArgumentPhases, Phases
<1>21. CASE AfterReturn
  BY <1>21, PlainCalls DEF AfterReturn, CallOrder, ArgumentPhases, Phases
<1>22. CASE UNCHANGED vars
  BY <1>22 DEF vars, CallOrder, BalancedUntilGoto
<1> QED
  BY <1>2, <1>3, <1>4, <1>5, <1>6, <1>7, <1>8, <1>9, <1>10, <1>11, <1>12, <1>13,
     <1>14, <1>15, <1>16, <1>17, <1>18, <1>19, <1>20, <1>21, <1>22 DEF Next

\* A program starts with nothing pushed and nothing counted.
LEMMA CallOrderAtFirst == Init => CallOrder /\ BalancedUntilGoto
<1> SUFFICES ASSUME Init PROVE CallOrder /\ BalancedUntilGoto
  OBVIOUS
<1>1. phase = "entry" /\ param_count = 0 /\ pushed = 0
  BY DEF Init
<1>2. jumped \in BOOLEAN
  BY DEF Init
<1>3. phase \in Phases /\ phase \notin ArgumentPhases
  BY <1>1 DEF Phases, ArgumentPhases
<1>4. 0 \in -MaxParams .. MaxParams /\ 0 \in 0 .. MaxParams
  BY InputAssumption
<1> QED
  BY <1>1, <1>2, <1>3, <1>4 DEF CallOrder, BalancedUntilGoto, ArgumentPhases

\* In any program, a call takes off the stack at most the words pushed for it.
THEOREM OwnArgumentsOnlyAlways == Spec => []OwnArgumentsOnly
<1>1. Init => CallOrder
  BY CallOrderAtFirst
<1>2. CallOrder /\ [Next]_vars => CallOrder'
  BY CallOrderNext
<1>3. CallOrder => OwnArgumentsOnly
  BY DEF CallOrder, OwnArgumentsOnly
<1> QED
  BY <1>1, <1>2, <1>3, PTL DEF Spec

\* And all of them, until the first goto is generated.
THEOREM BalancedUntilGotoAlways == Spec => []BalancedUntilGoto
<1>1. Init => CallOrder /\ BalancedUntilGoto
  BY CallOrderAtFirst
<1>2. CallOrder /\ BalancedUntilGoto /\ [Next]_vars => CallOrder' /\ BalancedUntilGoto'
  BY CallOrderNext
<1> QED
  BY <1>1, <1>2, PTL DEF Spec

-----------------------------------------------------------------------------
(* Types                                                                   *)

Flags == cgFlag \in BOOLEAN /\ mustLead \in BOOLEAN /\ stale \subseteq Entries

\* The operands an instruction misread are entries.
LEMMA EmitStale ==
    ASSUME NEW s, NEW wrong, NEW nowLive, Emit(s, wrong, nowLive)
    PROVE  stale' = wrong
BY DEF Emit

\* The remaining variables keep their types.
LEMMA FlagsNext == FileInOrder /\ Flags /\ [Next]_vars => Flags'
<1> SUFFICES ASSUME FileInOrder, Flags, [Next]_vars PROVE Flags'
  OBVIOUS
<1> DEFINE E == \E s, wrong, nowLive : wrong \subseteq Entries /\ Emit(s, wrong, nowLive)
<1>0. E => stale' \subseteq Entries
  BY EmitStale
<1>1. /\ Readable \subseteq Entries /\ Operands \subseteq Entries
  BY OperandFacts
<1>a. Plain => mustLead' \in BOOLEAN /\ cgFlag' \in BOOLEAN
  BY DEF Plain, Flags
<1> HIDE DEF E
<1>2. CASE \E x \in Locals : AssignConst(x) \/ AssignString(x)
  <2>1. E /\ Plain
    BY <1>2 DEF AssignConst, AssignString, E
  <2> QED BY <1>0, <1>a, <2>1 DEF Flags
<1>3. CASE \E x \in Locals, y \in Readable : AssignCopy(x, y)
  <2>1. E /\ Plain
    BY <1>1, <1>3 DEF AssignCopy, Missing, E
  <2> QED BY <1>0, <1>a, <2>1 DEF Flags
<1>4. CASE \E x \in Temps : BinaryFold(x)
  <2>1. E /\ Plain
    BY <1>4 DEF BinaryFold, E
  <2> QED BY <1>0, <1>a, <2>1 DEF Flags
<1>5. CASE \E x \in Temps, y, z \in Readable, dead \in SUBSET live : BinaryVars(x, y, z, dead)
  <2>1. E /\ Plain
    BY <1>1, <1>5 DEF BinaryVars, Missing, E
  <2> QED BY <1>0, <1>a, <2>1 DEF Flags
<1>6. CASE \E x \in Temps, y \in Readable, dead \in SUBSET live :
             \/ BinaryRightConst(x, y, dead)
             \/ BinaryLeftConst(x, y, dead)
             \/ UnaryVar(x, y, dead)
             \/ \E c \in Consts : ConstMinusVar(x, c, y, dead)
  <2>1. E /\ Plain
    <3>1. ASSUME NEW x \in Temps, NEW y \in Readable, NEW dead, OneOperand(x, y, dead)
          PROVE  E /\ Plain
      BY <1>1, <3>1 DEF OneOperand, Missing, E
    <3>2. ASSUME NEW x \in Temps, NEW c \in Consts, NEW y \in Readable, NEW dead,
                 ConstMinusVar(x, c, y, dead)
          PROVE  E /\ Plain
      BY <1>1, <3>2 DEF ConstMinusVar, E
    <3>3. PICK x \in Temps, y \in Readable, dead \in SUBSET live :
            \/ OneOperand(x, y, dead)
            \/ \E c \in Consts : ConstMinusVar(x, c, y, dead)
      BY <1>6, Zenon DEF BinaryRightConst, BinaryLeftConst, UnaryVar
    <3> QED
      BY <3>1, <3>2, <3>3
  <2> QED BY <1>0, <1>a, <2>1 DEF Flags
<1>7. CASE \E x \in Temps, y, z \in Operands, dead \in SUBSET live : Divide(x, y, z, dead)
  <2>1. E /\ Plain
    <3>1. ASSUME NEW x, NEW y \in Operands, NEW z \in Operands, NEW dead, Divide(x, y, z, dead)
          PROVE  E /\ Plain
      BY <1>1, <3>1, SMTT(30) DEF Divide, Missing, E
    <3> QED
      BY <1>7, <3>1
  <2> QED BY <1>0, <1>a, <2>1 DEF Flags
<1>8. CASE \E x \in Temps, y \in Readable, z \in live : MemReadVar(x, y, z)
  <2>1. E /\ Plain
    BY <1>1, <1>8 DEF MemReadVar, Missing, E, Readable
  <2> QED BY <1>0, <1>a, <2>1 DEF Flags
<1>9. CASE \E x \in Operands, y \in Readable, z \in live \union Consts, dead \in SUBSET live :
             MemWrite(x, y, z, dead)
  <2>1. E /\ Plain
    <3>1. ASSUME NEW x \in Operands, NEW y \in Readable, NEW z \in live \union Consts, NEW dead,
                 MemWrite(x, y, z, dead)
          PROVE  E /\ Plain
      BY <1>1, <3>1 DEF MemWrite, Missing, E, Readable, Operands
    <3> QED
      BY <1>9, <3>1
  <2> QED BY <1>0, <1>a, <2>1 DEF Flags
<1>10. CASE \E x \in Operands : IfTrue(x)
  <2>1. E /\ mustLead' = TRUE /\ cgFlag' = cgFlag
    BY <1>1, <1>10 DEF IfTrue, Missing, E
  <2> QED BY <1>0, <2>1 DEF Flags
<1>11. CASE \E x, y \in Operands, supported \in BOOLEAN : IfRelop(x, y, supported)
  <2>1. E /\ mustLead' = TRUE /\ cgFlag' \in BOOLEAN
    BY <1>1, <1>11 DEF IfRelop, Missing, E
  <2> QED BY <1>0, <2>1 DEF Flags
<1>12. CASE Goto
  <2>1. E /\ mustLead' = TRUE /\ cgFlag' = cgFlag
    BY <1>12 DEF Goto, E
  <2> QED BY <1>0, <2>1 DEF Flags
<1>13. CASE (\E x \in Operands : Param(x)) \/ ParamString \/ ParamTrue
  <2>1. E /\ mustLead' = FALSE /\ cgFlag' = cgFlag
    BY <1>1, <1>13 DEF Param, ParamString, ParamTrue, Push, Missing, E
  <2> QED BY <1>0, <2>1 DEF Flags
<1>14. CASE ParamGoto \/ ParamFalse
  <2>1. E /\ mustLead' = TRUE /\ cgFlag' = cgFlag
    BY <1>14 DEF ParamGoto, ParamFalse, E
  <2> QED BY <1>0, <2>1 DEF Flags
<1>15. CASE \E x \in Temps, y \in Readable : ReadField(x, y)
  <2>1. E /\ mustLead' = FALSE /\ cgFlag' = cgFlag
    BY <1>1, <1>15 DEF ReadField, MemReadConst, Missing, E
  <2> QED BY <1>0, <2>1 DEF Flags
<1>16. CASE \E x \in Temps \union {NULL} : Call(x)
  <2>1. E /\ mustLead' = TRUE /\ cgFlag' = cgFlag
    BY <1>16 DEF Call, E
  <2> QED BY <1>0, <2>1 DEF Flags
<1>17. CASE \E x \in Operands : Return(x)
  <2>1. E /\ mustLead' = TRUE /\ cgFlag' = cgFlag
    BY <1>1, <1>17, RegisterFacts DEF Return, E
  <2> QED BY <1>0, <2>1 DEF Flags
<1>18. CASE ReturnString
  <2>1. E /\ mustLead' = TRUE /\ cgFlag' = cgFlag
    BY <1>18 DEF ReturnString, E
  <2> QED BY <1>0, <2>1 DEF Flags
<1>19. CASE NextFunction \/ AfterReturn
  <2>1. /\ mustLead' = FALSE \/ mustLead' = mustLead
        /\ stale' = {} \/ stale' = stale
        /\ cgFlag' = cgFlag
    BY <1>19 DEF NextFunction, AfterReturn
  <2> QED BY <2>1 DEF Flags
<1>20. CASE UNCHANGED vars
  BY <1>20 DEF vars, Flags
<1> QED
  BY <1>2, <1>3, <1>4, <1>5, <1>6, <1>7, <1>8, <1>9, <1>10, <1>11, <1>12, <1>13,
     <1>14, <1>15, <1>16, <1>17, <1>18, <1>19, <1>20 DEF Next

\* Every state of the generator is well formed.
THEOREM TypeCorrect == Spec => []TypeOK
<1>1. Init => FileInOrder /\ CallOrder /\ Flags
  BY CallOrderAtFirst, InOrderAtFirst DEF Init, Flags
<1>2. FileInOrder /\ CallOrder /\ Flags /\ [Next]_vars =>
        FileInOrder' /\ CallOrder' /\ Flags'
  BY InOrderNext, CallOrderNext, FlagsNext
<1>3. FileInOrder /\ CallOrder /\ Flags => TypeOK
  BY DEF FileInOrder, CallOrder, Flags, Good, Reserved, TypeOK
<1> QED
  BY <1>1, <1>2, <1>3, PTL DEF Spec

-----------------------------------------------------------------------------
(* freeAllRegs and its loop                                                *)

\* The registers below n that are claimed for v.
ClaimantsBelow(s, v, n) == {i \in 0 .. n - 1 : s.register_file[i] = v}

\* What the first n iterations leave.
Freed(s, n) ==
    [register_file |-> [i \in Regs |-> IF i < n THEN NULL ELSE s.register_file[i]],
     reg_index |-> [e \in Entries |-> IF ClaimantsBelow(s, e, n) = {} THEN s.reg_index[e]
                                      ELSE NOT_IN_REGISTER],
     victim |-> s.victim,
     reg |-> s.reg,
     mem |-> [c \in Cells |-> IF c \in Vars /\ ClaimantsBelow(s, c, n) # {}
                              THEN s.reg[Greatest(ClaimantsBelow(s, c, n))] ELSE s.mem[c]]]

\* A state with some of its parts replaced.
LEMMA Replaced ==
    ASSUME NEW s, NEW f, NEW x, NEW w, NEW rg, NEW m, NEW f2, NEW x2, NEW m2,
           s = [register_file |-> f, reg_index |-> x, victim |-> w, reg |-> rg, mem |-> m]
    PROVE  [s EXCEPT !.mem = m2, !.reg_index = x2, !.register_file = f2]
             = [register_file |-> f2, reg_index |-> x2, victim |-> w, reg |-> rg, mem |-> m2]
<1> DEFINE s1 == [s EXCEPT !.mem = m2]
           s2 == [s1 EXCEPT !.reg_index = x2]
           s3 == [s2 EXCEPT !.register_file = f2]
<1>1. s1 = [register_file |-> f, reg_index |-> x, victim |-> w, reg |-> rg, mem |-> m2]
  OBVIOUS
<1> HIDE DEF s1
<1>2. s2 = [register_file |-> f, reg_index |-> x2, victim |-> w, reg |-> rg, mem |-> m2]
  BY <1>1
<1> HIDE DEF s2
<1>3. s3 = [register_file |-> f2, reg_index |-> x2, victim |-> w, reg |-> rg, mem |-> m2]
  BY <1>2
<1> QED
  BY <1>3 DEF s1, s2

\* The same with the victim, as freeAllRegs has it.
Reset(s, f, x, w, m) ==
    [s EXCEPT !.register_file = f, !.reg_index = x, !.victim = w, !.mem = m]

LEMMA ReplacedVictim ==
    ASSUME NEW s, NEW f, NEW x, NEW w, NEW rg, NEW m, NEW f2, NEW x2, NEW w2, NEW m2,
           s = [register_file |-> f, reg_index |-> x, victim |-> w, reg |-> rg, mem |-> m]
    PROVE  Reset(s, f2, x2, w2, m2)
             = [register_file |-> f2, reg_index |-> x2, victim |-> w2, reg |-> rg, mem |-> m2]
<1> DEFINE s1 == [s EXCEPT !.register_file = f2]
           s2 == [s1 EXCEPT !.reg_index = x2]
           s3 == [s2 EXCEPT !.victim = w2]
           s4 == [s3 EXCEPT !.mem = m2]
<1>1. s1 = [register_file |-> f2, reg_index |-> x, victim |-> w, reg |-> rg, mem |-> m]
  OBVIOUS
<1> HIDE DEF s1
<1>2. s2 = [register_file |-> f2, reg_index |-> x2, victim |-> w, reg |-> rg, mem |-> m]
  BY <1>1
<1> HIDE DEF s2
<1>3. s3 = [register_file |-> f2, reg_index |-> x2, victim |-> w2, reg |-> rg, mem |-> m]
  BY <1>2
<1> HIDE DEF s3
<1>4. s4 = [register_file |-> f2, reg_index |-> x2, victim |-> w2, reg |-> rg, mem |-> m2]
  BY <1>3
<1> QED
  BY <1>4 DEF s1, s2, s3, Reset

\* One register more: it is the last to claim its variable, or claims none.
LEMMA ClaimantsStep ==
    ASSUME NEW s \in GeneratorState, NEW n \in Regs, NEW v
    PROVE  /\ s.register_file[n] # v => ClaimantsBelow(s, v, n + 1) = ClaimantsBelow(s, v, n)
           /\ s.register_file[n] = v => /\ ClaimantsBelow(s, v, n + 1) # {}
                                        /\ Greatest(ClaimantsBelow(s, v, n + 1)) = n
<1> DEFINE S == ClaimantsBelow(s, v, n + 1)
<1>1. n \in Nat
  BY SizeAssumption DEF Regs
<1>2. CASE s.register_file[n] # v
  BY <1>1, <1>2 DEF ClaimantsBelow
<1>3. CASE s.register_file[n] = v
  <2>1. n \in S /\ \A i \in S : i \in Int /\ i <= n
    BY <1>1, <1>3 DEF ClaimantsBelow
  <2> HIDE DEF S
  <2>2. \A i \in S : (\A j \in S : j <= i) => i = n
    BY <2>1
  <2>3. Greatest(S) = n
    BY <2>1, <2>2 DEF Greatest
  <2> QED
    BY <1>3, <2>1, <2>3 DEF S
<1> QED
  BY <1>2, <1>3

\* One iteration.
LEMMA FreedStep ==
    ASSUME NEW s \in GeneratorState, NEW n \in Regs
    PROVE  freeReg(Freed(s, n), n) = Freed(s, n + 1)
<1> DEFINE v == s.register_file[n]
           f(k) == [i \in Regs |-> IF i < k THEN NULL ELSE s.register_file[i]]
           x(k) == [e \in Entries |-> IF ClaimantsBelow(s, e, k) = {} THEN s.reg_index[e]
                                      ELSE NOT_IN_REGISTER]
           m(k) == [c \in Cells |-> IF c \in Vars /\ ClaimantsBelow(s, c, k) # {}
                                    THEN s.reg[Greatest(ClaimantsBelow(s, c, k))] ELSE s.mem[c]]
           a == Freed(s, n)
<1>1. /\ s = [register_file |-> s.register_file, reg_index |-> s.reg_index,
              victim |-> s.victim, reg |-> s.reg, mem |-> s.mem]
      /\ v \in Entries \union {NULL} /\ n \in Nat /\ \A i \in Regs : i \in Nat
  BY SizeAssumption DEF GeneratorState, Regs
<1>2. \A k : Freed(s, k) = [register_file |-> f(k), reg_index |-> x(k), victim |-> s.victim,
                            reg |-> s.reg, mem |-> m(k)]
  BY DEF Freed
<1>3. a.register_file[n] = v /\ a.reg = s.reg
  BY <1>1, <1>2
<1>4. f(n + 1) = [f(n) EXCEPT ![n] = NULL]
  <2>1. \A i \in Regs : i < n + 1 <=> i < n \/ i = n
    BY <1>1
  <2> QED
    BY <2>1
<1>5. \A e : e # v => ClaimantsBelow(s, e, n + 1) = ClaimantsBelow(s, e, n)
  BY ClaimantsStep
<1>6. ClaimantsBelow(s, v, n + 1) # {} /\ Greatest(ClaimantsBelow(s, v, n + 1)) = n
  BY ClaimantsStep
<1>7. CASE v = NULL
  <2>1. NULL \notin Entries /\ NULL \notin Vars
    BY EntriesAssumption, RegisterFacts
  <2>2. f(n + 1) = f(n)
    <3>1. f(n)[n] = NULL
      BY <1>1, <1>7
    <3>2. f(n) = [f(n) EXCEPT ![n] = f(n)[n]]
      OBVIOUS
    <3> QED
      BY <1>4, <3>1, <3>2
  <2>3. x(n + 1) = x(n) /\ m(n + 1) = m(n)
    BY <1>5, <1>7, <2>1
  <2> HIDE DEF f, x, m
  <2>4. Freed(s, n + 1) = a
    BY <1>2, <2>2, <2>3
  <2> QED
    BY <1>3, <1>7, <2>4 DEF freeReg
<1>8. CASE v # NULL
  <2>1. v \in Entries /\ freeReg(a, n) = Spill(a, n, v)
    BY <1>1, <1>3, <1>8 DEF freeReg
  <2>2. x(n + 1) = [x(n) EXCEPT ![v] = NOT_IN_REGISTER]
    BY <1>5, <1>6, <2>1
  <2>3. m(n + 1) = IF v \in Consts THEN m(n) ELSE [m(n) EXCEPT ![v] = s.reg[n]]
    <3>1. CASE v \in Consts
      <4>1. v \notin Vars
        BY <3>1, EntriesAssumption
      <4> QED
        BY <1>5, <3>1, <4>1
    <3>2. CASE v \notin Consts
      <4>1. v \in Vars /\ v \in Cells
        BY <2>1, <3>2 DEF Entries, Cells
      <4> QED
        BY <1>5, <1>6, <3>2, <4>1
    <3> QED
      BY <3>1, <3>2
  <2>4. a = [register_file |-> f(n), reg_index |-> x(n), victim |-> s.victim,
             reg |-> s.reg, mem |-> m(n)]
    BY <1>2
  <2>5. Freed(s, n + 1) = [register_file |-> f(n + 1), reg_index |-> x(n + 1),
                           victim |-> s.victim, reg |-> s.reg, mem |-> m(n + 1)]
    BY <1>2
  <2> DEFINE M == IF v \in Consts THEN m(n) ELSE [m(n) EXCEPT ![v] = s.reg[n]]
  <2> HIDE DEF f, x, m, a
  <2>6. Spill(a, n, v) =
          [register_file |-> [f(n) EXCEPT ![n] = NULL],
           reg_index |-> [x(n) EXCEPT ![v] = NOT_IN_REGISTER],
           victim |-> s.victim, reg |-> s.reg,
           mem |-> M]
    <3>1. Spill(a, n, v) = [a EXCEPT !.mem = M, !.reg_index = [x(n) EXCEPT ![v] = NOT_IN_REGISTER],
                                     !.register_file = [f(n) EXCEPT ![n] = NULL]]
      <4>1. a.mem = m(n) /\ a.reg_index = x(n) /\ a.register_file = f(n) /\ a.reg[n] = s.reg[n]
        BY <2>4
      <4> QED
        BY <4>1, Zenon DEF Spill
    <3> HIDE DEF M
    <3> QED
      BY <2>4, <3>1, Replaced
  <2> QED
    BY <1>4, <2>1, <2>2, <2>3, <2>5, <2>6 DEF a
<1> QED
  BY <1>7, <1>8

\* The whole loop.
LEMMA FreedAll ==
    ASSUME NEW s \in GeneratorState
    PROVE  /\ Freed(s, 0) = s
           /\ freeAllRegs(s) = [Freed(s, REGISTER_FILE_SIZE) EXCEPT !.victim = FIRST_VICTIM]
<1>1. \A i \in Regs : i \in Int /\ ~(i < 0) /\ i < REGISTER_FILE_SIZE
  BY SizeAssumption DEF Regs
<1>2. \A v : ClaimantsBelow(s, v, 0) = {}
  BY DEF ClaimantsBelow
<1>3. \A v : ClaimantsBelow(s, v, REGISTER_FILE_SIZE) = Claimants(s, v)
  BY DEF ClaimantsBelow, Claimants, Regs
<1>4. Freed(s, 0) = s
  <2>1. /\ s.register_file = [i \in Regs |-> IF i < 0 THEN NULL ELSE s.register_file[i]]
        /\ s.reg_index = [e \in Entries |-> s.reg_index[e]]
        /\ s.mem = [c \in Cells |-> s.mem[c]]
    BY <1>1 DEF GeneratorState
  <2> QED
    BY <1>2, <2>1 DEF Freed, GeneratorState
<1>5. freeAllRegs(s) = [Freed(s, REGISTER_FILE_SIZE) EXCEPT !.victim = FIRST_VICTIM]
  <2> DEFINE N == REGISTER_FILE_SIZE
             x == [e \in Entries |-> IF Claimants(s, e) = {} THEN s.reg_index[e]
                                     ELSE NOT_IN_REGISTER]
             m == [c \in Cells |-> IF c \in Vars /\ Claimants(s, c) # {}
                                   THEN s.reg[Greatest(Claimants(s, c))] ELSE s.mem[c]]
             f == [i \in Regs |-> NULL]
  <2>1. [i \in Regs |-> IF i < REGISTER_FILE_SIZE THEN NULL ELSE s.register_file[i]]
          = [i \in Regs |-> NULL]
    BY <1>1
  <2>2. Freed(s, N) = [register_file |-> f, reg_index |-> x, victim |-> s.victim,
                       reg |-> s.reg, mem |-> m]
    BY <1>3, <2>1 DEF Freed
  <2>3. freeAllRegs(s) = Reset(s, f, x, FIRST_VICTIM, m)
    BY DEF freeAllRegs, GeneratorState, Reset
  <2>4. s = [register_file |-> s.register_file, reg_index |-> s.reg_index,
             victim |-> s.victim, reg |-> s.reg, mem |-> s.mem]
    BY DEF GeneratorState
  <2> HIDE DEF f, x, m
  <2>5. Reset(s, f, x, FIRST_VICTIM, m)
          = [register_file |-> f, reg_index |-> x, victim |-> FIRST_VICTIM, reg |-> s.reg,
             mem |-> m]
    BY <2>4, ReplacedVictim
  <2>6. [Freed(s, N) EXCEPT !.victim = FIRST_VICTIM]
          = [register_file |-> f, reg_index |-> x, victim |-> FIRST_VICTIM, reg |-> s.reg,
             mem |-> m]
    <3> HIDE DEF N
    <3> QED
      BY <2>2
  <2> QED
    BY <2>3, <2>5, <2>6
<1> QED
  BY <1>4, <1>5

\* freeAllRegs, which RegisterFile states without its loop, leaves what calling
\* freeReg on 0, 1, ... leaves: each slot ends with the store of the highest
\* register that claims its variable.
IsLoopOf(s, flushed) ==
    LET after[n \in 0 .. REGISTER_FILE_SIZE] ==
          IF n = 0 THEN s ELSE freeReg(after[n - 1], n - 1)
    IN  flushed = [after[REGISTER_FILE_SIZE] EXCEPT !.victim = FIRST_VICTIM]

\* For every number of registers and every state of the descriptors, agreeing or
\* not: the closed form of freeAllRegs stands for the loop of cg.c:190.
LEMMA FlushIsTheLoop ==
    ASSUME NEW s \in GeneratorState
    PROVE  IsLoopOf(s, freeAllRegs(s))
<1> DEFINE N == REGISTER_FILE_SIZE
           T(g) == [n \in 0 .. N |-> IF n = 0 THEN s ELSE freeReg(g[n - 1], n - 1)]
           after == CHOOSE g : g = T(g)
           freed == [n \in 0 .. N |-> Freed(s, n)]
<1>1. s \in GeneratorState
  OBVIOUS
<1>2. N \in Nat /\ Regs = 0 .. N - 1
  BY SizeAssumption DEF Regs
<1>3. ASSUME NEW n \in 0 .. N
      PROVE  freed[n] = IF n = 0 THEN s ELSE freeReg(freed[n - 1], n - 1)
  <2>1. CASE n = 0
    BY <1>1, <2>1, FreedAll
  <2>2. CASE n # 0
    <3>1. n - 1 \in Regs /\ n - 1 \in 0 .. N /\ (n - 1) + 1 = n
      BY <1>2, <2>2
    <3>2. freeReg(Freed(s, n - 1), n - 1) = Freed(s, n)
      BY <1>1, <3>1, FreedStep
    <3> QED
      BY <2>2, <3>1, <3>2
  <2> QED
    BY <2>1, <2>2
<1>4. freed = T(freed)
  <2>1. freed = [n \in 0 .. N |-> freed[n]]
    OBVIOUS
  <2> HIDE DEF freed
  <2> QED
    BY <1>3, <2>1, Zenon
<1>5. after = T(after)
  BY <1>4
<1> HIDE DEF after, freed
<1>6. /\ after[0] = s
      /\ \A n \in 0 .. N : n # 0 => after[n] = freeReg(after[n - 1], n - 1)
  BY <1>2, <1>5
<1> DEFINE Bad == {i \in Regs : after[i + 1] # freed[i + 1]}
<1>7. after[0] = freed[0] /\ freed[0] = s
  BY <1>2, <1>3, <1>6
<1>8. Bad = {}
  <2> SUFFICES ASSUME Bad # {} PROVE FALSE
    OBVIOUS
  <2>1. PICK i \in Bad : \A j \in Bad : i <= j
    <3>1. Bad \in SUBSET Regs
      OBVIOUS
    <3> HIDE DEF Bad
    <3> QED
      BY <3>1, HasLeast
  <2>2. i \in 0 .. N - 1 /\ after[i + 1] # freed[i + 1]
    BY <1>2, <2>1
  <2>3. after[i] = freed[i]
    <3>1. CASE i = 0
      BY <1>7, <3>1
    <3>2. CASE i # 0
      <4>1. i - 1 \in Regs /\ ~(i <= i - 1) /\ (i - 1) + 1 = i
        BY <1>2, <2>2, <3>2
      <4>2. i - 1 \notin Bad
        BY <2>1, <4>1
      <4> QED
        BY <4>1, <4>2
    <3> QED
      BY <3>1, <3>2
  <2>4. i + 1 \in 0 .. N /\ i + 1 # 0 /\ (i + 1) - 1 = i
    BY <1>2, <2>2
  <2>5. after[i + 1] = freeReg(after[i], i) /\ freed[i + 1] = freeReg(freed[i], i)
    BY <1>3, <1>6, <2>4
  <2> QED
    BY <2>2, <2>3, <2>5
<1>9. after[N] = freed[N]
  <2>1. N - 1 \in Regs /\ (N - 1) + 1 = N
    BY SizeAssumption, <1>2
  <2>2. N - 1 \notin Bad
    BY <1>8
  <2> QED
    BY <2>1, <2>2
<1>10. after[N] = Freed(s, N)
  BY <1>2, <1>9 DEF freed
<1>11. freeAllRegs(s) = [after[N] EXCEPT !.victim = FIRST_VICTIM]
  BY <1>1, <1>10, FreedAll
<1> QED
  BY <1>11 DEF after, IsLoopOf
=============================================================================
