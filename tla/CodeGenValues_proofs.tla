------------------------ MODULE CodeGenValues_proofs ------------------------
(***************************************************************************)
(* Proofs that the emitted code finds every value where the generator      *)
(* looks for it, for IR that keeps the disciplines of CodeGen, for every   *)
(* register file of at least 5 registers and every set of variables.       *)
(***************************************************************************)
EXTENDS CodeGen_proofs

-----------------------------------------------------------------------------
(* Where values are                                                        *)

\* Every register claimed for a variable of L holds its value, a claim the
\* variable no longer knows of included: freeReg will store it.
Claimed(s, L) ==
    \A i \in Regs : s.register_file[i] \in L => s.register_file[i] \in s.reg[i]

\* A variable of L that is in no register is in its slot.
Slotted(s, L) == \A v \in L : s.reg_index[v] = NOT_IN_REGISTER => v \in s.mem[v]

\* The descriptors are in order and lead to the value of every variable of L.
Current(s, L) == Good(s) /\ Claimed(s, L) /\ Slotted(s, L)

\* Every register but i, claimed for a variable of L, holds its value.
ClaimedBut(s, L, i) ==
    \A j \in Regs \ {i} : s.register_file[j] \in L => s.register_file[j] \in s.reg[j]

InMemory(s, L) == \A v \in L : v \in s.mem[v]
AllFree(s) == \A i \in Regs : s.register_file[i] = NULL

\* The variables of L in their slots stay there.
SlotsKept(s, t, L) == \A v \in L : v \in s.mem[v] => v \in t.mem[v]

\* Fewer variables, fewer obligations.
LEMMA CurrentLess ==
    ASSUME NEW s, NEW L, NEW M, M \subseteq L, Current(s, L)
    PROVE  Current(s, M)
BY DEF Current, Claimed, Slotted

\* A variable that is in a register has its value there.
LEMMA CurrentInRegister ==
    ASSUME Keeps("no_eviction_clash"), NEW L \in SUBSET Vars, NEW s, Current(s, L),
           NEW v \in L, s.reg_index[v] # NOT_IN_REGISTER
    PROVE  v \in s.reg[s.reg_index[v]]
<1>1. v \in Entries /\ s.reg_index \in [Entries -> Regs \union {NOT_IN_REGISTER}]
  BY DEF Entries, Current, Good, Reserved, GeneratorState
<1>2. s.reg_index[v] \in Regs /\ s.register_file[s.reg_index[v]] = v
  BY <1>1 DEF Current, Good, Agree
<1> QED
  BY <1>2 DEF Current, Claimed

\* freeReg stores what the register holds, so no value is lost: a variable
\* whose claim was stale gets the same value again.
LEMMA freeRegCurrent ==
    ASSUME NEW L \in SUBSET Vars, NEW s, Current(s, L), NEW i \in Regs, NEW t,
           t = freeReg(s, i)
    PROVE  Current(t, L) /\ SlotsKept(s, t, L)
<1>0. s \in GeneratorState /\ Reserved(s) /\ Good(t)
  BY GoodFree DEF Current, Good, Reserved
<1>1. CASE s.register_file[i] = NULL
  <2>1. t = s
    BY <1>1 DEF freeReg
  <2> QED
    BY <2>1 DEF SlotsKept
<1>2. CASE s.register_file[i] # NULL
  <2> DEFINE v == s.register_file[i]
  <2>1. v \in Entries /\ (v \notin Consts => v \in Cells)
    BY <1>0, <1>2 DEF GeneratorState, Entries, Cells
  <2>2. t = Spill(s, i, v)
    BY <1>2 DEF freeReg
  <2>3. L \subseteq Cells /\ L \subseteq Entries /\ NULL \notin L
    BY EntriesAssumption DEF Entries, Cells
  <2>4. v \in L => v \in s.reg[i]
    BY DEF Current, Claimed
  <2> HIDE DEF v
  <2>5. /\ t.reg = s.reg
        /\ t.register_file = Update(s.register_file, i, NULL)
        /\ t.reg_index = Update(s.reg_index, v, NOT_IN_REGISTER)
        /\ t.mem = IF v \in Consts THEN s.mem ELSE Update(s.mem, v, s.reg[i])
    BY <1>0, <2>2 DEF Spill, GeneratorState, Update
  <2>6. /\ s.register_file \in [Regs -> Entries \union {NULL}]
        /\ s.reg_index \in [Entries -> Regs \union {NOT_IN_REGISTER}]
        /\ s.mem \in [Cells -> SUBSET Cells]
    BY <1>0 DEF GeneratorState
  <2>7. Claimed(t, L)
    BY <2>3, <2>5, <2>6 DEF Current, Claimed, Update
  <2>8. SlotsKept(s, t, L)
    BY <2>1, <2>3, <2>4, <2>5, <2>6 DEF SlotsKept, Update
  <2>9. ASSUME NEW w \in L, t.reg_index[w] = NOT_IN_REGISTER PROVE w \in t.mem[w]
    <3>1. CASE w = v
      <4>1. v \notin Consts
        BY <3>1, EntriesAssumption
      <4> QED
        BY <2>1, <2>4, <2>5, <2>6, <3>1, <4>1 DEF Update
    <3>2. CASE w # v
      <4>1. s.reg_index[w] = NOT_IN_REGISTER
        BY <2>1, <2>3, <2>5, <2>6, <2>9, <3>2 DEF Update
      <4>2. w \in s.mem[w]
        BY <4>1 DEF Current, Slotted
      <4> QED
        BY <2>8, <4>2 DEF SlotsKept
    <3> QED
      BY <3>1, <3>2
  <2> QED
    BY <1>0, <2>7, <2>8, <2>9 DEF Current, Slotted
<1> QED
  BY <1>1, <1>2

\* A register is claimed for v: whatever v's own value, the other variables'
\* stay where they are.
LEMMA ClaimCurrent ==
    ASSUME NEW L \in SUBSET Vars, NEW s, Current(s, L), NEW i \in Allocatable,
           NEW v \in Entries, s.register_file[i] = NULL
    PROVE  /\ Current(Claim(s, i, v), L \ {v}) /\ ClaimedBut(Claim(s, i, v), L, i)
           /\ Claim(s, i, v).mem = s.mem /\ Claim(s, i, v).reg = s.reg
<1> DEFINE t == Claim(s, i, v)
<1>1. Reserved(s) /\ s \in GeneratorState /\ i \in Regs
  BY RegisterFacts DEF Current, Good, Reserved
<1>2. /\ Reserved(t) /\ (Agree(s) => Agree(t))
      /\ t.reg_index = Update(s.reg_index, v, i)
      /\ t.register_file = Update(s.register_file, i, v)
  BY <1>1, ClaimKeeps
<1>3. t.mem = s.mem /\ t.reg = s.reg
  BY <1>1 DEF Claim, GeneratorState
<1> HIDE DEF t
<1>4. /\ s.register_file \in [Regs -> Entries \union {NULL}]
      /\ s.reg_index \in [Entries -> Regs \union {NOT_IN_REGISTER}]
      /\ L \subseteq Entries
  BY <1>1 DEF GeneratorState, Entries
<1>5. Claimed(t, L \ {v})
  BY <1>1, <1>2, <1>3, <1>4 DEF Current, Claimed, Update
<1>7. ClaimedBut(t, L, i)
  BY <1>1, <1>2, <1>3, <1>4 DEF Current, Claimed, ClaimedBut, Update
<1>6. Slotted(t, L \ {v})
  BY <1>1, <1>2, <1>3, <1>4 DEF Current, Slotted, Update
<1> QED
  BY <1>2, <1>3, <1>5, <1>6, <1>7 DEF Current, Good, t

\* getReg evicts in order; v itself has no value in its new register yet.
LEMMA getRegCurrent ==
    ASSUME NEW L \in SUBSET Vars, NEW s, Current(s, L), NEW v \in Entries, NEW t,
           t = getReg(s, v)
    PROVE  /\ Current(t, L \ {v}) /\ SlotsKept(s, t, L)
           /\ s.reg_index[v] # NOT_IN_REGISTER => t = s
           /\ t.reg_index[v] \in Allocatable /\ ClaimedBut(t, L, t.reg_index[v])
           /\ Keeps("no_eviction_clash") => t.register_file[t.reg_index[v]] = v
<1>0. Reserved(s) /\ Good(s)
  BY DEF Current, Good
<1>1. t.reg_index[v] \in Allocatable
  BY <1>0, GoodLoad
<1>2. Keeps("no_eviction_clash") => t.register_file[t.reg_index[v]] = v
  BY <1>0, <1>1, GoodLoad, RegisterFacts DEF Good, Agree
<1>3. CASE s.reg_index[v] # NOT_IN_REGISTER
  <2>1. t = s
    BY <1>3 DEF getReg
  <2> QED
    BY <1>1, <1>2, <2>1, CurrentLess DEF SlotsKept, Current, Claimed, ClaimedBut
<1>4. CASE s.reg_index[v] = NOT_IN_REGISTER /\ FreeSet(s) # {}
  <2> DEFINE i == Least(FreeSet(s))
  <2>1. FreeSet(s) \in SUBSET Regs
    BY RegisterFacts DEF FreeSet
  <2>2. i \in FreeSet(s)
    BY <1>4, <2>1, LeastIn
  <2>3. i \in Allocatable /\ s.register_file[i] = NULL
    BY <2>2 DEF FreeSet
  <2>4. t = Claim(s, i, v)
    BY <1>4 DEF getReg
  <2> HIDE DEF i
  <2>5. Current(t, L \ {v}) /\ t.mem = s.mem /\ ClaimedBut(t, L, i)
    BY <2>3, <2>4, ClaimCurrent
  <2>6. t.reg_index[v] = i
    <3>1. t.reg_index = Update(s.reg_index, v, i)
      BY <1>0, <2>3, <2>4, ClaimKeeps
    <3>2. s.reg_index \in [Entries -> Regs \union {NOT_IN_REGISTER}]
      BY <1>0 DEF Reserved, GeneratorState
    <3> QED
      BY <3>1, <3>2 DEF Update
  <2> QED
    BY <1>1, <1>2, <1>4, <2>5, <2>6 DEF SlotsKept
<1>5. CASE s.reg_index[v] = NOT_IN_REGISTER /\ FreeSet(s) = {}
  <2> DEFINE i == s.victim
             u == freeReg(s, i)
             w == Claim(u, i, v)
  <2>1. i \in Allocatable /\ i \in Regs
    BY <1>0, RegisterFacts DEF Reserved, GeneratorState
  <2>2. Current(u, L) /\ SlotsKept(s, u, L)
    BY <2>1, freeRegCurrent
  <2>3. u.register_file[i] = NULL
    <3>1. u.register_file = Update(s.register_file, i, NULL)
      BY <1>0, <2>1, freeRegKeeps
    <3> QED
      BY <1>0, <2>1, <3>1 DEF Reserved, GeneratorState, Update
  <2>4. t = [w EXCEPT !.victim = NextVictim(i)]
    BY <1>5 DEF getReg
  <2>5. NextVictim(i) \in Allocatable
    BY <2>1, NextVictimAllocatable
  <2> HIDE DEF u, i
  <2>6. Current(w, L \ {v}) /\ w.mem = u.mem /\ ClaimedBut(w, L, i)
    BY <2>1, <2>2, <2>3, ClaimCurrent
  <2>12. w.reg_index[v] = i
    <3>1. Reserved(u)
      BY <2>2 DEF Current, Good
    <3>2. w.reg_index = Update(u.reg_index, v, i)
      BY <2>1, <3>1, ClaimKeeps
    <3>3. u.reg_index \in [Entries -> Regs \union {NOT_IN_REGISTER}]
      BY <3>1 DEF Reserved, GeneratorState
    <3> QED
      BY <3>2, <3>3 DEF Update
  <2>7. w \in GeneratorState
    BY <2>6 DEF Current, Good, Reserved
  <2> HIDE DEF w
  <2>8. /\ t.mem = w.mem /\ t.reg = w.reg /\ t.reg_index = w.reg_index
        /\ t.register_file = w.register_file
    BY <2>4, <2>7 DEF GeneratorState
  <2>9. Good(t)
    BY <1>0, GoodLoad
  <2>10. Current(t, L \ {v})
    BY <2>6, <2>8, <2>9 DEF Current, Claimed, Slotted
  <2>11. SlotsKept(s, t, L)
    BY <2>2, <2>6, <2>8 DEF SlotsKept
  <2>13. ClaimedBut(t, L, t.reg_index[v])
    BY <2>6, <2>8, <2>12 DEF ClaimedBut
  <2> QED
    BY <1>1, <1>2, <1>5, <2>10, <2>11, <2>13
<1> QED
  BY <1>3, <1>4, <1>5

\* loadReg loses nothing and leaves v's value in v's register.
LEMMA loadRegCurrent ==
    ASSUME Keeps("no_eviction_clash"), NEW L \in SUBSET Vars, NEW s, Current(s, L),
           NEW v \in Vars, NEW t, t = loadReg(s, v)
    PROVE  /\ Current(t, L) /\ SlotsKept(s, t, L)
           /\ t.reg_index[v] \in Allocatable /\ t.register_file[t.reg_index[v]] = v
           /\ v \in L => v \in t.reg[t.reg_index[v]]
<1>0. v \in Entries /\ v \notin Consts /\ Good(s) /\ L \subseteq Entries
  BY EntriesAssumption DEF Current, Entries
<1>1. Good(t) /\ t.reg_index[v] \in Allocatable /\ t.register_file[t.reg_index[v]] = v
  BY <1>0, GoodLoad, RegisterFacts DEF Good, Agree
<1>2. t.reg_index[v] # NOT_IN_REGISTER
  BY <1>1, RegisterFacts
<1>3. CASE s.reg_index[v] # NOT_IN_REGISTER
  <2>1. t = s
    BY <1>3 DEF loadReg
  <2> QED
    BY <1>1, <1>2, <2>1, CurrentInRegister DEF SlotsKept
<1>4. CASE s.reg_index[v] = NOT_IN_REGISTER
  <2> DEFINE u == getReg(s, v)
             r == u.reg_index[v]
  <2>0. u = getReg(s, v)
    OBVIOUS
  <2>2. t = [u EXCEPT !.reg[r] = u.mem[v]]
    BY <1>0, <1>4 DEF loadReg, Cell
  <2> HIDE DEF u
  <2>1. /\ Current(u, L \ {v}) /\ SlotsKept(s, u, L) /\ r \in Allocatable
        /\ u.register_file[r] = v /\ ClaimedBut(u, L, r)
    <3>1. /\ Current(u, L \ {v}) /\ SlotsKept(s, u, L)
          /\ u.reg_index[v] \in Allocatable /\ ClaimedBut(u, L, u.reg_index[v])
      BY <1>0, <2>0, getRegCurrent
    <3>2. u.register_file[u.reg_index[v]] = v
      BY <1>0, <3>1, RegisterFacts DEF Current, Good, Agree
    <3> QED
      BY <3>1, <3>2
  <2>3. u \in GeneratorState /\ r \in Regs
    BY <2>1, RegisterFacts DEF Current, Good, Reserved
  <2>4. /\ t.reg = Update(u.reg, r, u.mem[v]) /\ t.mem = u.mem
        /\ t.reg_index = u.reg_index /\ t.register_file = u.register_file
    BY <2>2, <2>3 DEF GeneratorState, Update
  <2>5. u.reg \in [Regs -> SUBSET Cells] /\ u.register_file \in [Regs -> Entries \union {NULL}]
    BY <2>3 DEF GeneratorState
  <2>6. v \in L => v \in u.mem[v]
    BY <1>4, <2>1 DEF Current, Slotted, SlotsKept
  <2>7. Agree(u)
    BY <2>1 DEF Current, Good
  <2>8. ASSUME NEW i \in Regs, t.register_file[i] \in L PROVE t.register_file[i] \in t.reg[i]
    <3>1. CASE i = r
      BY <2>1, <2>3, <2>4, <2>5, <2>6, <2>8, <3>1 DEF Update
    <3>2. CASE i # r
      BY <2>1, <2>3, <2>4, <2>5, <2>8, <3>2 DEF ClaimedBut, Update
    <3> QED
      BY <3>1, <3>2
  <2>9. ASSUME NEW w \in L, t.reg_index[w] = NOT_IN_REGISTER PROVE w \in t.mem[w]
    BY <1>2, <2>1, <2>4, <2>9 DEF Current, Slotted
  <2>10. Current(t, L)
    BY <1>1, <2>8, <2>9 DEF Current, Claimed, Slotted
  <2>11. SlotsKept(s, t, L)
    BY <2>1, <2>4 DEF SlotsKept
  <2>12. v \in L => v \in t.reg[t.reg_index[v]]
    BY <2>3, <2>4, <2>5, <2>6 DEF Update
  <2> QED
    BY <1>1, <2>10, <2>11, <2>12
<1> QED
  BY <1>3, <1>4

-----------------------------------------------------------------------------
(* Who claims a register                                                   *)

\* No register claims x, and x is in none.
Unclaimed(s, x) == Claimants(s, x) = {}

\* A variable no register claims is in none.
LEMMA UnclaimedOutside ==
    ASSUME Keeps("no_eviction_clash"), NEW s, Good(s), NEW x \in Entries, Unclaimed(s, x)
    PROVE  s.reg_index[x] = NOT_IN_REGISTER
<1>1. s.reg_index \in [Entries -> Regs \union {NOT_IN_REGISTER}] /\ Agree(s)
  BY DEF Good, Reserved, GeneratorState
<1> QED
  BY <1>1 DEF Agree, Unclaimed, Claimants

\* loadReg moves a value and leaves the descriptors as getReg does.
LEMMA loadRegIsGetReg ==
    ASSUME NEW s, Reserved(s), NEW v \in Entries
    PROVE  /\ loadReg(s, v).register_file = getReg(s, v).register_file
           /\ loadReg(s, v).reg_index = getReg(s, v).reg_index
<1>1. CASE s.reg_index[v] # NOT_IN_REGISTER
  <2>1. loadReg(s, v) = s
    BY <1>1 DEF loadReg
  <2>2. getReg(s, v) = s
    BY <1>1 DEF getReg
  <2> QED
    BY <2>1, <2>2
<1>2. CASE s.reg_index[v] = NOT_IN_REGISTER
  <2> DEFINE t == getReg(s, v)
  <2>1. t \in GeneratorState
    BY getRegKeeps DEF Reserved
  <2>2. loadReg(s, v) = [t EXCEPT !.reg[t.reg_index[v]] = t.mem[Cell(v)]]
    BY <1>2 DEF loadReg
  <2> HIDE DEF t
  <2>3. /\ loadReg(s, v).register_file = t.register_file
        /\ loadReg(s, v).reg_index = t.reg_index
    BY <2>1, <2>2 DEF GeneratorState
  <2> QED
    BY <2>3 DEF t
<1> QED
  BY <1>1, <1>2

\* getReg and loadReg claim a register for v and for nothing else.
LEMMA NewClaim ==
    ASSUME Keeps("no_eviction_clash"), NEW s, Good(s), NEW v \in Entries, NEW t,
           t \in {getReg(s, v), loadReg(s, v)}
    PROVE  /\ \A i \in Regs : i # t.reg_index[v] => t.register_file[i] = s.register_file[i]
           /\ t.register_file[t.reg_index[v]] = v
           /\ Unclaimed(s, v) => Claimants(t, v) = {t.reg_index[v]}
           /\ \A x \in Entries \ {v} : Unclaimed(s, x) => Unclaimed(t, x)
<1>1. Reserved(s) /\ Good(t) /\ t.reg_index[v] \in Allocatable
  BY GoodLoad DEF Good
<1>2. t.reg_index[v] \in Regs /\ t.reg_index[v] # NOT_IN_REGISTER /\ Agree(t)
  BY <1>1, RegisterFacts DEF Good
<1>3. \A i \in Regs : i # t.reg_index[v] => t.register_file[i] = s.register_file[i]
  <2> DEFINE u == getReg(s, v)
  <2>1. \A i \in Regs : i # u.reg_index[v] => u.register_file[i] = s.register_file[i]
    BY <1>1, getRegElsewhere
  <2>2. t.reg_index = u.reg_index /\ t.register_file = u.register_file
    BY <1>1, loadRegIsGetReg
  <2> QED
    BY <2>1, <2>2
<1>4. t.register_file[t.reg_index[v]] = v
  BY <1>2 DEF Agree
<1>5. Unclaimed(s, v) => Claimants(t, v) = {t.reg_index[v]}
  BY <1>2, <1>3, <1>4 DEF Unclaimed, Claimants
<1>6. \A x \in Entries \ {v} : Unclaimed(s, x) => Unclaimed(t, x)
  BY <1>2, <1>3, <1>4 DEF Unclaimed, Claimants
<1> QED
  BY <1>3, <1>4, <1>5, <1>6

-----------------------------------------------------------------------------
(* What the emitted instructions do to the values                          *)

\* x is computed into the one register that claims it.
LEMMA ComputeCurrent ==
    ASSUME NEW L \in SUBSET Vars, NEW s, NEW x \in Vars, NEW r \in Regs, NEW t,
           Current(s, L \ {x}), s.register_file[r] = x, s.reg_index[x] # NOT_IN_REGISTER,
           Claimants(s, x) = {r}, t = Compute(s, r, x)
    PROVE  Current(t, L \union {x}) /\ SlotsKept(s, t, L \ {x})
<1>1. Good(s) /\ s \in GeneratorState
  BY DEF Current, Good, Reserved
<1>2. Good(t) /\ t.reg_index = s.reg_index /\ t.register_file = s.register_file
  BY <1>1, GoodEmitted
<1>3. /\ t.reg = Update([i \in Regs |-> s.reg[i] \ {x}], r, {x})
      /\ t.mem = [c \in Cells |-> s.mem[c] \ {x}]
  BY <1>1 DEF Compute, Forget, GeneratorState, Update
<1>4. L \subseteq Cells
  BY DEF Cells
<1>5. Claimed(t, L \union {x})
  BY <1>2, <1>3 DEF Current, Claimed, Claimants, Update
<1>6. Slotted(t, L \union {x})
  BY <1>2, <1>3, <1>4 DEF Current, Slotted
<1>7. SlotsKept(s, t, L \ {x})
  BY <1>3, <1>4 DEF SlotsKept
<1> QED
  BY <1>2, <1>5, <1>6, <1>7 DEF Current

\* x is computed into its slot, and no register claims it.
LEMMA ComputeInSlotCurrent ==
    ASSUME NEW L \in SUBSET Vars, NEW s, NEW x \in Vars, NEW t,
           Current(s, L \ {x}), Unclaimed(s, x), t = ComputeInSlot(s, x)
    PROVE  /\ Current(t, L \union {x}) /\ SlotsKept(s, t, L \ {x}) /\ x \in t.mem[x]
           /\ t.reg_index = s.reg_index /\ t.register_file = s.register_file
<1>1. Good(s) /\ s \in GeneratorState
  BY DEF Current, Good, Reserved
<1>2. Good(t)
  BY <1>1, RegisterFacts, GoodEmitted
<1>3. /\ t.reg = [i \in Regs |-> s.reg[i] \ {x}]
      /\ t.mem = Update([c \in Cells |-> s.mem[c] \ {x}], x, {x})
      /\ t.reg_index = s.reg_index /\ t.register_file = s.register_file
  BY <1>1 DEF ComputeInSlot, Forget, GeneratorState, Update
<1>4. L \subseteq Cells /\ x \in Cells
  BY DEF Cells
<1>5. Claimed(t, L \union {x})
  BY <1>3 DEF Current, Claimed, Unclaimed, Claimants
<1>6. x \in t.mem[x] /\ SlotsKept(s, t, L \ {x})
  BY <1>3, <1>4 DEF SlotsKept, Update
<1>7. Slotted(t, L \union {x})
  BY <1>3, <1>6 DEF Current, Slotted, SlotsKept
<1> QED
  BY <1>2, <1>3, <1>5, <1>6, <1>7 DEF Current

\* A register no variable of L claims may be overwritten.
LEMMA GarbageCurrent ==
    ASSUME NEW L \in SUBSET Vars, NEW s, Current(s, L), NEW r \in Regs,
           s.register_file[r] \notin L, NEW t, t = Garbage(s, r)
    PROVE  /\ Current(t, L) /\ t.mem = s.mem
           /\ t.reg_index = s.reg_index /\ t.register_file = s.register_file
<1>1. Good(s) /\ s \in GeneratorState
  BY DEF Current, Good, Reserved
<1>2. Good(t)
  <2>1. CASE Entries # {}
    BY <1>1, <2>1, GoodOverwritten
  <2>2. CASE Entries = {}
    <3>1. t = WithContents(s, Update(s.reg, r, {}), s.mem)
      BY <1>1 DEF Garbage, GeneratorState, WithContents, Update
    <3>2. /\ Update(s.reg, r, {}) \in [Regs -> SUBSET Cells]
          /\ s.mem \in [Cells -> SUBSET Cells]
      BY <1>1 DEF GeneratorState, Update
    <3> QED
      BY <1>1, <3>1, <3>2, GoodContents
  <2> QED
    BY <2>1, <2>2
<1>3. /\ t.reg = Update(s.reg, r, {}) /\ t.mem = s.mem
      /\ t.reg_index = s.reg_index /\ t.register_file = s.register_file
      /\ s.reg \in [Regs -> SUBSET Cells]
  BY <1>1 DEF Garbage, GeneratorState, Update
<1>4. Claimed(t, L)
  BY <1>3 DEF Current, Claimed, Update
<1>5. Slotted(t, L)
  BY <1>3 DEF Current, Slotted
<1> QED
  BY <1>2, <1>3, <1>4, <1>5 DEF Current

\* A variable that is in its slot, or is not read again, may forget its register.
LEMMA DetachCurrent ==
    ASSUME NEW L \in SUBSET Vars, NEW s, Current(s, L), NEW v \in Entries,
           v \in L => v \in s.mem[v], NEW t, t = Detach(s, v)
    PROVE  /\ Current(t, L) /\ t.mem = s.mem /\ t.register_file = s.register_file
           /\ t.reg = s.reg
<1>1. Good(s) /\ s \in GeneratorState
  BY DEF Current, Good, Reserved
<1>2. /\ Good(t) /\ t.mem = s.mem /\ t.reg = s.reg
      /\ t.register_file = s.register_file
      /\ t.reg_index = Update(s.reg_index, v, NOT_IN_REGISTER)
      /\ s.reg_index \in [Entries -> Regs \union {NOT_IN_REGISTER}]
  BY <1>1, GoodDetach DEF Detach, GeneratorState, Update
<1>3. L \subseteq Entries
  BY DEF Entries
<1> QED
  BY <1>2, <1>3 DEF Current, Claimed, Slotted, Update

\* The register of operand y is saved, overwritten and given to x: y is found
\* in its slot from then on, x in the register.
LEMMA OverwriteCurrent ==
    ASSUME Keeps("no_eviction_clash"), NEW L \in SUBSET Vars, NEW s, Current(s, L),
           NEW r \in Allocatable, NEW x \in Vars \ L, NEW y \in L \union Consts,
           s.reg_index[y] = r, Unclaimed(s, x), NEW t, t = OverwriteOperand(s, x, y, r)
    PROVE  Current(t, L \union {x})
<1>1. Good(s) /\ s \in GeneratorState /\ r \in Regs /\ r # NOT_IN_REGISTER
  BY RegisterFacts DEF Current, Good, Reserved
<1>2. /\ x \in Entries /\ y \in Entries /\ x # y /\ x # NULL /\ L \subseteq Cells
      /\ L \subseteq Entries /\ Cell(y) \in Cells /\ SAVED_RBP \notin L
      /\ (y \in L => Cell(y) = y) /\ (y \notin L => Cell(y) = SAVED_RBP)
  BY EntriesAssumption DEF Entries, Cells, Cell, Vars
<1>3. Good(t)
  BY <1>1, <1>2, GoodOverwriteOperand
<1>4. y \in L => y \in s.reg[r]
  BY <1>1, CurrentInRegister
<1> DEFINE a == saveRegVariable(s, r, y)
           b == Compute(a, r, x)
           c == Claim(b, r, x)
<1>5. t = Detach(c, y)
  BY <1>2 DEF OverwriteOperand, setRegisterVariable
<1>6. /\ s.reg \in [Regs -> SUBSET Cells] /\ s.mem \in [Cells -> SUBSET Cells]
      /\ s.reg_index \in [Entries -> Regs \union {NOT_IN_REGISTER}]
      /\ s.register_file \in [Regs -> Entries \union {NULL}]
  BY <1>1 DEF GeneratorState
<1>7. a = [s EXCEPT !.mem = Update(s.mem, Cell(y), s.reg[r])]
  BY <1>1 DEF saveRegVariable, GeneratorState, Update
<1>8. /\ a \in GeneratorState
      /\ a.mem = Update(s.mem, Cell(y), s.reg[r]) /\ a.reg = s.reg
      /\ a.reg_index = s.reg_index /\ a.register_file = s.register_file
  <2>1. Update(s.mem, Cell(y), s.reg[r]) \in [Cells -> SUBSET Cells]
    BY <1>1, <1>2, <1>6 DEF Update
  <2> QED
    BY <1>1, <1>7, <2>1 DEF GeneratorState
<1> HIDE DEF a
<1>9. Good(a)
  BY <1>1, <1>2, GoodOverwritten DEF a
<1>10. /\ b \in GeneratorState
       /\ b.reg = Update([i \in Regs |-> s.reg[i] \ {x}], r, {x})
       /\ b.mem = [d \in Cells |-> Update(s.mem, Cell(y), s.reg[r])[d] \ {x}]
       /\ b.reg_index = s.reg_index /\ b.register_file = s.register_file
  <2>1. Good(b)
    BY <1>1, <1>9, GoodEmitted
  <2>2. b \in GeneratorState
    BY <2>1 DEF Good, Reserved
  <2> QED
    BY <1>8, <2>2 DEF Compute, Forget, GeneratorState, Update
<1> HIDE DEF b
<1>11. /\ c.reg = b.reg /\ c.mem = b.mem
       /\ c.reg_index = Update(s.reg_index, x, r)
       /\ c.register_file = Update(s.register_file, r, x)
       /\ t.reg = c.reg /\ t.mem = c.mem /\ t.register_file = c.register_file
       /\ t.reg_index = Update(c.reg_index, y, NOT_IN_REGISTER)
  <2>1. /\ c.reg = b.reg /\ c.mem = b.mem
        /\ c.reg_index = Update(s.reg_index, x, r)
        /\ c.register_file = Update(s.register_file, r, x)
        /\ c \in GeneratorState
    BY <1>1, <1>2, <1>10 DEF Claim, GeneratorState, Update
  <2> HIDE DEF c
  <2>2. /\ t.reg = c.reg /\ t.mem = c.mem /\ t.register_file = c.register_file
        /\ t.reg_index = Update(c.reg_index, y, NOT_IN_REGISTER)
    BY <1>5, <2>1 DEF Detach, GeneratorState, Update
  <2> QED
    BY <2>1, <2>2
<1> HIDE DEF c
<1>12. Claimed(t, L \union {x})
  <2> SUFFICES ASSUME NEW i \in Regs, t.register_file[i] \in L \union {x}
               PROVE  t.register_file[i] \in t.reg[i]
    BY DEF Claimed
  <2>1. CASE i = r
    BY <1>1, <1>6, <1>10, <1>11, <2>1 DEF Update
  <2>2. CASE i # r
    <3>1. t.register_file[i] = s.register_file[i]
      BY <1>6, <1>11, <2>2 DEF Update
    <3>2. s.register_file[i] # x
      BY DEF Unclaimed, Claimants
    <3>3. s.register_file[i] \in s.reg[i]
      BY <3>1, <3>2 DEF Current, Claimed
    <3>4. t.reg[i] = s.reg[i] \ {x}
      BY <1>10, <1>11, <2>2 DEF Update
    <3> QED
      BY <3>1, <3>2, <3>3, <3>4
  <2> QED
    BY <2>1, <2>2
<1>13. Slotted(t, L \union {x})
  <2> SUFFICES ASSUME NEW w \in L \union {x}, t.reg_index[w] = NOT_IN_REGISTER
               PROVE  w \in t.mem[w]
    BY DEF Slotted
  <2>1. w # x
    BY <1>1, <1>2, <1>6, <1>11 DEF Update
  <2>2. w \in L /\ t.mem[w] = Update(s.mem, Cell(y), s.reg[r])[w] \ {x}
    BY <1>2, <1>10, <1>11, <2>1
  <2>3. CASE w = y
    BY <1>2, <1>4, <1>6, <2>1, <2>2, <2>3 DEF Update
  <2>4. CASE w # y
    <3>1. s.reg_index[w] = NOT_IN_REGISTER
      BY <1>2, <1>6, <1>11, <2>1, <2>2, <2>4 DEF Update
    <3>2. w \in s.mem[w] /\ w # Cell(y)
      BY <1>2, <2>2, <2>4, <3>1 DEF Current, Slotted
    <3> QED
      BY <1>2, <1>6, <2>1, <2>2, <3>2 DEF Update
  <2> QED
    BY <2>3, <2>4
<1> QED
  BY <1>3, <1>12, <1>13 DEF Current

\* x := y for a temporary y: what holds y holds x from then on.
LEMMA CopyCurrent ==
    ASSUME Keeps("no_eviction_clash"), NEW L \in SUBSET Vars, NEW s, Current(s, L),
           NEW y \in L, NEW x \in Vars, x # y, s.reg_index[y] \in Allocatable,
           Unclaimed(s, x), NEW t,
           t = Alias(Detach(setRegisterVariable(s, s.reg_index[y], x), y), x, y)
    PROVE  Current(t, (L \ {y}) \union {x})
<1> DEFINE r == s.reg_index[y]
           c == Claim(s, r, x)
           d == Detach(c, y)
<1>1. Good(s) /\ s \in GeneratorState /\ r \in Regs /\ r # NOT_IN_REGISTER
  BY RegisterFacts DEF Current, Good, Reserved
<1>2. /\ x \in Entries /\ y \in Entries /\ x # NULL /\ L \subseteq Cells
      /\ L \subseteq Entries
  BY EntriesAssumption DEF Entries, Cells
<1>3. t = Alias(d, x, y) /\ d = Detach(setRegisterVariable(s, r, x), y)
  BY <1>2 DEF setRegisterVariable
<1>4. y \in s.reg[r]
  BY <1>1, CurrentInRegister
<1>5. /\ s.reg \in [Regs -> SUBSET Cells] /\ s.mem \in [Cells -> SUBSET Cells]
      /\ s.reg_index \in [Entries -> Regs \union {NOT_IN_REGISTER}]
      /\ s.register_file \in [Regs -> Entries \union {NULL}]
  BY <1>1 DEF GeneratorState
<1>6. Good(d)
  BY <1>1, <1>2, <1>3, GoodHandOver
<1>7. Good(t)
  BY <1>2, <1>3, <1>6, RegisterFacts, GoodEmitted
<1>8. /\ c \in GeneratorState /\ c.reg = s.reg /\ c.mem = s.mem
      /\ c.reg_index = Update(s.reg_index, x, r)
      /\ c.register_file = Update(s.register_file, r, x)
  BY <1>1, <1>2 DEF Claim, GeneratorState, Update
<1> HIDE DEF c
<1>9. /\ d \in GeneratorState /\ d.reg = s.reg /\ d.mem = s.mem
      /\ d.register_file = Update(s.register_file, r, x)
      /\ d.reg_index = Update(c.reg_index, y, NOT_IN_REGISTER)
  BY <1>2, <1>8 DEF Detach, GeneratorState, Update
<1> HIDE DEF d
<1> DEFINE with(S) == IF y \in S THEN S \union {x} ELSE S \ {x}
<1>10. /\ t.reg = [i \in Regs |-> with(s.reg[i])]
       /\ t.mem = [e \in Cells |-> with(s.mem[e])]
       /\ t.register_file = d.register_file /\ t.reg_index = d.reg_index
  BY <1>3, <1>9 DEF Alias, GeneratorState
<1>11. ASSUME NEW i \in Regs, t.register_file[i] \in (L \ {y}) \union {x}
       PROVE  t.register_file[i] \in t.reg[i]
  <2>1. CASE i = r
    BY <1>1, <1>4, <1>5, <1>9, <1>10, <2>1 DEF Update
  <2>2. CASE i # r
    <3>1. t.register_file[i] = s.register_file[i]
      BY <1>5, <1>9, <1>10, <2>2 DEF Update
    <3>2. s.register_file[i] # x
      BY DEF Unclaimed, Claimants
    <3>3. s.register_file[i] \in s.reg[i]
      BY <1>11, <3>1, <3>2 DEF Current, Claimed
    <3> QED
      BY <1>10, <3>1, <3>2, <3>3
  <2> QED
    BY <2>1, <2>2
<1>12. ASSUME NEW w \in (L \ {y}) \union {x}, t.reg_index[w] = NOT_IN_REGISTER
       PROVE  w \in t.mem[w]
  <2>1. w # x
    BY <1>1, <1>2, <1>5, <1>8, <1>9, <1>10, <1>12 DEF Update
  <2>2. s.reg_index[w] = NOT_IN_REGISTER
    BY <1>2, <1>5, <1>8, <1>9, <1>10, <1>12, <2>1 DEF Update
  <2>3. w \in s.mem[w]
    BY <2>1, <2>2 DEF Current, Slotted
  <2> QED
    BY <1>2, <1>10, <2>1, <2>3
<1> QED
  BY <1>7, <1>11, <1>12 DEF Current, Claimed, Slotted

\* A constant moved into a register of its own, or a variable loaded.
LEMMA loadOperandCurrent ==
    ASSUME Keeps("no_eviction_clash"), NEW L \in SUBSET Vars, NEW s, Current(s, L),
           NEW v \in Vars \union Consts, NEW t, t = loadOperand(s, v)
    PROVE  /\ Current(t, L) /\ SlotsKept(s, t, L)
           /\ t.reg_index[v] \in Allocatable /\ t.register_file[t.reg_index[v]] = v
           /\ v \in L => v \in t.reg[t.reg_index[v]]
           /\ \A i \in Regs : i # t.reg_index[v] => t.register_file[i] = s.register_file[i]
           /\ \A x \in Entries \ {v} : Unclaimed(s, x) => Unclaimed(t, x)
<1>1. Good(s) /\ v \in Entries
  BY DEF Current, Entries
<1>2. CASE v \notin Consts
  <2>1. t = loadReg(s, v) /\ v \in Vars
    BY <1>2 DEF loadOperand
  <2> QED
    BY <1>1, <2>1, loadRegCurrent, NewClaim
<1>3. CASE v \in Consts
  <2> DEFINE a == getReg(s, v)
             r == a.reg_index[v]
             b == Garbage(a, r)
  <2>1. v \notin L /\ v # NULL /\ L \ {v} = L
    BY <1>1, <1>3, EntriesAssumption
  <2>2. t = Claim(b, r, v)
    BY <1>3, <2>1 DEF loadOperand, setRegisterVariable
  <2>3. a = getReg(s, v)
    OBVIOUS
  <2>4. /\ \A i \in Regs : i # r => a.register_file[i] = s.register_file[i]
        /\ a.register_file[r] = v
        /\ \A x \in Entries \ {v} : Unclaimed(s, x) => Unclaimed(a, x)
    BY <1>1, NewClaim
  <2> HIDE DEF a
  <2>5. Current(a, L) /\ SlotsKept(s, a, L) /\ r \in Allocatable /\ r \in Regs
    <3>1. Current(a, L \ {v}) /\ SlotsKept(s, a, L) /\ r \in Allocatable
      BY <1>1, <2>3, getRegCurrent
    <3> QED
      BY <2>1, <3>1, RegisterFacts
  <2>6. /\ Current(b, L) /\ b.mem = a.mem /\ b.reg_index = a.reg_index
        /\ b.register_file = a.register_file
    BY <2>1, <2>4, <2>5, GarbageCurrent
  <2> HIDE DEF b
  <2>7. b \in GeneratorState
    BY <2>6 DEF Current, Good, Reserved
  <2>8. /\ t.reg = b.reg /\ t.mem = b.mem
        /\ t.reg_index = Update(b.reg_index, v, r)
        /\ t.register_file = Update(b.register_file, r, v)
    BY <1>1, <2>2, <2>5, <2>7 DEF Claim, GeneratorState, Update
  <2>9. t.reg_index = b.reg_index /\ t.register_file = b.register_file
    BY <1>1, <2>4, <2>5, <2>6, <2>7, <2>8 DEF Update, GeneratorState
  <2>10. Good(t)
    <3>1. Good(setRegisterVariable(b, b.reg_index[v], v))
      BY <1>1, <2>5, <2>6, GoodReclaim DEF Current
    <3> QED
      BY <2>1, <2>2, <2>6, <3>1 DEF setRegisterVariable
  <2>11. Current(t, L)
    BY <2>6, <2>8, <2>9, <2>10 DEF Current, Claimed, Slotted
  <2>12. SlotsKept(s, t, L)
    BY <2>5, <2>6, <2>8 DEF SlotsKept
  <2>13. \A x \in Entries \ {v} : Unclaimed(s, x) => Unclaimed(t, x)
    BY <2>4, <2>6, <2>9 DEF Unclaimed, Claimants
  <2> QED
    BY <2>1, <2>4, <2>5, <2>6, <2>9, <2>11, <2>12, <2>13
<1> QED
  BY <1>2, <1>3

-----------------------------------------------------------------------------
(* Flushes, leaders and the end of an instruction                          *)

\* freeAllRegs leaves every value in its slot, whatever claims were stale.
LEMMA FlushCurrent ==
    ASSUME Keeps("no_eviction_clash"), NEW L \in SUBSET Vars, NEW s, Current(s, L),
           NEW t, t = freeAllRegs(s)
    PROVE  Current(t, L) /\ InMemory(t, L) /\ AllFree(t)
<1>1. Good(s) /\ s \in GeneratorState
  BY DEF Current, Good, Reserved
<1>2. Good(t) /\ AllFree(t)
  BY <1>1, GoodFlush DEF AllFree
<1>3. t.mem = [c \in Cells |-> IF c \in Vars /\ Claimants(s, c) # {}
                                THEN s.reg[Greatest(Claimants(s, c))] ELSE s.mem[c]]
  BY <1>1 DEF freeAllRegs, GeneratorState
<1>4. ASSUME NEW v \in L PROVE v \in t.mem[v]
  <2>1. v \in Cells /\ v \in Vars /\ v \in Entries /\ v # NULL
    BY EntriesAssumption DEF Cells, Entries
  <2>2. CASE Claimants(s, v) = {}
    <3>1. s.reg_index[v] = NOT_IN_REGISTER
      BY <1>1, <2>1, <2>2, UnclaimedOutside DEF Unclaimed
    <3> QED
      BY <1>3, <2>1, <2>2, <3>1 DEF Current, Slotted
  <2>3. CASE Claimants(s, v) # {}
    <3>1. Claimants(s, v) \in SUBSET Regs
      BY DEF Claimants
    <3>2. Greatest(Claimants(s, v)) \in Claimants(s, v)
      BY <2>3, <3>1, GreatestIn
    <3>3. v \in s.reg[Greatest(Claimants(s, v))]
      BY <3>2 DEF Claimants, Current, Claimed
    <3> QED
      BY <1>3, <2>1, <2>3, <3>3
  <2> QED
    BY <2>2, <2>3
<1>5. Claimed(t, L)
  BY <1>2, EntriesAssumption DEF AllFree, Claimed, Entries
<1>6. Slotted(t, L)
  BY <1>4 DEF Slotted
<1> QED
  BY <1>2, <1>4, <1>5, <1>6 DEF Current, InMemory

\* With no register claimed, a call or a leader costs nothing.
LEMMA FreeKeepsCurrent ==
    ASSUME NEW L \in SUBSET Vars, NEW s, Current(s, L), InMemory(s, L), AllFree(s)
    PROVE  /\ Current(Clobber(s), L) /\ InMemory(Clobber(s), L) /\ AllFree(Clobber(s))
           /\ Current(Join(s), L) /\ InMemory(Join(s), L) /\ AllFree(Join(s))
<1>1. Good(s) /\ s \in GeneratorState /\ L \subseteq Cells /\ NULL \notin L
  BY EntriesAssumption DEF Current, Good, Reserved, Cells, Entries
<1>2. /\ Good(Clobber(s)) /\ Clobber(s).mem = s.mem
      /\ Clobber(s).register_file = s.register_file
  BY <1>1, GoodClobber DEF Clobber, GeneratorState
<1>3. /\ Good(Join(s)) /\ Join(s).mem = [c \in Cells |-> s.mem[c] \intersect {c}]
      /\ Join(s).register_file = s.register_file
  BY <1>1, GoodJoin DEF Join, GeneratorState
<1>4. Current(Clobber(s), L) /\ InMemory(Clobber(s), L) /\ AllFree(Clobber(s))
  BY <1>1, <1>2 DEF Current, Claimed, Slotted, InMemory, AllFree
<1>5. InMemory(Join(s), L)
  BY <1>1, <1>3 DEF InMemory
<1>6. Current(Join(s), L) /\ AllFree(Join(s))
  BY <1>1, <1>3, <1>5 DEF Current, Claimed, Slotted, InMemory, AllFree
<1> QED
  BY <1>4, <1>5, <1>6

\* Every operand of the IR so far was read where its value was, and the next
\* instruction finds every value it may ask for.
Kept == FileInOrder /\ Current(cg, Readable) /\ stale = {}

\* The names the environment may use.
LEMMA NameFacts ==
    ASSUME Kept
    PROVE  /\ Readable \in SUBSET Vars /\ Locals \subseteq Vars /\ Temps \subseteq Vars
           /\ Vars \subseteq Entries /\ Locals \subseteq Readable /\ live \in SUBSET Temps
           /\ \A x : FreshTemp(x) => /\ x \in Vars /\ x \in Entries /\ x \in Temps
                                     /\ x \notin Readable /\ Unclaimed(cg, x)
BY EntriesAssumption
   DEF Kept, FileInOrder, Readable, Vars, Entries, FreshTemp, Unclaimed

\* An instruction starts with every value in place, a leader or not, and with
\* no new claim.
LEMMA StartCurrent ==
    ASSUME Keeps("no_eviction_clash"), Kept
    PROVE  \A s0 \in AtStart : /\ Current(s0, Readable) /\ Good(s0)
                               /\ \A x \in Entries : Unclaimed(cg, x) => Unclaimed(s0, x)
<1> DEFINE t == freeAllRegs(cg)
<1>1. Current(cg, Readable) /\ Readable \in SUBSET Vars
  BY NameFacts DEF Kept
<1>2. t = freeAllRegs(cg)
  OBVIOUS
<1> HIDE DEF t
<1>3. Current(t, Readable) /\ InMemory(t, Readable) /\ AllFree(t)
  BY <1>1, <1>2, FlushCurrent
<1>4. Current(Join(t), Readable) /\ AllFree(Join(t))
  BY <1>1, <1>3, FreeKeepsCurrent
<1>5. \A x \in Entries : Unclaimed(Join(t), x)
  BY <1>4, EntriesAssumption DEF AllFree, Unclaimed, Claimants
<1>6. \A s0 \in AtStart : s0 = Join(t) \/ s0 = cg
  BY <1>2 DEF AtStart
<1> QED
  BY <1>1, <1>4, <1>5, <1>6 DEF Current

\* The state an instruction leaves holds what its handler's does.
LEMMA EmitCurrent ==
    ASSUME NEW nowLive \in SUBSET Temps, NEW s, Current(s, Locals \union nowLive),
           NEW wrong, Emit(s, wrong, nowLive), wrong = {}
    PROVE  /\ Kept'
           /\ InMemory(s, Locals \union nowLive) => InMemory(cg, Readable)'
           /\ AllFree(s) => AllFree(cg)'
<1> DEFINE kept == Locals \union nowLive \union {SAVED_RBP}
           used(i) == s.register_file[i] # NULL \/ \E e \in Entries : s.reg_index[e] = i
           rg == [i \in Regs |-> IF used(i) THEN s.reg[i] \intersect kept ELSE {}]
           m == [d \in Cells |-> IF d \in kept THEN s.mem[d] \intersect kept ELSE {}]
           K == Locals \union nowLive
<1>1. Good(s) /\ s \in GeneratorState
  BY DEF Current, Good, Reserved
<1>2. FileInOrder'
  BY <1>1, EmitKeeps
<1>3. live' = nowLive /\ stale' = {} /\ Readable' = K
  BY DEF Emit, Readable
<1>4. cg' = [s EXCEPT !.reg = rg, !.mem = m]
  BY DEF Emit
<1>5. K \subseteq Cells /\ NULL \notin K /\ K \subseteq kept
  BY EntriesAssumption DEF Cells, Entries, Vars
<1>6. \A i \in Regs : s.register_file[i] \in K => rg[i] = s.reg[i] \intersect kept
  BY <1>5
<1>7. \A d \in K : m[d] = s.mem[d] \intersect kept
  BY <1>5
<1> HIDE DEF rg, m, kept
<1>8. /\ cg'.reg = rg /\ cg'.mem = m /\ cg'.reg_index = s.reg_index
      /\ cg'.register_file = s.register_file
  BY <1>1, <1>4 DEF GeneratorState
<1>9. Claimed(cg', K)
  BY <1>5, <1>6, <1>8 DEF Current, Claimed
<1>10. Slotted(cg', K)
  BY <1>5, <1>7, <1>8 DEF Current, Slotted
<1>11. InMemory(s, K) => InMemory(cg', K)
  BY <1>5, <1>7, <1>8 DEF InMemory
<1>12. AllFree(s) => AllFree(cg')
  BY <1>8 DEF AllFree
<1>13. Good(cg')
  BY <1>1, GoodEmit
<1>14. Current(cg', K)
  BY <1>9, <1>10, <1>13 DEF Current
<1>15. Current(cg, Readable)' = Current(cg', K)
  BY <1>3 DEF Current, Good, Claimed, Slotted, Reserved, Agree, Keeps
<1>16. InMemory(cg, Readable)' = InMemory(cg', K) /\ AllFree(cg)' = AllFree(cg')
  BY <1>3 DEF InMemory, AllFree
<1> QED
  BY <1>2, <1>3, <1>11, <1>12, <1>14, <1>15, <1>16 DEF Kept

-----------------------------------------------------------------------------
(* Each instruction keeps every value in place                             *)

\* The IR keeps all the disciplines.
Disciplined == Disciplines = DisciplineSet

\* So each of them may be assumed.
LEMMA EveryDiscipline == Disciplined => \A d \in DisciplineSet : Keeps(d)
BY DEF Disciplined, Keeps

\* x := c.
LEMMA AssignConstCurrent ==
    ASSUME Disciplined, Kept, NEW x \in Locals, AssignConst(x)
    PROVE  Kept'
<1>0. Keeps("no_eviction_clash") /\ Keeps("fresh_targets")
  BY EveryDiscipline DEF DisciplineSet
<1>1. PICK s0 \in AtStart :
        LET s1 == getReg(s0, x)
        IN  /\ Claimants(s1, x) = {s1.reg_index[x]}
            /\ Emit(Compute(s1, s1.reg_index[x], x), {}, live)
  BY <1>0 DEF AssignConst
<1> DEFINE s1 == getReg(s0, x)
           r  == s1.reg_index[x]
           s2 == Compute(s1, r, x)
<1>2. /\ x \in Vars /\ x \in Entries /\ live \in SUBSET Temps /\ Readable \in SUBSET Vars
      /\ Readable \union {x} = Readable /\ Readable = Locals \union live
  BY NameFacts DEF Readable
<1>3. Current(s0, Readable) /\ Good(s0)
  BY <1>0, StartCurrent
<1>4. s1 = getReg(s0, x) /\ s2 = Compute(s1, r, x) /\ Emit(s2, {}, live)
      /\ Claimants(s1, x) = {r}
  BY <1>1
<1> HIDE DEF s1
<1>5. Current(s1, Readable \ {x}) /\ r \in Allocatable
  BY <1>2, <1>3, <1>4, getRegCurrent
<1>6. r \in Regs /\ r # NOT_IN_REGISTER /\ s1.register_file[r] = x
  BY <1>0, <1>2, <1>3, <1>4, <1>5, NewClaim, RegisterFacts
<1> HIDE DEF s2
<1>7. Current(s2, Readable \union {x})
  BY <1>2, <1>4, <1>5, <1>6, ComputeCurrent
<1> QED
  BY <1>2, <1>4, <1>7, EmitCurrent

\* x := "...": the register chosen before the flush is claimed after it.
LEMMA AssignStringCurrent ==
    ASSUME Disciplined, Kept, NEW x \in Locals, AssignString(x)
    PROVE  Kept'
<1>0. Keeps("no_eviction_clash")
  BY EveryDiscipline DEF DisciplineSet
<1>1. PICK s0 \in AtStart :
        LET s1 == getReg(s0, x)
            r  == s1.reg_index[x]
            s2 == Clobber(freeAllRegs(s1))
        IN  Emit(Compute(setRegisterVariable(s2, r, x), r, x), {}, live)
  BY DEF AssignString
<1> DEFINE s1 == getReg(s0, x)
           r  == s1.reg_index[x]
           f  == freeAllRegs(s1)
           s2 == Clobber(f)
           s3 == Claim(s2, r, x)
           s4 == Compute(s3, r, x)
           L  == Readable \ {x}
<1>2. /\ x \in Vars /\ x \in Entries /\ x # NULL /\ live \in SUBSET Temps
      /\ Readable \in SUBSET Vars /\ L \in SUBSET Vars /\ L \ {x} = L
      /\ Readable \union {x} = Readable /\ Readable = Locals \union live
  BY NameFacts, EntriesAssumption DEF Readable
<1>3. Current(s0, Readable) /\ Good(s0)
  BY <1>0, StartCurrent
<1>4. /\ s1 = getReg(s0, x) /\ f = freeAllRegs(s1) /\ s2 = Clobber(f)
      /\ s3 = Claim(s2, r, x) /\ s4 = Compute(s3, r, x) /\ Emit(s4, {}, live)
  BY <1>1, <1>2 DEF setRegisterVariable
<1> HIDE DEF s1, L
<1>5. Current(s1, L) /\ r \in Allocatable
  BY <1>2, <1>3, <1>4, getRegCurrent DEF L
<1> HIDE DEF f
<1>6. Current(f, L) /\ InMemory(f, L) /\ AllFree(f)
  BY <1>0, <1>2, <1>4, <1>5, FlushCurrent
<1> HIDE DEF s2
<1>7. Current(s2, L) /\ AllFree(s2)
  BY <1>2, <1>4, <1>6, FreeKeepsCurrent
<1>8. r \in Regs /\ s2.register_file[r] = NULL /\ Good(s2) /\ r # NOT_IN_REGISTER
  BY <1>5, <1>7, RegisterFacts DEF AllFree, Current
<1> HIDE DEF s3, r
<1>9. Current(s3, L \ {x})
  BY <1>2, <1>4, <1>5, <1>7, <1>8, ClaimCurrent
<1>10. /\ s3.register_file = Update(s2.register_file, r, x)
       /\ s3.reg_index = Update(s2.reg_index, x, r)
  BY <1>2, <1>4, <1>5, <1>8, ClaimKeeps DEF Good
<1>11. /\ s3.register_file[r] = x /\ s3.reg_index[x] # NOT_IN_REGISTER
       /\ Claimants(s3, x) = {r}
  BY <1>2, <1>7, <1>8, <1>10
     DEF Update, Claimants, AllFree, Good, Reserved, GeneratorState
<1> HIDE DEF s4
<1>12. Current(s4, Readable \union {x})
  BY <1>2, <1>4, <1>8, <1>9, <1>11, ComputeCurrent DEF L
<1> QED
  BY <1>2, <1>4, <1>12, EmitCurrent

\* x := y, y a temporary that is not read again and x in no register.
LEMMA AssignCopyCurrent ==
    ASSUME Disciplined, Kept, NEW x \in Locals, NEW y \in Readable, AssignCopy(x, y)
    PROVE  Kept'
<1>0. Keeps("no_eviction_clash") /\ Keeps("fresh_targets") /\ Keeps("copies_temporaries")
  BY EveryDiscipline DEF DisciplineSet
<1>1. PICK s0 \in AtStart :
        LET s1 == loadReg(s0, y)
            r  == s1.reg_index[y]
            s2 == Detach(setRegisterVariable(s1, r, x), y)
        IN  /\ Claimants(s1, x) = {}
            /\ Emit(Alias(s2, x, y), Missing(s1, {y}), live \ {y})
  BY <1>0 DEF AssignCopy
<1> DEFINE s1 == loadReg(s0, y)
           t == Alias(Detach(setRegisterVariable(s1, s1.reg_index[y], x), y), x, y)
           wrong == Missing(s1, {y})
<1>2. /\ x \in Vars /\ x # y /\ live \ {y} \in SUBSET Temps /\ Readable \in SUBSET Vars
      /\ (Readable \ {y}) \union {x} = Locals \union (live \ {y}) /\ y \in Vars
  BY <1>0, NameFacts, EntriesAssumption DEF Readable, AssignCopy
<1>3. Current(s0, Readable)
  BY <1>0, StartCurrent
<1>4. /\ s1 = loadReg(s0, y) /\ Unclaimed(s1, x) /\ Emit(t, wrong, live \ {y})
      /\ t = Alias(Detach(setRegisterVariable(s1, s1.reg_index[y], x), y), x, y)
  BY <1>1 DEF Unclaimed
<1>5. wrong = Missing(s1, {y})
  OBVIOUS
<1> HIDE DEF s1, t, wrong
<1>6. /\ Current(s1, Readable) /\ s1.reg_index[y] \in Allocatable
      /\ y \in s1.reg[s1.reg_index[y]]
  BY <1>0, <1>2, <1>3, <1>4, loadRegCurrent
<1>7. wrong = {}
  BY <1>5, <1>6 DEF Missing
<1>8. Current(t, (Readable \ {y}) \union {x})
  BY <1>0, <1>2, <1>4, <1>6, CopyCurrent
<1> QED
  BY <1>2, <1>4, <1>7, <1>8, EmitCurrent

\* A folded operation: x is a new temporary.
LEMMA BinaryFoldCurrent ==
    ASSUME Disciplined, Kept, NEW x \in Temps, BinaryFold(x)
    PROVE  Kept'
<1>0. Keeps("no_eviction_clash")
  BY EveryDiscipline DEF DisciplineSet
<1>1. PICK s0 \in AtStart :
        LET s1 == getReg(s0, x) IN Emit(Compute(s1, s1.reg_index[x], x), {}, live \union {x})
  BY DEF BinaryFold
<1> DEFINE s1 == getReg(s0, x)
           r  == s1.reg_index[x]
           s2 == Compute(s1, r, x)
<1>2. /\ x \in Vars /\ x \in Entries /\ live \union {x} \in SUBSET Temps
      /\ Readable \in SUBSET Vars /\ Unclaimed(cg, x)
      /\ Readable \union {x} = Locals \union (live \union {x})
  BY NameFacts DEF Readable, BinaryFold
<1>3. Current(s0, Readable) /\ Good(s0) /\ Unclaimed(s0, x)
  BY <1>0, <1>2, StartCurrent
<1>4. s1 = getReg(s0, x) /\ s2 = Compute(s1, r, x) /\ Emit(s2, {}, live \union {x})
  BY <1>1
<1> HIDE DEF s1
<1>5. Current(s1, Readable \ {x}) /\ r \in Allocatable
  BY <1>2, <1>3, <1>4, getRegCurrent
<1>6. r \in Regs /\ r # NOT_IN_REGISTER /\ s1.register_file[r] = x /\ Claimants(s1, x) = {r}
  BY <1>0, <1>2, <1>3, <1>4, <1>5, NewClaim, RegisterFacts
<1> HIDE DEF s2
<1>7. Current(s2, Readable \union {x})
  BY <1>2, <1>4, <1>5, <1>6, ComputeCurrent
<1> QED
  BY <1>2, <1>4, <1>7, EmitCurrent

\* Two variable operands.
LEMMA BinaryVarsCurrent ==
    ASSUME Disciplined, Kept, NEW x \in Temps, NEW y \in Readable, NEW z \in Readable,
           NEW dead, BinaryVars(x, y, z, dead)
    PROVE  Kept'
<1>0. Keeps("no_eviction_clash")
  BY EveryDiscipline DEF DisciplineSet
<1>1. PICK s0 \in AtStart :
         LET s1 == loadReg(s0, y)
             ry == s1.reg_index[y]
             s2 == loadReg(s1, z)
         IN  /\ s2.reg_index[y] = ry
             /\ Emit(OverwriteOperand(s2, x, y, ry),
                     {v \in {y} : v \notin s2.reg[ry]} \union Missing(s2, {z}),
                     (live \ dead) \union {x})
  BY <1>0 DEF BinaryVars
<1> DEFINE s1 == loadReg(s0, y)
           ry == s1.reg_index[y]
           s2 == loadReg(s1, z)
           t == OverwriteOperand(s2, x, y, ry)
           wrong == {v \in {y} : v \notin s2.reg[ry]} \union Missing(s2, {z})
           nowLive == (live \ dead) \union {x}
<1>2. /\ x \in Vars \ Readable /\ nowLive \in SUBSET Temps /\ Readable \in SUBSET Vars
      /\ Locals \union nowLive \subseteq Readable \union {x} /\ y \in Vars /\ z \in Vars
      /\ Unclaimed(cg, x) /\ x \in Entries \ {y, z} /\ y \in Entries /\ z \in Entries
  BY NameFacts DEF Readable, BinaryVars
<1>3. Current(s0, Readable) /\ Good(s0) /\ Unclaimed(s0, x)
  BY <1>0, <1>2, StartCurrent
<1>4. /\ s1 = loadReg(s0, y) /\ s2 = loadReg(s1, z) /\ s2.reg_index[y] = ry
      /\ t = OverwriteOperand(s2, x, y, ry) /\ Emit(t, wrong, nowLive)
      /\ wrong = {v \in {y} : v \notin s2.reg[ry]} \union Missing(s2, {z})
  BY <1>1
<1> HIDE DEF s1, t, wrong, nowLive
<1>5. Current(s1, Readable) /\ ry \in Allocatable /\ Good(s1) /\ Unclaimed(s1, x)
  BY <1>0, <1>2, <1>3, <1>4, loadRegCurrent, NewClaim DEF Current
<1> HIDE DEF s2, ry
<1>6. Current(s2, Readable) /\ z \in s2.reg[s2.reg_index[z]] /\ Unclaimed(s2, x)
  BY <1>0, <1>2, <1>4, <1>5, loadRegCurrent, NewClaim
<1>7. y \in s2.reg[ry]
  BY <1>0, <1>2, <1>4, <1>5, <1>6, CurrentInRegister, RegisterFacts
<1>8. wrong = {}
  BY <1>4, <1>6, <1>7 DEF Missing
<1>9. Current(t, Readable \union {x})
  BY <1>0, <1>2, <1>4, <1>5, <1>6, OverwriteCurrent
<1>10. Current(t, Locals \union nowLive)
  BY <1>2, <1>9, CurrentLess
<1> QED
  BY <1>2, <1>4, <1>8, <1>10, EmitCurrent

\* One variable operand.
LEMMA OneOperandCurrent ==
    ASSUME Disciplined, Kept, NEW x \in Temps, NEW y \in Readable, NEW dead,
           OneOperand(x, y, dead)
    PROVE  Kept'
<1>0. Keeps("no_eviction_clash")
  BY EveryDiscipline DEF DisciplineSet
<1>1. PICK s0 \in AtStart :
         LET s1 == loadReg(s0, y)
         IN  Emit(OverwriteOperand(s1, x, y, s1.reg_index[y]),
                  Missing(s1, {y}), (live \ dead) \union {x})
  BY DEF OneOperand
<1> DEFINE s1 == loadReg(s0, y)
           ry == s1.reg_index[y]
           t == OverwriteOperand(s1, x, y, ry)
           wrong == Missing(s1, {y})
           nowLive == (live \ dead) \union {x}
<1>2. /\ x \in Vars \ Readable /\ nowLive \in SUBSET Temps /\ Readable \in SUBSET Vars
      /\ Locals \union nowLive \subseteq Readable \union {x} /\ y \in Vars
      /\ Unclaimed(cg, x) /\ x \in Entries \ {y} /\ y \in Entries
  BY NameFacts DEF Readable, OneOperand
<1>3. Current(s0, Readable) /\ Good(s0) /\ Unclaimed(s0, x)
  BY <1>0, <1>2, StartCurrent
<1>4. /\ s1 = loadReg(s0, y) /\ t = OverwriteOperand(s1, x, y, ry)
      /\ Emit(t, wrong, nowLive) /\ wrong = Missing(s1, {y})
  BY <1>1
<1> HIDE DEF s1, t, wrong, nowLive
<1>5. /\ Current(s1, Readable) /\ ry \in Allocatable /\ Unclaimed(s1, x)
      /\ y \in s1.reg[ry]
  BY <1>0, <1>2, <1>3, <1>4, loadRegCurrent, NewClaim
<1>6. wrong = {}
  BY <1>4, <1>5 DEF Missing
<1>7. Current(t, Readable \union {x})
  BY <1>0, <1>2, <1>4, <1>5, OverwriteCurrent
<1>8. Current(t, Locals \union nowLive)
  BY <1>2, <1>7, CurrentLess
<1> QED
  BY <1>2, <1>4, <1>6, <1>8, EmitCurrent

\* c - z: z stays in its register while c gets one.
LEMMA ConstMinusVarCurrent ==
    ASSUME Disciplined, Kept, NEW x \in Temps, NEW c \in Consts, NEW z \in Readable,
           NEW dead, ConstMinusVar(x, c, z, dead)
    PROVE  Kept'
<1>0. Keeps("no_eviction_clash")
  BY EveryDiscipline DEF DisciplineSet
<1>1. PICK s0 \in AtStart :
         LET s1 == loadReg(s0, z)
             rz == s1.reg_index[z]
             s2 == getReg(s1, c)
             rc == s2.reg_index[c]
         IN  /\ rc # rz
             /\ Emit(OverwriteOperand(Garbage(s2, rc), x, c, rc),
                     {v \in {z} : v \notin Garbage(s2, rc).reg[rz]},
                     (live \ dead) \union {x})
  BY <1>0 DEF ConstMinusVar
<1> DEFINE s1 == loadReg(s0, z)
           rz == s1.reg_index[z]
           s2 == getReg(s1, c)
           rc == s2.reg_index[c]
           s3 == Garbage(s2, rc)
           t == OverwriteOperand(s3, x, c, rc)
           wrong == {v \in {z} : v \notin s3.reg[rz]}
           nowLive == (live \ dead) \union {x}
<1>2. /\ x \in Vars \ Readable /\ nowLive \in SUBSET Temps /\ Readable \in SUBSET Vars
      /\ Locals \union nowLive \subseteq Readable \union {x} /\ z \in Vars
      /\ Unclaimed(cg, x) /\ x \in Entries \ {z, c} /\ z \in Entries
      /\ c \in Entries /\ c \notin Readable /\ Readable \ {c} = Readable
  BY NameFacts, EntriesAssumption DEF Readable, ConstMinusVar, Entries
<1>3. Current(s0, Readable) /\ Good(s0) /\ Unclaimed(s0, x)
  BY <1>0, <1>2, StartCurrent
<1>4. /\ s1 = loadReg(s0, z) /\ s2 = getReg(s1, c) /\ s3 = Garbage(s2, rc)
      /\ t = OverwriteOperand(s3, x, c, rc) /\ Emit(t, wrong, nowLive) /\ rc # rz
      /\ wrong = {v \in {z} : v \notin s3.reg[rz]}
  BY <1>1
<1> HIDE DEF s1, t, wrong, nowLive
<1>5. /\ Current(s1, Readable) /\ rz \in Allocatable /\ Unclaimed(s1, x)
      /\ s1.register_file[rz] = z /\ Good(s1) /\ rz \in Regs
  BY <1>0, <1>2, <1>3, <1>4, loadRegCurrent, NewClaim, RegisterFacts DEF Current
<1> HIDE DEF s2, rz
<1>6. Current(s2, Readable) /\ rc \in Allocatable /\ rc \in Regs
  <2>1. Current(s2, Readable \ {c}) /\ rc \in Allocatable
    BY <1>2, <1>4, <1>5, getRegCurrent
  <2> QED
    BY <1>2, <2>1, RegisterFacts
<1>7. s2.register_file[rc] = c /\ s2.register_file[rz] = z /\ Unclaimed(s2, x)
  BY <1>0, <1>2, <1>4, <1>5, NewClaim
<1> HIDE DEF s3
<1>8. /\ Current(s3, Readable) /\ s3.reg_index = s2.reg_index
      /\ s3.register_file = s2.register_file
  BY <1>2, <1>4, <1>6, <1>7, GarbageCurrent
<1>9. z \in s3.reg[rz]
  BY <1>5, <1>7, <1>8 DEF Current, Claimed
<1>10. wrong = {} /\ Unclaimed(s3, x) /\ s3.reg_index[c] = rc
  BY <1>4, <1>7, <1>8, <1>9 DEF Unclaimed, Claimants
<1> HIDE DEF rc
<1>11. Current(t, Readable \union {x})
  BY <1>0, <1>2, <1>4, <1>6, <1>8, <1>10, OverwriteCurrent
<1>12. Current(t, Locals \union nowLive)
  BY <1>2, <1>11, CurrentLess
<1> QED
  BY <1>2, <1>4, <1>10, <1>12, EmitCurrent

\* %rax and %rdx are never claimed, so freeing them before and after a
\* division emits nothing.
LEMMA FreeReserved ==
    ASSUME NEW s, Good(s)
    PROVE  freeReg(s, RAX_INDEX) = s /\ freeReg(s, RDX_INDEX) = s
BY DEF Good, Reserved, freeReg

\* y / z and y rem z: the dividend loses its register without a store.
LEMMA DivideCurrent ==
    ASSUME Disciplined, Kept, NEW x \in Temps, NEW y \in Operands, NEW z \in Operands,
           NEW dead \in SUBSET live, Divide(x, y, z, dead)
    PROVE  Kept'
<1>0. Keeps("no_eviction_clash") /\ Keeps("clean_dividends")
  BY EveryDiscipline DEF DisciplineSet
<1> DEFINE load(s, v) == IF v \in Consts THEN s ELSE loadReg(s, v)
           free2(s) == freeReg(freeReg(s, RAX_INDEX), RDX_INDEX)
<1>1. PICK s0 \in AtStart :
        LET s1 == load(load(s0, y), z)
            s2 == load(free2(s1), y)
            wy == IF y \in Consts THEN {} ELSE Missing(s2, {y})
            s3 == loadOperand(s2, z)
            wz == IF z \in Consts THEN {} ELSE Missing(s3, {z})
            s4 == ComputeInSlot(Garbage(Garbage(s3, RAX_INDEX), RDX_INDEX), x)
        IN  /\ CleanDividend(s3, y, dead)
            /\ Emit(Detach(Detach(free2(s4), y), x), wy \union wz, (live \ dead) \union {x})
  BY <1>0 DEF Divide, loadOperand
<1> DEFINE s1 == load(load(s0, y), z)
           s2 == load(free2(s1), y)
           wy == IF y \in Consts THEN {} ELSE Missing(s2, {y})
           s3 == loadOperand(s2, z)
           wz == IF z \in Consts THEN {} ELSE Missing(s3, {z})
           g1 == Garbage(s3, RAX_INDEX)
           g2 == Garbage(g1, RDX_INDEX)
           s4 == ComputeInSlot(g2, x)
           d1 == Detach(free2(s4), y)
           d2 == Detach(d1, x)
           wrong == wy \union wz
           nowLive == (live \ dead) \union {x}
           L == Locals \union nowLive
<1>2. /\ x \in Vars \ Readable /\ nowLive \in SUBSET Temps /\ Readable \in SUBSET Vars
      /\ Unclaimed(cg, x) /\ x \in Entries \ {y, z} /\ x \in Entries
      /\ y \in Entries /\ z \in Entries /\ z \in Vars \union Consts
      /\ (y \notin Consts => y \in Vars /\ y \in Readable)
      /\ (z \notin Consts => z \in Vars /\ z \in Readable)
      /\ L \subseteq Readable \union {x} /\ L \in SUBSET Vars
      /\ (y \in L => y \in Readable \ dead) /\ Readable \ {x} = Readable
  BY NameFacts, EntriesAssumption DEF Readable, Divide, Operands, Vars, Entries
<1>3. Current(s0, Readable) /\ Unclaimed(s0, x)
  BY <1>0, <1>2, StartCurrent
<1>4. ASSUME NEW s, NEW v \in {y, z}, Current(s, Readable), Unclaimed(s, x)
      PROVE  /\ Current(load(s, v), Readable) /\ Unclaimed(load(s, v), x)
             /\ v \notin Consts => v \in load(s, v).reg[load(s, v).reg_index[v]]
  <2>1. CASE v \in Consts
    BY <1>4, <2>1
  <2>2. CASE v \notin Consts
    <3>1. load(s, v) = loadReg(s, v) /\ v \in Vars /\ v \in Readable /\ x \in Entries \ {v}
          /\ Good(s) /\ v \in Entries
      BY <1>2, <1>4, <2>2 DEF Current
    <3> HIDE DEF load
    <3>2. /\ Current(loadReg(s, v), Readable)
          /\ v \in loadReg(s, v).reg[loadReg(s, v).reg_index[v]]
      BY <1>0, <1>2, <1>4, <3>1, loadRegCurrent
    <3>3. Unclaimed(loadReg(s, v), x)
      BY <1>0, <1>4, <3>1, NewClaim
    <3> QED
      BY <3>1, <3>2, <3>3
  <2> QED
    BY <2>1, <2>2
<1>5. \A s : Good(s) => free2(s) = s
  BY FreeReserved
<1> HIDE DEF load, free2
<1>6. Current(s1, Readable) /\ Unclaimed(s1, x) /\ free2(s1) = s1
  <2>1. Current(load(s0, y), Readable) /\ Unclaimed(load(s0, y), x)
    BY <1>3, <1>4
  <2>2. Current(s1, Readable) /\ Unclaimed(s1, x)
    BY <2>1, <1>4
  <2> QED
    BY <1>5, <2>2 DEF Current
<1>7. Current(s2, Readable) /\ Unclaimed(s2, x) /\ wy = {}
  <2>1. s2 = load(s1, y)
    BY <1>6
  <2>2. y \notin Consts => y \in s2.reg[s2.reg_index[y]]
    BY <1>4, <1>6, <2>1
  <2>3. wy = {}
    BY <2>2 DEF Missing
  <2> QED
    BY <1>4, <1>6, <2>1, <2>3
<1>8. /\ s3 = loadOperand(s2, z) /\ wy = {} /\ wrong = wy \union wz
      /\ wz = IF z \in Consts THEN {} ELSE Missing(s3, {z})
      /\ g1 = Garbage(s3, RAX_INDEX) /\ g2 = Garbage(g1, RDX_INDEX)
      /\ s4 = ComputeInSlot(g2, x) /\ d1 = Detach(free2(s4), y) /\ d2 = Detach(d1, x)
      /\ CleanDividend(s3, y, dead) /\ Emit(d2, wrong, nowLive)
  BY <1>1, <1>7
<1> HIDE DEF s1, s2, s3, g1, g2, s4, d1, d2, wy, wz, wrong, nowLive, L
<1>9. /\ Current(s3, Readable) /\ Unclaimed(s3, x)
      /\ z \in Readable => z \in s3.reg[s3.reg_index[z]]
  BY <1>0, <1>2, <1>7, <1>8, loadOperandCurrent
<1>10. wrong = {}
  BY <1>2, <1>8, <1>9 DEF Missing
<1>11. NULL \notin Readable /\ RAX_INDEX \in Regs /\ RDX_INDEX \in Regs
  BY <1>2, EntriesAssumption, RegisterFacts DEF Entries
<1>12. Current(g1, Readable) /\ g1.mem = s3.mem /\ g1.register_file = s3.register_file
  <2>1. s3.register_file[RAX_INDEX] = NULL
    BY <1>9 DEF Current, Good, Reserved
  <2> QED
    BY <1>2, <1>8, <1>9, <1>11, <2>1, GarbageCurrent
<1>13. /\ Current(g2, Readable) /\ g2.mem = s3.mem /\ Unclaimed(g2, x)
  <2>1. g1.register_file[RDX_INDEX] = NULL
    BY <1>12 DEF Current, Good, Reserved
  <2>2. Current(g2, Readable) /\ g2.mem = g1.mem /\ g2.register_file = g1.register_file
    BY <1>2, <1>8, <1>11, <1>12, <2>1, GarbageCurrent
  <2> QED
    BY <1>9, <1>12, <2>2 DEF Unclaimed, Claimants
<1>14. Current(s4, Readable \union {x}) /\ SlotsKept(g2, s4, Readable) /\ x \in s4.mem[x]
  <2>1. Current(g2, Readable \ {x}) /\ x \in Vars
    BY <1>2, <1>13
  <2>2. /\ Current(s4, Readable \union {x}) /\ SlotsKept(g2, s4, Readable \ {x})
        /\ x \in s4.mem[x]
    BY <1>2, <1>8, <1>13, <2>1, ComputeInSlotCurrent
  <2> QED
    BY <1>2, <2>2
<1>15. Current(s4, L) /\ free2(s4) = s4
  BY <1>2, <1>5, <1>14, CurrentLess DEF Current
<1>16. y \in L => y \in s4.mem[y]
  BY <1>2, <1>8, <1>13, <1>14 DEF CleanDividend, SlotsKept
<1>17. Current(d1, L) /\ d1.mem = s4.mem
  BY <1>2, <1>8, <1>15, <1>16, DetachCurrent
<1>18. Current(d2, L)
  BY <1>2, <1>8, <1>14, <1>17, DetachCurrent
<1> QED
  BY <1>2, <1>8, <1>10, <1>18, EmitCurrent DEF L

\* A read at a constant offset.
LEMMA MemReadConstCurrent ==
    ASSUME Disciplined, Kept, NEW x \in Temps, NEW y \in Readable, MemReadConst(x, y)
    PROVE  Kept'
<1>0. Keeps("no_eviction_clash")
  BY EveryDiscipline DEF DisciplineSet
<1>1. PICK s0 \in AtStart :
         LET s1 == loadReg(s0, y)
             s2 == getReg(s1, x)
         IN  Emit(Compute(s2, s2.reg_index[x], x), Missing(s1, {y}), live \union {x})
  BY DEF MemReadConst
<1> DEFINE s1 == loadReg(s0, y)
           s2 == getReg(s1, x)
           r  == s2.reg_index[x]
           t  == Compute(s2, r, x)
           wrong == Missing(s1, {y})
<1>2. /\ x \in Vars /\ x \in Entries \ {y} /\ live \union {x} \in SUBSET Temps /\ y \in Vars
      /\ Readable \in SUBSET Vars /\ Unclaimed(cg, x) /\ y \in Entries /\ x \in Entries
      /\ Readable \union {x} = Locals \union (live \union {x})
  BY NameFacts DEF Readable, MemReadConst
<1>3. Current(s0, Readable) /\ Good(s0) /\ Unclaimed(s0, x)
  BY <1>0, <1>2, StartCurrent
<1>4. /\ s1 = loadReg(s0, y) /\ s2 = getReg(s1, x) /\ t = Compute(s2, r, x)
      /\ Emit(t, wrong, live \union {x}) /\ wrong = Missing(s1, {y})
  BY <1>1
<1> HIDE DEF s1, t, wrong
<1>5. /\ Current(s1, Readable) /\ Good(s1) /\ Unclaimed(s1, x)
      /\ y \in s1.reg[s1.reg_index[y]]
  BY <1>0, <1>2, <1>3, <1>4, loadRegCurrent, NewClaim DEF Current
<1>6. wrong = {}
  BY <1>4, <1>5 DEF Missing
<1> HIDE DEF s2
<1>7. Current(s2, Readable \ {x}) /\ r \in Allocatable
  BY <1>2, <1>4, <1>5, getRegCurrent
<1>8. r \in Regs /\ r # NOT_IN_REGISTER /\ s2.register_file[r] = x /\ Claimants(s2, x) = {r}
  BY <1>0, <1>2, <1>4, <1>5, <1>7, NewClaim, RegisterFacts
<1>9. Current(t, Readable \union {x})
  BY <1>2, <1>4, <1>7, <1>8, ComputeCurrent
<1> QED
  BY <1>2, <1>4, <1>6, <1>9, EmitCurrent

\* A register no entry is in is emptied: a stale claim less.
LEMMA EmptiedCurrent ==
    ASSUME NEW L \in SUBSET Vars, NEW s, Current(s, L), NEW r \in Regs,
           \A e \in Entries : s.reg_index[e] # r, NEW t, t = setRegisterVariable(s, r, NULL)
    PROVE  Current(t, L)
<1>1. Good(s) /\ s \in GeneratorState /\ NULL \notin L
  BY EntriesAssumption DEF Current, Good, Reserved, Entries
<1>2. Good(t)
  BY <1>1, GoodEmptied
<1>3. /\ t.reg = s.reg /\ t.mem = s.mem /\ t.reg_index = s.reg_index
      /\ t.register_file = Update(s.register_file, r, NULL)
      /\ s.register_file \in [Regs -> Entries \union {NULL}]
  BY <1>1 DEF setRegisterVariable, GeneratorState, Update
<1> QED
  BY <1>1, <1>2, <1>3 DEF Current, Claimed, Slotted, Update

\* The register z is in is overwritten, z taken out of it and the register
\* emptied: nobody reads z again.
LEMMA DropCurrent ==
    ASSUME Keeps("no_eviction_clash"), NEW L \in SUBSET Vars, NEW s, Current(s, L),
           NEW z \in Vars, NEW r \in Allocatable, s.reg_index[z] = r, NEW t,
           t = setRegisterVariable(Detach(Garbage(s, r), z), r, NULL)
    PROVE  Current(t, L \ {z})
<1> DEFINE g == Garbage(s, r)
           d == Detach(g, z)
           M == L \ {z}
<1>1. /\ Good(s) /\ Agree(s) /\ r \in Regs /\ r # NOT_IN_REGISTER /\ z \in Entries
      /\ M \in SUBSET Vars /\ z \notin M
  BY RegisterFacts DEF Current, Good, Entries
<1>2. Current(s, M) /\ s.register_file[r] = z
  BY <1>1, CurrentLess DEF Agree
<1>3. g = Garbage(s, r) /\ d = Detach(g, z) /\ t = setRegisterVariable(d, r, NULL)
  OBVIOUS
<1> HIDE DEF M, g, d
<1>4. Current(g, M) /\ g.reg_index = s.reg_index
  BY <1>1, <1>2, <1>3, GarbageCurrent
<1>5. Current(d, M)
  BY <1>1, <1>3, <1>4, DetachCurrent
<1>6. /\ d.reg_index = Update(s.reg_index, z, NOT_IN_REGISTER)
      /\ s.reg_index \in [Entries -> Regs \union {NOT_IN_REGISTER}]
  BY <1>1, <1>3, <1>4 DEF Current, Good, Reserved, GeneratorState, Detach, Update
<1>7. ASSUME NEW e \in Entries PROVE d.reg_index[e] # r
  BY <1>1, <1>2, <1>6 DEF Agree, Update
<1> QED
  BY <1>1, <1>3, <1>5, <1>7, EmptiedCurrent DEF M

\* x := y[z]: z's register holds the address while x gets one.
LEMMA MemReadVarCurrent ==
    ASSUME Disciplined, Kept, NEW x \in Temps, NEW y \in Readable, NEW z \in live,
           MemReadVar(x, y, z)
    PROVE  Kept'
<1>0. Keeps("no_eviction_clash")
  BY EveryDiscipline DEF DisciplineSet
<1>1. PICK s0 \in AtStart :
         LET s1 == loadReg(s0, y)
             ry == s1.reg_index[y]
             s2 == loadReg(s1, z)
             rz == s2.reg_index[z]
             s3 == Detach(Garbage(s2, rz), z)
             s4 == getReg(s3, x)
         IN  /\ s2.reg_index[y] = ry /\ s4.reg_index[x] # rz
             /\ Emit(setRegisterVariable(Compute(s4, s4.reg_index[x], x), rz, NULL),
                     {v \in {y} : v \notin s2.reg[ry]} \union Missing(s2, {z}),
                     (live \ {z}) \union {x})
  BY <1>0 DEF MemReadVar
<1> DEFINE s1 == loadReg(s0, y)
           ry == s1.reg_index[y]
           s2 == loadReg(s1, z)
           rz == s2.reg_index[z]
           g  == Garbage(s2, rz)
           s3 == Detach(g, z)
           s4 == getReg(s3, x)
           rx == s4.reg_index[x]
           s5 == Compute(s4, rx, x)
           t  == setRegisterVariable(s5, rz, NULL)
           wrong == {v \in {y} : v \notin s2.reg[ry]} \union Missing(s2, {z})
           nowLive == (live \ {z}) \union {x}
           M == Readable \ {z}
<1>2. /\ x \in Vars /\ x \notin M /\ x \in Entries \ {y, z} /\ x \in Entries /\ x # z
      /\ y \in Vars /\ z \in Vars /\ y \in Entries /\ z \in Entries /\ z \in Readable
      /\ nowLive \in SUBSET Temps /\ Readable \in SUBSET Vars /\ M \in SUBSET Vars
      /\ M \subseteq Readable /\ z \notin M /\ z \notin Consts
      /\ Unclaimed(cg, x) /\ M \union {x} = Locals \union nowLive
  BY NameFacts, EntriesAssumption DEF Readable, MemReadVar, Kept, FileInOrder, Vars
<1>3. Current(s0, Readable) /\ Good(s0) /\ Unclaimed(s0, x)
  BY <1>0, <1>2, StartCurrent
<1>4. /\ s1 = loadReg(s0, y) /\ s2 = loadReg(s1, z) /\ s2.reg_index[y] = ry
      /\ g = Garbage(s2, rz) /\ s3 = Detach(g, z) /\ s4 = getReg(s3, x)
      /\ rx # rz /\ s5 = Compute(s4, rx, x) /\ t = setRegisterVariable(s5, rz, NULL)
      /\ wrong = {v \in {y} : v \notin s2.reg[ry]} \union Missing(s2, {z})
      /\ Emit(t, wrong, nowLive)
  BY <1>1
<1> HIDE DEF s1, t, wrong, nowLive, M
<1>5. Current(s1, Readable) /\ ry \in Allocatable /\ Good(s1) /\ Unclaimed(s1, x)
  BY <1>0, <1>2, <1>3, <1>4, loadRegCurrent, NewClaim DEF Current
<1> HIDE DEF s2, ry
<1>6. /\ Current(s2, Readable) /\ Unclaimed(s2, x) /\ z \in s2.reg[s2.reg_index[z]]
      /\ rz \in Allocatable /\ s2.register_file[rz] = z /\ rz \in Regs
  <2>1. s2 = loadReg(s1, z) /\ z \in Vars /\ z \in Entries /\ x \in Entries \ {z}
    BY <1>2, <1>4
  <2>2. /\ Current(s2, Readable) /\ s2.reg_index[z] \in Allocatable
        /\ s2.register_file[s2.reg_index[z]] = z /\ z \in s2.reg[s2.reg_index[z]]
    BY <1>0, <1>2, <1>5, <2>1, loadRegCurrent
  <2>3. Unclaimed(s2, x)
    BY <1>0, <1>5, <2>1, NewClaim
  <2> QED
    BY <2>2, <2>3, RegisterFacts
<1>7. y \in s2.reg[ry]
  BY <1>0, <1>2, <1>4, <1>5, <1>6, CurrentInRegister, RegisterFacts
<1>8. wrong = {}
  BY <1>4, <1>6, <1>7 DEF Missing
<1>9. Current(s2, M)
  BY <1>2, <1>6, CurrentLess
<1> HIDE DEF g, rz
<1>10. Current(g, M) /\ g.register_file = s2.register_file
  BY <1>2, <1>4, <1>6, <1>9, GarbageCurrent
<1> HIDE DEF s3
<1>11. Current(s3, M) /\ s3.register_file = g.register_file
  BY <1>2, <1>4, <1>10, DetachCurrent
<1>12. s3.reg_index[z] = NOT_IN_REGISTER
  <2>1. g.reg_index \in [Entries -> Regs \union {NOT_IN_REGISTER}] /\ g \in GeneratorState
    BY <1>10 DEF Current, Good, Reserved, GeneratorState
  <2> QED
    BY <1>2, <1>4, <2>1 DEF Detach, GeneratorState
<1>13. Unclaimed(s3, x) /\ s3.register_file[rz] = z /\ Good(s3)
  BY <1>6, <1>10, <1>11 DEF Unclaimed, Claimants, Current
<1> HIDE DEF s4
<1>14. Current(s4, M \ {x}) /\ rx \in Allocatable
  BY <1>2, <1>4, <1>11, getRegCurrent
<1>15. /\ rx \in Regs /\ rx # NOT_IN_REGISTER /\ s4.register_file[rx] = x
       /\ Claimants(s4, x) = {rx} /\ s4.register_file[rz] = z /\ s4.reg_index[x] = rx
  BY <1>0, <1>2, <1>4, <1>6, <1>13, <1>14, NewClaim, RegisterFacts
<1>16. s4.reg_index[z] = NOT_IN_REGISTER
  BY <1>2, <1>4, <1>12, <1>13, getRegElsewhere DEF Good
<1> HIDE DEF s5, rx
<1>17. Current(s5, M \union {x})
  <2>1. s4.register_file[rx] = x /\ s4.reg_index[x] # NOT_IN_REGISTER /\ rx \in Regs
    BY <1>15
  <2>2. s5 = Compute(s4, rx, x) /\ Claimants(s4, x) = {rx} /\ x \in Vars
    BY <1>2, <1>4, <1>15
  <2> QED
    BY <1>2, <1>14, <2>1, <2>2, ComputeCurrent
<1>18. s5.register_file = s4.register_file /\ s5.reg_index = s4.reg_index
  <2>1. Good(s4) /\ rx \in Regs /\ x \in Vars /\ s5 = Compute(s4, rx, x)
    BY <1>2, <1>4, <1>14, <1>15 DEF Current
  <2> QED
    BY <2>1, GoodEmitted
<1>19. ASSUME NEW e \in Entries PROVE s5.reg_index[e] # rz
  <2>1. rz # NOT_IN_REGISTER /\ Agree(s5)
    BY <1>0, <1>6, <1>17, RegisterFacts DEF Current, Good
  <2> QED
    BY <1>15, <1>16, <1>18, <2>1 DEF Agree
<1>20. M \union {x} \in SUBSET Vars
  BY <1>2
<1>21. Current(t, M \union {x})
  BY <1>4, <1>6, <1>17, <1>19, <1>20, EmptiedCurrent
<1> QED
  BY <1>2, <1>4, <1>8, <1>21, EmitCurrent

\* y[z] := x: x, y and z stay where they were loaded.
LEMMA MemWriteCurrent ==
    ASSUME Disciplined, Kept, NEW x \in Operands, NEW y \in Readable,
           NEW z \in live \union Consts, NEW dead, MemWrite(x, y, z, dead)
    PROVE  Kept'
<1>0. Keeps("no_eviction_clash")
  BY EveryDiscipline DEF DisciplineSet
<1>1. PICK s0 \in AtStart :
         LET s1 == IF x \in Consts THEN s0 ELSE loadReg(s0, x)
             s2 == loadReg(s1, y)
             s3 == IF z \in Consts THEN s2 ELSE loadReg(s2, z)
             at(v, s) == s.reg_index[v]
             first == IF x \in Consts THEN {} ELSE {v \in {x} : v \notin s3.reg[at(x, s1)]}
             base  == {v \in {y} : v \notin s3.reg[at(y, s2)]}
             index == IF z \in Consts THEN {} ELSE Missing(s3, {z})
             rz    == at(z, s3)
         IN  /\ x \in Vars => at(x, s3) = at(x, s1)
             /\ at(y, s3) = at(y, s2)
             /\ Emit(IF z \in Consts THEN s3
                     ELSE setRegisterVariable(Detach(Garbage(s3, rz), z), rz, NULL),
                     first \union base \union index, live \ (dead \union {z}))
  BY <1>0 DEF MemWrite
<1> DEFINE s1 == IF x \in Consts THEN s0 ELSE loadReg(s0, x)
           s2 == loadReg(s1, y)
           s3 == IF z \in Consts THEN s2 ELSE loadReg(s2, z)
           first == IF x \in Consts THEN {} ELSE {v \in {x} : v \notin s3.reg[s1.reg_index[x]]}
           base  == {v \in {y} : v \notin s3.reg[s2.reg_index[y]]}
           index == IF z \in Consts THEN {} ELSE Missing(s3, {z})
           wrong == first \union base \union index
           rz == s3.reg_index[z]
           t == IF z \in Consts THEN s3
                ELSE setRegisterVariable(Detach(Garbage(s3, rz), z), rz, NULL)
           nowLive == live \ (dead \union {z})
<1>2. /\ nowLive \in SUBSET Temps /\ Readable \in SUBSET Vars /\ y \in Vars
      /\ (x \notin Consts => x \in Vars /\ x \in Readable)
      /\ (z \notin Consts => z \in Vars /\ z \in Readable)
      /\ Locals \union nowLive \subseteq Readable
      /\ (z \notin Consts => Locals \union nowLive \subseteq Readable \ {z})
  BY NameFacts, EntriesAssumption DEF Readable, Operands, Vars
<1>3. Current(s0, Readable)
  BY <1>0, StartCurrent
<1>4. /\ s1 = (IF x \in Consts THEN s0 ELSE loadReg(s0, x)) /\ s2 = loadReg(s1, y)
      /\ s3 = (IF z \in Consts THEN s2 ELSE loadReg(s2, z))
      /\ first = (IF x \in Consts THEN {} ELSE {v \in {x} : v \notin s3.reg[s1.reg_index[x]]})
      /\ base = {v \in {y} : v \notin s3.reg[s2.reg_index[y]]}
      /\ index = (IF z \in Consts THEN {} ELSE Missing(s3, {z}))
      /\ t = (IF z \in Consts THEN s3
              ELSE setRegisterVariable(Detach(Garbage(s3, rz), z), rz, NULL))
      /\ x \in Vars => s3.reg_index[x] = s1.reg_index[x]
      /\ s3.reg_index[y] = s2.reg_index[y] /\ Emit(t, wrong, nowLive)
  BY <1>1
<1> HIDE DEF s1, s2, s3, first, base, index, t, nowLive
<1>5. /\ Current(s1, Readable)
      /\ x \notin Consts => s1.reg_index[x] \in Allocatable
  BY <1>0, <1>2, <1>3, <1>4, loadRegCurrent
<1>6. Current(s2, Readable) /\ s2.reg_index[y] \in Allocatable
  <2>1. s2 = loadReg(s1, y) /\ Current(s1, Readable)
    BY <1>4, <1>5
  <2> QED
    BY <1>0, <1>2, <2>1, loadRegCurrent
<1>7. /\ Current(s3, Readable)
      /\ z \notin Consts => rz \in Allocatable /\ z \in s3.reg[rz]
  BY <1>0, <1>2, <1>4, <1>6, loadRegCurrent
<1>8. first = {}
  <2>1. CASE x \in Consts
    BY <1>4, <2>1
  <2>2. CASE x \notin Consts
    <3>1. x \in Readable /\ s3.reg_index[x] # NOT_IN_REGISTER /\ Current(s3, Readable)
      BY <1>2, <1>4, <1>5, <1>7, <2>2, RegisterFacts
    <3>2. x \in s3.reg[s3.reg_index[x]]
      BY <1>0, <1>2, <3>1, CurrentInRegister
    <3> QED
      BY <1>2, <1>4, <2>2, <3>2
  <2> QED
    BY <2>1, <2>2
<1>9. base = {} /\ index = {}
  <2>1. y \in Readable /\ s3.reg_index[y] = s2.reg_index[y]
    BY <1>2, <1>4
  <2>2. s3.reg_index[y] # NOT_IN_REGISTER
    BY <1>6, <2>1, RegisterFacts
  <2>3. y \in s3.reg[s3.reg_index[y]]
    BY <1>0, <1>2, <1>7, <2>1, <2>2, CurrentInRegister
  <2> QED
    BY <1>4, <1>7, <2>1, <2>3 DEF Missing
<1>10. Current(t, Locals \union nowLive)
  <2>1. CASE z \in Consts
    BY <1>2, <1>4, <1>7, <2>1, CurrentLess
  <2>2. CASE z \notin Consts
    <3>1. Current(t, Readable \ {z})
      BY <1>0, <1>2, <1>4, <1>7, <2>2, DropCurrent
    <3> QED
      BY <1>2, <2>2, <3>1, CurrentLess
  <2> QED
    BY <2>1, <2>2
<1>11. wrong = {}
  BY <1>8, <1>9
<1> QED
  BY <1>2, <1>4, <1>10, <1>11, EmitCurrent

\* The register a comparison moves an operand into is the one getReg chooses.
LEMMA loadOperandPlace ==
    ASSUME NEW s, Good(s), NEW v \in Entries
    PROVE  loadOperand(s, v).reg_index[v] = getReg(s, v).reg_index[v]
<1>0. Reserved(s) /\ v # NULL
  BY EntriesAssumption DEF Good
<1>1. CASE v \notin Consts
  BY <1>0, <1>1, loadRegIsGetReg DEF loadOperand
<1>2. CASE v \in Consts
  <2> DEFINE a == getReg(s, v)
             r == a.reg_index[v]
             b == Garbage(a, r)
  <2>1. Good(a) /\ r \in Regs
    BY GoodLoad, RegisterFacts
  <2>2. loadOperand(s, v) = Claim(b, r, v)
    BY <1>0, <1>2 DEF loadOperand, setRegisterVariable
  <2> HIDE DEF a
  <2>3. Good(b)
    BY <2>1, GoodOverwritten
  <2> HIDE DEF b
  <2>4. b \in GeneratorState
    BY <2>3 DEF Good, Reserved
  <2>5. Claim(b, r, v).reg_index[v] = r
    BY <2>4 DEF Claim, GeneratorState
  <2> QED
    BY <2>2, <2>5 DEF a
<1> QED
  BY <1>1, <1>2

\* After a flush a comparison has room for both operands: the second one
\* never takes the register of the first.
LEMMA RoomForBoth ==
    ASSUME Keeps("no_eviction_clash"), NEW L \in SUBSET Vars, NEW s, Current(s, L),
           AllFree(s), NEW x \in Vars, NEW y \in Vars \union Consts, NEW t, NEW u,
           t = loadOperand(s, x), u = loadOperand(t, y)
    PROVE  u.register_file[t.reg_index[x]] = x
<1> DEFINE r == t.reg_index[x]
           q == u.reg_index[y]
<1>1. /\ Current(t, L) /\ r \in Allocatable /\ t.register_file[r] = x
      /\ \A i \in Regs : i # r => t.register_file[i] = s.register_file[i]
      /\ r \in Regs
  <2>1. x \in Vars \union Consts
    OBVIOUS
  <2>2. Current(t, L) /\ t.reg_index[x] \in Allocatable
    BY <2>1, loadOperandCurrent
  <2>3. t.register_file[t.reg_index[x]] = x
    BY <2>2, RegisterFacts DEF Current, Good, Agree
  <2>4. \A i \in Regs : i # t.reg_index[x] => t.register_file[i] = s.register_file[i]
    BY <2>1, loadOperandCurrent
  <2> QED
    BY <2>2, <2>3, <2>4, RegisterFacts
<1>2. /\ u.register_file[q] = y /\ q \in Regs
      /\ \A i \in Regs : i # q => u.register_file[i] = t.register_file[i]
  <2>0. Current(t, L)
    BY <1>1
  <2>1. Current(u, L) /\ u.reg_index[y] \in Allocatable
    BY <2>0, loadOperandCurrent
  <2>2. u.register_file[u.reg_index[y]] = y
    BY <2>1, RegisterFacts DEF Current, Good, Agree, Entries
  <2>3. \A i \in Regs : i # u.reg_index[y] => u.register_file[i] = t.register_file[i]
    BY <2>0, loadOperandCurrent
  <2> QED
    BY <2>1, <2>2, <2>3, RegisterFacts
<1>3. /\ Good(t) /\ Agree(t) /\ x \in Entries /\ y \in Entries /\ x # NULL
      /\ t.reg_index \in [Entries -> Regs \union {NOT_IN_REGISTER}]
  BY <1>1, EntriesAssumption DEF Current, Good, Reserved, GeneratorState, Entries
<1>4. ASSUME y # x PROVE q # r
  <2> DEFINE a == getReg(t, y)
  <2>1. q = a.reg_index[y]
    BY <1>3, loadOperandPlace
  <2>2. CASE t.reg_index[y] # NOT_IN_REGISTER
    <3>1. q = t.reg_index[y]
      BY <2>1, <2>2 DEF getReg
    <3>2. t.register_file[q] = y
      BY <1>3, <2>2, <3>1 DEF Agree
    <3> QED
      BY <1>1, <1>4, <3>2
  <2>3. CASE t.reg_index[y] = NOT_IN_REGISTER
    <3>1. \E i \in {1, 2} : i # r /\ i \in Allocatable
      BY SizeAssumption DEF Allocatable, Regs, RAX_INDEX, RDX_INDEX
    <3>2. FreeSet(t) # {} /\ FreeSet(t) \in SUBSET Regs
      BY <1>1, <3>1 DEF FreeSet, AllFree, Allocatable
    <3>3. Least(FreeSet(t)) \in FreeSet(t)
      BY <3>2, LeastIn
    <3>4. a = Claim(t, Least(FreeSet(t)), y)
      BY <2>3, <3>2 DEF getReg
    <3>5. a.reg_index[y] = Least(FreeSet(t))
      <4> DEFINE i == Least(FreeSet(t))
      <4> HIDE DEF i, a
      <4>1. a = Claim(t, i, y) /\ i \in Allocatable
        BY <3>3, <3>4 DEF FreeSet, i
      <4>2. a.reg_index = Update(t.reg_index, y, i)
        BY <1>3, <4>1, ClaimKeeps DEF Good
      <4> QED
        BY <1>3, <4>2 DEF Update, i
    <3> QED
      BY <1>1, <1>3, <2>1, <3>3, <3>5 DEF FreeSet
  <2> QED
    BY <2>2, <2>3
<1>5. CASE y = x
  <2>1. u = t
    <3>1. x \notin Consts /\ r # NOT_IN_REGISTER
      BY <1>1, RegisterFacts, EntriesAssumption
    <3> QED
      BY <1>5, <3>1 DEF loadOperand, loadReg
  <2> QED
    BY <1>1, <2>1
<1>6. CASE y # x
  BY <1>1, <1>2, <1>4, <1>6
<1> QED
  BY <1>5, <1>6

\* A flush, wherever an instruction starts.
LEMMA StartFlushed ==
    ASSUME Keeps("no_eviction_clash"), Kept
    PROVE  \A s0 \in AtStart : /\ Current(freeAllRegs(s0), Readable)
                               /\ InMemory(freeAllRegs(s0), Readable)
                               /\ AllFree(freeAllRegs(s0))
<1>1. Readable \in SUBSET Vars /\ \A s0 \in AtStart : Current(s0, Readable)
  BY NameFacts, StartCurrent
<1> QED
  BY <1>1, FlushCurrent

\* What holds on the other side of a jump.
Settled == InMemory(cg, Readable) /\ AllFree(cg)

\* A comparison flushes first; its operands are then loaded or moved.
LEMMA BranchesCurrent ==
    ASSUME Disciplined, Kept
    PROVE  /\ \A x \in Operands : IfTrue(x) => Kept' /\ InMemory(cg, Readable)'
           /\ \A x, y \in Operands : \A supported \in BOOLEAN :
                IfRelop(x, y, supported) => Kept' /\ InMemory(cg, Readable)'
<1>0. Keeps("no_eviction_clash")
  BY EveryDiscipline DEF DisciplineSet
<1>1. /\ Readable \in SUBSET Vars /\ Readable = Locals \union live /\ live \in SUBSET Temps
      /\ Operands \subseteq Vars \union Consts /\ Operands \intersect Vars = Readable
      /\ Vars \intersect Consts = {}
  BY NameFacts, EntriesAssumption DEF Readable, Operands, Vars
<1>2. \A s0 \in AtStart : /\ Current(freeAllRegs(s0), Readable)
                          /\ InMemory(freeAllRegs(s0), Readable) /\ AllFree(freeAllRegs(s0))
  BY <1>0, StartFlushed
<1>3. ASSUME NEW s, Current(s, Readable), InMemory(s, Readable), NEW x \in Operands, NEW t,
             t = loadOperand(s, x)
      PROVE  /\ Current(t, Readable) /\ InMemory(t, Readable)
             /\ x \in Readable => x \in t.reg[t.reg_index[x]]
  <2>1. x \in Vars \union Consts
    BY <1>1
  <2>2. Current(t, Readable) /\ SlotsKept(s, t, Readable)
        /\ (x \in Readable => x \in t.reg[t.reg_index[x]])
    BY <1>0, <1>1, <1>3, <2>1, loadOperandCurrent
  <2> QED
    BY <1>3, <2>2 DEF InMemory, SlotsKept
<1>4. ASSUME NEW x \in Operands, IfTrue(x) PROVE Kept' /\ InMemory(cg, Readable)'
  <2>1. PICK s0 \in AtStart :
          LET s1 == loadOperand(freeAllRegs(s0), x)
          IN  Emit(s1, Missing(s1, {x} \intersect Vars), live)
    BY <1>4 DEF IfTrue
  <2> DEFINE f == freeAllRegs(s0)
             s1 == loadOperand(f, x)
             wrong == Missing(s1, {x} \intersect Vars)
  <2>2. Current(f, Readable) /\ InMemory(f, Readable)
    BY <1>2
  <2>3. s1 = loadOperand(f, x) /\ Emit(s1, wrong, live)
        /\ wrong = Missing(s1, {x} \intersect Vars)
    BY <2>1
  <2> HIDE DEF f, s1, wrong
  <2>4. /\ Current(s1, Readable) /\ InMemory(s1, Readable)
        /\ x \in Readable => x \in s1.reg[s1.reg_index[x]]
    BY <1>3, <2>2, <2>3
  <2>5. wrong = {}
    BY <1>1, <2>3, <2>4 DEF Missing
  <2> QED
    BY <1>1, <2>3, <2>4, <2>5, EmitCurrent
<1>5. ASSUME NEW x \in Operands, NEW y \in Operands, NEW supported \in BOOLEAN,
             IfRelop(x, y, supported)
      PROVE  Kept' /\ InMemory(cg, Readable)'
  <2>1. PICK s0 \in AtStart :
         LET s1 == freeAllRegs(s0)
             s2 == loadOperand(s1, x)
             s3 == loadOperand(s2, y)
             r  == s2.reg_index[x]
             first == IF x \in Consts THEN {} ELSE {v \in {x} : v \notin s3.reg[r]}
         IN  \/ Emit(s3, first \union Missing(s3, {y} \intersect Vars), live)
             \/ Emit(s1, {}, live)
    BY <1>5 DEF IfRelop
  <2> DEFINE s1 == freeAllRegs(s0)
             s2 == loadOperand(s1, x)
             s3 == loadOperand(s2, y)
             r  == s2.reg_index[x]
             first == IF x \in Consts THEN {} ELSE {v \in {x} : v \notin s3.reg[r]}
             second == Missing(s3, {y} \intersect Vars)
             wrong == first \union second
  <2>2. Current(s1, Readable) /\ InMemory(s1, Readable) /\ AllFree(s1)
    BY <1>2
  <2>3. /\ s2 = loadOperand(s1, x) /\ s3 = loadOperand(s2, y)
        /\ first = (IF x \in Consts THEN {} ELSE {v \in {x} : v \notin s3.reg[r]})
        /\ second = Missing(s3, {y} \intersect Vars)
        /\ Emit(s3, wrong, live) \/ Emit(s1, {}, live)
    BY <2>1
  <2> HIDE DEF s1, s2, s3, first, second
  <2>4. Current(s2, Readable) /\ InMemory(s2, Readable)
    BY <1>3, <2>2, <2>3
  <2>5. /\ Current(s3, Readable) /\ InMemory(s3, Readable)
        /\ y \in Readable => y \in s3.reg[s3.reg_index[y]]
    BY <1>3, <2>3, <2>4
  <2>6. second = {}
    BY <1>1, <2>3, <2>5 DEF Missing
  <2>7. first = {}
    <3>1. CASE x \in Consts
      BY <2>3, <3>1
    <3>2. CASE x \notin Consts
      <4>1. x \in Vars /\ x \in Readable /\ y \in Vars \union Consts
        BY <1>1, <3>2
      <4>2. s3.register_file[r] = x
        BY <1>0, <1>1, <2>2, <2>3, <4>1, RoomForBoth
      <4>3. r \in Regs
        BY <1>0, <1>1, <2>2, <2>3, <4>1, loadOperandCurrent, RegisterFacts
      <4>4. x \in s3.reg[r]
        BY <2>5, <4>1, <4>2, <4>3 DEF Current, Claimed
      <4> QED
        BY <2>3, <4>4
    <3> QED
      BY <3>1, <3>2
  <2>8. CASE Emit(s3, wrong, live)
    <3>1. wrong = {}
      BY <2>6, <2>7
    <3> QED
      BY <1>1, <2>5, <2>8, <3>1, EmitCurrent
  <2>9. CASE Emit(s1, {}, live)
    BY <1>1, <2>2, <2>9, EmitCurrent
  <2> QED
    BY <2>3, <2>8, <2>9
<1> QED
  BY <1>4, <1>5

\* Gotos and calls leave nothing in registers; arguments are read in place.
LEMMA CallsCurrent ==
    ASSUME Disciplined, Kept
    PROVE  /\ Goto \/ ParamGoto => Kept' /\ Settled'
           /\ \A x \in Operands : Param(x) => Kept'
           /\ ParamString \/ ParamTrue \/ ParamFalse => Kept'
           /\ \A x \in Temps \union {NULL} : Call(x) => Kept' /\ Settled'
<1>0. Keeps("no_eviction_clash")
  BY EveryDiscipline DEF DisciplineSet
<1>1. /\ Readable \in SUBSET Vars /\ Readable = Locals \union live /\ live \in SUBSET Temps
      /\ Operands \subseteq Vars \union Consts /\ Operands \intersect Vars = Readable
      /\ Vars \intersect Consts = {}
  BY NameFacts, EntriesAssumption DEF Readable, Operands, Vars
<1>2. \A s0 \in AtStart : /\ Current(freeAllRegs(s0), Readable)
                          /\ InMemory(freeAllRegs(s0), Readable) /\ AllFree(freeAllRegs(s0))
  BY <1>0, StartFlushed
<1>3. \A s0 \in AtStart : Current(s0, Readable)
  BY <1>0, StartCurrent
<1>4. ASSUME Goto \/ ParamGoto PROVE Kept' /\ Settled'
  <2>1. PICK s0 \in AtStart : Emit(freeAllRegs(s0), {}, live)
    BY <1>4 DEF Goto, ParamGoto
  <2> QED
    BY <1>1, <1>2, <2>1, EmitCurrent DEF Settled
<1>5. ASSUME NEW x \in Operands, Param(x) PROVE Kept'
  <2>1. PICK s0 \in AtStart :
         LET s1 == IF x \in Consts THEN s0 ELSE loadReg(s0, x)
         IN  Emit(s1, Missing(s1, {x} \intersect Vars), live \ {x})
    BY <1>5 DEF Param
  <2> DEFINE s1 == IF x \in Consts THEN s0 ELSE loadReg(s0, x)
             wrong == Missing(s1, {x} \intersect Vars)
             nowLive == live \ {x}
  <2>2. nowLive \in SUBSET Temps /\ Locals \union nowLive \subseteq Readable
    BY <1>1
  <2>3. /\ s1 = (IF x \in Consts THEN s0 ELSE loadReg(s0, x)) /\ Emit(s1, wrong, nowLive)
        /\ wrong = Missing(s1, {x} \intersect Vars)
    BY <2>1
  <2> HIDE DEF s1, wrong, nowLive
  <2>4. /\ Current(s1, Readable)
        /\ x \in Vars => x \in s1.reg[s1.reg_index[x]]
    <3>1. CASE x \in Consts
      BY <1>1, <1>3, <2>3, <3>1
    <3>2. CASE x \notin Consts
      <4>1. x \in Vars /\ x \in Readable /\ s1 = loadReg(s0, x) /\ Current(s0, Readable)
        BY <1>1, <1>3, <2>3, <3>2
      <4> QED
        BY <1>0, <1>1, <4>1, loadRegCurrent
    <3> QED
      BY <3>1, <3>2
  <2>5. wrong = {}
    BY <2>3, <2>4 DEF Missing
  <2>6. Current(s1, Locals \union nowLive)
    BY <2>2, <2>4, CurrentLess
  <2> QED
    BY <2>2, <2>3, <2>5, <2>6, EmitCurrent
<1>6. ASSUME ParamString PROVE Kept'
  <2>1. PICK s0 \in AtStart : Emit(Clobber(freeAllRegs(s0)), {}, live)
    BY <1>6 DEF ParamString
  <2>2. Current(Clobber(freeAllRegs(s0)), Readable)
    BY <1>1, <1>2, FreeKeepsCurrent
  <2> QED
    BY <1>1, <2>1, <2>2, EmitCurrent
<1>7. ASSUME ParamTrue \/ ParamFalse PROVE Kept'
  <2> DEFINE f == freeAllRegs(cg)
  <2>1. Emit(Join(f), {}, live) /\ f = freeAllRegs(cg)
    BY <1>7 DEF ParamTrue, ParamFalse
  <2> HIDE DEF f
  <2>2. Current(f, Readable) /\ InMemory(f, Readable) /\ AllFree(f)
    BY <1>0, <1>1, <2>1, FlushCurrent DEF Kept
  <2>3. Current(Join(f), Readable)
    BY <1>1, <2>2, FreeKeepsCurrent
  <2> QED
    BY <1>1, <2>1, <2>3, EmitCurrent
<1>8. ASSUME NEW x \in Temps \union {NULL}, Call(x) PROVE Kept' /\ Settled'
  <2>1. PICK s0 \in AtStart :
         LET s1 == Clobber(freeAllRegs(s0))
         IN  Emit(IF x = NULL THEN s1 ELSE ComputeInSlot(s1, x), {},
                  live \union ({x} \ {NULL}))
    BY <1>8 DEF Call
  <2> DEFINE f == freeAllRegs(s0)
             s1 == Clobber(f)
             t == ComputeInSlot(s1, x)
  <2>2. Current(f, Readable) /\ InMemory(f, Readable) /\ AllFree(f)
    BY <1>2
  <2>3. /\ s1 = Clobber(f) /\ t = ComputeInSlot(s1, x)
        /\ Emit(IF x = NULL THEN s1 ELSE t, {}, live \union ({x} \ {NULL}))
    BY <2>1
  <2> HIDE DEF f, s1, t
  <2>4. Current(s1, Readable) /\ InMemory(s1, Readable) /\ AllFree(s1)
    BY <1>1, <2>2, <2>3, FreeKeepsCurrent
  <2>5. CASE x = NULL
    <3>1. live \union ({x} \ {NULL}) = live
      BY <2>5
    <3> QED
      BY <1>1, <2>3, <2>4, <2>5, <3>1, EmitCurrent DEF Settled
  <2>6. CASE x # NULL
    <3>1. FreshTemp(x) /\ Emit(t, {}, live \union {x})
      <4>1. live \union ({x} \ {NULL}) = live \union {x}
        BY <2>6
      <4> QED
        BY <1>8, <2>3, <2>6, <4>1 DEF Call
    <3>2. /\ x \in Vars /\ x \in Temps /\ x \notin Readable /\ Readable \ {x} = Readable
          /\ Readable \union {x} = Locals \union (live \union {x})
          /\ live \union {x} \in SUBSET Temps
      BY <1>1, <3>1, NameFacts
    <3>3. Unclaimed(s1, x)
      BY <2>4, <2>6 DEF AllFree, Unclaimed, Claimants
    <3>4. Current(s1, Readable \ {x})
      BY <2>4, <3>2
    <3>5. /\ Current(t, Readable \union {x}) /\ SlotsKept(s1, t, Readable \ {x})
          /\ x \in t.mem[x] /\ t.register_file = s1.register_file
      <4>1. t = ComputeInSlot(s1, x) /\ Readable \in SUBSET Vars /\ x \in Vars
        BY <1>1, <2>3, <3>2
      <4> QED
        BY <3>3, <3>4, <4>1, ComputeInSlotCurrent
    <3>6. InMemory(t, Readable \union {x}) /\ AllFree(t)
      BY <2>4, <3>2, <3>5 DEF InMemory, SlotsKept, AllFree
    <3> QED
      BY <3>1, <3>2, <3>5, <3>6, EmitCurrent DEF Settled
  <2> QED
    BY <2>5, <2>6
<1> QED
  BY <1>4, <1>5, <1>6, <1>7, <1>8

\* x is returned from where it is, in its register or in its slot, and
\* nukeRegisters leaves no register claimed: %rax never was.
LEMMA ReturnCurrent ==
    ASSUME Disciplined, Kept, NEW x \in Operands, Return(x)
    PROVE  FileInOrder' /\ stale' = {} /\ AllFree(cg)'
<1>0. Keeps("no_eviction_clash")
  BY EveryDiscipline DEF DisciplineSet
<1>1. PICK s0 \in AtStart :
         LET s1 == IF s0.reg_index[x] # RAX_INDEX THEN freeReg(s0, RAX_INDEX) ELSE s0
             from == IF s0.reg_index[x] # NOT_IN_REGISTER
                     THEN s1.reg[s0.reg_index[x]] ELSE s1.mem[Cell(x)]
         IN  Emit(nukeRegisters(s1), {v \in {x} \intersect Vars : v \notin from}, {})
  BY DEF Return
<1>2. /\ Readable \in SUBSET Vars /\ Operands \intersect Vars = Readable
      /\ Vars \intersect Consts = {}
  BY NameFacts, EntriesAssumption DEF Readable, Operands, Vars
<1>3. Current(s0, Readable) /\ Good(s0) /\ s0 \in GeneratorState
  BY <1>0, StartCurrent DEF Good, Reserved
<1> DEFINE from == IF s0.reg_index[x] # NOT_IN_REGISTER
                   THEN s0.reg[s0.reg_index[x]] ELSE s0.mem[Cell(x)]
           wrong == {v \in {x} \intersect Vars : v \notin from}
<1>4. freeReg(s0, RAX_INDEX) = s0
  BY <1>3, FreeReserved
<1>5. Emit(nukeRegisters(s0), wrong, {})
  BY <1>1, <1>4
<1>6. x \in Vars => x \in from
  <2>1. ASSUME x \in Vars, s0.reg_index[x] # NOT_IN_REGISTER
        PROVE  x \in s0.reg[s0.reg_index[x]]
    BY <1>0, <1>2, <1>3, <2>1, CurrentInRegister
  <2>2. ASSUME x \in Vars, s0.reg_index[x] = NOT_IN_REGISTER
        PROVE  x \in s0.mem[Cell(x)]
    BY <1>2, <1>3, <2>2 DEF Current, Slotted, Cell
  <2> QED
    BY <2>1, <2>2
<1>7. wrong = {}
  BY <1>6
<1> HIDE DEF wrong
<1>8. stale' = {} /\ cg'.register_file = nukeRegisters(s0).register_file
  BY <1>3, <1>5, <1>7, GoodNuked DEF Emit, Good, Reserved, GeneratorState
<1>9. \A i \in Regs : nukeRegisters(s0).register_file[i] = NULL
  BY <1>3 DEF nukeRegisters, GeneratorState, Good, Reserved
<1>10. FileInOrder'
  BY BoundariesKeep DEF Kept
<1>11. AllFree(cg)' = AllFree(cg')
  BY DEF AllFree
<1> QED
  BY <1>8, <1>9, <1>10, <1>11 DEF AllFree

\* A new function, or code only a jump reaches, starts with every variable in
\* its slot: it needs no register to have been left claimed.
LEMMA FreshFrame ==
    ASSUME FileInOrder, AllFree(cg),
           cg' = [cg EXCEPT !.reg = initialize_register_file.reg,
                            !.mem = initialize_register_file.mem],
           live' \subseteq Temps
    PROVE  FileInOrder' /\ Current(cg, Readable)' /\ Settled'
<1> DEFINE rg == [i \in Regs |-> {}]
           m  == [c \in Cells |-> {c}]
           K  == Readable'
<1>1. Good(cg) /\ cg \in GeneratorState
  BY DEF FileInOrder, Good, Reserved
<1>2. cg' = WithContents(cg, rg, m)
  BY DEF initialize_register_file, WithContents
<1>3. rg \in [Regs -> SUBSET Cells] /\ m \in [Cells -> SUBSET Cells]
  OBVIOUS
<1>4. K \subseteq Vars /\ K \subseteq Cells /\ NULL \notin K
  BY EntriesAssumption DEF Readable, Vars, Cells, Entries
<1>5. \A c \in Cells : m[c] = {c}
  OBVIOUS
<1> HIDE DEF rg, m, K
<1>6. Good(cg') /\ cg'.register_file = cg.register_file
  BY <1>1, <1>2, <1>3, GoodContents
<1>7. cg'.mem = m
  BY <1>1, <1>2 DEF WithContents, GeneratorState
<1>8. AllFree(cg')
  BY <1>6 DEF AllFree
<1>9. InMemory(cg', K)
  BY <1>4, <1>5, <1>7 DEF InMemory
<1>10. Current(cg', K)
  BY <1>4, <1>6, <1>8, <1>9 DEF Current, Claimed, Slotted, AllFree, InMemory
<1>11. Current(cg, Readable)' = Current(cg', K) /\ AllFree(cg)' = AllFree(cg')
       /\ InMemory(cg, Readable)' = InMemory(cg', K)
  BY DEF Current, Good, Claimed, Slotted, Reserved, Agree, Keeps, InMemory, AllFree, K
<1>12. FileInOrder'
  BY <1>6 DEF FileInOrder, Good, Reserved, Agree, Keeps
<1> QED
  BY <1>8, <1>9, <1>10, <1>11, <1>12 DEF Settled

-----------------------------------------------------------------------------
(* The inductive invariant                                                 *)

\* After a jump or a call.
JumpPhases == {"branch", "transfer", "param_test", "param_join"}

\* Where the values are, phase by phase: nothing has to be findable once a
\* function returned, and what is in registers must be in memory as well
\* where a jump or a call may be.
Held ==
    /\ FileInOrder
    /\ stale = {}
    /\ phase \notin {"returned", "unreturned"} => Current(cg, Readable)
    /\ phase \in JumpPhases => InMemory(cg, Readable)
    /\ phase \in {"entry", "transfer", "returned"} => AllFree(cg)

\* The phases an instruction leaves that ask for nothing but Kept.
OpenPhases == {"statement", "arguments", "param_true"}

\* A compiler that has emitted nothing has lost nothing.
LEMMA HeldAtFirst == Init => Held
<1> SUFFICES ASSUME Init PROVE Held
  OBVIOUS
<1>1. FileInOrder /\ Good(cg) /\ cg = initialize_register_file /\ live = {} /\ stale = {}
      /\ phase = "entry"
  BY InOrderAtFirst DEF FileInOrder, Init
<1>2. AllFree(cg) /\ \A c \in Cells : cg.mem[c] = {c}
  BY <1>1 DEF AllFree, initialize_register_file
<1>3. Readable \subseteq Cells /\ NULL \notin Readable
  BY <1>1, EntriesAssumption DEF Readable, Cells, Vars, Entries
<1>4. Current(cg, Readable)
  BY <1>1, <1>2, <1>3 DEF Current, Claimed, Slotted, AllFree
<1> QED
  BY <1>1, <1>2, <1>4 DEF Held, JumpPhases

\* No instruction loses a value.
LEMMA HeldNext ==
    ASSUME Disciplined, Held, [Next]_vars
    PROVE  Held'
<1>1. ASSUME phase \notin {"returned", "unreturned"} PROVE Kept
  BY <1>1 DEF Held, Kept
<1>2. ASSUME Kept', phase' \in OpenPhases PROVE Held'
  BY <1>2 DEF Held, Kept, OpenPhases, JumpPhases
<1>3. ASSUME Plain, Kept' PROVE Held'
  <2>1. phase' \in OpenPhases
    BY <1>3 DEF Plain, OpenPhases
  <2> QED
    BY <1>2, <1>3, <2>1
<1>4. \A k : InStatements(k) => Kept
  BY <1>1 DEF InStatements
<1>5. CASE \E x \in Locals : AssignConst(x) \/ AssignString(x)
  <2>1. Kept /\ Plain
    BY <1>4, <1>5 DEF AssignConst, AssignString
  <2> QED
    BY <1>3, <1>5, <2>1, AssignConstCurrent, AssignStringCurrent
<1>6. CASE \E x \in Locals, y \in Readable : AssignCopy(x, y)
  <2>1. Kept /\ Plain
    BY <1>4, <1>6 DEF AssignCopy
  <2> QED
    BY <1>3, <1>6, <2>1, AssignCopyCurrent
<1>7. CASE \E x \in Temps : BinaryFold(x)
  <2>1. Kept /\ Plain
    BY <1>4, <1>7 DEF BinaryFold
  <2> QED
    BY <1>3, <1>7, <2>1, BinaryFoldCurrent
<1>8. CASE \E x \in Temps, y, z \in Readable, dead \in SUBSET live : BinaryVars(x, y, z, dead)
  <2>1. Kept /\ Plain
    BY <1>4, <1>8 DEF BinaryVars
  <2> QED
    BY <1>3, <1>8, <2>1, BinaryVarsCurrent
<1>9. CASE \E x \in Temps, y \in Readable, dead \in SUBSET live :
             \/ BinaryRightConst(x, y, dead)
             \/ BinaryLeftConst(x, y, dead)
             \/ UnaryVar(x, y, dead)
             \/ \E c \in Consts : ConstMinusVar(x, c, y, dead)
  <2>1. PICK x \in Temps, y \in Readable, dead \in SUBSET live :
            \/ (OneOperand(x, y, dead) /\ \E k : InStatements(k))
            \/ \E c \in Consts : ConstMinusVar(x, c, y, dead)
    BY <1>9, Zenon DEF BinaryRightConst, BinaryLeftConst, UnaryVar
  <2>2. CASE OneOperand(x, y, dead) /\ \E k : InStatements(k)
    <3>1. Kept /\ Plain
      BY <1>4, <2>2 DEF OneOperand
    <3> QED
      BY <1>3, <2>2, <3>1, OneOperandCurrent
  <2>3. CASE \E c \in Consts : ConstMinusVar(x, c, y, dead)
    <3>1. Kept /\ Plain
      BY <1>4, <2>3 DEF ConstMinusVar
    <3> QED
      BY <1>3, <2>3, <3>1, ConstMinusVarCurrent
  <2> QED
    BY <2>1, <2>2, <2>3
<1>10. CASE \E x \in Temps, y, z \in Operands, dead \in SUBSET live : Divide(x, y, z, dead)
  <2>1. Kept /\ Plain
    BY <1>4, <1>10 DEF Divide
  <2> QED
    BY <1>3, <1>10, <2>1, DivideCurrent
<1>11. CASE \E x \in Temps, y \in Readable, z \in live : MemReadVar(x, y, z)
  <2>1. Kept /\ Plain
    BY <1>4, <1>11 DEF MemReadVar
  <2> QED
    BY <1>3, <1>11, <2>1, MemReadVarCurrent
<1>12. CASE \E x \in Operands, y \in Readable, z \in live \union Consts, dead \in SUBSET live :
             MemWrite(x, y, z, dead)
  <2>1. Kept /\ Plain
    BY <1>4, <1>12 DEF MemWrite
  <2> QED
    BY <1>3, <1>12, <2>1, MemWriteCurrent
<1>13. CASE (\E x \in Operands : IfTrue(x))
            \/ \E x, y \in Operands, supported \in BOOLEAN : IfRelop(x, y, supported)
  <2>1. Kept /\ phase' = "branch"
    BY <1>1, <1>4, <1>13 DEF IfTrue, IfRelop, Branches
  <2>2. Kept' /\ InMemory(cg, Readable)'
    BY <1>13, <2>1, BranchesCurrent
  <2> QED
    BY <2>1, <2>2 DEF Held, Kept
<1>14. CASE Goto \/ ParamGoto \/ \E x \in Temps \union {NULL} : Call(x)
  <2>1. Kept /\ phase' \in {"transfer", "param_test", "param_join"}
    BY <1>1, <1>4, <1>14 DEF Goto, ParamGoto, Call, Branches
  <2>2. Kept' /\ Settled'
    BY <1>14, <2>1, CallsCurrent
  <2> QED
    BY <2>1, <2>2 DEF Held, Kept, Settled
<1>15. CASE (\E x \in Operands : Param(x)) \/ ParamString \/ ParamTrue \/ ParamFalse
  <2>1. Kept /\ phase' \in OpenPhases
    BY <1>1, <1>15 DEF Param, ParamString, ParamTrue, ParamFalse, InArguments, OpenPhases
  <2>2. Kept'
    BY <1>15, <2>1, CallsCurrent
  <2> QED
    BY <1>2, <2>1, <2>2
<1>16. CASE \E x \in Temps, y \in Readable : ReadField(x, y)
  <2>1. Kept /\ phase' \in OpenPhases
    BY <1>1, <1>16 DEF ReadField, OpenPhases
  <2>2. Kept'
    BY <1>16, <2>1, MemReadConstCurrent DEF ReadField
  <2> QED
    BY <1>2, <2>1, <2>2
<1>17. CASE \E x \in Operands : Return(x)
  <2>1. Kept /\ phase' = "returned"
    BY <1>4, <1>17 DEF Return
  <2>2. FileInOrder' /\ stale' = {} /\ AllFree(cg)'
    BY <1>17, <2>1, ReturnCurrent
  <2> QED
    BY <2>1, <2>2 DEF Held, JumpPhases
<1>18. CASE ReturnString
  <2>1. phase' = "unreturned" /\ stale' = {} /\ FileInOrder'
    BY <1>18, BoundariesKeep DEF ReturnString, Emit, Held
  <2> QED
    BY <2>1 DEF Held, JumpPhases
<1>19. CASE NextFunction
  <2>1. Keeps("ends_flushed")
    BY EveryDiscipline DEF DisciplineSet
  <2>2. phase \in {"transfer", "returned"} /\ phase' = "entry" /\ stale' = {} /\ live' = {}
    BY <1>19, <2>1 DEF NextFunction
  <2>3. cg' = [cg EXCEPT !.reg = initialize_register_file.reg,
                         !.mem = initialize_register_file.mem]
    BY <1>19 DEF NextFunction
  <2>4. FileInOrder /\ AllFree(cg)
    BY <2>2 DEF Held
  <2>5. FileInOrder' /\ Current(cg, Readable)' /\ Settled'
    BY <2>2, <2>3, <2>4, FreshFrame
  <2> QED
    BY <2>2, <2>5 DEF Held, Settled, JumpPhases
<1>20. CASE AfterReturn
  <2>1. phase = "returned" /\ phase' = "transfer" /\ stale' = stale /\ live' = live
    BY <1>20 DEF AfterReturn
  <2>2. cg' = [cg EXCEPT !.reg = initialize_register_file.reg,
                         !.mem = initialize_register_file.mem]
    BY <1>20 DEF AfterReturn
  <2>3. FileInOrder /\ AllFree(cg) /\ live' \subseteq Temps /\ stale' = {}
    BY <2>1 DEF Held, FileInOrder
  <2>4. FileInOrder' /\ Current(cg, Readable)' /\ Settled'
    BY <2>2, <2>3, FreshFrame
  <2> QED
    BY <2>1, <2>3, <2>4 DEF Held, Settled
<1>21. CASE UNCHANGED vars
  <2>1. /\ cg' = cg /\ live' = live /\ phase' = phase /\ stale' = stale
    BY <1>21 DEF vars
  <2>2. FileInOrder' = FileInOrder /\ Readable' = Readable
    BY <2>1 DEF FileInOrder, Good, Reserved, Agree, Keeps, Readable
  <2>3. /\ Current(cg, Readable)' = Current(cg, Readable)
        /\ InMemory(cg, Readable)' = InMemory(cg, Readable) /\ AllFree(cg)' = AllFree(cg)
    BY <2>1, <2>2 DEF Current, Good, Claimed, Slotted, Reserved, Agree, Keeps, InMemory, AllFree
  <2> QED
    BY <2>1, <2>2, <2>3 DEF Held
<1> QED
  BY <1>5, <1>6, <1>7, <1>8, <1>9, <1>10, <1>11, <1>12, <1>13, <1>14, <1>15, <1>16,
     <1>17, <1>18, <1>19, <1>20, <1>21 DEF Next

\* So no value is ever lost.
LEMMA HeldAlways ==
    ASSUME Disciplined
    PROVE  Spec => []Held
<1>1. Held /\ [Next]_vars => Held'
  BY HeldNext
<1> QED
  BY <1>1, HeldAtFirst, PTL DEF Spec

\* For IR that keeps the disciplines, wherever loadReg will look for a variable
\* that is still read, the current value is there: no eviction, flush, stale
\* claim or reused register of cg.c ever loses it.
THEOREM ValuesFindableAlways ==
    ASSUME Disciplined
    PROVE  Spec => []ValuesFindable
<1>1. Held => ValuesFindable
  <2> SUFFICES ASSUME Held, phase \notin {"returned", "unreturned"}, NEW v \in Readable
               PROVE  v \in IF cg.reg_index[v] # NOT_IN_REGISTER
                            THEN cg.reg[cg.reg_index[v]] ELSE cg.mem[v]
    BY DEF ValuesFindable
  <2>1. Current(cg, Readable) /\ Readable \in SUBSET Vars /\ Keeps("no_eviction_clash")
    BY EveryDiscipline DEF Held, FileInOrder, Readable, Vars, DisciplineSet
  <2>2. CASE cg.reg_index[v] # NOT_IN_REGISTER
    BY <2>1, <2>2, CurrentInRegister
  <2>3. CASE cg.reg_index[v] = NOT_IN_REGISTER
    BY <2>1, <2>3 DEF Current, Slotted
  <2> QED
    BY <2>2, <2>3
<1> QED
  BY <1>1, HeldAlways, PTL

\* For such IR every operand of every instruction is read where its value is,
\* also after loading the instruction's other operands.
THEOREM OperandsCurrentAlways ==
    ASSUME Disciplined
    PROVE  Spec => []OperandsCurrent
<1>1. Held => OperandsCurrent
  BY DEF Held, OperandsCurrent
<1> QED
  BY <1>1, HeldAlways, PTL

\* For such IR the code at the target of a jump, which assumes an empty register
\* file, finds every variable in its slot.
THEOREM TransferInMemoryAlways ==
    ASSUME Disciplined
    PROVE  Spec => []TransferInMemory
<1>1. Held => TransferInMemory
  BY DEF Held, TransferInMemory, InMemory, JumpPhases
<1> QED
  BY <1>1, HeldAlways, PTL

-----------------------------------------------------------------------------
(* The registers a function starts with                                    *)

\* Where a function may end, no register is claimed.
Idle == phase \in {"entry", "transfer", "returned"} => AllFree(cg)

\* Only gotos, calls and returns lead there, and each of them flushes.
LEMMA IdleNext ==
    ASSUME Keeps("ends_flushed"), FileInOrder, Idle, [Next]_vars
    PROVE  Idle'
<1> DEFINE Busy == phase' \notin {"entry", "transfer", "returned"}
<1>0. Busy \/ AllFree(cg)' => Idle'
  BY DEF Idle
<1>1. Plain => Busy
  BY DEF Plain
<1>2. \A s0 \in AtStart : AllFree(freeAllRegs(s0)) /\ Good(s0) /\ Good(freeAllRegs(s0))
  BY GoodStart, GoodFlush DEF FileInOrder, AllFree
<1>3. ASSUME NEW s, s \in GeneratorState, AllFree(s), NEW wrong, NEW nowLive,
             Emit(s, wrong, nowLive)
      PROVE  AllFree(cg)'
  BY <1>3 DEF Emit, AllFree, GeneratorState
<1> HIDE DEF Busy
<1>4. CASE \E x \in Locals : AssignConst(x) \/ AssignString(x)
  BY <1>0, <1>1, <1>4 DEF AssignConst, AssignString
<1>5. CASE \E x \in Locals, y \in Readable : AssignCopy(x, y)
  BY <1>0, <1>1, <1>5 DEF AssignCopy
<1>6. CASE \E x \in Temps : BinaryFold(x)
  BY <1>0, <1>1, <1>6 DEF BinaryFold
<1>7. CASE \E x \in Temps, y, z \in Readable, dead \in SUBSET live : BinaryVars(x, y, z, dead)
  BY <1>0, <1>1, <1>7 DEF BinaryVars
<1>8. CASE \E x \in Temps, y \in Readable, dead \in SUBSET live :
             \/ BinaryRightConst(x, y, dead)
             \/ BinaryLeftConst(x, y, dead)
             \/ UnaryVar(x, y, dead)
             \/ \E c \in Consts : ConstMinusVar(x, c, y, dead)
  BY <1>0, <1>1, <1>8 DEF BinaryRightConst, BinaryLeftConst, UnaryVar, OneOperand,
                          ConstMinusVar
<1>9. CASE \E x \in Temps, y, z \in Operands, dead \in SUBSET live : Divide(x, y, z, dead)
  BY <1>0, <1>1, <1>9 DEF Divide
<1>10. CASE \E x \in Temps, y \in Readable, z \in live : MemReadVar(x, y, z)
  BY <1>0, <1>1, <1>10 DEF MemReadVar
<1>11. CASE \E x \in Operands, y \in Readable, z \in live \union Consts, dead \in SUBSET live :
             MemWrite(x, y, z, dead)
  <2>1. ASSUME NEW x, NEW y, NEW z, NEW dead, MemWrite(x, y, z, dead) PROVE Plain
    BY <2>1 DEF MemWrite
  <2> QED
    BY <1>0, <1>1, <1>11, <2>1
<1>12. CASE (\E x \in Operands : IfTrue(x))
            \/ \E x, y \in Operands, supported \in BOOLEAN : IfRelop(x, y, supported)
  BY <1>0, <1>12 DEF IfTrue, IfRelop, Busy
<1>13. CASE Goto
  <2>1. PICK s0 \in AtStart : Emit(freeAllRegs(s0), {}, live)
    BY <1>13 DEF Goto
  <2> QED
    BY <1>0, <1>2, <1>3, <2>1 DEF Good, Reserved
<1>14. CASE (\E x \in Operands : Param(x)) \/ ParamString \/ ParamTrue \/ ParamGoto \/ ParamFalse
  BY <1>0, <1>14 DEF Param, ParamString, ParamTrue, ParamGoto, ParamFalse, Busy
<1>15. CASE \E x \in Temps, y \in Readable : ReadField(x, y)
  BY <1>0, <1>15 DEF ReadField, Busy
<1>16. CASE \E x \in Temps \union {NULL} : Call(x)
  <2>1. PICK x \in Temps \union {NULL} : Call(x)
    BY <1>16
  <2>2. PICK s0 \in AtStart :
         LET s1 == Clobber(freeAllRegs(s0))
         IN  Emit(IF x = NULL THEN s1 ELSE ComputeInSlot(s1, x), {},
                  live \union ({x} \ {NULL}))
    BY <2>1 DEF Call
  <2> DEFINE s1 == Clobber(freeAllRegs(s0))
             t == IF x = NULL THEN s1 ELSE ComputeInSlot(s1, x)
  <2>3. Emit(t, {}, live \union ({x} \ {NULL}))
    BY <2>2
  <2>4. Good(s1) /\ AllFree(s1)
    BY <1>2, GoodClobber DEF AllFree
  <2> HIDE DEF s1
  <2>5. s1 \in GeneratorState
    BY <2>4 DEF Good, Reserved
  <2>6. t \in GeneratorState
    BY <2>4, <2>5, GoodEmitted, RegisterFacts DEF Good, Reserved, Vars
  <2>7. AllFree(t)
    <3>1. x # NULL => ComputeInSlot(s1, x).register_file = s1.register_file
      BY <2>5 DEF ComputeInSlot, Forget, GeneratorState
    <3> QED
      BY <2>4, <3>1 DEF AllFree
  <2> HIDE DEF t
  <2> QED
    BY <1>0, <1>3, <2>3, <2>6, <2>7
<1>17. CASE \E x \in Operands : Return(x)
  <2>1. PICK s0 \in AtStart : \E s1, wrong :
          /\ s1 \in {freeReg(s0, RAX_INDEX), s0}
          /\ Emit(nukeRegisters(s1), wrong, {})
    BY <1>17 DEF Return
  <2>2. PICK s1, wrong : /\ s1 \in {freeReg(s0, RAX_INDEX), s0}
                         /\ Emit(nukeRegisters(s1), wrong, {})
    BY <2>1
  <2>3. Good(s1)
    BY <1>2, <2>2, FreeReserved
  <2>4. nukeRegisters(s1) \in GeneratorState
    BY <2>3, GoodNuked DEF Good, Reserved
  <2>5. AllFree(nukeRegisters(s1))
    BY <2>3 DEF AllFree, nukeRegisters, Good, Reserved, GeneratorState
  <2> QED
    BY <1>0, <1>3, <2>2, <2>4, <2>5
<1>18. CASE ReturnString
  BY <1>0, <1>18 DEF ReturnString, Busy
<1>19. CASE NextFunction \/ AfterReturn
  <2>1. /\ phase \in {"transfer", "returned"}
        /\ cg' = [cg EXCEPT !.reg = initialize_register_file.reg,
                            !.mem = initialize_register_file.mem]
    BY <1>19 DEF NextFunction, AfterReturn
  <2>2. AllFree(cg) /\ cg \in GeneratorState
    BY <2>1 DEF Idle, FileInOrder, Good, Reserved
  <2>3. cg'.register_file = cg.register_file
    BY <2>1, <2>2 DEF GeneratorState
  <2> QED
    BY <1>0, <2>2, <2>3 DEF AllFree
<1>20. CASE UNCHANGED vars
  BY <1>20 DEF vars, Idle, AllFree
<1> QED
  BY <1>4, <1>5, <1>6, <1>7, <1>8, <1>9, <1>10, <1>11, <1>12, <1>13, <1>14, <1>15,
     <1>16, <1>17, <1>18, <1>19, <1>20 DEF Next

\* When every function ends in a jump, a call or a return, the next one starts
\* with no register claimed, although nothing resets the register file between
\* functions; no other discipline is needed.
THEOREM CleanEntryAlways ==
    ASSUME Keeps("ends_flushed")
    PROVE  Spec => []CleanEntry
<1>1. Init => Idle
  BY DEF Init, Idle, AllFree, initialize_register_file
<1>2. FileInOrder /\ Idle /\ [Next]_vars => Idle'
  BY IdleNext
<1>3. Idle => CleanEntry
  BY DEF Idle, CleanEntry, AllFree
<1> QED
  BY <1>1, <1>2, <1>3, InOrderAlways, PTL DEF Spec

-----------------------------------------------------------------------------
(* The caller's frame pointer                                              *)

\* The word the epilogue pops into %rbp is the one the prologue pushed.
Framed(s) == s \in GeneratorState /\ SAVED_RBP \in s.mem[SAVED_RBP]

\* A state's descriptors and contents, replaced.
With(s, f, x, rg, m) ==
    [s EXCEPT !.register_file = f, !.reg_index = x, !.reg = rg, !.mem = m]

\* Nothing but the contents of the one slot matters.
LEMMA FramedWith ==
    ASSUME NEW s, Framed(s), NEW f \in [Regs -> Entries \union {NULL}],
           NEW x \in [Entries -> Regs \union {NOT_IN_REGISTER}],
           NEW rg \in [Regs -> SUBSET Cells], NEW m \in [Cells -> SUBSET Cells],
           SAVED_RBP \in m[SAVED_RBP]
    PROVE  Framed(With(s, f, x, rg, m))
BY DEF Framed, With, GeneratorState

\* The helpers that change descriptors only.
LEMMA DescriptorsFramed ==
    ASSUME NEW s, Framed(s)
    PROVE  /\ \A i \in Regs, v \in Entries : Framed(Claim(s, i, v))
           /\ \A i \in Regs, v \in Entries \union {NULL} : Framed(setRegisterVariable(s, i, v))
           /\ \A v \in Entries : Framed(Detach(s, v))
           /\ \A i \in Allocatable : Framed([s EXCEPT !.victim = i])
           /\ Framed(nukeRegisters(s))
<1>0. /\ s \in GeneratorState /\ FIRST_VICTIM \in Allocatable
      /\ s.register_file \in [Regs -> Entries \union {NULL}]
      /\ s.reg_index \in [Entries -> Regs \union {NOT_IN_REGISTER}]
      /\ s.reg \in [Regs -> SUBSET Cells] /\ s.mem \in [Cells -> SUBSET Cells]
      /\ SAVED_RBP \in s.mem[SAVED_RBP]
  BY RegisterFacts DEF Framed, GeneratorState
<1>1. ASSUME NEW i \in Regs, NEW v \in Entries PROVE Framed(Claim(s, i, v))
  <2>1. /\ Update(s.register_file, i, v) \in [Regs -> Entries \union {NULL}]
        /\ Update(s.reg_index, v, i) \in [Entries -> Regs \union {NOT_IN_REGISTER}]
    BY <1>0 DEF Update
  <2>2. Claim(s, i, v) = With(s, Update(s.register_file, i, v), Update(s.reg_index, v, i),
                              s.reg, s.mem)
    BY <1>0 DEF Claim, With, Update, GeneratorState
  <2> QED
    BY <1>0, <2>1, <2>2, FramedWith
<1>2. ASSUME NEW i \in Regs PROVE Framed([s EXCEPT !.register_file[i] = NULL])
  BY <1>0 DEF Framed, GeneratorState
<1>3. ASSUME NEW v \in Entries PROVE Framed(Detach(s, v))
  BY <1>0 DEF Framed, Detach, GeneratorState
<1>4. ASSUME NEW i \in Allocatable PROVE Framed([s EXCEPT !.victim = i])
  BY <1>0 DEF Framed, GeneratorState
<1>5. Framed(nukeRegisters(s))
  <2> DEFINE f == [i \in Regs |-> IF i = RAX_INDEX THEN s.register_file[i] ELSE NULL]
             x == [e \in Entries |->
                     IF Claimants(s, e) \ {RAX_INDEX} = {} THEN s.reg_index[e]
                     ELSE NOT_IN_REGISTER]
  <2>1. /\ f \in [Regs -> Entries \union {NULL}]
        /\ x \in [Entries -> Regs \union {NOT_IN_REGISTER}]
    BY <1>0
  <2>2. nukeRegisters(s) = [s EXCEPT !.register_file = f, !.reg_index = x,
                                     !.victim = FIRST_VICTIM]
    BY <1>0 DEF nukeRegisters, GeneratorState
  <2> HIDE DEF f, x
  <2> QED
    BY <1>0, <2>1, <2>2 DEF Framed, GeneratorState
<1>6. ASSUME NEW i \in Regs, NEW v \in Entries \union {NULL}
      PROVE  Framed(setRegisterVariable(s, i, v))
  BY <1>1, <1>2 DEF setRegisterVariable
<1> QED
  BY <1>1, <1>3, <1>4, <1>5, <1>6

\* The emitted instructions: none writes that slot but the store of a constant.
LEMMA ContentsFramed ==
    ASSUME NEW s, Framed(s)
    PROVE  /\ \A r \in Regs, x \in Vars : Framed(Compute(s, r, x))
           /\ \A x \in Vars : Framed(ComputeInSlot(s, x))
           /\ \A x, y \in Vars : Framed(Alias(s, x, y))
           /\ \A r \in Regs : Framed(Garbage(s, r))
           /\ Framed(Clobber(s)) /\ Framed(Join(s))
           /\ \A r \in Regs, y \in Vars : Framed(saveRegVariable(s, r, y))
<1>0. /\ s \in GeneratorState
      /\ s.register_file \in [Regs -> Entries \union {NULL}]
      /\ s.reg_index \in [Entries -> Regs \union {NOT_IN_REGISTER}]
      /\ s.reg \in [Regs -> SUBSET Cells] /\ s.mem \in [Cells -> SUBSET Cells]
      /\ SAVED_RBP \in s.mem[SAVED_RBP] /\ SAVED_RBP \in Cells
      /\ \A v \in Vars : v \in Cells /\ v # SAVED_RBP /\ v \notin Consts
  BY EntriesAssumption DEF Framed, GeneratorState, Cells, Entries
<1>1. ASSUME NEW rg \in [Regs -> SUBSET Cells], NEW m \in [Cells -> SUBSET Cells],
             SAVED_RBP \in m[SAVED_RBP]
      PROVE  Framed(WithContents(s, rg, m))
  BY <1>0, <1>1 DEF Framed, WithContents, GeneratorState
<1>2. ASSUME NEW r \in Regs, NEW x \in Vars PROVE Framed(Compute(s, r, x))
  <2> DEFINE rg == Update([i \in Regs |-> s.reg[i] \ {x}], r, {x})
             m  == [c \in Cells |-> s.mem[c] \ {x}]
  <2>1. /\ rg \in [Regs -> SUBSET Cells] /\ m \in [Cells -> SUBSET Cells]
        /\ SAVED_RBP \in m[SAVED_RBP]
    BY <1>0 DEF Update
  <2>2. Compute(s, r, x) = WithContents(s, rg, m)
    BY <1>0 DEF Compute, Forget, WithContents, Update, GeneratorState
  <2> HIDE DEF rg, m
  <2> QED
    BY <1>1, <2>1, <2>2
<1>3. ASSUME NEW x \in Vars PROVE Framed(ComputeInSlot(s, x))
  <2> DEFINE rg == [i \in Regs |-> s.reg[i] \ {x}]
             m  == Update([c \in Cells |-> s.mem[c] \ {x}], x, {x})
  <2>1. /\ rg \in [Regs -> SUBSET Cells] /\ m \in [Cells -> SUBSET Cells]
        /\ SAVED_RBP \in m[SAVED_RBP]
    BY <1>0 DEF Update
  <2>2. ComputeInSlot(s, x) = WithContents(s, rg, m)
    BY <1>0 DEF ComputeInSlot, Forget, WithContents, Update, GeneratorState
  <2> HIDE DEF rg, m
  <2> QED
    BY <1>1, <2>1, <2>2
<1>4. ASSUME NEW x \in Vars, NEW y \in Vars PROVE Framed(Alias(s, x, y))
  <2> DEFINE with(S) == IF y \in S THEN S \union {x} ELSE S \ {x}
             rg == [i \in Regs |-> with(s.reg[i])]
             m  == [c \in Cells |-> with(s.mem[c])]
  <2>1. /\ rg \in [Regs -> SUBSET Cells] /\ m \in [Cells -> SUBSET Cells]
        /\ SAVED_RBP \in m[SAVED_RBP]
    BY <1>0
  <2>2. Alias(s, x, y) = WithContents(s, rg, m)
    BY DEF Alias, WithContents
  <2> HIDE DEF rg, m
  <2> QED
    BY <1>1, <2>1, <2>2
<1>5. ASSUME NEW r \in Regs PROVE Framed(Garbage(s, r))
  BY <1>0 DEF Framed, Garbage, GeneratorState
<1>6. Framed(Clobber(s))
  BY <1>0 DEF Framed, Clobber, GeneratorState
<1>7. Framed(Join(s))
  <2> DEFINE rg == [i \in Regs |-> {}]
             m  == [c \in Cells |-> s.mem[c] \intersect {c}]
  <2>1. /\ rg \in [Regs -> SUBSET Cells] /\ m \in [Cells -> SUBSET Cells]
        /\ SAVED_RBP \in m[SAVED_RBP]
    BY <1>0
  <2>2. Join(s) = WithContents(s, rg, m)
    BY DEF Join, WithContents
  <2> HIDE DEF rg, m
  <2> QED
    BY <1>1, <2>1, <2>2
<1>8. ASSUME NEW r \in Regs, NEW y \in Vars PROVE Framed(saveRegVariable(s, r, y))
  <2>1. /\ Update(s.mem, y, s.reg[r]) \in [Cells -> SUBSET Cells]
        /\ SAVED_RBP \in Update(s.mem, y, s.reg[r])[SAVED_RBP]
    BY <1>0 DEF Update
  <2>2. saveRegVariable(s, r, y) = WithContents(s, s.reg, Update(s.mem, y, s.reg[r]))
    BY <1>0 DEF saveRegVariable, Cell, WithContents, Update, GeneratorState
  <2> QED
    BY <1>0, <1>1, <2>1, <2>2
<1> QED
  BY <1>2, <1>3, <1>4, <1>5, <1>6, <1>7, <1>8

\* The allocator stores variables to their own slots and constants nowhere.
LEMMA AllocatorFramed ==
    ASSUME NEW s, Framed(s)
    PROVE  /\ \A i \in Regs : Framed(freeReg(s, i))
           /\ \A v \in Entries : Framed(getReg(s, v)) /\ getReg(s, v).reg_index[v] \in Regs
           /\ \A v \in Vars : Framed(loadReg(s, v)) /\ loadReg(s, v).reg_index[v] \in Regs
           /\ Framed(freeAllRegs(s))
<1>0. /\ s \in GeneratorState
      /\ s.register_file \in [Regs -> Entries \union {NULL}]
      /\ s.reg_index \in [Entries -> Regs \union {NOT_IN_REGISTER}]
      /\ s.reg \in [Regs -> SUBSET Cells] /\ s.mem \in [Cells -> SUBSET Cells]
      /\ SAVED_RBP \in s.mem[SAVED_RBP] /\ SAVED_RBP \in Cells
      /\ Allocatable \subseteq Regs /\ s.victim \in Allocatable
  BY RegisterFacts DEF Framed, GeneratorState, Cells
<1>1. ASSUME NEW i \in Regs PROVE Framed(freeReg(s, i))
  <2>1. CASE s.register_file[i] = NULL
    BY <2>1 DEF freeReg
  <2>2. CASE s.register_file[i] # NULL
    <3> DEFINE v == s.register_file[i]
               f == Update(s.register_file, i, NULL)
               x == Update(s.reg_index, v, NOT_IN_REGISTER)
               m == IF v \in Consts THEN s.mem ELSE Update(s.mem, v, s.reg[i])
    <3>1. v \in Entries /\ v # SAVED_RBP /\ (v \notin Consts => v \in Cells)
      BY <1>0, <2>2, EntriesAssumption DEF Entries, Cells
    <3>2. freeReg(s, i) = Spill(s, i, v)
      BY <2>2 DEF freeReg
    <3> HIDE DEF v
    <3>3. freeReg(s, i) = With(s, f, x, s.reg, m)
      BY <1>0, <3>2 DEF Spill, With, Update, GeneratorState
    <3>4. /\ f \in [Regs -> Entries \union {NULL}]
          /\ x \in [Entries -> Regs \union {NOT_IN_REGISTER}]
          /\ m \in [Cells -> SUBSET Cells] /\ SAVED_RBP \in m[SAVED_RBP]
      BY <1>0, <3>1 DEF Update
    <3> HIDE DEF f, x, m
    <3> QED
      BY <1>0, <3>3, <3>4, FramedWith
  <2> QED
    BY <2>1, <2>2
<1>2. ASSUME NEW v \in Entries
      PROVE  Framed(getReg(s, v)) /\ getReg(s, v).reg_index[v] \in Regs
  <2>1. CASE s.reg_index[v] # NOT_IN_REGISTER
    BY <1>0, <2>1 DEF getReg
  <2>2. ASSUME NEW t, Framed(t), NEW i \in Regs
        PROVE  Framed(Claim(t, i, v)) /\ Claim(t, i, v).reg_index[v] = i
    <3>1. t \in GeneratorState
      BY <2>2 DEF Framed
    <3> QED
      BY <2>2, <3>1, DescriptorsFramed DEF Claim, GeneratorState
  <2>3. CASE s.reg_index[v] = NOT_IN_REGISTER /\ FreeSet(s) # {}
    <3>1. FreeSet(s) \in SUBSET Regs
      BY <1>0 DEF FreeSet
    <3>2. Least(FreeSet(s)) \in Regs
      BY <2>3, <3>1, LeastIn
    <3>3. getReg(s, v) = Claim(s, Least(FreeSet(s)), v)
      BY <2>3 DEF getReg
    <3> QED
      BY <2>2, <3>2, <3>3
  <2>4. CASE s.reg_index[v] = NOT_IN_REGISTER /\ FreeSet(s) = {}
    <3> DEFINE i == s.victim
               w == Claim(freeReg(s, i), i, v)
    <3>1. getReg(s, v) = [w EXCEPT !.victim = NextVictim(i)]
      BY <2>4 DEF getReg
    <3>2. NextVictim(i) \in Allocatable /\ i \in Regs
      BY <1>0, NextVictimAllocatable
    <3>3. Framed(w) /\ w.reg_index[v] = i
      BY <1>1, <2>2, <3>2
    <3> HIDE DEF w, i
    <3>4. getReg(s, v).reg_index = w.reg_index
      BY <3>1, <3>3 DEF Framed, GeneratorState
    <3> QED
      BY <3>1, <3>2, <3>3, <3>4, DescriptorsFramed
  <2> QED
    BY <2>1, <2>3, <2>4
<1>3. ASSUME NEW v \in Vars
      PROVE  Framed(loadReg(s, v)) /\ loadReg(s, v).reg_index[v] \in Regs
  <2>0. v \in Entries /\ v \in Cells /\ v \notin Consts
    BY EntriesAssumption DEF Entries, Cells
  <2>1. CASE s.reg_index[v] # NOT_IN_REGISTER
    BY <1>0, <2>0, <2>1 DEF loadReg
  <2>2. CASE s.reg_index[v] = NOT_IN_REGISTER
    <3> DEFINE t == getReg(s, v)
    <3>1. loadReg(s, v) = [t EXCEPT !.reg[t.reg_index[v]] = t.mem[v]]
      BY <2>0, <2>2 DEF loadReg, Cell
    <3>2. Framed(t) /\ t.reg_index[v] \in Regs
      BY <1>2, <2>0
    <3> HIDE DEF t
    <3>3. t.mem[v] \in SUBSET Cells
      BY <2>0, <3>2 DEF Framed, GeneratorState
    <3> DEFINE r == t.reg_index[v]
               rg == [t.reg EXCEPT ![r] = t.mem[v]]
    <3>4. r \in Regs /\ rg \in [Regs -> SUBSET Cells] /\ t \in GeneratorState
      BY <3>2, <3>3 DEF Framed, GeneratorState
    <3>5. loadReg(s, v) = [t EXCEPT !.reg = rg]
      BY <3>1, <3>4 DEF GeneratorState
    <3> HIDE DEF rg
    <3>6. [t EXCEPT !.reg = rg] \in GeneratorState
      BY <3>4 DEF GeneratorState
    <3>7. [t EXCEPT !.reg = rg].mem = t.mem /\ [t EXCEPT !.reg = rg].reg_index = t.reg_index
      BY <3>4 DEF GeneratorState
    <3> QED
      BY <3>2, <3>4, <3>5, <3>6, <3>7 DEF Framed
  <2> QED
    BY <2>1, <2>2
<1>4. Framed(freeAllRegs(s))
  <2> DEFINE f == [i \in Regs |-> NULL]
             x == [e \in Entries |-> IF Claimants(s, e) = {} THEN s.reg_index[e]
                                     ELSE NOT_IN_REGISTER]
             m == [c \in Cells |-> IF c \in Vars /\ Claimants(s, c) # {}
                                   THEN s.reg[Greatest(Claimants(s, c))] ELSE s.mem[c]]
             w == With(s, f, x, s.reg, m)
  <2>1. m \in [Cells -> SUBSET Cells]
    <3> SUFFICES ASSUME NEW c \in Cells, c \in Vars /\ Claimants(s, c) # {}
                 PROVE  s.reg[Greatest(Claimants(s, c))] \in SUBSET Cells
      BY <1>0
    <3>1. Claimants(s, c) \in SUBSET Regs
      BY DEF Claimants
    <3>2. Greatest(Claimants(s, c)) \in Regs
      BY <3>1, GreatestIn
    <3> QED
      BY <1>0, <3>2
  <2>2. /\ f \in [Regs -> Entries \union {NULL}]
        /\ x \in [Entries -> Regs \union {NOT_IN_REGISTER}]
    BY <1>0
  <2>3. SAVED_RBP \in m[SAVED_RBP]
    BY <1>0, EntriesAssumption DEF Entries
  <2>4. freeAllRegs(s) = [w EXCEPT !.victim = FIRST_VICTIM]
    BY <1>0 DEF freeAllRegs, With, GeneratorState
  <2> HIDE DEF f, x, m
  <2>5. Framed(w)
    BY <1>0, <2>1, <2>2, <2>3, FramedWith
  <2> HIDE DEF w
  <2> QED
    BY <2>4, <2>5, DescriptorsFramed, RegisterFacts
<1> QED
  BY <1>1, <1>2, <1>3, <1>4

\* An operand's register is saved to the operand's own slot, then overwritten.
LEMMA OverwriteFramed ==
    ASSUME NEW s, Framed(s), NEW x \in Vars, NEW y \in Vars, NEW r \in Regs
    PROVE  Framed(OverwriteOperand(s, x, y, r))
<1> DEFINE t == saveRegVariable(s, r, y)
           u == Compute(t, r, x)
           w == setRegisterVariable(u, r, x)
<1>1. x \in Entries /\ y \in Entries
  BY DEF Entries
<1>2. Framed(t)
  BY ContentsFramed
<1>3. OverwriteOperand(s, x, y, r) = Detach(w, y)
  BY DEF OverwriteOperand
<1> HIDE DEF t
<1>4. Framed(u)
  BY <1>2, ContentsFramed
<1> HIDE DEF u
<1>5. Framed(w)
  BY <1>1, <1>4, DescriptorsFramed
<1> HIDE DEF w
<1> QED
  BY <1>1, <1>3, <1>5, DescriptorsFramed

\* The operand of a comparison: a constant's register holds no slot's value.
LEMMA loadOperandFramed ==
    ASSUME NEW s, Framed(s), NEW v \in Entries
    PROVE  Framed(loadOperand(s, v))
<1>1. CASE v \in Vars
  <2>1. loadOperand(s, v) = loadReg(s, v)
    BY <1>1, EntriesAssumption DEF loadOperand
  <2> QED
    BY <1>1, <2>1, AllocatorFramed
<1>2. CASE v \in Consts
  <2> DEFINE t == getReg(s, v)
             u == Garbage(t, t.reg_index[v])
  <2>1. Framed(t) /\ t.reg_index[v] \in Regs
    BY AllocatorFramed
  <2>2. loadOperand(s, v) = setRegisterVariable(u, t.reg_index[v], v)
    BY <1>2 DEF loadOperand
  <2> HIDE DEF t
  <2>3. Framed(u)
    BY <2>1, ContentsFramed
  <2> HIDE DEF u
  <2> QED
    BY <2>1, <2>2, <2>3, DescriptorsFramed
<1> QED
  BY <1>1, <1>2 DEF Entries

\* Emit forgets what nobody reads again, never the slot the epilogue pops.
LEMMA EmitFramed ==
    ASSUME NEW s, Framed(s), NEW wrong, NEW nowLive \in SUBSET Temps,
           Emit(s, wrong, nowLive)
    PROVE  Framed(cg)'
<1> DEFINE kept == Locals \union nowLive \union {SAVED_RBP}
           used(i) == s.register_file[i] # NULL \/ \E e \in Entries : s.reg_index[e] = i
           rg == [i \in Regs |-> IF used(i) THEN s.reg[i] \intersect kept ELSE {}]
           m == [d \in Cells |-> IF d \in kept THEN s.mem[d] \intersect kept ELSE {}]
<1>1. cg' = [s EXCEPT !.reg = rg, !.mem = m]
  BY DEF Emit
<1>2. /\ s \in GeneratorState /\ SAVED_RBP \in Cells /\ SAVED_RBP \in s.mem[SAVED_RBP]
      /\ s.reg \in [Regs -> SUBSET Cells] /\ s.mem \in [Cells -> SUBSET Cells]
  BY DEF Framed, GeneratorState, Cells
<1>3. /\ rg \in [Regs -> SUBSET Cells] /\ m \in [Cells -> SUBSET Cells]
      /\ SAVED_RBP \in m[SAVED_RBP]
  BY <1>2
<1> HIDE DEF rg, m
<1>4. Framed(cg')
  BY <1>1, <1>2, <1>3 DEF Framed, GeneratorState
<1> QED
  BY <1>4 DEF Framed

\* The descriptors in order and the frame pointer in its slot.
Anchored == FileInOrder /\ Framed(cg)

\* An instruction starts with it there, a leader or not.
LEMMA StartFramed ==
    ASSUME Anchored
    PROVE  /\ \A s0 \in AtStart : Framed(s0) /\ Framed(freeAllRegs(s0))
           /\ Locals \subseteq Vars /\ Temps \subseteq Vars /\ Vars \subseteq Entries
           /\ Readable \subseteq Vars /\ live \subseteq Temps /\ Operands \subseteq Entries
           /\ \A v : v \in Operands => v \in Vars \/ v \in Consts
<1>1. Framed(freeAllRegs(cg))
  BY AllocatorFramed DEF Anchored
<1>2. Framed(Join(freeAllRegs(cg)))
  BY <1>1, ContentsFramed
<1>3. \A s0 \in AtStart : Framed(s0)
  BY <1>2 DEF AtStart, Anchored
<1>4. live \subseteq Temps
  BY DEF Anchored, FileInOrder
<1> QED
  BY <1>3, <1>4, AllocatorFramed DEF Readable, Operands, Vars, Entries

\* x := y.
LEMMA AssignFramed ==
    ASSUME Anchored, NEW x \in Locals
    PROVE  /\ AssignConst(x) => Framed(cg)'
           /\ AssignString(x) => Framed(cg)'
           /\ \A y \in Readable : AssignCopy(x, y) => Framed(cg)'
<1>0. /\ x \in Vars /\ x \in Entries /\ live \in SUBSET Temps
      /\ \A s0 \in AtStart : Framed(s0)
  BY StartFramed
<1>1. ASSUME AssignConst(x) PROVE Framed(cg)'
  <2>1. PICK s0 \in AtStart :
           LET s1 == getReg(s0, x) IN Emit(Compute(s1, s1.reg_index[x], x), {}, live)
    BY <1>1 DEF AssignConst
  <2> DEFINE s1 == getReg(s0, x)
  <2>2. Framed(s1) /\ s1.reg_index[x] \in Regs
    BY <1>0, AllocatorFramed
  <2>3. Emit(Compute(s1, s1.reg_index[x], x), {}, live)
    BY <2>1
  <2> HIDE DEF s1
  <2>4. Framed(Compute(s1, s1.reg_index[x], x))
    BY <1>0, <2>2, ContentsFramed
  <2> QED
    BY <1>0, <2>3, <2>4, EmitFramed
<1>2. ASSUME AssignString(x) PROVE Framed(cg)'
  <2>1. PICK s0 \in AtStart :
           LET s1 == getReg(s0, x)
               r  == s1.reg_index[x]
               s2 == Clobber(freeAllRegs(s1))
           IN  Emit(Compute(setRegisterVariable(s2, r, x), r, x), {}, live)
    BY <1>2 DEF AssignString
  <2> DEFINE s1 == getReg(s0, x)
             r  == s1.reg_index[x]
             f  == freeAllRegs(s1)
             s2 == Clobber(f)
             s3 == setRegisterVariable(s2, r, x)
  <2>2. Framed(s1) /\ r \in Regs
    BY <1>0, AllocatorFramed
  <2>3. Emit(Compute(s3, r, x), {}, live)
    BY <2>1
  <2> HIDE DEF s1, r
  <2>4. Framed(f)
    BY <2>2, AllocatorFramed
  <2> HIDE DEF f
  <2>5. Framed(s2)
    BY <2>4, ContentsFramed
  <2> HIDE DEF s2
  <2>6. Framed(s3)
    BY <1>0, <2>2, <2>5, DescriptorsFramed
  <2> HIDE DEF s3
  <2>7. Framed(Compute(s3, r, x))
    BY <1>0, <2>2, <2>6, ContentsFramed
  <2> QED
    BY <1>0, <2>3, <2>7, EmitFramed
<1>3. ASSUME NEW y \in Readable, AssignCopy(x, y) PROVE Framed(cg)'
  <2>1. PICK s0 \in AtStart :
           LET s1 == loadReg(s0, y)
               r  == s1.reg_index[y]
               s2 == Detach(setRegisterVariable(s1, r, x), y)
           IN  Emit(Alias(s2, x, y), Missing(s1, {y}), live \ {y})
    BY <1>3 DEF AssignCopy
  <2> DEFINE s1 == loadReg(s0, y)
             r  == s1.reg_index[y]
             w  == setRegisterVariable(s1, r, x)
             s2 == Detach(w, y)
             wrong == Missing(s1, {y})
  <2>2. y \in Vars /\ y \in Entries /\ live \ {y} \in SUBSET Temps
    BY <1>0, StartFramed
  <2>3. Framed(s1) /\ r \in Regs
    BY <1>0, <2>2, AllocatorFramed
  <2>4. Emit(Alias(s2, x, y), wrong, live \ {y})
    BY <2>1
  <2> HIDE DEF s1, r, wrong
  <2>5. Framed(w)
    BY <1>0, <2>3, DescriptorsFramed
  <2> HIDE DEF w
  <2>6. Framed(s2)
    BY <2>2, <2>5, DescriptorsFramed
  <2> HIDE DEF s2
  <2>7. Framed(Alias(s2, x, y))
    BY <1>0, <2>2, <2>6, ContentsFramed
  <2> QED
    BY <2>2, <2>4, <2>7, EmitFramed
<1> QED
  BY <1>1, <1>2, <1>3

\* x := y op z and x := op y, but for division and c - z.
LEMMA OperationsFramed ==
    ASSUME Anchored, NEW x \in Temps
    PROVE  /\ BinaryFold(x) => Framed(cg)'
           /\ \A y, z \in Readable, dead \in SUBSET live :
                BinaryVars(x, y, z, dead) => Framed(cg)'
           /\ \A y \in Readable, dead \in SUBSET live :
                OneOperand(x, y, dead) => Framed(cg)'
<1>0. /\ x \in Vars /\ x \in Entries /\ live \union {x} \in SUBSET Temps
      /\ \A dead : (live \ dead) \union {x} \in SUBSET Temps
      /\ \A s0 \in AtStart : Framed(s0)
      /\ \A y \in Readable : y \in Vars /\ y \in Entries
  BY StartFramed
<1>1. ASSUME BinaryFold(x) PROVE Framed(cg)'
  <2>1. PICK s0 \in AtStart :
           LET s1 == getReg(s0, x)
           IN  Emit(Compute(s1, s1.reg_index[x], x), {}, live \union {x})
    BY <1>1 DEF BinaryFold
  <2> DEFINE s1 == getReg(s0, x)
  <2>2. Framed(s1) /\ s1.reg_index[x] \in Regs
    BY <1>0, AllocatorFramed
  <2>3. Emit(Compute(s1, s1.reg_index[x], x), {}, live \union {x})
    BY <2>1
  <2> HIDE DEF s1
  <2>4. Framed(Compute(s1, s1.reg_index[x], x))
    BY <1>0, <2>2, ContentsFramed
  <2> QED
    BY <1>0, <2>3, <2>4, EmitFramed
<1>2. ASSUME NEW y \in Readable, NEW z \in Readable, NEW dead \in SUBSET live,
             BinaryVars(x, y, z, dead)
      PROVE  Framed(cg)'
  <2>1. PICK s0 \in AtStart :
           LET s1 == loadReg(s0, y)
               ry == s1.reg_index[y]
               s2 == loadReg(s1, z)
           IN  Emit(OverwriteOperand(s2, x, y, ry),
                    {v \in {y} : v \notin s2.reg[ry]} \union Missing(s2, {z}),
                    (live \ dead) \union {x})
    BY <1>2 DEF BinaryVars
  <2> DEFINE s1 == loadReg(s0, y)
             ry == s1.reg_index[y]
             s2 == loadReg(s1, z)
             wrong == {v \in {y} : v \notin s2.reg[ry]} \union Missing(s2, {z})
  <2>2. Framed(s1) /\ ry \in Regs
    BY <1>0, AllocatorFramed
  <2>3. Emit(OverwriteOperand(s2, x, y, ry), wrong, (live \ dead) \union {x})
    BY <2>1
  <2> HIDE DEF s1, ry, wrong
  <2>4. Framed(s2)
    BY <1>0, <2>2, AllocatorFramed
  <2> HIDE DEF s2
  <2>5. Framed(OverwriteOperand(s2, x, y, ry))
    BY <1>0, <2>2, <2>4, OverwriteFramed
  <2> QED
    BY <1>0, <2>3, <2>5, EmitFramed
<1>3. ASSUME NEW y \in Readable, NEW dead \in SUBSET live, OneOperand(x, y, dead)
      PROVE  Framed(cg)'
  <2>1. PICK s0 \in AtStart :
           LET s1 == loadReg(s0, y)
           IN  Emit(OverwriteOperand(s1, x, y, s1.reg_index[y]),
                    Missing(s1, {y}), (live \ dead) \union {x})
    BY <1>3 DEF OneOperand
  <2> DEFINE s1 == loadReg(s0, y)
             ry == s1.reg_index[y]
             wrong == Missing(s1, {y})
  <2>2. Framed(s1) /\ ry \in Regs
    BY <1>0, AllocatorFramed
  <2>3. Emit(OverwriteOperand(s1, x, y, ry), wrong, (live \ dead) \union {x})
    BY <2>1
  <2> HIDE DEF s1, ry, wrong
  <2>4. Framed(OverwriteOperand(s1, x, y, ry))
    BY <1>0, <2>2, OverwriteFramed
  <2> QED
    BY <1>0, <2>3, <2>4, EmitFramed
<1> QED
  BY <1>1, <1>2, <1>3

\* Loading an operand of a division that is a variable.
LEMMA LoadFramed ==
    ASSUME NEW s, Framed(s), NEW v \in Operands, Operands \subseteq Vars \union Consts
    PROVE  Framed(IF v \in Consts THEN s ELSE loadReg(s, v))
BY AllocatorFramed

\* x := y / z and x := y % z.
LEMMA DivideFramed ==
    ASSUME Anchored, NEW x \in Temps, NEW y \in Operands, NEW z \in Operands,
           NEW dead \in SUBSET live, Divide(x, y, z, dead)
    PROVE  Framed(cg)'
<1> DEFINE load(s, v) == IF v \in Consts THEN s ELSE loadReg(s, v)
<1>1. PICK s0 \in AtStart :
         LET s1 == load(load(s0, y), z)
             s2 == load(freeReg(freeReg(s1, RAX_INDEX), RDX_INDEX), y)
             wy == IF y \in Consts THEN {} ELSE Missing(s2, {y})
             s3 == IF z \in Consts
                   THEN LET t == getReg(s2, z)
                        IN  setRegisterVariable(Garbage(t, t.reg_index[z]), t.reg_index[z], z)
                   ELSE loadReg(s2, z)
             wz == IF z \in Consts THEN {} ELSE Missing(s3, {z})
             s4 == ComputeInSlot(Garbage(Garbage(s3, RAX_INDEX), RDX_INDEX), x)
             s5 == freeReg(freeReg(s4, RAX_INDEX), RDX_INDEX)
         IN  Emit(Detach(Detach(s5, y), x), wy \union wz, (live \ dead) \union {x})
  BY DEF Divide
<1> DEFINE a  == load(s0, y)
           s1 == load(a, z)
           f1 == freeReg(s1, RAX_INDEX)
           f2 == freeReg(f1, RDX_INDEX)
           s2 == load(f2, y)
           s3 == loadOperand(s2, z)
           g1 == Garbage(s3, RAX_INDEX)
           g2 == Garbage(g1, RDX_INDEX)
           s4 == ComputeInSlot(g2, x)
           f3 == freeReg(s4, RAX_INDEX)
           s5 == freeReg(f3, RDX_INDEX)
           d1 == Detach(s5, y)
           wy == IF y \in Consts THEN {} ELSE Missing(s2, {y})
           wz == IF z \in Consts THEN {} ELSE Missing(s3, {z})
<1>2. Emit(Detach(d1, x), wy \union wz, (live \ dead) \union {x})
  BY <1>1 DEF loadOperand
<1>3. /\ x \in Vars /\ x \in Entries /\ y \in Entries /\ z \in Entries
      /\ Operands \subseteq Vars \union Consts /\ (live \ dead) \union {x} \in SUBSET Temps
      /\ Framed(s0) /\ RAX_INDEX \in Regs /\ RDX_INDEX \in Regs
  BY StartFramed, RegisterFacts
<1>4. Framed(a)
  BY <1>3, LoadFramed
<1> HIDE DEF a
<1>5. Framed(s1)
  BY <1>3, <1>4, LoadFramed
<1> HIDE DEF s1, wy, wz
<1>6. Framed(f1)
  BY <1>3, <1>5, AllocatorFramed
<1> HIDE DEF f1
<1>7. Framed(f2)
  BY <1>3, <1>6, AllocatorFramed
<1> HIDE DEF f2
<1>8. Framed(s2)
  BY <1>3, <1>7, LoadFramed
<1> HIDE DEF s2
<1>9. Framed(s3)
  BY <1>3, <1>8, loadOperandFramed
<1> HIDE DEF s3
<1>10. Framed(g1)
  BY <1>3, <1>9, ContentsFramed
<1> HIDE DEF g1
<1>11. Framed(g2)
  BY <1>3, <1>10, ContentsFramed
<1> HIDE DEF g2
<1>12. Framed(s4)
  BY <1>3, <1>11, ContentsFramed
<1> HIDE DEF s4
<1>13. Framed(f3)
  BY <1>3, <1>12, AllocatorFramed
<1> HIDE DEF f3
<1>14. Framed(s5)
  BY <1>3, <1>13, AllocatorFramed
<1> HIDE DEF s5
<1>15. Framed(d1)
  BY <1>3, <1>14, DescriptorsFramed
<1> HIDE DEF d1
<1>16. Framed(Detach(d1, x))
  BY <1>3, <1>15, DescriptorsFramed
<1> QED
  BY <1>2, <1>3, <1>16, EmitFramed

\* x := y[z].
LEMMA MemReadFramed ==
    ASSUME Anchored, NEW x \in Temps, NEW y \in Readable
    PROVE  /\ MemReadConst(x, y) => Framed(cg)'
           /\ \A z \in live : MemReadVar(x, y, z) => Framed(cg)'
<1>0. /\ x \in Vars /\ x \in Entries /\ live \union {x} \in SUBSET Temps
      /\ y \in Vars /\ live \subseteq Vars /\ Vars \subseteq Entries
      /\ \A z : (live \ {z}) \union {x} \in SUBSET Temps
      /\ \A s0 \in AtStart : Framed(s0)
  BY StartFramed
<1>1. ASSUME MemReadConst(x, y) PROVE Framed(cg)'
  <2>1. PICK s0 \in AtStart :
           LET s1 == loadReg(s0, y)
               s2 == getReg(s1, x)
           IN  Emit(Compute(s2, s2.reg_index[x], x), Missing(s1, {y}), live \union {x})
    BY <1>1 DEF MemReadConst
  <2> DEFINE s1 == loadReg(s0, y)
             s2 == getReg(s1, x)
             r  == s2.reg_index[x]
             wrong == Missing(s1, {y})
  <2>2. Emit(Compute(s2, r, x), wrong, live \union {x})
    BY <2>1
  <2>3. Framed(s1)
    BY <1>0, AllocatorFramed
  <2> HIDE DEF s1, wrong
  <2>4. Framed(s2) /\ r \in Regs
    BY <1>0, <2>3, AllocatorFramed
  <2> HIDE DEF s2, r
  <2>5. Framed(Compute(s2, r, x))
    BY <1>0, <2>4, ContentsFramed
  <2> QED
    BY <1>0, <2>2, <2>5, EmitFramed
<1>2. ASSUME NEW z \in live, MemReadVar(x, y, z) PROVE Framed(cg)'
  <2>1. PICK s0 \in AtStart :
           LET s1 == loadReg(s0, y)
               ry == s1.reg_index[y]
               s2 == loadReg(s1, z)
               rz == s2.reg_index[z]
               s3 == Detach(Garbage(s2, rz), z)
               s4 == getReg(s3, x)
           IN  Emit(setRegisterVariable(Compute(s4, s4.reg_index[x], x), rz, NULL),
                    {v \in {y} : v \notin s2.reg[ry]} \union Missing(s2, {z}),
                    (live \ {z}) \union {x})
    BY <1>2 DEF MemReadVar
  <2> DEFINE s1 == loadReg(s0, y)
             s2 == loadReg(s1, z)
             rz == s2.reg_index[z]
             g  == Garbage(s2, rz)
             s3 == Detach(g, z)
             s4 == getReg(s3, x)
             c  == Compute(s4, s4.reg_index[x], x)
             wrong == {v \in {y} : v \notin s2.reg[s1.reg_index[y]]} \union Missing(s2, {z})
  <2>2. Emit(setRegisterVariable(c, rz, NULL), wrong, (live \ {z}) \union {x})
    BY <2>1
  <2>3. Framed(s1) /\ z \in Vars /\ z \in Entries
    BY <1>0, AllocatorFramed
  <2> HIDE DEF s1, wrong
  <2>4. Framed(s2) /\ rz \in Regs
    BY <2>3, AllocatorFramed
  <2> HIDE DEF s2, rz
  <2>5. Framed(g)
    BY <2>4, ContentsFramed
  <2> HIDE DEF g
  <2>6. Framed(s3)
    BY <2>3, <2>5, DescriptorsFramed
  <2> HIDE DEF s3
  <2>7. Framed(s4) /\ s4.reg_index[x] \in Regs
    BY <1>0, <2>6, AllocatorFramed
  <2> HIDE DEF s4
  <2>8. Framed(c)
    BY <1>0, <2>7, ContentsFramed
  <2> HIDE DEF c
  <2>9. Framed(setRegisterVariable(c, rz, NULL))
    BY <2>4, <2>8, DescriptorsFramed
  <2> QED
    BY <1>0, <2>2, <2>9, EmitFramed
<1> QED
  BY <1>1, <1>2

\* y[z] := x.
LEMMA MemWriteFramed ==
    ASSUME Anchored, NEW x \in Operands, NEW y \in Readable, NEW z \in live \union Consts,
           NEW dead \in SUBSET live, MemWrite(x, y, z, dead)
    PROVE  Framed(cg)'
<1> DEFINE load(s, v) == IF v \in Consts THEN s ELSE loadReg(s, v)
<1>1. PICK s0 \in AtStart :
         LET s1 == load(s0, x)
             s2 == loadReg(s1, y)
             s3 == load(s2, z)
             at(v, s) == s.reg_index[v]
             first == IF x \in Consts THEN {} ELSE {v \in {x} : v \notin s3.reg[at(x, s1)]}
             base  == {v \in {y} : v \notin s3.reg[at(y, s2)]}
             index == IF z \in Consts THEN {} ELSE Missing(s3, {z})
             rz    == at(z, s3)
         IN  Emit(IF z \in Consts THEN s3
                  ELSE setRegisterVariable(Detach(Garbage(s3, rz), z), rz, NULL),
                  first \union base \union index, live \ (dead \union {z}))
  BY DEF MemWrite
<1> DEFINE s1 == load(s0, x)
           s2 == loadReg(s1, y)
           s3 == load(s2, z)
           rz == s3.reg_index[z]
           g  == Garbage(s3, rz)
           d  == Detach(g, z)
           t  == IF z \in Consts THEN s3 ELSE setRegisterVariable(d, rz, NULL)
           first == IF x \in Consts THEN {} ELSE {v \in {x} : v \notin s3.reg[s1.reg_index[x]]}
           base  == {v \in {y} : v \notin s3.reg[s2.reg_index[y]]}
           index == IF z \in Consts THEN {} ELSE Missing(s3, {z})
           wrong == first \union base \union index
<1>2. Emit(t, wrong, live \ (dead \union {z}))
  BY <1>1
<1>3. /\ y \in Vars /\ z \in Operands /\ z \in Entries /\ (z \in Consts \/ z \in Vars)
      /\ Operands \subseteq Vars \union Consts /\ live \ (dead \union {z}) \in SUBSET Temps
      /\ Framed(s0)
  BY StartFramed DEF Operands
<1>4. Framed(s1)
  BY <1>3, LoadFramed
<1> HIDE DEF wrong, s1
<1>5. Framed(s2)
  BY <1>3, <1>4, AllocatorFramed
<1> HIDE DEF s2
<1>6. Framed(s3)
  BY <1>3, <1>5, LoadFramed
<1>7. CASE z \in Consts
  <2>1. Framed(t)
    BY <1>6, <1>7
  <2> QED
    BY <1>2, <1>3, <2>1, EmitFramed
<1>8. CASE z \notin Consts
  <2>1. rz \in Regs /\ z \in Vars
    BY <1>3, <1>5, <1>8, AllocatorFramed
  <2> HIDE DEF s3, rz
  <2>2. Framed(g)
    BY <1>6, <2>1, ContentsFramed
  <2> HIDE DEF g
  <2>3. Framed(d)
    BY <1>3, <2>2, DescriptorsFramed
  <2> HIDE DEF d
  <2>4. Framed(t)
    BY <1>8, <2>1, <2>3, DescriptorsFramed
  <2> QED
    BY <1>2, <1>3, <2>4, EmitFramed
<1> QED
  BY <1>7, <1>8

\* Jumps, arguments and calls.
LEMMA TransfersFramed ==
    ASSUME Anchored,
           \/ \E x \in Operands : IfTrue(x) \/ Param(x)
           \/ \E x, y \in Operands, supported \in BOOLEAN : IfRelop(x, y, supported)
           \/ Goto \/ ParamString \/ ParamTrue \/ ParamGoto \/ ParamFalse
           \/ \E x \in Temps \union {NULL} : Call(x)
    PROVE  Framed(cg)'
<1>0. /\ live \in SUBSET Temps /\ Temps \subseteq Vars /\ Operands \subseteq Entries
      /\ Operands \subseteq Vars \union Consts
      /\ \A s0 \in AtStart : Framed(s0) /\ Framed(freeAllRegs(s0))
  BY StartFramed
<1>1. ASSUME NEW x \in Operands, IfTrue(x) PROVE Framed(cg)'
  <2>1. PICK s0 \in AtStart :
           LET s1 == loadOperand(freeAllRegs(s0), x)
           IN  Emit(s1, Missing(s1, {x} \intersect Vars), live)
    BY <1>1 DEF IfTrue
  <2> QED
    BY <1>0, <2>1, loadOperandFramed, EmitFramed
<1>2. ASSUME NEW x \in Operands, NEW y \in Operands, NEW supported \in BOOLEAN,
             IfRelop(x, y, supported)
      PROVE  Framed(cg)'
  <2>1. PICK s0 \in AtStart :
           LET s1 == freeAllRegs(s0)
               s2 == loadOperand(s1, x)
               s3 == loadOperand(s2, y)
               r  == s2.reg_index[x]
               first == IF x \in Consts THEN {} ELSE {v \in {x} : v \notin s3.reg[r]}
           IN  IF supported
               THEN Emit(s3, first \union Missing(s3, {y} \intersect Vars), live)
               ELSE Emit(s1, {}, live)
    BY <1>2 DEF IfRelop
  <2> DEFINE s1 == freeAllRegs(s0)
             s2 == loadOperand(s1, x)
             s3 == loadOperand(s2, y)
             first == IF x \in Consts THEN {}
                      ELSE {v \in {x} : v \notin s3.reg[s2.reg_index[x]]}
             wrong == first \union Missing(s3, {y} \intersect Vars)
  <2>2. IF supported THEN Emit(s3, wrong, live) ELSE Emit(s1, {}, live)
    BY <2>1
  <2>3. Framed(s1) /\ x \in Entries /\ y \in Entries
    BY <1>0
  <2> HIDE DEF s1, wrong
  <2>4. Framed(s2)
    BY <2>3, loadOperandFramed
  <2> HIDE DEF s2
  <2>5. Framed(s3)
    BY <2>3, <2>4, loadOperandFramed
  <2> HIDE DEF s3
  <2> QED
    BY <1>0, <2>2, <2>3, <2>5, EmitFramed
<1>3. ASSUME NEW x \in Operands, Param(x) PROVE Framed(cg)'
  <2>1. PICK s0 \in AtStart :
           LET s1 == IF x \in Consts THEN s0 ELSE loadReg(s0, x)
           IN  Emit(s1, Missing(s1, {x} \intersect Vars), live \ {x})
    BY <1>3 DEF Param
  <2> QED
    BY <1>0, <2>1, LoadFramed, EmitFramed
<1>4. ASSUME Goto \/ ParamString \/ ParamGoto PROVE Framed(cg)'
  <2>1. PICK s0 \in AtStart :
           \/ Emit(freeAllRegs(s0), {}, live)
           \/ Emit(Clobber(freeAllRegs(s0)), {}, live)
    BY <1>4 DEF Goto, ParamString, ParamGoto
  <2> QED
    BY <1>0, <2>1, ContentsFramed, EmitFramed
<1>5. ASSUME ParamTrue \/ ParamFalse PROVE Framed(cg)'
  <2>1. Emit(Join(freeAllRegs(cg)), {}, live)
    BY <1>5 DEF ParamTrue, ParamFalse
  <2>2. Framed(freeAllRegs(cg))
    BY AllocatorFramed DEF Anchored
  <2>3. Framed(Join(freeAllRegs(cg)))
    BY <2>2, ContentsFramed
  <2> QED
    BY <1>0, <2>1, <2>3, EmitFramed
<1>6. ASSUME NEW x \in Temps \union {NULL}, Call(x) PROVE Framed(cg)'
  <2>1. PICK s0 \in AtStart :
           LET s1 == Clobber(freeAllRegs(s0))
           IN  Emit(IF x = NULL THEN s1 ELSE ComputeInSlot(s1, x), {},
                    live \union ({x} \ {NULL}))
    BY <1>6 DEF Call
  <2> DEFINE s1 == Clobber(freeAllRegs(s0))
             t  == IF x = NULL THEN s1 ELSE ComputeInSlot(s1, x)
  <2>2. Emit(t, {}, live \union ({x} \ {NULL}))
    BY <2>1
  <2>3. live \union ({x} \ {NULL}) \in SUBSET Temps /\ (x = NULL \/ x \in Vars)
    BY <1>0
  <2>4. Framed(s1)
    BY <1>0, ContentsFramed
  <2> HIDE DEF s1
  <2>5. Framed(t)
    BY <2>3, <2>4, ContentsFramed
  <2> HIDE DEF t
  <2> QED
    BY <2>2, <2>3, <2>5, EmitFramed
<1> QED
  BY <1>1, <1>2, <1>3, <1>4, <1>5, <1>6

\* Returns, and the frames that follow them.
LEMMA BoundariesFramed ==
    ASSUME Anchored,
           \/ \E x \in Operands : Return(x)
           \/ ReturnString \/ NextFunction \/ AfterReturn
    PROVE  Framed(cg)'
<1>0. \A s0 \in AtStart : Framed(s0) /\ Framed(freeAllRegs(s0))
  BY StartFramed
<1>1. ASSUME NEW x \in Operands, Return(x) PROVE Framed(cg)'
  <2>1. PICK s0 \in AtStart, wrong \in SUBSET {x} :
           Emit(nukeRegisters(IF s0.reg_index[x] # RAX_INDEX THEN freeReg(s0, RAX_INDEX)
                              ELSE s0), wrong, {})
    <3>1. PICK s0 \in AtStart :
             LET s1 == IF s0.reg_index[x] # RAX_INDEX THEN freeReg(s0, RAX_INDEX) ELSE s0
                 from == IF s0.reg_index[x] # NOT_IN_REGISTER
                         THEN s1.reg[s0.reg_index[x]] ELSE s1.mem[Cell(x)]
             IN  Emit(nukeRegisters(s1), {v \in {x} \intersect Vars : v \notin from}, {})
      BY <1>1 DEF Return
    <3> QED
      BY <3>1
  <2>2. Framed(freeReg(s0, RAX_INDEX)) /\ Framed(s0)
    BY <1>0, AllocatorFramed, RegisterFacts
  <2> QED
    BY <2>1, <2>2, DescriptorsFramed, EmitFramed
<1>2. ASSUME ReturnString PROVE Framed(cg)'
  <2>1. PICK s0 \in AtStart : Emit(Clobber(freeAllRegs(s0)), {}, {})
    BY <1>2 DEF ReturnString
  <2> QED
    BY <1>0, <2>1, ContentsFramed, EmitFramed
<1>3. ASSUME NextFunction \/ AfterReturn PROVE Framed(cg)'
  <2>1. cg' = [cg EXCEPT !.reg = initialize_register_file.reg,
                         !.mem = initialize_register_file.mem]
    BY <1>3 DEF NextFunction, AfterReturn
  <2>2. /\ initialize_register_file.reg \in [Regs -> SUBSET Cells]
        /\ initialize_register_file.mem \in [Cells -> SUBSET Cells]
        /\ SAVED_RBP \in initialize_register_file.mem[SAVED_RBP]
    BY DEF initialize_register_file, Cells
  <2>3. Framed(cg')
    BY <2>1, <2>2 DEF Anchored, Framed, GeneratorState
  <2> QED
    BY <2>3 DEF Framed
<1> QED
  BY <1>1, <1>2, <1>3

\* Without c - z no instruction writes the slot.
LEMMA AnchoredNext ==
    ASSUME "const_sub" \notin Kinds, Anchored, [Next]_vars
    PROVE  Anchored'
<1>1. FileInOrder'
  BY InOrderNext DEF Anchored
<1>2. Framed(cg)'
  <2>1. CASE \E x \in Locals : AssignConst(x) \/ AssignString(x)
    BY <2>1, AssignFramed
  <2>2. CASE \E x \in Locals, y \in Readable : AssignCopy(x, y)
    BY <2>2, AssignFramed
  <2>3. CASE \E x \in Temps : BinaryFold(x)
    BY <2>3, OperationsFramed
  <2>4. CASE \E x \in Temps, y, z \in Readable, dead \in SUBSET live :
               BinaryVars(x, y, z, dead)
    BY <2>4, OperationsFramed
  <2>5. CASE \E x \in Temps, y \in Readable, dead \in SUBSET live :
               \/ BinaryRightConst(x, y, dead)
               \/ BinaryLeftConst(x, y, dead)
               \/ UnaryVar(x, y, dead)
               \/ \E c \in Consts : ConstMinusVar(x, c, y, dead)
    <3>1. ASSUME NEW x, NEW y, NEW dead
          PROVE  /\ BinaryRightConst(x, y, dead) => OneOperand(x, y, dead)
                 /\ BinaryLeftConst(x, y, dead) => OneOperand(x, y, dead)
                 /\ UnaryVar(x, y, dead) => OneOperand(x, y, dead)
                 /\ \A c : ~ConstMinusVar(x, c, y, dead)
      <4>1. \A c : ~ConstMinusVar(x, c, y, dead)
        BY DEF ConstMinusVar, InStatements
      <4> QED
        BY <4>1 DEF BinaryRightConst, BinaryLeftConst, UnaryVar
    <3>2. \E x \in Temps, y \in Readable, dead \in SUBSET live : OneOperand(x, y, dead)
      BY <2>5, <3>1
    <3> QED
      BY <3>2, OperationsFramed
  <2>6. CASE \E x \in Temps, y, z \in Operands, dead \in SUBSET live : Divide(x, y, z, dead)
    BY <2>6, DivideFramed
  <2>7. CASE \E x \in Temps, y \in Readable, z \in live : MemReadVar(x, y, z)
    BY <2>7, MemReadFramed
  <2>8. CASE \E x \in Operands, y \in Readable, z \in live \union Consts,
                dead \in SUBSET live : MemWrite(x, y, z, dead)
    BY <2>8, MemWriteFramed
  <2>9. CASE \E x \in Temps, y \in Readable : ReadField(x, y)
    BY <2>9, MemReadFramed DEF ReadField
  <2>10. CASE \/ \E x \in Operands : IfTrue(x) \/ Param(x)
              \/ \E x, y \in Operands, supported \in BOOLEAN : IfRelop(x, y, supported)
              \/ Goto \/ ParamString \/ ParamTrue \/ ParamGoto \/ ParamFalse
              \/ \E x \in Temps \union {NULL} : Call(x)
    BY <2>10, TransfersFramed
  <2>11. CASE \/ \E x \in Operands : Return(x)
              \/ ReturnString \/ NextFunction \/ AfterReturn
    BY <2>11, BoundariesFramed
  <2>12. CASE UNCHANGED vars
    BY <2>12 DEF vars, Anchored, Framed
  <2> QED
    BY <2>1, <2>2, <2>3, <2>4, <2>5, <2>6, <2>7, <2>8, <2>9, <2>10, <2>11, <2>12 DEF Next
<1> QED
  BY <1>1, <1>2 DEF Anchored

\* A function that computes no "constant minus variable" keeps the %rbp its
\* prologue pushed: the slot at offset 0, where a constant would be stored, is
\* written by nothing else, whatever is evicted, flushed or divided.
THEOREM FramePointerSavedAlways ==
    ASSUME "const_sub" \notin Kinds
    PROVE  Spec => []FramePointerSaved
<1>1. Init => Anchored
  <2> SUFFICES ASSUME Init PROVE Anchored
    OBVIOUS
  <2>1. FileInOrder /\ cg = initialize_register_file
    BY InOrderAtFirst DEF Init
  <2>2. cg \in GeneratorState
    BY <2>1 DEF FileInOrder, Good, Reserved
  <2>3. SAVED_RBP \in cg.mem[SAVED_RBP]
    BY <2>1 DEF initialize_register_file, Cells
  <2> QED
    BY <2>1, <2>2, <2>3 DEF Anchored, Framed
<1>2. Anchored /\ [Next]_vars => Anchored'
  BY AnchoredNext
<1>3. Anchored => FramePointerSaved
  BY DEF Anchored, Framed, FramePointerSaved
<1> QED
  BY <1>1, <1>2, <1>3, PTL DEF Spec
=============================================================================
