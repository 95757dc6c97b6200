----------------------------- MODULE MCCodeGen ------------------------------
(* Instances of CodeGen for TLC: 5 registers, of which 1, 2 and 4 can be   *)
(* allocated, so that three live variables fill the register file.         *)
EXTENDS CodeGen, TLC

CONSTANTS loc1, loc2, tmp1, tmp2, const1

MCLocals == {loc1, loc2}
MCTemps  == {tmp1, tmp2}
MCConsts == {const1}

Symmetry == Permutations(Locals) \union Permutations(Temps)

AllDisciplines == DisciplineSet
MayCopyLocals  == DisciplineSet \ {"copies_temporaries"}

\* Everything whose effect stays inside a function's own frame and registers.
ValueKinds == KindSet \ {"const_sub", "param", "param_string", "param_boolean",
                         "return_string", "binary_const", "const_add"}

\* Calls with their arguments, what may come before one, and the forms that
\* keep the frame from being left as it was entered.
CallKinds == {"assign", "binary_const", "const_add", "const_sub", "mem_read", "param",
              "param_string", "param_boolean", "if_true", "goto", "call", "return", "return_string"}

\* What a copy needs to lose its source, and nothing else.
CopyKinds == {"assign", "copy", "binary"}
=============================================================================
