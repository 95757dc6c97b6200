------------------------- MODULE MCSemanticActions --------------------------
(* Instances of SemanticActions for TLC: two conditions, and per run the   *)
(* constructs that interact, so that programs are long enough to nest.     *)
EXTENDS SemanticActions, TLC

CONSTANTS cond1, cond2

MCAtoms  == {cond1, cond2}
Symmetry == Permutations(MCAtoms)

\* Control flow: conditions, branches and loops inside one another.
Control == [forms |-> {"or", "and", "not", "while", "if", "statement"},
            lines |-> 8, depth |-> 5]

\* Values: Boolean results, arguments and array writes, alone and as operands.
Values == [forms |-> {"assign", "return", "call", "not", "array", "unreturned"},
           lines |-> 15, depth |-> 5]

\* Errors, with the forms that leave jumps behind.
Errors == [forms |-> {"error", "compare_booleans", "packed_argument", "while", "block",
                      "assign", "constant", "array", "unreturned"},
           lines |-> 11, depth |-> 3]

\* Functions without a return statement.
Unreturned == [forms |-> {"if", "statement", "while", "unreturned"},
               lines |-> 8, depth |-> 4]

AllWorkloads == {Control, Values, Errors, Unreturned}
OnlyUnreturned == {Unreturned}
=============================================================================
