--------------------------- MODULE MCSymbolTable ----------------------------
(* Instances of SymbolTable for TLC: a function, a parameter, a local and  *)
(* a local of an inner scope may share names; two functions call each      *)
(* other.                                                                  *)
EXTENDS SymbolTable, TLC

CONSTANTS id1, id2, id3, fun1, fun2

Symmetry == Permutations({id1, id2})

Scopes ==
    [names |-> {id3, fun1}, functions |-> {fun1},
     constructs |-> {"function", "block", "redefinition", "own_name"},
     tables |-> 4, entries |-> 2, parameters |-> 1, uses |-> 1, calls |-> 0]

Types ==
    [names |-> {id3, fun1}, functions |-> {fun1}, constructs |-> {"type", "function", "block"},
     tables |-> 3, entries |-> 3, parameters |-> 1, uses |-> 1, calls |-> 0]

Calls ==
    [names |-> {id1, id2}, functions |-> {fun1, fun2}, constructs |-> {"record", "function"},
     tables |-> 3, entries |-> 3, parameters |-> 2, uses |-> 0, calls |-> 1]

Deep ==
    [names |-> {id1, id2}, functions |-> {fun1}, constructs |-> {"function", "block"},
     tables |-> 4, entries |-> 3, parameters |-> 1, uses |-> 1, calls |-> 1]

Forward ==
    [names |-> {id1, id2}, functions |-> {fun1, fun2},
     constructs |-> {"function", "forward_call"},
     tables |-> 3, entries |-> 2, parameters |-> 2, uses |-> 1, calls |-> 1]

AllWorkloads == {Scopes, Types, Calls}
OnlyDeep == {Deep}
OnlyForward == {Forward}
=============================================================================
