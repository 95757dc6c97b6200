------------------------------ MODULE MCDriver ------------------------------
(* Instances of Driver for TLC: command lines of every kind, and every     *)
(* input of a bounded number of matches.                                   *)
EXTENDS Driver

CONSTANT InputLength

AllInputs == UNION {[1 .. n -> Symbols] : n \in 0 .. InputLength}

\* And longer ones: errors on several lines, a comment over two lines between
\* tokens, an input that ends inside a comment.
MoreInputs ==
    AllInputs \union
      {<<"token", "token", "newline", "token", "newline", "token">>,
       <<"token", "(*", "token", "newline", "blank", "*)", "token", "newline">>,
       <<"token", "newline", "newline", "(*", "newline", "token">>}

Usual == <<"-tok", "-st", "-asc", "-tc", "-ir", "-cg", "program">>

CommandLineSet ==
    {Usual,                              \* as the Makefile calls it
     <<"program", "-asc", "-cg", "missing">>, \* no -tc, no -ir
     <<"-asc", "-help", "program">>, <<"program", "-tok", "-unknown">>,
     <<"-ir", "missing">>, <<"-debug">>, <<"-st">>, <<"-tok">>}
=============================================================================
