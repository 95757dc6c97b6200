---------------------------- MODULE BasicBlocks -----------------------------
(***************************************************************************)
(* What the code generator wants to know of a program before it starts:    *)
(* the lines where control may arrive from anywhere but the line above.    *)
(* They are found in one step, and they are found.                         *)
(***************************************************************************)
EXTENDS Integers

CONSTANT nextinstr

VARIABLES
    program, \* the instructions
    blocks   \* where the basic blocks begin, {} while nobody knows

Lines == 0 .. nextinstr - 1

\* The lines control may go to from line k, when it does more than go on.
Exits(k) == IF program[k].type = "other" THEN {} ELSE {program[k].jumpTarget, k + 1}

Entrances == {0} \union {l \in Lines : \E k \in Lines : l \in Exits(k)}

Init == blocks = {}

Partition ==
    /\ blocks = {}
    /\ blocks' = Entrances
    /\ UNCHANGED program

vars == <<program, blocks>>

Safety == Init /\ [][Partition]_vars
Spec == Safety /\ WF_vars(Partition)
=============================================================================
