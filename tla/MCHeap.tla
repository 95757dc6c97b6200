------------------------------- MODULE MCHeap -------------------------------
(* Instances of Heap for TLC: an array of records, whose elements are wide, *)
(* a matrix of characters, a record of mixed fields and strings.           *)
EXTENDS Heap

Types ==
    [Point |-> [kind |-> "record", fields |-> <<"character", "integer">>],
     Wide |-> [kind |-> "array", dimensions |-> 1, type |-> "Point"],
     Grid |-> [kind |-> "array", dimensions |-> 2, type |-> "character"],
     string |-> [kind |-> "array", dimensions |-> 1, type |-> "character"]]

MCVariables == {"p", "w", "g", "s", "s2"}
MCType == [x \in MCVariables |-> CASE x = "p" -> "Point" [] x = "w" -> "Wide"
                                   [] x = "g" -> "Grid" [] OTHER -> "string"]

\* The last access says what a step did, and nothing depends on it later.  After
\* a wild store no property says anything of the memory: one of the states it
\* may leave is enough to see what the program does from there.
WithoutAccess == IF wild THEN <<wild>> ELSE <<wild, memory, pointer, blocks>>

\* One value: an element that was not stored in is told from one that was.
MCValues == {5}
MCSizes == 0 .. 2

\* The first address of the heap, where a header may be.
MCStray == {8}

\* "", and a\n: the n is a character of its own, though it is none of the string.
MCLiterals == {[text |-> <<>>, length |-> 0], [text |-> <<5, 6>>, length |-> 3]}
=============================================================================
