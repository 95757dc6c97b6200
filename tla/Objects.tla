------------------------------- MODULE Objects -------------------------------
(***************************************************************************)
(* What reserve, release and the accesses of an Alpha program promise:     *)
(* arrays and records are objects of their own, an element holds what was  *)
(* last stored in it, an array knows its sizes, and an index out of bounds *)
(* is reported, there and nowhere else.  The report does not stop the      *)
(* program: a load goes on with any value, and a store may have hit        *)
(* anything, so that nothing is promised from then on.  This is a promise, *)
(* stated for the program's author; Heap translates the code that keeps it.*)
(***************************************************************************)
EXTENDS Integers, Sequences, Functions

CONSTANTS
    Variables,        \* the variables that refer to objects
    Positions(_, _),  \* the elements of an object, given its type and sizes
    Shapes(_),        \* the sizes an object of a type may be reserved with
    Type,             \* the type of each variable
    Literals,         \* string literals: the characters and the length taken
    Contents          \* what an element may hold

VARIABLES
    pointer,  \* the object a variable refers to, 0 for none
    objects,  \* the live objects: type, sizes, contents
    access,   \* the last access: where, what was stored or found there, and
              \* whether it was reported out of bounds
    wild      \* a store has been made out of bounds

vars == <<pointer, objects, access, wild>>

Object(x) == objects[pointer[x]]
Refers(x) == pointer[x] # 0

Init ==
    /\ pointer = [x \in Variables |-> 0] /\ objects = << >>
    /\ access = [at |-> <<>>, value |-> 0, reported |-> FALSE] /\ wild = FALSE

\* x refers to an object that was not there.
Creates(x) ==
    /\ UNCHANGED <<access, wild>>
    /\ pointer' = [pointer EXCEPT ![x] = pointer'[x]]
    /\ pointer'[x] \notin DOMAIN objects \union {0}
    /\ DOMAIN objects' = DOMAIN objects \union {pointer'[x]}
    /\ \A o \in DOMAIN objects : objects'[o] = objects[o]

\* Only the elements in known have contents yet.
IsNew(object, x, sizes, known) ==
    /\ object = [type |-> Type[x], sizes |-> sizes, contents |-> object.contents]
    /\ object.contents \in [Positions(Type[x], sizes) -> Contents]
    /\ \A at \in DOMAIN known : object.contents[at] = known[at]

Reserve(x) ==
    /\ Creates(x)
    /\ \E sizes \in Shapes(Type[x]) : IsNew(objects'[pointer'[x]], x, sizes, << >>)

\* As long as the text between the quotes, whatever the characters it stands for.
String(x) ==
    /\ Creates(x)
    /\ \E l \in Literals :
         LET chars == [at \in {<<i - 1>> : i \in DOMAIN l.text} |-> l.text[at[1] + 1]]
         IN  IsNew(objects'[pointer'[x]], x, <<l.length>>, chars)

\* The object is gone for all the variables that refer to it.
Release(x) ==
    /\ Refers(x) /\ UNCHANGED <<access, wild>>
    /\ pointer' = [y \in Variables |-> IF pointer[y] = pointer[x] THEN 0 ELSE pointer[y]]
    /\ objects' = Restrict(objects, DOMAIN objects \ {pointer[x]})

Copy(x, y) ==
    /\ Type[x] = Type[y]
    /\ pointer' = [pointer EXCEPT ![x] = pointer[y]]
    /\ UNCHANGED <<objects, access, wild>>

\* An access names its place, and a store what it stores there.
Store(x) ==
    /\ Refers(x) /\ ~access'.reported /\ access'.value \in Contents
    /\ access'.at \in DOMAIN Object(x).contents
    /\ objects' = [objects EXCEPT ![pointer[x]].contents[access'.at] = access'.value]
    /\ UNCHANGED <<pointer, wild>>

Load(x) ==
    /\ Refers(x) /\ ~access'.reported
    /\ access'.at \in DOMAIN Object(x).contents
    /\ access'.value = Object(x).contents[access'.at]
    /\ UNCHANGED <<pointer, objects, wild>>

Dimension(x) ==
    /\ Refers(x) /\ ~access'.reported
    /\ \E d \in DOMAIN Object(x).sizes :
         access'.at = <<d>> /\ access'.value = Object(x).sizes[d]
    /\ UNCHANGED <<pointer, objects, wild>>

\* An access where the object has no element.  A load finds any value.
OutOfBounds(x) ==
    /\ Refers(x) /\ access'.reported
    /\ access'.at \notin DOMAIN Object(x).contents

LoadOutOfBounds(x) == OutOfBounds(x) /\ UNCHANGED <<pointer, objects, wild>>

StoreOutOfBounds(x) == OutOfBounds(x) /\ wild'

\* Anything but a promise.
Wild == wild /\ wild'

Next ==
    \/ Wild
    \/ \E x \in Variables :
      \/ Reserve(x) \/ String(x) \/ Release(x) \/ \E y \in Variables : Copy(x, y)
      \/ Store(x) \/ Load(x) \/ Dimension(x)
      \/ LoadOutOfBounds(x) \/ StoreOutOfBounds(x)

Spec == Init /\ [][Next]_vars
=============================================================================
