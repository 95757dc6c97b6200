------------------------------ MODULE Leaders -------------------------------
(***************************************************************************)
(* find_leaders of ir.c, iteration by iteration: the first pass marks the  *)
(* instructions that begin a basic block and counts the marks, the second  *)
(* copies them into an array of that many cells.  ir2as flushes the        *)
(* registers at an instruction with isLeader and nowhere else.             *)
(***************************************************************************)
EXTENDS Integers, Sequences, FiniteSets

CONSTANT nextinstr \* instructions emitted

ASSUME SizeAssumption == nextinstr \in Nat \ {0}

VARIABLES
    IR,              \* what the instruction is and, for a jump, its target
    longList,        \* the marks
    numberOfLeaders,
    Leaders,         \* the cells allocated, -2 where nothing was written
    i, j,            \* the loop counters
    pc

vars == <<IR, longList, numberOfLeaders, Leaders, i, j, pc>>

Lines == 0 .. nextinstr - 1

\* A jump to the end of the last function targets nextinstr; a jump nobody
\* patched, CALL and RETURN have the target -1 of emit.
Instructions ==
    [type : {"jump"}, jumpTarget : -1 .. nextinstr]
      \union [type : {"call", "return", "other"}, jumpTarget : {-1}]

Transfers == {l \in Lines : IR[l].type # "other"}

\* Types.  In particular no line is counted twice, whatever is read outside
\* longList, so that the array is never allocated larger than the program, and
\* nothing outside longList is written.
TypeOK ==
    /\ IR \in [Lines -> Instructions]
    /\ longList \in [Lines -> {0, 1}]
    /\ numberOfLeaders \in 0 .. nextinstr
    /\ Leaders \in UNION {[0 .. n - 1 -> Lines \union {-2}] : n \in 0 .. nextinstr}
    /\ i \in 0 .. nextinstr /\ j \in 0 .. nextinstr
    /\ pc \in {"mark", "collect", "done"}

Init ==
    /\ IR \in [Lines -> Instructions]
    /\ longList = [l \in Lines |-> 0] /\ numberOfLeaders = 0
    /\ Leaders = [l \in {} |-> -2]
    /\ i = 0 /\ j = 0 /\ pc = "mark"

\* The words next to the array, which the first loop reads but never writes:
\* they are somebody else's and may hold anything.
Neighbours == [{-1, nextinstr} -> {0, 1}]

\* A mistake the invariants rule out: a line marked twice is counted twice.
Marks_Again(t, outside) == t \in Lines

\* longList[t] is read before t is checked.
Marks(t, outside) ==
    /\ IF t \in Lines THEN longList[t] # 1 ELSE outside[t] # 1
    /\ 0 <= t /\ t < nextinstr

\* A mistake the invariants rule out: only the target is marked.
Successors_TargetOnly(k) == {IR[k].jumpTarget}

\* A mistake the invariants rule out: the jump itself is marked.
Successors_Itself(k) == {IR[k].jumpTarget, k, k + 1}

\* The lines control may go to.
Successors(k) == {IR[k].jumpTarget, k + 1}

\* A mistake the liveness property rules out: the loop stays at a transfer
\* of control that has nothing new to mark.
Step_OverNews(news) == IF i \in Transfers /\ news = {} THEN 0 ELSE 1

\* The first loop moves on by one line, whatever it marked.
Step(news) == 1

\* One iteration: the target, then the next instruction.
Mark(outside) ==
    LET news == IF i \in Transfers THEN {t \in Successors(i) : Marks(t, outside)} ELSE {}
    IN  /\ pc = "mark" /\ i < nextinstr
        /\ longList' = [l \in Lines |-> IF l \in news THEN 1 ELSE longList[l]]
        /\ numberOfLeaders' = numberOfLeaders + Cardinality(news)
        /\ i' = i + Step(news)
        /\ UNCHANGED <<IR, Leaders, j, pc>>

MarkFirst ==
    /\ pc = "mark" /\ i = nextinstr
    /\ longList' = [longList EXCEPT ![0] = 1]
    /\ numberOfLeaders' = IF longList[0] # 1 THEN numberOfLeaders + 1 ELSE numberOfLeaders
    /\ Leaders' = [l \in 0 .. numberOfLeaders' - 1 |-> -2]
    /\ i' = 0 /\ pc' = "collect"
    /\ UNCHANGED <<IR, j>>

\* isLeader is set to longList[i] = 1 along with the copy.
Collect ==
    /\ pc = "collect" /\ i < nextinstr
    /\ IF longList[i] = 1
       THEN /\ Leaders' = [Leaders EXCEPT ![j] = i]
            /\ j' = j + 1
       ELSE UNCHANGED <<Leaders, j>>
    /\ i' = i + 1
    /\ UNCHANGED <<IR, longList, numberOfLeaders, pc>>

Finish ==
    /\ pc = "collect" /\ i = nextinstr
    /\ pc' = "done"
    /\ UNCHANGED <<IR, longList, numberOfLeaders, Leaders, i, j>>

Next ==
    \/ \E outside \in Neighbours : Mark(outside)
    \/ MarkFirst \/ Collect \/ Finish

\* find_leaders is called and runs to its end.
Spec == Init /\ [][Next]_vars /\ WF_vars(Next)

-----------------------------------------------------------------------------
(* block_start, block_end: the lines of a block.                           *)

block_start(b) == Leaders[b]

\* The cell after the last one is not allocated: the read has no value.
HasEnd(b) == b + 1 \in DOMAIN Leaders
block_end(b) == Leaders[b + 1] - 1

-----------------------------------------------------------------------------
(* Properties                                                              *)

\* The copy writes inside the array allocated from the count, and fills it,
\* in increasing order.
LeadersFit ==
    /\ pc = "collect" /\ i < nextinstr /\ longList[i] = 1 => j < numberOfLeaders
    /\ pc = "done" =>
         /\ j = numberOfLeaders
         /\ \A k \in DOMAIN Leaders : k > 0 => Leaders[k - 1] < Leaders[k]

\* Control enters a block at its first line and leaves it at its last, so a
\* variable that is in a register inside a block was put there in the block.
BlocksAreBasic ==
    pc = "done" => \A b \in DOMAIN Leaders :
      LET last == IF HasEnd(b) THEN block_end(b) ELSE nextinstr - 1
      IN  /\ \A l \in block_start(b) .. last - 1 : l \notin Transfers
          /\ \A l \in Transfers : IR[l].jumpTarget \notin block_start(b) + 1 .. last

\* Only an entry of a block flushes the registers: a line that no jump
\* targets and no transfer precedes keeps what is in them.
NoNeedlessFlush ==
    pc = "done" => \A l \in Lines \ {0} : longList[l] = 1 =>
      l - 1 \in Transfers \/ \E t \in Transfers : IR[t].jumpTarget = l

\* find_leaders implements the abstract search: the two loops, the count and
\* the copies are one step that finds the entrances of the program.
Blocks == INSTANCE BasicBlocks WITH
            program <- IR,
            blocks  <- IF pc = "done" THEN {Leaders[k] : k \in DOMAIN Leaders} ELSE {}

\* Nothing but the entrances is ever handed to the code generator, at once
\* and with the program unchanged.
FindsTheBlocks == Blocks!Safety

\* And it is handed over: both loops come to their end.
BlocksAreFound == Blocks!Spec
=============================================================================
