# A verification project for the Alpha compiler

TLA+ models of the parts of this compiler where a mistake is hard to see in a
test: register allocation, code generation, backpatching, scopes and stack
frames, basic blocks, the layout of arrays and records, and the driver with its
scanner, parser and error buffer. TLC checks the models on small instances; TLAPS proves
every safety and action property the passing runs check, for every size of the
register file, every set of variables, every program length, every array and every
heap; some of them under conditions on the program that the runs show to be
necessary, and as long as no buffer of the compiler is overrun. Liveness is left to TLC.

The compiler is a sequential program that reads one source file and stops. The
hard behaviour is not concurrency but *order*: descriptors that say where a value
is and that go stale between two instructions; jumps emitted long before their
targets are known; names resolved while the table still grows; counters that
have to be right along every path of the generated program although they are
kept along the text of it. In each model the environment is therefore **the
program being compiled**: `Next` ranges over everything the previous phase may
hand over next, and a property has to hold for all of these programs.

## Contents

| Module | Models | Lines of the source |
|---|---|---|
| `RegisterFile` | the register allocator and the descriptors | `cg.c:8-208` |
| `CodeGen` | one action per handler of `ir2as` | `cg.c:210-1125` |
| `SemanticActions` | IR emission and backpatching | `grammar.y:458-1380`, `ir.c:1-99` |
| `SymbolTable` | scopes, names, frames, argument passing | `symboltable.c`, `grammar.y:254-545, 716-1021` |
| `Leaders` | `find_leaders`, block boundaries | `ir.c:284-384` |
| `BasicBlocks` | what `find_leaders` is for, as one step: the abstract specification of `Leaders` | `ir.c:284-334` |
| `Heap` | arrays, records and strings as bytes in memory: what emitted code reserves and which addresses it computes | `grammar.y:49-98, 756-879, 1028-1097, 1401-1525`, `cg.c:341-396, 1013-1077`, `lib/alpha_lib_st.s:80-113` |
| `Objects` | the arrays and records of the language: the abstract specification of `Heap` | none: what the program's author may expect |
| `Driver` | `main`, the scanner's line keeping, error reports and recovery, outputs | `runner.c`, `compiler.lex:22-51, 167-187`, `grammar.y:130-144, 254-281, 515-553, 1606-1616` |
| `MCCodeGen`, `MCSemanticActions`, `MCSymbolTable`, `MCHeap`, `MCDriver` | instances for TLC (`Leaders` needs none) | |
| `CodeGen_proofs` | proofs: the register file, the arguments on the stack | |
| `CodeGenValues_proofs` | proofs: where values are | |
| `SemanticActions_proofs`, `SymbolTable_proofs`, `Leaders_proofs`, `Heap_proofs`, `Driver_proofs` | proofs about the module of that name | |
| `Induction` | proofs: induction and recursion along the natural numbers, for the modules above | |

To repeat a check: `tlc -config <run>.cfg <module>` with the module that
`PROJECT.json` names for the run; `tlapm <module>.tla` for each module of proofs
(`SemanticActions_proofs` takes the longest, about ten minutes).

## Inventory

**Driver** (`runner.c`). State: the flags, the output files, `err_buf` and
`err_count`. It calls `yyparse`, then `assign_offsets`, then `printIR`, then
`find_leaders`, frees `Leaders`, then calls `CG`. Each phase works on the global
data the one before has left; there are no callbacks. Correct if every phase sees
completed data, errors stop output, every message reaches the user, and every run
ends. Hard: errors of different kinds stop different things (`report_type_error`
stops IR and assembly; a duplicate definition only writes `err_buf`); three
reporters check `err_count` against 10, against 20 and not at all; two flags in
two files say that there was an error.

**Scanner** (`compiler.lex`). State: line and column, the text of the line, the
start condition of comments. Called by the parser per token; at the end of a line
it writes the line and the errors buffered so far to the `.asc` file and empties
the buffer. Correct if the annotated source is the source, each error below the line
the scanner was at. Hard: the parser reports while it holds the next token, so errors, line
ends and the end of the input take turns.

**Parser, type checker, semantic actions** (`grammar.y`). State: bison's
semantic stack, `current_table`. Each reduction inserts or looks up names, checks
types, emits IR. Correct if each construct's jumps go where its meaning says, if
no jump is left without a target, and if nothing is emitted after an error.
Hard: a jump is patched by a rule reduced much later, several lists are alive at
once, and offsets from `nextinstr` are counted by hand.

**Symbol table** (`symboltable.c`). State: the tree of scopes, the entries and
their offsets, per function its scope, its `fdt` (does it unpack its record) and
its stack size. Operations: open and close a scope, insert, look up, assign
offsets. Correct if a use keeps its meaning, live variables have disjoint slots
inside the frame, and caller and callee agree on the arguments' places. Hard:
the lists are newest first, offsets are negative, whether a call unpacks is
decided before the body may have been seen.

**IR and leaders** (`ir.c`). State: the `IR` array, `nextinstr`,
`error_reported`, `Leaders`. Operations: emit, the lists, backpatch,
`find_leaders`. Correct if the blocks are basic blocks and arrays are not overrun.

**Arrays and records at run time** (`grammar.y`, emitted through `cg.c`). State:
the heap. `reserve` is asked for a header of 4 bytes per dimension, padding, and
the elements; the dimensions are stored in the header, and every access reads them
back for its bounds checks and its row-major index. Correct if each element has
bytes of its own, no store to an element reaches a header, and a check fails exactly
where there is no element. Hard: a failed check reports and returns into the access; the same layout is computed in three places of `grammar.y`
and once more in `cg.c` for strings.

**Code generator** (`cg.c`). State: `register_file`, `victim`, every entry's
`reg_index`, `param_count`, `cgFlag`, the assembly array. Operations: one handler
per IR instruction, the register helpers, one call per function. Correct if
each operand is read where its value is, everything is in memory when control
leaves a block, a call pops its own arguments and nothing else, and the frame
survives. Hard: a helper changes descriptors *and* emits code; a handler keeps a
register number over a call that may evict it; nothing is reset between functions.

**Run-time library** (`lib/*.s`). Assembly linked to the output: `reserve`,
`release`, printing, the driver that calls `entry`. The generator itself emits
`.crash` (`cg.c:1500-1531`).

`PROJECT.json` lists each component with its status, and the hazards line by line.

## Module by module

### RegisterFile and CodeGen

`cg` is a record with two sides. `register_file`, `reg_index` and `victim` are
the variables of `cg.c`. `reg` and `mem` say **which variables' current values**
each register and each slot holds when the emitted code runs. "Current" is what
the IR says: computing x makes every older copy of x worthless (`Forget`), a move
copies contents, a call destroys all registers. That turns "the generated code is
right" into set membership: an operand v of an instruction was read correctly if
v is in what the register it names holds. Values themselves never matter.

Helpers are functions from state to state, so that an action can chain them in the
handler's order (`s0`, `s1`, ... are the states between the calls of the C code).
`freeAllRegs` and `nukeRegisters` are loops in C and single formulas here; a lemma of
`CodeGen_proofs` (`FlushIsTheLoop`) says that the first formula is
what calling `freeReg` on 0, 1, 2, ... gives.

Each action is one call of `ir2as`: the flush of a leader, then the handler.
`AtStart` gives both possibilities, the instruction being a leader or not; after
a jump or a call it always is one. At a leader only what every path agrees on is
kept: a variable in its own slot (`Join`). `stale` collects the operands the last
instruction took from the wrong place, `pushed` the words on the stack; both are
what the emitted code does, not variables of the generator.

`phase` and `live` are the environment: which IR the parser may emit next. A
temporary is created by one instruction, and read by later ones until `dead`
says it is not needed any more; parser temporaries are never assigned twice.

*Disciplines.* The generator is right only for IR with certain shapes. Each
shape is a named discipline, a conjunct of one action, which a configuration takes
or leaves:

| Discipline | Meaning | What happens without it |
|---|---|---|
| `copies_temporaries` | `x := y` only for a temporary y | `x := y` gives y's register to x and forgets y unstored (`cg.c:408`): run `CodeGenCopyLosesSource` |
| `fresh_targets` | the target of an assignment is claimed by no other register | two registers claim one variable and the flush keeps what the higher one stores (`cg.c:190`), which may be the older value: breaks `TransferInMemory` |
| `clean_dividends` | a dividend that is read again is in memory | division detaches its dividend unstored (`cg.c:606`): breaks `OperandsCurrent` |
| `no_eviction_clash` | loading an operand does not evict another of the same instruction | the instruction reads a register that holds its other operand (`cg.c:525-526`): breaks `OperandsCurrent` |
| `ends_flushed` | a function ends in a return, jump or call | the next function starts with this one's claims (`cg.c:258-263`): breaks `CleanEntry` |

To see one broken, take it out of `Disciplines` in `CodeGenValues.cfg` (or
`CodeGenCalls.cfg` for the last). Ordinary programs break them; that is what the
hazards in `PROJECT.json` are about. The passing runs say that **nothing else**
goes wrong: with the five disciplines every operand is current and every transfer of
control finds its variables in memory.

Three forms are wrong by themselves and are kept out of the run whose property they
break: `constant - variable` stores the constant at offset 0, over the caller's
%rbp (`cg.c:469`, `FramePointerSaved`); `return` of a string literal emits no epilogue
(`cg.c:984`), so nothing is claimed behind it. A comparison with a constant that is neither an
integer nor a Boolean, such as `c1 < 'z'` in `tests/tc_expr_valid.alpha:83`, turns
the output off without a message (`cg.c:756`): `IfRelop` models it, and generation
ends there.

*Arguments.* `param_count` is what a call pops, `pushed` what the path that is taken has
pushed. Every goto lowers the count (`cg.c:694`), meant for the one between the two
pushes of a Boolean argument; but that argument's own expression ends in another
goto, as every Boolean expression does, and so do loops and branches. In the IR the
parser emits the PARAM of a Boolean always comes behind such a goto (`param_test`). So
the count of `f(b)` goes -1, 0, -1, 0 and the call pops nothing: each goto leaves one word
behind. What holds is that a call never pops more than was pushed for it
(`OwnArgumentsOnly`), and all of it until the first goto (`BalancedUntilGoto`). Words left
on the stack do no harm, as a return sets %rsp from %rbp; a word too many popped would.

### SemanticActions

`stack` is bison's semantic stack, one item per construct that is not complete
(the `while`, `if`, `and`, `or`, ... seen so far and the expressions they wait
for), with the lists of the C structs as sets of line numbers. An instruction
keeps its operation, its target and the *valuations* it jumps in; a
valuation says which of the atomic conditions hold. A reduction emits and
patches what the C code does, in its order. Where the C code counts from
`nextinstr` (`nextinstr + 2`), so does the model.

`decided` records what each completed construct has promised: control that
reaches `start` gets to `yes` when the condition holds and to `no` otherwise.
`TestsDecide` runs the IR (`Reaches`) for all valuations and compares, at every
step of the parser, so a later backpatch that disturbs an earlier test is found.
Operators are applied as a tree: with parentheses, which emit nothing, every
tree is some source expression.

`workload` says which constructs a program uses and how long it may be; it is
chosen in the initial state, so that one run covers programs of different kinds.
`abandoned` names the jumps that the code leaves in no list any more (the operands'
jumps of a comparison of Booleans, those of a field passed as an argument): the
code never patches them, and the properties say exactly what holds in spite of
them.

### SymbolTable

A table is its index in creation order; lists of entries are kept newest first,
as in C. A reduction that touches the table is an action. `assign_offsets` is one
step, which may come at any time: `runner.c:196` calls it after a parse that was given up,
with whatever scope is open then. `parameters`,
`resolved` and `calls` remember what the source said, for the properties alone.
`workload` is chosen as in `SemanticActions`.

### Leaders and BasicBlocks

The two loops of `find_leaders`, one iteration per action, starting from any IR.
`BasicBlocks` finds the entrances of all blocks in one step; `Leaders` implements
it with `blocks` being the set of `Leaders` once the second loop is done and
nothing before, so no partial result counts. The first loop reads `longList[t]` before
it tests t (`ir.c:301, 306`): `longList[-1]` for a call or a return, whose target is -1,
and `longList[nextinstr]` behind the last line. These words belong to somebody else
(`Neighbours`): each iteration finds any value there, and nothing depends on it. The abstract specification is fair,
and so is the detailed one: the loops end.

### Heap and Objects

`Heap` has the bytes: byte k of a value v is `<<v, k>>`, and a read of n bytes finds
v where all n are v's, `Unknown` where they are not. Layout is computed by the
operators of `grammar.y` (`header_size`, `total_bytes`, `curr_index`), once for
reserving and once for accessing, as there; the bounds come from the header in
memory, never from what the model knows. `blocks` remembers what was reserved, for
the properties. Each action is the emitted code of one statement: reserve, a
string literal, release, `x := y`, a store, a load or a dimension lookup. A check that
fails calls `.crash`, which reports and **returns** (`cg.c:1528-1530`) into the access it
guards. On that path the offset was never computed: it is whatever its slot held,
and `Stray` is the set of addresses the access may then be made at. A load finds
something there. A store may hit any byte, a header or what `malloc` keeps of its
own; `wild` says that one was made, and from then on no property says anything of
the memory. Elements hold values, never references, so no access goes from one block
to another. An access is a path of selectors (`Place`); as in
`grammar.y:777` and `:1096` a selector replaces the offset of the one before and
keeps the variable's block.

`Objects` has no memory: objects are functions from positions to contents. The
mapping reads each element of each block from its bytes at its offset. Because a
store must change the element it names and leave every other element of every
object as it was, the refinement finds overlapping elements, a header in the way,
wrong widths, wrong indices and a check that lets too much or too little through. An
access where there is no element is reported there too, and does not stop the
program; after a store of that kind `Objects` promises nothing.

### Driver

The scanner's input is a sequence of what flex may match: a token, blanks, the
two ends of a comment, a newline. One action is one match, one report, one step of
bison's automaton as far as it asks for tokens (`Shift`, `Discard`, `SyntaxError`,
`ParseEnds`), one output of `main`. Which tokens the grammar accepts is open.
`err_buf` is as long as `runner.c:15` defines it, `ErrLines`, and each reporter
compares with what its file believes; `line_buf` has `LineSize` bytes (2048 in
`runner.c:14`), to which `strcat` appends each match unchecked (`compiler.lex:24, 182`). A
message past the end, a line that fills its buffer, or the length of a
name that is NULL, takes the model to the phase "undefined", where it stays, and of
which the properties of the text say nothing. An output whose file cannot be opened ends
the program (`symboltable.c:373`, `ir.c:267`, `cg.c:1104`), as does an IR array that is full,
in the middle of the parse (`Overflow`). Not modelled is that one message may be longer
than its 256 bytes (`yyerror` and the structural errors use `sprintf`).
`reported` remembers all errors for the properties.

## What the runs show

Passing runs (each takes about two minutes at most with two workers):

| Run | Question |
|---|---|
| `CodeGenValues` | Is each operand read where its value is; is everything in memory at jumps; do the two descriptors agree; is the saved frame pointer untouched; are %rax and %rdx never allocated? |
| `CodeGenCalls` | Does a call ever pop more words than were pushed for it, and all of them until the first goto? Does a function start with an empty register file? |
| `SemanticPrograms` | Do nested OR, AND and NOT short-circuit right inside nested loops and branches; the same for Boolean assignments, results, comparisons and arguments of calls inside expressions; do the bounds checks let exactly the indices inside through; is no jump forgotten or patched twice; does one leave its function otherwise than as the way out of a completed test, to the line behind; does the IR stay as it is after an error, and is the IR array never overrun? |
| `SymbolTablePrograms` | Do names keep their meaning, are the slots of live variables disjoint and those of a function's own scope inside its frame? Is each parameter read where its argument is, is each record field where its access looks? |
| `LeadersBlocks` | Whatever the words next to `longList` hold: are blocks basic blocks, each leader needed, the array filled exactly? Do the loops implement `BasicBlocks`, and end? |
| `HeapAccesses` | Do elements, fields, headers and string literals keep apart; does memory implement the objects of the language, until a store is made behind a failed check? |
| `DriverRuns` | While no buffer is overrun: is the annotated source the source, is each message below the line the scanner was at? Which messages are lost; is no IR or assembly written for a program with a type or syntax error; does every run end? |

Runs that end in a violation; each shows one disagreement between the code and
something the repository says of it, quoted in `PROJECT.json` under "findings":

| Run | Disagreement |
|---|---|
| `CodeGenCopyLosesSource` | after `x := y` the value of y is lost: a later `loadReg(y)` returns a register without it |
| `SemanticEpilogue` | a function ending in `if` or `while` without a return jumps into the next function, past the epilogue emitted for it |
| `SymbolTableDeepFrame` | the frame is sized by the shallowest scope, not the deepest |
| `HeapNested` | `arr(0).x := v` writes to the array's own block, over its header, as in `tests/gram_simplestm_valid.alpha:16` |
| `SymbolTableForward` | a call before the body of an `as` function passes one word where the body reads one per field, as in `tests/tc_as_valid.alpha` |

Further disagreements met while modelling, in forms the passing runs leave out:

- `=` and `<` on Boolean operands (`grammar.y:1242-1289`, `compare_booleans`), and a
  Boolean passed as a field (`grammar.y:930`, `packed_argument`), leave the
  operands' jumps without a target, for good: the jumps in `abandoned`.
- An error reported when the parser has read the end of the input is never written
  to the `.asc` file, with a syntax error of an unfinished last function among
  them: the scanner writes the last line before it returns the end of the input
  (`compiler.lex:181-185`). When `emit` finds the IR array full it exits
  (`ir.c:28-31`), and the structural errors of the line go with it. `LostMessages` says
  that no other message in `err_buf` is lost.
- A Boolean argument leaves words on the stack, one for each goto before its call,
  its own expression's included; `cg.c:692-693` says of `param_count -= 1` "this is to
  handle double increment for param for booleans" and "Should work for more than one
  booleans too".
- A duplicate definition or an undefined type sets no flag: IR and assembly are
  written for such a program (`grammar.y:273`). `CleanOutput` leaves them out.
- Any output flag for a program read from stdin takes the length of a NULL name
  (`runner.c:153`); the eleventh message of a line, if a type error or a
  structural one, goes past `err_buf` (`runner.c:15`, `grammar.y:140`); a line of 2048
  characters goes past `line_buf` (`runner.c:14`, `compiler.lex:24`).
- `x := reserve y` takes its layout from y, and the value is an address that any
  array or record variable accepts (`grammar.y:621`): `Heap` reserves with the type
  of the variable itself.
- `.crash` returns (`cg.c:1528-1530`), and behind its call is the access it guards,
  with an offset that was not computed on that path (`grammar.y:875-878`).
- A parameter with its function's own name hides the function from
  `grammar.y:439`, so it is never marked `FUNC_AS`: `CallsMatch` fails with
  `own_name` and two parameters.
- `Leaders` has no terminator although `include/ir.h:75` promises one; `block_end`,
  which would read it, has no caller.

### Bounds, and why they are enough

- *Code generator.* Five registers, of which %rax and %rdx are reserved, leave
  three: two locals and two temporaries are one variable more than fits, so the
  round robin evicts, wraps around and skips. Three is the most registers one
  instruction uses. The operations take two or three operands and descriptors
  relate one variable to one register, so a fifth variable meets the
  same situations. One constant suffices as constants differ in nothing the
  properties see. `MaxParams` bounds the arguments pushed and `param_count`,
  where -`MaxParams` stands for every smaller count as well (`More`); two are enough for
  a count that differs from the words pushed by one and by more.
  The two runs share the 21 kinds of instruction between them.
- *Semantic actions.* Two conditions give four valuations: enough to tell AND,
  OR, either operand and their negations apart. `IR_ARRAY_SIZE` (2048 in `ir.h`)
  is the length of the longest program and `MaxStack` the depth of nesting;
  each workload enables the constructs that share lists: `Control` (8 instructions) has room
  for a loop in a branch that has an ELSE, and for a loop whose condition has two operators; `Values` for an
  array write in two dimensions (15 instructions) or two stored results, one of them
  an argument of the other's expression; `Errors` for an error between any two
  reductions. Because `emit` exits when the array is full, a reduction
  needs room for all it emits (`Room`); what it emits before the exit is left out, as
  the process is gone and nothing reads it. So short arrays cut programs off and never
  alter them; `TypeOK` checks that they are not overrun.
- *Symbol table.* Three or four scopes, two or three entries each, two names and one or
  two functions: an inner scope shadowing an outer one, two siblings that reuse
  slots, a type with the name of a function, two functions calling each other.
  `uses` and `calls` bound how many are *remembered* for the property; other uses
  still happen. `Scopes`, `Types` and `Calls` are the workloads of the run.
- *Heap.* 24 bytes and two blocks at a time, which is every pair of a small and a large
  block, in every order and every place `malloc` may choose; `Stray` is the first address,
  where a header may be. Dimensions from 0 to 2
  with indices from -1 to 2 are all cases of a check; the matrix has two dimensions of
  different sizes; the elements are 1, 4 and 8 bytes wide, the last with the padding
  of the header. One value suffices to tell a stored element from another, and the
  characters of the literal are two. The last access is left out of the states' VIEW:
  no step reads it, and TLC compares it at every step. So is the memory after a wild
  store, of which no property says anything.
- *Driver.* Every input of up to three matches and three longer ones, eight command
  lines, three errors. `ErrLines` 2 and `TypeLines` 4 stand for 10 and 20: one more
  message than fits, from each kind of reporter, is among the three. `LineSize` 6 stands for
  2048: some of the lines fit and some do not.
- *Leaders.* All programs of four instructions; the theorems cover the rest.

`CHECK_DEADLOCK FALSE` stands in the configurations because a compilation ends:
the program is over, or a bound on its length is reached.

### Fairness and liveness

Where the environment is a program yet to be read (`CodeGen`, `SemanticActions`,
`SymbolTable`, `Heap`), nothing obliges it to go on: no fairness is assumed and no
liveness stated. `Leaders` and `Driver` are programs that run on their own, in one
thread that goes on as long as it can: `WF_vars(Next)`. `BlocksAreFound` says that
`find_leaders` ends with all blocks found. `Terminates` says that every run of the
compiler ends: error recovery could go round without taking a token
(`Discarded_Kept` is the mistake), and the errors of one run are bounded by
`MaxReports`, because a report without progress in the input is a reduction, of
which a finite input has finitely many.

### Mutants

Each property of a passing run has a mistake in `PROJECT.json` ("mutants"), an
operator such as `NextVictim_NoSkip` placed before the definition it replaces and
commented as a mistake; with it the property is violated.

## What is proved

All constants are arbitrary within the assumptions of the modules: at least five
registers (`SizeAssumption`; `cg.h` has 12), classes of entries that are disjoint
(`EntriesAssumption`), known instruction kinds and disciplines
(`InputAssumption`), at least one IR instruction in `Leaders`; workloads of the stated
type in `SemanticActions` and `SymbolTable` (in the second: at least one table, at least
one parameter and no more of them than entries, names that are not numbers), so any
programs of any size; in `Driver` any command lines over the known arguments, any
inputs, and an `err_buf` of at least one line and a `line_buf` of any size (`DriverAssumption`), so its
theorems hold for `ErrLines` 10, `TypeLines` 20 and `LineSize` 2048; in `Heap` arrays of at least one dimension,
records of at least one field (the grammar asks for one, `grammar.y:511-516`),
literals whose text is no shorter than what it stands for (`HeapAssumption`).

| Theorem | States | Along |
|---|---|---|
| *CodeGen_proofs* | | |
| `TypeCorrect` | `Spec => []TypeOK` | `FileInOrder`, `CallOrder`, `Flags` |
| `ReservedRegistersAlways` | `Spec => []ReservedRegisters` | `FileInOrder` |
| `DescriptorsAgreeAlways` | `Spec => []DescriptorsAgree`, if the IR keeps `no_eviction_clash` | `FileInOrder` |
| `OwnArgumentsOnlyAlways`, `BalancedUntilGotoAlways` | `Spec => []OwnArgumentsOnly` etc. | `CallOrder` |
| *CodeGenValues_proofs* | | |
| `ValuesFindableAlways`, `OperandsCurrentAlways`, `TransferInMemoryAlways` | `Spec => []ValuesFindable` etc., if the IR keeps all disciplines | `Held` |
| `CleanEntryAlways` | `Spec => []CleanEntry`, if the IR keeps `ends_flushed` | `Idle` |
| `FramePointerSavedAlways` | `Spec => []FramePointerSaved`, if there is no "constant - variable" | `Anchored` |
| *SemanticActions_proofs* | | |
| `TypeCorrect` | `Spec => []TypeOK` | `Sound` |
| `FrozenAfterErrorAlways` | `Spec => FrozenAfterError`, an action property | action by action |
| `NothingDanglingAlways` | `Spec => []NothingDangling` | `Linked` |
| `TestsDecideAlways`, `ExpressionsDecideAlways` | `Spec => []TestsDecide` etc. | `Linked`, `Decisive` |
| `JumpsLeaveAtEndAlways` | `Spec => []JumpsLeaveAtEnd` | `Linked`, `Decisive`, `Leaving` |
| *SymbolTable_proofs* | | |
| `TypeCorrect` | `Spec => []TypeOK` | `Scoped` |
| `ResolutionsStandAlways` | `Spec => []ResolutionsStand` | `Scoped`, `UsesStand` |
| `SlotsDisjointAlways`, `FrameHoldsOwnSlotsAlways` | `Spec => []SlotsDisjoint` etc. | `Scoped`, `ParametersPlaced` |
| `ArgumentsArriveAlways` | `Spec => []ArgumentsArrive` | `Scoped`, `ParametersOldest` |
| `FieldsAgreeAlways` | `Spec => []FieldsAgree` | `Scoped`, `RecordsClosed` |
| `CallsMatchAlways` | `Spec => []CallsMatch`, if calls follow the one body of their function (`Orderly`) | `Scoped`, `CallsKnown` |
| *Leaders_proofs* | | |
| `LeadersTyped`, `LeadersFitAlways`, `BlocksAreBasicAlways`, `NoNeedlessFlushAlways` | `Spec => []TypeOK` etc. | `InOrder` |
| `FindsTheBlocksAlways` | `Spec => FindsTheBlocks`: the initial state maps to one of `BasicBlocks`, each step to a step or a stutter | `InOrder`, `FoundWhenDone` |
| *Heap_proofs* | | |
| `TypeCorrect`, `ElementsApartAlways` | `Spec => []TypeOK` etc. | `Shape`, `Laid` until a wild store |
| `HeadersKeptAlways` | `Spec => []HeadersKept`, if `MaxSelectors < 2` | `Laid`, `Intact` |
| `ImplementsObjectsAlways` | `Spec => ImplementsObjects`, the refinement of `Objects`, if `MaxSelectors < 2` | `Laid`, `Intact` |
| *Driver_proofs* | | |
| `TypeCorrect` | `Spec => []TypeOK` | the parts of `TypeOK`, variable by variable |
| `CleanOutputAlways` | `Spec => []CleanOutput` | `ErrorsTold`, `FlagsAgree`, `FailureReported`, `OutputsInOrder` |
| `LostMessagesAlways` | `Spec => []LostMessages` | `RestIsLate`, `WaitingTold`, `ReturnedEarly` |
| `SourceCopiedAlways` | `Spec => []SourceCopied` | `Copying` |
| `ErrorsAnnotatedAlways` | `Spec => []ErrorsAnnotated` | `Annotating` |

A theorem with an "if" is not the strongest one can imagine but the strongest that
is true: each of these conditions has a run or a discipline above that shows
the property broken without it.

*The register file.* `ReservedRegisters` and `DescriptorsAgree` are not inductive
on their own: `register_file[i]` may be any value, and a variable could point at a
register outside the file. `Good(s)` adds the types of the record and, only with
`no_eviction_clash`, agreement of the descriptors; `FileInOrder` is `Good(cg)`
plus the range of `live`, without which an operand need not be an entry.
`Good` is a predicate on states, so each helper has a lemma "from a good state to a good
state" (`GoodLoad`, `GoodFree`, `GoodFlush`, ...) and each handler's lemma
follows the chain `s0, s1, ...` of its action. Agreement needs the discipline for one
handler alone: `y[z]` read into x takes x's register while z's is still
claimed by z, and releases it afterwards by number; if x had been given that very
register, x would be left pointing at an empty one (`MemReadVarKeeps`).

*Where values are.* `ValuesFindable` says nothing about registers a variable no
longer knows of, and the flush stores those too, over whatever is in the slot.
`Current(s, L)` therefore asks three things for the variables in L: the
descriptors are `Good`, every *claimed* register holds its claimant's value
(`Claimed`), and a variable in no register is in its slot (`Slotted`). Like `Good` it
is carried through the helpers one by one, and L shrinks as operands die. `Held`
adds, phase by phase, that everything is in memory and no register claimed where
control leaves. Where each discipline is used is where its row in the table above
says. `CleanEntry` needs much less, `Idle`: each of the ways out of a function
flushes. `FramePointerSaved` is a separate invariant, `Anchored`: every store is to
the slot of a variable, whose cell is not the saved %rbp's.

*The stack.* `param_count <= pushed` holds for all IR: gotos only lower the
count, and the goto inside a Boolean argument, which takes a word off what its path has
pushed, lowers both. Words are pushed in the phases of an argument list only
(`CallOrder`), so each call starts from none; before the first goto count and words are
changed together. With a Boolean argument there is no equality to prove: its own
expression has had a goto before.

*Backpatching.* `Sound` is the types plus the shape of the semantic stack: which kinds
of items own lists, and that an operator stands on its left operand, without
which the reduction of `and` would merge lists that are not there. `Tight` ties
stack and IR together while no error is reported. `Partition`: each jump without a
target is in exactly one list of exactly one item, or abandoned; two lists sharing a line would
make a `backpatch` send a jump of another construct to its own target. `Within`:
lists and lines of the items belong to the function being compiled, which is
what keeps patched jumps out of the functions before it. A reduction is a chain of
`emit` and `backpatch` on intermediate arrays; `Grown(c, n, W)` says of such an array
that earlier functions are untouched and that exactly the jumps in W are open,
so each reduction's lemma is the bookkeeping of W alone.

*Where tests lead.* `TestsDecide` speaks of completed tests and `ExpressionsDecide` of
expressions; neither is inductive, because a test is completed by patching jumps
that until then belong to a `while_body`, a `then` or an operator waiting on the
stack. `Decisive` says of every item what it answers for, in the lines from its own
`quad` to the next item's: an expression stays at a jump of the list its truth
names, from its first line as from where its own jumps start (`Answers`); the test
before a body leads into the body or stays at its false list (`Guards`); the goto
before an ELSE skips it (`Skips`). Of a completed test it says that control arrives
at `yes` or `no`, or stays at an abandoned jump (`Arrives`); its second disjunct is
the goto at the end of a loop, the one step back to the loop's test. Where control goes
is a *set* of lines, `Path`, and not a sequence: each line of it leads to a later one of the
same set, up to the goal. Two paths are composed by a union (no induction over a
sequence), and because a path only goes forward it is left after at most
`nextinstr` steps, which is how `Reaches`, the recursive function of the
properties, follows from it (`RunIs`, `Arrived`). A step patches only lists of items it
removes, and these are in nobody else's (`Partition`); every line already passed is
passed the same way afterwards (`Kept`, `AfterKept`, `LeadsKept`), so whatever
the step leaves on the stack still answers (`Shifts`, `StepKeeps`, `BelowSettled`),
and each action has to show its new item and its new test only. The bounds checks
of an array write or read are a loop over the dimensions (`CheckLines`, `CheckLeads`), proved along
their number. `JumpsLeaveAtEnd` says more than where the jumps of a function are
patched to: a jump to the line behind the last is only there if a completed test has its
way out there. `Leaving` says so of every state: if a jump of the function leads to the line
that will be emitted next, a test completed in it, or a body still waiting on the
stack, is its `Reason`; whatever emits an instruction makes that line one of the
function's own (`Sealed`). TLC found `Decisive` true in all 1 358 510 states of
`SemanticPrograms` before it was proved.

*Symbol table.* `Scoped` holds in every state: the tables are a tree of bounded size
whose parents come first and whose names are distinct (`Tree`), a scope that
still declares has no children (`Opened`), bodies are children of the global scope
(`BodiesPlaced`). A step relates the tables before and after by `Follows`: entries
are added at the front, none is lost or renamed; so a look-up that succeeded
goes on to find the same entry (`UsesStand`), unless a declaration comes in between,
which `declaring` excludes. Slots: offsets follow the number of slots on the
path to the global scope (`EndOf`, `EnclosingIn`), so two variables of nested scopes
differ in depth and two of one scope in place. Arguments: the parameters are the oldest entries of the
body's scope, last first (`ParametersOldest`). Fields: a record's scope is closed
when its entries become fields and no step touches it again (`RecordsClosed`).
Calls: a body fixes the number of words, and no later step changes it
(`CallsKnown`).

*Leaders.* `Counted` ties `numberOfLeaders` to the cardinality of the marked set;
`Copied` says that after i iterations the array holds the marked lines below i,
in order; from both, the next write is inside the array. `Covered` and
`Justified` say what is marked: the successors of each transfer seen so far,
and nothing else but line 0.

*The heap.* An element's number is a mixed-radix numeral with the sizes as
radices: `NumberBelow` says that it is less than their product, so the element lies in the
block, and `NumberOwn` that different indices have different numbers, so
elements share no byte; both are inductions over the dimensions with one
product of two variables at a time (`Rows`). `Laid` is what reserving and
releasing keep: blocks in the heap, apart, of the type of the variables that
refer to them, until a wild store is made (`LaidAlways`). `Intact` is what stores keep: each header reads as the sizes
reserved, and bytes that no block takes have no value. It needs accesses of one
selector, because `arr(0).x` takes the field's offset in the array's own block
(`HeapNested` shows the header overwritten); with one selector an access that passed its checks
is behind the header (`AccessPlace`, `StoreMemory`). For the refinement each action has a
lemma: a reserve or a string makes a new object (`ReserveObject`, `StringObject`)
and leaves the others (`BlockSame`: an object depends on the bytes of its block
only); a store changes `Held` at the one position (`StoreHeld`); a load, a dimension
and a report agree with what the object is.

*The driver.* `CleanOutput` speaks of files, which are written long after the last
error, and says nothing about the steps between. Four facts carry it through:
`error_reported` knows of every type and syntax error whether its message got a line
or not; whoever sets it clears `cgFlag`, so that `printCG` may ask `cgFlag` alone; a
parser that looks for a way on, or counts the tokens after an error, has reported
one, so a failed parse is a reported one although `main` goes on with `status` 1;
and IR comes before assembly, both after the parse. `LostMessages`: at the end of the input the flush
leaves `err_buf` empty if `line_buf` has text, and an error is reported with a token in
hand, whose text is in `line_buf`, so the flush that `compiler.lex:182` leaves out for an
empty last line loses nothing (`ErrorsHaveText`, `RestIsLate`). In the middle of the
parse the program returns only where `emit` exits, which it does only as long as no error
was reported: what waits then is structural (`WaitingTold`), of the scanner's line
(`WaitingHere`). `SourceCopied` and `ErrorsAnnotated` are about concatenations of all lines:
`Copying` says that the lines written and the line being read are what was scanned
so far (`TextKept`), `Annotating` that the messages written and those waiting are
those that got a line (`MessagesKept`), and that the ones waiting name the line
the scanner is on (`WaitingHere`), which is why they are below it when it is written.

*Induction.* The library's induction theorems take an operator as a parameter,
which the installed provers cannot instantiate. `Induction` states induction for
sets instead (`Strong`, `StrongDown`, `Steps`: a set that has 0 and with n also n + 1
has all of 0 .. N), proved from the well-foundedness of < by the least element of the
complement. `Recursion` gives the solution of a recursive equation in the same form.
With them the recursive functions of the models (`Product`, `curr_index`,
`lookup_symbol`, `Enclosing`, `max_depth`, `Reaches`, `FlattenSeq`) can be reasoned about: the CHOOSE that defines
such a function is a solution because one exists, and what holds of all
solutions is proved along the numbers.

## Only model-checked

- Accesses of two selectors in `Heap`: the run `HeapNested` shows that the
  headers do not survive them.
- Liveness and ENABLED are beyond the prover: `BlocksAreFound` and `Terminates` are
  checked by TLC only, the safety part of the first is proved.

## Not modelled, and why

- Values: of constants, of folded expressions (division by a constant zero), of
  integers at run time. Properties are about where values are.
- The bytes of strings and the wording of assembly, IR and symbol-table files.
- The scanner's regular expressions; flex's and bison's own machinery.
- The types themselves. A type error appears as a report and the flags it sets; the
  comparisons that lead to it are local to one reduction and left open.
- A definition whose name is a function *type* (`grammar.y:447-455`).
- The run-time library: external assembly, seen as "a call keeps no register".
- `as_index` against `CG_SIZE`, unchecked in the code; `block_index_from_IR_line`,
  which nothing calls.

## Plan

Done: `RegisterFile` and `CodeGen`, `SemanticActions`, `SymbolTable`, `Leaders` with
the refinement of `BasicBlocks`, `Heap` with the refinement of `Objects`, `Driver`;
each with its runs and its proofs.

Left:

- `VariableStore`: what a register allocator promises (each variable has a value;
  an instruction reads the current one), as an abstract specification that
  `CodeGen` under the disciplines implements, `stale` and `pushed` being hidden.
- `Pipeline`: a function from its source constructs to IR to blocks,
  composing `SemanticActions` and `Leaders`.
- The comparisons of the type checker.
