---------------------------- MODULE SymbolTable -----------------------------
(***************************************************************************)
(* The symbol table of symboltable.c as the parser of grammar.y drives it: *)
(* a tree of scopes, each a list of entries with the newest at its head,   *)
(* and assign_offsets, which lays out the stack frames once parsing ends.  *)
(*                                                                         *)
(* An action is a reduction of grammar.y that touches the table.  A table  *)
(* is its index in creation order (the all_tables list), so a parent comes *)
(* before its children.  An entry keeps what the frame layout and the      *)
(* resolution of names tell apart: its name, its class and its offset.     *)
(***************************************************************************)
EXTENDS Integers, Sequences, FiniteSets, SequencesExt

CONSTANT
    Workloads \* the programs: the names, definitions and blocks they use, and bounds

ConstructSet == {"record", "type", "function", "block",
                 "redefinition", \* a function is given a second body
                 "forward_call", \* a call precedes the body of the function
                 "own_name"}     \* a parameter has the name of its function

\* Identifiers of parameters, variables, fields and types, those of functions,
\* which may be among them, and bounds on the number of scopes, the entries of
\* a scope, the parameters of a function, and the uses and calls remembered.  A
\* function takes at least one parameter, and no identifier is a number.
WorkloadType(w) ==
    /\ w.constructs \subseteq ConstructSet
    /\ w = [names |-> w.names, functions |-> w.functions, constructs |-> w.constructs,
            tables |-> w.tables, entries |-> w.entries, parameters |-> w.parameters,
            uses |-> w.uses, calls |-> w.calls]
    /\ {w.tables, w.entries, w.parameters, w.uses, w.calls} \subseteq Nat
    /\ w.tables >= 1 /\ 1 <= w.parameters /\ w.parameters <= w.entries
    /\ \A n \in w.names \union w.functions : n \notin Nat

ASSUME WorkloadsAssumption == \A w \in Workloads : WorkloadType(w)

VARIABLES
    workload,      \* the program's
    tables,        \* the scopes: parent (0 for the global one) and entries
    current_table, \* the innermost open scope
    declaring,     \* the block just opened may still declare variables
    temp_variable_count,
    domain,        \* how many fields the record a function takes has, 0: no record
    fdt,           \* whether a call passes that record field by field
    scope,         \* each function's scope, 0 when it has none
    stack_size,    \* each function's, once offsets are assigned
    parsed,        \* the parser is done and offsets are assigned
    \* what the source said (not variables of the compiler)
    parameters,    \* the parameter list of each function's last definition
    resolved,      \* some uses of names: the scope of the use, the entry found
    calls          \* some calls: the function and the words its arguments take

Names == workload.names
Functions == workload.functions
Constructs == workload.constructs
MaxTables == workload.tables
MaxEntries == workload.entries
MaxParameters == workload.parameters

functionVars == <<domain, fdt, scope, stack_size, parameters>>
vars == <<workload, tables, current_table, declaring, temp_variable_count, functionVars, parsed,
          resolved, calls>>

global_table == 1

Slotted == {"LOCAL", "TEMPORARY"}
Classes == Slotted \union {"PARAMETER", "CONSTANT", "RECORD_MEMBER", "FUNC_ENTRY", "TYPE_ENTRY"}

\* A temporary is named by its number.
Entry(n, c) == [name |-> n, class |-> c, offset |-> 0]

\* Types.  In particular the scopes form a tree whose root is the global one,
\* and the open scope is always one of them: no } closes the global scope.
TypeOK ==
    /\ workload \in Workloads
    /\ tables \in Seq([parent : 0 .. MaxTables,
                       entries : Seq([name : Names \union Functions \union Nat, class : Classes,
                                      offset : Int])])
    /\ Len(tables) <= MaxTables
    /\ current_table \in DOMAIN tables
    /\ \A t \in DOMAIN tables : tables[t].parent < t /\ Len(tables[t].entries) <= MaxEntries
    /\ declaring \in BOOLEAN /\ parsed \in BOOLEAN
    /\ temp_variable_count \in Nat
    /\ domain \in [Functions -> 0 .. MaxParameters]
    /\ fdt \in [Functions -> {"FUNC_NORMAL", "FUNC_AS"}]
    /\ scope \in [Functions -> 0 .. Len(tables)]
    /\ stack_size \in [Functions -> Int]
    /\ parameters \in [Functions -> Seq(Names)]
    /\ resolved \subseteq [table : DOMAIN tables, name : Names, entry : Nat \X Nat]
    /\ calls \subseteq [function : Functions, words : 0 .. MaxParameters]

-----------------------------------------------------------------------------
(* symboltable.c                                                           *)

Table(parent) == [parent |-> parent, entries |-> <<>>]

\* The global scope; the primitive types have names no identifier has.
Init ==
    /\ workload \in Workloads
    /\ tables = <<Table(0)>> /\ current_table = global_table
    /\ declaring = FALSE /\ temp_variable_count = 0
    /\ domain = [f \in Functions |-> 0] /\ fdt = [f \in Functions |-> "FUNC_NORMAL"]
    /\ scope = [f \in Functions |-> 0] /\ stack_size = [f \in Functions |-> 0]
    /\ parsed = FALSE
    /\ parameters = [f \in Functions |-> <<>>] /\ resolved = {} /\ calls = {}

Declares(table, n) == \E i \in DOMAIN table.entries : table.entries[i].name = n

\* A mistake the invariants rule out: a new entry goes to the end of the list.
insert_AtEnd(table, n, class) ==
    IF Declares(table, n) THEN table
    ELSE [table EXCEPT !.entries = Append(@, Entry(n, class))]

\* insert_variable, insert_function, insert_record_type: refused when the
\* scope has the name already.
insert(table, n, class) ==
    IF Declares(table, n) THEN table
    ELSE [table EXCEPT !.entries = <<Entry(n, class)>> \o @]

\* Entries are told apart by their table and by how many are older.
NOT_FOUND == <<0, 0>>
Find(t, n) ==
    LET entries == tables[t].entries
        i == CHOOSE k \in DOMAIN entries : entries[k].name = n
    IN  <<t, Len(entries) - i>>

\* From the given scope up to the global one.
lookup_symbol(table, n) ==
    LET found[t \in 0 .. Len(tables)] ==
          IF t = 0 THEN NOT_FOUND
          ELSE IF Declares(tables[t], n) THEN Find(t, n) ELSE found[tables[t].parent]
    IN  found[table]

IsFunction(n) ==
    \E i \in DOMAIN tables[global_table].entries :
      tables[global_table].entries[i] = Entry(n, "FUNC_ENTRY")

Children(t) == {c \in DOMAIN tables : tables[c].parent = t}

\* How many entries of a class in C the list has before its i-th.
Before(entries, i, C) == Cardinality({k \in 1 .. i - 1 : entries[k].class \in C})

\* A mistake the invariants rule out: the last entry is not counted.
Count_ButLast(entries, C) == Before(entries, Len(entries), C)

Count(entries, C) == Before(entries, Len(entries) + 1, C)

\* assign_offsets_to_table walks each list from its newest entry, then hands
\* every child the same first offset: where the parent's own slots end.
FirstOffset ==
    LET first[t \in DOMAIN tables] ==
          IF t \in {scope[f] : f \in Functions} THEN -8
          ELSE IF tables[t].parent \in {0, global_table} THEN 0
          ELSE LET above == first[tables[t].parent]
               IN  IF above = 0 THEN 0
                   ELSE above - 8 * Count(tables[tables[t].parent].entries, Slotted)
    IN  first

WithOffsets(t, start) ==
    LET entries == tables[t].entries
        place(i) == CASE entries[i].class = "PARAMETER" ->
                           16 + 8 * Before(entries, i, {"PARAMETER"})
                      [] entries[i].class \in Slotted ->
                           start - 8 * Before(entries, i, Slotted)
                      [] OTHER -> entries[i].offset
    IN  [tables[t] EXCEPT !.entries =
           [i \in DOMAIN entries |-> [entries[i] EXCEPT !.offset = place(i)]]]

Greatest(S) == CHOOSE x \in S : \A y \in S : y <= x

\* A mistake the invariants rule out: the depth of where the slots begin.
max_depth_OfStart(start) == start

\* max_depth < d ? d : max_depth over the children, offsets being negative.
max_depth(start) ==
    LET depth[t \in DOMAIN tables] ==
          Greatest({start[t] - 8 * Count(tables[t].entries, Slotted)}
                     \union {depth[c] : c \in Children(t)})
    IN  depth

-----------------------------------------------------------------------------
(* grammar.y                                                               *)

AtGlobal == ~parsed /\ current_table = global_table
\* A mistake the invariants rule out: a block may be closed that was not opened.
InFunction_Anywhere == ~parsed

InFunction == ~parsed /\ current_table # global_table

RoomFor(k) == Len(tables[current_table].entries) + k <= MaxEntries

\* FUNCTION ID : type, a type whose domain is a record of k fields or, for 0,
\* something else.
Prototype(f, k) ==
    LET global == insert(tables[global_table], f, "FUNC_ENTRY")
    IN  /\ AtGlobal /\ "function" \in Constructs /\ RoomFor(1)
        /\ tables' = [tables EXCEPT ![global_table] = global]
        /\ domain' = IF global = tables[global_table] THEN domain ELSE [domain EXCEPT ![f] = k]
        /\ UNCHANGED <<current_table, declaring, temp_variable_count, fdt, scope, stack_size,
                       parsed, parameters, resolved, calls>>

insert_type(table, n) == insert(table, n, "TYPE_ENTRY")

\* TYPE ID : 2 -> type, TYPE ID : type -> type
DefineType(n) ==
    /\ AtGlobal /\ "type" \in Constructs /\ RoomFor(1)
    /\ tables' = [tables EXCEPT ![global_table] = insert_type(@, n)]
    /\ UNCHANGED <<current_table, declaring, temp_variable_count, functionVars, parsed,
                   resolved, calls>>

\* TYPE ID : ... the scope of its fields
BeginRecord ==
    /\ AtGlobal /\ "record" \in Constructs /\ RoomFor(1) /\ Len(tables) < MaxTables
    /\ tables' = Append(tables, Table(global_table))
    /\ current_table' = Len(tables) + 1
    /\ declaring' = TRUE
    /\ UNCHANGED <<temp_variable_count, functionVars, parsed, resolved, calls>>

InRecord == InFunction /\ declaring /\ tables[current_table].parent = global_table
              /\ \A f \in Functions : scope[f] # current_table

\* The fields have their offsets at once, the newest the greatest.
EndRecord(n) ==
    LET entries == tables[current_table].entries
        fields == [i \in DOMAIN entries |->
                     [entries[i] EXCEPT !.offset = 8 * (Len(entries) - i),
                                        !.class = "RECORD_MEMBER"]]
    IN  /\ InRecord /\ entries # <<>>
        /\ tables' = [tables EXCEPT ![current_table].entries = fields,
                                    ![global_table] = insert_type(@, n)]
        /\ current_table' = global_table
        /\ declaring' = FALSE
        /\ UNCHANGED <<temp_variable_count, functionVars, parsed, resolved, calls>>

\* The scope of a body: the parameters are inserted first to last.
Body(ps) ==
    LET body[k \in 0 .. Len(ps)] ==
          IF k = 0 THEN Table(global_table) ELSE insert(body[k - 1], ps[k], "PARAMETER")
    IN  body[Len(ps)]

\* ID (p) := ... and ID AS (p1, .., pn) := ... the scope of the body, with the
\* parameters in it.  A function that has a body already gets another scope.
\* The function is looked up from its own scope to be marked FUNC_AS.
BeginFunction(f, ps, as_packed) ==
    LET body == Body(ps)
    IN  /\ AtGlobal /\ IsFunction(f) /\ Len(tables) < MaxTables
        /\ Len(ps) = IF as_packed THEN domain[f] ELSE 1
        /\ "redefinition" \in Constructs \/ scope[f] = 0
        /\ "own_name" \in Constructs \/ ~Declares(body, f)
        /\ tables' = Append(tables, body)
        /\ current_table' = Len(tables) + 1
        /\ scope' = [scope EXCEPT ![f] = Len(tables) + 1]
        /\ fdt' = IF as_packed /\ ~Declares(body, f) THEN [fdt EXCEPT ![f] = "FUNC_AS"] ELSE fdt
        /\ parameters' = [parameters EXCEPT ![f] = ps]
        /\ declaring' = TRUE
        /\ UNCHANGED <<domain, temp_variable_count, stack_size, parsed, resolved, calls>>

\* A mistake the invariants rule out: declarations may follow statements.
Declaration_Anywhere(n) ==
    /\ InFunction /\ RoomFor(1)
    /\ tables' = [tables EXCEPT ![current_table] = insert(@, n, "LOCAL")]
    /\ UNCHANGED <<current_table, declaring, temp_variable_count, functionVars, parsed,
                   resolved, calls>>

\* type : ID
Declaration(n) ==
    /\ InFunction /\ declaring /\ RoomFor(1)
    /\ tables' = [tables EXCEPT ![current_table] = insert(@, n, "LOCAL")]
    /\ UNCHANGED <<current_table, declaring, temp_variable_count, functionVars, parsed,
                   resolved, calls>>

\* A statement uses a name; the declarations of its block are over.  (A name
\* that is not found is a type error, and no code is generated.)
Use(n) ==
    /\ InFunction /\ ~InRecord
    /\ LET sym == lookup_symbol(current_table, n)
           use == [table |-> current_table, name |-> n, entry |-> sym]
       IN  /\ sym # NOT_FOUND
           /\ \/ UNCHANGED resolved
              \/ Cardinality(resolved) < workload.uses /\ resolved' = resolved \union {use}
    /\ declaring' = FALSE
    /\ UNCHANGED <<tables, current_table, temp_variable_count, functionVars, parsed, calls>>

\* A mistake the invariants rule out: every record is passed field by field.
ArgumentWords_AnyRecord(f) == IF domain[f] > 0 THEN domain[f] ELSE 1

\* The argument of f takes one word unless f is known to unpack its record.
ArgumentWords(f) == IF fdt[f] = "FUNC_AS" /\ domain[f] > 0 THEN domain[f] ELSE 1

\* f(e) for the e that is all f takes.
Call(f) ==
    /\ InFunction /\ ~InRecord
    /\ IsFunction(f) /\ lookup_symbol(current_table, f) = Find(global_table, f)
    /\ "forward_call" \in Constructs \/ scope[f] # 0
    /\ Cardinality(calls) < workload.calls
    /\ calls' = calls \union {[function |-> f, words |-> ArgumentWords(f)]}
    /\ declaring' = FALSE
    /\ UNCHANGED <<tables, current_table, temp_variable_count, functionVars, parsed, resolved>>

\* create_new_temp, for a value or for a literal.
create_new_temp(class) ==
    /\ InFunction /\ ~InRecord /\ RoomFor(1)
    /\ tables' = [tables EXCEPT ![current_table] = insert(@, temp_variable_count, class)]
    /\ temp_variable_count' = temp_variable_count + 1
    /\ declaring' = FALSE
    /\ UNCHANGED <<current_table, functionVars, parsed, resolved, calls>>

\* A branch, a loop body or a plain block.
BeginBlock ==
    /\ InFunction /\ ~InRecord /\ "block" \in Constructs /\ Len(tables) < MaxTables
    /\ tables' = Append(tables, Table(current_table))
    /\ current_table' = Len(tables) + 1
    /\ declaring' = TRUE
    /\ UNCHANGED <<temp_variable_count, functionVars, parsed, resolved, calls>>

\* The } of a block or of a function.
EndBlock ==
    /\ InFunction /\ ~declaring
    /\ current_table' = tables[current_table].parent
    /\ UNCHANGED <<tables, declaring, temp_variable_count, functionVars, parsed, resolved,
                   calls>>

\* runner.c calls it whatever the parser's result is: also after a parse that
\* was given up inside a function, a block or a record.
assign_offsets ==
    LET first == FirstOffset
        depth == max_depth(first)
    IN  /\ ~parsed
        /\ tables' = [t \in DOMAIN tables |->
                        IF first[t] = 0 THEN tables[t] ELSE WithOffsets(t, first[t])]
        /\ stack_size' = [f \in Functions |-> IF scope[f] = 0 THEN 0 ELSE depth[scope[f]] + 8]
        /\ parsed' = TRUE
        /\ UNCHANGED <<current_table, declaring, temp_variable_count, domain, fdt, scope,
                       parameters, resolved, calls>>

Step ==
    \/ \E n \in Names : DefineType(n) \/ EndRecord(n) \/ Declaration(n) \/ Use(n)
    \/ \E f \in Functions, k \in 0 .. MaxParameters : Prototype(f, k) \/ Call(f)
    \/ \E f \in Functions, ps \in SeqOf(Names, MaxParameters) \ {<<>>}, as_packed \in BOOLEAN :
         BeginFunction(f, ps, as_packed)
    \/ \E class \in {"TEMPORARY", "CONSTANT"} : create_new_temp(class)
    \/ BeginRecord \/ BeginBlock \/ EndBlock \/ assign_offsets

Next == Step /\ UNCHANGED workload

Spec == Init /\ [][Next]_vars

-----------------------------------------------------------------------------
(* Properties                                                              *)

\* A name keeps the meaning it had where it was used: what is declared later,
\* in this scope, in an inner one or in a closed one, never takes it over.
\* (Each use was compiled with the entry it found then.)
ResolutionsStand ==
    \A u \in resolved : lookup_symbol(u.table, u.name) = u.entry

\* The scopes visible from t, t included.
Enclosing(t) ==
    LET path[k \in 0 .. Len(tables)] ==
          IF k = 0 THEN {} ELSE {k} \union path[tables[k].parent]
    IN  path[t]

Frame(f) == IF scope[f] = 0 THEN {} ELSE {t \in DOMAIN tables : scope[f] \in Enclosing(t)}

InStack(e) == e.class \in Slotted \union {"PARAMETER"}
Cells(t) == {<<t, i>> : i \in {k \in DOMAIN tables[t].entries : InStack(tables[t].entries[k])}}
Offset(cell) == tables[cell[1]].entries[cell[2]].offset

\* Two variables that are alive together never share a slot, and no slot is
\* the saved %rbp's or the return address's.
SlotsDisjoint ==
    parsed => \A f \in Functions : \A t \in Frame(f) : \A u \in Frame(f) \intersect Enclosing(t) :
      /\ \A c \in Cells(t), d \in Cells(u) : c # d => Offset(c) # Offset(d)
      /\ \A c \in Cells(t) : Offset(c) \notin {0, 8}

\* A caller pushes its arguments first to last, so the i-th of n is the word
\* 16 + 8 * (n - i) above %rbp: where the i-th parameter is read.
ArgumentsArrive ==
    parsed => \A f \in Functions : scope[f] # 0 =>
      LET n == Len(parameters[f])
          entries == tables[scope[f]].entries
      IN  IsInjective(parameters[f]) =>
            \A i \in 1 .. n : \E k \in DOMAIN entries :
              /\ entries[k].name = parameters[f][i] /\ entries[k].class = "PARAMETER"
              /\ entries[k].offset = 16 + 8 * (n - i)

\* Every call pushes as many words as the function has parameters, so that
\* each parameter's slot is an argument's.
CallsMatch ==
    \A c \in calls : scope[c.function] # 0 => c.words = Len(parameters[c.function])

\* A mistake the invariants rule out: the fields are counted from the newest.
field_byte_offset_FromHead(t, i) == 8 * Cardinality({k \in DOMAIN tables[t].entries : k < i})

\* The offset field_byte_offset computes for an access: 8 for every field
\* declared before it.
field_byte_offset(t, i) == 8 * Cardinality({k \in DOMAIN tables[t].entries : k > i})

\* An access to a field reads the word that is passed when the whole record
\* is an argument, and the block reserved for the record holds it.
FieldsAgree ==
    \A t \in DOMAIN tables : \A i \in DOMAIN tables[t].entries :
      tables[t].entries[i].class = "RECORD_MEMBER" =>
        /\ tables[t].entries[i].offset = field_byte_offset(t, i)
        /\ tables[t].entries[i].offset < 8 * Len(tables[t].entries)

\* The slots of a function's outermost scope, parameters included, lie in the
\* words it reserves below %rbp or above.
FrameHoldsOwnSlots ==
    parsed => \A f \in Functions : scope[f] # 0 =>
      \A c \in Cells(scope[f]) : Offset(c) >= stack_size[f]

\* Every slot does, of inner scopes as well.
FrameHoldsSlots ==
    parsed => \A f \in Functions : \A t \in Frame(f) : \A c \in Cells(t) :
      Offset(c) >= stack_size[f]
=============================================================================
