-------------------------- MODULE SymbolTable_proofs --------------------------
(***************************************************************************)
(* Proofs about the symbol table for all programs: names, scopes and       *)
(* bounds of every number.  What the table computes by walking its tree is *)
(* defined by recursion along the parents; the lemmas of Induction give    *)
(* the equations of these functions and what follows from them.            *)
(***************************************************************************)
EXTENDS SymbolTable, Induction, FiniteSetTheorems, SequenceTheorems

-----------------------------------------------------------------------------
(* A list of entries                                                       *)

EntrySet(N) == [name : N, class : Classes, offset : Int]
TableSet(N, P) == [parent : P, entries : Seq(EntrySet(N))]

\* An entry is new at the head of the list, or the list has its name.
Inserted(old, new, n, class) ==
    \/ Declares(old, n) /\ new = old
    \/ /\ ~Declares(old, n)
       /\ Len(new.entries) = Len(old.entries) + 1
       /\ new.entries[1] = Entry(n, class)
       /\ \A i \in 1 .. Len(old.entries) : new.entries[i + 1] = old.entries[i]

\* What insert does to a table.
LEMMA InsertFacts ==
    ASSUME NEW N, NEW P, NEW table \in TableSet(N, P), NEW n \in N, NEW class \in Classes
    PROVE  /\ insert(table, n, class) \in TableSet(N, P)
           /\ insert(table, n, class).parent = table.parent
           /\ Inserted(table, insert(table, n, class), n, class)
           /\ Len(table.entries) \in Nat
           /\ Len(insert(table, n, class).entries) \in Nat
           /\ Len(insert(table, n, class).entries) \in Len(table.entries) .. Len(table.entries) + 1
<1> DEFINE e == Entry(n, class)
           s == table.entries
           new == [table EXCEPT !.entries = <<e>> \o @]
<1>1. e \in EntrySet(N)
  BY DEF Entry, EntrySet
<1>2. s \in Seq(EntrySet(N)) /\ Len(s) \in Nat /\ table.parent \in P
  BY DEF TableSet
<1> HIDE DEF e
<1>3. /\ <<e>> \o s \in Seq(EntrySet(N)) /\ Len(<<e>> \o s) = Len(s) + 1
      /\ (<<e>> \o s)[1] = e /\ \A i \in 1 .. Len(s) : (<<e>> \o s)[i + 1] = s[i]
  BY <1>1, <1>2
<1>4. new.entries = <<e>> \o s /\ new.parent = table.parent /\ new \in TableSet(N, P)
  BY <1>2, <1>3 DEF TableSet
<1>5. CASE Declares(table, n)
  <2>1. insert(table, n, class) = table
    BY <1>5 DEF insert
  <2> QED
    BY <1>2, <1>5, <2>1 DEF Inserted
<1>6. CASE ~Declares(table, n)
  <2>1. insert(table, n, class) = new
    BY <1>6 DEF insert, e
  <2> HIDE DEF new
  <2>2. Inserted(table, new, n, class)
    BY <1>3, <1>4, <1>6 DEF Inserted, e
  <2> QED
    BY <1>2, <1>3, <1>4, <2>1, <2>2
<1> QED
  BY <1>5, <1>6

\* The names of a list are declared once.
Distinct(table) ==
    \A i, j \in 1 .. Len(table.entries) : table.entries[i].name = table.entries[j].name => i = j

\* An insertion keeps them so and adds its name at most.
LEMMA InsertNames ==
    ASSUME NEW N, NEW P, NEW old \in TableSet(N, P), NEW new \in TableSet(N, P),
           NEW n, NEW class, Inserted(old, new, n, class), Distinct(old)
    PROVE  /\ Distinct(new)
           /\ \A m : Declares(new, m) <=> m = n \/ Declares(old, m)
<1>1. old.entries \in Seq(EntrySet(N)) /\ new.entries \in Seq(EntrySet(N))
  BY DEF TableSet
<1>2. /\ DOMAIN old.entries = 1 .. Len(old.entries) /\ Len(old.entries) \in Nat
      /\ DOMAIN new.entries = 1 .. Len(new.entries) /\ Len(new.entries) \in Nat
  BY <1>1
<1>3. CASE Declares(old, n) /\ new = old
  BY <1>3
<1>4. CASE ~ (Declares(old, n) /\ new = old)
  <2>1. /\ ~Declares(old, n)
        /\ Len(new.entries) = Len(old.entries) + 1
        /\ new.entries[1] = Entry(n, class)
        /\ \A i \in 1 .. Len(old.entries) : new.entries[i + 1] = old.entries[i]
    BY <1>4 DEF Inserted
  <2>2. \A i \in 1 .. Len(old.entries) : old.entries[i].name # n
    BY <1>2, <2>1 DEF Declares
  <2>3. new.entries[1].name = n
    BY <2>1 DEF Entry
  <2>4. ASSUME NEW i \in 1 .. Len(new.entries)
        PROVE  \/ i = 1
               \/ i - 1 \in 1 .. Len(old.entries) /\ new.entries[i] = old.entries[i - 1]
    <3>1. CASE i # 1
      <4>1. i - 1 \in 1 .. Len(old.entries) /\ (i - 1) + 1 = i
        BY <1>2, <2>1, <3>1
      <4> QED
        BY <2>1, <4>1
    <3> QED
      BY <3>1
  <2>5. Distinct(new)
    <3> SUFFICES ASSUME NEW i \in 1 .. Len(new.entries), NEW j \in 1 .. Len(new.entries),
                        new.entries[i].name = new.entries[j].name
                 PROVE  i = j
      BY DEF Distinct
    <3>1. CASE i = 1 /\ j = 1
      BY <3>1
    <3>2. CASE i = 1 /\ j # 1
      BY <2>2, <2>3, <2>4, <3>2
    <3>3. CASE i # 1 /\ j = 1
      BY <2>2, <2>3, <2>4, <3>3
    <3>4. CASE i # 1 /\ j # 1
      <4>1. /\ i - 1 \in 1 .. Len(old.entries) /\ new.entries[i] = old.entries[i - 1]
            /\ j - 1 \in 1 .. Len(old.entries) /\ new.entries[j] = old.entries[j - 1]
        BY <2>4, <3>4
      <4>2. i - 1 = j - 1
        BY <4>1 DEF Distinct
      <4> QED
        BY <1>2, <4>2
    <3> QED
      BY <3>1, <3>2, <3>3, <3>4
  <2>6. ASSUME NEW m PROVE Declares(new, m) <=> m = n \/ Declares(old, m)
    <3>1. CASE Declares(new, m)
      <4>1. PICK i \in 1 .. Len(new.entries) : new.entries[i].name = m
        BY <1>2, <3>1 DEF Declares
      <4>2. CASE i = 1
        BY <2>3, <3>1, <4>1, <4>2
      <4>3. CASE i # 1
        <5>1. i - 1 \in 1 .. Len(old.entries) /\ new.entries[i] = old.entries[i - 1]
          BY <2>4, <4>3
        <5>2. old.entries[i - 1].name = m
          BY <4>1, <5>1
        <5> QED
          BY <1>2, <5>1, <5>2 DEF Declares
      <4> QED
        BY <4>2, <4>3
    <3>2. ASSUME m = n PROVE Declares(new, m)
      <4>1. 1 \in DOMAIN new.entries
        BY <1>2, <2>1
      <4> QED
        BY <2>3, <3>2, <4>1 DEF Declares
    <3>3. ASSUME Declares(old, m) PROVE Declares(new, m)
      <4>1. PICK i \in 1 .. Len(old.entries) : old.entries[i].name = m
        BY <1>2, <3>3 DEF Declares
      <4>2. i + 1 \in DOMAIN new.entries /\ new.entries[i + 1].name = m
        BY <1>2, <2>1, <4>1
      <4> QED
        BY <4>2 DEF Declares
    <3> QED
      BY <3>1, <3>2, <3>3
  <2> QED
    BY <2>5, <2>6
<1> QED
  BY <1>3, <1>4

-----------------------------------------------------------------------------
(* The parameters of a body                                                *)

\* The scope of a body as it grows by one parameter after the other.
LEMMA BodyGrows ==
    ASSUME NEW N, NEW P, global_table \in P, NEW ps \in Seq(N)
    PROVE  \E f : /\ Body(ps) = f[Len(ps)]
                  /\ f[0] = Table(global_table)
                  /\ \A k \in 0 .. Len(ps) : f[k] \in TableSet(N, P)
                  /\ \A k \in 1 .. Len(ps) : f[k] = insert(f[k - 1], ps[k], "PARAMETER")
<1> DEFINE L == Len(ps)
           V == TableSet(N, P)
           step == [k \in 1 .. L |-> [t \in V |-> insert(t, ps[k], "PARAMETER")]]
           up == [k \in 1 .. L |-> k - 1]
<1>1. L \in Nat /\ \A k \in 1 .. L : ps[k] \in N
  OBVIOUS
<1>2. Table(global_table) \in V
  <2>1. <<>> \in Seq(EntrySet(N))
    OBVIOUS
  <2> QED
    BY <2>1 DEF Table, TableSet
<1>3. \A k \in 1 .. L : \A t \in V : insert(t, ps[k], "PARAMETER") \in V
  BY <1>1, InsertFacts DEF Classes
<1>4. step \in [1 .. L -> [V -> V]]
  BY <1>3
<1>5. \A k \in 1 .. L : up[k] \in 0 .. k - 1
  OBVIOUS
<1>6. /\ \A k \in 1 .. L : up[k] = k - 1
      /\ \A k \in 1 .. L : \A t \in V : step[k][t] = insert(t, ps[k], "PARAMETER")
  OBVIOUS
<1> HIDE DEF L, V, step, up
<1>7. PICK g \in [0 .. L -> V] : Solves(g, L, Table(global_table), up, step)
  BY <1>1, <1>2, <1>4, <1>5, Recursion
<1> DEFINE Eq(f) == f = [k \in 0 .. Len(ps) |->
                           IF k = 0 THEN Table(global_table)
                           ELSE insert(f[k - 1], ps[k], "PARAMETER")]
<1>8. Eq(g)
  <2>1. ASSUME NEW k \in 0 .. L
        PROVE  g[k] = IF k = 0 THEN Table(global_table)
                      ELSE insert(g[k - 1], ps[k], "PARAMETER")
    <3>1. g[k] = IF k = 0 THEN Table(global_table) ELSE step[k][g[up[k]]]
      BY <1>7 DEF Solves
    <3>2. k # 0 => k \in 1 .. L /\ k - 1 \in 0 .. L
      BY <1>1
    <3> QED
      BY <1>6, <1>7, <3>1, <3>2
  <2> QED
    BY <1>7, <2>1 DEF L
<1> DEFINE f == CHOOSE f : Eq(f)
<1>9. Eq(f) /\ Body(ps) = f[Len(ps)]
  BY <1>8 DEF Body
<1> HIDE DEF f
<1>10. f[0] = Table(global_table)
  <2>1. f = [k \in 0 .. L |-> IF k = 0 THEN Table(global_table)
                             ELSE insert(f[k - 1], ps[k], "PARAMETER")]
    BY <1>9 DEF L
  <2>2. 0 \in 0 .. L
    BY <1>1
  <2> QED
    BY <2>1, <2>2
<1>11. \A k \in 1 .. L : f[k] = insert(f[k - 1], ps[k], "PARAMETER")
  <2>1. f = [k \in 0 .. L |-> IF k = 0 THEN Table(global_table)
                             ELSE insert(f[k - 1], ps[k], "PARAMETER")]
    BY <1>9 DEF L
  <2>2. \A k \in 1 .. L : k \in 0 .. L /\ k # 0
    BY <1>1
  <2> QED
    BY <2>1, <2>2
<1>12. \A k \in 0 .. L : f[k] \in V
  <2> DEFINE S == {k \in 0 .. L : f[k] \in V}
  <2>1. 0 \in S
    BY <1>1, <1>2, <1>10
  <2>2. ASSUME NEW k \in 0 .. L - 1, k \in S PROVE k + 1 \in S
    <3>1. k + 1 \in 1 .. L /\ (k + 1) - 1 = k /\ k + 1 \in 0 .. L
      BY <1>1
    <3>2. f[k + 1] = insert(f[k], ps[k + 1], "PARAMETER")
      BY <1>11, <3>1
    <3> QED
      BY <1>3, <2>2, <3>1, <3>2
  <2> HIDE DEF S
  <2>3. 0 .. L \subseteq S
    BY <1>1, <2>1, <2>2, Steps
  <2> QED
    BY <2>3 DEF S
<1> QED
  BY <1>9, <1>10, <1>11, <1>12 DEF L, V

\* The names among the first k of a sequence.
Upto(ps, k) == {ps[i] : i \in 1 .. k}

\* A body begins with its parameters, each name once; when no name is given
\* twice, the last parameter comes first.
LEMMA BodyFacts ==
    ASSUME NEW N, NEW P, global_table \in P, NEW ps \in Seq(N)
    PROVE  LET body == Body(ps)
           IN  /\ body \in TableSet(N, P)
               /\ body.parent = global_table
               /\ Len(body.entries) \in Nat /\ Len(body.entries) <= Len(ps)
               /\ Distinct(body)
               /\ \A m : Declares(body, m) <=> m \in Upto(ps, Len(ps))
               /\ \A i \in 1 .. Len(body.entries) : body.entries[i].class = "PARAMETER"
               /\ IsInjective(ps) =>
                    /\ Len(body.entries) = Len(ps)
                    /\ \A i \in 1 .. Len(ps) :
                         body.entries[Len(ps) + 1 - i] = Entry(ps[i], "PARAMETER")
<1> DEFINE L == Len(ps)
<1>1. PICK f : /\ Body(ps) = f[L]
               /\ f[0] = Table(global_table)
               /\ \A k \in 0 .. L : f[k] \in TableSet(N, P)
               /\ \A k \in 1 .. L : f[k] = insert(f[k - 1], ps[k], "PARAMETER")
  BY BodyGrows
<1>2. L \in Nat /\ \A k \in 1 .. L : ps[k] \in N
  OBVIOUS
<1>3. DOMAIN ps = 1 .. L
  OBVIOUS
<1> HIDE DEF L
<1> DEFINE Plain(k) ==
             /\ f[k].parent = global_table
             /\ Len(f[k].entries) <= k
             /\ Distinct(f[k])
             /\ \A m : Declares(f[k], m) <=> m \in Upto(ps, k)
             /\ \A i \in 1 .. Len(f[k].entries) : f[k].entries[i].class = "PARAMETER"
           InOrder(k) ==
             /\ Len(f[k].entries) = k
             /\ \A i \in 1 .. k : f[k].entries[k + 1 - i] = Entry(ps[i], "PARAMETER")
<1>4. \A k \in 0 .. L : Len(f[k].entries) \in Nat /\ DOMAIN f[k].entries = 1 .. Len(f[k].entries)
  BY <1>1 DEF TableSet
<1>5. f[0].entries = <<>> /\ f[0].parent = global_table
  BY <1>1 DEF Table
<1>6. ASSUME NEW k \in 0 .. L - 1
      PROVE  /\ k + 1 \in 0 .. L /\ k \in 0 .. L /\ k + 1 \in 1 .. L /\ k \in Nat
             /\ ps[k + 1] \in N
             /\ f[k + 1] = insert(f[k], ps[k + 1], "PARAMETER")
             /\ f[k + 1].parent = f[k].parent
             /\ Inserted(f[k], f[k + 1], ps[k + 1], "PARAMETER")
             /\ Len(f[k + 1].entries) \in Len(f[k].entries) .. Len(f[k].entries) + 1
  <2>1. /\ k + 1 \in 0 .. L /\ k \in 0 .. L /\ k + 1 \in 1 .. L /\ (k + 1) - 1 = k /\ k \in Nat
    BY <1>2
  <2>2. f[k + 1] = insert(f[k], ps[k + 1], "PARAMETER") /\ ps[k + 1] \in N
    BY <1>1, <1>2, <2>1
  <2>3. f[k] \in TableSet(N, P) /\ "PARAMETER" \in Classes
    BY <1>1, <2>1 DEF Classes
  <2> QED
    BY <2>1, <2>2, <2>3, InsertFacts
<1>7. \A k \in 0 .. L : Plain(k)
  <2> DEFINE S == {k \in 0 .. L : Plain(k)}
  <2>1. 0 \in S
    <3>1. \A m : ~Declares(f[0], m)
      BY <1>5 DEF Declares
    <3>2. Upto(ps, 0) = {}
      BY DEF Upto
    <3>3. Distinct(f[0])
      BY <1>5 DEF Distinct
    <3> QED
      BY <1>2, <1>5, <3>1, <3>2, <3>3
  <2>2. ASSUME NEW k \in 0 .. L - 1, k \in S PROVE k + 1 \in S
    <3>1. Plain(k)
      BY <2>2
    <3>2. f[k] \in TableSet(N, P) /\ f[k + 1] \in TableSet(N, P)
      BY <1>1, <1>6
    <3>3. /\ Distinct(f[k + 1])
          /\ \A m : Declares(f[k + 1], m) <=> m = ps[k + 1] \/ Declares(f[k], m)
      BY <1>6, <3>1, <3>2, InsertNames
    <3>4. Upto(ps, k + 1) = Upto(ps, k) \union {ps[k + 1]}
      BY <1>6 DEF Upto
    <3>5. \A m : Declares(f[k + 1], m) <=> m \in Upto(ps, k + 1)
      BY <3>1, <3>3, <3>4
    <3>6. ASSUME NEW i \in 1 .. Len(f[k + 1].entries)
          PROVE  f[k + 1].entries[i].class = "PARAMETER"
      <4>1. CASE f[k + 1] = f[k]
        BY <3>1, <4>1
      <4>2. CASE f[k + 1] # f[k]
        <5>1. /\ Len(f[k + 1].entries) = Len(f[k].entries) + 1
              /\ f[k + 1].entries[1] = Entry(ps[k + 1], "PARAMETER")
              /\ \A j \in 1 .. Len(f[k].entries) : f[k + 1].entries[j + 1] = f[k].entries[j]
          BY <1>6, <4>2 DEF Inserted
        <5>2. CASE i = 1
          BY <5>1, <5>2 DEF Entry
        <5>3. CASE i # 1
          <6>1. i - 1 \in 1 .. Len(f[k].entries) /\ (i - 1) + 1 = i
            BY <1>4, <1>6, <5>1, <5>3
          <6> QED
            BY <3>1, <5>1, <6>1
        <5> QED
          BY <5>2, <5>3
      <4> QED
        BY <4>1, <4>2
    <3>7. f[k + 1].parent = global_table /\ Len(f[k + 1].entries) <= k + 1
      BY <1>4, <1>6, <3>1
    <3> QED
      BY <1>6, <3>3, <3>5, <3>6, <3>7
  <2> HIDE DEF S
  <2>3. 0 .. L \subseteq S
    BY <1>2, <2>1, <2>2, Steps
  <2> QED
    BY <2>3 DEF S
<1>8. ASSUME IsInjective(ps) PROVE \A k \in 0 .. L : InOrder(k)
  <2> DEFINE S == {k \in 0 .. L : InOrder(k)}
  <2>1. 0 \in S
    BY <1>2, <1>5
  <2>2. ASSUME NEW k \in 0 .. L - 1, k \in S PROVE k + 1 \in S
    <3>1. ps[k + 1] \notin Upto(ps, k)
      <4> SUFFICES ASSUME NEW i \in 1 .. k, ps[i] = ps[k + 1] PROVE FALSE
        BY DEF Upto
      <4>1. i \in DOMAIN ps /\ k + 1 \in DOMAIN ps
        BY <1>2, <1>3, <1>6
      <4> QED
        BY <1>8, <4>1, <1>6 DEF IsInjective
    <3>2. ~Declares(f[k], ps[k + 1])
      BY <1>6, <1>7, <3>1
    <3>3. /\ Len(f[k + 1].entries) = Len(f[k].entries) + 1
          /\ f[k + 1].entries[1] = Entry(ps[k + 1], "PARAMETER")
          /\ \A j \in 1 .. Len(f[k].entries) : f[k + 1].entries[j + 1] = f[k].entries[j]
      BY <1>6, <3>2 DEF Inserted
    <3>4. /\ Len(f[k].entries) = k
          /\ \A i \in 1 .. k : f[k].entries[k + 1 - i] = Entry(ps[i], "PARAMETER")
      BY <2>2
    <3>5. ASSUME NEW i \in 1 .. k + 1
          PROVE  f[k + 1].entries[(k + 1) + 1 - i] = Entry(ps[i], "PARAMETER")
      <4>1. CASE i = k + 1
        <5>1. (k + 1) + 1 - i = 1
          BY <1>6, <4>1
        <5> QED
          BY <3>3, <4>1, <5>1
      <4>2. CASE i # k + 1
        <5>1. /\ i \in 1 .. k /\ k + 1 - i \in 1 .. k
              /\ (k + 1) + 1 - i = (k + 1 - i) + 1
          BY <1>6, <4>2
        <5> QED
          BY <3>3, <3>4, <5>1
      <4> QED
        BY <4>1, <4>2
    <3> QED
      BY <1>6, <3>3, <3>4, <3>5
  <2> HIDE DEF S
  <2>3. 0 .. L \subseteq S
    BY <1>2, <2>1, <2>2, Steps
  <2> QED
    BY <2>3 DEF S
<1>9. L \in 0 .. L
  BY <1>2
<1>10. Plain(L) /\ (IsInjective(ps) => InOrder(L))
  BY <1>7, <1>8, <1>9
<1>11. Body(ps) = f[L] /\ f[L] \in TableSet(N, P) /\ Len(f[L].entries) \in Nat
  BY <1>1, <1>4, <1>9
<1> HIDE DEF Plain, InOrder
<1> QED
  BY <1>10, <1>11 DEF Plain, InOrder, L

-----------------------------------------------------------------------------
(* The tree of the scopes                                                  *)

\* Tables in the order of their creation: a parent comes before its children.
Rooted(T) ==
    /\ Len(T) \in Nat /\ DOMAIN T = 1 .. Len(T)
    /\ \A t \in 1 .. Len(T) : T[t].parent \in 0 .. t - 1 /\ Len(T[t].entries) \in Nat

\* lookup_symbol and Find as functions of the tables.
FindIn(T, t, n) ==
    LET entries == T[t].entries
        i == CHOOSE k \in DOMAIN entries : entries[k].name = n
    IN  <<t, Len(entries) - i>>

Lookup(T, table, n) ==
    LET found[t \in 0 .. Len(T)] ==
          IF t = 0 THEN NOT_FOUND
          ELSE IF Declares(T[t], n) THEN FindIn(T, t, n) ELSE found[T[t].parent]
    IN  found[table]

LEMMA LookupIsIn ==
    ASSUME NEW t, NEW n
    PROVE  /\ Find(t, n) = FindIn(tables, t, n)
           /\ lookup_symbol(t, n) = Lookup(tables, t, n)
           /\ lookup_symbol(t, n)' = Lookup(tables', t, n)
<1>1. \A s : Find(s, n) = FindIn(tables, s, n)
  BY DEF Find, FindIn
<1>2. lookup_symbol(t, n) = Lookup(tables, t, n)
  BY <1>1 DEF lookup_symbol, Lookup, Find, FindIn
<1>3. lookup_symbol(t, n)' = Lookup(tables', t, n)
  BY DEF lookup_symbol, Lookup, Find, FindIn
<1> QED
  BY <1>1, <1>2, <1>3

\* A name is that of the table's own entry, or what it is for the parent.
LEMMA LookupUp ==
    ASSUME NEW T, Rooted(T), NEW n
    PROVE  /\ Lookup(T, 0, n) = NOT_FOUND
           /\ \A t \in 1 .. Len(T) :
                Lookup(T, t, n) = IF Declares(T[t], n) THEN FindIn(T, t, n)
                                  ELSE Lookup(T, T[t].parent, n)
<1> DEFINE L == Len(T)
           V == {NOT_FOUND} \union {FindIn(T, t, n) : t \in 1 .. L}
           step == [t \in 1 .. L |-> [v \in V |-> IF Declares(T[t], n) THEN FindIn(T, t, n)
                                                  ELSE v]]
           up == [t \in 1 .. L |-> T[t].parent]
           Eq(f) == f = [t \in 0 .. Len(T) |->
                           IF t = 0 THEN NOT_FOUND
                           ELSE IF Declares(T[t], n) THEN FindIn(T, t, n)
                           ELSE f[T[t].parent]]
<1>1. L \in Nat /\ NOT_FOUND \in V /\ step \in [1 .. L -> [V -> V]]
  BY DEF Rooted
<1>2. \A t \in 1 .. L : up[t] \in 0 .. t - 1 /\ up[t] = T[t].parent
  BY DEF Rooted
<1>3. \A t \in 1 .. L : \A v \in V :
        step[t][v] = IF Declares(T[t], n) THEN FindIn(T, t, n) ELSE v
  OBVIOUS
<1> HIDE DEF V, step, up, L
<1>4. PICK g \in [0 .. L -> V] : Solves(g, L, NOT_FOUND, up, step)
  BY <1>1, <1>2, Recursion
<1>5. Eq(g)
  <2>1. ASSUME NEW t \in 0 .. L
        PROVE  g[t] = IF t = 0 THEN NOT_FOUND
                      ELSE IF Declares(T[t], n) THEN FindIn(T, t, n) ELSE g[T[t].parent]
    <3>1. g[t] = IF t = 0 THEN NOT_FOUND ELSE step[t][g[up[t]]]
      BY <1>4 DEF Solves
    <3>2. t # 0 => t \in 1 .. L /\ T[t].parent \in 0 .. L /\ up[t] = T[t].parent
      BY <1>1, <1>2
    <3> QED
      BY <1>3, <1>4, <3>1, <3>2
  <2> QED
    BY <1>4, <2>1 DEF L
<1> DEFINE f == CHOOSE f : Eq(f)
<1>6. Eq(f)
  BY <1>5
<1>7. \A t : Lookup(T, t, n) = f[t]
  BY DEF Lookup
<1> HIDE DEF f
<1>8. f[0] = NOT_FOUND
  BY <1>1, <1>6 DEF L
<1>9. \A t \in 1 .. Len(T) :
        f[t] = IF Declares(T[t], n) THEN FindIn(T, t, n) ELSE f[T[t].parent]
  <2>1. \A t \in 1 .. Len(T) : t \in 0 .. Len(T) /\ t # 0
    BY <1>1 DEF L
  <2>2. \A t \in 0 .. Len(T) :
          f[t] = IF t = 0 THEN NOT_FOUND
                 ELSE IF Declares(T[t], n) THEN FindIn(T, t, n) ELSE f[T[t].parent]
    BY <1>6
  <2> QED
    BY <2>1, <2>2
<1> QED
  BY <1>7, <1>8, <1>9

\* Entries keep their places, and no table gets name n but the global one and
\* table c, whose scope has no other in it.
OnlyNewIn(T, U, n, c) ==
    /\ Len(T) <= Len(U)
    /\ \A t \in 1 .. Len(T) :
         /\ U[t].parent = T[t].parent
         /\ Declares(T[t], n) => Declares(U[t], n) /\ FindIn(U, t, n) = FindIn(T, t, n)
    /\ \A t \in 2 .. Len(T) :
         /\ T[t].parent \in 1 .. t - 1 /\ T[t].parent # c
         /\ t # c /\ Declares(U[t], n) => Declares(T[t], n)

\* Then the name is found again where it was found, but from table c.
LEMMA LookupKept ==
    ASSUME NEW T, NEW U, Rooted(T), Rooted(U), NEW n, NEW c, OnlyNewIn(T, U, n, c)
    PROVE  \A t \in 1 .. Len(T) :
             t # c /\ Lookup(T, t, n) # NOT_FOUND => Lookup(U, t, n) = Lookup(T, t, n)
<1> USE DEF OnlyNewIn
<1> DEFINE S == {t \in 1 .. Len(T) :
                   t # c /\ Lookup(T, t, n) # NOT_FOUND => Lookup(U, t, n) = Lookup(T, t, n)}
<1>1. ASSUME NEW t \in 1 .. Len(T), \A s \in 1 .. t - 1 : s \in S
      PROVE  t \in S
  <2> SUFFICES ASSUME t # c, Lookup(T, t, n) # NOT_FOUND
               PROVE  Lookup(U, t, n) = Lookup(T, t, n)
    OBVIOUS
  <2>1. /\ Lookup(T, t, n) = IF Declares(T[t], n) THEN FindIn(T, t, n)
                             ELSE Lookup(T, T[t].parent, n)
        /\ Lookup(T, 0, n) = NOT_FOUND
    BY LookupUp
  <2>2. t \in 1 .. Len(U)
    BY DEF Rooted
  <2>3. Lookup(U, t, n) = IF Declares(U[t], n) THEN FindIn(U, t, n)
                          ELSE Lookup(U, U[t].parent, n)
    BY <2>2, LookupUp
  <2>4. CASE Declares(T[t], n)
    BY <2>1, <2>3, <2>4
  <2>5. CASE ~Declares(T[t], n)
    <3>1. t # 1
      <4>1. ASSUME t = 1 PROVE T[t].parent = 0
        BY <4>1 DEF Rooted
      <4> QED
        BY <2>1, <2>5, <4>1
    <3>2. t \in 2 .. Len(T)
      BY <3>1 DEF Rooted
    <3>3. ~Declares(U[t], n)
      BY <2>5, <3>2
    <3>4. /\ T[t].parent \in 1 .. t - 1 /\ T[t].parent # c
          /\ U[t].parent = T[t].parent
      BY <3>2
    <3>5. Lookup(T, T[t].parent, n) # NOT_FOUND
      BY <2>1, <2>5
    <3>6. Lookup(U, T[t].parent, n) = Lookup(T, T[t].parent, n)
      BY <1>1, <3>4, <3>5
    <3> QED
      BY <2>1, <2>3, <2>5, <3>3, <3>4, <3>6
  <2> QED
    BY <2>4, <2>5
<1> HIDE DEF S
<1>2. 1 .. Len(T) \subseteq S
  BY <1>1, Strong DEF Rooted
<1> QED
  BY <1>2 DEF S

\* The names of a list stay where they are, behind one more at most.
NamesKept(old, new) ==
    \/ /\ Len(new.entries) = Len(old.entries)
       /\ \A i \in 1 .. Len(old.entries) : new.entries[i].name = old.entries[i].name
    \/ /\ Len(new.entries) = Len(old.entries) + 1
       /\ \A i \in 1 .. Len(old.entries) : new.entries[i + 1].name = old.entries[i].name

\* How many entries of a table are older than that of a name.
Place(table, n) ==
    Len(table.entries) - CHOOSE k \in DOMAIN table.entries : table.entries[k].name = n

\* An entry keeps its place in a table that gets another at the head of its
\* list, and in one whose entries keep their names.
LEMMA FindKept ==
    ASSUME NEW old, NEW new, NEW n,
           Len(old.entries) \in Nat, DOMAIN old.entries = 1 .. Len(old.entries),
           Len(new.entries) \in Nat, DOMAIN new.entries = 1 .. Len(new.entries),
           Distinct(new), Declares(old, n), NamesKept(old, new)
    PROVE  Declares(new, n) /\ Place(new, n) = Place(old, n)
<1> DEFINE i == CHOOSE k \in DOMAIN old.entries : old.entries[k].name = n
           j == CHOOSE k \in DOMAIN new.entries : new.entries[k].name = n
           a == Len(old.entries)
           b == Len(new.entries)
<1>1. i \in 1 .. a /\ old.entries[i].name = n
  BY DEF Declares
<1>2. Place(old, n) = a - i /\ Place(new, n) = b - j
  BY DEF Place
<1> HIDE DEF i
<1>3. PICK k \in 1 .. b : new.entries[k].name = n /\ b - k = a - i
  <2>1. CASE b = a /\ \A h \in 1 .. a : new.entries[h].name = old.entries[h].name
    BY <1>1, <2>1
  <2>2. CASE b = a + 1 /\ \A h \in 1 .. a : new.entries[h + 1].name = old.entries[h].name
    <3>1. i + 1 \in 1 .. b /\ b - (i + 1) = a - i /\ new.entries[i + 1].name = n
      BY <1>1, <2>2
    <3> QED
      BY <3>1
  <2> QED
    BY <2>1, <2>2 DEF NamesKept
<1>4. Declares(new, n)
  BY <1>3 DEF Declares
<1>5. j \in 1 .. b /\ new.entries[j].name = n
  BY <1>3
<1> HIDE DEF j
<1>6. j = k
  BY <1>3, <1>5 DEF Distinct
<1> QED
  BY <1>2, <1>3, <1>4, <1>6

-----------------------------------------------------------------------------
(* Counting entries                                                        *)

\* Before counts from the head of the list, one by one.
LEMMA BeforeFacts ==
    ASSUME NEW entries, NEW C, NEW i \in Nat
    PROVE  /\ Before(entries, i, C) \in Nat
           /\ Before(entries, i + 1, C) =
                Before(entries, i, C) + (IF i # 0 /\ entries[i].class \in C THEN 1 ELSE 0)
<1> DEFINE Those(j) == {k \in 1 .. j - 1 : entries[k].class \in C}
<1>1. IsFiniteSet(1 .. i - 1)
  BY FS_Interval
<1>2. Those(i) \in SUBSET (1 .. i - 1)
  OBVIOUS
<1>3. IsFiniteSet(Those(i))
  BY <1>1, <1>2, FS_Subset
<1>4. Cardinality(Those(i)) \in Nat
  BY <1>3, FS_CardinalityType
<1>5. CASE i # 0 /\ entries[i].class \in C
  <2>1. Those(i + 1) = Those(i) \union {i} /\ i \notin Those(i)
    BY <1>5
  <2> HIDE DEF Those
  <2>2. Cardinality(Those(i + 1)) = Cardinality(Those(i)) + 1
    BY <1>3, <2>1, FS_AddElement
  <2> QED
    BY <1>4, <1>5, <2>2 DEF Those, Before
<1>6. CASE ~ (i # 0 /\ entries[i].class \in C)
  <2>1. Those(i + 1) = Those(i)
    BY <1>6
  <2> HIDE DEF Those
  <2>2. Cardinality(Those(i + 1)) = Cardinality(Those(i))
    BY <2>1
  <2> QED
    BY <1>4, <1>6, <2>2 DEF Those, Before
<1> QED
  BY <1>5, <1>6

\* So the entries of a class are numbered, and there are as many as Count says.
LEMMA BeforeOrder ==
    ASSUME NEW entries, NEW C, NEW i \in Nat, NEW j \in Nat, i < j
    PROVE  /\ Before(entries, i, C) <= Before(entries, j, C)
           /\ i # 0 /\ entries[i].class \in C =>
                Before(entries, i, C) + 1 <= Before(entries, j, C)
<1> DEFINE S == {d \in 0 .. j - i - 1 :
                   Before(entries, i + 1, C) <= Before(entries, i + 1 + d, C)}
<1>1. 0 \in S
  <2>1. i + 1 \in Nat /\ i + 1 + 0 = i + 1
    OBVIOUS
  <2>2. Before(entries, i + 1, C) \in Nat
    BY <2>1, BeforeFacts
  <2> QED
    BY <2>1, <2>2
<1>2. ASSUME NEW d \in 0 .. (j - i - 1) - 1, d \in S PROVE d + 1 \in S
  <2> DEFINE m == i + 1 + d
  <2>1. m \in Nat /\ i + 1 + (d + 1) = m + 1 /\ i + 1 \in Nat /\ d + 1 \in 0 .. j - i - 1
    OBVIOUS
  <2>2. Before(entries, i + 1, C) <= Before(entries, m, C)
    BY <1>2
  <2> HIDE DEF m
  <2>3. /\ Before(entries, m, C) \in Nat /\ Before(entries, i + 1, C) \in Nat
        /\ Before(entries, m + 1, C) \in Nat
        /\ Before(entries, m, C) <= Before(entries, m + 1, C)
    BY <2>1, BeforeFacts
  <2> QED
    BY <2>1, <2>2, <2>3
<1> HIDE DEF S
<1>3. j - i - 1 \in Nat
  OBVIOUS
<1>4. j - i - 1 \in S
  BY <1>1, <1>2, <1>3, Steps
<1>5. Before(entries, i + 1, C) <= Before(entries, j, C)
  <2>1. i + 1 + (j - i - 1) = j
    OBVIOUS
  <2> QED
    BY <1>4, <2>1 DEF S
<1>6. /\ Before(entries, i, C) \in Nat /\ Before(entries, j, C) \in Nat
      /\ Before(entries, i + 1, C) =
           Before(entries, i, C) + (IF i # 0 /\ entries[i].class \in C THEN 1 ELSE 0)
  BY BeforeFacts
<1> QED
  BY <1>5, <1>6

-----------------------------------------------------------------------------
(* Offsets                                                                 *)

Scopes == {scope[f] : f \in Functions}

\* Where the slots of a table end.
EndOf(start, t) == start[t] - 8 * Count(tables[t].entries, Slotted)

\* The first offset of a function's scope is -8, that of any other is where
\* its parent's slots end, or 0 outside functions.
LEMMA FirstFacts ==
    ASSUME Rooted(tables)
    PROVE  /\ FirstOffset \in [1 .. Len(tables) -> Int]
           /\ \A t \in 1 .. Len(tables) :
                FirstOffset[t] =
                  IF t \in Scopes THEN -8
                  ELSE IF tables[t].parent \in {0, global_table} THEN 0
                  ELSE IF FirstOffset[tables[t].parent] = 0 THEN 0
                  ELSE EndOf(FirstOffset, tables[t].parent)
<1> DEFINE L == Len(tables)
           Child(t, above) ==
             IF t \in Scopes THEN -8
             ELSE IF tables[t].parent \in {0, global_table} THEN 0
             ELSE IF above = 0 THEN 0
             ELSE above - 8 * Count(tables[tables[t].parent].entries, Slotted)
           step == [t \in 1 .. L |-> [v \in Int |-> Child(t, v)]]
           up == [t \in 1 .. L |-> tables[t].parent]
           Eq(f) == f = [t \in DOMAIN tables |->
                           IF t \in {scope[h] : h \in Functions} THEN -8
                           ELSE IF tables[t].parent \in {0, global_table} THEN 0
                           ELSE LET above == f[tables[t].parent]
                                IN  IF above = 0 THEN 0
                                    ELSE above - 8 * Count(tables[tables[t].parent].entries,
                                                           Slotted)]
<1>1. L \in Nat /\ DOMAIN tables = 1 .. L /\ 0 \in Int
  BY DEF Rooted
<1>2. \A t \in 1 .. L : tables[t].parent \in 0 .. t - 1
  BY DEF Rooted
<1>3. ASSUME NEW t \in 1 .. L, NEW v \in Int PROVE Child(t, v) \in Int
  <2> DEFINE above == tables[tables[t].parent].entries
  <2>1. CASE tables[t].parent = 0
    BY <2>1
  <2>2. CASE tables[t].parent # 0
    <3>1. tables[t].parent \in 1 .. L
      BY <1>1, <1>2, <2>2
    <3>2. Len(above) + 1 \in Nat
      BY <3>1 DEF Rooted
    <3>3. Count(above, Slotted) \in Nat
      BY <3>2, BeforeFacts DEF Count
    <3> QED
      BY <3>3
  <2> QED
    BY <2>1, <2>2
<1>4. step \in [1 .. L -> [Int -> Int]]
  BY <1>3
<1>5. \A t \in 1 .. L : \A v \in Int : step[t][v] = Child(t, v)
  OBVIOUS
<1>6. \A t \in 1 .. L : up[t] = tables[t].parent
  OBVIOUS
<1> HIDE DEF step, up, L
<1>7. PICK g \in [0 .. L -> Int] : Solves(g, L, 0, up, step)
  BY <1>1, <1>2, <1>4, <1>6, Recursion
<1> DEFINE h == [t \in 1 .. L |-> g[t]]
<1>8. ASSUME NEW t \in 1 .. L
      PROVE  g[t] = Child(t, IF tables[t].parent = 0 THEN 0 ELSE h[tables[t].parent])
  <2>1. g[t] = Child(t, g[tables[t].parent])
    <3>1. t \in 0 .. L /\ t # 0 /\ tables[t].parent \in 0 .. L
      BY <1>1, <1>2
    <3>2. g[t] = step[t][g[up[t]]]
      BY <1>7, <3>1 DEF Solves
    <3>3. g[tables[t].parent] \in Int
      BY <1>7, <3>1
    <3> HIDE DEF Child
    <3> QED
      BY <1>5, <1>6, <3>2, <3>3
  <2>2. CASE tables[t].parent = 0
    BY <2>1, <2>2
  <2>3. CASE tables[t].parent # 0
    <3>1. tables[t].parent \in 1 .. L
      BY <1>1, <1>2, <2>3
    <3>2. h[tables[t].parent] = g[tables[t].parent]
      BY <3>1
    <3> HIDE DEF Child, h
    <3> QED
      BY <2>1, <2>3, <3>2
  <2> QED
    BY <2>2, <2>3
<1>9. Eq(h)
  <2>1. \A t \in 1 .. L : h[t] = g[t]
    OBVIOUS
  <2> HIDE DEF h
  <2>2. ASSUME NEW t \in 1 .. L
        PROVE  h[t] = IF t \in {scope[k] : k \in Functions} THEN -8
                      ELSE IF tables[t].parent \in {0, global_table} THEN 0
                      ELSE IF h[tables[t].parent] = 0 THEN 0
                      ELSE h[tables[t].parent]
                             - 8 * Count(tables[tables[t].parent].entries, Slotted)
    BY <1>8, <2>1 DEF Scopes
  <2> QED
    BY <1>1, <2>2 DEF h
<1> DEFINE f == CHOOSE f : Eq(f)
<1>10. Eq(f) /\ FirstOffset = f
  BY <1>9 DEF FirstOffset
<1> HIDE DEF f
<1>11. ASSUME NEW t \in 1 .. L
       PROVE  f[t] = Child(t, f[tables[t].parent])
  BY <1>1, <1>10 DEF Scopes
<1>12. \A t \in 1 .. L : f[t] \in Int
  <2> DEFINE S == {t \in 1 .. L : f[t] \in Int}
  <2>1. ASSUME NEW t \in 1 .. L, \A s \in 1 .. t - 1 : s \in S PROVE t \in S
    <3>1. CASE tables[t].parent = 0
      BY <1>11, <3>1
    <3>2. CASE tables[t].parent # 0
      <4>1. tables[t].parent \in 1 .. t - 1
        BY <1>1, <1>2, <3>2
      <4>2. f[tables[t].parent] \in Int
        BY <2>1, <4>1
      <4>3. Child(t, f[tables[t].parent]) \in Int
        BY <1>3, <4>2
      <4> HIDE DEF Child
      <4> QED
        BY <1>11, <4>3
    <3> QED
      BY <3>1, <3>2
  <2> HIDE DEF S
  <2>2. 1 .. L \subseteq S
    BY <1>1, <2>1, Strong
  <2> QED
    BY <2>2 DEF S
<1>13. f \in [1 .. L -> Int]
  BY <1>1, <1>10, <1>12
<1> QED
  BY <1>10, <1>11, <1>13 DEF L, EndOf

\* Children are created after their parent.
LEMMA ChildrenLater ==
    ASSUME Rooted(tables), NEW t \in 1 .. Len(tables)
    PROVE  Children(t) \subseteq t + 1 .. Len(tables)
BY DEF Rooted, Children

\* The greatest number of a set that has a bound.
LEMMA GreatestIs ==
    ASSUME NEW S \in SUBSET Int, S # {}, NEW b \in Int, \A x \in S : x <= b
    PROVE  Greatest(S) \in S /\ \A y \in S : y <= Greatest(S)
<1>1. \E x \in S : \A y \in S : y <= x
  BY Most
<1> QED
  BY <1>1 DEF Greatest

\* The depth of a table is that of its own slots or of a child's, whichever is
\* the greatest.
LEMMA DepthFacts ==
    ASSUME Rooted(tables), NEW start \in [1 .. Len(tables) -> Int], NEW b \in Int,
           \A t \in 1 .. Len(tables) : start[t] <= b
    PROVE  \A t \in 1 .. Len(tables) :
             /\ max_depth(start)[t] \in Int
             /\ EndOf(start, t) <= max_depth(start)[t]
             /\ \/ max_depth(start)[t] = EndOf(start, t)
                \/ \E c \in Children(t) : max_depth(start)[t] = max_depth(start)[c]
<1> DEFINE L == Len(tables)
           Of(f, t) == {EndOf(start, t)} \union {f[c] : c \in Children(t)}
           Eq(f) == f = [t \in DOMAIN tables |->
                           Greatest({start[t] - 8 * Count(tables[t].entries, Slotted)}
                                      \union {f[c] : c \in Children(t)})]
           Bounded(f, t) == f[t] \in Int /\ f[t] <= b
           Good(f, t) == f[t] = Greatest(Of(f, t)) /\ Bounded(f, t)
<1>1. L \in Nat /\ DOMAIN tables = 1 .. L
  BY DEF Rooted
<1>2. \A t \in 1 .. L : EndOf(start, t) \in Int /\ EndOf(start, t) <= b
  <2> SUFFICES ASSUME NEW t \in 1 .. L
               PROVE  EndOf(start, t) \in Int /\ EndOf(start, t) <= b
    OBVIOUS
  <2>1. Len(tables[t].entries) + 1 \in Nat
    BY DEF Rooted
  <2>2. Count(tables[t].entries, Slotted) \in Nat
    BY <2>1, BeforeFacts DEF Count
  <2>3. start[t] \in Int /\ start[t] <= b
    OBVIOUS
  <2> QED
    BY <2>2, <2>3 DEF EndOf
<1>3. \A t \in 1 .. L : Children(t) \subseteq t + 1 .. L
  BY ChildrenLater
<1> HIDE DEF L
<1>4. ASSUME NEW f, NEW t \in 1 .. L, \A c \in Children(t) : Bounded(f, c)
      PROVE  /\ Greatest(Of(f, t)) \in Int /\ Greatest(Of(f, t)) <= b
             /\ Greatest(Of(f, t)) \in Of(f, t)
             /\ EndOf(start, t) <= Greatest(Of(f, t))
  <2>1. Of(f, t) \in SUBSET Int /\ Of(f, t) # {} /\ \A x \in Of(f, t) : x <= b
    BY <1>2, <1>4
  <2>2. EndOf(start, t) \in Of(f, t)
    OBVIOUS
  <2> HIDE DEF Of
  <2>3. Greatest(Of(f, t)) \in Of(f, t) /\ \A y \in Of(f, t) : y <= Greatest(Of(f, t))
    BY <2>1, GreatestIs
  <2> QED
    BY <2>1, <2>2, <2>3
<1> DEFINE S == {k \in 0 .. L : \E g : \A t \in L - k + 1 .. L : Good(g, t)}
<1>5. 0 \in S
  BY <1>1
<1>6. ASSUME NEW k \in 0 .. L - 1, k \in S PROVE k + 1 \in S
  <2>1. PICK g : \A t \in L - k + 1 .. L : Good(g, t)
    BY <1>6
  <2> DEFINE u == L - k
             h == [t \in 1 .. L |-> IF t = u THEN Greatest(Of(g, u)) ELSE g[t]]
  <2>2. u \in 1 .. L /\ L - (k + 1) + 1 = u /\ k + 1 \in 0 .. L /\ L - k + 1 = u + 1
    BY <1>1
  <2> HIDE DEF u
  <2>3. \A c \in Children(u) : Bounded(g, c)
    BY <1>3, <2>1, <2>2
  <2>4. \A t \in 1 .. L : t # u => h[t] = g[t]
    OBVIOUS
  <2>5. h[u] = Greatest(Of(g, u))
    BY <2>2
  <2> HIDE DEF h
  <2>6. ASSUME NEW t \in u .. L PROVE Of(h, t) = Of(g, t) /\ t \in 1 .. L
    <3>1. t \in 1 .. L /\ \A c \in Children(t) : c \in 1 .. L /\ c # u
      BY <1>1, <1>3, <2>2
    <3>2. \A c \in Children(t) : h[c] = g[c]
      BY <2>4, <3>1
    <3> QED
      BY <3>1, <3>2
  <2>7. ASSUME NEW t \in u .. L PROVE Good(h, t)
    <3>1. CASE t = u
      <4>1. Greatest(Of(g, u)) \in Int /\ Greatest(Of(g, u)) <= b
        BY <1>4, <2>2, <2>3
      <4>2. h[t] = Greatest(Of(g, u)) /\ Of(h, t) = Of(g, u)
        BY <2>5, <2>6, <3>1
      <4> HIDE DEF Of
      <4> QED
        BY <4>1, <4>2
    <3>2. CASE t # u
      <4>1. t \in L - k + 1 .. L
        BY <1>1, <2>2, <3>2
      <4>2. Good(g, t)
        BY <2>1, <4>1
      <4>3. h[t] = g[t] /\ Of(h, t) = Of(g, t)
        BY <2>4, <2>6, <3>2
      <4> HIDE DEF Of
      <4> QED
        BY <4>2, <4>3
    <3> QED
      BY <3>1, <3>2
  <2> HIDE DEF Good
  <2>8. \E f : \A t \in u .. L : Good(f, t)
    BY <2>7
  <2> QED
    BY <2>2, <2>8
<1> HIDE DEF S
<1>7. L \in S
  <2>1. 0 .. L \subseteq S
    BY <1>1, <1>5, <1>6, Steps
  <2> QED
    BY <1>1, <2>1
<1>8. PICK g : \A t \in 1 .. L : Good(g, t)
  <2>1. L - L + 1 = 1
    BY <1>1
  <2> QED
    BY <1>7, <2>1 DEF S
<1> DEFINE h == [t \in 1 .. L |-> g[t]]
<1>9. Eq(h)
  <2>1. \A t \in 1 .. L : h[t] = g[t]
    OBVIOUS
  <2> HIDE DEF h
  <2>2. ASSUME NEW t \in 1 .. L PROVE Of(h, t) = Of(g, t)
    <3>1. \A c \in Children(t) : c \in 1 .. L
      BY <1>1, <1>3
    <3>2. \A c \in Children(t) : h[c] = g[c]
      BY <2>1, <3>1
    <3> QED
      BY <3>2
  <2>3. \A t \in 1 .. L : h[t] = Greatest(Of(h, t))
    BY <1>8, <2>1, <2>2
  <2> QED
    BY <1>1, <2>3 DEF EndOf, h
<1> DEFINE f == CHOOSE f : Eq(f)
<1>10. Eq(f) /\ max_depth(start) = f
  BY <1>9 DEF max_depth
<1> HIDE DEF f
<1>11. \A t \in 1 .. L : f[t] = Greatest(Of(f, t))
  BY <1>1, <1>10 DEF EndOf
<1> HIDE DEF Eq, Of
<1>12. \A t \in 1 .. L : Bounded(f, t)
  <2> DEFINE R == {t \in 1 .. L : Bounded(f, t)}
  <2>1. ASSUME NEW t \in 1 .. L, \A s \in t + 1 .. L : s \in R PROVE t \in R
    <3>1. \A c \in Children(t) : Bounded(f, c)
      BY <1>3, <2>1
    <3>2. Greatest(Of(f, t)) \in Int /\ Greatest(Of(f, t)) <= b
      BY <1>4, <3>1
    <3> QED
      BY <1>11, <3>2
  <2> HIDE DEF R
  <2>2. 1 .. L \subseteq R
    BY <1>1, <2>1, StrongDown
  <2> QED
    BY <2>2 DEF R
<1>13. ASSUME NEW t \in 1 .. L
       PROVE  /\ f[t] \in Int /\ EndOf(start, t) <= f[t]
              /\ f[t] = EndOf(start, t) \/ \E c \in Children(t) : f[t] = f[c]
  <2>1. \A c \in Children(t) : c \in 1 .. L
    BY <1>1, <1>3
  <2>2. \A c \in Children(t) : Bounded(f, c)
    BY <1>12, <2>1
  <2>3. f[t] \in Of(f, t) /\ EndOf(start, t) <= f[t]
    BY <1>4, <1>11, <2>2
  <2> QED
    BY <1>12, <2>3 DEF Of
<1> QED
  BY <1>10, <1>13 DEF L

-----------------------------------------------------------------------------
(* What a step does to the tables                                          *)

\* A tree of at most M tables of at most E entries with names in N.
WellFormed(T, N, M, E) ==
    /\ T \in Seq(TableSet(N, 0 .. M)) /\ 1 <= Len(T) /\ Len(T) <= M
    /\ T[1].parent = 0
    /\ \A t \in 2 .. Len(T) : T[t].parent \in 1 .. t - 1
    /\ \A t \in 1 .. Len(T) : Len(T[t].entries) <= E /\ Distinct(T[t])

Follows(T, U) ==
    /\ Len(T) <= Len(U)
    /\ \A t \in 1 .. Len(T) : U[t].parent = T[t].parent /\ NamesKept(T[t], U[t])

LEMMA WellFormedFacts ==
    ASSUME NEW T, NEW N, NEW M \in Nat, NEW E \in Nat, WellFormed(T, N, M, E)
    PROVE  /\ Rooted(T) /\ Len(T) \in Nat /\ DOMAIN T = 1 .. Len(T) /\ 1 \in 1 .. Len(T)
           /\ \A t \in 1 .. Len(T) :
                /\ T[t] \in TableSet(N, 0 .. M) /\ Len(T[t].entries) \in Nat
                /\ T[t].entries \in Seq(EntrySet(N))
                /\ DOMAIN T[t].entries = 1 .. Len(T[t].entries)
<1>1. Len(T) \in Nat /\ DOMAIN T = 1 .. Len(T) /\ 1 \in 1 .. Len(T)
  BY DEF WellFormed
<1>2. \A t \in 1 .. Len(T) : T[t] \in TableSet(N, 0 .. M)
  BY DEF WellFormed
<1>3. \A t \in 1 .. Len(T) :
        /\ T[t].entries \in Seq(EntrySet(N)) /\ Len(T[t].entries) \in Nat
        /\ DOMAIN T[t].entries = 1 .. Len(T[t].entries)
  BY <1>2 DEF TableSet
<1>4. \A t \in 1 .. Len(T) : T[t].parent \in 0 .. t - 1
  <2> SUFFICES ASSUME NEW t \in 1 .. Len(T) PROVE T[t].parent \in 0 .. t - 1
    OBVIOUS
  <2>1. t = 1 \/ t \in 2 .. Len(T)
    BY <1>1
  <2> QED
    BY <2>1 DEF WellFormed
<1> QED
  BY <1>1, <1>2, <1>3, <1>4 DEF Rooted

\* Table t gets an entry.
OneMore(T, U, t, n, class) == U = [T EXCEPT ![t] = insert(T[t], n, class)]

LEMMA InsertWell ==
    ASSUME NEW T, NEW N, NEW M \in Nat, NEW E \in Nat, WellFormed(T, N, M, E),
           NEW t \in 1 .. Len(T), NEW n \in N, NEW class \in Classes, Len(T[t].entries) < E,
           NEW U, OneMore(T, U, t, n, class)
    PROVE  /\ WellFormed(U, N, M, E) /\ Follows(T, U) /\ Len(U) = Len(T)
           /\ \A s \in 1 .. Len(T) : s # t => U[s] = T[s]
           /\ U[t] = insert(T[t], n, class) /\ Inserted(T[t], U[t], n, class)
<1> DEFINE new == insert(T[t], n, class)
<1>1. /\ T \in Seq(TableSet(N, 0 .. M)) /\ Len(T) \in Nat /\ DOMAIN T = 1 .. Len(T)
      /\ T[t] \in TableSet(N, 0 .. M) /\ Len(T[t].entries) \in Nat
  BY WellFormedFacts DEF WellFormed
<1>2. /\ new \in TableSet(N, 0 .. M) /\ new.parent = T[t].parent
      /\ Inserted(T[t], new, n, class)
      /\ Len(new.entries) \in Len(T[t].entries) .. Len(T[t].entries) + 1
  BY <1>1, InsertFacts
<1>3. Distinct(new)
  BY <1>1, <1>2, InsertNames DEF WellFormed
<1> HIDE DEF new
<1>4. /\ U \in Seq(TableSet(N, 0 .. M)) /\ Len(U) = Len(T)
      /\ U[t] = new /\ \A s \in 1 .. Len(T) : s # t => U[s] = T[s]
  BY <1>1, <1>2 DEF new, OneMore
<1>5. \A s \in 1 .. Len(T) : U[s].parent = T[s].parent
  BY <1>2, <1>4
<1>6. \A s \in 1 .. Len(T) : Len(U[s].entries) <= E /\ Distinct(U[s])
  <2>1. Len(new.entries) <= E
    BY <1>1, <1>2
  <2> QED
    BY <1>3, <1>4, <2>1 DEF WellFormed
<1>7. WellFormed(U, N, M, E)
  BY <1>1, <1>4, <1>5, <1>6 DEF WellFormed
<1>8. NamesKept(T[t], new)
  BY <1>2 DEF Inserted, NamesKept
<1>9. \A s \in 1 .. Len(T) : NamesKept(T[s], U[s])
  <2>1. \A s \in 1 .. Len(T) : NamesKept(T[s], T[s])
    BY DEF NamesKept
  <2> QED
    BY <1>4, <1>8, <2>1
<1> QED
  BY <1>1, <1>2, <1>4, <1>5, <1>7, <1>9 DEF Follows, new

LEMMA AppendWell ==
    ASSUME NEW T, NEW N, NEW M \in Nat, NEW E \in Nat, WellFormed(T, N, M, E), Len(T) < M,
           NEW new \in TableSet(N, 0 .. M), new.parent \in 1 .. Len(T),
           Len(new.entries) <= E, Distinct(new)
    PROVE  /\ WellFormed(Append(T, new), N, M, E) /\ Follows(T, Append(T, new))
           /\ Len(Append(T, new)) = Len(T) + 1 /\ Append(T, new)[Len(T) + 1] = new
           /\ \A s \in 1 .. Len(T) : Append(T, new)[s] = T[s]
<1> DEFINE U == Append(T, new)
<1>1. T \in Seq(TableSet(N, 0 .. M)) /\ Len(T) \in Nat /\ 1 <= Len(T)
  BY DEF WellFormed
<1>2. /\ U \in Seq(TableSet(N, 0 .. M)) /\ Len(U) = Len(T) + 1 /\ U[Len(T) + 1] = new
      /\ \A s \in 1 .. Len(T) : U[s] = T[s]
  BY <1>1
<1> HIDE DEF U
<1>3. U[1].parent = 0
  BY <1>1, <1>2 DEF WellFormed
<1>4. ASSUME NEW t \in 2 .. Len(U) PROVE U[t].parent \in 1 .. t - 1
  <2>1. CASE t = Len(T) + 1
    <3>1. new.parent \in 1 .. t - 1
      BY <1>1, <2>1
    <3> QED
      BY <1>2, <2>1, <3>1
  <2>2. CASE t # Len(T) + 1
    <3>1. t \in 2 .. Len(T) /\ t \in 1 .. Len(T)
      BY <1>1, <1>2, <2>2
    <3> QED
      BY <1>2, <3>1 DEF WellFormed
  <2> QED
    BY <2>1, <2>2
<1>5. ASSUME NEW t \in 1 .. Len(U) PROVE Len(U[t].entries) <= E /\ Distinct(U[t])
  <2>1. CASE t = Len(T) + 1
    BY <1>2, <2>1
  <2>2. CASE t # Len(T) + 1
    <3>1. t \in 1 .. Len(T)
      BY <1>1, <1>2, <2>2
    <3> QED
      BY <1>2, <3>1 DEF WellFormed
  <2> QED
    BY <2>1, <2>2
<1>6. WellFormed(U, N, M, E)
  BY <1>1, <1>2, <1>3, <1>4, <1>5 DEF WellFormed
<1>7. Follows(T, U)
  <2>1. \A s \in 1 .. Len(T) : NamesKept(T[s], T[s])
    BY DEF NamesKept
  <2> QED
    BY <1>1, <1>2, <2>1 DEF Follows
<1> QED
  BY <1>2, <1>6, <1>7 DEF U

\* Entries change their classes and offsets.
LEMMA RelabelWell ==
    ASSUME NEW T, NEW N, NEW M \in Nat, NEW E \in Nat, WellFormed(T, N, M, E),
           NEW U \in Seq(TableSet(N, 0 .. M)), Len(U) = Len(T),
           \A t \in 1 .. Len(T) :
             /\ U[t].parent = T[t].parent /\ Len(U[t].entries) = Len(T[t].entries)
             /\ \A i \in 1 .. Len(T[t].entries) : U[t].entries[i].name = T[t].entries[i].name
    PROVE  WellFormed(U, N, M, E) /\ Follows(T, U)
<1>1. Len(T) \in Nat
  BY DEF WellFormed
<1>2. \A t \in 1 .. Len(T) : Len(U[t].entries) <= E /\ Distinct(U[t])
  <2> SUFFICES ASSUME NEW t \in 1 .. Len(T) PROVE Len(U[t].entries) <= E /\ Distinct(U[t])
    OBVIOUS
  <2>1. Len(T[t].entries) <= E /\ Distinct(T[t])
    BY DEF WellFormed
  <2> QED
    BY <2>1 DEF Distinct
<1>3. WellFormed(U, N, M, E)
  <2>1. 1 \in 1 .. Len(T) /\ 1 <= Len(T) /\ Len(T) <= M /\ T[1].parent = 0
    BY <1>1 DEF WellFormed
  <2>2. U[1].parent = 0
    BY <2>1
  <2>3. \A t \in 2 .. Len(T) : t \in 1 .. Len(T) /\ T[t].parent \in 1 .. t - 1
    BY <1>1 DEF WellFormed
  <2>4. \A t \in 2 .. Len(T) : U[t].parent \in 1 .. t - 1
    BY <2>3
  <2> QED
    BY <1>2, <2>1, <2>2, <2>4 DEF WellFormed
<1>4. Follows(T, U)
  BY <1>1 DEF Follows, NamesKept
<1> QED
  BY <1>3, <1>4

-----------------------------------------------------------------------------
(* Types                                                                   *)

AllNames == Names \union Functions \union Nat

Tree == WellFormed(tables, AllNames, MaxTables, MaxEntries)

\* A block that may still declare variables is the open one and has no other in
\* it; while a record is open, there is room for its name.
Opened ==
    /\ declaring => current_table # global_table /\ Children(current_table) = {}
    /\ InRecord => Len(tables[global_table].entries) < MaxEntries

\* The body of a function is a scope within the global one.
BodiesPlaced ==
    \A f \in Functions : scope[f] # 0 =>
      scope[f] \in 2 .. Len(tables) /\ tables[scope[f]].parent = global_table

OthersTyped ==
    /\ workload \in Workloads
    /\ current_table \in DOMAIN tables
    /\ declaring \in BOOLEAN /\ parsed \in BOOLEAN
    /\ temp_variable_count \in Nat
    /\ domain \in [Functions -> 0 .. MaxParameters]
    /\ fdt \in [Functions -> {"FUNC_NORMAL", "FUNC_AS"}]
    /\ scope \in [Functions -> 0 .. Len(tables)]
    /\ stack_size \in [Functions -> Int]
    /\ parameters \in [Functions -> Seq(Names)]
    /\ resolved \subseteq [table : DOMAIN tables, name : Names, entry : Nat \X Nat]
    /\ calls \subseteq [function : Functions, words : 0 .. MaxParameters]

\* What every step keeps.
Scoped == Tree /\ Opened /\ BodiesPlaced /\ OthersTyped

\* The bounds of a program are numbers, and identifiers are none.
LEMMA Bounds ==
    ASSUME OthersTyped
    PROVE  /\ MaxTables \in Nat /\ MaxEntries \in Nat /\ MaxParameters \in Nat
           /\ 1 <= MaxTables /\ 1 <= MaxParameters /\ MaxParameters <= MaxEntries
           /\ \A n \in Names \union Functions : n \notin Nat
BY WorkloadsAssumption DEF OthersTyped, WorkloadType, MaxTables, MaxEntries, MaxParameters,
                           Names, Functions

\* The tables, in the terms the lemmas need.
LEMMA TreeFacts ==
    ASSUME Tree, OthersTyped
    PROVE  /\ MaxTables \in Nat /\ MaxEntries \in Nat
           /\ Rooted(tables) /\ Len(tables) \in Nat /\ DOMAIN tables = 1 .. Len(tables)
           /\ 1 \in 1 .. Len(tables) /\ current_table \in 1 .. Len(tables)
           /\ tables \in Seq(TableSet(AllNames, 0 .. MaxTables))
           /\ Len(tables) <= MaxTables
           /\ tables[1].parent = 0
           /\ \A t \in 2 .. Len(tables) : tables[t].parent \in 1 .. t - 1
           /\ \A t \in 1 .. Len(tables) :
                /\ tables[t] \in TableSet(AllNames, 0 .. MaxTables)
                /\ Len(tables[t].entries) \in Nat /\ Len(tables[t].entries) <= MaxEntries
                /\ tables[t].entries \in Seq(EntrySet(AllNames))
                /\ DOMAIN tables[t].entries = 1 .. Len(tables[t].entries)
                /\ Distinct(tables[t])
<1>1. MaxTables \in Nat /\ MaxEntries \in Nat
  BY Bounds
<1>2. WellFormed(tables, AllNames, MaxTables, MaxEntries)
  BY DEF Tree
<1>3. /\ Rooted(tables) /\ Len(tables) \in Nat /\ DOMAIN tables = 1 .. Len(tables)
      /\ 1 \in 1 .. Len(tables)
      /\ \A t \in 1 .. Len(tables) :
           /\ tables[t] \in TableSet(AllNames, 0 .. MaxTables)
           /\ Len(tables[t].entries) \in Nat
           /\ tables[t].entries \in Seq(EntrySet(AllNames))
           /\ DOMAIN tables[t].entries = 1 .. Len(tables[t].entries)
  BY <1>1, <1>2, WellFormedFacts
<1>4. current_table \in 1 .. Len(tables)
  BY <1>3 DEF OthersTyped
<1> QED
  BY <1>1, <1>2, <1>3, <1>4 DEF WellFormed

LEMMA ScopedTyped == ASSUME Scoped PROVE TypeOK
<1>1. /\ tables \in Seq(TableSet(AllNames, 0 .. MaxTables))
      /\ Len(tables) <= MaxTables
      /\ \A t \in DOMAIN tables : tables[t].parent < t /\ Len(tables[t].entries) <= MaxEntries
  BY TreeFacts DEF Scoped, Rooted
<1> QED
  BY <1>1 DEF Scoped, OthersTyped, TypeOK, TableSet, EntrySet, AllNames

\* A table with its offsets is the same list of the same names and classes.
LEMMA OffsetsFacts ==
    ASSUME NEW N, NEW P, NEW t, tables[t] \in TableSet(N, P), NEW start \in Int
    PROVE  /\ WithOffsets(t, start) \in TableSet(N, P)
           /\ WithOffsets(t, start).parent = tables[t].parent
           /\ Len(WithOffsets(t, start).entries) = Len(tables[t].entries)
           /\ \A i \in 1 .. Len(tables[t].entries) :
                LET e == WithOffsets(t, start).entries[i]
                    old == tables[t].entries[i]
                IN  /\ e.name = old.name /\ e.class = old.class
                    /\ old.class = "PARAMETER" =>
                         e.offset = 16 + 8 * Before(tables[t].entries, i, {"PARAMETER"})
                    /\ old.class \in Slotted =>
                         e.offset = start - 8 * Before(tables[t].entries, i, Slotted)
                    /\ old.class \notin Slotted \union {"PARAMETER"} => e.offset = old.offset
<1> DEFINE entries == tables[t].entries
           place(i) == CASE entries[i].class = "PARAMETER" ->
                              16 + 8 * Before(entries, i, {"PARAMETER"})
                         [] entries[i].class \in Slotted ->
                              start - 8 * Before(entries, i, Slotted)
                         [] OTHER -> entries[i].offset
           placed == [i \in DOMAIN entries |-> [entries[i] EXCEPT !.offset = place(i)]]
<1>1. /\ entries \in Seq(EntrySet(N)) /\ DOMAIN entries = 1 .. Len(entries)
      /\ Len(entries) \in Nat /\ tables[t].parent \in P
  BY DEF TableSet
<1>2. WithOffsets(t, start) = [tables[t] EXCEPT !.entries = placed]
  BY DEF WithOffsets
<1>3. ASSUME NEW i \in 1 .. Len(entries)
      PROVE  /\ place(i) \in Int
             /\ entries[i].class = "PARAMETER" =>
                  place(i) = 16 + 8 * Before(entries, i, {"PARAMETER"})
             /\ entries[i].class \in Slotted =>
                  place(i) = start - 8 * Before(entries, i, Slotted)
             /\ entries[i].class \notin Slotted \union {"PARAMETER"} =>
                  place(i) = entries[i].offset
  <2>1. i \in Nat /\ entries[i] \in EntrySet(N)
    BY <1>1
  <2>2. /\ Before(entries, i, {"PARAMETER"}) \in Nat /\ Before(entries, i, Slotted) \in Nat
        /\ entries[i].offset \in Int
    BY <2>1, BeforeFacts DEF EntrySet
  <2> HIDE DEF entries
  <2>3. CASE entries[i].class = "PARAMETER"
    BY <2>2, <2>3 DEF Slotted
  <2>4. CASE entries[i].class \in Slotted
    BY <2>2, <2>4 DEF Slotted
  <2>5. CASE entries[i].class \notin Slotted \union {"PARAMETER"}
    BY <2>2, <2>5
  <2> QED
    BY <2>3, <2>4, <2>5
<1> HIDE DEF place
<1>4. ASSUME NEW i \in 1 .. Len(entries)
      PROVE  /\ placed[i] \in EntrySet(N) /\ placed[i].name = entries[i].name
             /\ placed[i].class = entries[i].class /\ placed[i].offset = place(i)
  <2>1. placed[i] = [entries[i] EXCEPT !.offset = place(i)]
    BY <1>1
  <2>2. entries[i] \in EntrySet(N) /\ place(i) \in Int
    BY <1>1, <1>3
  <2> HIDE DEF placed, entries
  <2> QED
    BY <2>1, <2>2 DEF EntrySet
<1>5. placed \in Seq(EntrySet(N)) /\ Len(placed) = Len(entries)
  <2> DEFINE l == Len(entries)
  <2>1. DOMAIN placed = 1 .. l /\ placed = [i \in 1 .. l |-> placed[i]]
    BY <1>1
  <2>2. \A i \in 1 .. l : placed[i] \in EntrySet(N)
    BY <1>4
  <2>3. l \in Nat
    BY <1>1
  <2> HIDE DEF placed, l
  <2>4. placed \in [1 .. l -> EntrySet(N)]
    BY <2>1, <2>2
  <2>5. placed \in Seq(EntrySet(N)) /\ Len(placed) = l
    BY <2>3, <2>4
  <2> QED
    BY <2>5 DEF l
<1> HIDE DEF placed
<1>6. /\ WithOffsets(t, start).entries = placed
      /\ WithOffsets(t, start).parent = tables[t].parent
      /\ WithOffsets(t, start) \in TableSet(N, P)
  BY <1>1, <1>2, <1>5 DEF TableSet
<1> QED
  BY <1>3, <1>4, <1>5, <1>6

-----------------------------------------------------------------------------
(* The kinds of steps                                                      *)

\* An entry is inserted into the open scope: a function or a type into the
\* global one, a variable where the block may declare, a temporary anywhere else.
Inserts(n, class) ==
    /\ Len(tables[current_table].entries) < MaxEntries
    /\ n \in AllNames /\ class \in Classes
    /\ tables' = [tables EXCEPT ![current_table] = insert(tables[current_table], n, class)]
    /\ \/ class \in {"FUNC_ENTRY", "TYPE_ENTRY"} /\ current_table = global_table
       \/ class = "LOCAL" /\ n \in Names /\ declaring /\ current_table # global_table
       \/ /\ class \in {"TEMPORARY", "CONSTANT"} /\ n \in Nat
          /\ current_table # global_table /\ ~InRecord
    /\ current_table' = current_table
    /\ declaring' \in {declaring, FALSE}
    /\ UNCHANGED scope

\* A scope is opened: the body of a function with its parameters, or an empty
\* one within a block or of a record.
Opens(new) ==
    /\ Len(tables) < MaxTables
    /\ new \in TableSet(AllNames, 0 .. MaxTables) /\ new.parent = current_table
    /\ Len(new.entries) <= MaxEntries /\ Distinct(new)
    /\ \A i \in 1 .. Len(new.entries) : new.entries[i].class = "PARAMETER"
    /\ tables' = Append(tables, new)
    /\ current_table' = Len(tables) + 1
    /\ declaring' = TRUE
    /\ \/ current_table = global_table /\ UNCHANGED scope
            /\ Len(tables[global_table].entries) < MaxEntries
       \/ /\ current_table = global_table
          /\ \E f \in Functions : scope' = [scope EXCEPT ![f] = Len(tables) + 1]
       \/ /\ current_table # global_table /\ ~InRecord /\ Len(new.entries) = 0
          /\ UNCHANGED scope

\* The tables stay, and a scope may be left for its parent.
Stays ==
    /\ UNCHANGED <<tables, scope>>
    /\ declaring' = FALSE
    /\ current_table # global_table
    /\ \/ current_table' = current_table
       \/ ~declaring /\ current_table' = tables[current_table].parent

LEMMA StepKinds ==
    ASSUME Scoped, Step
    PROVE  /\ ~parsed
           /\ \/ \E n, class : Inserts(n, class)
              \/ \E new : Opens(new)
              \/ Stays
              \/ \E n \in Names : EndRecord(n)
              \/ assign_offsets
<1> USE DEF Scoped
<1>0. /\ MaxEntries \in Nat /\ MaxTables \in Nat /\ current_table \in 1 .. Len(tables)
      /\ Len(tables) \in Nat /\ Len(tables) <= MaxTables
      /\ Len(tables[current_table].entries) \in Nat
  BY TreeFacts
<1>1. ASSUME NEW n \in Names, DefineType(n) PROVE \E m, class : Inserts(m, class)
  <2>1. Inserts(n, "TYPE_ENTRY")
    BY <1>0, <1>1 DEF DefineType, AtGlobal, RoomFor, insert_type, Inserts, Classes, AllNames,
                      functionVars
  <2> QED
    BY <2>1
<1>2. ASSUME NEW f \in Functions, NEW k \in 0 .. MaxParameters, Prototype(f, k)
      PROVE  \E m, class : Inserts(m, class)
  <2>1. Inserts(f, "FUNC_ENTRY")
    BY <1>0, <1>2 DEF Prototype, AtGlobal, RoomFor, Inserts, Classes, AllNames
  <2> QED
    BY <2>1
<1>3. ASSUME NEW n \in Names, Declaration(n) PROVE \E m, class : Inserts(m, class)
  <2>1. Inserts(n, "LOCAL")
    BY <1>0, <1>3 DEF Declaration, InFunction, RoomFor, Inserts, Classes, Slotted, AllNames,
                      functionVars
  <2> QED
    BY <2>1
<1>4. ASSUME NEW class \in {"TEMPORARY", "CONSTANT"}, create_new_temp(class)
      PROVE  \E m, c : Inserts(m, c)
  <2>1. temp_variable_count \in Nat
    BY DEF OthersTyped
  <2>2. /\ current_table # global_table /\ ~InRecord
        /\ Len(tables[current_table].entries) + 1 <= MaxEntries
        /\ tables' = [tables EXCEPT ![current_table] =
                        insert(tables[current_table], temp_variable_count, class)]
        /\ current_table' = current_table /\ declaring' = FALSE /\ UNCHANGED scope
    BY <1>4 DEF create_new_temp, InFunction, RoomFor, functionVars
  <2>3. temp_variable_count \in AllNames /\ class \in Classes
    BY <2>1 DEF AllNames, Classes, Slotted
  <2>4. Len(tables[current_table].entries) < MaxEntries
    BY <1>0, <2>2
  <2>5. declaring' \in {declaring, FALSE}
    BY <2>2
  <2>6. Inserts(temp_variable_count, class)
    BY <2>1, <2>2, <2>3, <2>4, <2>5, Zenon DEF Inserts
  <2> QED
    BY <2>6
<1>5. ASSUME NEW p \in 1 .. Len(tables), Len(tables) < MaxTables
      PROVE  /\ Table(p) \in TableSet(AllNames, 0 .. MaxTables) /\ Table(p).parent = p
             /\ Len(Table(p).entries) = 0 /\ Distinct(Table(p))
  <2>1. p \in 0 .. MaxTables /\ <<>> \in Seq(EntrySet(AllNames)) /\ Len(<<>>) = 0
    BY <1>0
  <2>2. Table(p).parent = p /\ Table(p).entries = <<>>
    BY DEF Table
  <2> QED
    BY <2>1, <2>2 DEF Table, TableSet, Distinct
<1>6. ASSUME BeginRecord PROVE \E new : Opens(new)
  <2>1. Opens(Table(global_table))
    BY <1>0, <1>5, <1>6 DEF BeginRecord, AtGlobal, RoomFor, Opens, functionVars
  <2> QED
    BY <2>1
<1>7. ASSUME BeginBlock PROVE \E new : Opens(new)
  <2>1. Opens(Table(current_table))
    BY <1>0, <1>5, <1>7 DEF BeginBlock, InFunction, Opens, functionVars
  <2> QED
    BY <2>1
<1>8. ASSUME NEW f \in Functions, NEW ps \in SeqOf(Names, MaxParameters) \ {<<>>},
             NEW as_packed \in BOOLEAN, BeginFunction(f, ps, as_packed)
      PROVE  \E new : Opens(new)
  <2>1. /\ AtGlobal /\ Len(tables) < MaxTables
        /\ tables' = Append(tables, Body(ps)) /\ current_table' = Len(tables) + 1
        /\ scope' = [scope EXCEPT ![f] = Len(tables) + 1] /\ declaring' = TRUE
    BY <1>8 DEF BeginFunction
  <2>2. MaxParameters \in Nat /\ MaxParameters <= MaxEntries
    BY Bounds
  <2>3. PICK m \in 0 .. MaxParameters : ps \in [1 .. m -> Names]
    BY DEF SeqOf
  <2>4. ps \in Seq(Names) /\ Len(ps) = m /\ ps \in Seq(AllNames)
    BY <2>2, <2>3 DEF AllNames
  <2> DEFINE P == 0 .. MaxTables
  <2>5. global_table \in P
    BY <1>0 DEF global_table
  <2> HIDE DEF P
  <2>6. /\ Body(ps) \in TableSet(AllNames, P) /\ Body(ps).parent = global_table
        /\ Len(Body(ps).entries) \in Nat /\ Len(Body(ps).entries) <= Len(ps)
        /\ Distinct(Body(ps))
        /\ \A i \in 1 .. Len(Body(ps).entries) : Body(ps).entries[i].class = "PARAMETER"
    BY <2>4, <2>5, BodyFacts
  <2>7. Len(Body(ps).entries) <= MaxEntries
    BY <1>0, <2>2, <2>3, <2>4, <2>6
  <2>8. Opens(Body(ps))
    BY <2>1, <2>6, <2>7 DEF Opens, AtGlobal, P
  <2> QED
    BY <2>8
<1>9. ASSUME NEW n \in Names, Use(n) PROVE Stays
  BY <1>9 DEF Use, InFunction, Stays, functionVars
<1>10. ASSUME NEW f \in Functions, Call(f) PROVE Stays
  BY <1>10 DEF Call, InFunction, Stays, functionVars
<1>11. ASSUME EndBlock PROVE Stays
  BY <1>11 DEF EndBlock, InFunction, Stays, functionVars, OthersTyped
<1>12. ~parsed
  <2> USE DEF AtGlobal, InFunction, InRecord
  <2>1. ASSUME NEW n \in Names, DefineType(n) \/ EndRecord(n) \/ Declaration(n) \/ Use(n)
        PROVE  ~parsed
    BY <2>1 DEF DefineType, EndRecord, Declaration, Use
  <2>2. ASSUME NEW f \in Functions, NEW k, Prototype(f, k) \/ Call(f) PROVE ~parsed
    BY <2>2 DEF Prototype, Call
  <2>3. ASSUME NEW f, NEW ps, NEW as_packed, BeginFunction(f, ps, as_packed) PROVE ~parsed
    BY <2>3 DEF BeginFunction
  <2>4. ASSUME NEW class, create_new_temp(class) PROVE ~parsed
    BY <2>4 DEF create_new_temp
  <2>5. ASSUME BeginRecord \/ BeginBlock \/ EndBlock \/ assign_offsets PROVE ~parsed
    BY <2>5 DEF BeginRecord, BeginBlock, EndBlock, assign_offsets
  <2> QED
    BY <2>1, <2>2, <2>3, <2>4, <2>5 DEF Step
<1> QED
  BY <1>1, <1>2, <1>3, <1>4, <1>6, <1>7, <1>8, <1>9, <1>10, <1>11, <1>12 DEF Step

-----------------------------------------------------------------------------
(* Every step keeps the tree                                               *)

\* The entries of a record when it is closed.
FieldsOf(entries) ==
    [i \in DOMAIN entries |->
       [entries[i] EXCEPT !.offset = 8 * (Len(entries) - i), !.class = "RECORD_MEMBER"]]

LEMMA FieldsTyped ==
    ASSUME NEW N, NEW s \in Seq(EntrySet(N))
    PROVE  /\ FieldsOf(s) \in Seq(EntrySet(N)) /\ Len(FieldsOf(s)) = Len(s)
           /\ \A i \in 1 .. Len(s) :
                /\ FieldsOf(s)[i].name = s[i].name /\ FieldsOf(s)[i].class = "RECORD_MEMBER"
                /\ FieldsOf(s)[i].offset = 8 * (Len(s) - i)
<1> DEFINE l == Len(s)
           fields == FieldsOf(s)
<1>1. l \in Nat /\ DOMAIN s = 1 .. l
  OBVIOUS
<1>2. DOMAIN fields = 1 .. l /\ fields = [i \in 1 .. l |-> fields[i]]
  BY <1>1 DEF FieldsOf
<1>3. ASSUME NEW i \in 1 .. l
      PROVE  /\ fields[i] \in EntrySet(N) /\ fields[i].name = s[i].name
             /\ fields[i].class = "RECORD_MEMBER" /\ fields[i].offset = 8 * (l - i)
  <2>1. fields[i] = [s[i] EXCEPT !.offset = 8 * (l - i), !.class = "RECORD_MEMBER"]
    BY <1>1 DEF FieldsOf
  <2>2. s[i] \in EntrySet(N) /\ 8 * (l - i) \in Int /\ "RECORD_MEMBER" \in Classes
    BY <1>1 DEF Classes
  <2> HIDE DEF fields, l
  <2> QED
    BY <2>1, <2>2 DEF EntrySet
<1> HIDE DEF fields, l
<1>4. fields \in [1 .. l -> EntrySet(N)]
  BY <1>2, <1>3
<1>5. fields \in Seq(EntrySet(N)) /\ Len(fields) = l
  BY <1>1, <1>4
<1> QED
  BY <1>3, <1>5 DEF fields, l

\* Closing a record changes its own table, which is not the global one, and
\* gives that one a type.
LEMMA RecordStep ==
    ASSUME Tree, Opened, OthersTyped, UNCHANGED workload, NEW n \in Names, EndRecord(n)
    PROVE  /\ WellFormed(tables', AllNames, MaxTables, MaxEntries) /\ Follows(tables, tables')
           /\ current_table \in 2 .. Len(tables) /\ Len(tables') = Len(tables)
           /\ declaring
           /\ tables'[current_table].entries = FieldsOf(tables[current_table].entries)
           /\ Inserted(tables[1], tables'[1], n, "TYPE_ENTRY")
           /\ \A t \in 2 .. Len(tables) : t # current_table => tables'[t] = tables[t]
<1> DEFINE c == current_table
           M == MaxTables
           E == MaxEntries
           N == AllNames
           entries == tables[c].entries
           T == [tables EXCEPT ![c].entries = FieldsOf(entries)]
<1>1. /\ M \in Nat /\ E \in Nat /\ Len(tables) \in Nat /\ DOMAIN tables = 1 .. Len(tables)
      /\ c \in 1 .. Len(tables) /\ 1 \in 1 .. Len(tables)
      /\ tables \in Seq(TableSet(N, 0 .. M)) /\ tables[c] \in TableSet(N, 0 .. M)
      /\ entries \in Seq(EntrySet(N)) /\ Len(entries) \in Nat
  BY TreeFacts
<1>2. /\ InRecord /\ c # 1 /\ declaring
      /\ tables' = [tables EXCEPT ![c].entries = FieldsOf(entries),
                                  ![global_table] = insert_type(@, n)]
  BY DEF EndRecord, InRecord, InFunction, FieldsOf, global_table
<1>3. Len(tables[1].entries) < E
  BY <1>2 DEF Opened, global_table
<1>4. /\ FieldsOf(entries) \in Seq(EntrySet(N)) /\ Len(FieldsOf(entries)) = Len(entries)
      /\ \A i \in 1 .. Len(entries) : FieldsOf(entries)[i].name = entries[i].name
  BY <1>1, FieldsTyped
<1>5. c \in 2 .. Len(tables)
  BY <1>1, <1>2
<1> HIDE DEF c
<1>6. /\ T \in Seq(TableSet(N, 0 .. M)) /\ Len(T) = Len(tables)
      /\ T[c].entries = FieldsOf(entries) /\ T[c].parent = tables[c].parent
      /\ \A t \in 1 .. Len(tables) : t # c => T[t] = tables[t]
      /\ DOMAIN T = 1 .. Len(tables)
  <2> DEFINE new == [tables[c] EXCEPT !.entries = FieldsOf(entries)]
  <2>1. /\ new \in TableSet(N, 0 .. M) /\ new.entries = FieldsOf(entries)
        /\ new.parent = tables[c].parent
    BY <1>1, <1>4 DEF TableSet
  <2>2. T = [tables EXCEPT ![c] = new]
    OBVIOUS
  <2> HIDE DEF new, T
  <2> QED
    BY <1>1, <2>1, <2>2
<1>7. OneMore(T, tables', 1, n, "TYPE_ENTRY")
  BY <1>2, <1>1, <1>6 DEF insert_type, global_table, OneMore
<1> HIDE DEF T
<1>8. WellFormed(T, N, M, E) /\ Follows(tables, T)
  <2>1. \A t \in 1 .. Len(tables) :
          /\ T[t].parent = tables[t].parent /\ Len(T[t].entries) = Len(tables[t].entries)
          /\ \A i \in 1 .. Len(tables[t].entries) :
               T[t].entries[i].name = tables[t].entries[i].name
    BY <1>4, <1>6
  <2>2. WellFormed(tables, N, M, E)
    BY DEF Tree
  <2> HIDE DEF M, E, N, entries
  <2> QED
    BY <1>1, <1>6, <2>1, <2>2, RelabelWell
<1>9. T[1] = tables[1]
  BY <1>1, <1>2, <1>6
<1>10. n \in N /\ "TYPE_ENTRY" \in Classes
  BY DEF AllNames, Classes
<1>11. /\ WellFormed(tables', N, M, E) /\ Follows(T, tables') /\ Len(tables') = Len(T)
       /\ \A s \in 1 .. Len(T) : s # 1 => tables'[s] = T[s]
       /\ Inserted(T[1], tables'[1], n, "TYPE_ENTRY")
  <2>1. 1 \in 1 .. Len(T) /\ Len(T[1].entries) < E
    BY <1>1, <1>3, <1>6, <1>9
  <2>2. WellFormed(T, N, M, E) /\ M \in Nat /\ E \in Nat
    BY <1>1, <1>8
  <2> DEFINE U == tables'
             one == 1
             class == "TYPE_ENTRY"
  <2>3. /\ one \in 1 .. Len(T) /\ Len(T[one].entries) < E
        /\ OneMore(T, U, one, n, class) /\ n \in N /\ class \in Classes
    BY <1>7, <1>10, <2>1
  <2> HIDE DEF M, E, N, U, one, class
  <2>5. /\ WellFormed(U, N, M, E) /\ Follows(T, U) /\ Len(U) = Len(T)
        /\ \A s \in 1 .. Len(T) : s # one => U[s] = T[s]
        /\ U[one] = insert(T[one], n, class) /\ Inserted(T[one], U[one], n, class)
    BY <2>2, <2>3, InsertWell
  <2> QED
    BY <2>5 DEF U, one, class
<1>12. Follows(tables, tables')
  <2> SUFFICES ASSUME NEW t \in 1 .. Len(tables)
               PROVE  /\ tables'[t].parent = tables[t].parent
                      /\ NamesKept(tables[t], tables'[t])
    BY <1>1, <1>6, <1>11 DEF Follows
  <2>1. CASE t = 1
    BY <1>6, <1>9, <1>11, <2>1 DEF Follows
  <2>2. CASE t # 1
    BY <1>6, <1>8, <1>11, <2>2 DEF Follows
  <2> QED
    BY <2>1, <2>2
<1>13. tables'[c].entries = FieldsOf(entries)
  BY <1>5, <1>6, <1>11
<1>14. \A t \in 2 .. Len(tables) : t # c => tables'[t] = tables[t]
  BY <1>1, <1>6, <1>11
<1> QED
  BY <1>2, <1>5, <1>6, <1>9, <1>11, <1>12, <1>13, <1>14 DEF c

\* assign_offsets changes offsets only.
LEMMA OffsetsStep ==
    ASSUME Tree, OthersTyped, assign_offsets
    PROVE  /\ WellFormed(tables', AllNames, MaxTables, MaxEntries) /\ Follows(tables, tables')
           /\ Len(tables') = Len(tables)
           /\ \A t \in 1 .. Len(tables) :
                tables'[t] = IF FirstOffset[t] = 0 THEN tables[t]
                             ELSE WithOffsets(t, FirstOffset[t])
<1> DEFINE M == MaxTables
           E == MaxEntries
           N == AllNames
<1>1. /\ M \in Nat /\ E \in Nat /\ Len(tables) \in Nat /\ DOMAIN tables = 1 .. Len(tables)
      /\ Rooted(tables)
      /\ \A t \in 1 .. Len(tables) : tables[t] \in TableSet(N, 0 .. M)
  BY TreeFacts
<1>2. FirstOffset \in [1 .. Len(tables) -> Int]
  BY <1>1, FirstFacts
<1>3. tables' = [t \in 1 .. Len(tables) |->
                   IF FirstOffset[t] = 0 THEN tables[t] ELSE WithOffsets(t, FirstOffset[t])]
  BY <1>1 DEF assign_offsets
<1> HIDE DEF N, M, E
<1>4. ASSUME NEW t \in 1 .. Len(tables)
      PROVE  /\ tables'[t] = IF FirstOffset[t] = 0 THEN tables[t]
                             ELSE WithOffsets(t, FirstOffset[t])
             /\ tables'[t] \in TableSet(N, 0 .. M)
             /\ tables'[t].parent = tables[t].parent
             /\ Len(tables'[t].entries) = Len(tables[t].entries)
             /\ \A i \in 1 .. Len(tables[t].entries) :
                  tables'[t].entries[i].name = tables[t].entries[i].name
  <2>1. FirstOffset[t] \in Int /\ tables[t] \in TableSet(N, 0 .. M)
    BY <1>1, <1>2
  <2> DEFINE new == WithOffsets(t, FirstOffset[t])
  <2>2. /\ new \in TableSet(N, 0 .. M) /\ new.parent = tables[t].parent
        /\ Len(new.entries) = Len(tables[t].entries)
        /\ \A i \in 1 .. Len(tables[t].entries) : new.entries[i].name = tables[t].entries[i].name
    BY <2>1, OffsetsFacts
  <2> HIDE DEF new
  <2>3. tables'[t] = IF FirstOffset[t] = 0 THEN tables[t] ELSE new
    BY <1>3 DEF new
  <2> QED
    BY <2>1, <2>2, <2>3 DEF new
<1>5. tables' \in Seq(TableSet(N, 0 .. M)) /\ Len(tables') = Len(tables)
  <2> DEFINE l == Len(tables)
  <2>1. DOMAIN tables' = 1 .. l /\ tables' = [t \in 1 .. l |-> tables'[t]]
    BY <1>3
  <2>2. l \in Nat /\ \A t \in 1 .. l : tables'[t] \in TableSet(N, 0 .. M)
    BY <1>1, <1>4
  <2> HIDE DEF l
  <2>3. tables' \in [1 .. l -> TableSet(N, 0 .. M)]
    BY <2>1, <2>2
  <2>4. tables' \in Seq(TableSet(N, 0 .. M)) /\ Len(tables') = l
    BY <2>2, <2>3
  <2> QED
    BY <2>4 DEF l
<1>6. WellFormed(tables, N, M, E)
  BY DEF Tree, N, M, E
<1>7. WellFormed(tables', N, M, E) /\ Follows(tables, tables')
  BY <1>1, <1>4, <1>5, <1>6, RelabelWell
<1> QED
  BY <1>4, <1>5, <1>7 DEF N, M, E

\* The program does not change.
LEMMA SameProgram ==
    ASSUME UNCHANGED workload
    PROVE  /\ Names' = Names /\ Functions' = Functions /\ AllNames' = AllNames
           /\ MaxTables' = MaxTables /\ MaxEntries' = MaxEntries
           /\ MaxParameters' = MaxParameters
BY DEF Names, Functions, AllNames, MaxTables, MaxEntries, MaxParameters

LEMMA InsertStep ==
    ASSUME Scoped, NEW n, NEW class, Inserts(n, class)
    PROVE  /\ WellFormed(tables', AllNames, MaxTables, MaxEntries) /\ Follows(tables, tables')
           /\ Len(tables') = Len(tables)
           /\ \A t \in 1 .. Len(tables) : t # current_table => tables'[t] = tables[t]
           /\ Inserted(tables[current_table], tables'[current_table], n, class)
<1> DEFINE T == tables
           U == tables'
           N == AllNames
           M == MaxTables
           E == MaxEntries
           c == current_table
<1>1. /\ M \in Nat /\ E \in Nat /\ WellFormed(T, N, M, E) /\ c \in 1 .. Len(T)
  BY TreeFacts DEF Scoped, Tree
<1>2. /\ n \in N /\ class \in Classes /\ Len(T[c].entries) < E /\ OneMore(T, U, c, n, class)
  BY DEF Inserts, OneMore
<1> HIDE DEF T, U, N, M, E, c
<1>3. /\ WellFormed(U, N, M, E) /\ Follows(T, U) /\ Len(U) = Len(T)
      /\ \A s \in 1 .. Len(T) : s # c => U[s] = T[s]
      /\ U[c] = insert(T[c], n, class) /\ Inserted(T[c], U[c], n, class)
  BY <1>1, <1>2, InsertWell
<1> QED
  BY <1>3 DEF T, U, N, M, E, c

LEMMA OpenStep ==
    ASSUME Scoped, NEW new, Opens(new)
    PROVE  /\ WellFormed(tables', AllNames, MaxTables, MaxEntries) /\ Follows(tables, tables')
           /\ Len(tables') = Len(tables) + 1 /\ tables'[Len(tables) + 1] = new
           /\ \A t \in 1 .. Len(tables) : tables'[t] = tables[t]
<1> DEFINE T == tables
           U == tables'
           N == AllNames
           M == MaxTables
           E == MaxEntries
<1>1. M \in Nat /\ E \in Nat /\ WellFormed(T, N, M, E) /\ current_table \in 1 .. Len(T)
  BY TreeFacts DEF Scoped, Tree
<1>2. /\ Len(T) < M /\ new \in TableSet(N, 0 .. M) /\ new.parent \in 1 .. Len(T)
      /\ Len(new.entries) <= E /\ Distinct(new) /\ U = Append(T, new)
  BY <1>1 DEF Opens
<1> HIDE DEF T, U, N, M, E
<1>3. /\ WellFormed(Append(T, new), N, M, E) /\ Follows(T, Append(T, new))
      /\ Len(Append(T, new)) = Len(T) + 1 /\ Append(T, new)[Len(T) + 1] = new
      /\ \A s \in 1 .. Len(T) : Append(T, new)[s] = T[s]
  BY <1>1, <1>2, AppendWell
<1> QED
  BY <1>2, <1>3 DEF T, U, N, M, E

\* The tables grow as a tree, and no name moves.
LEMMA TreeStep ==
    ASSUME Scoped, [Next]_vars
    PROVE  /\ Tree' /\ Follows(tables, tables') /\ UNCHANGED workload
           /\ Len(tables') \in Nat /\ DOMAIN tables' = 1 .. Len(tables')
<1>1. UNCHANGED workload
  BY DEF Next, vars
<1> DEFINE Well == WellFormed(tables', AllNames, MaxTables, MaxEntries)
<1>2. Well /\ Follows(tables, tables')
  <2>1. ASSUME UNCHANGED tables PROVE Well /\ Follows(tables, tables')
    <3>1. WellFormed(tables, AllNames, MaxTables, MaxEntries) /\ Len(tables) \in Nat
      BY TreeFacts DEF Scoped, Tree
    <3>2. Follows(tables, tables)
      BY <3>1 DEF Follows, NamesKept
    <3> QED
      BY <2>1, <3>1, <3>2
  <2>2. ASSUME Step PROVE Well /\ Follows(tables, tables')
    <3>1. ASSUME NEW n, NEW class, Inserts(n, class) PROVE Well /\ Follows(tables, tables')
      BY <3>1, InsertStep
    <3>2. ASSUME NEW new, Opens(new) PROVE Well /\ Follows(tables, tables')
      BY <3>2, OpenStep
    <3>3. ASSUME NEW n \in Names, EndRecord(n) PROVE Well /\ Follows(tables, tables')
      BY <1>1, <3>3, RecordStep DEF Scoped
    <3>4. ASSUME assign_offsets PROVE Well /\ Follows(tables, tables')
      BY <3>4, OffsetsStep DEF Scoped
    <3>5. ASSUME Stays PROVE Well /\ Follows(tables, tables')
      BY <2>1, <3>5 DEF Stays
    <3> HIDE DEF Well
    <3> QED
      BY <2>2, <3>1, <3>2, <3>3, <3>4, <3>5, StepKinds
  <2> HIDE DEF Well
  <2> QED
    BY <2>1, <2>2 DEF Next, vars
<1>3. Tree'
  BY <1>1, <1>2, SameProgram DEF Tree
<1>4. Len(tables') \in Nat /\ DOMAIN tables' = 1 .. Len(tables')
  BY <1>2 DEF WellFormed
<1> QED
  BY <1>1, <1>2, <1>3, <1>4

\* The tables after a step, in the terms the lemmas need.
LEMMA TreeFactsNext ==
    ASSUME Scoped, [Next]_vars
    PROVE  /\ Rooted(tables') /\ Len(tables') \in Nat /\ Len(tables) <= Len(tables')
           /\ \A t \in 1 .. Len(tables') :
                /\ Len(tables'[t].entries) \in Nat
                /\ DOMAIN tables'[t].entries = 1 .. Len(tables'[t].entries)
                /\ Distinct(tables'[t])
<1> DEFINE T == tables'
           N == AllNames'
           M == MaxTables'
           E == MaxEntries'
<1>1. WellFormed(T, N, M, E) /\ Len(tables) <= Len(tables')
  BY TreeStep DEF Tree, Follows
<1>2. M \in Nat /\ E \in Nat
  BY TreeStep, SameProgram, Bounds DEF Scoped
<1> HIDE DEF T, N, M, E
<1>3. /\ Rooted(T) /\ Len(T) \in Nat /\ DOMAIN T = 1 .. Len(T) /\ 1 \in 1 .. Len(T)
      /\ \A s \in 1 .. Len(T) :
           /\ T[s] \in TableSet(N, 0 .. M) /\ Len(T[s].entries) \in Nat
           /\ T[s].entries \in Seq(EntrySet(N))
           /\ DOMAIN T[s].entries = 1 .. Len(T[s].entries)
  BY <1>1, <1>2, WellFormedFacts
<1>4. \A s \in 1 .. Len(T) : Distinct(T[s])
  BY <1>1 DEF WellFormed
<1> QED
  BY <1>1, <1>3, <1>4 DEF T

LEMMA OpenedStep ==
    ASSUME Scoped, [Next]_vars
    PROVE  Opened'
<1> USE DEF Scoped
<1>1. /\ Tree' /\ Follows(tables, tables')
      /\ Len(tables') \in Nat /\ DOMAIN tables' = 1 .. Len(tables')
  BY TreeStep
<1>2. /\ Len(tables) \in Nat /\ DOMAIN tables = 1 .. Len(tables) /\ 1 \in 1 .. Len(tables)
      /\ current_table \in 1 .. Len(tables)
  BY TreeFacts
<1>3. ASSUME UNCHANGED vars PROVE Opened'
  BY <1>3 DEF Opened, InRecord, InFunction, Children, vars, functionVars, MaxEntries, Functions
<1>4. ASSUME Step, UNCHANGED workload PROVE Opened'
  <2>1. ASSUME NEW n, NEW class, Inserts(n, class) PROVE Opened'
    <3>1. /\ Len(tables') = Len(tables) /\ current_table' = current_table /\ scope' = scope
          /\ declaring' => declaring
          /\ \A t \in 1 .. Len(tables) : t # current_table => tables'[t] = tables[t]
          /\ \A t \in 1 .. Len(tables) : tables'[t].parent = tables[t].parent
      <4>1. /\ Len(tables') = Len(tables)
            /\ \A t \in 1 .. Len(tables) : t # current_table => tables'[t] = tables[t]
        BY <2>1, InsertStep
      <4>2. current_table' = current_table /\ scope' = scope
        BY <2>1 DEF Inserts
      <4>3. declaring' => declaring
        BY <2>1, Zenon DEF Inserts
      <4>4. \A t \in 1 .. Len(tables) : tables'[t].parent = tables[t].parent
        BY <1>1 DEF Follows
      <4> QED
        BY <4>1, <4>2, <4>3, <4>4
    <3>2. (Children(current_table))' = Children(current_table)
      BY <1>1, <1>2, <3>1 DEF Children
    <3>3. ASSUME InRecord' PROVE InRecord
      <4>1. ~parsed
        BY <1>4, StepKinds
      <4> QED
        BY <1>2, <1>4, <3>1, <3>3, <4>1, SameProgram DEF InRecord, InFunction
    <3>4. InRecord' => current_table # global_table
      BY <3>1 DEF InRecord, InFunction
    <3> QED
      BY <1>2, <1>4, <3>1, <3>2, <3>3, <3>4, SameProgram DEF Opened, global_table
  <2>2. ASSUME NEW new, Opens(new) PROVE Opened'
    <3>1. /\ Len(tables') = Len(tables) + 1 /\ tables'[Len(tables) + 1] = new
          /\ \A t \in 1 .. Len(tables) : tables'[t] = tables[t]
          /\ current_table' = Len(tables) + 1 /\ new.parent = current_table
      BY <2>2, OpenStep DEF Opens
    <3>2. (Children(current_table))' = {}
      <4>1. \A t \in 1 .. Len(tables) + 1 : tables'[t].parent # Len(tables) + 1
        <5>1. new.parent # Len(tables) + 1
          BY <1>2, <3>1
        <5>2. \A t \in 1 .. Len(tables) : tables[t].parent \in 0 .. t - 1
          BY TreeFacts DEF Rooted
        <5>3. \A t \in 1 .. Len(tables) : tables[t].parent # Len(tables) + 1
          BY <1>2, <5>2
        <5>4. \A t \in 1 .. Len(tables) + 1 : t \in 1 .. Len(tables) \/ t = Len(tables) + 1
          BY <1>2
        <5> QED
          BY <3>1, <5>1, <5>3, <5>4
      <4> QED
        BY <1>1, <3>1, <4>1 DEF Children
    <3>3. current_table' # global_table
      BY <1>2, <3>1 DEF global_table
    <3>4. ASSUME InRecord' PROVE Len(tables[global_table].entries) < MaxEntries
      <4>1. current_table = global_table
        BY <3>1, <3>4 DEF InRecord
      <4>2. \A f \in Functions : scope'[f] # Len(tables) + 1
        BY <1>4, <3>1, <3>4, SameProgram DEF InRecord
      <4>3. DOMAIN scope = Functions
        BY DEF OthersTyped
      <4>4. ~ \E f \in Functions : scope' = [scope EXCEPT ![f] = Len(tables) + 1]
        BY <4>2, <4>3
      <4> QED
        BY <2>2, <4>1, <4>4 DEF Opens
    <3> QED
      BY <1>2, <1>4, <3>1, <3>2, <3>3, <3>4, SameProgram DEF Opened, global_table
  <2>3. ASSUME declaring' = FALSE PROVE Opened'
    BY <2>3 DEF Opened, InRecord
  <2>4. ASSUME NEW n, EndRecord(n) PROVE declaring' = FALSE
    BY <2>4 DEF EndRecord
  <2>5. ASSUME assign_offsets PROVE Opened'
    <3>1. current_table' = current_table /\ declaring' = declaring /\ ~InRecord'
      BY <2>5 DEF assign_offsets, InRecord, InFunction
    <3>2. /\ Len(tables') = Len(tables)
          /\ \A t \in 1 .. Len(tables) : tables'[t].parent = tables[t].parent
      <4>1. Len(tables') = Len(tables)
        BY <2>5, OffsetsStep
      <4> QED
        BY <1>1, <4>1 DEF Follows
    <3>3. (Children(current_table))' = Children(current_table)
      BY <1>1, <1>2, <3>1, <3>2 DEF Children
    <3> QED
      BY <3>1, <3>3 DEF Opened, global_table
  <2>6. ASSUME Stays PROVE declaring' = FALSE
    BY <2>6 DEF Stays
  <2> QED
    BY <1>4, <2>1, <2>2, <2>3, <2>4, <2>5, <2>6, StepKinds
<1> QED
  BY <1>3, <1>4 DEF Next

LEMMA BodiesStep ==
    ASSUME Scoped, [Next]_vars
    PROVE  BodiesPlaced'
<1> USE DEF Scoped
<1>1. Follows(tables, tables') /\ Len(tables') \in Nat /\ UNCHANGED workload
  BY TreeStep
<1>2. Len(tables) \in Nat /\ 1 \in 1 .. Len(tables)
  BY TreeFacts
<1>3. Functions' = Functions /\ global_table' = global_table
  BY <1>1, SameProgram DEF global_table
<1>4. ASSUME UNCHANGED scope PROVE BodiesPlaced'
  <2> SUFFICES ASSUME NEW f \in Functions, scope[f] # 0
               PROVE  /\ scope[f] \in 2 .. Len(tables')
                      /\ tables'[scope[f]].parent = global_table
    BY <1>3, <1>4 DEF BodiesPlaced
  <2>1. scope[f] \in 2 .. Len(tables) /\ tables[scope[f]].parent = global_table
    BY DEF BodiesPlaced
  <2> QED
    BY <1>1, <1>2, <2>1 DEF Follows
<1>5. ASSUME NEW new, Opens(new), current_table = global_table,
             NEW g \in Functions, scope' = [scope EXCEPT ![g] = Len(tables) + 1]
      PROVE  BodiesPlaced'
  <2>1. /\ Len(tables') = Len(tables) + 1 /\ tables'[Len(tables) + 1] = new
        /\ \A t \in 1 .. Len(tables) : tables'[t] = tables[t]
        /\ new.parent = global_table
    BY <1>5, OpenStep DEF Opens
  <2> SUFFICES ASSUME NEW f \in Functions, scope'[f] # 0
               PROVE  /\ scope'[f] \in 2 .. Len(tables')
                      /\ tables'[scope'[f]].parent = global_table
    BY <1>3 DEF BodiesPlaced
  <2>2. DOMAIN scope = Functions
    BY DEF OthersTyped
  <2>3. CASE f = g
    BY <1>2, <1>5, <2>1, <2>2, <2>3
  <2>4. CASE f # g
    <3>1. scope'[f] = scope[f]
      BY <1>5, <2>2, <2>4
    <3>2. scope[f] \in 2 .. Len(tables) /\ tables[scope[f]].parent = global_table
      BY <3>1 DEF BodiesPlaced
    <3> QED
      BY <1>2, <2>1, <3>1, <3>2
  <2> QED
    BY <2>3, <2>4
<1>6. ASSUME Step PROVE BodiesPlaced'
  <2>1. ASSUME NEW new, Opens(new) PROVE BodiesPlaced'
    BY <1>4, <1>5, <2>1 DEF Opens
  <2>2. ASSUME NEW n, NEW class, Inserts(n, class) PROVE UNCHANGED scope
    BY <2>2 DEF Inserts
  <2>3. ASSUME NEW n, EndRecord(n) PROVE UNCHANGED scope
    BY <2>3 DEF EndRecord, functionVars
  <2>4. (assign_offsets \/ Stays) => UNCHANGED scope
    BY DEF assign_offsets, Stays
  <2> QED
    BY <1>4, <1>6, <2>1, <2>2, <2>3, <2>4, StepKinds
<1> QED
  BY <1>4, <1>6 DEF Next, vars, functionVars

\* What a name is looked up to is a pair of numbers.
LEMMA LookupTyped ==
    ASSUME Tree, OthersTyped, NEW n
    PROVE  \A t \in 1 .. Len(tables) : lookup_symbol(t, n) \in Nat \X Nat
<1> DEFINE S == {t \in 1 .. Len(tables) : Lookup(tables, t, n) \in Nat \X Nat}
<1>1. ASSUME NEW t \in 1 .. Len(tables), Declares(tables[t], n)
      PROVE  FindIn(tables, t, n) \in Nat \X Nat
  <2> DEFINE i == CHOOSE k \in DOMAIN tables[t].entries : tables[t].entries[k].name = n
  <2>1. i \in DOMAIN tables[t].entries
    BY <1>1 DEF Declares
  <2>2. /\ DOMAIN tables[t].entries = 1 .. Len(tables[t].entries)
        /\ Len(tables[t].entries) \in Nat
    BY TreeFacts
  <2>3. FindIn(tables, t, n) = <<t, Len(tables[t].entries) - i>>
    BY DEF FindIn
  <2> HIDE DEF i
  <2> QED
    BY <2>1, <2>2, <2>3
<1>2. Rooted(tables) /\ Len(tables) \in Nat
  BY TreeFacts
<1>3. ASSUME NEW t \in 1 .. Len(tables), \A s \in 1 .. t - 1 : s \in S
      PROVE  t \in S
  <2>1. /\ Lookup(tables, t, n) = IF Declares(tables[t], n) THEN FindIn(tables, t, n)
                                  ELSE Lookup(tables, tables[t].parent, n)
        /\ Lookup(tables, 0, n) = NOT_FOUND
    BY <1>2, LookupUp
  <2>2. NOT_FOUND \in Nat \X Nat
    BY DEF NOT_FOUND
  <2>3. tables[t].parent = 0 \/ tables[t].parent \in 1 .. t - 1
    BY <1>2 DEF Rooted
  <2> QED
    BY <1>1, <1>3, <2>1, <2>2, <2>3
<1> HIDE DEF S
<1>4. 1 .. Len(tables) \subseteq S
  BY <1>2, <1>3, Strong
<1> QED
  BY <1>4, LookupIsIn DEF S

\* No frame begins above its base, so the depth of every table is a number.
LEMMA FirstBelow ==
    ASSUME Rooted(tables)
    PROVE  /\ \A t \in 1 .. Len(tables) : FirstOffset[t] \in Int /\ FirstOffset[t] <= 0
           /\ \A t \in 1 .. Len(tables) :
                EndOf(FirstOffset, t) \in Int /\ EndOf(FirstOffset, t) <= FirstOffset[t]
<1> DEFINE S == {t \in 1 .. Len(tables) : FirstOffset[t] <= 0}
<1>1. /\ FirstOffset \in [1 .. Len(tables) -> Int]
      /\ \A t \in 1 .. Len(tables) :
           FirstOffset[t] =
             IF t \in Scopes THEN -8
             ELSE IF tables[t].parent \in {0, global_table} THEN 0
             ELSE IF FirstOffset[tables[t].parent] = 0 THEN 0
             ELSE EndOf(FirstOffset, tables[t].parent)
  BY FirstFacts
<1>2. ASSUME NEW t \in 1 .. Len(tables)
      PROVE  EndOf(FirstOffset, t) \in Int /\ EndOf(FirstOffset, t) <= FirstOffset[t]
  <2>1. Len(tables[t].entries) + 1 \in Nat
    BY DEF Rooted
  <2>2. Count(tables[t].entries, Slotted) \in Nat
    BY <2>1, BeforeFacts DEF Count
  <2>3. FirstOffset[t] \in Int
    BY <1>1
  <2> QED
    BY <2>2, <2>3 DEF EndOf
<1>3. ASSUME NEW t \in 1 .. Len(tables), \A s \in 1 .. t - 1 : s \in S
      PROVE  t \in S
  <2>1. tables[t].parent \notin {0, global_table} => tables[t].parent \in 1 .. t - 1
    BY DEF Rooted
  <2>2. Len(tables) \in Nat
    BY DEF Rooted
  <2> DEFINE p == tables[t].parent
  <2>3. p \in 1 .. t - 1 =>
          EndOf(FirstOffset, p) \in Int /\ EndOf(FirstOffset, p) <= FirstOffset[p]
    BY <1>2, <2>2
  <2>4. p \in 1 .. t - 1 => FirstOffset[p] <= 0 /\ FirstOffset[p] \in Int
    BY <1>1, <1>3, <2>2
  <2>5. p \in 1 .. t - 1 => EndOf(FirstOffset, p) <= 0
    BY <2>3, <2>4
  <2>6. \/ FirstOffset[t] = -8 \/ FirstOffset[t] = 0
        \/ p \in 1 .. t - 1 /\ FirstOffset[t] = EndOf(FirstOffset, p)
    <3>1. FirstOffset[t] = IF t \in Scopes THEN -8
                           ELSE IF p \in {0, global_table} THEN 0
                           ELSE IF FirstOffset[p] = 0 THEN 0 ELSE EndOf(FirstOffset, p)
      BY <1>1
    <3> HIDE DEF p
    <3>2. \/ FirstOffset[t] = -8 \/ FirstOffset[t] = 0
          \/ p \notin {0, global_table} /\ FirstOffset[t] = EndOf(FirstOffset, p)
      BY <3>1, Zenon
    <3> QED
      BY <2>1, <3>2 DEF p
  <2> QED
    BY <2>5, <2>6
<1> HIDE DEF S
<1>4. 1 .. Len(tables) \subseteq S
  BY <1>3, Strong DEF Rooted
<1> QED
  BY <1>1, <1>2, <1>4 DEF S

\* What assign_offsets does to an entry.
LEMMA Placed ==
    ASSUME Tree, OthersTyped, assign_offsets
    PROVE  \A t \in 1 .. Len(tables) :
             /\ Len(tables'[t].entries) = Len(tables[t].entries)
             /\ \A i \in 1 .. Len(tables[t].entries) :
                  LET e == tables'[t].entries[i]
                      old == tables[t].entries[i]
                  IN  /\ e.name = old.name /\ e.class = old.class
                      /\ FirstOffset[t] # 0 /\ old.class = "PARAMETER" =>
                           e.offset = 16 + 8 * Before(tables[t].entries, i, {"PARAMETER"})
                      /\ FirstOffset[t] # 0 /\ old.class \in Slotted =>
                           e.offset = FirstOffset[t] - 8 * Before(tables[t].entries, i, Slotted)
                      /\ old.class \notin Slotted \union {"PARAMETER"} => e.offset = old.offset
<1> SUFFICES ASSUME NEW t \in 1 .. Len(tables)
             PROVE  /\ Len(tables'[t].entries) = Len(tables[t].entries)
                    /\ \A i \in 1 .. Len(tables[t].entries) :
                         LET e == tables'[t].entries[i]
                             old == tables[t].entries[i]
                         IN  /\ e.name = old.name /\ e.class = old.class
                             /\ FirstOffset[t] # 0 /\ old.class = "PARAMETER" =>
                                  e.offset = 16 + 8 * Before(tables[t].entries, i, {"PARAMETER"})
                             /\ FirstOffset[t] # 0 /\ old.class \in Slotted =>
                                  e.offset = FirstOffset[t]
                                               - 8 * Before(tables[t].entries, i, Slotted)
                             /\ old.class \notin Slotted \union {"PARAMETER"} =>
                                  e.offset = old.offset
  OBVIOUS
<1>1. tables'[t] = IF FirstOffset[t] = 0 THEN tables[t] ELSE WithOffsets(t, FirstOffset[t])
  BY OffsetsStep
<1> DEFINE start == FirstOffset[t]
           new == WithOffsets(t, start)
           N == AllNames
           P == 0 .. MaxTables
<1>2. start \in Int /\ tables[t] \in TableSet(N, P)
  BY TreeFacts, FirstBelow
<1> HIDE DEF start, N, P
<1>3. /\ new \in TableSet(N, P)
      /\ new.parent = tables[t].parent
      /\ Len(new.entries) = Len(tables[t].entries)
      /\ \A i \in 1 .. Len(tables[t].entries) :
           LET e == new.entries[i]
               old == tables[t].entries[i]
           IN  /\ e.name = old.name /\ e.class = old.class
               /\ old.class = "PARAMETER" =>
                    e.offset = 16 + 8 * Before(tables[t].entries, i, {"PARAMETER"})
               /\ old.class \in Slotted =>
                    e.offset = start - 8 * Before(tables[t].entries, i, Slotted)
               /\ old.class \notin Slotted \union {"PARAMETER"} => e.offset = old.offset
  BY <1>2, OffsetsFacts
<1> HIDE DEF new
<1>4. CASE FirstOffset[t] = 0
  BY <1>1, <1>4
<1>5. CASE FirstOffset[t] # 0
  <2>1. tables'[t] = new
    BY <1>1, <1>5 DEF new, start
  <2> QED
    BY <1>3, <2>1 DEF start
<1> QED
  BY <1>4, <1>5

LEMMA DepthTyped ==
    ASSUME Rooted(tables)
    PROVE  \A t \in 1 .. Len(tables) : max_depth(FirstOffset)[t] \in Int
<1> DEFINE start == FirstOffset
           b == 0
<1>1. /\ start \in [1 .. Len(tables) -> Int] /\ b \in Int
      /\ \A t \in 1 .. Len(tables) : start[t] <= b
  BY FirstFacts, FirstBelow
<1> HIDE DEF start, b
<1>2. \A t \in 1 .. Len(tables) :
        /\ max_depth(start)[t] \in Int
        /\ EndOf(start, t) <= max_depth(start)[t]
        /\ \/ max_depth(start)[t] = EndOf(start, t)
           \/ \E c \in Children(t) : max_depth(start)[t] = max_depth(start)[c]
  BY <1>1, DepthFacts
<1> QED
  BY <1>2 DEF start

\* Places in the tables stay places.
LEMMA PlacesStep ==
    ASSUME Scoped, Step, UNCHANGED workload
    PROVE  /\ current_table' \in DOMAIN tables'
           /\ declaring' \in BOOLEAN
           /\ scope' \in [Functions -> 0 .. Len(tables')]
<1> USE DEF Scoped
<1>1. /\ Len(tables) <= Len(tables')
      /\ Len(tables') \in Nat /\ DOMAIN tables' = 1 .. Len(tables')
  BY TreeStep DEF Next, Follows
<1>2. /\ Len(tables) \in Nat /\ 1 \in 1 .. Len(tables) /\ current_table \in 1 .. Len(tables)
      /\ \A t \in 2 .. Len(tables) : tables[t].parent \in 1 .. t - 1
  BY TreeFacts
<1>3. scope \in [Functions -> 0 .. Len(tables)] /\ declaring \in BOOLEAN
  BY DEF OthersTyped
<1> DEFINE Good == /\ current_table' \in 1 .. Len(tables')
                   /\ declaring' \in BOOLEAN
                   /\ scope' \in [Functions -> 0 .. Len(tables')]
<1>4. scope' = scope => scope' \in [Functions -> 0 .. Len(tables')]
  BY <1>1, <1>2, <1>3
<1>5. current_table \in 1 .. Len(tables') /\ global_table \in 1 .. Len(tables')
  BY <1>1, <1>2 DEF global_table
<1>6. ASSUME NEW n, NEW class, Inserts(n, class) PROVE Good
  <2>1. declaring' \in BOOLEAN
    BY <1>3, <1>6, Zenon DEF Inserts
  <2> QED
    BY <1>4, <1>5, <1>6, <2>1 DEF Inserts
<1>7. ASSUME NEW new, Opens(new) PROVE Good
  <2>1. Len(tables') = Len(tables) + 1
    BY <1>7, OpenStep
  <2>2. ASSUME NEW f \in Functions, scope' = [scope EXCEPT ![f] = Len(tables) + 1]
        PROVE  scope' \in [Functions -> 0 .. Len(tables')]
    BY <1>2, <1>3, <2>1, <2>2
  <2>3. scope' \in [Functions -> 0 .. Len(tables')]
    BY <1>4, <1>7, <2>2 DEF Opens
  <2>4. current_table' = Len(tables) + 1 /\ declaring' = TRUE
    BY <1>7 DEF Opens
  <2> QED
    BY <1>2, <2>1, <2>3, <2>4
<1>8. ASSUME Stays PROVE Good
  <2>1. current_table # global_table => tables[current_table].parent \in 1 .. Len(tables')
    BY <1>1, <1>2 DEF global_table
  <2> QED
    BY <1>4, <1>5, <1>8, <2>1 DEF Stays
<1>9. ASSUME NEW n, EndRecord(n) PROVE Good
  BY <1>4, <1>5, <1>9 DEF EndRecord, functionVars
<1>10. ASSUME assign_offsets PROVE Good
  <2>1. declaring' \in BOOLEAN
    BY <1>3, <1>10, Zenon DEF assign_offsets
  <2> QED
    BY <1>4, <1>5, <1>10, <2>1 DEF assign_offsets
<1> HIDE DEF Good
<1>11. Good
  BY <1>6, <1>7, <1>8, <1>9, <1>10, StepKinds
<1> QED
  BY <1>1, <1>11 DEF Good

\* And so does what is kept about the functions, the uses and the calls.
Uses(n) == [table : 1 .. n, name : Names, entry : Nat \X Nat]
CallSet == [function : Functions, words : 0 .. MaxParameters]

LEMMA SourceStep ==
    ASSUME Scoped, Step, UNCHANGED workload
    PROVE  /\ temp_variable_count' \in Nat /\ parsed' \in BOOLEAN
           /\ domain' \in [Functions -> 0 .. MaxParameters]
           /\ fdt' \in [Functions -> {"FUNC_NORMAL", "FUNC_AS"}]
           /\ stack_size' \in [Functions -> Int]
           /\ parameters' \in [Functions -> Seq(Names)]
           /\ resolved' \subseteq Uses(Len(tables'))
           /\ calls' \subseteq CallSet
<1> USE DEF Scoped
<1>0. DOMAIN tables = 1 .. Len(tables)
  BY TreeFacts
<1>1. /\ temp_variable_count \in Nat /\ parsed \in BOOLEAN
      /\ domain \in [Functions -> 0 .. MaxParameters]
      /\ fdt \in [Functions -> {"FUNC_NORMAL", "FUNC_AS"}]
      /\ stack_size \in [Functions -> Int]
      /\ parameters \in [Functions -> Seq(Names)]
      /\ resolved \subseteq Uses(Len(tables))
      /\ calls \subseteq CallSet
  BY <1>0 DEF OthersTyped, Uses, CallSet
<1>2. Len(tables) <= Len(tables') /\ Len(tables') \in Nat /\ Len(tables) \in Nat
  BY TreeFacts, TreeStep DEF Next, Follows
<1>3. Uses(Len(tables)) \subseteq Uses(Len(tables'))
  BY <1>2 DEF Uses
<1>4. resolved' = resolved => resolved' \subseteq Uses(Len(tables'))
  BY <1>1, <1>3
<1>5. MaxParameters \in Nat /\ 1 <= MaxParameters
  BY Bounds
<1> DEFINE Good == /\ temp_variable_count' \in Nat /\ parsed' \in BOOLEAN
                   /\ domain' \in [Functions -> 0 .. MaxParameters]
                   /\ fdt' \in [Functions -> {"FUNC_NORMAL", "FUNC_AS"}]
                   /\ stack_size' \in [Functions -> Int]
                   /\ parameters' \in [Functions -> Seq(Names)]
                   /\ resolved' \subseteq Uses(Len(tables'))
                   /\ calls' \subseteq CallSet
           Same == UNCHANGED <<temp_variable_count, functionVars, parsed, resolved, calls>>
<1>6. ASSUME Same PROVE Good
  BY <1>1, <1>4, <1>6 DEF functionVars
<1>7. ASSUME NEW n, DefineType(n) \/ EndRecord(n) \/ Declaration(n) PROVE Good
  BY <1>6, <1>7 DEF DefineType, EndRecord, Declaration
<1>8. ASSUME BeginRecord \/ BeginBlock \/ EndBlock PROVE Good
  BY <1>6, <1>8 DEF BeginRecord, BeginBlock, EndBlock
<1>9. ASSUME NEW class, create_new_temp(class) PROVE Good
  BY <1>1, <1>4, <1>9 DEF create_new_temp, functionVars
<1>10. ASSUME NEW f \in Functions, NEW k \in 0 .. MaxParameters, Prototype(f, k) PROVE Good
  <2>1. domain' \in [Functions -> 0 .. MaxParameters]
    <3>1. domain' = domain \/ domain' = [domain EXCEPT ![f] = k]
      BY <1>10 DEF Prototype
    <3> QED
      BY <1>1, <3>1
  <2>2. UNCHANGED <<temp_variable_count, fdt, stack_size, parsed, parameters, resolved, calls>>
    BY <1>10 DEF Prototype
  <2> QED
    BY <1>1, <1>4, <2>1, <2>2
<1>11. ASSUME NEW f \in Functions, Call(f) PROVE Good
  <2>1. ArgumentWords(f) \in 0 .. MaxParameters
    BY <1>1, <1>5 DEF ArgumentWords
  <2>2. /\ calls' = calls \union {[function |-> f, words |-> ArgumentWords(f)]}
        /\ UNCHANGED <<temp_variable_count, functionVars, parsed, resolved>>
    BY <1>11 DEF Call
  <2>3. [function |-> f, words |-> ArgumentWords(f)] \in CallSet
    BY <2>1 DEF CallSet
  <2> QED
    BY <1>1, <1>4, <2>2, <2>3 DEF functionVars
<1>12. ASSUME NEW n \in Names, Use(n) PROVE Good
  <2>1. current_table \in 1 .. Len(tables)
    BY TreeFacts
  <2>2. lookup_symbol(current_table, n) \in Nat \X Nat
    BY <2>1, LookupTyped
  <2> DEFINE use == [table |-> current_table, name |-> n,
                     entry |-> lookup_symbol(current_table, n)]
  <2>3. use \in Uses(Len(tables))
    BY <2>1, <2>2 DEF Uses
  <2>4. /\ resolved' = resolved \/ resolved' = resolved \union {use}
        /\ UNCHANGED <<temp_variable_count, functionVars, parsed, calls>>
    BY <1>12 DEF Use
  <2> HIDE DEF use
  <2>5. resolved' \subseteq Uses(Len(tables'))
    BY <1>1, <1>3, <2>3, <2>4
  <2> QED
    BY <1>1, <2>4, <2>5 DEF functionVars
<1>13. ASSUME NEW f \in Functions, NEW ps \in SeqOf(Names, MaxParameters), NEW as_packed,
              BeginFunction(f, ps, as_packed)
       PROVE  Good
  <2>1. PICK m \in 0 .. MaxParameters : ps \in [1 .. m -> Names]
    BY DEF SeqOf
  <2>2. ps \in Seq(Names)
    BY <1>5, <2>1
  <2>3. /\ fdt' = fdt \/ fdt' = [fdt EXCEPT ![f] = "FUNC_AS"]
        /\ parameters' = [parameters EXCEPT ![f] = ps]
        /\ UNCHANGED <<domain, temp_variable_count, stack_size, parsed, resolved, calls>>
    BY <1>13 DEF BeginFunction
  <2>4. fdt' \in [Functions -> {"FUNC_NORMAL", "FUNC_AS"}]
    BY <1>1, <2>3
  <2>5. parameters' \in [Functions -> Seq(Names)]
    BY <1>1, <2>2, <2>3
  <2> QED
    BY <1>1, <1>4, <2>3, <2>4, <2>5
<1>14. ASSUME assign_offsets PROVE Good
  <2>1. /\ stack_size' = [f \in Functions |->
                            IF scope[f] = 0 THEN 0 ELSE max_depth(FirstOffset)[scope[f]] + 8]
        /\ parsed' = TRUE
        /\ UNCHANGED <<temp_variable_count, domain, fdt, parameters, resolved, calls>>
    BY <1>14 DEF assign_offsets
  <2>2. ASSUME NEW f \in Functions, scope[f] # 0
        PROVE  max_depth(FirstOffset)[scope[f]] \in Int
    <3>1. scope[f] \in 1 .. Len(tables) /\ Rooted(tables)
      BY <1>2, <2>2, TreeFacts DEF BodiesPlaced
    <3> QED
      BY <3>1, DepthTyped
  <2>3. stack_size' \in [Functions -> Int]
    BY <2>1, <2>2
  <2> QED
    BY <1>1, <1>4, <2>1, <2>3
<1> HIDE DEF Good
<1>15. Good
  BY <1>7, <1>8, <1>9, <1>10, <1>11, <1>12, <1>13, <1>14 DEF Step
<1> QED
  BY <1>15 DEF Good

LEMMA ScopedStep == ASSUME Scoped, [Next]_vars PROVE Scoped'
<1>1. Tree' /\ DOMAIN tables' = 1 .. Len(tables') /\ UNCHANGED workload
  BY TreeStep
<1>2. Opened' /\ BodiesPlaced'
  BY OpenedStep, BodiesStep
<1>3. ASSUME Step PROVE OthersTyped'
  <2>1. /\ current_table' \in DOMAIN tables' /\ declaring' \in BOOLEAN
        /\ scope' \in [Functions' -> 0 .. Len(tables')]
    BY <1>1, <1>3, PlacesStep, SameProgram
  <2>2. /\ temp_variable_count' \in Nat /\ parsed' \in BOOLEAN
        /\ domain' \in [Functions' -> 0 .. MaxParameters']
        /\ fdt' \in [Functions' -> {"FUNC_NORMAL", "FUNC_AS"}]
        /\ stack_size' \in [Functions' -> Int]
        /\ parameters' \in [Functions' -> Seq(Names')]
    BY <1>1, <1>3, SourceStep, SameProgram
  <2>3. /\ resolved' \subseteq [table : DOMAIN tables', name : Names', entry : Nat \X Nat]
        /\ calls' \subseteq [function : Functions', words : 0 .. MaxParameters']
    BY <1>1, <1>3, SourceStep, SameProgram DEF Uses, CallSet
  <2>4. workload' \in Workloads
    BY <1>1 DEF Scoped, OthersTyped
  <2> QED
    BY <2>1, <2>2, <2>3, <2>4 DEF OthersTyped
<1>4. ASSUME UNCHANGED vars PROVE OthersTyped'
  BY <1>4 DEF Scoped, OthersTyped, vars, functionVars, Functions, Names, MaxParameters
<1> QED
  BY <1>1, <1>2, <1>3, <1>4 DEF Scoped, Next

LEMMA ScopedInit == ASSUME Init PROVE Scoped
<1>1. /\ tables = <<Table(0)>> /\ current_table = 1 /\ workload \in Workloads
      /\ declaring = FALSE
  BY DEF Init, global_table
<1>2. /\ MaxTables \in Nat /\ MaxEntries \in Nat /\ MaxParameters \in Nat /\ 1 <= MaxTables
  BY <1>1, WorkloadsAssumption DEF WorkloadType, MaxTables, MaxEntries, MaxParameters
<1>3. Table(0) \in TableSet(AllNames, 0 .. MaxTables)
  <2>1. <<>> \in Seq(EntrySet(AllNames)) /\ 0 \in 0 .. MaxTables
    BY <1>2
  <2> QED
    BY <2>1 DEF Table, TableSet
<1>4. Len(Table(0).entries) = 0 /\ Table(0).parent = 0 /\ Distinct(Table(0))
  BY DEF Table, Distinct
<1>5. /\ tables \in Seq(TableSet(AllNames, 0 .. MaxTables)) /\ Len(tables) = 1
      /\ tables[1] = Table(0) /\ DOMAIN tables = 1 .. 1
  <2> DEFINE t == Table(0)
  <2>1. t \in TableSet(AllNames, 0 .. MaxTables)
    BY <1>3
  <2> HIDE DEF t
  <2>2. <<t>> \in Seq(TableSet(AllNames, 0 .. MaxTables)) /\ Len(<<t>>) = 1 /\ <<t>>[1] = t
    BY <2>1
  <2> QED
    BY <1>1, <2>2 DEF t
<1>6. Tree
  BY <1>2, <1>4, <1>5 DEF Tree, WellFormed
<1>7. Opened
  BY <1>1 DEF Opened, InRecord
<1>8. BodiesPlaced
  BY DEF Init, BodiesPlaced
<1>9. OthersTyped
  <2>1. domain \in [Functions -> 0 .. MaxParameters]
    BY <1>2 DEF Init
  <2>2. fdt \in [Functions -> {"FUNC_NORMAL", "FUNC_AS"}]
    BY DEF Init
  <2>3. /\ scope \in [Functions -> 0 .. Len(tables)] /\ stack_size \in [Functions -> Int]
    BY <1>5 DEF Init
  <2>4. parameters \in [Functions -> Seq(Names)]
    <3>1. <<>> \in Seq(Names)
      OBVIOUS
    <3> QED
      BY <3>1 DEF Init
  <2>5. current_table \in DOMAIN tables
    BY <1>1, <1>5
  <2>6. /\ temp_variable_count = 0 /\ parsed = FALSE /\ resolved = {} /\ calls = {}
    BY DEF Init
  <2> QED
    BY <1>1, <2>1, <2>2, <2>3, <2>4, <2>5, <2>6 DEF OthersTyped
<1> QED
  BY <1>6, <1>7, <1>8, <1>9 DEF Scoped

LEMMA ScopedAlways == Spec => []Scoped
<1>1. Init => Scoped
  BY ScopedInit
<1>2. Scoped /\ [Next]_vars => Scoped'
  BY ScopedStep
<1> QED
  BY <1>1, <1>2, PTL DEF Spec

\* For programs of every size the scopes form a tree whose root is the global
\* one, the open scope is one of them, so that no } closes the global scope,
\* and every name that is looked up, every scope of a function, every size of a
\* frame is a value of its type: add_table, insert_variable, lookup_symbol and
\* assign_offsets of symboltable.c never leave it.
THEOREM TypeCorrect == Spec => []TypeOK
<1>1. Scoped => TypeOK
  BY ScopedTyped
<1> QED
  BY <1>1, ScopedAlways, PTL

-----------------------------------------------------------------------------
(* Records                                                                 *)

\* The entries of a class are in a table that no step changes any more, but for
\* the offsets of its slots.
Closed(t) == t \in 2 .. Len(tables) /\ t # current_table /\ Children(t) = {}

\* The fields of a record have the offsets they got when it was closed.
RecordsClosed ==
    \A t \in 1 .. Len(tables) : \A i \in 1 .. Len(tables[t].entries) :
      tables[t].entries[i].class = "RECORD_MEMBER" =>
        Closed(t) /\ tables[t].entries[i].offset = 8 * (Len(tables[t].entries) - i)

\* A closed table stays closed and stays as it is, but for the offsets.
LEMMA ClosedStep ==
    ASSUME Scoped, [Next]_vars, NEW t \in 1 .. Len(tables), Closed(t)
    PROVE  /\ Closed(t)'
           /\ Len(tables'[t].entries) = Len(tables[t].entries)
           /\ \A i \in 1 .. Len(tables[t].entries) :
                LET e == tables'[t].entries[i]
                    old == tables[t].entries[i]
                IN  /\ e.name = old.name /\ e.class = old.class
                    /\ old.class = "RECORD_MEMBER" => e.offset = old.offset
<1> USE DEF Scoped
<1> DEFINE Same == /\ Len(tables'[t].entries) = Len(tables[t].entries)
                   /\ \A i \in 1 .. Len(tables[t].entries) :
                        LET e == tables'[t].entries[i]
                            old == tables[t].entries[i]
                        IN  /\ e.name = old.name /\ e.class = old.class
                            /\ old.class = "RECORD_MEMBER" => e.offset = old.offset
           Goal == Closed(t)' /\ Same
<1>1. /\ t # 1 /\ t # current_table /\ \A s \in 1 .. Len(tables) : tables[s].parent # t
      /\ Len(tables) \in Nat /\ current_table \in 1 .. Len(tables)
      /\ DOMAIN tables = 1 .. Len(tables)
  BY TreeFacts DEF Closed, Children
<1>2. /\ Len(tables) <= Len(tables') /\ Len(tables') \in Nat
      /\ DOMAIN tables' = 1 .. Len(tables')
      /\ \A s \in 1 .. Len(tables) : tables'[s].parent = tables[s].parent
  BY TreeStep DEF Follows
<1>3. ASSUME tables'[t] = tables[t] PROVE Same
  BY <1>3
<1> HIDE DEF Same
<1>4. ASSUME Len(tables') = Len(tables), current_table' # t PROVE Closed(t)'
  BY <1>1, <1>2, <1>4 DEF Closed, Children
<1>5. ASSUME UNCHANGED vars PROVE Goal
  <2>1. UNCHANGED <<tables, current_table>>
    BY <1>5 DEF vars
  <2> QED
    BY <1>1, <1>3, <1>4, <2>1
<1>6. ASSUME NEW n, NEW class, Inserts(n, class) PROVE Goal
  <2>1. tables'[t] = tables[t] /\ Len(tables') = Len(tables)
    BY <1>1, <1>6, InsertStep
  <2> QED
    BY <1>1, <1>3, <1>4, <1>6, <2>1 DEF Inserts
<1>7. ASSUME NEW new, Opens(new) PROVE Goal
  <2>1. /\ tables'[t] = tables[t] /\ Len(tables') = Len(tables) + 1
        /\ tables'[Len(tables) + 1] = new /\ new.parent = current_table
        /\ current_table' = Len(tables) + 1
    BY <1>7, OpenStep DEF Opens
  <2>2. \A s \in 1 .. Len(tables') : tables'[s].parent # t
    <3>1. \A s \in 1 .. Len(tables') : s \in 1 .. Len(tables) \/ s = Len(tables) + 1
      BY <1>1, <2>1
    <3> QED
      BY <1>1, <1>2, <2>1, <3>1
  <2>3. t \in 2 .. Len(tables') /\ t # current_table'
    BY <1>1, <2>1
  <2>4. Closed(t)'
    BY <1>2, <2>2, <2>3 DEF Closed, Children
  <2> QED
    BY <1>3, <2>1, <2>4
<1>8. ASSUME Stays PROVE Goal
  <2>1. tables' = tables /\ current_table' \in {current_table, tables[current_table].parent}
    BY <1>8 DEF Stays
  <2> QED
    BY <1>1, <1>3, <1>4, <2>1
<1>9. ASSUME UNCHANGED workload, NEW n \in Names, EndRecord(n) PROVE Goal
  <2>1. tables'[t] = tables[t] /\ Len(tables') = Len(tables)
    BY <1>1, <1>9, RecordStep
  <2>2. current_table' # t
    BY <1>1, <1>9 DEF EndRecord, global_table
  <2> QED
    BY <1>3, <1>4, <2>1, <2>2
<1>10. ASSUME assign_offsets PROVE Goal
  <2>1. Len(tables') = Len(tables)
    BY <1>10, OffsetsStep
  <2>2. current_table' # t
    BY <1>1, <1>10 DEF assign_offsets
  <2>3. /\ Len(tables'[t].entries) = Len(tables[t].entries)
        /\ \A i \in 1 .. Len(tables[t].entries) :
             LET e == tables'[t].entries[i]
                 old == tables[t].entries[i]
             IN  /\ e.name = old.name /\ e.class = old.class
                 /\ old.class \notin Slotted \union {"PARAMETER"} => e.offset = old.offset
    BY <1>10, Placed
  <2>4. "RECORD_MEMBER" \notin Slotted \union {"PARAMETER"}
    BY DEF Slotted
  <2> QED
    BY <1>4, <2>1, <2>2, <2>3, <2>4 DEF Same
<1> HIDE DEF Goal
<1>11. Goal
  BY <1>5, <1>6, <1>7, <1>8, <1>9, <1>10, StepKinds, TreeStep DEF Next
<1> QED
  BY <1>11 DEF Goal, Same

\* Only the end of a record makes fields, and only a new body in the global
\* scope has parameters.
LEMMA ClassesStep ==
    ASSUME Scoped, [Next]_vars, NEW t \in 1 .. Len(tables'),
           NEW i \in 1 .. Len(tables'[t].entries), NEW k \in {"RECORD_MEMBER", "PARAMETER"},
           tables'[t].entries[i].class = k
    PROVE  \/ /\ t \in 1 .. Len(tables)
              /\ \E j \in 1 .. Len(tables[t].entries) :
                   tables[t].entries[j].class = k
           \/ /\ k = "RECORD_MEMBER" /\ t = current_table /\ \E n \in Names : EndRecord(n)
              /\ tables'[t].entries = FieldsOf(tables[t].entries)
           \/ k = "PARAMETER" /\ t = Len(tables) + 1 /\ tables'[t].parent = global_table
<1> USE DEF Scoped
<1> DEFINE Had == /\ t \in 1 .. Len(tables)
                  /\ \E j \in 1 .. Len(tables[t].entries) :
                       tables[t].entries[j].class = k
           Got == /\ k = "RECORD_MEMBER" /\ t = current_table /\ \E n \in Names : EndRecord(n)
                  /\ tables'[t].entries = FieldsOf(tables[t].entries)
           New == k = "PARAMETER" /\ t = Len(tables) + 1 /\ tables'[t].parent = global_table
<1>1. \A s \in 1 .. Len(tables) : Len(tables[s].entries) \in Nat
  BY TreeFacts
<1>2. ASSUME t \in 1 .. Len(tables), tables'[t] = tables[t] PROVE Had
  BY <1>2
<1>3. ASSUME t \in 1 .. Len(tables), NEW n, NEW class, class # k,
             Inserted(tables[t], tables'[t], n, class)
      PROVE  Had
  <2>1. CASE tables'[t] = tables[t]
    BY <1>2, <1>3, <2>1
  <2>2. CASE tables'[t] # tables[t]
    <3>1. /\ Len(tables'[t].entries) = Len(tables[t].entries) + 1
          /\ tables'[t].entries[1] = Entry(n, class)
          /\ \A j \in 1 .. Len(tables[t].entries) :
               tables'[t].entries[j + 1] = tables[t].entries[j]
      BY <1>3, <2>2 DEF Inserted
    <3>2. i # 1
      BY <1>3, <3>1 DEF Entry
    <3>3. i - 1 \in 1 .. Len(tables[t].entries) /\ (i - 1) + 1 = i
      BY <1>1, <1>3, <3>1, <3>2
    <3>4. tables[t].entries[i - 1].class = k
      BY <3>1, <3>3
    <3> QED
      BY <1>3, <3>3, <3>4
  <2> QED
    BY <2>1, <2>2
<1> HIDE DEF Had
<1>4. ASSUME UNCHANGED tables PROVE Had
  BY <1>2, <1>4
<1>5. ASSUME NEW n, NEW class, Inserts(n, class) PROVE Had
  <2>1. class # k
    BY <1>5 DEF Inserts
  <2>2. /\ Len(tables') = Len(tables)
        /\ \A s \in 1 .. Len(tables) : s # current_table => tables'[s] = tables[s]
        /\ Inserted(tables[current_table], tables'[current_table], n, class)
    BY <1>5, InsertStep
  <2> QED
    BY <1>2, <1>3, <2>1, <2>2
<1>6. ASSUME NEW new, Opens(new) PROVE Had \/ New
  <2>1. /\ Len(tables') = Len(tables) + 1 /\ tables'[Len(tables) + 1] = new
        /\ \A s \in 1 .. Len(tables) : tables'[s] = tables[s]
        /\ new.parent = current_table
        /\ \A j \in 1 .. Len(new.entries) : new.entries[j].class = "PARAMETER"
        /\ current_table = global_table \/ Len(new.entries) = 0
    BY <1>6, OpenStep DEF Opens
  <2>2. CASE t = Len(tables) + 1
    <3>1. i \in 1 .. Len(new.entries) /\ new.entries[i].class = k
      BY <2>1, <2>2
    <3>2. current_table = global_table
      BY <2>1, <3>1
    <3> QED
      BY <2>1, <2>2, <3>1, <3>2
  <2>3. CASE t # Len(tables) + 1
    <3>1. t \in 1 .. Len(tables)
      BY <2>1, <2>3, TreeFacts
    <3> QED
      BY <1>2, <2>1, <3>1
  <2> QED
    BY <2>2, <2>3
<1>7. ASSUME UNCHANGED workload, NEW n \in Names, EndRecord(n) PROVE Had \/ Got \/ New
  <2>1. /\ current_table \in 2 .. Len(tables) /\ Len(tables') = Len(tables)
        /\ tables'[current_table].entries = FieldsOf(tables[current_table].entries)
        /\ Inserted(tables[1], tables'[1], n, "TYPE_ENTRY")
        /\ \A s \in 2 .. Len(tables) : s # current_table => tables'[s] = tables[s]
    BY <1>7, RecordStep
  <2>2. t = 1 \/ t = current_table \/ (t \in 2 .. Len(tables) /\ t # current_table)
    <3>1. Len(tables) \in Nat /\ t \in 1 .. Len(tables)
      BY <2>1, TreeFacts
    <3>2. t = 1 \/ t \in 2 .. Len(tables)
      BY <3>1
    <3> QED
      BY <3>2
  <2>3. ASSUME t = 1 PROVE Had
    <3>1. /\ Inserted(tables[t], tables'[t], n, "TYPE_ENTRY") /\ t \in 1 .. Len(tables)
          /\ "TYPE_ENTRY" # k
      BY <2>1, <2>3
    <3> QED
      BY <1>3, <3>1
  <2>4. ASSUME t = current_table PROVE Got
    <3>1. tables[t].entries \in Seq(EntrySet(AllNames))
      BY <2>1, <2>4, TreeFacts
    <3>2. /\ Len(FieldsOf(tables[t].entries)) = Len(tables[t].entries)
          /\ \A j \in 1 .. Len(tables[t].entries) :
               FieldsOf(tables[t].entries)[j].class = "RECORD_MEMBER"
      BY <3>1, FieldsTyped
    <3>3. k = "RECORD_MEMBER"
      BY <2>1, <2>4, <3>2
    <3> QED
      BY <1>7, <2>1, <2>4, <3>3
  <2> QED
    BY <1>2, <2>1, <2>2, <2>3, <2>4
<1>8. ASSUME assign_offsets PROVE Had
  <2>1. t \in 1 .. Len(tables)
    BY <1>8, OffsetsStep
  <2>2. /\ Len(tables'[t].entries) = Len(tables[t].entries)
        /\ \A j \in 1 .. Len(tables[t].entries) :
             tables'[t].entries[j].class = tables[t].entries[j].class
    BY <1>8, <2>1, Placed
  <2> QED
    BY <2>1, <2>2 DEF Had
<1>9. Stays => UNCHANGED tables
  BY DEF Stays
<1>10. UNCHANGED vars => UNCHANGED tables
  BY DEF vars
<1> HIDE DEF Got, New
<1>11. Had \/ Got \/ New
  BY <1>4, <1>5, <1>6, <1>7, <1>8, <1>9, <1>10, StepKinds, TreeStep DEF Next
<1> QED
  BY <1>11 DEF Had, Got, New

LEMMA RecordsStep ==
    ASSUME Scoped, RecordsClosed, [Next]_vars
    PROVE  RecordsClosed'
<1> SUFFICES ASSUME NEW t \in 1 .. Len(tables'), NEW i \in 1 .. Len(tables'[t].entries),
                    tables'[t].entries[i].class = "RECORD_MEMBER"
             PROVE  /\ Closed(t)'
                    /\ tables'[t].entries[i].offset = 8 * (Len(tables'[t].entries) - i)
  BY DEF RecordsClosed
<1>1. CASE /\ t \in 1 .. Len(tables)
           /\ \E j \in 1 .. Len(tables[t].entries) :
                tables[t].entries[j].class = "RECORD_MEMBER"
  <2>1. Closed(t)
    BY <1>1 DEF RecordsClosed
  <2>2. /\ Closed(t)'
        /\ Len(tables'[t].entries) = Len(tables[t].entries)
        /\ \A k \in 1 .. Len(tables[t].entries) :
             LET e == tables'[t].entries[k]
                 old == tables[t].entries[k]
             IN  /\ e.name = old.name /\ e.class = old.class
                 /\ old.class = "RECORD_MEMBER" => e.offset = old.offset
    BY <1>1, <2>1, ClosedStep
  <2> QED
    BY <1>1, <2>2 DEF RecordsClosed
<1>2. CASE /\ t = current_table /\ \E n \in Names : EndRecord(n)
           /\ tables'[t].entries = FieldsOf(tables[t].entries)
  <2>1. PICK n \in Names : EndRecord(n)
    BY <1>2
  <2>2. /\ t \in 2 .. Len(tables) /\ Len(tables') = Len(tables) /\ declaring
        /\ Follows(tables, tables')
    BY <1>2, <2>1, RecordStep, TreeStep DEF Scoped
  <2>3. Children(t) = {} /\ current_table' = 1
    BY <1>2, <2>1, <2>2 DEF Scoped, Opened, EndRecord, global_table
  <2>4. DOMAIN tables = 1 .. Len(tables) /\ DOMAIN tables' = 1 .. Len(tables)
    BY <2>2, TreeFacts, TreeStep DEF Scoped
  <2>5. Closed(t)'
    BY <2>2, <2>3, <2>4 DEF Closed, Children, Follows
  <2>6. tables[t].entries \in Seq(EntrySet(AllNames))
    BY <2>2, TreeFacts DEF Scoped
  <2>7. /\ Len(FieldsOf(tables[t].entries)) = Len(tables[t].entries)
        /\ \A k \in 1 .. Len(tables[t].entries) :
             FieldsOf(tables[t].entries)[k].offset = 8 * (Len(tables[t].entries) - k)
    BY <2>6, FieldsTyped
  <2> QED
    BY <1>2, <2>5, <2>7
<1> QED
  <2>1. \/ /\ t \in 1 .. Len(tables)
           /\ \E j \in 1 .. Len(tables[t].entries) :
                tables[t].entries[j].class = "RECORD_MEMBER"
        \/ /\ t = current_table /\ \E n \in Names : EndRecord(n)
           /\ tables'[t].entries = FieldsOf(tables[t].entries)
    BY ClassesStep
  <2> QED
    BY <1>1, <1>2, <2>1

\* The offsets the fields of a record got when it was closed are those that
\* field_byte_offset counts for an access, and lie within the record, in every
\* state: assign_offsets leaves them alone.
THEOREM FieldsAgreeAlways == Spec => []FieldsAgree
<1>1. Init => RecordsClosed
  BY ScopedInit DEF Init, Table, RecordsClosed
<1>2. Scoped /\ RecordsClosed /\ [Next]_vars => RecordsClosed'
  BY RecordsStep
<1>3. Scoped /\ RecordsClosed => FieldsAgree
  <2> SUFFICES ASSUME Scoped, RecordsClosed, NEW t \in DOMAIN tables,
                      NEW i \in DOMAIN tables[t].entries,
                      tables[t].entries[i].class = "RECORD_MEMBER"
               PROVE  /\ tables[t].entries[i].offset = field_byte_offset(t, i)
                      /\ tables[t].entries[i].offset < 8 * Len(tables[t].entries)
    BY DEF FieldsAgree
  <2> DEFINE l == Len(tables[t].entries)
             After == {k \in DOMAIN tables[t].entries : k > i}
  <2>1. t \in 1 .. Len(tables) /\ DOMAIN tables[t].entries = 1 .. l /\ l \in Nat /\ i \in 1 .. l
    BY TreeFacts DEF Scoped
  <2>2. tables[t].entries[i].offset = 8 * (l - i)
    BY <2>1 DEF RecordsClosed
  <2>3. After = i + 1 .. l
    BY <2>1
  <2> HIDE DEF l, After
  <2>4. Cardinality(i + 1 .. l) = IF i + 1 > l THEN 0 ELSE l - (i + 1) + 1
    BY <2>1, FS_Interval
  <2>5. Cardinality(After) = l - i
    BY <2>1, <2>3, <2>4
  <2>6. field_byte_offset(t, i) = 8 * (l - i)
    BY <2>5 DEF field_byte_offset, After
  <2> QED
    BY <2>1, <2>2, <2>6 DEF l
<1> QED
  BY <1>1, <1>2, <1>3, ScopedAlways, PTL DEF Spec

-----------------------------------------------------------------------------
(* Calls                                                                   *)

\* Where calls are looked at, a call follows the body of its function, which
\* has one body, and no parameter hides the function from its own body.
Orderly(w) == w.calls > 0 => w.constructs \cap {"forward_call", "redefinition", "own_name"} = {}

\* A name that a table has stays in it.
LEMMA DeclaresStep ==
    ASSUME Scoped, [Next]_vars, NEW t \in 1 .. Len(tables), NEW m, Declares(tables[t], m)
    PROVE  Declares(tables'[t], m)
<1> DEFINE old == tables[t]
           new == tables'[t]
<1>1. NamesKept(old, new) /\ t \in 1 .. Len(tables')
  BY TreeStep, TreeFacts DEF Scoped, Follows
<1>2. /\ Len(old.entries) \in Nat /\ DOMAIN old.entries = 1 .. Len(old.entries)
      /\ Declares(old, m)
  BY TreeFacts DEF Scoped
<1>3. /\ Len(new.entries) \in Nat /\ DOMAIN new.entries = 1 .. Len(new.entries)
      /\ Distinct(new)
  BY <1>1, TreeFactsNext
<1> HIDE DEF old, new
<1>4. Declares(new, m) /\ Place(new, m) = Place(old, m)
  BY <1>1, <1>2, <1>3, FindKept
<1> QED
  BY <1>4 DEF new

\* A function with a body has as many parameters as a call pushes words, and
\* was called with as many; one without a body is not known to unpack its record.
CallsKnown ==
    IF workload.calls = 0 THEN calls = {}
    ELSE /\ \A f \in Functions :
              IF scope[f] = 0 THEN fdt[f] = "FUNC_NORMAL"
              ELSE Len(parameters[f]) = ArgumentWords(f) /\ Declares(tables[global_table], f)
         /\ \A c \in calls : scope[c.function] # 0 /\ c.words = ArgumentWords(c.function)

LEMMA CallsStep ==
    ASSUME Scoped, CallsKnown, [Next]_vars, Orderly(workload)
    PROVE  CallsKnown'
<1> USE DEF Scoped
<1>1. /\ domain \in [Functions -> 0 .. MaxParameters]
      /\ fdt \in [Functions -> {"FUNC_NORMAL", "FUNC_AS"}]
      /\ scope \in [Functions -> 0 .. Len(tables)]
      /\ parameters \in [Functions -> Seq(Names)] /\ calls \subseteq CallSet
      /\ workload.calls \in Nat
  BY WorkloadsAssumption DEF OthersTyped, CallSet, WorkloadType
<1>2. /\ Functions' = Functions /\ workload' = workload
  BY TreeStep, SameProgram
<1>3. 1 \in 1 .. Len(tables) /\ Len(tables) \in Nat
  BY TreeFacts
<1>4. \A f : Declares(tables[global_table], f) => Declares(tables'[global_table], f)
  BY <1>3, DeclaresStep DEF global_table
<1>5. CASE workload.calls = 0
  <2>1. calls = {} /\ Cardinality({}) = 0
    BY <1>5, FS_EmptySet DEF CallsKnown
  <2>2. calls' = {}
    <3>1. ASSUME NEW f, Call(f) PROVE FALSE
      BY <1>5, <2>1, <3>1 DEF Call
    <3>2. ASSUME NEW n, DefineType(n) \/ EndRecord(n) \/ Declaration(n) \/ Use(n)
          PROVE  UNCHANGED calls
      BY <3>2 DEF DefineType, EndRecord, Declaration, Use
    <3>3. ASSUME NEW f, NEW k, Prototype(f, k) PROVE UNCHANGED calls
      BY <3>3 DEF Prototype
    <3>4. ASSUME NEW f, NEW ps, NEW as_packed, BeginFunction(f, ps, as_packed)
          PROVE  UNCHANGED calls
      BY <3>4 DEF BeginFunction
    <3>5. ASSUME NEW class, create_new_temp(class) PROVE UNCHANGED calls
      BY <3>5 DEF create_new_temp
    <3>6. ASSUME BeginRecord \/ BeginBlock \/ EndBlock \/ assign_offsets PROVE UNCHANGED calls
      BY <3>6 DEF BeginRecord, BeginBlock, EndBlock, assign_offsets
    <3>7. ASSUME UNCHANGED vars PROVE UNCHANGED calls
      BY <3>7 DEF vars
    <3> QED
      BY <2>1, <3>1, <3>2, <3>3, <3>4, <3>5, <3>6, <3>7 DEF Next, Step
  <2> QED
    BY <1>2, <1>5, <2>2 DEF CallsKnown
<1>6. CASE workload.calls # 0
  <2> DEFINE Known(f) ==
               IF scope[f] = 0 THEN fdt[f] = "FUNC_NORMAL"
               ELSE Len(parameters[f]) = ArgumentWords(f) /\ Declares(tables[global_table], f)
             Made(c) == scope[c.function] # 0 /\ c.words = ArgumentWords(c.function)
  <2>1. /\ \A f \in Functions : Known(f)
        /\ \A c \in calls : Made(c)
    BY <1>6 DEF CallsKnown
  <2>2. Constructs \cap {"forward_call", "redefinition", "own_name"} = {}
    BY <1>1, <1>6 DEF Orderly, Constructs
  <2>3. \A c \in calls : c.function \in Functions
    BY <1>1 DEF CallSet
  <2> SUFFICES (\A f \in Functions : Known(f)') /\ (\A c \in calls' : Made(c)')
    BY <1>2, <1>6 DEF CallsKnown
  \* A function that keeps what is known of it.
  <2>4. ASSUME NEW f \in Functions, scope'[f] = scope[f], fdt'[f] = fdt[f],
               scope[f] # 0 => domain'[f] = domain[f], parameters'[f] = parameters[f]
        PROVE  Known(f)' /\ (scope[f] # 0 => ArgumentWords(f)' = ArgumentWords(f))
    BY <1>4, <2>1, <2>4 DEF ArgumentWords, global_table
  <2>5. ASSUME UNCHANGED functionVars, UNCHANGED calls
        PROVE  (\A f \in Functions : Known(f)') /\ (\A c \in calls' : Made(c)')
    <3>1. \A f \in Functions : Known(f)' /\ (scope[f] # 0 => ArgumentWords(f)' = ArgumentWords(f))
      BY <2>4, <2>5 DEF functionVars
    <3>2. scope' = scope /\ calls' = calls
      BY <2>5 DEF functionVars
    <3> QED
      BY <2>1, <2>3, <3>1, <3>2
  <2>6. ASSUME NEW n, DefineType(n) \/ EndRecord(n) \/ Declaration(n) \/ Use(n)
        PROVE  UNCHANGED <<functionVars, calls>>
    BY <2>6 DEF DefineType, EndRecord, Declaration, Use
  <2>7. ASSUME NEW class, create_new_temp(class) PROVE UNCHANGED <<functionVars, calls>>
    BY <2>7 DEF create_new_temp
  <2>8. ASSUME BeginRecord \/ BeginBlock \/ EndBlock PROVE UNCHANGED <<functionVars, calls>>
    BY <2>8 DEF BeginRecord, BeginBlock, EndBlock
  <2>9. ASSUME UNCHANGED vars PROVE UNCHANGED <<functionVars, calls>>
    BY <2>9 DEF vars
  <2>10. ASSUME assign_offsets
         PROVE  (\A f \in Functions : Known(f)') /\ (\A c \in calls' : Made(c)')
    <3>1. UNCHANGED <<domain, fdt, scope, parameters, calls>>
      BY <2>10 DEF assign_offsets
    <3>2. \A f \in Functions : Known(f)' /\ (scope[f] # 0 => ArgumentWords(f)' = ArgumentWords(f))
      BY <2>4, <3>1
    <3> QED
      BY <2>1, <2>3, <3>1, <3>2
  <2>11. ASSUME NEW g \in Functions, NEW k, Prototype(g, k)
         PROVE  (\A f \in Functions : Known(f)') /\ (\A c \in calls' : Made(c)')
    <3>1. UNCHANGED <<fdt, scope, parameters, calls>>
      BY <2>11 DEF Prototype
    <3>2. scope[g] # 0 => domain' = domain
      <4>1. scope[g] # 0 => Declares(tables[global_table], g)
        BY <2>1
      <4> QED
        BY <2>11, <4>1 DEF Prototype, insert
    <3>3. domain' = domain \/ domain' = [domain EXCEPT ![g] = k]
      BY <2>11 DEF Prototype
    <3>4. \A f \in Functions : scope[f] # 0 => domain'[f] = domain[f]
      BY <1>1, <3>2, <3>3
    <3>5. \A f \in Functions : Known(f)' /\ (scope[f] # 0 => ArgumentWords(f)' = ArgumentWords(f))
      BY <2>4, <3>1, <3>4
    <3> QED
      BY <2>1, <2>3, <3>1, <3>5
  <2>12. ASSUME NEW g \in Functions, Call(g)
         PROVE  (\A f \in Functions : Known(f)') /\ (\A c \in calls' : Made(c)')
    <3>1. /\ UNCHANGED functionVars /\ scope[g] # 0
          /\ calls' = calls \union {[function |-> g, words |-> ArgumentWords(g)]}
      BY <2>2, <2>12 DEF Call
    <3>2. \A f \in Functions : Known(f)' /\ (scope[f] # 0 => ArgumentWords(f)' = ArgumentWords(f))
      BY <2>4, <3>1 DEF functionVars
    <3>3. scope' = scope
      BY <3>1 DEF functionVars
    <3> QED
      BY <2>1, <2>3, <3>1, <3>2, <3>3
  <2>13. ASSUME NEW g \in Functions, NEW ps \in SeqOf(Names, MaxParameters) \ {<<>>},
                NEW as_packed \in BOOLEAN, BeginFunction(g, ps, as_packed)
         PROVE  (\A f \in Functions : Known(f)') /\ (\A c \in calls' : Made(c)')
    <3>1. /\ IsFunction(g) /\ scope[g] = 0 /\ ~Declares(Body(ps), g)
          /\ Len(ps) = IF as_packed THEN domain[g] ELSE 1
          /\ scope' = [scope EXCEPT ![g] = Len(tables) + 1]
          /\ fdt' = IF as_packed THEN [fdt EXCEPT ![g] = "FUNC_AS"] ELSE fdt
          /\ parameters' = [parameters EXCEPT ![g] = ps]
          /\ UNCHANGED <<domain, calls>>
      BY <2>2, <2>13 DEF BeginFunction
    <3>2. ASSUME NEW f \in Functions, f # g
          PROVE  Known(f)' /\ (scope[f] # 0 => ArgumentWords(f)' = ArgumentWords(f))
      BY <1>1, <2>4, <3>1, <3>2
    <3>3. Len(ps) \in Nat /\ Len(ps) # 0
      <4>1. PICK m \in 0 .. MaxParameters : ps \in [1 .. m -> Names]
        BY DEF SeqOf
      <4>2. MaxParameters \in Nat
        BY Bounds
      <4>3. ps \in Seq(Names) /\ ps # <<>>
        BY <4>1, <4>2
      <4> QED
        BY <4>3
    <3>4. scope'[g] = Len(tables) + 1 /\ parameters'[g] = ps /\ Len(tables) + 1 # 0
      BY <1>1, <1>3, <3>1
    <3>5. Declares(tables'[global_table], g)
      <4>1. Declares(tables[global_table], g)
        BY <3>1 DEF IsFunction, Declares, Entry
      <4> QED
        BY <1>4, <4>1
    <3>6. ArgumentWords(g)' = Len(ps)
      <4>1. CASE as_packed
        BY <1>1, <3>1, <3>3, <4>1 DEF ArgumentWords
      <4>2. CASE ~as_packed
        <5>1. fdt[g] = "FUNC_NORMAL"
          BY <2>1, <3>1
        <5> QED
          BY <3>1, <4>2, <5>1 DEF ArgumentWords
      <4> QED
        BY <4>1, <4>2
    <3>7. Known(g)'
      BY <3>4, <3>5, <3>6
    <3>8. \A f \in Functions : f # g => scope'[f] = scope[f]
      BY <1>1, <3>1
    <3>9. \A c \in calls' : c \in calls /\ c.function \in Functions /\ c.function # g
      BY <2>1, <2>3, <3>1
    <3> HIDE DEF Known
    <3>10. \A f \in Functions : Known(f)'
      BY <3>2, <3>7
    <3>11. \A c \in calls' : Made(c)'
      BY <2>1, <3>2, <3>8, <3>9
    <3> QED
      BY <3>10, <3>11
  <2> QED
    BY <2>5, <2>6, <2>7, <2>8, <2>9, <2>10, <2>11, <2>12, <2>13 DEF Next, Step
<1> QED
  BY <1>5, <1>6

\* Where a call follows the one body of its function and no parameter has the
\* function's name, every call pushes as many words as the function has
\* parameters: the fdt that generate_call finds is that of the body.
THEOREM CallsMatchAlways ==
    ASSUME \A w \in Workloads : Orderly(w)
    PROVE  Spec => []CallsMatch
<1>1. Init => CallsKnown
  BY DEF Init, CallsKnown
<1>2. Scoped /\ CallsKnown /\ [Next]_vars => CallsKnown'
  BY CallsStep DEF Scoped, OthersTyped
<1>3. Scoped /\ CallsKnown => CallsMatch
  <2>1. Scoped => calls \subseteq CallSet
    BY DEF Scoped, OthersTyped, CallSet
  <2> QED
    BY <2>1 DEF CallsKnown, CallsMatch, CallSet
<1> QED
  BY <1>1, <1>2, <1>3, ScopedAlways, PTL DEF Spec

-----------------------------------------------------------------------------
(* The meaning of names                                                    *)

\* An identifier is new only to the global scope, or to the open one while it
\* may declare.
LEMMA NamesStep ==
    ASSUME Scoped, [Next]_vars, NEW t \in 2 .. Len(tables), NEW m \in Names,
           Declares(tables'[t], m), ~Declares(tables[t], m)
    PROVE  declaring /\ t = current_table
<1> USE DEF Scoped
<1>1. ASSUME tables'[t] = tables[t] PROVE FALSE
  BY <1>1
<1>2. ASSUME NEW s \in 1 .. Len(tables), s = t,
             Len(tables'[t].entries) = Len(tables[t].entries),
             \A i \in 1 .. Len(tables[t].entries) :
               tables'[t].entries[i].name = tables[t].entries[i].name
      PROVE  FALSE
  <2>1. /\ DOMAIN tables[t].entries = 1 .. Len(tables[t].entries)
        /\ DOMAIN tables'[t].entries = 1 .. Len(tables[t].entries)
    BY <1>2, TreeFacts, TreeFactsNext
  <2> QED
    BY <1>2, <2>1 DEF Declares
<1>3. t \in 1 .. Len(tables) /\ Len(tables) \in Nat
  BY TreeFacts
<1>4. ASSUME NEW n, NEW class, Inserts(n, class) PROVE declaring /\ t = current_table
  <2>1. /\ \A s \in 1 .. Len(tables) : s # current_table => tables'[s] = tables[s]
        /\ Inserted(tables[current_table], tables'[current_table], n, class)
        /\ Len(tables') = Len(tables)
    BY <1>4, InsertStep
  <2>2. t = current_table
    BY <1>1, <1>3, <2>1
  <2>3. m = n
    <3> DEFINE N == AllNames
               P == 0 .. MaxTables
               old == tables[t]
               new == tables'[t]
    <3>1. old \in TableSet(N, P) /\ Distinct(old)
      BY <1>3, TreeFacts
    <3>2. new \in TableSet(N, P)
      BY <1>3, <1>4, <2>1, InsertStep DEF WellFormed
    <3>3. Inserted(old, new, n, class)
      BY <2>1, <2>2
    <3>4. Declares(new, m) /\ ~Declares(old, m)
      OBVIOUS
    <3> HIDE DEF N, P, old, new
    <3>5. /\ Distinct(new)
          /\ \A k : Declares(new, k) <=> k = n \/ Declares(old, k)
      BY <3>1, <3>2, <3>3, InsertNames
    <3> QED
      BY <3>4, <3>5
  <2>4. n \notin Nat
    BY <2>3, Bounds
  <2> QED
    BY <1>3, <1>4, <2>2, <2>4 DEF Inserts, global_table
<1>5. ASSUME NEW new, Opens(new) PROVE FALSE
  BY <1>1, <1>3, <1>5, OpenStep
<1>6. ASSUME NEW n \in Names, UNCHANGED workload, EndRecord(n) PROVE FALSE
  <2>1. /\ tables'[current_table].entries = FieldsOf(tables[current_table].entries)
        /\ \A s \in 2 .. Len(tables) : s # current_table => tables'[s] = tables[s]
    BY <1>6, RecordStep
  <2>2. t = current_table
    BY <1>1, <2>1
  <2>3. tables[t].entries \in Seq(EntrySet(AllNames))
    BY <1>3, TreeFacts
  <2>4. /\ Len(FieldsOf(tables[t].entries)) = Len(tables[t].entries)
        /\ \A i \in 1 .. Len(tables[t].entries) :
             FieldsOf(tables[t].entries)[i].name = tables[t].entries[i].name
    BY <2>3, FieldsTyped
  <2> QED
    BY <1>2, <1>3, <2>1, <2>2, <2>4
<1>7. ASSUME assign_offsets PROVE FALSE
  <2>1. /\ Len(tables'[t].entries) = Len(tables[t].entries)
        /\ \A i \in 1 .. Len(tables[t].entries) :
             tables'[t].entries[i].name = tables[t].entries[i].name
    BY <1>3, <1>7, Placed
  <2> QED
    BY <1>2, <1>3, <2>1
<1>8. ASSUME Stays \/ UNCHANGED vars PROVE FALSE
  BY <1>1, <1>8 DEF Stays, vars
<1> QED
  BY <1>4, <1>5, <1>6, <1>7, <1>8, StepKinds, TreeStep DEF Next

\* So an identifier that was found stands for the same entry after a step,
\* unless its scope may still declare.
LEMMA LookupStep ==
    ASSUME Scoped, [Next]_vars, NEW t \in 1 .. Len(tables), NEW n \in Names,
           ~ (declaring /\ t = current_table), lookup_symbol(t, n) # NOT_FOUND
    PROVE  lookup_symbol(t, n)' = lookup_symbol(t, n)
<1> DEFINE T == tables
           U == tables'
           c == IF declaring THEN current_table ELSE 0
<1>1. /\ Rooted(T) /\ Rooted(U) /\ Len(T) <= Len(U) /\ Len(T) \in Nat /\ Len(U) \in Nat
      /\ DOMAIN T = 1 .. Len(T)
  BY TreeFacts, TreeFactsNext DEF Scoped
<1>2. \A s \in 1 .. Len(T) : U[s].parent = T[s].parent /\ NamesKept(T[s], U[s])
  BY TreeStep DEF Follows
<1>3. ASSUME NEW s \in 2 .. Len(T) PROVE T[s].parent \in 1 .. s - 1 /\ T[s].parent # c
  <2>1. T[s].parent \in 1 .. s - 1 /\ s \in DOMAIN tables
    BY <1>1, TreeFacts DEF Scoped
  <2>2. declaring => T[s].parent # current_table
    BY <2>1 DEF Scoped, Opened, Children
  <2> QED
    BY <2>1, <2>2
<1>4. \A s \in 2 .. Len(T) : s # c /\ Declares(U[s], n) => Declares(T[s], n)
  BY NamesStep
<1>5. ASSUME NEW s \in 1 .. Len(T), Declares(T[s], n)
      PROVE  Declares(U[s], n) /\ FindIn(U, s, n) = FindIn(T, s, n)
  <2> DEFINE old == T[s]
             new == U[s]
  <2>1. /\ Len(old.entries) \in Nat /\ DOMAIN old.entries = 1 .. Len(old.entries)
        /\ Declares(old, n)
    BY <1>5, TreeFacts DEF Scoped
  <2>2. s \in 1 .. Len(U)
    BY <1>1
  <2>3. /\ Len(new.entries) \in Nat /\ DOMAIN new.entries = 1 .. Len(new.entries)
        /\ Distinct(new)
    BY <2>2, TreeFactsNext
  <2>4. NamesKept(old, new)
    BY <1>2
  <2> HIDE DEF old, new
  <2>5. Declares(new, n) /\ Place(new, n) = Place(old, n)
    BY <2>1, <2>3, <2>4, FindKept
  <2>6. FindIn(U, s, n) = <<s, Place(U[s], n)>> /\ FindIn(T, s, n) = <<s, Place(T[s], n)>>
    BY DEF FindIn, Place
  <2> QED
    BY <2>5, <2>6 DEF old, new
<1>6. t # c
  BY <1>1
<1>7. Lookup(T, t, n) # NOT_FOUND /\ t \in 1 .. Len(T)
  BY LookupIsIn
<1>8. OnlyNewIn(T, U, n, c)
  BY <1>1, <1>2, <1>3, <1>4, <1>5 DEF OnlyNewIn
<1> HIDE DEF T, U, c
<1>9. \A s \in 1 .. Len(T) :
        s # c /\ Lookup(T, s, n) # NOT_FOUND => Lookup(U, s, n) = Lookup(T, s, n)
  BY <1>1, <1>8, LookupKept
<1>10. Lookup(U, t, n) = Lookup(T, t, n)
  BY <1>6, <1>7, <1>9
<1> QED
  BY <1>10, LookupIsIn DEF T, U

\* Uses come after the declarations of their scope.
UsesStand ==
    \A u \in resolved : /\ lookup_symbol(u.table, u.name) = u.entry
                        /\ u.entry # NOT_FOUND
                        /\ declaring => u.table # current_table

LEMMA UsesStep ==
    ASSUME Scoped, UsesStand, [Next]_vars
    PROVE  UsesStand'
<1> USE DEF Scoped
<1>1. \A u \in resolved : u.table \in 1 .. Len(tables) /\ u.name \in Names
  BY TreeFacts DEF OthersTyped
<1>2. ASSUME NEW u \in resolved PROVE lookup_symbol(u.table, u.name)' = u.entry
  <2> DEFINE t == u.table
             n == u.name
  <2>1. /\ t \in 1 .. Len(tables) /\ n \in Names /\ ~ (declaring /\ t = current_table)
        /\ lookup_symbol(t, n) # NOT_FOUND /\ lookup_symbol(t, n) = u.entry
    BY <1>1 DEF UsesStand
  <2> HIDE DEF t, n
  <2>2. lookup_symbol(t, n)' = lookup_symbol(t, n)
    BY <2>1, LookupStep
  <2> QED
    BY <2>1, <2>2 DEF t, n
<1>3. ASSUME NEW u \in resolved, declaring' PROVE u.table # current_table'
  <2>1. ASSUME NEW n, NEW class, Inserts(n, class) PROVE u.table # current_table'
    <3>1. declaring
      BY <1>3, <2>1, Zenon DEF Inserts
    <3> QED
      BY <2>1, <3>1 DEF Inserts, UsesStand
  <2>2. ASSUME NEW new, Opens(new) PROVE u.table # current_table'
    BY <1>1, <2>2, TreeFacts DEF Opens
  <2>3. ASSUME NEW n, EndRecord(n) PROVE FALSE
    BY <1>3, <2>3 DEF EndRecord
  <2>4. ASSUME assign_offsets PROVE u.table # current_table'
    BY <1>3, <2>4 DEF assign_offsets, UsesStand
  <2>5. ASSUME Stays PROVE FALSE
    BY <1>3, <2>5 DEF Stays
  <2>6. ASSUME UNCHANGED vars PROVE u.table # current_table'
    BY <1>3, <2>6 DEF vars, UsesStand
  <2> QED
    BY <2>1, <2>2, <2>3, <2>4, <2>5, <2>6, StepKinds DEF Next
<1>4. ASSUME UNCHANGED resolved PROVE UsesStand'
  BY <1>2, <1>3, <1>4 DEF UsesStand
<1>5. ASSUME NEW n \in Names, Use(n) PROVE UsesStand'
  <2> DEFINE use == [table |-> current_table, name |-> n,
                     entry |-> lookup_symbol(current_table, n)]
  <2>1. /\ resolved' \subseteq resolved \union {use}
        /\ use.entry # NOT_FOUND /\ declaring' = FALSE /\ tables' = tables
    BY <1>5 DEF Use
  <2>2. ASSUME NEW u \in resolved', u = use
        PROVE  /\ lookup_symbol(u.table, u.name)' = u.entry /\ u.entry # NOT_FOUND
    <3>1. /\ lookup_symbol(u.table, u.name) = u.entry /\ u.entry # NOT_FOUND
      BY <2>1, <2>2
    <3> DEFINE t == u.table
               m == u.name
    <3>2. /\ lookup_symbol(t, m) = Lookup(tables, t, m)
          /\ lookup_symbol(t, m)' = Lookup(tables', t, m)
      BY LookupIsIn
    <3> QED
      BY <2>1, <3>1, <3>2
  <2>3. declaring' = FALSE /\ resolved' \subseteq resolved \union {use}
    BY <2>1
  <2> HIDE DEF use
  <2>4. ASSUME NEW u \in resolved'
        PROVE  /\ lookup_symbol(u.table, u.name)' = u.entry /\ u.entry # NOT_FOUND
    BY <1>2, <2>2, <2>3 DEF UsesStand
  <2> QED
    BY <2>3, <2>4 DEF UsesStand
<1>6. ASSUME NEW n, DefineType(n) \/ EndRecord(n) \/ Declaration(n) PROVE UNCHANGED resolved
  BY <1>6 DEF DefineType, EndRecord, Declaration
<1>7. ASSUME NEW f, NEW k, Prototype(f, k) \/ Call(f) PROVE UNCHANGED resolved
  BY <1>7 DEF Prototype, Call
<1>8. ASSUME NEW f, NEW ps, NEW as_packed, BeginFunction(f, ps, as_packed)
      PROVE  UNCHANGED resolved
  BY <1>8 DEF BeginFunction
<1>9. ASSUME NEW class, create_new_temp(class) PROVE UNCHANGED resolved
  BY <1>9 DEF create_new_temp
<1>10. ASSUME BeginRecord \/ BeginBlock \/ EndBlock \/ assign_offsets PROVE UNCHANGED resolved
  BY <1>10 DEF BeginRecord, BeginBlock, EndBlock, assign_offsets
<1>11. UNCHANGED vars => UNCHANGED resolved
  BY DEF vars
<1> QED
  BY <1>4, <1>5, <1>6, <1>7, <1>8, <1>9, <1>10, <1>11 DEF Next, Step

\* For every use of a name, in programs of any size: the entry that
\* lookup_symbol found when the statement was reduced is the one it finds ever
\* after, since a scope declares its variables before its statements, a new
\* scope declares in itself, and what comes to the global one was nowhere.
THEOREM ResolutionsStandAlways == Spec => []ResolutionsStand
<1>1. Init => UsesStand
  BY DEF Init, UsesStand
<1>2. Scoped /\ UsesStand /\ [Next]_vars => UsesStand'
  BY UsesStep
<1>3. UsesStand => ResolutionsStand
  BY DEF UsesStand, ResolutionsStand
<1> QED
  BY <1>1, <1>2, <1>3, ScopedAlways, PTL DEF Spec

-----------------------------------------------------------------------------
(* Slots                                                                   *)

\* Offsets are assigned once, by the last step.
LEMMA ParsingEnds ==
    ASSUME Scoped, Step
    PROVE  ~parsed /\ (assign_offsets \/ ~parsed')
<1>1. ~parsed
  BY StepKinds
<1>2. ASSUME NEW n, DefineType(n) \/ EndRecord(n) \/ Declaration(n) \/ Use(n)
      PROVE  UNCHANGED parsed
  BY <1>2 DEF DefineType, EndRecord, Declaration, Use
<1>3. ASSUME NEW f, NEW k, Prototype(f, k) \/ Call(f) PROVE UNCHANGED parsed
  BY <1>3 DEF Prototype, Call
<1>4. ASSUME NEW f, NEW ps, NEW as_packed, BeginFunction(f, ps, as_packed)
      PROVE  UNCHANGED parsed
  BY <1>4 DEF BeginFunction
<1>5. ASSUME NEW class, create_new_temp(class) PROVE UNCHANGED parsed
  BY <1>5 DEF create_new_temp
<1>6. ASSUME BeginRecord \/ BeginBlock \/ EndBlock PROVE UNCHANGED parsed
  BY <1>6 DEF BeginRecord, BeginBlock, EndBlock
<1> QED
  BY <1>1, <1>2, <1>3, <1>4, <1>5, <1>6 DEF Step

\* Parameters are in the scopes of bodies only.
ParametersPlaced ==
    \A t \in 1 .. Len(tables) : \A i \in 1 .. Len(tables[t].entries) :
      tables[t].entries[i].class = "PARAMETER" =>
        t \in 2 .. Len(tables) /\ tables[t].parent = global_table

LEMMA ParametersStep ==
    ASSUME Scoped, ParametersPlaced, [Next]_vars
    PROVE  ParametersPlaced'
<1> SUFFICES ASSUME NEW t \in 1 .. Len(tables'), NEW i \in 1 .. Len(tables'[t].entries),
                    tables'[t].entries[i].class = "PARAMETER"
             PROVE  t \in 2 .. Len(tables') /\ tables'[t].parent = global_table
  BY DEF ParametersPlaced, global_table
<1>1. \/ /\ t \in 1 .. Len(tables)
         /\ \E j \in 1 .. Len(tables[t].entries) : tables[t].entries[j].class = "PARAMETER"
      \/ t = Len(tables) + 1 /\ tables'[t].parent = global_table
  BY ClassesStep
<1>2. /\ Len(tables) \in Nat /\ Len(tables') \in Nat /\ Len(tables) <= Len(tables')
      /\ 1 \in 1 .. Len(tables)
  BY TreeFacts, TreeFactsNext DEF Scoped
<1>3. \A s \in 1 .. Len(tables) : tables'[s].parent = tables[s].parent
  BY TreeStep DEF Follows
<1> QED
  BY <1>1, <1>2, <1>3 DEF ParametersPlaced

\* Enclosing as a function of the tables.
EnclosingIn(T, t) ==
    LET path[k \in 0 .. Len(T)] ==
          IF k = 0 THEN {} ELSE {k} \union path[T[k].parent]
    IN  path[t]

LEMMA EnclosingIsIn ==
    ASSUME NEW t
    PROVE  Enclosing(t) = EnclosingIn(tables, t) /\ Enclosing(t)' = EnclosingIn(tables', t)
<1>1. Enclosing(t) = EnclosingIn(tables, t)
  BY DEF Enclosing, EnclosingIn
<1>2. Enclosing(t)' = EnclosingIn(tables', t)
  BY DEF Enclosing, EnclosingIn
<1> QED
  BY <1>1, <1>2

LEMMA EnclosingUp ==
    ASSUME NEW T, Rooted(T)
    PROVE  /\ EnclosingIn(T, 0) = {}
           /\ \A t \in 1 .. Len(T) : EnclosingIn(T, t) = {t} \union EnclosingIn(T, T[t].parent)
<1> DEFINE L == Len(T)
           V == SUBSET Nat
           step == [t \in 1 .. L |-> [v \in V |-> {t} \union v]]
           up == [t \in 1 .. L |-> T[t].parent]
           Eq(f) == f = [k \in 0 .. Len(T) |-> IF k = 0 THEN {} ELSE {k} \union f[T[k].parent]]
<1>1. L \in Nat /\ {} \in V /\ step \in [1 .. L -> [V -> V]]
  <2>1. L \in Nat
    BY DEF Rooted
  <2>2. \A t \in 1 .. L : \A v \in V : {t} \union v \in V
    BY <2>1
  <2>3. step \in [1 .. L -> [V -> V]]
    BY <2>2
  <2> QED
    BY <2>1, <2>3
<1>2. \A t \in 1 .. L : up[t] \in 0 .. t - 1 /\ up[t] = T[t].parent
  BY DEF Rooted
<1>3. \A t \in 1 .. L : \A v \in V : step[t][v] = {t} \union v
  OBVIOUS
<1> HIDE DEF V, step, up, L
<1>4. PICK g \in [0 .. L -> V] : Solves(g, L, {}, up, step)
  <2> DEFINE none == {}
  <2>1. none \in V
    BY <1>1
  <2> HIDE DEF none
  <2>2. \E g \in [0 .. L -> V] : Solves(g, L, none, up, step)
    BY <1>1, <1>2, <2>1, Recursion
  <2> QED
    BY <2>2 DEF none
<1>5. Eq(g)
  <2>1. ASSUME NEW t \in 0 .. L
        PROVE  g[t] = IF t = 0 THEN {} ELSE {t} \union g[T[t].parent]
    <3>1. g[t] = IF t = 0 THEN {} ELSE step[t][g[up[t]]]
      BY <1>4 DEF Solves
    <3>2. t # 0 => t \in 1 .. L /\ T[t].parent \in 0 .. L /\ up[t] = T[t].parent
      BY <1>1, <1>2
    <3> QED
      BY <1>3, <1>4, <3>1, <3>2
  <2> QED
    BY <1>4, <2>1 DEF L
<1> DEFINE f == CHOOSE f : Eq(f)
<1>6. Eq(f)
  BY <1>5
<1>7. \A t : EnclosingIn(T, t) = f[t]
  BY DEF EnclosingIn
<1> HIDE DEF f
<1>8. f[0] = {}
  BY <1>1, <1>6 DEF L
<1>9. \A t \in 1 .. Len(T) : f[t] = {t} \union f[T[t].parent]
  <2>1. \A t \in 1 .. Len(T) : t \in 0 .. Len(T) /\ t # 0
    BY <1>1 DEF L
  <2>2. \A t \in 0 .. Len(T) : f[t] = IF t = 0 THEN {} ELSE {t} \union f[T[t].parent]
    BY <1>6
  <2> QED
    BY <2>1, <2>2
<1> QED
  BY <1>7, <1>8, <1>9

\* The scopes that enclose one depend on the parents only.
LEMMA EnclosingKept ==
    ASSUME NEW T, NEW U, Rooted(T), Rooted(U), Len(U) = Len(T),
           \A t \in 1 .. Len(T) : U[t].parent = T[t].parent
    PROVE  \A t \in 1 .. Len(T) : EnclosingIn(U, t) = EnclosingIn(T, t)
<1> DEFINE S == {t \in 1 .. Len(T) : EnclosingIn(U, t) = EnclosingIn(T, t)}
<1>1. ASSUME NEW t \in 1 .. Len(T), \A s \in 1 .. t - 1 : s \in S PROVE t \in S
  <2>1. /\ EnclosingIn(T, t) = {t} \union EnclosingIn(T, T[t].parent)
        /\ EnclosingIn(T, 0) = {} /\ EnclosingIn(U, 0) = {}
        /\ EnclosingIn(U, t) = {t} \union EnclosingIn(U, T[t].parent)
    BY EnclosingUp
  <2>2. T[t].parent = 0 \/ T[t].parent \in 1 .. t - 1
    BY DEF Rooted
  <2>3. EnclosingIn(U, T[t].parent) = EnclosingIn(T, T[t].parent)
    BY <1>1, <2>1, <2>2
  <2> QED
    BY <2>1, <2>3
<1> HIDE DEF S
<1>2. 1 .. Len(T) \subseteq S
  BY <1>1, Strong DEF Rooted
<1> QED
  BY <1>2 DEF S

\* In the frame of a function whose scope is s, every table but s has its
\* parent in the frame, begins where that one ends, and the scopes around it
\* end above.
InFrame(s, t) == t \in 1 .. Len(tables) /\ s \in EnclosingIn(tables, t)

LEMMA FrameFacts ==
    ASSUME Tree, OthersTyped, BodiesPlaced, NEW s \in Scopes, s # 0
    PROVE  \A t \in 1 .. Len(tables) : InFrame(s, t) =>
             /\ FirstOffset[t] <= -8
             /\ t # s => tables[t].parent \in 2 .. Len(tables)
             /\ \A u \in EnclosingIn(tables, t) :
                  InFrame(s, u) /\ u # t => FirstOffset[t] <= EndOf(FirstOffset, u)
<1> DEFINE Good(t) ==
             /\ FirstOffset[t] <= -8
             /\ t # s => tables[t].parent \in 2 .. Len(tables)
             /\ \A u \in EnclosingIn(tables, t) :
                  InFrame(s, u) /\ u # t => FirstOffset[t] <= EndOf(FirstOffset, u)
           S == {t \in 1 .. Len(tables) : InFrame(s, t) => Good(t)}
<1>1. /\ Rooted(tables) /\ Len(tables) \in Nat /\ 1 \in 1 .. Len(tables)
      /\ tables[1].parent = 0
      /\ \A t \in 2 .. Len(tables) : tables[t].parent \in 1 .. t - 1
  BY TreeFacts
<1>2. /\ s \in 2 .. Len(tables) /\ tables[s].parent = 1
      /\ \A t \in Scopes : t # 0 => tables[t].parent = 1
  BY DEF Scopes, BodiesPlaced, global_table
<1>3. /\ EnclosingIn(tables, 0) = {}
      /\ \A t \in 1 .. Len(tables) :
           EnclosingIn(tables, t) = {t} \union EnclosingIn(tables, tables[t].parent)
  BY <1>1, EnclosingUp
<1>4. EnclosingIn(tables, 1) = {1}
  BY <1>1, <1>3
<1>5. /\ \A t \in 1 .. Len(tables) : FirstOffset[t] \in Int /\ FirstOffset[t] <= 0
      /\ \A t \in 1 .. Len(tables) :
           EndOf(FirstOffset, t) \in Int /\ EndOf(FirstOffset, t) <= FirstOffset[t]
  BY <1>1, FirstBelow
<1>6. \A t \in 1 .. Len(tables) :
        FirstOffset[t] =
          IF t \in Scopes THEN -8
          ELSE IF tables[t].parent \in {0, global_table} THEN 0
          ELSE IF FirstOffset[tables[t].parent] = 0 THEN 0
          ELSE EndOf(FirstOffset, tables[t].parent)
  BY <1>1, FirstFacts
<1>7. ASSUME NEW t \in 1 .. Len(tables), \A r \in 1 .. t - 1 : r \in S, InFrame(s, t)
      PROVE  Good(t)
  <2>1. CASE t = s
    <3>1. EnclosingIn(tables, t) = {t, 1}
      BY <1>2, <1>3, <1>4, <2>1
    <3>2. ~InFrame(s, 1)
      BY <1>2, <1>4 DEF InFrame
    <3>3. FirstOffset[t] = -8
      BY <1>6, <2>1
    <3> QED
      BY <2>1, <3>1, <3>2, <3>3
  <2>2. CASE t # s
    <3> DEFINE p == tables[t].parent
    <3>1. s \in EnclosingIn(tables, p)
      BY <1>3, <1>7, <2>2 DEF InFrame
    <3>2. p # 0 /\ p # 1
      BY <1>2, <1>3, <1>4, <3>1
    <3>3. p \in 2 .. Len(tables) /\ p \in 1 .. t - 1 /\ p \in 1 .. Len(tables)
      <4>1. p \in 0 .. t - 1
        BY <1>1 DEF Rooted
      <4> HIDE DEF p
      <4> QED
        BY <1>1, <3>2, <4>1
    <3>4. InFrame(s, p) /\ Good(p)
      BY <1>7, <3>1, <3>3 DEF InFrame
    <3>5. t \notin Scopes
      BY <1>1, <1>2, <3>2
    <3>6. FirstOffset[t] = EndOf(FirstOffset, p)
      <4>1. FirstOffset[t] = IF t \in Scopes THEN -8
                             ELSE IF p \in {0, global_table} THEN 0
                             ELSE IF FirstOffset[p] = 0 THEN 0 ELSE EndOf(FirstOffset, p)
        BY <1>6
      <4>2. p \notin {0, global_table}
        BY <3>2 DEF global_table
      <4>3. FirstOffset[p] # 0
        BY <3>4
      <4> HIDE DEF p
      <4> QED
        BY <3>5, <4>1, <4>2, <4>3
    <3>7. /\ FirstOffset[p] \in Int /\ EndOf(FirstOffset, p) \in Int
          /\ EndOf(FirstOffset, p) <= FirstOffset[p] /\ FirstOffset[p] <= -8
      BY <1>5, <3>3, <3>4
    <3>8. FirstOffset[t] <= -8
      BY <3>6, <3>7
    <3>9. ASSUME NEW u \in EnclosingIn(tables, t), InFrame(s, u), u # t
          PROVE  FirstOffset[t] <= EndOf(FirstOffset, u)
      <4>1. u \in EnclosingIn(tables, p) /\ u \in 1 .. Len(tables)
        BY <1>3, <3>9 DEF InFrame
      <4>2. CASE u = p
        BY <3>6, <3>7, <4>2
      <4>3. CASE u # p
        <5>1. FirstOffset[p] <= EndOf(FirstOffset, u)
          BY <3>4, <3>9, <4>1, <4>3
        <5>2. EndOf(FirstOffset, u) \in Int
          BY <1>5, <4>1
        <5> QED
          BY <3>6, <3>7, <5>1, <5>2
      <4> QED
        BY <4>2, <4>3
    <3> QED
      BY <3>3, <3>8, <3>9
  <2> QED
    BY <2>1, <2>2
<1>8. ASSUME NEW t \in 1 .. Len(tables), \A r \in 1 .. t - 1 : r \in S PROVE t \in S
  BY <1>7, <1>8
<1> HIDE DEF S
<1>9. 1 .. Len(tables) \subseteq S
  BY <1>1, <1>8, Strong
<1> QED
  BY <1>9 DEF S

\* A cell of a frame is below the saved %rbp, above where its table's slots end,
\* or it is a parameter of the function.
LEMMA CellFacts ==
    ASSUME Scoped, ParametersPlaced, assign_offsets, NEW s \in Scopes, s # 0,
           NEW t, InFrame(s, t), NEW i \in 1 .. Len(tables[t].entries),
           InStack(tables'[t].entries[i])
    PROVE  LET old == tables[t].entries
               o == tables'[t].entries[i].offset
           IN  \/ /\ old[i].class \in Slotted
                  /\ Before(old, i, Slotted) \in Nat
                  /\ o = FirstOffset[t] - 8 * Before(old, i, Slotted)
                  /\ FirstOffset[t] \in Int /\ FirstOffset[t] <= -8
                  /\ EndOf(FirstOffset, t) \in Int
                  /\ EndOf(FirstOffset, t) + 8 <= o
               \/ /\ old[i].class = "PARAMETER" /\ t = s
                  /\ Before(old, i, {"PARAMETER"}) \in Nat
                  /\ o = 16 + 8 * Before(old, i, {"PARAMETER"})
<1> USE DEF Scoped
<1> DEFINE old == tables[t].entries
           o == tables'[t].entries[i].offset
<1>1. t \in 1 .. Len(tables) /\ Rooted(tables) /\ Len(old) \in Nat /\ i \in 1 .. Len(old)
  BY TreeFacts DEF InFrame
<1>2. FirstOffset[t] \in Int /\ EndOf(FirstOffset, t) \in Int
  BY <1>1, FirstBelow
<1>3. FirstOffset[t] <= -8 /\ (t # s => tables[t].parent \in 2 .. Len(tables))
  BY <1>1, FrameFacts
<1>4. FirstOffset[t] # 0
  BY <1>3
<1>5. /\ tables'[t].entries[i].class = old[i].class
      /\ old[i].class = "PARAMETER" => o = 16 + 8 * Before(old, i, {"PARAMETER"})
      /\ old[i].class \in Slotted => o = FirstOffset[t] - 8 * Before(old, i, Slotted)
  BY <1>1, <1>4, Placed
<1>6. old[i].class \in Slotted \/ old[i].class = "PARAMETER"
  BY <1>5 DEF InStack
<1>7. Before(old, i, Slotted) \in Nat /\ Before(old, i, {"PARAMETER"}) \in Nat
  <2>1. i \in Nat
    BY <1>1
  <2> HIDE DEF old
  <2> QED
    BY <2>1, BeforeFacts
<1>8. CASE old[i].class \in Slotted
  <2> DEFINE j == Len(old) + 1
             C == Slotted
  <2>1. i \in Nat /\ j \in Nat /\ i < j /\ i # 0
    BY <1>1
  <2>2. old[i].class \in C
    BY <1>8
  <2> HIDE DEF old, j, C
  <2>3. /\ Before(old, i, C) <= Before(old, j, C)
        /\ i # 0 /\ old[i].class \in C => Before(old, i, C) + 1 <= Before(old, j, C)
    BY <2>1, BeforeOrder
  <2>4. Before(old, i, C) + 1 <= Before(old, j, C) /\ Before(old, j, C) \in Nat
    BY <2>1, <2>2, <2>3, BeforeFacts
  <2>5. EndOf(FirstOffset, t) = FirstOffset[t] - 8 * Before(old, j, C)
    BY DEF EndOf, Count, old, j, C
  <2>6. o = FirstOffset[t] - 8 * Before(old, i, C) /\ Before(old, i, C) \in Nat
    BY <1>5, <1>7, <1>8 DEF C
  <2>7. EndOf(FirstOffset, t) + 8 <= o
    <3> HIDE DEF o
    <3> QED
      BY <1>2, <2>4, <2>5, <2>6
  <2> QED
    BY <1>2, <1>3, <1>8, <2>6, <2>7 DEF C, old
<1>9. CASE old[i].class = "PARAMETER"
  <2>1. tables[t].parent = 1
    BY <1>1, <1>9 DEF ParametersPlaced, global_table
  <2>2. t = s
    BY <1>3, <2>1
  <2> QED
    BY <1>5, <1>7, <1>9, <2>2
<1> QED
  BY <1>6, <1>8, <1>9

\* Two cells of a scope and one around it, or of one scope, are apart.
LEMMA CellsApart ==
    ASSUME Scoped, ParametersPlaced, assign_offsets, NEW s \in Scopes, s # 0,
           NEW t, InFrame(s, t), NEW i \in 1 .. Len(tables[t].entries),
           InStack(tables'[t].entries[i]),
           NEW u \in EnclosingIn(tables, t), InFrame(s, u),
           NEW j \in 1 .. Len(tables[u].entries), InStack(tables'[u].entries[j]),
           t # u \/ i # j
    PROVE  tables'[t].entries[i].offset # tables'[u].entries[j].offset
<1> DEFINE o == tables'[t].entries[i].offset
           p == tables'[u].entries[j].offset
           T == tables[t].entries
           U == tables[u].entries
           F == FirstOffset
           SlotT == /\ T[i].class \in Slotted /\ Before(T, i, Slotted) \in Nat
                    /\ o = F[t] - 8 * Before(T, i, Slotted)
                    /\ F[t] \in Int /\ F[t] <= -8
                    /\ EndOf(F, t) \in Int /\ EndOf(F, t) + 8 <= o
           ArgT == /\ T[i].class = "PARAMETER" /\ t = s
                   /\ Before(T, i, {"PARAMETER"}) \in Nat
                   /\ o = 16 + 8 * Before(T, i, {"PARAMETER"})
           SlotU == /\ U[j].class \in Slotted /\ Before(U, j, Slotted) \in Nat
                    /\ p = F[u] - 8 * Before(U, j, Slotted)
                    /\ F[u] \in Int /\ F[u] <= -8
                    /\ EndOf(F, u) \in Int /\ EndOf(F, u) + 8 <= p
           ArgU == /\ U[j].class = "PARAMETER" /\ u = s
                   /\ Before(U, j, {"PARAMETER"}) \in Nat
                   /\ p = 16 + 8 * Before(U, j, {"PARAMETER"})
<1>1. (SlotT \/ ArgT) /\ (SlotU \/ ArgU)
  <2>1. SlotT \/ ArgT
    BY CellFacts
  <2>2. SlotU \/ ArgU
    BY CellFacts
  <2> QED
    BY <2>1, <2>2
<1>2. t \in 1 .. Len(tables) /\ (u # t => F[t] <= EndOf(F, u))
  BY FrameFacts DEF Scoped, InFrame
<1>3. i \in Nat /\ j \in Nat /\ i # 0 /\ j # 0
  BY TreeFacts DEF Scoped, InFrame
<1>4. ASSUME NEW C, NEW h \in Nat, NEW k \in Nat, h # k, h # 0, k # 0,
             T[h].class \in C, T[k].class \in C
      PROVE  Before(T, h, C) # Before(T, k, C)
  <2> HIDE DEF T
  <2>1. Before(T, h, C) \in Nat /\ Before(T, k, C) \in Nat
    BY BeforeFacts
  <2>2. CASE h < k
    <3>1. /\ Before(T, h, C) <= Before(T, k, C)
          /\ h # 0 /\ T[h].class \in C => Before(T, h, C) + 1 <= Before(T, k, C)
      BY <2>2, BeforeOrder
    <3> QED
      BY <1>4, <2>1, <3>1
  <2>3. CASE k < h
    <3>1. /\ Before(T, k, C) <= Before(T, h, C)
          /\ k # 0 /\ T[k].class \in C => Before(T, k, C) + 1 <= Before(T, h, C)
      BY <2>3, BeforeOrder
    <3> QED
      BY <1>4, <2>1, <3>1
  <2> QED
    BY <1>4, <2>2, <2>3
<1> HIDE DEF o, p
<1>5. CASE t = u
  <2>1. T = U /\ i # j
    BY <1>5
  <2>2. CASE SlotT /\ SlotU
    <3>1. Before(T, i, Slotted) # Before(T, j, Slotted)
      BY <1>3, <1>4, <2>1, <2>2
    <3> DEFINE a == Before(T, i, Slotted)
               b == Before(T, j, Slotted)
    <3>2. o = F[t] - 8 * a /\ p = F[t] - 8 * b /\ a \in Nat /\ b \in Nat /\ F[t] \in Int /\ a # b
      BY <1>5, <2>1, <2>2, <3>1
    <3> HIDE DEF a, b, F
    <3>3. o # p
      BY <3>2
    <3> QED
      BY <3>3 DEF o, p
  <2>3. CASE ArgT /\ ArgU
    <3> DEFINE C == {"PARAMETER"}
    <3>1. T[i].class \in C /\ T[j].class \in C
      BY <2>1, <2>3
    <3> HIDE DEF C
    <3>2. Before(T, i, C) # Before(T, j, C)
      BY <1>3, <1>4, <2>1, <3>1
    <3> DEFINE a == Before(T, i, C)
               b == Before(T, j, C)
    <3>3. o = 16 + 8 * a /\ p = 16 + 8 * b /\ a \in Nat /\ b \in Nat /\ a # b
      BY <2>1, <2>3, <3>2 DEF C
    <3> HIDE DEF a, b
    <3>4. o # p
      BY <3>3
    <3> QED
      BY <3>4 DEF o, p
  <2>4. CASE SlotT /\ ArgU
    <3> DEFINE first == F[t]
               a == Before(T, i, Slotted)
               b == Before(U, j, {"PARAMETER"})
    <3>1. /\ first \in Int /\ first <= -8 /\ a \in Nat /\ b \in Nat
          /\ o = first - 8 * a /\ p = 16 + 8 * b
      BY <2>4
    <3> HIDE DEF first, a, b
    <3>2. o # p
      BY <3>1
    <3> QED
      BY <3>2 DEF o, p
  <2>5. CASE ArgT /\ SlotU
    <3> DEFINE first == F[u]
               a == Before(U, j, Slotted)
               b == Before(T, i, {"PARAMETER"})
    <3>1. /\ first \in Int /\ first <= -8 /\ a \in Nat /\ b \in Nat
          /\ p = first - 8 * a /\ o = 16 + 8 * b
      BY <2>5
    <3> HIDE DEF first, a, b
    <3>2. o # p
      BY <3>1
    <3> QED
      BY <3>2 DEF o, p
  <2> QED
    BY <1>1, <2>2, <2>3, <2>4, <2>5
<1>6. CASE t # u
  <2>1. CASE SlotT /\ SlotU
    <3>1. F[t] <= EndOf(F, u)
      BY <1>2, <1>6
    <3>2. /\ F[t] \in Int /\ EndOf(F, u) \in Int /\ EndOf(F, u) + 8 <= p
          /\ F[u] \in Int
      BY <2>1
    <3>3. /\ Before(T, i, Slotted) \in Nat /\ o = F[t] - 8 * Before(T, i, Slotted)
          /\ Before(U, j, Slotted) \in Nat /\ p = F[u] - 8 * Before(U, j, Slotted)
      BY <2>1
    <3>4. o \in Int /\ o <= F[t] /\ p \in Int
      <4> DEFINE a == Before(T, i, Slotted)
                 b == Before(U, j, Slotted)
                 first == F[t]
                 above == F[u]
      <4>1. /\ first \in Int /\ above \in Int /\ a \in Nat /\ b \in Nat
            /\ o = first - 8 * a /\ p = above - 8 * b
        BY <3>2, <3>3
      <4> HIDE DEF a, b, first, above
      <4>2. o \in Int /\ o <= first /\ p \in Int
        BY <4>1
      <4> QED
        BY <4>2 DEF first
    <3>5. o # p
      BY <3>1, <3>2, <3>4
    <3> QED
      BY <3>5 DEF o, p
  <2>2. CASE ArgT /\ ArgU
    BY <1>6, <2>2
  <2>3. CASE SlotT /\ ArgU
    <3> DEFINE first == F[t]
               a == Before(T, i, Slotted)
               b == Before(U, j, {"PARAMETER"})
    <3>1. /\ first \in Int /\ first <= -8 /\ a \in Nat /\ b \in Nat
          /\ o = first - 8 * a /\ p = 16 + 8 * b
      BY <2>3
    <3> HIDE DEF first, a, b
    <3>2. o # p
      BY <3>1
    <3> QED
      BY <3>2 DEF o, p
  <2>4. CASE ArgT /\ SlotU
    <3> DEFINE first == F[u]
               a == Before(U, j, Slotted)
               b == Before(T, i, {"PARAMETER"})
    <3>1. /\ first \in Int /\ first <= -8 /\ a \in Nat /\ b \in Nat
          /\ p = first - 8 * a /\ o = 16 + 8 * b
      BY <2>4
    <3> HIDE DEF first, a, b
    <3>2. o # p
      BY <3>1
    <3> QED
      BY <3>2 DEF o, p
  <2> QED
    BY <1>1, <2>1, <2>2, <2>3, <2>4
<1> QED
  BY <1>5, <1>6

LEMMA SlotsStep ==
    ASSUME Scoped, ParametersPlaced, SlotsDisjoint, [Next]_vars
    PROVE  SlotsDisjoint'
<1> USE DEF Scoped
<1>1. UNCHANGED workload /\ Functions' = Functions
  BY TreeStep, SameProgram
<1>2. ASSUME UNCHANGED vars PROVE SlotsDisjoint'
  <2>1. /\ tables' = tables /\ scope' = scope /\ parsed' = parsed
    BY <1>2 DEF vars, functionVars
  <2>2. \A t : Enclosing(t)' = Enclosing(t)
    BY <2>1, EnclosingIsIn
  <2>3. \A t : Cells(t)' = Cells(t)
    BY <2>1 DEF Cells
  <2>4. \A f : Frame(f)' = Frame(f)
    BY <2>1, <2>2 DEF Frame
  <2>5. \A c : Offset(c)' = Offset(c)
    BY <2>1 DEF Offset
  <2> QED
    BY <1>1, <2>1, <2>2, <2>3, <2>4, <2>5 DEF SlotsDisjoint
<1>3. ASSUME ~parsed' PROVE SlotsDisjoint'
  BY <1>3 DEF SlotsDisjoint
<1>4. ASSUME assign_offsets PROVE SlotsDisjoint'
  <2>1. /\ DOMAIN tables' = 1 .. Len(tables) /\ Len(tables') = Len(tables) /\ Rooted(tables')
        /\ Rooted(tables) /\ scope' = scope
        /\ \A t \in 1 .. Len(tables) : tables'[t].parent = tables[t].parent
    BY <1>4, OffsetsStep, TreeStep, TreeFacts, TreeFactsNext DEF Follows, assign_offsets
  <2>2. \A t \in 1 .. Len(tables) : EnclosingIn(tables', t) = EnclosingIn(tables, t)
    <3> DEFINE T == tables
               U == tables'
    <3>1. /\ Rooted(T) /\ Rooted(U) /\ Len(U) = Len(T)
          /\ \A t \in 1 .. Len(T) : U[t].parent = T[t].parent
      BY <2>1
    <3> HIDE DEF T, U
    <3>2. \A t \in 1 .. Len(T) : EnclosingIn(U, t) = EnclosingIn(T, t)
      BY <3>1, EnclosingKept
    <3> QED
      BY <3>2 DEF T, U
  <2>3. ASSUME NEW t \in 1 .. Len(tables)
        PROVE  /\ Enclosing(t)' = EnclosingIn(tables, t)
               /\ Cells(t)' = {<<t, i>> : i \in {k \in 1 .. Len(tables[t].entries) :
                                                   InStack(tables'[t].entries[k])}}
    <3>1. DOMAIN tables'[t].entries = 1 .. Len(tables[t].entries)
      BY <1>4, <2>1, Placed, TreeFactsNext
    <3> QED
      BY <2>2, <3>1, EnclosingIsIn DEF Cells
  <2> SUFFICES ASSUME NEW f \in Functions, NEW t \in Frame(f)',
                      NEW u \in Frame(f)' \cap Enclosing(t)'
               PROVE  /\ \A c \in Cells(t)', d \in Cells(u)' :
                           c # d => Offset(c)' # Offset(d)'
                      /\ \A c \in Cells(t)' : Offset(c)' \notin {0, 8}
    BY <1>1 DEF SlotsDisjoint
  <2> DEFINE s == scope[f]
  <2>4. /\ s \in Scopes /\ s # 0 /\ t \in 1 .. Len(tables) /\ u \in 1 .. Len(tables)
        /\ s \in Enclosing(t)' /\ s \in Enclosing(u)'
    BY <2>1 DEF Frame, Scopes
  <2>5. InFrame(s, t) /\ InFrame(s, u) /\ u \in EnclosingIn(tables, t)
    BY <2>3, <2>4 DEF InFrame
  <2>6. \A v, k : Offset(<<v, k>>)' = tables'[v].entries[k].offset
    BY DEF Offset
  <2> HIDE DEF s
  <2>7. ASSUME NEW c \in Cells(t)', NEW d \in Cells(u)', c # d
        PROVE  Offset(c)' # Offset(d)'
    <3>1. PICK i \in 1 .. Len(tables[t].entries) :
            c = <<t, i>> /\ InStack(tables'[t].entries[i])
      BY <2>3, <2>4
    <3>2. PICK j \in 1 .. Len(tables[u].entries) :
            d = <<u, j>> /\ InStack(tables'[u].entries[j])
      BY <2>3, <2>4
    <3>3. t # u \/ i # j
      BY <2>7, <3>1, <3>2
    <3>4. tables'[t].entries[i].offset # tables'[u].entries[j].offset
      BY <1>4, <2>4, <2>5, <3>1, <3>2, <3>3, CellsApart
    <3> QED
      BY <2>6, <3>1, <3>2, <3>4
  <2>8. ASSUME NEW c \in Cells(t)' PROVE Offset(c)' \notin {0, 8}
    <3>1. PICK i \in 1 .. Len(tables[t].entries) :
            c = <<t, i>> /\ InStack(tables'[t].entries[i])
      BY <2>3, <2>4
    <3> DEFINE old == tables[t].entries
               o == tables'[t].entries[i].offset
    <3>2. \/ /\ old[i].class \in Slotted
             /\ Before(old, i, Slotted) \in Nat
             /\ o = FirstOffset[t] - 8 * Before(old, i, Slotted)
             /\ FirstOffset[t] \in Int /\ FirstOffset[t] <= -8
             /\ EndOf(FirstOffset, t) \in Int
             /\ EndOf(FirstOffset, t) + 8 <= o
          \/ /\ old[i].class = "PARAMETER" /\ t = s
             /\ Before(old, i, {"PARAMETER"}) \in Nat
             /\ o = 16 + 8 * Before(old, i, {"PARAMETER"})
      BY <1>4, <2>4, <2>5, <3>1, CellFacts
    <3> HIDE DEF o
    <3>3. o \notin {0, 8}
      <4>1. CASE /\ FirstOffset[t] \in Int /\ FirstOffset[t] <= -8
                 /\ Before(old, i, Slotted) \in Nat
                 /\ o = FirstOffset[t] - 8 * Before(old, i, Slotted)
        BY <4>1
      <4>2. CASE /\ Before(old, i, {"PARAMETER"}) \in Nat
                 /\ o = 16 + 8 * Before(old, i, {"PARAMETER"})
        BY <4>2
      <4> QED
        BY <3>2, <4>1, <4>2
    <3> QED
      BY <2>6, <3>1, <3>3 DEF o
  <2> QED
    BY <2>7, <2>8
<1> QED
  BY <1>2, <1>3, <1>4, ParsingEnds DEF Next

\* In the frames of a program of any size, two variables of which one's scope
\* is the other's or around it have slots of their own, and none has that of the
\* saved %rbp or of the return address: assign_offsets_to_table hands a child
\* the place where its parent's slots end.
THEOREM SlotsDisjointAlways == Spec => []SlotsDisjoint
<1>1. Init => ParametersPlaced /\ SlotsDisjoint
  BY DEF Init, Table, ParametersPlaced, SlotsDisjoint
<1>2. Scoped /\ ParametersPlaced /\ [Next]_vars => ParametersPlaced'
  BY ParametersStep
<1>3. Scoped /\ ParametersPlaced /\ SlotsDisjoint /\ [Next]_vars => SlotsDisjoint'
  BY SlotsStep
<1> QED
  BY <1>1, <1>2, <1>3, ScopedAlways, PTL DEF Spec

\* Within a frame the greatest depth is that of a table's own slots: its
\* children begin where they end, and no depth is greater than a beginning.
LEMMA DepthBelow ==
    ASSUME Tree, OthersTyped, BodiesPlaced
    PROVE  \A t \in 1 .. Len(tables) : t # 1 /\ FirstOffset[t] # 0 =>
             max_depth(FirstOffset)[t] = EndOf(FirstOffset, t)
<1> DEFINE F == FirstOffset
           D == max_depth(F)
           L == Len(tables)
           S == {t \in 1 .. L : t # 1 /\ F[t] # 0 => D[t] = EndOf(F, t)}
<1>1. /\ Rooted(tables) /\ L \in Nat /\ DOMAIN tables = 1 .. L
      /\ \A t \in 2 .. L : tables[t].parent \in 1 .. t - 1
  BY TreeFacts
<1>2. /\ F \in [1 .. L -> Int]
      /\ \A t \in 1 .. L :
           /\ F[t] \in Int /\ F[t] <= 0
           /\ EndOf(F, t) \in Int /\ EndOf(F, t) <= F[t]
  BY <1>1, FirstFacts, FirstBelow
<1>3. \A t \in 1 .. L :
        /\ D[t] \in Int
        /\ EndOf(F, t) <= D[t]
        /\ D[t] = EndOf(F, t) \/ \E c \in Children(t) : D[t] = D[c]
  <2> DEFINE start == F
             b == 0
  <2>1. /\ start \in [1 .. Len(tables) -> Int] /\ b \in Int
        /\ \A t \in 1 .. Len(tables) : start[t] <= b
    BY <1>2
  <2> HIDE DEF start, b, F
  <2>2. \A t \in 1 .. Len(tables) :
          /\ max_depth(start)[t] \in Int
          /\ EndOf(start, t) <= max_depth(start)[t]
          /\ \/ max_depth(start)[t] = EndOf(start, t)
             \/ \E c \in Children(t) : max_depth(start)[t] = max_depth(start)[c]
    BY <1>1, <2>1, DepthFacts
  <2> QED
    BY <2>2 DEF start
<1>4. ASSUME NEW t \in 1 .. L, t # 1, F[t] # 0, NEW c \in Children(t)
      PROVE  F[c] = EndOf(F, t) /\ F[c] # 0 /\ c # 1 /\ c \in t + 1 .. L
  <2>1. c \in 1 .. L /\ tables[c].parent = t /\ c \in t + 1 .. L
    BY <1>1, ChildrenLater DEF Children
  <2>2. c \notin Scopes
    <3>1. \A f \in Functions : scope[f] = c => tables[c].parent = 1
      BY <1>1, <2>1 DEF BodiesPlaced, global_table
    <3> QED
      BY <1>4, <2>1, <3>1 DEF Scopes
  <2>3. F[c] = IF c \in Scopes THEN -8
               ELSE IF tables[c].parent \in {0, global_table} THEN 0
               ELSE IF F[tables[c].parent] = 0 THEN 0
               ELSE EndOf(F, tables[c].parent)
    BY <1>1, <2>1, FirstFacts
  <2>4. t \notin {0, global_table}
    BY <1>4 DEF global_table
  <2> HIDE DEF F, L
  <2>5. F[c] = EndOf(F, t)
    BY <1>4, <2>1, <2>2, <2>3, <2>4
  <2>6. F[t] \in Int /\ F[t] <= 0 /\ EndOf(F, t) \in Int /\ EndOf(F, t) <= F[t]
    BY <1>2
  <2>7. F[c] # 0
    BY <1>4, <2>5, <2>6
  <2>8. c # 1
    BY <2>1
  <2> QED
    BY <2>1, <2>5, <2>7, <2>8
<1> HIDE DEF F, D, L
<1>5. ASSUME NEW t \in 1 .. L, \A u \in t + 1 .. L : u \in S PROVE t \in S
  <2> SUFFICES ASSUME t # 1, F[t] # 0 PROVE D[t] = EndOf(F, t)
    OBVIOUS
  <2>1. CASE \E c \in Children(t) : D[t] = D[c]
    <3>1. PICK c : c \in Children(t) /\ D[t] = D[c]
      BY <2>1
    <3>2. F[c] = EndOf(F, t) /\ F[c] # 0 /\ c # 1 /\ c \in t + 1 .. L /\ c \in 1 .. L
      BY <1>1, <1>4, <3>1
    <3>3. D[c] = EndOf(F, c)
      BY <1>5, <3>2
    <3>4. EndOf(F, c) <= F[c] /\ EndOf(F, c) \in Int /\ EndOf(F, t) \in Int /\ EndOf(F, t) <= D[t]
      BY <1>2, <1>3, <3>2
    <3> QED
      BY <3>1, <3>2, <3>3, <3>4
  <2> QED
    BY <1>3, <2>1
<1> HIDE DEF S
<1>6. 1 .. L \subseteq S
  BY <1>1, <1>5, StrongDown
<1> QED
  BY <1>6 DEF S, L, F, D

LEMMA FrameStep ==
    ASSUME Scoped, ParametersPlaced, FrameHoldsOwnSlots, [Next]_vars
    PROVE  FrameHoldsOwnSlots'
<1> USE DEF Scoped
<1>1. UNCHANGED workload /\ Functions' = Functions
  BY TreeStep, SameProgram
<1>2. ASSUME UNCHANGED vars PROVE FrameHoldsOwnSlots'
  <2>1. /\ tables' = tables /\ scope' = scope /\ parsed' = parsed /\ stack_size' = stack_size
    BY <1>2 DEF vars, functionVars
  <2>2. \A t : Cells(t)' = Cells(t)
    BY <2>1 DEF Cells
  <2>3. \A c : Offset(c)' = Offset(c)
    BY <2>1 DEF Offset
  <2> QED
    BY <1>1, <2>1, <2>2, <2>3 DEF FrameHoldsOwnSlots
<1>3. ASSUME ~parsed' PROVE FrameHoldsOwnSlots'
  BY <1>3 DEF FrameHoldsOwnSlots
<1>4. ASSUME assign_offsets PROVE FrameHoldsOwnSlots'
  <2>1. /\ scope' = scope
        /\ stack_size' = [f \in Functions |->
                            IF scope[f] = 0 THEN 0 ELSE max_depth(FirstOffset)[scope[f]] + 8]
    BY <1>4 DEF assign_offsets
  <2> SUFFICES ASSUME NEW f \in Functions, scope[f] # 0, NEW c \in Cells(scope[f])'
               PROVE  Offset(c)' >= stack_size'[f]
    BY <1>1, <2>1 DEF FrameHoldsOwnSlots
  <2> DEFINE s == scope[f]
             old == tables[s].entries
             F == FirstOffset
  <2>2. /\ s \in Scopes /\ s # 0 /\ s \in 2 .. Len(tables) /\ s \in 1 .. Len(tables)
        /\ s \in 1 .. Len(tables')
    BY <1>4, OffsetsStep DEF Scopes, BodiesPlaced
  <2>3. Rooted(tables)
    BY TreeFacts
  <2>4. InFrame(s, s)
    <3>1. EnclosingIn(tables, s) = {s} \union EnclosingIn(tables, tables[s].parent)
      BY <2>2, <2>3, EnclosingUp
    <3> QED
      BY <2>2, <3>1 DEF InFrame
  <2>5. F[s] = -8
    BY <2>2, <2>3, FirstFacts
  <2>6. stack_size'[f] = EndOf(F, s) + 8 /\ EndOf(F, s) \in Int /\ EndOf(F, s) <= -8
    <3>1. max_depth(F)[s] = EndOf(F, s)
      BY <2>2, <2>5, DepthBelow
    <3>2. EndOf(F, s) \in Int /\ EndOf(F, s) <= F[s]
      BY <2>2, <2>3, FirstBelow
    <3> QED
      BY <2>1, <2>2, <2>5, <3>1, <3>2
  <2>7. PICK i \in 1 .. Len(old) : c = <<s, i>> /\ InStack(tables'[s].entries[i])
    <3>1. DOMAIN tables'[s].entries = 1 .. Len(old)
      BY <1>4, <2>2, Placed, TreeFactsNext
    <3>2. Cells(s)' = {<<s, k>> : k \in {j \in 1 .. Len(old) : InStack(tables'[s].entries[j])}}
      BY <2>1, <3>1 DEF Cells
    <3>3. c \in Cells(s)'
      BY <2>1 DEF Cells
    <3> QED
      BY <3>2, <3>3
  <2> DEFINE o == tables'[s].entries[i].offset
  <2>8. \/ /\ old[i].class \in Slotted
           /\ Before(old, i, Slotted) \in Nat
           /\ o = FirstOffset[s] - 8 * Before(old, i, Slotted)
           /\ FirstOffset[s] \in Int /\ FirstOffset[s] <= -8
           /\ EndOf(FirstOffset, s) \in Int
           /\ EndOf(FirstOffset, s) + 8 <= o
        \/ /\ old[i].class = "PARAMETER" /\ s = s
           /\ Before(old, i, {"PARAMETER"}) \in Nat
           /\ o = 16 + 8 * Before(old, i, {"PARAMETER"})
    <3> DEFINE t == s
    <3>1. t \in Scopes /\ t # 0 /\ InFrame(t, t) /\ i \in 1 .. Len(tables[t].entries)
          /\ InStack(tables'[t].entries[i])
      BY <2>2, <2>4, <2>7
    <3> HIDE DEF t
    <3>2. LET new == tables[t].entries
              p == tables'[t].entries[i].offset
          IN  \/ /\ new[i].class \in Slotted
                 /\ Before(new, i, Slotted) \in Nat
                 /\ p = FirstOffset[t] - 8 * Before(new, i, Slotted)
                 /\ FirstOffset[t] \in Int /\ FirstOffset[t] <= -8
                 /\ EndOf(FirstOffset, t) \in Int
                 /\ EndOf(FirstOffset, t) + 8 <= p
              \/ /\ new[i].class = "PARAMETER" /\ t = t
                 /\ Before(new, i, {"PARAMETER"}) \in Nat
                 /\ p = 16 + 8 * Before(new, i, {"PARAMETER"})
      BY <1>4, <3>1, CellFacts
    <3> QED
      BY <3>2 DEF t
  <2>9. Offset(c)' = o
    BY <2>7 DEF Offset
  <2> HIDE DEF o, old, s, F
  <2> DEFINE k == Before(old, i, Slotted)
             h == Before(old, i, {"PARAMETER"})
             end == EndOf(F, s)
  <2>10. \/ end + 8 <= o /\ o \in Int
         \/ h \in Nat /\ o = 16 + 8 * h
    <3> DEFINE first == FirstOffset[s]
    <3>1. \/ k \in Nat /\ first \in Int /\ o = first - 8 * k /\ end + 8 <= o
          \/ h \in Nat /\ o = 16 + 8 * h
      BY <2>8, Zenon DEF F
    <3> HIDE DEF first, k, h, end
    <3> QED
      BY <3>1
  <2>11. CASE h \in Nat /\ o = 16 + 8 * h
    BY <2>6, <2>9, <2>11
  <2>12. CASE end + 8 <= o /\ o \in Int
    BY <2>6, <2>9, <2>12
  <2> QED
    BY <2>10, <2>11, <2>12
<1> QED
  BY <1>2, <1>3, <1>4, ParsingEnds DEF Next

\* In a frame of any size the slots of the function's outermost scope,
\* parameters included, lie in what the function reserves: max_depth finds where
\* they end.  (It finds no more, which is how the slots of inner scopes come to
\* be left out: no table is deeper for it than its own slots.)
THEOREM FrameHoldsOwnSlotsAlways == Spec => []FrameHoldsOwnSlots
<1>1. Init => ParametersPlaced /\ FrameHoldsOwnSlots
  BY DEF Init, Table, ParametersPlaced, FrameHoldsOwnSlots
<1>2. Scoped /\ ParametersPlaced /\ [Next]_vars => ParametersPlaced'
  BY ParametersStep
<1>3. Scoped /\ ParametersPlaced /\ FrameHoldsOwnSlots /\ [Next]_vars => FrameHoldsOwnSlots'
  BY FrameStep
<1> QED
  BY <1>1, <1>2, <1>3, ScopedAlways, PTL DEF Spec

-----------------------------------------------------------------------------
(* Parameters                                                              *)

\* Before counts from where the entries of a class begin.
LEMMA BeforeLast ==
    ASSUME NEW entries, NEW C, NEW a \in Nat, NEW n \in Nat,
           \A k \in 1 .. a : entries[k].class \notin C,
           \A k \in a + 1 .. a + n : entries[k].class \in C
    PROVE  \A d \in 0 .. n : Before(entries, a + 1 + d, C) = d
<1> DEFINE S == {d \in 0 .. n : Before(entries, a + 1 + d, C) = d}
<1>1. 0 \in S
  <2>1. {k \in 1 .. (a + 1 + 0) - 1 : entries[k].class \in C} = {}
    OBVIOUS
  <2>2. Before(entries, a + 1 + 0, C) = 0
    BY <2>1, FS_EmptySet DEF Before
  <2> QED
    BY <2>2
<1>2. ASSUME NEW d \in 0 .. n - 1, d \in S PROVE d + 1 \in S
  <2> DEFINE i == a + 1 + d
  <2>1. /\ i \in Nat /\ i # 0 /\ i \in a + 1 .. a + n /\ a + 1 + (d + 1) = i + 1
        /\ d + 1 \in 0 .. n
    OBVIOUS
  <2>2. Before(entries, i, C) = d /\ entries[i].class \in C
    BY <1>2, <2>1
  <2> HIDE DEF i
  <2>3. Before(entries, i + 1, C) =
          Before(entries, i, C) + (IF i # 0 /\ entries[i].class \in C THEN 1 ELSE 0)
    BY <2>1, BeforeFacts
  <2> QED
    BY <2>1, <2>2, <2>3
<1> HIDE DEF S
<1>3. 0 .. n \subseteq S
  BY <1>1, <1>2, Steps
<1> QED
  BY <1>3 DEF S

\* The parameters of a function are the oldest entries of its scope, the last
\* one first, when no name is given twice.
Arriving(entries, ps) ==
    /\ Len(ps) <= Len(entries)
    /\ \A i \in 1 .. Len(ps) : /\ entries[Len(entries) + 1 - i].name = ps[i]
                               /\ entries[Len(entries) + 1 - i].class = "PARAMETER"
    /\ \A k \in 1 .. Len(entries) - Len(ps) : entries[k].class # "PARAMETER"

ParametersOldest ==
    \A f \in Functions : scope[f] # 0 /\ IsInjective(parameters[f]) =>
      Arriving(tables[scope[f]].entries, parameters[f])

\* They stay so when the scope gets other entries, or offsets.
LEMMA ArrivingKept ==
    ASSUME NEW old, NEW new, NEW ps, Len(ps) \in Nat, Len(old.entries) \in Nat,
           Arriving(old.entries, ps),
           \/ /\ Len(new.entries) = Len(old.entries)
              /\ \A i \in 1 .. Len(old.entries) :
                   /\ new.entries[i].name = old.entries[i].name
                   /\ new.entries[i].class = old.entries[i].class
           \/ \E n, class : class # "PARAMETER" /\ Inserted(old, new, n, class)
    PROVE  Arriving(new.entries, ps)
<1> DEFINE m == Len(old.entries)
           l == Len(ps)
<1>1. m \in Nat /\ l \in Nat /\ l <= m
  BY DEF Arriving
<1>2. ASSUME Len(new.entries) = m,
             \A i \in 1 .. m : /\ new.entries[i].name = old.entries[i].name
                               /\ new.entries[i].class = old.entries[i].class
      PROVE  Arriving(new.entries, ps)
  <2>1. \A i \in 1 .. l : m + 1 - i \in 1 .. m
    BY <1>1
  <2>2. \A k \in 1 .. m - l : k \in 1 .. m
    BY <1>1
  <2> QED
    BY <1>2, <2>1, <2>2 DEF Arriving
<1>3. ASSUME NEW n, NEW class, class # "PARAMETER", Inserted(old, new, n, class)
      PROVE  Arriving(new.entries, ps)
  <2>1. CASE new = old
    BY <2>1
  <2>2. CASE new # old
    <3>1. /\ Len(new.entries) = m + 1
          /\ new.entries[1].class # "PARAMETER"
          /\ \A i \in 1 .. m : new.entries[i + 1] = old.entries[i]
      BY <1>3, <2>2 DEF Inserted, Entry
    <3>2. ASSUME NEW i \in 1 .. l
          PROVE  /\ new.entries[(m + 1) + 1 - i].name = ps[i]
                 /\ new.entries[(m + 1) + 1 - i].class = "PARAMETER"
      <4>1. m + 1 - i \in 1 .. m /\ (m + 1) + 1 - i = (m + 1 - i) + 1
        BY <1>1
      <4> QED
        BY <3>1, <4>1 DEF Arriving
    <3>3. ASSUME NEW k \in 1 .. (m + 1) - l PROVE new.entries[k].class # "PARAMETER"
      <4>1. CASE k = 1
        BY <3>1, <4>1
      <4>2. CASE k # 1
        <5>1. k - 1 \in 1 .. m - l /\ k - 1 \in 1 .. m /\ (k - 1) + 1 = k
          BY <1>1, <4>2
        <5>2. new.entries[(k - 1) + 1] = old.entries[k - 1]
          BY <3>1, <5>1
        <5>3. old.entries[k - 1].class # "PARAMETER"
          BY <5>1 DEF Arriving
        <5> QED
          BY <5>1, <5>2, <5>3
      <4> QED
        BY <4>1, <4>2
    <3>4. l <= m + 1
      BY <1>1
    <3> QED
      BY <3>1, <3>2, <3>3, <3>4 DEF Arriving
  <2> QED
    BY <2>1, <2>2
<1> QED
  BY <1>2, <1>3

\* A function's scope and parameters are those of its last body.
LEMMA LastBody ==
    ASSUME Scoped, [Next]_vars, NEW f \in Functions
    PROVE  \/ scope'[f] = scope[f] /\ parameters'[f] = parameters[f]
           \/ \E ps \in SeqOf(Names, MaxParameters) \ {<<>>}, as_packed \in BOOLEAN :
                BeginFunction(f, ps, as_packed)
<1> DEFINE Kept == scope'[f] = scope[f] /\ parameters'[f] = parameters[f]
<1>0. scope \in [Functions -> 0 .. Len(tables)] /\ parameters \in [Functions -> Seq(Names)]
  BY DEF Scoped, OthersTyped
<1>1. ASSUME NEW n, DefineType(n) \/ EndRecord(n) \/ Declaration(n) \/ Use(n) PROVE Kept
  BY <1>1 DEF DefineType, EndRecord, Declaration, Use, functionVars
<1>2. ASSUME NEW g, NEW k, Prototype(g, k) \/ Call(g) PROVE Kept
  BY <1>2 DEF Prototype, Call, functionVars
<1>3. ASSUME NEW g \in Functions, NEW ps, NEW as_packed, BeginFunction(g, ps, as_packed), g # f
      PROVE  Kept
  BY <1>0, <1>3 DEF BeginFunction
<1>4. ASSUME NEW class, create_new_temp(class) PROVE Kept
  BY <1>4 DEF create_new_temp, functionVars
<1>5. ASSUME BeginRecord \/ BeginBlock \/ EndBlock \/ assign_offsets PROVE Kept
  BY <1>5 DEF BeginRecord, BeginBlock, EndBlock, assign_offsets, functionVars
<1>6. ASSUME UNCHANGED vars PROVE Kept
  BY <1>6 DEF vars, functionVars
<1> QED
  BY <1>1, <1>2, <1>3, <1>4, <1>5, <1>6 DEF Next, Step

LEMMA OldestStep ==
    ASSUME Scoped, ParametersOldest, [Next]_vars
    PROVE  ParametersOldest'
<1> USE DEF Scoped
<1>1. Functions' = Functions
  BY TreeStep, SameProgram
<1> SUFFICES ASSUME NEW f \in Functions, scope'[f] # 0, IsInjective(parameters'[f])
             PROVE  Arriving(tables'[scope'[f]].entries, parameters'[f])
  BY <1>1 DEF ParametersOldest
<1>2. CASE scope'[f] = scope[f] /\ parameters'[f] = parameters[f]
  <2> DEFINE t == scope[f]
             ps == parameters[f]
             old == tables[t]
             new == tables'[t]
             Good == \/ /\ Len(new.entries) = Len(old.entries)
                        /\ \A i \in 1 .. Len(old.entries) :
                             /\ new.entries[i].name = old.entries[i].name
                             /\ new.entries[i].class = old.entries[i].class
                     \/ \E n, class : class # "PARAMETER" /\ Inserted(old, new, n, class)
  <2>1. t \in 2 .. Len(tables) /\ t \in 1 .. Len(tables) /\ Len(ps) \in Nat
    <3>1. t \in 2 .. Len(tables) /\ Len(tables) \in Nat
      BY <1>2, TreeFacts DEF BodiesPlaced
    <3>2. ps \in Seq(Names)
      BY DEF OthersTyped
    <3> QED
      BY <3>1, <3>2
  <2>2. Len(old.entries) \in Nat
    BY <2>1, TreeFacts
  <2>3. Arriving(old.entries, ps)
    BY <1>2 DEF ParametersOldest
  <2>4. new = old => Good
    OBVIOUS
  <2>5. ASSUME NEW n, NEW class, Inserts(n, class) PROVE Good
    <3>1. /\ \A s \in 1 .. Len(tables) : s # current_table => tables'[s] = tables[s]
          /\ Inserted(tables[current_table], tables'[current_table], n, class)
      BY <2>5, InsertStep
    <3>2. class # "PARAMETER"
      BY <2>5 DEF Inserts
    <3> QED
      BY <2>1, <2>4, <3>1, <3>2
  <2>6. ASSUME NEW b, Opens(b) PROVE Good
    BY <2>1, <2>4, <2>6, OpenStep
  <2>7. ASSUME NEW n \in Names, EndRecord(n), UNCHANGED workload PROVE Good
    <3>1. \A s \in 2 .. Len(tables) : s # current_table => tables'[s] = tables[s]
      BY <2>7, RecordStep
    <3>2. t # current_table
      BY <2>7 DEF EndRecord, InRecord
    <3> QED
      BY <2>1, <2>4, <3>1, <3>2
  <2>8. ASSUME assign_offsets PROVE Good
    BY <2>1, <2>8, Placed
  <2>9. Stays \/ UNCHANGED vars => Good
    BY <2>4 DEF Stays, vars
  <2> HIDE DEF Good
  <2>10. Good
    BY <2>5, <2>6, <2>7, <2>8, <2>9, StepKinds, TreeStep DEF Next
  <2> HIDE DEF old, new, ps
  <2>11. Arriving(new.entries, ps)
    BY <2>1, <2>2, <2>3, <2>10, ArrivingKept DEF Good
  <2> QED
    BY <1>2, <2>11 DEF new, ps
<1>3. ASSUME NEW ps \in SeqOf(Names, MaxParameters) \ {<<>>}, NEW as_packed \in BOOLEAN,
             BeginFunction(f, ps, as_packed)
      PROVE  Arriving(tables'[scope'[f]].entries, parameters'[f])
  <2>1. /\ tables' = Append(tables, Body(ps)) /\ scope' = [scope EXCEPT ![f] = Len(tables) + 1]
        /\ parameters' = [parameters EXCEPT ![f] = ps]
    BY <1>3 DEF BeginFunction
  <2>2. scope'[f] = Len(tables) + 1 /\ parameters'[f] = ps
    BY <2>1 DEF OthersTyped
  <2>3. tables'[Len(tables) + 1] = Body(ps)
    BY <2>1, TreeFacts
  <2>4. MaxParameters \in Nat
    BY Bounds
  <2>5. PICK m \in 0 .. MaxParameters : ps \in [1 .. m -> Names]
    BY DEF SeqOf
  <2>6. ps \in Seq(AllNames) /\ Len(ps) \in Nat
    BY <2>4, <2>5 DEF AllNames
  <2> DEFINE P == 0 .. MaxTables
             N == AllNames
             n == Len(ps)
  <2>7. global_table \in P
    BY Bounds DEF global_table
  <2> HIDE DEF P, N
  <2>8. LET body == Body(ps)
        IN  /\ body \in TableSet(N, P)
            /\ body.parent = global_table
            /\ Len(body.entries) \in Nat /\ Len(body.entries) <= Len(ps)
            /\ Distinct(body)
            /\ \A k : Declares(body, k) <=> k \in Upto(ps, Len(ps))
            /\ \A i \in 1 .. Len(body.entries) : body.entries[i].class = "PARAMETER"
            /\ IsInjective(ps) =>
                 /\ Len(body.entries) = Len(ps)
                 /\ \A i \in 1 .. Len(ps) :
                      body.entries[Len(ps) + 1 - i] = Entry(ps[i], "PARAMETER")
    BY <2>6, <2>7, BodyFacts DEF N
  <2>9. /\ Len(Body(ps).entries) = n
        /\ \A i \in 1 .. n : Body(ps).entries[n + 1 - i] = Entry(ps[i], "PARAMETER")
    BY <2>2, <2>8
  <2>10. 1 .. n - n = {} /\ n <= n
    BY <2>6
  <2> DEFINE es == Body(ps).entries
  <2>11. Len(es) = n /\ \A i \in 1 .. n : es[n + 1 - i] = Entry(ps[i], "PARAMETER")
    BY <2>9
  <2> HIDE DEF es
  <2>12. \A i \in 1 .. n : es[n + 1 - i].name = ps[i] /\ es[n + 1 - i].class = "PARAMETER"
    <3> SUFFICES ASSUME NEW i \in 1 .. n
                 PROVE  es[n + 1 - i].name = ps[i] /\ es[n + 1 - i].class = "PARAMETER"
      OBVIOUS
    <3>1. es[n + 1 - i] = Entry(ps[i], "PARAMETER")
      BY <2>11
    <3> QED
      BY <3>1 DEF Entry
  <2>13. Arriving(es, ps)
    BY <2>10, <2>11, <2>12 DEF Arriving
  <2> QED
    BY <2>2, <2>3, <2>13 DEF es
<1> QED
  BY <1>2, <1>3, LastBody

LEMMA ArriveStep ==
    ASSUME Scoped, ParametersOldest, ArgumentsArrive, [Next]_vars
    PROVE  ArgumentsArrive'
<1> USE DEF Scoped
<1>1. Functions' = Functions
  BY TreeStep, SameProgram
<1>2. ASSUME UNCHANGED vars PROVE ArgumentsArrive'
  BY <1>1, <1>2 DEF vars, functionVars, ArgumentsArrive
<1>3. ASSUME ~parsed' PROVE ArgumentsArrive'
  BY <1>3 DEF ArgumentsArrive
<1>4. ASSUME assign_offsets PROVE ArgumentsArrive'
  <2>1. scope' = scope /\ parameters' = parameters
    BY <1>4 DEF assign_offsets
  <2> SUFFICES ASSUME NEW f \in Functions, scope[f] # 0, IsInjective(parameters[f]),
                      NEW i \in 1 .. Len(parameters[f])
               PROVE  \E k \in DOMAIN tables'[scope[f]].entries :
                        LET e == tables'[scope[f]].entries[k]
                        IN  /\ e.name = parameters[f][i] /\ e.class = "PARAMETER"
                            /\ e.offset = 16 + 8 * (Len(parameters[f]) - i)
    BY <1>1, <2>1 DEF ArgumentsArrive
  <2> DEFINE s == scope[f]
             ps == parameters[f]
             n == Len(ps)
             old == tables[s].entries
             m == Len(old)
             k == m + 1 - i
             C == {"PARAMETER"}
  <2>2. s \in Scopes /\ s \in 1 .. Len(tables) /\ s \in 1 .. Len(tables')
    BY <1>4, OffsetsStep, TreeFacts DEF Scopes, BodiesPlaced
  <2>3. FirstOffset[s] # 0 /\ m \in Nat /\ n \in Nat
    <3>1. Rooted(tables) /\ m \in Nat
      BY <2>2, TreeFacts
    <3>2. FirstOffset[s] = -8
      BY <2>2, <3>1, FirstFacts
    <3>3. ps \in Seq(Names)
      BY DEF OthersTyped
    <3> QED
      BY <3>1, <3>2, <3>3
  <2>4. Arriving(old, ps)
    BY DEF ParametersOldest
  <2>5. n <= m /\ k \in 1 .. m
    BY <2>3, <2>4 DEF Arriving
  <2>6. old[k].name = ps[i] /\ old[k].class = "PARAMETER"
    BY <2>4 DEF Arriving
  <2>7. /\ tables'[s].entries[k].name = old[k].name
        /\ tables'[s].entries[k].class = old[k].class
        /\ tables'[s].entries[k].offset = 16 + 8 * Before(old, k, C)
        /\ DOMAIN tables'[s].entries = 1 .. m
    BY <1>4, <2>2, <2>3, <2>5, <2>6, Placed, TreeFactsNext
  <2>8. Before(old, k, C) = n - i
    <3> DEFINE a == m - n
    <3>1. a \in Nat /\ a + n = m /\ k = a + 1 + (n - i) /\ n - i \in 0 .. n
      BY <2>3, <2>5
    <3>2. \A j \in 1 .. a : old[j].class \notin C
      BY <2>4 DEF Arriving
    <3>3. ASSUME NEW j \in a + 1 .. a + n PROVE old[j].class \in C
      <4>1. m + 1 - j \in 1 .. n /\ j = m + 1 - (m + 1 - j)
        BY <2>3, <2>5, <3>1
      <4> QED
        BY <2>4, <4>1 DEF Arriving
    <3> HIDE DEF a, n, C, old, k
    <3>4. \A d \in 0 .. n : Before(old, a + 1 + d, C) = d
      BY <2>3, <3>1, <3>2, <3>3, BeforeLast
    <3> QED
      BY <3>1, <3>4
  <2> QED
    BY <2>5, <2>6, <2>7, <2>8
<1> QED
  BY <1>2, <1>3, <1>4, ParsingEnds DEF Next

\* A function of any number of parameters, each with a name of its own, reads
\* every one of them where a caller that pushes its arguments first to last has
\* put it: the parameters are the oldest entries of the scope, the last in front,
\* and assign_offsets_to_table numbers them from the front.
THEOREM ArgumentsArriveAlways == Spec => []ArgumentsArrive
<1>1. Init => ParametersOldest /\ ArgumentsArrive
  BY DEF Init, ParametersOldest, ArgumentsArrive
<1>2. Scoped /\ ParametersOldest /\ [Next]_vars => ParametersOldest'
  BY OldestStep
<1>3. Scoped /\ ParametersOldest /\ ArgumentsArrive /\ [Next]_vars => ArgumentsArrive'
  BY ArriveStep
<1> QED
  BY <1>1, <1>2, <1>3, ScopedAlways, PTL DEF Spec
=============================================================================
