--------------------------- MODULE MergesortProofs ---------------------------
(*****************************************************************************)
(* For every length, every value and every threshold: the parallel sort of   *)
(* demo/mergesort.c stays in bounds, its loop assertion holds, every fork of *)
(* it passes the checks CSolve makes, and so no interleaving has a race.     *)
(* Every interleaving ends with the memory the input determines.             *)
(*****************************************************************************)
EXTENDS Mergesort, FiniteSetTheorems, TLAPS

EP == INSTANCE EffectsProofs WITH
        EffNames <- {"read", "write"}, Commuting <- {<<"read", "read">>}

-----------------------------------------------------------------------------
(* The inductive invariant: every activation is well-formed.  The arrays a   *)
(* call works on are in bounds and the one it writes is another block than   *)
(* the ones it reads; a mergesort that has forked had a long array; a split  *)
(* and the indices of a merge are within its arrays.                         *)

Fits(ptr, m, n) == ptr[2] + m <= n

SortOK(f, n) ==
  /\ f.a[1] # f.b[1]
  /\ Fits(f.a, f.len, n) /\ Fits(f.b, f.len, n)
  /\ f.pc # "entry" => f.len > quick_size

MergeOK(f, n) ==
  /\ f.a[1] = f.b[1] /\ f.c[1] # f.a[1]
  /\ Fits(f.a, f.lena, n) /\ Fits(f.b, f.lenb, n) /\ Fits(f.c, f.lena + f.lenb, n)
  /\ f.pc \in {"entry", "find_split"} => f.lena > merge_size
  /\ f.lo <= f.hi /\ f.hi <= f.lenb
  /\ f.i <= f.lena /\ f.j <= f.lenb /\ f.k = f.i + f.j

ActOK(f, n) ==
  /\ f \in Activations
  /\ f.fn = "mergesort" => SortOK(f, n)
  /\ f.fn = "merge" => MergeOK(f, n)

TasksOK ==
  /\ \A p \in DOMAIN tasks : p \in Seq(Nat) /\ ActOK(tasks[p], len)
  /\ tasks = [p \in DOMAIN tasks |-> tasks[p]]

Inv == TypeOK /\ TasksOK

\* The calls that what a task has forked began with.
QuarterCalls(f) ==
  LET q == f.len \div 4
      r == f.len - (q + q + q)
  IN  <<SortCall(f.a, f.b, q),
        SortCall(Plus(f.a, q), Plus(f.b, q), q),
        SortCall(Plus(f.a, 2 * q), Plus(f.b, 2 * q), q),
        SortCall(Plus(f.a, 3 * q), Plus(f.b, 3 * q), r)>>

HalfCalls(f) ==
  LET q == f.len \div 4
      h == q + q
      r == f.len - (q + q + q)
  IN  <<MergeCall(f.a, Plus(f.a, q), q, q, f.b),
        MergeCall(Plus(f.a, h), Plus(f.a, 3 * q), q, r, Plus(f.b, h))>>

WholeCalls(f) ==
  LET h == 2 * (f.len \div 4)
  IN  <<MergeCall(f.b, Plus(f.b, h), h, f.len - h, f.a)>>

PartCalls(f) ==
  LET ha == f.lena \div 2
      sb == f.hi
  IN  <<MergeCall(f.a, f.b, ha, sb, f.c),
        MergeCall(Plus(f.a, ha), Plus(f.b, sb), f.lena - ha, f.lenb - sb, Plus(f.c, ha + sb))>>

Calls(f) ==
  IF f.fn = "mergesort"
  THEN IF f.pc = "quarters_sorted" THEN QuarterCalls(f)
       ELSE IF f.pc = "halves_merged" THEN HalfCalls(f)
       ELSE IF f.pc = "return" THEN WholeCalls(f) ELSE <<>>
  ELSE IF f.pc = "return" THEN PartCalls(f) ELSE <<>>

\* they are well-formed, stay within the effects of f and do not conflict
Sound(calls, f, n) ==
  /\ DOMAIN calls \subseteq Nat
  /\ \A i \in DOMAIN calls : ActOK(calls[i], n) /\ Checked!Within(calls[i], f)
  /\ \A i, j \in DOMAIN calls : i # j => Checked!ConflictFree(calls[i], calls[j])

-----------------------------------------------------------------------------
(* Cells.                                                                    *)

LEMMA CellIn ==
  ASSUME NEW ptr, NEW n, NEW i \in 0..(n - 1)
  PROVE  Plus(ptr, i) \in Cells(ptr, n)
BY DEF Cells

LEMMA CellsWithin ==
  ASSUME NEW a \in Pointers, NEW b \in Pointers, NEW n \in Int, NEW m \in Int,
         a[1] = b[1], b[2] <= a[2], a[2] + n <= b[2] + m
  PROVE  Cells(a, n) \subseteq Cells(b, m)
<1> SUFFICES ASSUME NEW i \in 0..(n - 1) PROVE Plus(a, i) \in Cells(b, m)
  BY DEF Cells
<1>1. (a[2] - b[2]) + i \in 0..(m - 1)
  BY DEF Pointers
<1>2. Plus(a, i) = Plus(b, (a[2] - b[2]) + i)
  BY DEF Plus, Pointers
<1> QED BY <1>1, <1>2 DEF Cells

LEMMA CellsApart ==
  ASSUME NEW a \in Pointers, NEW b \in Pointers, NEW n \in Int, NEW m \in Int,
         a[1] # b[1] \/ a[2] + n <= b[2] \/ b[2] + m <= a[2]
  PROVE  Cells(a, n) \cap Cells(b, m) = {}
<1> SUFFICES ASSUME NEW i \in 0..(n - 1), NEW j \in 0..(m - 1), Plus(a, i) = Plus(b, j)
             PROVE  FALSE
  BY DEF Cells
<1>1. a[1] = b[1] /\ a[2] + i = b[2] + j
  BY DEF Plus
<1> QED BY <1>1 DEF Pointers

LEMMA CellsInBounds ==
  ASSUME len \in Nat, NEW a \in Pointers, NEW n \in Int, Fits(a, n, len)
  PROVE  Cells(a, n) \subseteq Addresses
<1>1. a[1] \in {"in", "out"} /\ in \in Pointers /\ out \in Pointers
  BY DEF Pointers, in, out
<1>2. a[2] >= 0 /\ a[2] + n <= 0 + len
  BY DEF Pointers, Fits
<1>3. CASE a[1] = "in"
  BY <1>1, <1>2, <1>3, CellsWithin DEF in, Addresses
<1>4. CASE a[1] = "out"
  BY <1>1, <1>2, <1>4, CellsWithin DEF out, Addresses
<1> QED BY <1>1, <1>3, <1>4

LEMMA PlusPointer ==
  ASSUME NEW a \in Pointers, NEW n \in Nat
  PROVE  Plus(a, n) \in Pointers /\ Plus(a, n)[1] = a[1] /\ Plus(a, n)[2] = a[2] + n
BY DEF Plus, Pointers

-----------------------------------------------------------------------------
(* Steps of one task.                                                        *)

LEMMA SameRunning ==
  ASSUME NEW p
  PROVE  Running(p) <=> Checked!Running(p)
BY DEF Running, Checked!Running, IsStrictPrefix, Checked!IsStrictPrefix, IsPrefix, Checked!IsPrefix

LEMMA ChildFacts ==
  ASSUME NEW p \in Seq(Nat), NEW i \in Nat
  PROVE  Child(p, i) \in Seq(Nat) /\ Last(Child(p, i)) = i /\ Child(p, i) # p
<1>1. Child(p, i) \in Seq(Nat) /\ Len(Child(p, i)) = Len(p) + 1 /\ Child(p, i)[Len(p) + 1] = i
  BY DEF Child
<1> QED BY <1>1 DEF Last

\* A child of a running task is a new task.
LEMMA ChildIsNew ==
  ASSUME NEW p \in Seq(Nat), NEW i \in Nat, Running(p)
  PROVE  Child(p, i) \notin DOMAIN tasks
<1>1. p \in Seq(Int) /\ i \in Int
  <2>1. \A k \in 1..Len(p) : p[k] \in Int
    OBVIOUS
  <2> QED BY <2>1
<1>2. IsPrefix(p, p)
  BY DEF IsPrefix
<1>3. IsPrefix(p, Child(p, i))
  BY <1>1, <1>2, EP!PrefixOfChild DEF EP!Paths, EP!Child, Child, EP!IsPrefix, IsPrefix
<1> QED BY <1>3, ChildFacts DEF IsStrictPrefix, Running

\* Forking well-formed calls that pass the checks.
LEMMA CobeginStep ==
  ASSUME TasksOK, len' = len,
         NEW p, Running(p), NEW act, NEW calls, DOMAIN calls \subseteq Nat,
         Cobegin(p, act, calls),
         ActOK(act, len), Checked!Within(act, tasks[p]),
         \A i \in DOMAIN calls : ActOK(calls[i], len) /\ Checked!Within(calls[i], tasks[p]),
         \A i, j \in DOMAIN calls : i # j => Checked!ConflictFree(calls[i], calls[j])
  PROVE  TasksOK' /\ Checked!CheckedStep(p)
<1> DEFINE New == {Child(p, i) : i \in DOMAIN calls}
<1>0. p \in DOMAIN tasks /\ p \in Seq(Nat)
  BY DEF Running, TasksOK
<1>1. DOMAIN tasks' = DOMAIN tasks \cup New
  BY DEF Cobegin
<1>2. \A i \in DOMAIN calls : /\ Child(p, i) \in Seq(Nat) /\ Last(Child(p, i)) = i
                              /\ Child(p, i) \notin DOMAIN tasks
  BY <1>0, ChildFacts, ChildIsNew
<1>3. tasks'[p] = act
  BY <1>0 DEF Cobegin
<1>4. \A q \in DOMAIN tasks \ {p} : tasks'[q] = tasks[q]
  BY DEF Cobegin
<1>5. \A q \in New : tasks'[q] = calls[Last(q)] /\ Last(q) \in DOMAIN calls /\ q = Child(p, Last(q))
  BY <1>0, <1>2 DEF Cobegin
<1>6. DOMAIN tasks' \ DOMAIN tasks = New
  BY <1>1, <1>2
<1>8. TasksOK'
  <2>1. tasks' = [q \in DOMAIN tasks' |-> tasks'[q]]
    BY DEF Cobegin
  <2>2. ASSUME NEW q \in DOMAIN tasks' PROVE q \in Seq(Nat) /\ ActOK(tasks'[q], len)
    <3>1. CASE q \in New
      BY <1>2, <1>5, <3>1
    <3>2. CASE q = p
      BY <1>0, <1>3, <3>2
    <3>3. CASE q \in DOMAIN tasks \ {p}
      BY <1>4, <3>3 DEF TasksOK
    <3> QED BY <1>1, <3>1, <3>2, <3>3
  <2> QED BY <2>1, <2>2 DEF TasksOK
<1>9. Checked!CheckedStep(p)
  <2>1. Checked!Running(p)
    BY SameRunning
  <2>2. p \in DOMAIN tasks' /\ Checked!Within(tasks'[p], tasks[p])
    BY <1>0, <1>1, <1>3
  <2>3. \A q \in DOMAIN tasks \ {p} : q \in DOMAIN tasks' /\ tasks'[q] = tasks[q]
    BY <1>1, <1>4
  <2>4. \A q \in Checked!Forked : q = Checked!Child(p, Checked!Last(q))
    BY <1>5, <1>6 DEF Checked!Forked, Checked!Child, Child, Checked!Last, Last
  <2>5. Checked!SubEffects(p)
    BY <1>5, <1>6 DEF Checked!SubEffects, Checked!Forked
  <2>6. Checked!SiblingsDisjoint
    BY <1>5, <1>6 DEF Checked!SiblingsDisjoint, Checked!Forked
  <2> QED BY <2>1, <2>2, <2>3, <2>4, <2>5, <2>6 DEF Checked!CheckedStep
<1> QED BY <1>8, <1>9

\* Going on with the same effects.
LEMMA ContinueStep ==
  ASSUME TasksOK, len' = len, NEW p, Running(p), NEW act, Continue(p, act),
         ActOK(act, len), Checked!Within(act, tasks[p])
  PROVE  TasksOK' /\ Checked!CheckedStep(p)
<1>1. DOMAIN tasks' = DOMAIN tasks /\ p \in DOMAIN tasks /\ tasks'[p] = act
  BY DEF Continue, Running
<1>2. \A q \in DOMAIN tasks \ {p} : tasks'[q] = tasks[q]
  BY DEF Continue
<1>4. TasksOK'
  <2>1. tasks' = [q \in DOMAIN tasks' |-> tasks'[q]]
    BY DEF Continue, TasksOK
  <2>2. ASSUME NEW q \in DOMAIN tasks' PROVE q \in Seq(Nat) /\ ActOK(tasks'[q], len)
    BY <1>1, <1>2 DEF TasksOK
  <2> QED BY <2>1, <2>2 DEF TasksOK
<1>5. Checked!Running(p)
  BY SameRunning
<1> QED BY <1>1, <1>2, <1>4, <1>5 DEF Checked!CheckedStep, Checked!SubEffects,
          Checked!SiblingsDisjoint, Checked!Forked

LEMMA ReturnStep ==
  ASSUME TasksOK, len' = len, NEW p, Running(p), Return(p)
  PROVE  TasksOK' /\ Checked!CheckedReturn(p)
<1>1. DOMAIN tasks' = DOMAIN tasks \ {p} /\ \A q \in DOMAIN tasks' : tasks'[q] = tasks[q]
  BY DEF Return
<1>3. TasksOK'
  <2>1. tasks' = [q \in DOMAIN tasks' |-> tasks'[q]]
    BY DEF Return
  <2> QED BY <1>1, <2>1 DEF TasksOK
<1>4. Checked!Running(p)
  BY SameRunning
<1> QED BY <1>3, <1>4 DEF Checked!CheckedReturn, Checked!Return, Return

-----------------------------------------------------------------------------
(* Effects of calls against one another.                                     *)

LEMMA ConflictFreeFacts ==
  ASSUME NEW f, NEW g,
         Eff(f, "read") \cap Eff(g, "write") = {},
         Eff(f, "write") \cap Eff(g, "read") = {},
         Eff(f, "write") \cap Eff(g, "write") = {}
  PROVE  Checked!ConflictFree(f, g)
BY DEF Checked!ConflictFree, Checked!NonCommuting

LEMMA WithinFacts ==
  ASSUME NEW f, NEW g,
         Eff(f, "read") \subseteq Eff(g, "read"), Eff(f, "write") \subseteq Eff(g, "write")
  PROVE  Checked!Within(f, g)
BY DEF Checked!Within

\* Steps that change no argument change no effect.
LEMMA SameEffects ==
  ASSUME NEW f \in Activations, NEW g \in Activations, f.fn = g.fn, f.a = g.a, f.b = g.b,
         f.fn = "mergesort" => f.len = g.len,
         f.fn = "merge" => f.lena = g.lena /\ f.lenb = g.lenb /\ f.c = g.c
  PROVE  Checked!Within(f, g)
<1>1. f.fn \in {"mergesort", "merge"}
  BY DEF Activations
<1> QED BY <1>1, WithinFacts DEF Eff

\* Sorts of separate parts of the arrays do not conflict.
LEMMA SortsApart ==
  ASSUME NEW f \in Activations, NEW g \in Activations,
         f.fn = "mergesort", g.fn = "mergesort",
         f.a[1] = g.a[1], f.b[1] = g.b[1], f.a[1] # f.b[1],
         \/ f.a[2] + f.len <= g.a[2] /\ f.b[2] + f.len <= g.b[2]
         \/ g.a[2] + g.len <= f.a[2] /\ g.b[2] + g.len <= f.b[2]
  PROVE  Checked!ConflictFree(f, g) /\ Checked!ConflictFree(g, f)
<1>1. /\ f.a \in Pointers /\ f.b \in Pointers /\ f.len \in Int
      /\ g.a \in Pointers /\ g.b \in Pointers /\ g.len \in Int
  BY DEF Activations
<1>2. Cells(f.a, f.len) \cap Cells(g.a, g.len) = {}
  BY <1>1, CellsApart
<1>3. Cells(f.a, f.len) \cap Cells(g.b, g.len) = {}
  BY <1>1, CellsApart
<1>4. Cells(f.b, f.len) \cap Cells(g.a, g.len) = {}
  BY <1>1, CellsApart
<1>5. Cells(f.b, f.len) \cap Cells(g.b, g.len) = {}
  BY <1>1, CellsApart
<1>6. (Cells(f.a, f.len) \cup Cells(f.b, f.len)) \cap (Cells(g.a, g.len) \cup Cells(g.b, g.len)) = {}
  BY <1>2, <1>3, <1>4, <1>5
<1> QED BY <1>6, ConflictFreeFacts DEF Eff

\* Merges into separate parts of one block do not conflict.
LEMMA MergesApart ==
  ASSUME NEW f \in Activations, NEW g \in Activations,
         f.fn = "merge", g.fn = "merge",
         f.a[1] = f.b[1], g.a[1] = g.b[1], f.a[1] = g.a[1], f.c[1] = g.c[1], f.c[1] # f.a[1],
         \/ f.c[2] + (f.lena + f.lenb) <= g.c[2]
         \/ g.c[2] + (g.lena + g.lenb) <= f.c[2]
  PROVE  Checked!ConflictFree(f, g) /\ Checked!ConflictFree(g, f)
<1>1. /\ f.a \in Pointers /\ f.b \in Pointers /\ f.c \in Pointers
      /\ g.a \in Pointers /\ g.b \in Pointers /\ g.c \in Pointers
      /\ f.lena \in Int /\ f.lenb \in Int /\ f.lena + f.lenb \in Int
      /\ g.lena \in Int /\ g.lenb \in Int /\ g.lena + g.lenb \in Int
  BY DEF Activations
<1>2. Cells(f.c, f.lena + f.lenb) \cap Cells(g.c, g.lena + g.lenb) = {}
  BY <1>1, CellsApart
<1>3. /\ Cells(f.c, f.lena + f.lenb) \cap Cells(g.a, g.lena) = {}
      /\ Cells(f.c, f.lena + f.lenb) \cap Cells(g.b, g.lenb) = {}
  BY <1>1, CellsApart
<1>4. /\ Cells(f.a, f.lena) \cap Cells(g.c, g.lena + g.lenb) = {}
      /\ Cells(f.b, f.lenb) \cap Cells(g.c, g.lena + g.lenb) = {}
  BY <1>1, CellsApart
<1>5. /\ Eff(f, "write") = Cells(f.c, f.lena + f.lenb)
      /\ Eff(g, "write") = Cells(g.c, g.lena + g.lenb)
      /\ Eff(f, "read") = Cells(f.a, f.lena) \cup Cells(f.b, f.lenb)
      /\ Eff(g, "read") = Cells(g.a, g.lena) \cup Cells(g.b, g.lenb)
  BY DEF Eff
<1> QED BY <1>2, <1>3, <1>4, <1>5, ConflictFreeFacts

\* A sort of part of the arrays touches no more than the whole sort.
LEMMA SortWithin ==
  ASSUME NEW f \in Activations, NEW g \in Activations,
         f.fn = "mergesort", g.fn = "mergesort",
         f.a[1] = g.a[1], f.b[1] = g.b[1],
         g.a[2] <= f.a[2], f.a[2] + f.len <= g.a[2] + g.len,
         g.b[2] <= f.b[2], f.b[2] + f.len <= g.b[2] + g.len
  PROVE  Checked!Within(f, g)
<1>1. /\ f.a \in Pointers /\ f.b \in Pointers /\ f.len \in Int
      /\ g.a \in Pointers /\ g.b \in Pointers /\ g.len \in Int
  BY DEF Activations
<1>2. Cells(f.a, f.len) \subseteq Cells(g.a, g.len) /\ Cells(f.b, f.len) \subseteq Cells(g.b, g.len)
  BY <1>1, CellsWithin
<1> QED BY <1>2, WithinFacts DEF Eff

\* Neither does a merge of parts of one array into the other.
LEMMA MergeWithinSort ==
  ASSUME NEW f \in Activations, NEW g \in Activations, f.fn = "merge", g.fn = "mergesort",
         NEW x \in Pointers, NEW y \in Pointers, {x, y} = {g.a, g.b},
         f.a[1] = x[1], f.b[1] = x[1], f.c[1] = y[1],
         x[2] <= f.a[2], f.a[2] + f.lena <= x[2] + g.len,
         x[2] <= f.b[2], f.b[2] + f.lenb <= x[2] + g.len,
         y[2] <= f.c[2], f.c[2] + (f.lena + f.lenb) <= y[2] + g.len
  PROVE  Checked!Within(f, g)
<1>1. /\ f.a \in Pointers /\ f.b \in Pointers /\ f.c \in Pointers
      /\ f.lena \in Int /\ f.lenb \in Int /\ f.lena + f.lenb \in Int /\ g.len \in Int
  BY DEF Activations
<1>2. /\ Cells(f.a, f.lena) \subseteq Cells(x, g.len)
      /\ Cells(f.b, f.lenb) \subseteq Cells(x, g.len)
      /\ Cells(f.c, f.lena + f.lenb) \subseteq Cells(y, g.len)
  BY <1>1, CellsWithin
<1>3. Cells(x, g.len) \cup Cells(y, g.len) = Cells(g.a, g.len) \cup Cells(g.b, g.len)
  <2>1. (x = g.a /\ y = g.b) \/ (x = g.b /\ y = g.a)
    OBVIOUS
  <2> QED BY <2>1
<1>4. /\ Eff(f, "write") = Cells(f.c, f.lena + f.lenb)
      /\ Eff(f, "read") = Cells(f.a, f.lena) \cup Cells(f.b, f.lenb)
      /\ Eff(g, "read") = Cells(g.a, g.len) \cup Cells(g.b, g.len)
      /\ Eff(g, "write") = Cells(g.a, g.len) \cup Cells(g.b, g.len)
  BY DEF Eff
<1> QED BY <1>2, <1>3, <1>4, WithinFacts

LEMMA MergeWithin ==
  ASSUME NEW f \in Activations, NEW g \in Activations, f.fn = "merge", g.fn = "merge",
         f.a[1] = g.a[1], f.b[1] = g.b[1], f.c[1] = g.c[1],
         g.a[2] <= f.a[2], f.a[2] + f.lena <= g.a[2] + g.lena,
         g.b[2] <= f.b[2], f.b[2] + f.lenb <= g.b[2] + g.lenb,
         g.c[2] <= f.c[2], f.c[2] + (f.lena + f.lenb) <= g.c[2] + (g.lena + g.lenb)
  PROVE  Checked!Within(f, g)
<1>1. /\ f.a \in Pointers /\ f.b \in Pointers /\ f.c \in Pointers
      /\ g.a \in Pointers /\ g.b \in Pointers /\ g.c \in Pointers
      /\ f.lena \in Int /\ f.lenb \in Int /\ f.lena + f.lenb \in Int
      /\ g.lena \in Int /\ g.lenb \in Int /\ g.lena + g.lenb \in Int
  BY DEF Activations
<1>2. Cells(f.a, f.lena) \subseteq Cells(g.a, g.lena)
  BY <1>1, CellsWithin
<1>3. Cells(f.b, f.lenb) \subseteq Cells(g.b, g.lenb)
  BY <1>1, CellsWithin
<1>4. Cells(f.c, f.lena + f.lenb) \subseteq Cells(g.c, g.lena + g.lenb)
  BY <1>1, CellsWithin
<1> QED BY <1>2, <1>3, <1>4, WithinFacts DEF Eff

-----------------------------------------------------------------------------
(* The actions.                                                              *)

LEMMA SortFrame ==
  ASSUME TasksOK, NEW p, NEW pc, At(p, "mergesort", pc)
  PROVE  /\ Running(p) /\ tasks[p] \in Activations /\ tasks[p].fn = "mergesort" /\ tasks[p].pc = pc
         /\ tasks[p].a \in Pointers /\ tasks[p].b \in Pointers /\ tasks[p].len \in Nat
         /\ SortOK(tasks[p], len)
<1>1. Running(p) /\ p \in DOMAIN tasks /\ tasks[p].fn = "mergesort" /\ tasks[p].pc = pc
  BY DEF At, Running
<1>2. ActOK(tasks[p], len)
  BY <1>1 DEF TasksOK
<1> QED BY <1>1, <1>2 DEF ActOK, Activations

LEMMA MergeFrame ==
  ASSUME TasksOK, NEW p, NEW pc, At(p, "merge", pc)
  PROVE  /\ Running(p) /\ tasks[p] \in Activations /\ tasks[p].fn = "merge" /\ tasks[p].pc = pc
         /\ tasks[p].a \in Pointers /\ tasks[p].b \in Pointers /\ tasks[p].c \in Pointers
         /\ tasks[p].lena \in Nat /\ tasks[p].lenb \in Nat
         /\ tasks[p].lo \in Nat /\ tasks[p].hi \in Nat
         /\ tasks[p].i \in Nat /\ tasks[p].j \in Nat /\ tasks[p].k \in Nat
         /\ MergeOK(tasks[p], len)
<1>1. Running(p) /\ p \in DOMAIN tasks /\ tasks[p].fn = "merge" /\ tasks[p].pc = pc
  BY DEF At, Running
<1>2. ActOK(tasks[p], len)
  BY <1>1 DEF TasksOK
<1> QED BY <1>1, <1>2 DEF ActOK, Activations

\* A mergesort that moves on keeps its frame.
LEMMA SortMovesOn ==
  ASSUME TasksOK, NEW p, NEW pc, At(p, "mergesort", pc), tasks[p].len > quick_size,
         NEW next \in {"quarters_sorted", "halves_merged", "return"}
  PROVE  LET act == [tasks[p] EXCEPT !.pc = next]
         IN  ActOK(act, len) /\ Checked!Within(act, tasks[p])
<1> DEFINE f == tasks[p]
           act == [f EXCEPT !.pc = next]
<1>1. /\ f \in Activations /\ f.fn = "mergesort" /\ f.a \in Pointers /\ f.b \in Pointers
      /\ f.len \in Nat /\ SortOK(f, len)
  BY SortFrame
<1>2. /\ act.fn = "mergesort" /\ act.a = f.a /\ act.b = f.b /\ act.len = f.len
      /\ act \in Activations
  BY <1>1 DEF Activations
<1>3. ActOK(act, len)
  BY <1>1, <1>2 DEF ActOK, SortOK
<1>4. Checked!Within(act, f)
  BY <1>1, <1>2, SameEffects
<1> QED BY <1>3, <1>4

\* Well-formed calls.
LEMMA SortCallOK ==
  ASSUME NEW a \in Pointers, NEW b \in Pointers, NEW n \in Nat,
         a[1] # b[1], Fits(a, n, len), Fits(b, n, len)
  PROVE  LET c == SortCall(a, b, n)
         IN  ActOK(c, len) /\ c \in Activations /\ c.fn = "mergesort" /\ c.a = a /\ c.b = b /\ c.len = n
BY DEF SortCall, ActOK, SortOK, Activations

LEMMA MergeCallOK ==
  ASSUME MergesortAssumption,
         NEW a \in Pointers, NEW b \in Pointers, NEW c \in Pointers, NEW n \in Nat, NEW m \in Nat,
         a[1] = b[1], c[1] # a[1], Fits(a, n, len), Fits(b, m, len), Fits(c, n + m, len)
  PROVE  LET d == MergeCall(a, b, n, m, c)
         IN  /\ ActOK(d, len) /\ d \in Activations /\ d.fn = "merge"
             /\ d.a = a /\ d.b = b /\ d.c = c /\ d.lena = n /\ d.lenb = m
<1> DEFINE d == MergeCall(a, b, n, m, c)
<1>1. /\ d \in Activations /\ d.fn = "merge" /\ d.a = a /\ d.b = b /\ d.c = c
      /\ d.lena = n /\ d.lenb = m /\ d.lo = 0 /\ d.hi = m /\ d.i = 0 /\ d.j = 0 /\ d.k = 0
  BY DEF MergeCall, Activations
<1>2. d.pc \in {"entry", "find_split"} => n > merge_size
  BY DEF MergeCall, MergesortAssumption
<1>3. MergeOK(d, len)
  BY <1>1, <1>2 DEF MergeOK
<1> QED BY <1>1, <1>3 DEF ActOK

LEMMA QuarterCallsSound ==
  ASSUME MergesortAssumption, len \in Nat, NEW f, ActOK(f, len), f.fn = "mergesort"
  PROVE  Sound(QuarterCalls(f), f, len)
<1> DEFINE q == f.len \div 4
           r == f.len - (q + q + q)
           c1 == SortCall(f.a, f.b, q)
           c2 == SortCall(Plus(f.a, q), Plus(f.b, q), q)
           c3 == SortCall(Plus(f.a, 2 * q), Plus(f.b, 2 * q), q)
           c4 == SortCall(Plus(f.a, 3 * q), Plus(f.b, 3 * q), r)
           calls == QuarterCalls(f)
<1>1. /\ f \in Activations /\ f.a \in Pointers /\ f.b \in Pointers /\ f.len \in Nat
      /\ SortOK(f, len)
  BY DEF ActOK, Activations
<1>2. q \in Nat /\ r \in Nat /\ q + q + q + r = f.len
  BY <1>1
<1> HIDE DEF q, r
<1>3. /\ f.a[1] # f.b[1] /\ f.a[2] \in Nat /\ f.b[2] \in Nat
      /\ f.a[2] + f.len <= len /\ f.b[2] + f.len <= len
  BY <1>1 DEF SortOK, Fits, Pointers
<1>p2. /\ Plus(f.a, q) \in Pointers /\ Plus(f.a, q)[1] = f.a[1] /\ Plus(f.a, q)[2] = f.a[2] + q
       /\ Plus(f.b, q) \in Pointers /\ Plus(f.b, q)[1] = f.b[1] /\ Plus(f.b, q)[2] = f.b[2] + q
  BY <1>1, <1>2, PlusPointer
<1>5. 2 * q \in Nat /\ 3 * q \in Nat /\ 2 * q = q + q /\ 3 * q = q + q + q
  BY <1>2
<1>p3. /\ Plus(f.a, 2 * q) \in Pointers /\ Plus(f.a, 2 * q)[1] = f.a[1] /\ Plus(f.a, 2 * q)[2] = f.a[2] + 2 * q
       /\ Plus(f.b, 2 * q) \in Pointers /\ Plus(f.b, 2 * q)[1] = f.b[1] /\ Plus(f.b, 2 * q)[2] = f.b[2] + 2 * q
  BY <1>1, <1>5, PlusPointer
<1>p4. /\ Plus(f.a, 3 * q) \in Pointers /\ Plus(f.a, 3 * q)[1] = f.a[1] /\ Plus(f.a, 3 * q)[2] = f.a[2] + 3 * q
       /\ Plus(f.b, 3 * q) \in Pointers /\ Plus(f.b, 3 * q)[1] = f.b[1] /\ Plus(f.b, 3 * q)[2] = f.b[2] + 3 * q
  BY <1>1, <1>5, PlusPointer
<1>c1. ActOK(c1, len) /\ c1 \in Activations /\ c1.fn = "mergesort" /\ c1.a = f.a /\ c1.b = f.b /\ c1.len = q
  <2>1. Fits(f.a, q, len) /\ Fits(f.b, q, len)
    BY <1>1, <1>2, <1>3 DEF Fits
  <2> QED BY <1>1, <1>2, <1>3, <2>1, SortCallOK
<1>c2. /\ ActOK(c2, len) /\ c2 \in Activations /\ c2.fn = "mergesort"
       /\ c2.a = Plus(f.a, q) /\ c2.b = Plus(f.b, q) /\ c2.len = q
  <2>1. Fits(Plus(f.a, q), q, len) /\ Fits(Plus(f.b, q), q, len)
    BY <1>1, <1>2, <1>3, <1>5, <1>p2 DEF Fits
  <2>2. Plus(f.a, q)[1] # Plus(f.b, q)[1]
    BY <1>3, <1>p2
  <2> QED BY <1>2, <1>p2, <2>1, <2>2, SortCallOK
<1>c3. /\ ActOK(c3, len) /\ c3 \in Activations /\ c3.fn = "mergesort"
       /\ c3.a = Plus(f.a, 2 * q) /\ c3.b = Plus(f.b, 2 * q) /\ c3.len = q
  <2>1. Fits(Plus(f.a, 2 * q), q, len) /\ Fits(Plus(f.b, 2 * q), q, len)
    BY <1>1, <1>2, <1>3, <1>5, <1>p3 DEF Fits
  <2>2. Plus(f.a, 2 * q)[1] # Plus(f.b, 2 * q)[1]
    BY <1>3, <1>p3
  <2> QED BY <1>2, <1>p3, <2>1, <2>2, SortCallOK
<1>c4. /\ ActOK(c4, len) /\ c4 \in Activations /\ c4.fn = "mergesort"
       /\ c4.a = Plus(f.a, 3 * q) /\ c4.b = Plus(f.b, 3 * q) /\ c4.len = r
  <2>1. Fits(Plus(f.a, 3 * q), r, len) /\ Fits(Plus(f.b, 3 * q), r, len)
    BY <1>1, <1>2, <1>3, <1>5, <1>p4 DEF Fits
  <2>2. Plus(f.a, 3 * q)[1] # Plus(f.b, 3 * q)[1]
    BY <1>3, <1>p4
  <2> QED BY <1>2, <1>p4, <2>1, <2>2, SortCallOK
<1> HIDE DEF c1, c2, c3, c4
<1>o. /\ c1.a[1] = f.a[1] /\ c2.a[1] = f.a[1] /\ c3.a[1] = f.a[1] /\ c4.a[1] = f.a[1]
      /\ c1.b[1] = f.b[1] /\ c2.b[1] = f.b[1] /\ c3.b[1] = f.b[1] /\ c4.b[1] = f.b[1]
      /\ c1.a[2] = f.a[2] /\ c2.a[2] = f.a[2] + q /\ c3.a[2] = f.a[2] + 2 * q /\ c4.a[2] = f.a[2] + 3 * q
      /\ c1.b[2] = f.b[2] /\ c2.b[2] = f.b[2] + q /\ c3.b[2] = f.b[2] + 2 * q /\ c4.b[2] = f.b[2] + 3 * q
  BY <1>c1, <1>c2, <1>c3, <1>c4, <1>p2, <1>p3, <1>p4
<1>6. /\ Checked!Within(c1, f) /\ Checked!Within(c2, f)
      /\ Checked!Within(c3, f) /\ Checked!Within(c4, f)
  <2>1. Checked!Within(c1, f)
    BY <1>1, <1>2, <1>3, <1>o, <1>c1, SortWithin
  <2>2. Checked!Within(c2, f)
    BY <1>1, <1>2, <1>3, <1>o, <1>c2, SortWithin
  <2>3. Checked!Within(c3, f)
    BY <1>1, <1>2, <1>3, <1>o, <1>c3, SortWithin
  <2>4. Checked!Within(c4, f)
    BY <1>1, <1>2, <1>3, <1>o, <1>c4, SortWithin
  <2> QED BY <2>1, <2>2, <2>3, <2>4
<1>7. /\ Checked!ConflictFree(c1, c2) /\ Checked!ConflictFree(c2, c1)
      /\ Checked!ConflictFree(c1, c3) /\ Checked!ConflictFree(c3, c1)
      /\ Checked!ConflictFree(c1, c4) /\ Checked!ConflictFree(c4, c1)
      /\ Checked!ConflictFree(c2, c3) /\ Checked!ConflictFree(c3, c2)
      /\ Checked!ConflictFree(c2, c4) /\ Checked!ConflictFree(c4, c2)
      /\ Checked!ConflictFree(c3, c4) /\ Checked!ConflictFree(c4, c3)
  <2>1. Checked!ConflictFree(c1, c2) /\ Checked!ConflictFree(c2, c1)
    BY <1>2, <1>3, <1>o, <1>c1, <1>c2, SortsApart
  <2>2. Checked!ConflictFree(c1, c3) /\ Checked!ConflictFree(c3, c1)
    BY <1>2, <1>3, <1>o, <1>c1, <1>c3, SortsApart
  <2>3. Checked!ConflictFree(c1, c4) /\ Checked!ConflictFree(c4, c1)
    BY <1>2, <1>3, <1>o, <1>c1, <1>c4, SortsApart
  <2>4. Checked!ConflictFree(c2, c3) /\ Checked!ConflictFree(c3, c2)
    BY <1>2, <1>3, <1>o, <1>c2, <1>c3, SortsApart
  <2>5. Checked!ConflictFree(c2, c4) /\ Checked!ConflictFree(c4, c2)
    BY <1>2, <1>3, <1>o, <1>c2, <1>c4, SortsApart
  <2>6. Checked!ConflictFree(c3, c4) /\ Checked!ConflictFree(c4, c3)
    BY <1>2, <1>3, <1>o, <1>c3, <1>c4, SortsApart
  <2> QED BY <2>1, <2>2, <2>3, <2>4, <2>5, <2>6
<1>9. DOMAIN calls = 1..4 /\ calls[1] = c1 /\ calls[2] = c2 /\ calls[3] = c3 /\ calls[4] = c4
  BY DEF QuarterCalls, q, r, c1, c2, c3, c4
<1> HIDE DEF calls
<1>10. \A i \in DOMAIN calls : ActOK(calls[i], len) /\ Checked!Within(calls[i], f)
  BY <1>6, <1>9, <1>c1, <1>c2, <1>c3, <1>c4
<1>11. \A i, j \in DOMAIN calls : i # j => Checked!ConflictFree(calls[i], calls[j])
  BY <1>7, <1>9
<1>12. DOMAIN calls \subseteq Nat
  BY <1>9
<1> QED BY <1>10, <1>11, <1>12 DEF Sound, calls

LEMMA HalfCallsSound ==
  ASSUME MergesortAssumption, len \in Nat, NEW f, ActOK(f, len), f.fn = "mergesort"
  PROVE  Sound(HalfCalls(f), f, len)
<1> DEFINE q == f.len \div 4
           h == q + q
           r == f.len - (q + q + q)
           c1 == MergeCall(f.a, Plus(f.a, q), q, q, f.b)
           c2 == MergeCall(Plus(f.a, h), Plus(f.a, 3 * q), q, r, Plus(f.b, h))
           calls == HalfCalls(f)
<1>1. /\ f \in Activations /\ f.a \in Pointers /\ f.b \in Pointers /\ f.len \in Nat
      /\ SortOK(f, len)
  BY DEF ActOK, Activations
<1>n. f.len \in Nat /\ q \in Nat /\ 4 * q <= f.len
  BY <1>1
<1> HIDE DEF q
<1>2. q \in Nat /\ h \in Nat /\ r \in Nat /\ h = q + q /\ h + q + r = f.len /\ 3 * q \in Nat /\ 3 * q = h + q
  BY <1>n
<1> HIDE DEF q, h, r
<1>3. /\ f.a[1] # f.b[1] /\ f.a[2] \in Nat /\ f.b[2] \in Nat
      /\ f.a[2] + f.len <= len /\ f.b[2] + f.len <= len
  BY <1>1 DEF SortOK, Fits, Pointers
<1>p1. Plus(f.a, q) \in Pointers /\ Plus(f.a, q)[1] = f.a[1] /\ Plus(f.a, q)[2] = f.a[2] + q
  BY <1>1, <1>2, PlusPointer
<1>p2. Plus(f.a, h) \in Pointers /\ Plus(f.a, h)[1] = f.a[1] /\ Plus(f.a, h)[2] = f.a[2] + h
  BY <1>1, <1>2, PlusPointer
<1>p3. Plus(f.a, 3 * q) \in Pointers /\ Plus(f.a, 3 * q)[1] = f.a[1] /\ Plus(f.a, 3 * q)[2] = f.a[2] + 3 * q
  BY <1>1, <1>2, PlusPointer
<1>p4. Plus(f.b, h) \in Pointers /\ Plus(f.b, h)[1] = f.b[1] /\ Plus(f.b, h)[2] = f.b[2] + h
  BY <1>1, <1>2, PlusPointer
<1>c1. /\ ActOK(c1, len) /\ c1 \in Activations /\ c1.fn = "merge"
       /\ c1.a = f.a /\ c1.b = Plus(f.a, q) /\ c1.c = f.b /\ c1.lena = q /\ c1.lenb = q
  <2>1. Fits(f.a, q, len) /\ Fits(Plus(f.a, q), q, len) /\ Fits(f.b, q + q, len)
    BY <1>1, <1>2, <1>3, <1>p1 DEF Fits
  <2>2. f.a[1] = Plus(f.a, q)[1] /\ f.b[1] # f.a[1]
    BY <1>1, <1>2, <1>3, <1>p1
  <2>3. f.a \in Pointers /\ f.b \in Pointers /\ Plus(f.a, q) \in Pointers /\ q \in Nat
    BY <1>1, <1>2, <1>p1
  <2> QED BY <2>1, <2>2, <2>3, MergeCallOK
<1>c2. /\ ActOK(c2, len) /\ c2 \in Activations /\ c2.fn = "merge"
       /\ c2.a = Plus(f.a, h) /\ c2.b = Plus(f.a, 3 * q) /\ c2.c = Plus(f.b, h) /\ c2.lena = q /\ c2.lenb = r
  <2>1. Fits(Plus(f.a, h), q, len) /\ Fits(Plus(f.a, 3 * q), r, len) /\ Fits(Plus(f.b, h), q + r, len)
    BY <1>1, <1>2, <1>3, <1>p2, <1>p3, <1>p4 DEF Fits
  <2>2. Plus(f.a, h)[1] = Plus(f.a, 3 * q)[1] /\ Plus(f.b, h)[1] # Plus(f.a, h)[1]
    BY <1>1, <1>2, <1>3, <1>p2, <1>p3, <1>p4
  <2>3. /\ Plus(f.a, h) \in Pointers /\ Plus(f.a, 3 * q) \in Pointers
        /\ Plus(f.b, h) \in Pointers /\ q \in Nat /\ r \in Nat
    BY <1>2, <1>p2, <1>p3, <1>p4
  <2> QED BY <2>1, <2>2, <2>3, MergeCallOK
<1> HIDE DEF c1, c2
<1>5. Checked!Within(c1, f)
  <2>1. /\ c1.a[1] = f.a[1] /\ c1.b[1] = f.a[1] /\ c1.c[1] = f.b[1]
        /\ c1.a[2] = f.a[2] /\ c1.b[2] = f.a[2] + q /\ c1.c[2] = f.b[2]
    BY <1>c1, <1>p1
  <2> QED BY <1>1, <1>2, <1>3, <1>c1, <2>1, MergeWithinSort
<1>6. Checked!Within(c2, f)
  <2>1. /\ c2.a[1] = f.a[1] /\ c2.b[1] = f.a[1] /\ c2.c[1] = f.b[1]
        /\ c2.a[2] = f.a[2] + h /\ c2.b[2] = f.a[2] + 3 * q /\ c2.c[2] = f.b[2] + h
    BY <1>c2, <1>p2, <1>p3, <1>p4
  <2> QED BY <1>1, <1>2, <1>3, <1>c2, <2>1, MergeWithinSort
<1>7. Checked!ConflictFree(c1, c2) /\ Checked!ConflictFree(c2, c1)
  <2>1. /\ c1.a[1] = f.a[1] /\ c1.b[1] = f.a[1] /\ c1.c[1] = f.b[1] /\ c1.c[2] = f.b[2]
        /\ c2.a[1] = f.a[1] /\ c2.b[1] = f.a[1] /\ c2.c[1] = f.b[1] /\ c2.c[2] = f.b[2] + h
    BY <1>c1, <1>c2, <1>p1, <1>p2, <1>p3, <1>p4
  <2> QED BY <1>2, <1>3, <1>c1, <1>c2, <2>1, MergesApart
<1>8. DOMAIN calls = 1..2 /\ calls[1] = c1 /\ calls[2] = c2
  BY DEF HalfCalls, q, h, r, c1, c2
<1> HIDE DEF calls
<1>9. \A i \in DOMAIN calls : ActOK(calls[i], len) /\ Checked!Within(calls[i], f)
  BY <1>5, <1>6, <1>8, <1>c1, <1>c2
<1>10. \A i, j \in DOMAIN calls : i # j => Checked!ConflictFree(calls[i], calls[j])
  BY <1>7, <1>8
<1>11. DOMAIN calls \subseteq Nat
  BY <1>8
<1> QED BY <1>9, <1>10, <1>11 DEF Sound, calls

LEMMA WholeCallsSound ==
  ASSUME MergesortAssumption, len \in Nat, NEW f, ActOK(f, len), f.fn = "mergesort"
  PROVE  Sound(WholeCalls(f), f, len)
<1> DEFINE h == 2 * (f.len \div 4)
           r == f.len - h
           c1 == MergeCall(f.b, Plus(f.b, h), h, r, f.a)
           calls == WholeCalls(f)
<1>1. /\ f \in Activations /\ f.a \in Pointers /\ f.b \in Pointers /\ f.len \in Nat
      /\ SortOK(f, len)
  BY DEF ActOK, Activations
<1>2. h \in Nat /\ r \in Nat /\ h + r = f.len
  BY <1>1
<1> HIDE DEF h, r
<1>3. /\ f.a[1] # f.b[1] /\ f.a[2] \in Nat /\ f.b[2] \in Nat
      /\ f.a[2] + f.len <= len /\ f.b[2] + f.len <= len
  BY <1>1 DEF SortOK, Fits, Pointers
<1>p1. Plus(f.b, h) \in Pointers /\ Plus(f.b, h)[1] = f.b[1] /\ Plus(f.b, h)[2] = f.b[2] + h
  BY <1>1, <1>2, PlusPointer
<1>c1. /\ ActOK(c1, len) /\ c1 \in Activations /\ c1.fn = "merge"
       /\ c1.a = f.b /\ c1.b = Plus(f.b, h) /\ c1.c = f.a /\ c1.lena = h /\ c1.lenb = r
  <2>1. Fits(f.b, h, len) /\ Fits(Plus(f.b, h), r, len) /\ Fits(f.a, h + r, len)
    BY <1>1, <1>2, <1>3, <1>p1 DEF Fits
  <2>2. f.b[1] = Plus(f.b, h)[1] /\ f.a[1] # f.b[1]
    BY <1>1, <1>2, <1>3, <1>p1
  <2>3. f.a \in Pointers /\ f.b \in Pointers /\ Plus(f.b, h) \in Pointers /\ h \in Nat /\ r \in Nat
    BY <1>1, <1>2, <1>p1
  <2> QED BY <2>1, <2>2, <2>3, MergeCallOK
<1> HIDE DEF c1
<1>5. Checked!Within(c1, f)
  <2>1. /\ c1.a[1] = f.b[1] /\ c1.b[1] = f.b[1] /\ c1.c[1] = f.a[1]
        /\ c1.a[2] = f.b[2] /\ c1.b[2] = f.b[2] + h /\ c1.c[2] = f.a[2]
    BY <1>c1, <1>p1
  <2> QED BY <1>1, <1>2, <1>3, <1>c1, <2>1, MergeWithinSort
<1>6. DOMAIN calls = 1..1 /\ calls[1] = c1
  BY DEF WholeCalls, h, r, c1
<1> HIDE DEF calls
<1>7. \A i \in DOMAIN calls : ActOK(calls[i], len) /\ Checked!Within(calls[i], f)
  BY <1>5, <1>6, <1>c1
<1>8. \A i, j \in DOMAIN calls : i # j => Checked!ConflictFree(calls[i], calls[j])
  BY <1>6
<1>9. DOMAIN calls \subseteq Nat
  BY <1>6
<1> QED BY <1>7, <1>8, <1>9 DEF Sound, calls

LEMMA PartCallsSound ==
  ASSUME MergesortAssumption, len \in Nat, NEW f, ActOK(f, len), f.fn = "merge"
  PROVE  Sound(PartCalls(f), f, len)
<1> DEFINE ha == f.lena \div 2
           sb == f.hi
           ra == f.lena - ha
           rb == f.lenb - sb
           n == ha + sb
           c1 == MergeCall(f.a, f.b, ha, sb, f.c)
           c2 == MergeCall(Plus(f.a, ha), Plus(f.b, sb), ra, rb, Plus(f.c, n))
           calls == PartCalls(f)
<1>1. /\ f \in Activations /\ f.a \in Pointers /\ f.b \in Pointers /\ f.c \in Pointers
      /\ f.lena \in Nat /\ f.lenb \in Nat /\ f.hi \in Nat /\ MergeOK(f, len)
  BY DEF ActOK, Activations
<1>2. /\ ha \in Nat /\ sb \in Nat /\ ra \in Nat /\ rb \in Nat /\ n \in Nat
      /\ ha + ra = f.lena /\ sb + rb = f.lenb /\ n = ha + sb
  BY <1>1 DEF MergeOK
<1> HIDE DEF ha, sb, ra, rb, n
<1>3. /\ f.a[1] = f.b[1] /\ f.c[1] # f.a[1] /\ f.a[2] \in Nat /\ f.b[2] \in Nat /\ f.c[2] \in Nat
      /\ f.a[2] + f.lena <= len /\ f.b[2] + f.lenb <= len /\ f.c[2] + (f.lena + f.lenb) <= len
  BY <1>1 DEF MergeOK, Fits, Pointers
<1>p1. Plus(f.a, ha) \in Pointers /\ Plus(f.a, ha)[1] = f.a[1] /\ Plus(f.a, ha)[2] = f.a[2] + ha
  BY <1>1, <1>2, PlusPointer
<1>p2. Plus(f.b, sb) \in Pointers /\ Plus(f.b, sb)[1] = f.b[1] /\ Plus(f.b, sb)[2] = f.b[2] + sb
  BY <1>1, <1>2, PlusPointer
<1>p3. Plus(f.c, n) \in Pointers /\ Plus(f.c, n)[1] = f.c[1] /\ Plus(f.c, n)[2] = f.c[2] + n
  BY <1>1, <1>2, PlusPointer
<1>c1. /\ ActOK(c1, len) /\ c1 \in Activations /\ c1.fn = "merge"
       /\ c1.a = f.a /\ c1.b = f.b /\ c1.c = f.c /\ c1.lena = ha /\ c1.lenb = sb
  <2>1. Fits(f.a, ha, len) /\ Fits(f.b, sb, len) /\ Fits(f.c, ha + sb, len)
    BY <1>1, <1>2, <1>3 DEF Fits
  <2>2. f.a[1] = f.b[1] /\ f.c[1] # f.a[1]
    BY <1>1, <1>2, <1>3
  <2>3. f.a \in Pointers /\ f.b \in Pointers /\ f.c \in Pointers /\ ha \in Nat /\ sb \in Nat
    BY <1>1, <1>2
  <2> QED BY <2>1, <2>2, <2>3, MergeCallOK
<1>c2. /\ ActOK(c2, len) /\ c2 \in Activations /\ c2.fn = "merge"
       /\ c2.a = Plus(f.a, ha) /\ c2.b = Plus(f.b, sb) /\ c2.c = Plus(f.c, n) /\ c2.lena = ra /\ c2.lenb = rb
  <2>1. Fits(Plus(f.a, ha), ra, len) /\ Fits(Plus(f.b, sb), rb, len) /\ Fits(Plus(f.c, n), ra + rb, len)
    BY <1>1, <1>2, <1>3, <1>p1, <1>p2, <1>p3 DEF Fits
  <2>2. Plus(f.a, ha)[1] = Plus(f.b, sb)[1] /\ Plus(f.c, n)[1] # Plus(f.a, ha)[1]
    BY <1>1, <1>2, <1>3, <1>p1, <1>p2, <1>p3
  <2>3. Plus(f.a, ha) \in Pointers /\ Plus(f.b, sb) \in Pointers /\ Plus(f.c, n) \in Pointers /\ ra \in Nat /\ rb \in Nat
    BY <1>2, <1>p1, <1>p2, <1>p3
  <2> QED BY <2>1, <2>2, <2>3, MergeCallOK
<1> HIDE DEF c1, c2
<1>5. Checked!Within(c1, f)
  BY <1>1, <1>2, <1>3, <1>c1, MergeWithin
<1>o. /\ c2.a[1] = f.a[1] /\ c2.b[1] = f.b[1] /\ c2.c[1] = f.c[1]
      /\ c2.a[2] = f.a[2] + ha /\ c2.b[2] = f.b[2] + sb /\ c2.c[2] = f.c[2] + n
  BY <1>c2, <1>p1, <1>p2, <1>p3
<1>6. Checked!Within(c2, f)
  BY <1>1, <1>2, <1>3, <1>c2, <1>o, MergeWithin
<1>7. Checked!ConflictFree(c1, c2) /\ Checked!ConflictFree(c2, c1)
  BY <1>2, <1>3, <1>c1, <1>c2, <1>o, MergesApart
<1>8. DOMAIN calls = 1..2 /\ calls[1] = c1 /\ calls[2] = c2
  BY DEF PartCalls, ha, sb, ra, rb, n, c1, c2
<1> HIDE DEF calls
<1>9. \A i \in DOMAIN calls : ActOK(calls[i], len) /\ Checked!Within(calls[i], f)
  BY <1>5, <1>6, <1>8, <1>c1, <1>c2
<1>10. \A i, j \in DOMAIN calls : i # j => Checked!ConflictFree(calls[i], calls[j])
  BY <1>7, <1>8
<1>11. DOMAIN calls \subseteq Nat
  BY <1>8
<1> QED BY <1>9, <1>10, <1>11 DEF Sound, calls

LEMMA CallsSound ==
  ASSUME MergesortAssumption, len \in Nat, NEW f, ActOK(f, len)
  PROVE  Sound(Calls(f), f, len)
<1>1. Sound(<<>>, f, len)
  BY DEF Sound
<1>2. f.fn \in {"mergesort", "merge"}
  BY DEF ActOK, Activations
<1> QED BY <1>1, <1>2, QuarterCallsSound, HalfCallsSound, WholeCallsSound, PartCallsSound DEF Calls

\* A fork of these calls passes the checks.
LEMMA ForkStep ==
  ASSUME MergesortAssumption, Inv, len' = len, NEW p, Running(p), NEW act,
         Cobegin(p, act, Calls(act)), ActOK(act, len), Checked!Within(act, tasks[p])
  PROVE  TasksOK' /\ Checked!CheckedStep(p)
<1>1. TasksOK /\ len \in Nat
  BY DEF Inv, TypeOK, MergesortAssumption
<1>2. Sound(Calls(act), act, len)
  BY <1>1, CallsSound
<1>3. \A i \in DOMAIN Calls(act) : Checked!Within(Calls(act)[i], tasks[p])
  BY <1>2 DEF Sound, Checked!Within
<1> QED BY <1>1, <1>2, <1>3, CobeginStep DEF Sound

LEMMA SortForks ==
  ASSUME MergesortAssumption, Inv, len' = len, NEW p, NEW pc, At(p, "mergesort", pc), tasks[p].len > quick_size,
         NEW next \in {"quarters_sorted", "halves_merged", "return"}, NEW act,
         act = [tasks[p] EXCEPT !.pc = next], Cobegin(p, act, Calls(act))
  PROVE  TasksOK' /\ Checked!CheckedStep(p)
<1>1. ActOK(act, len) /\ Checked!Within(act, tasks[p]) /\ Running(p)
  BY SortMovesOn, SortFrame DEF Inv
<1> QED BY <1>1, ForkStep

LEMMA SortQuartersForks ==
  ASSUME TasksOK, NEW p, SortQuarters(p)
  PROVE  LET act == [tasks[p] EXCEPT !.pc = "quarters_sorted"]
         IN  /\ At(p, "mergesort", "entry") /\ tasks[p].len > quick_size
             /\ Cobegin(p, act, Calls(act))
<1> DEFINE f == tasks[p]
           act == [f EXCEPT !.pc = "quarters_sorted"]
<1>1. f \in Activations /\ f.fn = "mergesort"
  BY SortFrame DEF SortQuarters
<1>2. /\ act.fn = "mergesort" /\ act.pc = "quarters_sorted"
      /\ act.a = f.a /\ act.b = f.b /\ act.len = f.len
  BY <1>1 DEF Activations
<1> HIDE DEF act
<1>3. Calls(act) = QuarterCalls(f)
  BY <1>2 DEF Calls, QuarterCalls
<1> QED BY <1>3 DEF SortQuarters, QuarterCalls, act

LEMMA MergeHalvesForks ==
  ASSUME TasksOK, NEW p, MergeHalves(p)
  PROVE  LET act == [tasks[p] EXCEPT !.pc = "halves_merged"]
         IN  /\ At(p, "mergesort", "quarters_sorted") /\ tasks[p].len > quick_size
             /\ Cobegin(p, act, Calls(act))
<1> DEFINE f == tasks[p]
           act == [f EXCEPT !.pc = "halves_merged"]
<1>1. f \in Activations /\ f.fn = "mergesort" /\ f.len > quick_size
  BY SortFrame DEF MergeHalves, SortOK
<1>2. /\ act.fn = "mergesort" /\ act.pc = "halves_merged"
      /\ act.a = f.a /\ act.b = f.b /\ act.len = f.len
  BY <1>1 DEF Activations
<1> HIDE DEF act
<1>3. Calls(act) = HalfCalls(f)
  BY <1>2 DEF Calls, HalfCalls
<1> QED BY <1>1, <1>3 DEF MergeHalves, HalfCalls, act

LEMMA MergeWholeForks ==
  ASSUME TasksOK, NEW p, MergeWhole(p)
  PROVE  LET act == [tasks[p] EXCEPT !.pc = "return"]
         IN  /\ At(p, "mergesort", "halves_merged") /\ tasks[p].len > quick_size
             /\ Cobegin(p, act, Calls(act))
<1> DEFINE f == tasks[p]
           act == [f EXCEPT !.pc = "return"]
<1>1. f \in Activations /\ f.fn = "mergesort" /\ f.len > quick_size
  BY SortFrame DEF MergeWhole, SortOK
<1>2. /\ act.fn = "mergesort" /\ act.pc = "return"
      /\ act.a = f.a /\ act.b = f.b /\ act.len = f.len
  BY <1>1 DEF Activations
<1> HIDE DEF act
<1>3. Calls(act) = WholeCalls(f)
  BY <1>2 DEF Calls, WholeCalls
<1> QED BY <1>1, <1>3 DEF MergeWhole, Call, WholeCalls, act

LEMMA MergePartsForks ==
  ASSUME TasksOK, NEW p, MergeParts(p)
  PROVE  LET act == [tasks[p] EXCEPT !.pc = "return"]
         IN  /\ At(p, "merge", "find_split") /\ Running(p) /\ tasks[p].lo >= tasks[p].hi
             /\ ActOK(act, len) /\ Checked!Within(act, tasks[p])
             /\ Cobegin(p, act, Calls(act))
<1> DEFINE f == tasks[p]
           act == [f EXCEPT !.pc = "return"]
<1>0. At(p, "merge", "find_split") /\ f.lo >= f.hi
  BY DEF MergeParts
<1>1. f \in Activations /\ f.fn = "merge" /\ MergeOK(f, len) /\ Running(p)
  BY <1>0, MergeFrame
<1>2. /\ act \in Activations /\ act.fn = "merge" /\ act.pc = "return" /\ act.a = f.a /\ act.b = f.b
      /\ act.c = f.c /\ act.lena = f.lena /\ act.lenb = f.lenb /\ act.lo = f.lo /\ act.hi = f.hi
      /\ act.i = f.i /\ act.j = f.j /\ act.k = f.k
  BY <1>1 DEF Activations
<1> HIDE DEF act
<1>3. Calls(act) = PartCalls(f)
  BY <1>2 DEF Calls, PartCalls
<1>4. ActOK(act, len) /\ Checked!Within(act, f)
  BY <1>1, <1>2, SameEffects DEF ActOK, MergeOK
<1> QED BY <1>0, <1>1, <1>3, <1>4 DEF MergeParts, PartCalls, act

\* Every fork of mergesort and merge passes the checks.
LEMMA ForksOK ==
  ASSUME MergesortAssumption, Inv, NEW p,
         SortQuarters(p) \/ MergeHalves(p) \/ MergeWhole(p) \/ MergeParts(p)
  PROVE  TasksOK' /\ Checked!CheckedStep(p)
<1>0. TasksOK /\ len' = len
  BY DEF Inv, SortQuarters, MergeHalves, MergeWhole, MergeParts
<1>1. CASE SortQuarters(p)
  BY <1>0, <1>1, SortQuartersForks, SortForks
<1>2. CASE MergeHalves(p)
  BY <1>0, <1>2, MergeHalvesForks, SortForks
<1>3. CASE MergeWhole(p)
  BY <1>0, <1>3, MergeWholeForks, SortForks
<1>4. CASE MergeParts(p)
  BY <1>0, <1>4, MergePartsForks, ForkStep
<1> QED BY <1>1, <1>2, <1>3, <1>4

\* A merge that moves on with the same arrays.
LEMMA MergeMovesOn ==
  ASSUME TasksOK, len' = len, NEW p, NEW pc, At(p, "merge", pc), NEW act \in Activations,
         Continue(p, act), act.fn = "merge", act.a = tasks[p].a, act.b = tasks[p].b,
         act.c = tasks[p].c, act.lena = tasks[p].lena, act.lenb = tasks[p].lenb,
         MergeOK(act, len)
  PROVE  TasksOK' /\ Checked!CheckedStep(p)
<1>1. Running(p) /\ tasks[p] \in Activations /\ tasks[p].fn = "merge"
  BY MergeFrame
<1>2. ActOK(act, len)
  BY DEF ActOK
<1>3. Checked!Within(act, tasks[p])
  BY <1>1, SameEffects
<1> QED BY <1>1, <1>2, <1>3, ContinueStep

\* The cells a task is about to read and to write are among its effects.
LEMMA AccessesWithinEffects ==
  ASSUME MergesortAssumption, NEW n \in Nat, NEW f, ActOK(f, n)
  PROVE  NextReads(f) \subseteq Eff(f, "read") /\ NextWrites(f) \subseteq Eff(f, "write")
<1>1. CASE f.fn = "mergesort"
  <2> DEFINE S == Cells(f.a, f.len)
  <2>1. NextReads(f) = (IF f.pc = "entry" /\ f.len <= quick_size THEN S ELSE {})
    BY <1>1 DEF NextReads
  <2>2. NextWrites(f) = (IF f.pc = "entry" /\ f.len <= quick_size THEN S ELSE {})
    BY <1>1 DEF NextWrites
  <2>3. Eff(f, "read") = S \cup Cells(f.b, f.len) /\ Eff(f, "write") = S \cup Cells(f.b, f.len)
    BY <1>1 DEF Eff
  <2> QED BY <2>1, <2>2, <2>3
<1>2. CASE f.fn = "merge"
  <2>1. /\ f \in Activations /\ MergeOK(f, n)
        /\ f.lena \in Nat /\ f.lenb \in Nat /\ f.lo \in Nat /\ f.hi \in Nat
        /\ f.i \in Nat /\ f.j \in Nat /\ f.k \in Nat
        /\ f.pc \in {"entry", "find_split", "seq_merge", "return"}
    BY <1>2 DEF ActOK, Activations
  <2>2. /\ Eff(f, "read") = Cells(f.a, f.lena) \cup Cells(f.b, f.lenb)
        /\ Eff(f, "write") = Cells(f.c, f.lena + f.lenb)
    BY <1>2 DEF Eff
  <2>3. f.k = f.i + f.j /\ f.i <= f.lena /\ f.j <= f.lenb /\ f.hi <= f.lenb /\ f.lo <= f.hi
    BY <2>1 DEF MergeOK
  <2>4. CASE f.pc = "entry"
    <3>1. f.lena \div 2 \in 0..(f.lena - 1)
      BY <2>1, <2>4 DEF MergeOK, MergesortAssumption
    <3>2. NextReads(f) = {Plus(f.a, f.lena \div 2)} /\ NextWrites(f) = {}
      BY <1>2, <2>4 DEF NextReads, NextWrites
    <3> QED BY <2>2, <3>1, <3>2 DEF Cells
  <2>5. CASE f.pc = "find_split"
    <3>1. f.lo < f.hi => f.lo + ((f.hi - f.lo) \div 2) \in 0..(f.lenb - 1)
      BY <2>1, <2>3
    <3>2. /\ NextReads(f) \subseteq {x \in {Plus(f.b, f.lo + ((f.hi - f.lo) \div 2))} : f.lo < f.hi}
          /\ NextWrites(f) = {}
      BY <1>2, <2>5 DEF NextReads, NextWrites
    <3> QED BY <2>2, <3>1, <3>2 DEF Cells
  <2>6. CASE f.pc = "seq_merge"
    <3>1. f.i < f.lena => f.i \in 0..(f.lena - 1)
      BY <2>1
    <3>2. f.j < f.lenb => f.j \in 0..(f.lenb - 1)
      BY <2>1
    <3>3. f.i < f.lena \/ f.j < f.lenb => f.k \in 0..((f.lena + f.lenb) - 1)
      BY <2>1, <2>3
    <3>4. NextReads(f) = {x \in {Plus(f.a, f.i)} : f.i < f.lena} \cup {x \in {Plus(f.b, f.j)} : f.j < f.lenb}
      BY <1>2, <2>6 DEF NextReads
    <3>5. NextWrites(f) = IF f.i < f.lena \/ f.j < f.lenb THEN {Plus(f.c, f.k)} ELSE {}
      BY <1>2, <2>6 DEF NextWrites
    <3>6. NextReads(f) \subseteq Eff(f, "read")
      BY <2>2, <3>1, <3>2, <3>4 DEF Cells
    <3>7. f.i < f.lena \/ f.j < f.lenb => Plus(f.c, f.k) \in Cells(f.c, f.lena + f.lenb)
      <4> DEFINE total == f.lena + f.lenb
      <4>1. f.i < f.lena \/ f.j < f.lenb => f.k \in 0..(total - 1)
        BY <3>3
      <4> HIDE DEF total
      <4>2. f.i < f.lena \/ f.j < f.lenb => Plus(f.c, f.k) \in Cells(f.c, total)
        BY <4>1, CellIn
      <4> QED BY <4>2 DEF total
    <3>8. NextWrites(f) \subseteq Eff(f, "write")
      BY <2>2, <3>5, <3>7
    <3> QED BY <3>6, <3>8
  <2>7. CASE f.pc = "return"
    BY <1>2, <2>7 DEF NextReads, NextWrites
  <2> QED BY <2>1, <2>4, <2>5, <2>6, <2>7
<1>3. f.fn \in {"mergesort", "merge"}
  BY DEF ActOK, Activations
<1> QED BY <1>1, <1>2, <1>3

\* The effects of a well-formed call are in bounds.
LEMMA EffectsInBounds ==
  ASSUME len \in Nat, NEW f, ActOK(f, len), NEW e \in {"read", "write"}
  PROVE  Eff(f, e) \subseteq Addresses
<1>1. CASE f.fn = "mergesort"
  <2>1. f.a \in Pointers /\ f.b \in Pointers /\ f.len \in Int /\ Fits(f.a, f.len, len) /\ Fits(f.b, f.len, len)
    BY <1>1 DEF ActOK, SortOK, Activations
  <2>2. Cells(f.a, f.len) \subseteq Addresses /\ Cells(f.b, f.len) \subseteq Addresses
    BY <2>1, CellsInBounds
  <2> QED BY <1>1, <2>2 DEF Eff
<1>2. CASE f.fn = "merge"
  <2>1. /\ f.a \in Pointers /\ f.b \in Pointers /\ f.c \in Pointers
        /\ f.lena \in Int /\ f.lenb \in Int /\ f.lena + f.lenb \in Int
        /\ Fits(f.a, f.lena, len) /\ Fits(f.b, f.lenb, len) /\ Fits(f.c, f.lena + f.lenb, len)
    BY <1>2 DEF ActOK, MergeOK, Activations
  <2>2. /\ Cells(f.a, f.lena) \subseteq Addresses /\ Cells(f.b, f.lenb) \subseteq Addresses
        /\ Cells(f.c, f.lena + f.lenb) \subseteq Addresses
    BY <2>1, CellsInBounds
  <2> QED BY <1>2, <2>2 DEF Eff
<1>3. f.fn \in {"mergesort", "merge"}
  BY DEF ActOK, Activations
<1> QED BY <1>1, <1>2, <1>3

\* What a task reads is in memory.
LEMMA ReadsValue ==
  ASSUME MergesortAssumption, Inv, NEW p \in DOMAIN tasks, NEW x \in NextReads(tasks[p])
  PROVE  x \in Addresses /\ mem[x] \in Int
<1>1. len \in Nat /\ ActOK(tasks[p], len) /\ mem \in [Addresses -> Int]
  BY DEF Inv, TypeOK, TasksOK, MergesortAssumption
<1>2. x \in Addresses
  BY <1>1, AccessesWithinEffects, EffectsInBounds
<1> QED BY <1>1, <1>2

LEMMA EnterFindSplitStep ==
  ASSUME MergesortAssumption, Inv, NEW p, EnterFindSplit(p)
  PROVE  TasksOK' /\ Checked!CheckedStep(p)
<1> DEFINE f == tasks[p]
           x == Plus(f.a, f.lena \div 2)
           act == [f EXCEPT !.pc = "find_split", !.v = mem[x]]
<1>1. At(p, "merge", "entry") /\ len' = len /\ Continue(p, act) /\ TasksOK
  BY DEF EnterFindSplit, Inv
<1>2. f \in Activations /\ f.fn = "merge" /\ f.pc = "entry" /\ MergeOK(f, len) /\ p \in DOMAIN tasks
  BY <1>1, MergeFrame DEF Running
<1>3. mem[x] \in Int
  <2>1. x \in NextReads(f)
    BY <1>2 DEF NextReads
  <2> QED BY <1>2, <2>1, ReadsValue
<1> HIDE DEF x
<1>4. /\ act \in Activations /\ act.fn = "merge" /\ act.pc = "find_split"
      /\ act.a = f.a /\ act.b = f.b /\ act.c = f.c /\ act.lena = f.lena /\ act.lenb = f.lenb
      /\ act.lo = f.lo /\ act.hi = f.hi /\ act.i = f.i /\ act.j = f.j /\ act.k = f.k
  BY <1>2, <1>3 DEF Activations
<1> HIDE DEF act
<1>5. MergeOK(act, len)
  BY <1>2, <1>4 DEF MergeOK
<1> QED BY <1>1, <1>4, <1>5, MergeMovesOn

\* The search halves the interval it keeps within [0, lenb].
LEMMA FindSplitStep ==
  ASSUME MergesortAssumption, Inv, NEW p, FindSplit(p)
  PROVE  TasksOK' /\ Checked!CheckedStep(p)
<1> DEFINE f == tasks[p]
           m == f.lo + ((f.hi - f.lo) \div 2)
<1>1. At(p, "merge", "find_split") /\ f.lo < f.hi /\ len' = len /\ TasksOK
  BY DEF FindSplit, Inv
<1>2. /\ f \in Activations /\ f.fn = "merge" /\ f.pc = "find_split" /\ MergeOK(f, len)
      /\ f.lo \in Nat /\ f.hi \in Nat /\ f.lenb \in Nat
  BY <1>1, MergeFrame
<1>3. m \in Nat /\ f.lo <= m /\ m < f.hi
  BY <1>1, <1>2
<1>4. Continue(p, [f EXCEPT !.hi = m]) \/ Continue(p, [f EXCEPT !.lo = m + 1])
  BY DEF FindSplit
<1> HIDE DEF m
<1>5. CASE Continue(p, [f EXCEPT !.hi = m])
  <2> DEFINE act == [f EXCEPT !.hi = m]
  <2>1. /\ act \in Activations /\ act.fn = "merge" /\ act.pc = "find_split"
        /\ act.a = f.a /\ act.b = f.b /\ act.c = f.c /\ act.lena = f.lena /\ act.lenb = f.lenb
        /\ act.lo = f.lo /\ act.hi = m /\ act.i = f.i /\ act.j = f.j /\ act.k = f.k
    BY <1>2, <1>3 DEF Activations
  <2>2. Continue(p, act)
    BY <1>5
  <2> HIDE DEF act
  <2>3. MergeOK(act, len)
    BY <1>2, <1>3, <2>1 DEF MergeOK
  <2> QED BY <1>1, <2>1, <2>2, <2>3, MergeMovesOn
<1>6. CASE Continue(p, [f EXCEPT !.lo = m + 1])
  <2> DEFINE act == [f EXCEPT !.lo = m + 1]
  <2>1. /\ act \in Activations /\ act.fn = "merge" /\ act.pc = "find_split"
        /\ act.a = f.a /\ act.b = f.b /\ act.c = f.c /\ act.lena = f.lena /\ act.lenb = f.lenb
        /\ act.lo = m + 1 /\ act.hi = f.hi /\ act.i = f.i /\ act.j = f.j /\ act.k = f.k
    BY <1>2, <1>3 DEF Activations
  <2>2. Continue(p, act)
    BY <1>6
  <2> HIDE DEF act
  <2>3. MergeOK(act, len)
    BY <1>2, <1>3, <2>1 DEF MergeOK
  <2> QED BY <1>1, <2>1, <2>2, <2>3, MergeMovesOn
<1> QED BY <1>4, <1>5, <1>6

\* One cell of memory gets the value of another.
LEMMA CopyTyped ==
  ASSUME mem \in [Addresses -> Int], len' = len, NEW x, NEW y \in Addresses,
         mem' = [mem EXCEPT ![x] = mem[y]]
  PROVE  mem' \in [Addresses' -> Int]
<1>1. Addresses' = Addresses
  BY DEF Addresses
<1> QED BY <1>1

LEMMA TakeAStep ==
  ASSUME MergesortAssumption, Inv, NEW p, TakeA(p)
  PROVE  TasksOK' /\ Checked!CheckedStep(p) /\ mem' \in [Addresses' -> Int]
<1> DEFINE f == tasks[p]
           i1 == f.i + 1
           k1 == f.k + 1
           act == [f EXCEPT !.i = i1, !.k = k1]
<1>1. At(p, "merge", "seq_merge") /\ f.i < f.lena /\ len' = len /\ Continue(p, act) /\ TasksOK
  BY DEF TakeA, Inv
<1>2. /\ f \in Activations /\ f.fn = "merge" /\ f.pc = "seq_merge" /\ MergeOK(f, len) /\ p \in DOMAIN tasks
      /\ f.i \in Nat /\ f.j \in Nat /\ f.k \in Nat /\ f.lena \in Nat
  BY <1>1, MergeFrame DEF Running
<1>i. i1 \in Nat /\ k1 \in Nat /\ i1 = f.i + 1 /\ k1 = f.k + 1
  BY <1>2
<1> HIDE DEF i1, k1
<1>3. /\ act \in Activations /\ act.fn = "merge" /\ act.pc = "seq_merge"
      /\ act.a = f.a /\ act.b = f.b /\ act.c = f.c /\ act.lena = f.lena /\ act.lenb = f.lenb
      /\ act.lo = f.lo /\ act.hi = f.hi /\ act.i = i1 /\ act.j = f.j /\ act.k = k1
  BY <1>2, <1>i DEF Activations
<1> HIDE DEF act
<1>4. MergeOK(act, len)
  BY <1>1, <1>2, <1>i, <1>3 DEF MergeOK
<1>5. mem' \in [Addresses' -> Int]
  <2>1. Plus(f.a, f.i) \in NextReads(f)
    BY <1>1, <1>2 DEF NextReads
  <2>2. Plus(f.a, f.i) \in Addresses
    BY <1>2, <2>1, ReadsValue
  <2> QED BY <1>1, <2>2, CopyTyped DEF TakeA, Inv, TypeOK
<1> QED BY <1>1, <1>3, <1>4, <1>5, MergeMovesOn

LEMMA TakeBStep ==
  ASSUME MergesortAssumption, Inv, NEW p, TakeB(p)
  PROVE  TasksOK' /\ Checked!CheckedStep(p) /\ mem' \in [Addresses' -> Int]
<1> DEFINE f == tasks[p]
           j1 == f.j + 1
           k1 == f.k + 1
           act == [f EXCEPT !.j = j1, !.k = k1]
<1>1. At(p, "merge", "seq_merge") /\ f.j < f.lenb /\ len' = len /\ Continue(p, act) /\ TasksOK
  BY DEF TakeB, Inv
<1>2. /\ f \in Activations /\ f.fn = "merge" /\ f.pc = "seq_merge" /\ MergeOK(f, len) /\ p \in DOMAIN tasks
      /\ f.i \in Nat /\ f.j \in Nat /\ f.k \in Nat /\ f.lenb \in Nat
  BY <1>1, MergeFrame DEF Running
<1>i. j1 \in Nat /\ k1 \in Nat /\ j1 = f.j + 1 /\ k1 = f.k + 1
  BY <1>2
<1> HIDE DEF j1, k1
<1>3. /\ act \in Activations /\ act.fn = "merge" /\ act.pc = "seq_merge"
      /\ act.a = f.a /\ act.b = f.b /\ act.c = f.c /\ act.lena = f.lena /\ act.lenb = f.lenb
      /\ act.lo = f.lo /\ act.hi = f.hi /\ act.i = f.i /\ act.j = j1 /\ act.k = k1
  BY <1>2, <1>i DEF Activations
<1> HIDE DEF act
<1>4. MergeOK(act, len)
  BY <1>1, <1>2, <1>i, <1>3 DEF MergeOK
<1>5. mem' \in [Addresses' -> Int]
  <2>1. Plus(f.b, f.j) \in NextReads(f)
    BY <1>1, <1>2 DEF NextReads
  <2>2. Plus(f.b, f.j) \in Addresses
    BY <1>2, <2>1, ReadsValue
  <2> QED BY <1>1, <2>2, CopyTyped DEF TakeB, Inv, TypeOK
<1> QED BY <1>1, <1>3, <1>4, <1>5, MergeMovesOn

LEMMA QuicksortStep ==
  ASSUME MergesortAssumption, Inv, NEW p, Quicksort(p)
  PROVE  TasksOK' /\ Checked!CheckedReturn(p) /\ mem' \in [Addresses' -> Int]
<1> DEFINE f == tasks[p]
<1>1. At(p, "mergesort", "entry") /\ len' = len /\ Return(p) /\ TasksOK /\ mem \in [Addresses -> Int]
  BY DEF Quicksort, Inv, TypeOK
<1>2. Running(p) /\ f.a \in Pointers /\ f.len \in Nat
  BY <1>1, SortFrame
<1>3. PICK g \in [0..(f.len - 1) -> Vals] : mem' = Stored(f.a, f.len, g)
  BY DEF Quicksort
<1>4. Addresses' = Addresses
  BY <1>1 DEF Addresses
<1>5. ASSUME NEW x \in Cells(f.a, f.len) PROVE g[x[2] - f.a[2]] \in Int
  <2>1. PICK i \in 0..(f.len - 1) : x = Plus(f.a, i)
    BY DEF Cells
  <2>2. x[2] - f.a[2] = i
    BY <1>2, <2>1 DEF Plus, Pointers
  <2> QED BY <2>2 DEF MergesortAssumption
<1>6. mem' \in [Addresses' -> Int]
  BY <1>1, <1>3, <1>4, <1>5 DEF Stored
<1> QED BY <1>1, <1>2, <1>6, ReturnStep

LEMMA ReturnFromStep ==
  ASSUME Inv, NEW p, ReturnFrom(p)
  PROVE  TasksOK' /\ Checked!CheckedReturn(p)
<1>1. Running(p) /\ len' = len /\ Return(p) /\ TasksOK
  BY DEF ReturnFrom, At, Inv
<1> QED BY <1>1, ReturnStep

-----------------------------------------------------------------------------
\* Every step of a task keeps the invariant and passes the checks.
LEMMA TaskStepOK ==
  ASSUME MergesortAssumption, Inv, NEW p \in DOMAIN tasks, TaskStep(p)
  PROVE  Inv' /\ (Checked!CheckedStep(p) \/ Checked!CheckedReturn(p))
<1>0. UNCHANGED <<len, input, sorted>>
  BY DEF TaskStep, Quicksort, SortQuarters, MergeHalves, MergeWhole, EnterFindSplit,
         FindSplit, MergeParts, TakeA, TakeB, ReturnFrom
<1>1. \/ Quicksort(p) \/ TakeA(p) \/ TakeB(p)
      \/ UNCHANGED mem
  BY DEF TaskStep, SortQuarters, MergeHalves, MergeWhole, EnterFindSplit,
         FindSplit, MergeParts, ReturnFrom
<1>2. mem' \in [Addresses' -> Int]
  <2>1. CASE UNCHANGED mem
    BY <1>0, <2>1 DEF Inv, TypeOK, Addresses
  <2> QED BY <1>1, <2>1, QuicksortStep, TakeAStep, TakeBStep
<1>3. TasksOK' /\ (Checked!CheckedStep(p) \/ Checked!CheckedReturn(p))
  BY QuicksortStep, ForksOK, EnterFindSplitStep, FindSplitStep, TakeAStep, TakeBStep,
     ReturnFromStep DEF TaskStep
<1>4. \A q \in DOMAIN tasks' : q \in Seq(Nat) /\ tasks'[q] \in Activations
  BY <1>3 DEF TasksOK, ActOK
<1>5. tasks' = [q \in DOMAIN tasks' |-> tasks'[q]]
  BY <1>3 DEF TasksOK
<1>6. TypeOK'
  BY <1>0, <1>2, <1>4, <1>5 DEF Inv, TypeOK
<1> QED BY <1>3, <1>6 DEF Inv

LEMMA InitOK ==
  ASSUME MergesortAssumption, Init
  PROVE  Inv /\ Checked!CheckedInit
<1> DEFINE c == SortCall(in, out, len)
<1>1. len \in Nat /\ len \in Lens
  BY DEF Init, MergesortAssumption
<1>2. in \in Pointers /\ out \in Pointers /\ in[1] # out[1] /\ Fits(in, len, len) /\ Fits(out, len, len)
  BY <1>1 DEF in, out, Pointers, Fits
<1>3. ActOK(c, len) /\ c \in Activations
  BY <1>1, <1>2, SortCallOK
<1>4. tasks = [p \in {<<>>} |-> c]
  BY DEF Init, Start
<1> HIDE DEF c
<1>5. TasksOK
  <2>1. DOMAIN tasks = {<<>>} /\ tasks[<<>>] = c /\ <<>> \in Seq(Nat)
    BY <1>4
  <2> QED BY <1>3, <1>4, <2>1 DEF TasksOK
<1>6. mem \in [Addresses -> Int]
  <2>1. PICK o \in [0..(len - 1) -> OutVals] :
          mem = [x \in Addresses |-> IF x[1] = "in" THEN input[x[2]] ELSE o[x[2]]]
    BY DEF Init
  <2>2. ASSUME NEW x \in Addresses PROVE x[2] \in 0..(len - 1)
    BY <1>1 DEF Addresses, Cells, Plus, in, out
  <2> QED BY <2>1, <2>2 DEF Init, MergesortAssumption
<1>7. TypeOK
  BY <1>1, <1>3, <1>5, <1>6 DEF TypeOK, Init, TasksOK, ActOK
<1> QED BY <1>4, <1>5, <1>7 DEF Inv, Checked!CheckedInit

\* Every step of the program keeps the invariant and passes the checks.
LEMMA StepOK ==
  ASSUME MergesortAssumption, Inv, [Next]_vars
  PROVE  Inv' /\ [Checked!CheckedNext]_tasks
<1>1. ASSUME NEW p \in DOMAIN tasks, TaskStep(p) PROVE Inv' /\ [Checked!CheckedNext]_tasks
  BY <1>1, TaskStepOK DEF Checked!CheckedNext
<1>2. CASE CheckSorted
  <2>1. UNCHANGED <<tasks, len, input, mem>> /\ sorted' \in {"TRUE", "FALSE"}
    BY <1>2 DEF CheckSorted
  <2> QED BY <2>1 DEF Inv, TypeOK, TasksOK, Addresses
<1>3. CASE UNCHANGED vars
  BY <1>3 DEF vars, Inv, TypeOK, TasksOK, Addresses
<1> QED BY <1>1, <1>2, <1>3 DEF Next

-----------------------------------------------------------------------------
\* Every activation of mergesort and merge is well-formed, always.
THEOREM WellFormed == Spec => []Inv
BY MergesortAssumption, InitOK, StepOK, PTL DEF Spec

\* Every variable keeps its type, for every length and threshold.
THEOREM TypeCorrect == Spec => []TypeOK
<1>1. Inv => TypeOK
  BY DEF Inv
<1> QED BY <1>1, WellFormed, PTL

\* The assertion of seq_merge never fails.
THEOREM LoopAssertion == Spec => []AssertionHolds
<1>1. Inv => AssertionHolds
  BY MergeFrame DEF Inv, AssertionHolds, MergeOK
<1> QED BY <1>1, WellFormed, PTL

\* No access of mergesort.c is out of bounds.
THEOREM MemorySafe == Spec => []InBounds
<1>1. Inv => InBounds
  <2> SUFFICES ASSUME Inv, NEW p \in DOMAIN tasks
               PROVE  NextReads(tasks[p]) \cup NextWrites(tasks[p]) \subseteq Addresses
    BY DEF InBounds
  <2>1. len \in Nat /\ ActOK(tasks[p], len)
    BY MergesortAssumption DEF Inv, TypeOK, TasksOK, MergesortAssumption
  <2> QED BY <2>1, MergesortAssumption, AccessesWithinEffects, EffectsInBounds
<1> QED BY <1>1, WellFormed, PTL

\* Every fork of mergesort.c passes the checks CSolve makes of it.
THEOREM ForksChecked == Spec => EffectsChecked
<1>1. Init => Checked!CheckedInit
  BY MergesortAssumption, InitOK
<1>2. Inv /\ [Next]_vars => [Checked!CheckedNext]_tasks
  BY MergesortAssumption, StepOK
<1> QED BY <1>1, <1>2, WellFormed, PTL DEF Spec, EffectsChecked, Checked!CheckedSpec

-----------------------------------------------------------------------------
(* Tasks that run at the same time.                                          *)

LEMMA SameNotions ==
  ASSUME NEW f, NEW g
  PROVE  /\ Checked!Within(f, g) <=> EP!Within(f, g)
         /\ Checked!ConflictFree(f, g) <=> EP!ConflictFree(f, g)
BY DEF Checked!Within, EP!Within, Checked!ConflictFree, EP!ConflictFree,
       Checked!NonCommuting, EP!NonCommuting

LEMMA SameCheck ==
  ASSUME NEW p
  PROVE  /\ EP!CheckedStep(p) <=> Checked!CheckedStep(p)
         /\ EP!CheckedReturn(p) <=> Checked!CheckedReturn(p)
BY DEF EP!CheckedStep, Checked!CheckedStep, EP!CheckedReturn, Checked!CheckedReturn,
       EP!Return, Checked!Return, EP!Running, Checked!Running, EP!IsStrictPrefix,
       Checked!IsStrictPrefix, EP!IsPrefix, Checked!IsPrefix, EP!Within, Checked!Within,
       EP!Forked, Checked!Forked, EP!Child, Checked!Child, EP!Last, Checked!Last,
       EP!SubEffects, Checked!SubEffects, EP!SiblingsDisjoint, Checked!SiblingsDisjoint,
       EP!ConflictFree, Checked!ConflictFree, EP!NonCommuting, Checked!NonCommuting

LEMMA TasksArePaths ==
  ASSUME TasksOK
  PROVE  EP!PathsOK /\ \A p \in DOMAIN tasks : p \in EP!Paths
<1> SUFFICES ASSUME NEW p \in DOMAIN tasks PROVE p \in Seq(Int)
  BY DEF EP!PathsOK, EP!Paths
<1>1. p \in Seq(Nat)
  BY DEF TasksOK
<1>2. \A k \in 1..Len(p) : p[k] \in Int
  BY <1>1
<1> QED BY <1>1, <1>2

\* Tasks that are unrelated never conflict.
LEMMA Disjoint == Spec => []EP!UnrelatedDisjoint
<1>1. EP!SymmetricCommuting
  BY DEF EP!SymmetricCommuting
<1>2. EP!CheckedSpec /\ []EP!PathsOK => []EP!UnrelatedDisjoint
  BY <1>1, EP!EffectsSuffice
<1>3. Inv => EP!PathsOK
  BY TasksArePaths DEF Inv
<1>4. Checked!CheckedInit => EP!CheckedInit
  BY DEF Checked!CheckedInit, EP!CheckedInit
<1>5. [Checked!CheckedNext]_tasks => [EP!CheckedNext]_tasks
  BY SameCheck DEF Checked!CheckedNext, EP!CheckedNext
<1> QED BY <1>2, <1>3, <1>4, <1>5, WellFormed, ForksChecked, PTL
        DEF EffectsChecked, Checked!CheckedSpec, EP!CheckedSpec

\* Two tasks that run at the same time are unrelated.
LEMMA RunningUnrelated ==
  ASSUME NEW p \in DOMAIN tasks, NEW q \in DOMAIN tasks, Running(p), Running(q), p # q
  PROVE  ~EP!Related(p, q)
BY DEF Running, IsStrictPrefix, IsPrefix, EP!Related, EP!IsPrefix

\* No two tasks that run at the same time are about to touch the same cell,
\* one of them writing it: the effects of their calls do not conflict, and
\* their accesses are among the effects.
THEOREM NoRace == Spec => []RaceFree
<1>1. Inv /\ EP!UnrelatedDisjoint => RaceFree
  <2> SUFFICES ASSUME Inv, EP!UnrelatedDisjoint, NEW p \in DOMAIN tasks, NEW q \in DOMAIN tasks,
                      Running(p), Running(q), p # q
               PROVE  NextWrites(tasks[p]) \cap (NextReads(tasks[q]) \cup NextWrites(tasks[q])) = {}
    BY DEF RaceFree
  <2>1. len \in Nat /\ ActOK(tasks[p], len) /\ ActOK(tasks[q], len)
    BY MergesortAssumption DEF Inv, TypeOK, TasksOK, MergesortAssumption
  <2>2. /\ NextWrites(tasks[p]) \subseteq Eff(tasks[p], "write")
        /\ NextReads(tasks[q]) \subseteq Eff(tasks[q], "read")
        /\ NextWrites(tasks[q]) \subseteq Eff(tasks[q], "write")
    BY <2>1, MergesortAssumption, AccessesWithinEffects
  <2>3. EP!ConflictFree(tasks[p], tasks[q])
    BY RunningUnrelated DEF EP!UnrelatedDisjoint
  <2>4. <<"write", "read">> \in EP!NonCommuting /\ <<"write", "write">> \in EP!NonCommuting
    BY DEF EP!NonCommuting
  <2>5. Eff(tasks[p], "write") \cap Eff(tasks[q], "read") = {}
    BY <2>3, <2>4 DEF EP!ConflictFree
  <2>6. Eff(tasks[p], "write") \cap Eff(tasks[q], "write") = {}
    BY <2>3, <2>4 DEF EP!ConflictFree
  <2> QED BY <2>2, <2>5, <2>6
<1> QED BY <1>1, WellFormed, Disjoint, PTL

-----------------------------------------------------------------------------
(* Rows of values, by offset.                                                *)

Rows == [Nat -> Int]

\* a block of the memory m (0 beyond its end)
Row(m, blk) == [x \in Nat |-> IF <<blk, x>> \in DOMAIN m THEN m[<<blk, x>>] ELSE 0]

Alike(h, g, lo, hi) == \A x \in lo..(hi - 1) : h[x] = g[x]

Ascending(h, lo, hi) == \A x, y \in lo..(hi - 1) : x <= y => h[x] <= h[y]

Places(h, lo, hi, v) == {x \in lo..(hi - 1) : h[x] = v}

Count(h, lo, hi, v) == Cardinality(Places(h, lo, hi, v))

\* h is g from lo up to hi, in ascending order
SortOf(h, g, lo, hi) ==
  /\ Ascending(h, lo, hi)
  /\ \A v : Count(h, lo, hi, v) = Count(g, lo, hi, v)

\* h has from c on what g has in la cells from a on and in lb cells from b on, in ascending order
MergeOf(h, c, g, a, la, b, lb) ==
  /\ Ascending(h, c, c + (la + lb))
  /\ \A v : Count(h, c, c + (la + lb), v) = Count(g, a, a + la, v) + Count(g, b, b + lb, v)

LEMMA PlacesFinite ==
  ASSUME NEW h, NEW lo \in Int, NEW hi \in Int, NEW v
  PROVE  /\ IsFiniteSet(Places(h, lo, hi, v)) /\ Count(h, lo, hi, v) \in Nat
         /\ Count(h, lo, hi, v) = 0 <=> Places(h, lo, hi, v) = {}
<1>1. IsFiniteSet(lo..(hi - 1)) /\ Places(h, lo, hi, v) \subseteq lo..(hi - 1)
  BY FS_Interval DEF Places
<1>2. IsFiniteSet(Places(h, lo, hi, v))
  BY <1>1, FS_Subset
<1> QED BY <1>2, FS_CardinalityType, FS_EmptySet DEF Count

LEMMA CountSplits ==
  ASSUME NEW h, NEW lo \in Int, NEW mid \in Int, NEW hi \in Int, lo <= mid, mid <= hi, NEW v
  PROVE  Count(h, lo, hi, v) = Count(h, lo, mid, v) + Count(h, mid, hi, v)
<1> DEFINE A == Places(h, lo, mid, v)
           B == Places(h, mid, hi, v)
<1>1. Places(h, lo, hi, v) = A \cup B
  <2>1. \A x : x \in lo..(hi - 1) <=> x \in lo..(mid - 1) \/ x \in mid..(hi - 1)
    OBVIOUS
  <2> QED BY <2>1 DEF Places
<1>2. A \cap B = {}
  BY DEF Places
<1>3. IsFiniteSet(A) /\ IsFiniteSet(B)
  BY PlacesFinite
<1>4. Cardinality(A \cup B) = Cardinality(A) + Cardinality(B) - Cardinality(A \cap B)
  BY <1>3, FS_Union
<1>5. Cardinality(A) \in Nat /\ Cardinality(B) \in Nat /\ Cardinality({}) = 0
  BY <1>3, FS_CardinalityType, FS_EmptySet
<1> QED BY <1>1, <1>2, <1>4, <1>5 DEF Count

LEMMA CountOfCell ==
  ASSUME NEW h, NEW x \in Int, NEW v
  PROVE  Count(h, x, x + 1, v) = IF h[x] = v THEN 1 ELSE 0
<1>1. x..((x + 1) - 1) = {x}
  OBVIOUS
<1>2. Places(h, x, x + 1, v) = IF h[x] = v THEN {x} ELSE {}
  BY <1>1 DEF Places
<1> QED BY <1>2, FS_EmptySet, FS_Singleton DEF Count

LEMMA CountOfNone ==
  ASSUME NEW h, NEW lo \in Int, NEW hi \in Int, hi <= lo, NEW v
  PROVE  Count(h, lo, hi, v) = 0
<1>1. Places(h, lo, hi, v) = {}
  BY DEF Places
<1> QED BY <1>1, PlacesFinite

LEMMA CountOfAlike ==
  ASSUME NEW h, NEW g, NEW lo, NEW hi, Alike(h, g, lo, hi), NEW v
  PROVE  Count(h, lo, hi, v) = Count(g, lo, hi, v)
<1>1. Places(h, lo, hi, v) = Places(g, lo, hi, v)
  BY DEF Alike, Places
<1> QED BY <1>1 DEF Count

\* A value that is counted is there.
LEMMA Occurs ==
  ASSUME NEW h, NEW lo \in Int, NEW hi \in Int, NEW x \in lo..(hi - 1)
  PROVE  Count(h, lo, hi, h[x]) > 0
<1>1. x \in Places(h, lo, hi, h[x])
  BY DEF Places
<1> QED BY <1>1, PlacesFinite

LEMMA OccursThere ==
  ASSUME NEW h, NEW lo \in Int, NEW hi \in Int, NEW v, Count(h, lo, hi, v) > 0
  PROVE  \E x \in lo..(hi - 1) : h[x] = v
<1>1. Places(h, lo, hi, v) # {}
  BY PlacesFinite
<1> QED BY <1>1 DEF Places

LEMMA AscendingOfAlike ==
  ASSUME NEW h, NEW g, NEW lo, NEW hi, Alike(h, g, lo, hi), Ascending(h, lo, hi)
  PROVE  Ascending(g, lo, hi)
BY DEF Alike, Ascending

LEMMA AscendingWithin ==
  ASSUME NEW h, NEW lo \in Int, NEW hi \in Int, Ascending(h, lo, hi),
         NEW a \in Int, NEW b \in Int, lo <= a, b <= hi
  PROVE  Ascending(h, a, b)
BY DEF Ascending

LEMMA SortOfAlike ==
  ASSUME NEW h, NEW f, NEW g, NEW lo, NEW hi, Alike(h, f, lo, hi), SortOf(h, g, lo, hi)
  PROVE  SortOf(f, g, lo, hi)
BY CountOfAlike, AscendingOfAlike DEF SortOf

LEMMA MergeOfAlike ==
  ASSUME NEW h, NEW f, NEW g, NEW e, NEW a, NEW la, NEW b, NEW lb, NEW c,
         Alike(h, f, c, c + (la + lb)), Alike(g, e, a, a + la), Alike(g, e, b, b + lb),
         MergeOf(h, c, g, a, la, b, lb)
  PROVE  MergeOf(f, c, e, a, la, b, lb)
<1>1. Ascending(f, c, c + (la + lb))
  BY AscendingOfAlike DEF MergeOf
<1>2. ASSUME NEW v
      PROVE  Count(f, c, c + (la + lb), v) = Count(e, a, a + la, v) + Count(e, b, b + lb, v)
  BY CountOfAlike DEF MergeOf
<1> QED BY <1>1, <1>2 DEF MergeOf

\* Two rows in ascending order, none of the first above any of the second, make one.
LEMMA AscendingJoins ==
  ASSUME NEW h, NEW lo \in Int, NEW mid \in Int, NEW hi \in Int, lo <= mid, mid <= hi,
         Ascending(h, lo, mid), Ascending(h, mid, hi),
         \A x \in lo..(mid - 1), y \in mid..(hi - 1) : h[x] <= h[y]
  PROVE  Ascending(h, lo, hi)
<1> SUFFICES ASSUME NEW x \in lo..(hi - 1), NEW y \in lo..(hi - 1), x <= y
             PROVE  h[x] <= h[y]
  BY DEF Ascending
<1>1. CASE y < mid
  <2>1. x \in lo..(mid - 1) /\ y \in lo..(mid - 1)
    BY <1>1
  <2> QED BY <2>1 DEF Ascending
<1>2. CASE mid <= x
  <2>1. x \in mid..(hi - 1) /\ y \in mid..(hi - 1)
    BY <1>2
  <2> QED BY <2>1 DEF Ascending
<1>3. CASE x < mid /\ mid <= y
  <2>1. x \in lo..(mid - 1) /\ y \in mid..(hi - 1)
    BY <1>3
  <2> QED BY <2>1
<1> QED BY <1>1, <1>2, <1>3

\* The next value goes to the end of what is merged.
LEMMA MergeTakes ==
  ASSUME NEW h \in Rows, NEW f \in Rows, NEW g \in Rows, NEW c \in Nat,
         NEW a \in Nat, NEW i \in Nat, NEW b \in Nat, NEW j \in Nat, NEW n \in Nat, n = c + (i + j),
         Alike(h, f, c, n), MergeOf(h, c, g, a, i, b, j),
         f[n] = g[a + i], \A x \in c..(n - 1) : h[x] <= g[a + i]
  PROVE  MergeOf(f, c, g, a, i + 1, b, j)
<1>0. n + 1 = c + ((i + 1) + j) /\ (a + i) + 1 = a + (i + 1) /\ a + i \in Nat
  OBVIOUS
<1>1. Ascending(f, c, n + 1)
  <2>1. Ascending(f, c, n)
    BY AscendingOfAlike DEF MergeOf
  <2>2. Ascending(f, n, n + 1)
    <3> SUFFICES ASSUME NEW x \in n..((n + 1) - 1), NEW y \in n..((n + 1) - 1) PROVE f[x] <= f[y]
      BY DEF Ascending
    <3>1. x = n /\ y = n /\ f[n] \in Int
      BY DEF Rows
    <3> QED BY <3>1
  <2>3. ASSUME NEW x \in c..(n - 1), NEW y \in n..((n + 1) - 1) PROVE f[x] <= f[y]
    <3>1. y = n /\ f[x] = h[x]
      BY DEF Alike
    <3> QED BY <3>1
  <2>4. n + 1 \in Int /\ c <= n /\ n <= n + 1
    OBVIOUS
  <2> QED BY <2>1, <2>2, <2>3, <2>4, AscendingJoins
<1>2. ASSUME NEW v
      PROVE  Count(f, c, n + 1, v) = Count(g, a, (a + i) + 1, v) + Count(g, b, b + j, v)
  <2>1. Count(f, c, n + 1, v) = Count(f, c, n, v) + Count(f, n, n + 1, v)
    BY CountSplits
  <2>2. Count(g, a, (a + i) + 1, v) = Count(g, a, a + i, v) + Count(g, a + i, (a + i) + 1, v)
    BY <1>0, CountSplits
  <2>3. Count(f, n, n + 1, v) = Count(g, a + i, (a + i) + 1, v)
    BY <1>0, CountOfCell
  <2>4. Count(f, c, n, v) = Count(g, a, a + i, v) + Count(g, b, b + j, v)
    BY CountOfAlike DEF MergeOf
  <2>5. /\ Count(g, a, a + i, v) \in Nat /\ Count(g, b, b + j, v) \in Nat
        /\ Count(g, a + i, (a + i) + 1, v) \in Nat
    BY <1>0, PlacesFinite
  <2> QED BY <2>1, <2>2, <2>3, <2>4, <2>5
<1> QED BY <1>0, <1>1, <1>2 DEF MergeOf

\* The two sources of a merge may be swapped.
LEMMA MergeSwaps ==
  ASSUME NEW h, NEW g, NEW c \in Nat, NEW a \in Nat, NEW i \in Nat, NEW b \in Nat, NEW j \in Nat,
         MergeOf(h, c, g, a, i, b, j)
  PROVE  MergeOf(h, c, g, b, j, a, i)
<1>1. i + j = j + i
  OBVIOUS
<1>2. ASSUME NEW v
      PROVE  Count(g, a, a + i, v) + Count(g, b, b + j, v) = Count(g, b, b + j, v) + Count(g, a, a + i, v)
  <2>1. Count(g, a, a + i, v) \in Nat /\ Count(g, b, b + j, v) \in Nat
    BY PlacesFinite
  <2> QED BY <2>1
<1> QED BY <1>1, <1>2 DEF MergeOf

\* Nothing has been merged at first.
LEMMA MergeOfNone ==
  ASSUME NEW h, NEW g, NEW c \in Nat, NEW a \in Nat, NEW b \in Nat
  PROVE  MergeOf(h, c, g, a, 0, b, 0)
<1>1. Ascending(h, c, c + (0 + 0))
  BY DEF Ascending
<1>2. c + (0 + 0) = c /\ a + 0 = a /\ b + 0 = b
  OBVIOUS
<1>3. ASSUME NEW v PROVE Count(h, c, c, v) = Count(g, a, a, v) + Count(g, b, b, v)
  <2>1. Count(h, c, c, v) = 0 /\ Count(g, a, a, v) = 0 /\ Count(g, b, b, v) = 0
    BY CountOfNone
  <2> QED BY <2>1
<1> QED BY <1>1, <1>2, <1>3 DEF MergeOf

\* v is among the n values of g from a on
Among(v, g, a, n) == \E y \in a..((a + n) - 1) : v = g[y]

\* What is merged comes from the sources.
LEMMA MergedValue ==
  ASSUME NEW h, NEW g, NEW c \in Nat, NEW a \in Nat, NEW la \in Nat, NEW b \in Nat, NEW lb \in Nat,
         MergeOf(h, c, g, a, la, b, lb), NEW x \in c..((c + (la + lb)) - 1)
  PROVE  Among(h[x], g, a, la) \/ Among(h[x], g, b, lb)
<1>1. Count(h, c, c + (la + lb), h[x]) > 0
  BY Occurs
<1>2. Count(g, a, a + la, h[x]) + Count(g, b, b + lb, h[x]) > 0
  BY <1>1 DEF MergeOf
<1>3. Count(g, a, a + la, h[x]) \in Nat /\ Count(g, b, b + lb, h[x]) \in Nat
  BY PlacesFinite
<1>4. CASE Count(g, a, a + la, h[x]) > 0
  <2>1. \E y \in a..((a + la) - 1) : g[y] = h[x]
    BY <1>4, OccursThere
  <2> QED BY <2>1 DEF Among
<1>5. CASE Count(g, b, b + lb, h[x]) > 0
  <2>1. \E y \in b..((b + lb) - 1) : g[y] = h[x]
    BY <1>5, OccursThere
  <2> QED BY <2>1 DEF Among
<1> QED BY <1>2, <1>3, <1>4, <1>5

\* Two merges, of what is at most v and of what is at least v, make one.
LEMMA MergeJoins ==
  ASSUME NEW h \in Rows, NEW g \in Rows, NEW c \in Nat, NEW a \in Nat, NEW la \in Nat,
         NEW b \in Nat, NEW lb \in Nat, NEW m \in Nat, NEW s \in Nat, m <= la, s <= lb, NEW v \in Int,
         MergeOf(h, c, g, a, m, b, s),
         MergeOf(h, c + (m + s), g, a + m, la - m, b + s, lb - s),
         \A x \in a..((a + m) - 1) : g[x] <= v,
         \A x \in b..((b + s) - 1) : g[x] <= v,
         \A x \in (a + m)..((a + la) - 1) : v <= g[x],
         \A x \in (b + s)..((b + lb) - 1) : v <= g[x]
  PROVE  MergeOf(h, c, g, a, la, b, lb)
<1> DEFINE mid == c + (m + s)
           hi == c + (la + lb)
           ra == la - m
           rb == lb - s
           am == a + m
           bs == b + s
<1>1. /\ mid \in Nat /\ hi \in Nat /\ ra \in Nat /\ rb \in Nat /\ am \in Nat /\ bs \in Nat
      /\ c <= mid /\ mid <= hi /\ mid + (ra + rb) = hi
      /\ a <= am /\ b <= bs /\ am <= a + la /\ bs <= b + lb
      /\ am + ra = a + la /\ bs + rb = b + lb
  OBVIOUS
<1>2. MergeOf(h, mid, g, am, ra, bs, rb)
  OBVIOUS
<1>3. ASSUME NEW x \in c..(mid - 1) PROVE h[x] <= v
  <2>1. Among(h[x], g, a, m) \/ Among(h[x], g, b, s)
    BY MergedValue
  <2> QED BY <2>1 DEF Among
<1>4. (am + ra) - 1 = (a + la) - 1 /\ (bs + rb) - 1 = (b + lb) - 1
  BY <1>1
<1> HIDE DEF mid, hi, ra, rb
<1>5. ASSUME NEW x \in mid..(hi - 1) PROVE v <= h[x]
  <2>0. x \in mid..((mid + (ra + rb)) - 1)
    BY <1>1
  <2>1. Among(h[x], g, am, ra) \/ Among(h[x], g, bs, rb)
    BY <1>1, <1>2, <2>0, MergedValue
  <2> QED BY <1>4, <2>1 DEF Among
<1> HIDE DEF am, bs
<1>6. Ascending(h, c, hi)
  <2>1. Ascending(h, c, mid)
    BY DEF MergeOf, mid
  <2>2. Ascending(h, mid, hi)
    BY <1>1, <1>2 DEF MergeOf
  <2>3. ASSUME NEW x \in c..(mid - 1), NEW y \in mid..(hi - 1) PROVE h[x] <= h[y]
    <3>1. h[x] \in Int /\ h[y] \in Int
      BY <1>1 DEF Rows
    <3> QED BY <1>3, <1>5, <3>1
  <2> QED BY <1>1, <2>1, <2>2, <2>3, AscendingJoins
<1>7. ASSUME NEW w
      PROVE  Count(h, c, hi, w) = Count(g, a, a + la, w) + Count(g, b, b + lb, w)
  <2>1. Count(h, c, hi, w) = Count(h, c, mid, w) + Count(h, mid, hi, w)
    BY <1>1, CountSplits
  <2>2. Count(g, a, a + la, w) = Count(g, a, am, w) + Count(g, am, a + la, w)
    BY <1>1, CountSplits
  <2>3. Count(g, b, b + lb, w) = Count(g, b, bs, w) + Count(g, bs, b + lb, w)
    BY <1>1, CountSplits
  <2>4. Count(h, c, mid, w) = Count(g, a, am, w) + Count(g, b, bs, w)
    BY DEF MergeOf, mid, am, bs
  <2>5. Count(h, mid, hi, w) = Count(g, am, a + la, w) + Count(g, bs, b + lb, w)
    BY <1>1, <1>2 DEF MergeOf
  <2>6. /\ Count(g, a, am, w) \in Nat /\ Count(g, b, bs, w) \in Nat
        /\ Count(g, am, a + la, w) \in Nat /\ Count(g, bs, b + lb, w) \in Nat
    BY <1>1, PlacesFinite
  <2> QED BY <2>1, <2>2, <2>3, <2>4, <2>5, <2>6
<1> QED BY <1>6, <1>7 DEF MergeOf, hi

\* A merge of two adjacent sorted rows sorts both.
LEMMA SortsJoin ==
  ASSUME NEW h, NEW g, NEW i, NEW a \in Nat, NEW b \in Nat, NEW e \in Nat, a <= b, b <= e,
         MergeOf(h, a, g, a, b - a, b, e - b), SortOf(g, i, a, b), SortOf(g, i, b, e)
  PROVE  SortOf(h, i, a, e)
<1>1. a + ((b - a) + (e - b)) = e /\ a + (b - a) = b /\ b + (e - b) = e
  OBVIOUS
<1>2. Ascending(h, a, e)
  BY <1>1 DEF MergeOf
<1>3. ASSUME NEW v PROVE Count(h, a, e, v) = Count(i, a, e, v)
  <2>1. Count(h, a, e, v) = Count(g, a, b, v) + Count(g, b, e, v)
    BY <1>1 DEF MergeOf
  <2>2. Count(i, a, e, v) = Count(i, a, b, v) + Count(i, b, e, v)
    BY CountSplits
  <2> QED BY <2>1, <2>2 DEF SortOf
<1> QED BY <1>2, <1>3 DEF SortOf

-----------------------------------------------------------------------------
(* What a call has done so far, and what it has done when it returns.        *)

\* the four quarters of n cells from o on are sorted, as mergesort splits them
Quarters(h, g, o, n) ==
  LET q == n \div 4
  IN  /\ SortOf(h, g, o, o + q) /\ SortOf(h, g, o + q, o + 2 * q)
      /\ SortOf(h, g, o + 2 * q, o + 3 * q) /\ SortOf(h, g, o + 3 * q, o + n)

Halves(h, g, o, n) ==
  LET k == 2 * (n \div 4)
  IN  SortOf(h, g, o, o + k) /\ SortOf(h, g, o + k, o + n)

\* a and b of a mergesort are the same part of the two arrays; I and O are the arrays
SortNow(I, O, g, f) ==
  LET o == f.a[2] IN
  /\ f.b[2] = o
  /\ f.pc = "entry" => Alike(g, I, o, o + f.len)
  /\ f.pc = "halves_merged" => Quarters(I, g, o, f.len)
  /\ f.pc = "return" => Halves(O, g, o, f.len)

\* what precedes lo is at most v, what follows hi at least
SplitAt(A, f) ==
  /\ f.lena >= 1 /\ f.v = A[f.a[2] + (f.lena \div 2)]
  /\ \A x \in f.b[2]..((f.b[2] + f.lo) - 1) : A[x] <= f.v
  /\ \A x \in (f.b[2] + f.hi)..((f.b[2] + f.lenb) - 1) : f.v <= A[x]

\* nothing merged is above what is left
MergedBelow(C, c, k, A, lo, hi) ==
  \A x \in c..((c + k) - 1), y \in lo..(hi - 1) : C[x] <= A[y]

MergeNow(A, C, f) ==
  LET a == f.a[2] b == f.b[2] c == f.c[2] IN
  /\ Ascending(A, a, a + f.lena) /\ Ascending(A, b, b + f.lenb)
  /\ f.pc = "entry" => f.lo = 0 /\ f.hi = f.lenb
  /\ f.pc \in {"find_split", "return"} => SplitAt(A, f)
  /\ f.pc = "return" => f.lo = f.hi
  /\ f.pc = "seq_merge" =>
       /\ MergeOf(C, c, A, a, f.i, b, f.j)
       /\ MergedBelow(C, c, f.k, A, a + f.i, a + f.lena)
       /\ MergedBelow(C, c, f.k, A, b + f.j, b + f.lenb)

\* g is what in was initialized to
Now(m, g, f) ==
  /\ f.fn = "mergesort" => SortNow(Row(m, f.a[1]), Row(m, f.b[1]), g, f)
  /\ f.fn = "merge" => MergeNow(Row(m, f.a[1]), Row(m, f.c[1]), f)

SortDone(I, O, g, f) ==
  LET o == f.a[2] IN
  /\ f.b[2] = o
  /\ SortOf(I, g, o, o + f.len)
  /\ f.len > quick_size => Halves(O, g, o, f.len)

Done(m, g, f) ==
  /\ f.fn = "mergesort" => SortDone(Row(m, f.a[1]), Row(m, f.b[1]), g, f)
  /\ f.fn = "merge" => MergeOf(Row(m, f.c[1]), f.c[2], Row(m, f.a[1]), f.a[2], f.lena, f.b[2], f.lenb)

-----------------------------------------------------------------------------
(* Both are about the cells that are among the effects of the call.          *)

SameCells(m, w, S) == \A x \in S : w[x] = m[x]

LEMMA RowTyped ==
  ASSUME NEW D, NEW m \in [D -> Int], NEW blk
  PROVE  Row(m, blk) \in Rows
BY DEF Row, Rows

LEMMA RowsAlike ==
  ASSUME NEW D, NEW m \in [D -> Int], NEW w \in [D -> Int],
         NEW ptr \in Pointers, NEW n \in Int, SameCells(m, w, Cells(ptr, n))
  PROVE  Alike(Row(m, ptr[1]), Row(w, ptr[1]), ptr[2], ptr[2] + n)
<1> SUFFICES ASSUME NEW x \in ptr[2]..((ptr[2] + n) - 1)
             PROVE  Row(m, ptr[1])[x] = Row(w, ptr[1])[x]
  BY DEF Alike
<1>1. ptr[2] \in Nat /\ x \in Nat /\ x - ptr[2] \in 0..(n - 1)
  BY DEF Pointers
<1>2. Plus(ptr, x - ptr[2]) = <<ptr[1], x>>
  BY <1>1 DEF Plus
<1>3. <<ptr[1], x>> \in Cells(ptr, n)
  BY <1>1, <1>2, CellIn
<1> QED BY <1>1, <1>3 DEF SameCells, Row

\* Rows of other blocks than the one written stay.
LEMMA RowOther ==
  ASSUME NEW D, NEW m \in [D -> Int], NEW w \in [D -> Int],
         NEW ptr \in Pointers, NEW n \in Int, SameCells(m, w, D \ Cells(ptr, n)),
         NEW blk, blk # ptr[1]
  PROVE  Row(w, blk) = Row(m, blk)
<1>1. ASSUME NEW x \in Nat PROVE <<blk, x>> \notin Cells(ptr, n)
  BY DEF Cells, Plus
<1>2. ASSUME NEW x \in Nat, <<blk, x>> \in D PROVE w[<<blk, x>>] = m[<<blk, x>>]
  BY <1>1, <1>2 DEF SameCells
<1> QED BY <1>2 DEF Row

LEMMA AlikeWithin ==
  ASSUME NEW h, NEW g, NEW lo \in Int, NEW hi \in Int, Alike(h, g, lo, hi),
         NEW a \in Int, NEW b \in Int, lo <= a, b <= hi
  PROVE  Alike(h, g, a, b)
BY DEF Alike

LEMMA QuarterBounds ==
  ASSUME NEW n \in Nat
  PROVE  /\ n \div 4 \in Nat /\ 2 * (n \div 4) \in Nat /\ 3 * (n \div 4) \in Nat
         /\ n \div 4 <= 2 * (n \div 4) /\ 2 * (n \div 4) <= 3 * (n \div 4) /\ 3 * (n \div 4) <= n
         /\ 2 * (n \div 4) = (n \div 4) + (n \div 4)
         /\ 3 * (n \div 4) = (n \div 4) + (n \div 4) + (n \div 4)
<1>1. n \div 4 \in Nat /\ 4 * (n \div 4) <= n
  OBVIOUS
<1> QED BY <1>1

LEMMA HalvesAlike ==
  ASSUME NEW h, NEW f, NEW g, NEW o \in Nat, NEW n \in Nat,
         Alike(h, f, o, o + n), Halves(h, g, o, n)
  PROVE  Halves(f, g, o, n)
<1> DEFINE k == 2 * (n \div 4)
<1>1. k \in Nat /\ k <= n
  BY QuarterBounds
<1>2. SortOf(h, g, o, o + k) /\ SortOf(h, g, o + k, o + n)
  BY DEF Halves
<1> HIDE DEF k
<1>3. Alike(h, f, o, o + k) /\ Alike(h, f, o + k, o + n)
  BY <1>1, AlikeWithin
<1>4. SortOf(f, g, o, o + k) /\ SortOf(f, g, o + k, o + n)
  BY <1>2, <1>3, SortOfAlike
<1> QED BY <1>4 DEF Halves, k

LEMMA QuartersAlike ==
  ASSUME NEW h, NEW f, NEW g, NEW o \in Nat, NEW n \in Nat,
         Alike(h, f, o, o + n), Quarters(h, g, o, n)
  PROVE  Quarters(f, g, o, n)
<1> DEFINE q == n \div 4
           q2 == 2 * q
           q3 == 3 * q
<1>1. q \in Nat /\ q2 \in Nat /\ q3 \in Nat /\ q <= q2 /\ q2 <= q3 /\ q3 <= n
  BY QuarterBounds
<1>2. /\ SortOf(h, g, o, o + q) /\ SortOf(h, g, o + q, o + q2)
      /\ SortOf(h, g, o + q2, o + q3) /\ SortOf(h, g, o + q3, o + n)
  BY DEF Quarters
<1> HIDE DEF q, q2, q3
<1>3. /\ Alike(h, f, o, o + q) /\ Alike(h, f, o + q, o + q2)
      /\ Alike(h, f, o + q2, o + q3) /\ Alike(h, f, o + q3, o + n)
  BY <1>1, AlikeWithin
<1>4. /\ SortOf(f, g, o, o + q) /\ SortOf(f, g, o + q, o + q2)
      /\ SortOf(f, g, o + q2, o + q3) /\ SortOf(f, g, o + q3, o + n)
  BY <1>2, <1>3, SortOfAlike
<1> QED BY <1>4 DEF Quarters, q, q2, q3

\* the memories agree on what a call reads and writes
Spared(m, w, f) ==
  SameCells(m, w, Eff(f, "read")) /\ SameCells(m, w, Eff(f, "write"))

LEMMA SortSpared ==
  ASSUME NEW D, NEW m \in [D -> Int], NEW w \in [D -> Int],
         NEW f \in Activations, f.fn = "mergesort", Spared(m, w, f), f.b[2] = f.a[2]
  PROVE  /\ Alike(Row(m, f.a[1]), Row(w, f.a[1]), f.a[2], f.a[2] + f.len)
         /\ Alike(Row(m, f.b[1]), Row(w, f.b[1]), f.a[2], f.a[2] + f.len)
<1>1. f.a \in Pointers /\ f.b \in Pointers /\ f.len \in Int
  BY DEF Activations
<1>2. SameCells(m, w, Cells(f.a, f.len)) /\ SameCells(m, w, Cells(f.b, f.len))
  BY DEF Spared, Eff, SameCells
<1> QED BY <1>1, <1>2, RowsAlike

LEMMA MergeSpared ==
  ASSUME NEW D, NEW m \in [D -> Int], NEW w \in [D -> Int],
         NEW f \in Activations, f.fn = "merge", Spared(m, w, f), f.a[1] = f.b[1]
  PROVE  /\ Alike(Row(m, f.a[1]), Row(w, f.a[1]), f.a[2], f.a[2] + f.lena)
         /\ Alike(Row(m, f.a[1]), Row(w, f.a[1]), f.b[2], f.b[2] + f.lenb)
         /\ Alike(Row(m, f.c[1]), Row(w, f.c[1]), f.c[2], f.c[2] + (f.lena + f.lenb))
<1>1. f.a \in Pointers /\ f.b \in Pointers /\ f.c \in Pointers
      /\ f.lena \in Int /\ f.lenb \in Int /\ f.lena + f.lenb \in Int
  BY DEF Activations
<1>2. /\ SameCells(m, w, Cells(f.a, f.lena)) /\ SameCells(m, w, Cells(f.b, f.lenb))
      /\ SameCells(m, w, Cells(f.c, f.lena + f.lenb))
  BY DEF Spared, Eff, SameCells
<1> QED BY <1>1, <1>2, RowsAlike

LEMMA DoneKept ==
  ASSUME NEW D, NEW m \in [D -> Int], NEW w \in [D -> Int], NEW g,
         NEW n, NEW f, ActOK(f, n), Spared(m, w, f), Done(m, g, f)
  PROVE  Done(w, g, f)
<1>0. f \in Activations
  BY DEF ActOK
<1>1. CASE f.fn = "mergesort"
  <2>1. SortDone(Row(m, f.a[1]), Row(m, f.b[1]), g, f) /\ f.b[2] = f.a[2]
    BY <1>1 DEF Done, SortDone
  <2>2. f.a[2] \in Nat /\ f.len \in Nat
    BY <1>0, <1>1 DEF Activations, Pointers
  <2>3. /\ Alike(Row(m, f.a[1]), Row(w, f.a[1]), f.a[2], f.a[2] + f.len)
        /\ Alike(Row(m, f.b[1]), Row(w, f.b[1]), f.a[2], f.a[2] + f.len)
    BY <1>0, <1>1, <2>1, SortSpared
  <2>4. SortOf(Row(w, f.a[1]), g, f.a[2], f.a[2] + f.len)
    BY <2>1, <2>3, SortOfAlike DEF SortDone
  <2>5. f.len > quick_size => Halves(Row(w, f.b[1]), g, f.a[2], f.len)
    BY <2>1, <2>2, <2>3, HalvesAlike DEF SortDone
  <2> QED BY <1>1, <2>1, <2>4, <2>5 DEF Done, SortDone
<1>2. CASE f.fn = "merge"
  <2>1. f.a[1] = f.b[1]
    BY <1>2 DEF ActOK, MergeOK
  <2> QED BY <1>0, <1>2, <2>1, MergeSpared, MergeOfAlike DEF Done
<1> QED BY <1>0, <1>1, <1>2 DEF Activations

LEMMA SplitKept ==
  ASSUME NEW A, NEW B, NEW f \in Activations, f.fn = "merge", NEW n, MergeOK(f, n), SplitAt(A, f),
         Alike(A, B, f.a[2], f.a[2] + f.lena), Alike(A, B, f.b[2], f.b[2] + f.lenb)
  PROVE  SplitAt(B, f)
<1>1. /\ f.a[2] \in Nat /\ f.b[2] \in Nat /\ f.lena \in Nat /\ f.lenb \in Nat
      /\ f.lo \in Nat /\ f.hi \in Nat
  BY DEF Activations, Pointers
<1>2. f.lena >= 1 /\ f.lo <= f.hi /\ f.hi <= f.lenb
  BY DEF SplitAt, MergeOK
<1>3. f.lena \div 2 \in Nat /\ f.lena \div 2 < f.lena
  BY <1>1, <1>2
<1>4. f.a[2] + (f.lena \div 2) \in f.a[2]..((f.a[2] + f.lena) - 1)
  BY <1>1, <1>3
<1>5. f.v = B[f.a[2] + (f.lena \div 2)]
  BY <1>4 DEF SplitAt, Alike
<1>6. ASSUME NEW x \in f.b[2]..((f.b[2] + f.lo) - 1) PROVE B[x] <= f.v
  <2>1. x \in f.b[2]..((f.b[2] + f.lenb) - 1)
    BY <1>1, <1>2
  <2> QED BY <2>1 DEF SplitAt, Alike
<1>7. ASSUME NEW x \in (f.b[2] + f.hi)..((f.b[2] + f.lenb) - 1) PROVE f.v <= B[x]
  <2>1. x \in f.b[2]..((f.b[2] + f.lenb) - 1)
    BY <1>1
  <2> QED BY <2>1 DEF SplitAt, Alike
<1> QED BY <1>2, <1>5, <1>6, <1>7 DEF SplitAt

LEMMA BelowKept ==
  ASSUME NEW C, NEW E, NEW A, NEW B, NEW c \in Int, NEW k \in Int, NEW lo \in Int, NEW hi \in Int,
         MergedBelow(C, c, k, A, lo, hi), Alike(C, E, c, c + k), Alike(A, B, lo, hi)
  PROVE  MergedBelow(E, c, k, B, lo, hi)
BY DEF MergedBelow, Alike

LEMMA NowKept ==
  ASSUME NEW D, NEW m \in [D -> Int], NEW w \in [D -> Int], NEW g,
         NEW n, NEW f, ActOK(f, n), Spared(m, w, f), Now(m, g, f)
  PROVE  Now(w, g, f)
<1>0. f \in Activations
  BY DEF ActOK
<1>1. CASE f.fn = "mergesort"
  <2> DEFINE I == Row(m, f.a[1])
             O == Row(m, f.b[1])
             J == Row(w, f.a[1])
             P == Row(w, f.b[1])
  <2>1. SortNow(I, O, g, f) /\ f.b[2] = f.a[2]
    BY <1>1 DEF Now, SortNow
  <2>2. f.a[2] \in Nat /\ f.len \in Nat
    BY <1>0, <1>1 DEF Activations, Pointers
  <2>3. Alike(I, J, f.a[2], f.a[2] + f.len) /\ Alike(O, P, f.a[2], f.a[2] + f.len)
    BY <1>0, <1>1, <2>1, SortSpared
  <2> HIDE DEF I, J, O, P
  <2>4. f.pc = "entry" => Alike(g, J, f.a[2], f.a[2] + f.len)
    BY <2>1, <2>3 DEF SortNow, Alike
  <2>5. f.pc = "halves_merged" => Quarters(J, g, f.a[2], f.len)
    BY <2>1, <2>2, <2>3, QuartersAlike DEF SortNow
  <2>6. f.pc = "return" => Halves(P, g, f.a[2], f.len)
    BY <2>1, <2>2, <2>3, HalvesAlike DEF SortNow
  <2>7. SortNow(J, P, g, f)
    BY <2>1, <2>4, <2>5, <2>6 DEF SortNow
  <2> QED BY <1>1, <2>7 DEF Now, J, P
<1>2. CASE f.fn = "merge"
  <2> DEFINE A == Row(m, f.a[1])
             C == Row(m, f.c[1])
             B == Row(w, f.a[1])
             E == Row(w, f.c[1])
             a == f.a[2]
             b == f.b[2]
             c == f.c[2]
  <2>0. MergeOK(f, n) /\ f.a[1] = f.b[1]
    BY <1>2 DEF ActOK, MergeOK
  <2>1. MergeNow(A, C, f)
    BY <1>2 DEF Now
  <2>2. /\ Alike(A, B, a, a + f.lena) /\ Alike(A, B, b, b + f.lenb)
        /\ Alike(C, E, c, c + (f.lena + f.lenb))
    BY <1>0, <1>2, <2>0, MergeSpared
  <2>3. /\ a \in Nat /\ b \in Nat /\ c \in Nat /\ f.lena \in Nat /\ f.lenb \in Nat
        /\ f.i \in Nat /\ f.j \in Nat /\ f.k \in Nat
    BY <1>0, <1>2 DEF Activations, Pointers
  <2>4. f.i <= f.lena /\ f.j <= f.lenb /\ f.k = f.i + f.j
    BY <2>0 DEF MergeOK
  <2> HIDE DEF A, B, C, E
  <2>5. f.pc \in {"find_split", "return"} => SplitAt(B, f)
    BY <1>0, <1>2, <2>0, <2>1, <2>2, SplitKept DEF MergeNow
  <2>6. Ascending(B, a, a + f.lena) /\ Ascending(B, b, b + f.lenb)
    BY <2>1, <2>2, AscendingOfAlike DEF MergeNow
  <2> HIDE DEF a, b, c
  <2>7. /\ Alike(C, E, c, c + (f.i + f.j)) /\ Alike(C, E, c, c + f.k)
        /\ Alike(A, B, a, a + f.i) /\ Alike(A, B, a + f.i, a + f.lena)
        /\ Alike(A, B, b, b + f.j) /\ Alike(A, B, b + f.j, b + f.lenb)
    <3>1. /\ a \in Int /\ b \in Int /\ c \in Int /\ c + (f.i + f.j) \in Int /\ c + f.k \in Int
          /\ a + f.i \in Int /\ a + f.lena \in Int /\ b + f.j \in Int /\ b + f.lenb \in Int
          /\ c + (f.i + f.j) <= c + (f.lena + f.lenb) /\ c + f.k <= c + (f.lena + f.lenb)
          /\ a + f.i <= a + f.lena /\ b + f.j <= b + f.lenb /\ a <= a + f.i /\ b <= b + f.j
          /\ c + (f.lena + f.lenb) \in Int
      BY <2>3, <2>4
    <3> QED BY <2>2, <3>1, AlikeWithin
  <2>8. ASSUME f.pc = "seq_merge"
        PROVE  /\ MergeOf(E, c, B, a, f.i, b, f.j)
               /\ MergedBelow(E, c, f.k, B, a + f.i, a + f.lena)
               /\ MergedBelow(E, c, f.k, B, b + f.j, b + f.lenb)
    <3>1. /\ MergeOf(C, c, A, a, f.i, b, f.j)
          /\ MergedBelow(C, c, f.k, A, a + f.i, a + f.lena)
          /\ MergedBelow(C, c, f.k, A, b + f.j, b + f.lenb)
      BY <2>1, <2>8 DEF MergeNow, a, b, c
    <3>2. MergeOf(E, c, B, a, f.i, b, f.j)
      BY <2>7, <3>1, MergeOfAlike
    <3>3. MergedBelow(E, c, f.k, B, a + f.i, a + f.lena)
      BY <2>3, <2>7, <3>1, BelowKept
    <3>4. MergedBelow(E, c, f.k, B, b + f.j, b + f.lenb)
      BY <2>3, <2>7, <3>1, BelowKept
    <3> QED BY <3>2, <3>3, <3>4
  <2>9. MergeNow(B, E, f)
    BY <2>1, <2>5, <2>6, <2>8 DEF MergeNow, a, b, c
  <2> QED BY <1>2, <2>9 DEF Now, B, E
<1> QED BY <1>0, <1>1, <1>2 DEF Activations

\* While a task waits, what it relies on is not what its calls write.
LEMMA WaitKept ==
  ASSUME MergesortAssumption, NEW D, NEW m \in [D -> Int], NEW w \in [D -> Int], NEW g,
         len \in Nat, NEW f, ActOK(f, len), NEW k \in DOMAIN Calls(f),
         SameCells(m, w, D \ Eff(Calls(f)[k], "write")), Now(m, g, f)
  PROVE  Now(w, g, f)
<1>0. f \in Activations /\ f.fn \in {"mergesort", "merge"}
  BY DEF ActOK, Activations
<1>1. CASE f.fn = "mergesort" /\ f.pc = "quarters_sorted"
  BY <1>1 DEF Now, SortNow
<1>2. CASE f.fn = "mergesort" /\ f.pc = "halves_merged"
  <2> DEFINE d == Calls(f)[k]
             h == (f.len \div 4) + (f.len \div 4)
  <2>1. Calls(f) = HalfCalls(f) /\ k \in {1, 2}
    BY <1>2 DEF Calls, HalfCalls
  <2>2. d.fn = "merge" /\ d.c \in {f.b, Plus(f.b, h)}
    BY <2>1 DEF HalfCalls, MergeCall
  <2>3. /\ f.b \in Pointers /\ Plus(f.b, h) \in Pointers /\ Plus(f.b, h)[1] = f.b[1]
        /\ f.len \in Nat /\ f.a[1] # f.b[1]
    <3>1. f.b \in Pointers /\ f.len \in Nat /\ f.a[1] # f.b[1]
      BY <1>0, <1>2 DEF Activations, ActOK, SortOK
    <3>2. h \in Nat
      BY <3>1, QuarterBounds
    <3> QED BY <3>1, <3>2, PlusPointer
  <2>4. d.c \in Pointers /\ d.c[1] = f.b[1]
    BY <2>2, <2>3
  <2>5. Sound(Calls(f), f, len)
    BY CallsSound
  <2>6. d \in Activations
    BY <2>5 DEF Sound, ActOK
  <2>7. d.lena + d.lenb \in Int /\ Eff(d, "write") = Cells(d.c, d.lena + d.lenb)
    BY <2>2, <2>6 DEF Activations, Eff
  <2> HIDE DEF d
  <2>8. Row(w, f.a[1]) = Row(m, f.a[1])
    BY <2>3, <2>4, <2>7, RowOther DEF d
  <2> QED BY <1>2, <2>8 DEF Now, SortNow
<1>3. CASE f.fn = "mergesort" /\ f.pc = "return"
  <2> DEFINE d == Calls(f)[k]
  <2>1. Calls(f) = WholeCalls(f) /\ k = 1
    BY <1>3 DEF Calls, WholeCalls
  <2>2. d.fn = "merge" /\ d.c = f.a
    BY <2>1 DEF WholeCalls, MergeCall
  <2>3. f.a \in Pointers /\ f.a[1] # f.b[1]
    BY <1>0, <1>3 DEF Activations, ActOK, SortOK
  <2>5. Sound(Calls(f), f, len)
    BY CallsSound
  <2>6. d \in Activations
    BY <2>5 DEF Sound, ActOK
  <2>7. d.lena + d.lenb \in Int /\ Eff(d, "write") = Cells(d.c, d.lena + d.lenb)
    BY <2>2, <2>6 DEF Activations, Eff
  <2> HIDE DEF d
  <2>8. Row(w, f.b[1]) = Row(m, f.b[1])
    BY <2>2, <2>3, <2>7, RowOther DEF d
  <2> QED BY <1>3, <2>8 DEF Now, SortNow
<1>4. CASE f.fn = "merge" /\ f.pc = "return"
  <2> DEFINE d == Calls(f)[k]
             n == (f.lena \div 2) + f.hi
  <2>1. Calls(f) = PartCalls(f) /\ k \in {1, 2}
    BY <1>4 DEF Calls, PartCalls
  <2>2. d.fn = "merge" /\ d.c \in {f.c, Plus(f.c, n)}
    BY <2>1 DEF PartCalls, MergeCall
  <2>3. /\ f.c \in Pointers /\ Plus(f.c, n) \in Pointers /\ Plus(f.c, n)[1] = f.c[1]
        /\ f.a[1] # f.c[1]
    <3>1. f.c \in Pointers /\ f.lena \in Nat /\ f.hi \in Nat /\ f.a[1] # f.c[1]
      BY <1>0, <1>4 DEF Activations, ActOK, MergeOK
    <3>2. n \in Nat
      BY <3>1
    <3> QED BY <3>1, <3>2, PlusPointer
  <2>4. d.c \in Pointers /\ d.c[1] = f.c[1]
    BY <2>2, <2>3
  <2>5. Sound(Calls(f), f, len)
    BY CallsSound
  <2>6. d \in Activations
    BY <2>5 DEF Sound, ActOK
  <2>7. d.lena + d.lenb \in Int /\ Eff(d, "write") = Cells(d.c, d.lena + d.lenb)
    BY <2>2, <2>6 DEF Activations, Eff
  <2> HIDE DEF d
  <2>8. Row(w, f.a[1]) = Row(m, f.a[1])
    BY <2>3, <2>4, <2>7, RowOther DEF d
  <2> QED BY <1>4, <2>8 DEF Now, MergeNow
<1>5. Calls(f) # <<>>
  OBVIOUS
<1> QED BY <1>0, <1>1, <1>2, <1>3, <1>4, <1>5 DEF Calls

-----------------------------------------------------------------------------
(* The inductive invariant of the data.                                      *)

\* the same call, perhaps at another point of it
SameCall(f, g) ==
  /\ f.fn = g.fn /\ f.a = g.a /\ f.b = g.b
  /\ f.fn = "mergesort" => f.len = g.len
  /\ f.fn = "merge" => f.lena = g.lena /\ f.lenb = g.lenb /\ f.c = g.c

\* d is a call that has done nothing yet
Begins(m, g, d) == Now(m, g, d) /\ Calls(d) = <<>> /\ SameCall(d, d)

Main == SortCall(in, out, len)

\* every task but main's is what its parent has called
Linked ==
  /\ \A p \in DOMAIN tasks, k \in Int :
       Child(p, k) \in DOMAIN tasks =>
         k \in DOMAIN Calls(tasks[p]) /\ SameCall(tasks[Child(p, k)], Calls(tasks[p])[k])
  /\ DOMAIN tasks # {} => <<>> \in DOMAIN tasks
  /\ <<>> \in DOMAIN tasks => SameCall(tasks[<<>>], Main)

\* every task has done what its pc says, those that have ended all of it
DataOK ==
  /\ \A p \in DOMAIN tasks : Now(mem, input, tasks[p])
  /\ \A p \in DOMAIN tasks : \A k \in DOMAIN Calls(tasks[p]) :
       Child(p, k) \notin DOMAIN tasks => Done(mem, input, Calls(tasks[p])[k])
  /\ DOMAIN tasks = {} => Done(mem, input, Main)

LEMMA SameNames ==
  ASSUME NEW p, NEW i
  PROVE  Child(p, i) = EP!Child(p, i) /\ (Running(p) <=> EP!Running(p))
BY DEF Running, EP!Running, IsStrictPrefix, EP!IsStrictPrefix, IsPrefix, EP!IsPrefix, Child, EP!Child

\* Calls that do not conflict spare each other.
LEMMA ConflictSpares ==
  ASSUME NEW w, NEW f, NEW g, Checked!ConflictFree(f, g),
         Eff(f, "read") \subseteq Addresses, Eff(f, "write") \subseteq Addresses,
         SameCells(mem, w, Addresses \ Eff(g, "write"))
  PROVE  Spared(mem, w, f)
<1>1. <<"read", "write">> \in Checked!NonCommuting /\ <<"write", "write">> \in Checked!NonCommuting
  BY DEF Checked!NonCommuting
<1>2. Eff(f, "read") \cap Eff(g, "write") = {}
  BY <1>1 DEF Checked!ConflictFree
<1>3. Eff(f, "write") \cap Eff(g, "write") = {}
  BY <1>1 DEF Checked!ConflictFree
<1> QED BY <1>2, <1>3 DEF Spared, SameCells

LEMMA SparedWithin ==
  ASSUME NEW m, NEW w, NEW f, NEW g, Checked!Within(f, g), Spared(m, w, g)
  PROVE  Spared(m, w, f)
<1>1. Eff(f, "read") \subseteq Eff(g, "read") /\ Eff(f, "write") \subseteq Eff(g, "write")
  BY DEF Checked!Within
<1> QED BY <1>1 DEF Spared, SameCells

LEMMA SameCallEffects ==
  ASSUME NEW f \in Activations, NEW g, SameCall(f, g), NEW e
  PROVE  Eff(f, e) = Eff(g, e)
<1>1. f.fn \in {"mergesort", "merge"}
  BY DEF Activations
<1> QED BY <1>1 DEF SameCall, Eff

\* While q runs, a task is unrelated to it or has called what q descends from.
LEMMA Ancestors ==
  ASSUME Inv, EP!Nested, NEW q, Running(q), NEW p \in DOMAIN tasks, p # q
  PROVE  \/ ~EP!Related(p, q)
         \/ \E k \in Int : Child(p, k) \in DOMAIN tasks /\ Checked!Within(tasks[q], tasks[Child(p, k)])
<1>1. q \in DOMAIN tasks /\ q \in EP!Paths /\ p \in EP!Paths
  BY TasksArePaths DEF Running, Inv
<1>2. ~EP!IsPrefix(q, p)
  BY DEF Running, IsStrictPrefix, IsPrefix, EP!IsPrefix
<1>3. CASE EP!IsPrefix(p, q)
  <2> DEFINE k == q[Len(p) + 1]
  <2>1. EP!IsStrictPrefix(p, q)
    BY <1>3 DEF EP!IsStrictPrefix
  <2>2. EP!Toward(p, q) \in DOMAIN tasks /\ EP!Within(tasks[q], tasks[EP!Toward(p, q)])
    BY <1>1, <2>1 DEF EP!Nested
  <2>3. k \in Int
    BY <1>1, <2>1, EP!TowardFacts
  <2>4. EP!Toward(p, q) = Child(p, k)
    BY DEF EP!Toward, EP!Child, Child
  <2> HIDE DEF k
  <2> QED BY <2>2, <2>3, <2>4, SameNotions
<1> QED BY <1>2, <1>3 DEF EP!Related

\* What another task has done and relies on is spared by what q may write.
LEMMA Others ==
  ASSUME MergesortAssumption, Inv, EP!Nested, EP!UnrelatedDisjoint, Linked, DataOK,
         NEW q, Running(q), NEW w \in [Addresses -> Int],
         SameCells(mem, w, Addresses \ Eff(tasks[q], "write")),
         NEW p \in DOMAIN tasks, p # q
  PROVE  /\ Now(w, input, tasks[p])
         /\ \A k \in DOMAIN Calls(tasks[p]) :
              Child(p, k) \notin DOMAIN tasks => Done(w, input, Calls(tasks[p])[k])
<1> DEFINE f == tasks[p]
           c == Calls(f)
<1>1. /\ len \in Nat /\ ActOK(f, len) /\ mem \in [Addresses -> Int] /\ Now(mem, input, f)
      /\ q \in DOMAIN tasks /\ ActOK(tasks[q], len)
  BY DEF Inv, TypeOK, TasksOK, MergesortAssumption, DataOK, Running
<1>2. Sound(c, f, len)
  BY <1>1, CallsSound
<1>3. Eff(f, "read") \subseteq Addresses /\ Eff(f, "write") \subseteq Addresses
  BY <1>1, EffectsInBounds
<1>4. \A k \in DOMAIN c : Child(p, k) \notin DOMAIN tasks => Done(mem, input, c[k])
  BY DEF DataOK
<1>5. \A k \in DOMAIN c : ActOK(c[k], len) /\ Checked!Within(c[k], f)
  BY <1>2 DEF Sound
<1>6. \A k \in DOMAIN c : Eff(c[k], "read") \subseteq Addresses /\ Eff(c[k], "write") \subseteq Addresses
  BY <1>1, <1>5, EffectsInBounds
<1>7. CASE ~EP!Related(p, q)
  <2>1. Checked!ConflictFree(f, tasks[q])
    BY <1>1, <1>7, SameNotions DEF EP!UnrelatedDisjoint
  <2>2. Spared(mem, w, f)
    BY <1>3, <2>1, ConflictSpares
  <2>3. Now(w, input, f)
    BY <1>1, <2>2, NowKept
  <2>4. \A k \in DOMAIN c : Spared(mem, w, c[k])
    BY <1>5, <2>2, SparedWithin
  <2>5. \A k \in DOMAIN c : Child(p, k) \notin DOMAIN tasks => Done(w, input, c[k])
    BY <1>1, <1>4, <1>5, <2>4, DoneKept
  <2> QED BY <2>3, <2>5
<1>8. CASE \E i \in Int : Child(p, i) \in DOMAIN tasks /\ Checked!Within(tasks[q], tasks[Child(p, i)])
  <2>1. PICK i \in Int : Child(p, i) \in DOMAIN tasks /\ Checked!Within(tasks[q], tasks[Child(p, i)])
    BY <1>8
  <2>2. i \in DOMAIN c /\ SameCall(tasks[Child(p, i)], c[i])
    BY <2>1 DEF Linked
  <2>3. tasks[Child(p, i)] \in Activations
    BY <2>1 DEF Inv, TypeOK
  <2>4. Eff(tasks[q], "write") \subseteq Eff(c[i], "write")
    <3>1. Eff(tasks[q], "write") \subseteq Eff(tasks[Child(p, i)], "write")
      BY <2>1 DEF Checked!Within
    <3> QED BY <2>2, <2>3, <3>1, SameCallEffects
  <2>5. SameCells(mem, w, Addresses \ Eff(c[i], "write"))
    BY <2>4 DEF SameCells
  <2>6. Now(w, input, f)
    BY <1>1, <2>2, <2>5, WaitKept
  <2>7. ASSUME NEW k \in DOMAIN c, Child(p, k) \notin DOMAIN tasks PROVE Done(w, input, c[k])
    <3>1. Checked!ConflictFree(c[k], c[i])
      BY <1>2, <2>1, <2>2, <2>7 DEF Sound
    <3>2. Spared(mem, w, c[k])
      BY <1>6, <2>5, <3>1, ConflictSpares
    <3> QED BY <1>1, <1>4, <1>5, <2>7, <3>2, DoneKept
  <2> QED BY <2>6, <2>7
<1> QED BY <1>7, <1>8, Ancestors

LEMMA Fork ==
  ASSUME TasksOK, NEW p, Running(p), NEW act,
         NEW calls, DOMAIN calls \subseteq Int, Cobegin(p, act, calls)
  PROVE  /\ p \in DOMAIN tasks
         /\ DOMAIN tasks' = DOMAIN tasks \cup {Child(p, i) : i \in DOMAIN calls}
         /\ tasks'[p] = act
         /\ \A q \in DOMAIN tasks \ {p} : tasks'[q] = tasks[q]
         /\ \A i \in DOMAIN calls : /\ Child(p, i) \in DOMAIN tasks' \ DOMAIN tasks
                                    /\ tasks'[Child(p, i)] = calls[i]
         /\ \A q \in DOMAIN tasks', k \in Int : Child(q, k) \in DOMAIN tasks' =>
              \/ q = p /\ k \in DOMAIN calls
              \/ q \in DOMAIN tasks \ {p} /\ Child(q, k) \in DOMAIN tasks
<1>1. EP!PathsOK /\ EP!Running(p) /\ EP!Cobegin(p, act, calls)
  BY TasksArePaths, SameNames DEF EP!Cobegin, Cobegin, EP!Child, Child, EP!Last, Last
<1>2. /\ p \in DOMAIN tasks
      /\ DOMAIN tasks' = DOMAIN tasks \cup {EP!Child(p, i) : i \in DOMAIN calls}
      /\ tasks'[p] = act
      /\ \A q \in DOMAIN tasks \ {p} : tasks'[q] = tasks[q]
      /\ \A i \in DOMAIN calls : /\ EP!Child(p, i) \in DOMAIN tasks' \ DOMAIN tasks
                                 /\ tasks'[EP!Child(p, i)] = calls[i]
  BY <1>1, EP!ForkFacts
<1>3. \A q \in DOMAIN tasks', k \in Int : EP!Child(q, k) \in DOMAIN tasks' =>
        \/ q = p /\ k \in DOMAIN calls
        \/ q \in DOMAIN tasks \ {p} /\ EP!Child(q, k) \in DOMAIN tasks
  BY <1>1, EP!ForkChildren
<1> QED BY <1>2, <1>3 DEF Child, EP!Child

LEMMA NoChild ==
  ASSUME TasksOK, NEW p, Running(p), NEW i \in Int
  PROVE  Child(p, i) \notin DOMAIN tasks
<1>1. p \in EP!Paths /\ EP!Running(p)
  BY TasksArePaths, SameNames DEF Running
<1> QED BY <1>1, SameNames, EP!ChildIsNew

LEMMA ChildPath ==
  ASSUME TasksOK, NEW p \in DOMAIN tasks, NEW i \in Int
  PROVE  Child(p, i) # p /\ Child(p, i) # <<>>
<1>1. p \in EP!Paths
  BY TasksArePaths
<1>2. /\ EP!Child(p, i) \in EP!Paths /\ EP!Child(p, i) # p
      /\ Len(EP!Child(p, i)) = Len(p) + 1
  BY <1>1, EP!ChildFacts
<1>3. Len(p) \in Nat
  BY <1>1 DEF EP!Paths
<1>4. EP!Child(p, i) # <<>>
  BY <1>2, <1>3
<1> QED BY <1>2, <1>4 DEF Child, EP!Child

\* A path is the child of one task, and of one of its calls.
LEMMA ParentUnique ==
  ASSUME TasksOK, NEW p \in DOMAIN tasks, NEW i \in Int, NEW q \in DOMAIN tasks, NEW j \in Int,
         Child(p, i) = Child(q, j)
  PROVE  p = q /\ i = j
<1>1. p \in EP!Paths /\ q \in EP!Paths
  BY TasksArePaths
<1>2. EP!Child(p, i) = EP!Child(q, j)
  BY DEF EP!Child, Child
<1> QED BY <1>1, <1>2, EP!ChildInjective

\* When main's call runs, nothing else does.
LEMMA RootAlone ==
  ASSUME TasksOK, Running(<<>>)
  PROVE  DOMAIN tasks = {<<>>}
<1>1. ASSUME NEW q \in DOMAIN tasks, q # <<>> PROVE FALSE
  <2>1. q \in EP!Paths /\ <<>> \in EP!Paths /\ Len(<<>>) = 0
    BY TasksArePaths DEF EP!Paths
  <2>2. Len(q) \in Nat
    BY <2>1 DEF EP!Paths
  <2>3. EP!IsPrefix(<<>>, q)
    BY <2>1, <2>2, EP!PrefixAgrees
  <2>4. IsPrefix(<<>>, q)
    BY <2>3 DEF EP!IsPrefix, IsPrefix
  <2> QED BY <1>1, <2>4 DEF Running, IsStrictPrefix
<1> QED BY <1>1 DEF Running

LEMMA SameCallDone ==
  ASSUME NEW m, NEW g, NEW f \in Activations, NEW d, SameCall(f, d), Done(m, g, f)
  PROVE  Done(m, g, d)
<1>1. CASE f.fn = "mergesort"
  BY <1>1 DEF Done, SortDone, SameCall
<1>2. CASE f.fn = "merge"
  BY <1>2 DEF Done, SameCall
<1> QED BY <1>1, <1>2 DEF Activations

LEMMA SameCallOn ==
  ASSUME NEW f, NEW g, NEW d, SameCall(f, g), SameCall(g, d)
  PROVE  SameCall(f, d)
BY DEF SameCall

\* What a fork of p keeps.
LEMMA ForkKeeps ==
  ASSUME MergesortAssumption, Inv, EP!Nested, Linked, DataOK,
         UNCHANGED <<len, input, mem>>, TasksOK',
         NEW p, Running(p), Checked!CheckedStep(p), NEW act, Cobegin(p, act, Calls(act)),
         DOMAIN Calls(act) \subseteq Nat, SameCall(act, tasks[p]),
         Now(mem, input, act), \A i \in DOMAIN Calls(act) : Begins(mem, input, Calls(act)[i])
  PROVE  EP!Nested' /\ Linked' /\ DataOK'
<1> DEFINE c == Calls(act)
<1>0. TasksOK /\ DOMAIN c \subseteq Int
  BY DEF Inv
<1>1. /\ p \in DOMAIN tasks
      /\ DOMAIN tasks' = DOMAIN tasks \cup {Child(p, i) : i \in DOMAIN c}
      /\ tasks'[p] = act
      /\ \A q \in DOMAIN tasks \ {p} : tasks'[q] = tasks[q]
      /\ \A i \in DOMAIN c : /\ Child(p, i) \in DOMAIN tasks' \ DOMAIN tasks
                             /\ tasks'[Child(p, i)] = c[i]
      /\ \A q \in DOMAIN tasks', k \in Int : Child(q, k) \in DOMAIN tasks' =>
           \/ q = p /\ k \in DOMAIN c
           \/ q \in DOMAIN tasks \ {p} /\ Child(q, k) \in DOMAIN tasks
  BY <1>0, Fork
<1>2. EP!Nested'
  <2>1. EP!PathsOK /\ EP!PathsOK'
    <3>1. EP!PathsOK
      BY <1>0, TasksArePaths
    <3>2. \A q \in DOMAIN tasks' : q \in Seq(Nat)
      BY DEF TasksOK
    <3>3. ASSUME NEW q \in DOMAIN tasks' PROVE q \in Seq(Int)
      <4>1. \A k \in 1..Len(q) : q[k] \in Int
        BY <3>2
      <4> QED BY <3>2, <4>1
    <3> QED BY <3>1, <3>3 DEF EP!PathsOK, EP!Paths
  <2>2. EP!CheckedStep(p)
    BY SameCheck
  <2>3. EP!Within(tasks[p], tasks'[p])
    <3>1. act \in Activations
      BY <1>1 DEF TasksOK, ActOK
    <3>2. \A e : Eff(act, e) = Eff(tasks[p], e)
      BY <3>1, SameCallEffects
    <3> QED BY <1>1, <3>2 DEF EP!Within
  <2> QED BY <1>1, <2>1, <2>2, <2>3, EP!StepNested
<1> HIDE DEF c
<1>3. Linked'
  <2>1. ASSUME NEW q \in DOMAIN tasks', NEW k \in Int, Child(q, k) \in DOMAIN tasks'
        PROVE  k \in DOMAIN Calls(tasks'[q]) /\ SameCall(tasks'[Child(q, k)], Calls(tasks'[q])[k])
    <3>1. CASE q = p /\ k \in DOMAIN c
      BY <1>1, <3>1 DEF c, Begins
    <3>2. CASE q \in DOMAIN tasks \ {p} /\ Child(q, k) \in DOMAIN tasks
      <4>1. k \in DOMAIN Calls(tasks[q]) /\ SameCall(tasks[Child(q, k)], Calls(tasks[q])[k])
        BY <3>2 DEF Linked
      <4>2. tasks'[q] = tasks[q]
        BY <1>1, <3>2
      <4>3. SameCall(tasks'[Child(q, k)], tasks[Child(q, k)])
        BY <1>1, <3>2 DEF SameCall
      <4> QED BY <4>1, <4>2, <4>3, SameCallOn
    <3> QED BY <1>1, <2>1, <3>1, <3>2
  <2>2. <<>> \in DOMAIN tasks'
    BY <1>1 DEF Linked
  <2>3. SameCall(tasks'[<<>>], Main)
    <3>1. <<>> \in DOMAIN tasks /\ SameCall(tasks[<<>>], Main)
      BY <1>1 DEF Linked
    <3>2. tasks'[<<>>] = tasks[<<>>] \/ (<<>> = p /\ tasks'[<<>>] = act)
      BY <1>1, <3>1
    <3> QED BY <3>1, <3>2, SameCallOn
  <2>4. Main' = Main
    BY DEF Main
  <2> QED BY <2>1, <2>2, <2>3, <2>4 DEF Linked
<1>4. DataOK'
  <2>1. ASSUME NEW q \in DOMAIN tasks'
        PROVE  /\ Now(mem, input, tasks'[q])
               /\ \A k \in DOMAIN Calls(tasks'[q]) :
                    Child(q, k) \notin DOMAIN tasks' => Done(mem, input, Calls(tasks'[q])[k])
    <3>1. CASE q = p
      BY <1>1, <3>1 DEF c
    <3>2. CASE q \in DOMAIN tasks \ {p}
      BY <1>1, <3>2 DEF DataOK
    <3>3. CASE q \in {Child(p, i) : i \in DOMAIN c}
      BY <1>1, <3>3 DEF c, Begins
    <3> QED BY <1>1, <3>1, <3>2, <3>3
  <2>2. DOMAIN tasks' # {}
    BY <1>1
  <2> QED BY <2>1, <2>2 DEF DataOK
<1> QED BY <1>2, <1>3, <1>4

\* What a step of p that forks nothing keeps.
LEMMA MoveKeeps ==
  ASSUME MergesortAssumption, Inv, EP!Nested, EP!UnrelatedDisjoint, Linked, DataOK,
         UNCHANGED <<len, input>>, mem' \in [Addresses -> Int],
         NEW p, Running(p), Checked!CheckedStep(p), NEW act, Continue(p, act),
         SameCells(mem, mem', Addresses \ Eff(tasks[p], "write")),
         Calls(act) = <<>>, SameCall(act, tasks[p]), Now(mem', input, act)
  PROVE  EP!Nested' /\ Linked' /\ DataOK'
<1>0. TasksOK
  BY DEF Inv
<1>1. p \in DOMAIN tasks /\ DOMAIN tasks' = DOMAIN tasks /\ tasks'[p] = act
      /\ \A q \in DOMAIN tasks \ {p} : tasks'[q] = tasks[q]
  BY DEF Continue, Running
<1>2. EP!Nested'
  BY <1>0, <1>1, TasksArePaths, SameCheck, EP!ContinueNested
<1>3. Linked'
  <2>1. ASSUME NEW q \in DOMAIN tasks', NEW k \in Int, Child(q, k) \in DOMAIN tasks'
        PROVE  k \in DOMAIN Calls(tasks'[q]) /\ SameCall(tasks'[Child(q, k)], Calls(tasks'[q])[k])
    <3>1. q # p
      BY <1>0, <1>1, <2>1, NoChild
    <3>2. /\ k \in DOMAIN Calls(tasks[q]) /\ SameCall(tasks[Child(q, k)], Calls(tasks[q])[k])
          /\ tasks'[q] = tasks[q]
      BY <1>1, <2>1, <3>1 DEF Linked
    <3>3. SameCall(tasks'[Child(q, k)], tasks[Child(q, k)])
      BY <1>1, <2>1 DEF SameCall
    <3> QED BY <3>2, <3>3, SameCallOn
  <2>2. <<>> \in DOMAIN tasks'
    BY <1>1 DEF Linked
  <2>3. SameCall(tasks'[<<>>], Main)
    <3>1. <<>> \in DOMAIN tasks /\ SameCall(tasks[<<>>], Main)
      BY <1>1 DEF Linked
    <3>2. tasks'[<<>>] = tasks[<<>>] \/ (<<>> = p /\ tasks'[<<>>] = act)
      BY <1>1, <3>1
    <3> QED BY <3>1, <3>2, SameCallOn
  <2>4. Main' = Main
    BY DEF Main
  <2> QED BY <2>1, <2>2, <2>3, <2>4 DEF Linked
<1>4. DataOK'
  <2>1. ASSUME NEW q \in DOMAIN tasks'
        PROVE  /\ Now(mem', input, tasks'[q])
               /\ \A k \in DOMAIN Calls(tasks'[q]) :
                    Child(q, k) \notin DOMAIN tasks' => Done(mem', input, Calls(tasks'[q])[k])
    <3>1. CASE q = p
      BY <1>1, <3>1
    <3>2. CASE q \in DOMAIN tasks \ {p}
      <4>1. q \in DOMAIN tasks /\ q # p /\ tasks'[q] = tasks[q]
        BY <1>1, <3>2
      <4>2. /\ Now(mem', input, tasks[q])
            /\ \A k \in DOMAIN Calls(tasks[q]) :
                 Child(q, k) \notin DOMAIN tasks => Done(mem', input, Calls(tasks[q])[k])
        <5> DEFINE w == mem'
        <5>1. w \in [Addresses -> Int] /\ SameCells(mem, w, Addresses \ Eff(tasks[p], "write"))
          OBVIOUS
        <5> HIDE DEF w
        <5>2. /\ Now(w, input, tasks[q])
              /\ \A k \in DOMAIN Calls(tasks[q]) :
                   Child(q, k) \notin DOMAIN tasks => Done(w, input, Calls(tasks[q])[k])
          BY <4>1, <5>1, Others
        <5> QED BY <5>2 DEF w
      <4> QED BY <1>1, <4>1, <4>2
    <3> QED BY <1>1, <3>1, <3>2
  <2>2. DOMAIN tasks' # {}
    BY <1>1
  <2> QED BY <2>1, <2>2 DEF DataOK
<1> QED BY <1>2, <1>3, <1>4

\* What the return of p, which is done with its call, keeps.
LEMMA ReturnKeeps ==
  ASSUME MergesortAssumption, Inv, EP!Nested, EP!UnrelatedDisjoint, Linked, DataOK,
         UNCHANGED <<len, input>>, mem' \in [Addresses -> Int],
         NEW p, Running(p), Checked!CheckedReturn(p), Return(p),
         SameCells(mem, mem', Addresses \ Eff(tasks[p], "write")), Done(mem', input, tasks[p])
  PROVE  EP!Nested' /\ Linked' /\ DataOK'
<1>0. TasksOK
  BY DEF Inv
<1>1. p \in DOMAIN tasks /\ DOMAIN tasks' = DOMAIN tasks \ {p}
      /\ \A q \in DOMAIN tasks' : tasks'[q] = tasks[q]
  BY DEF Return, Running
<1>2. EP!Nested'
  BY <1>0, <1>1, TasksArePaths, SameCheck, EP!ReturnNested
<1>r. p = <<>> \/ <<>> \in DOMAIN tasks'
  BY <1>1 DEF Linked
<1>s. p = <<>> => DOMAIN tasks' = {}
  BY <1>0, <1>1, RootAlone
<1>3. Linked'
  <2>1. ASSUME NEW q \in DOMAIN tasks', NEW k \in Int, Child(q, k) \in DOMAIN tasks'
        PROVE  k \in DOMAIN Calls(tasks'[q]) /\ SameCall(tasks'[Child(q, k)], Calls(tasks'[q])[k])
    BY <1>1, <2>1 DEF Linked
  <2>2. DOMAIN tasks' # {} => <<>> \in DOMAIN tasks'
    BY <1>r, <1>s
  <2>3. <<>> \in DOMAIN tasks' => SameCall(tasks'[<<>>], Main)
    BY <1>1 DEF Linked
  <2>4. Main' = Main
    BY DEF Main
  <2> QED BY <2>1, <2>2, <2>3, <2>4 DEF Linked
<1>4. DataOK'
  <2>0. tasks[p] \in Activations
    BY <1>1 DEF Inv, TypeOK
  <2>1. ASSUME NEW q \in DOMAIN tasks'
        PROVE  /\ Now(mem', input, tasks'[q])
               /\ \A k \in DOMAIN Calls(tasks'[q]) :
                    Child(q, k) \notin DOMAIN tasks' => Done(mem', input, Calls(tasks'[q])[k])
    <3>1. q \in DOMAIN tasks /\ q # p /\ tasks'[q] = tasks[q]
      BY <1>1
    <3>2. /\ Now(mem', input, tasks[q])
          /\ \A k \in DOMAIN Calls(tasks[q]) :
               Child(q, k) \notin DOMAIN tasks => Done(mem', input, Calls(tasks[q])[k])
      <4> DEFINE w == mem'
      <4>1. w \in [Addresses -> Int] /\ SameCells(mem, w, Addresses \ Eff(tasks[p], "write"))
        OBVIOUS
      <4> HIDE DEF w
      <4>2. /\ Now(w, input, tasks[q])
            /\ \A k \in DOMAIN Calls(tasks[q]) :
                 Child(q, k) \notin DOMAIN tasks => Done(w, input, Calls(tasks[q])[k])
        BY <3>1, <4>1, Others
      <4> QED BY <4>2 DEF w
    <3>3. ASSUME NEW k \in DOMAIN Calls(tasks[q]), Child(q, k) = p
          PROVE  Done(mem', input, Calls(tasks[q])[k])
      <4>1. k \in Int
        <5>1. ActOK(tasks[q], len) /\ len \in Nat
          BY <3>1 DEF Inv, TasksOK, TypeOK, MergesortAssumption
        <5>2. DOMAIN Calls(tasks[q]) \subseteq Nat
          BY <5>1, CallsSound DEF Sound
        <5> QED BY <5>2
      <4>2. SameCall(tasks[p], Calls(tasks[q])[k])
        BY <1>1, <3>1, <3>3, <4>1 DEF Linked
      <4> QED BY <2>0, <4>2, SameCallDone
    <3>4. ASSUME NEW k \in DOMAIN Calls(tasks[q]), Child(q, k) \notin DOMAIN tasks'
          PROVE  Done(mem', input, Calls(tasks[q])[k])
      BY <1>1, <3>2, <3>3, <3>4
    <3> QED BY <3>1, <3>2, <3>4
  <2>2. ASSUME DOMAIN tasks' = {} PROVE Done(mem', input, Main)
    <3>1. p = <<>>
      BY <1>r, <2>2
    <3>2. SameCall(tasks[p], Main)
      BY <1>1, <3>1 DEF Linked
    <3> QED BY <2>0, <3>2, SameCallDone
  <2>3. Main' = Main
    BY DEF Main
  <2> QED BY <2>1, <2>2, <2>3 DEF DataOK
<1> QED BY <1>2, <1>3, <1>4

-----------------------------------------------------------------------------
(* Calls as they begin.                                                      *)

LEMMA SortBegins ==
  ASSUME NEW m, NEW g, NEW a \in Pointers, NEW b \in Pointers, NEW n \in Nat, b[2] = a[2],
         Alike(g, Row(m, a[1]), a[2], a[2] + n)
  PROVE  Begins(m, g, SortCall(a, b, n))
<1> DEFINE d == SortCall(a, b, n)
<1>1. d.fn = "mergesort" /\ d.pc = "entry" /\ d.a = a /\ d.b = b /\ d.len = n
  BY DEF SortCall
<1> HIDE DEF d
<1>2. SortNow(Row(m, d.a[1]), Row(m, d.b[1]), g, d)
  BY <1>1 DEF SortNow
<1>3. Begins(m, g, d)
  BY <1>1, <1>2 DEF Begins, Now, Calls, SameCall
<1> QED BY <1>3 DEF d

LEMMA MergeBegins ==
  ASSUME NEW m, NEW g, NEW a \in Pointers, NEW b \in Pointers, NEW c \in Pointers,
         NEW la \in Nat, NEW lb \in Nat,
         Ascending(Row(m, a[1]), a[2], a[2] + la), Ascending(Row(m, a[1]), b[2], b[2] + lb)
  PROVE  Begins(m, g, MergeCall(a, b, la, lb, c))
<1> DEFINE d == MergeCall(a, b, la, lb, c)
<1>1. /\ d.fn = "merge" /\ d.pc \in {"entry", "seq_merge"} /\ d.a = a /\ d.b = b /\ d.c = c
      /\ d.lena = la /\ d.lenb = lb /\ d.lo = 0 /\ d.hi = lb /\ d.i = 0 /\ d.j = 0 /\ d.k = 0
  BY DEF MergeCall
<1> HIDE DEF d
<1> DEFINE A == Row(m, a[1])
           C == Row(m, c[1])
<1>2. a[2] \in Nat /\ b[2] \in Nat /\ c[2] \in Nat
  BY DEF Pointers
<1> HIDE DEF A, C
<1>3. MergeOf(C, c[2], A, a[2], 0, b[2], 0)
  BY <1>2, MergeOfNone
<1>4. /\ MergedBelow(C, c[2], 0, A, a[2] + 0, a[2] + la)
      /\ MergedBelow(C, c[2], 0, A, b[2] + 0, b[2] + lb)
  BY <1>2 DEF MergedBelow
<1>5. MergeNow(A, C, d)
  BY <1>1, <1>3, <1>4 DEF MergeNow, A
<1>6. Begins(m, g, d)
  BY <1>1, <1>5 DEF Begins, Now, Calls, SameCall, A, C
<1> QED BY <1>6 DEF d

-----------------------------------------------------------------------------
(* What the calls of a fork have done makes what the caller goes on from.    *)

\* the sorts of the quarters
LEMMA QuartersDone ==
  ASSUME NEW m, NEW g, NEW f \in Activations, f.fn = "mergesort",
         \A k \in DOMAIN QuarterCalls(f) : Done(m, g, QuarterCalls(f)[k])
  PROVE  Quarters(Row(m, f.a[1]), g, f.a[2], f.len)
<1> DEFINE o == f.a[2]
           q == f.len \div 4
           r == f.len - (q + q + q)
           h == Row(m, f.a[1])
           c == QuarterCalls(f)
<1>1. f.a \in Pointers /\ f.b \in Pointers /\ o \in Nat /\ f.len \in Nat
  BY DEF Activations, Pointers
<1>2. /\ q \in Nat /\ 2 * q \in Nat /\ 3 * q \in Nat /\ 2 * q = q + q /\ 3 * q = q + q + q
      /\ r \in Nat /\ 3 * q + r = f.len
  BY <1>1, QuarterBounds
<1>3. /\ DOMAIN c = 1..4 /\ c[1] = SortCall(f.a, f.b, q)
      /\ c[2] = SortCall(Plus(f.a, q), Plus(f.b, q), q)
      /\ c[3] = SortCall(Plus(f.a, 2 * q), Plus(f.b, 2 * q), q)
      /\ c[4] = SortCall(Plus(f.a, 3 * q), Plus(f.b, 3 * q), r)
  BY DEF QuarterCalls
<1> HIDE DEF c, q, r
<1>4. ASSUME NEW a \in Pointers, NEW b, NEW n, Done(m, g, SortCall(a, b, n))
      PROVE  SortOf(Row(m, a[1]), g, a[2], a[2] + n)
  BY <1>4 DEF Done, SortDone, SortCall
<1>5. \A k \in 1..4 : Done(m, g, c[k])
  BY <1>3 DEF c
<1>6. SortOf(h, g, o, o + q)
  BY <1>1, <1>3, <1>4, <1>5
<1>7. SortOf(h, g, o + q, o + 2 * q)
  <2>1. /\ Plus(f.a, q) \in Pointers /\ Plus(f.a, q)[1] = f.a[1] /\ Plus(f.a, q)[2] = o + q
    BY <1>1, <1>2, PlusPointer
  <2>2. (o + q) + q = o + 2 * q
    BY <1>1, <1>2
  <2>3. SortOf(h, g, o + q, (o + q) + q)
    BY <1>3, <1>4, <1>5, <2>1
  <2> QED BY <2>2, <2>3
<1>8. SortOf(h, g, o + 2 * q, o + 3 * q)
  <2>1. /\ Plus(f.a, 2 * q) \in Pointers /\ Plus(f.a, 2 * q)[1] = f.a[1]
        /\ Plus(f.a, 2 * q)[2] = o + 2 * q
    BY <1>1, <1>2, PlusPointer
  <2>2. (o + 2 * q) + q = o + 3 * q
    BY <1>1, <1>2
  <2>3. SortOf(h, g, o + 2 * q, (o + 2 * q) + q)
    BY <1>3, <1>4, <1>5, <2>1
  <2> QED BY <2>2, <2>3
<1>9. SortOf(h, g, o + 3 * q, o + f.len)
  <2>1. /\ Plus(f.a, 3 * q) \in Pointers /\ Plus(f.a, 3 * q)[1] = f.a[1]
        /\ Plus(f.a, 3 * q)[2] = o + 3 * q
    BY <1>1, <1>2, PlusPointer
  <2>2. (o + 3 * q) + r = o + f.len
    BY <1>1, <1>2
  <2>3. SortOf(h, g, o + 3 * q, (o + 3 * q) + r)
    BY <1>3, <1>4, <1>5, <2>1
  <2> QED BY <2>2, <2>3
<1> QED BY <1>6, <1>7, <1>8, <1>9 DEF Quarters, q

LEMMA MergeCallDone ==
  ASSUME NEW m, NEW g, NEW a, NEW b, NEW la, NEW lb, NEW c, Done(m, g, MergeCall(a, b, la, lb, c))
  PROVE  MergeOf(Row(m, c[1]), c[2], Row(m, a[1]), a[2], la, b[2], lb)
BY DEF Done, MergeCall

\* the merges of the halves
LEMMA HalvesDone ==
  ASSUME NEW m, NEW g, NEW f \in Activations, f.fn = "mergesort", f.b[2] = f.a[2],
         \A k \in DOMAIN HalfCalls(f) : Done(m, g, HalfCalls(f)[k]),
         Quarters(Row(m, f.a[1]), g, f.a[2], f.len)
  PROVE  Halves(Row(m, f.b[1]), g, f.a[2], f.len)
<1> DEFINE o == f.a[2]
           q == f.len \div 4
           h == q + q
           r == f.len - (q + q + q)
           I == Row(m, f.a[1])
           O == Row(m, f.b[1])
           c == HalfCalls(f)
<1>1. f.a \in Pointers /\ f.b \in Pointers /\ o \in Nat /\ f.len \in Nat
  BY DEF Activations, Pointers
<1>2. /\ q \in Nat /\ 2 * q = q + q /\ 3 * q = q + q + q /\ h \in Nat /\ h = q + q
      /\ r \in Nat /\ 3 * q + r = f.len /\ 3 * q \in Nat
  BY <1>1, QuarterBounds
<1>3. /\ DOMAIN c = 1..2 /\ c[1] = MergeCall(f.a, Plus(f.a, q), q, q, f.b)
      /\ c[2] = MergeCall(Plus(f.a, h), Plus(f.a, 3 * q), q, r, Plus(f.b, h))
  BY DEF HalfCalls
<1>4. /\ SortOf(I, g, o, o + q) /\ SortOf(I, g, o + q, o + 2 * q)
      /\ SortOf(I, g, o + 2 * q, o + 3 * q) /\ SortOf(I, g, o + 3 * q, o + f.len)
  BY DEF Quarters
<1>5. Done(m, g, c[1]) /\ Done(m, g, c[2])
  BY <1>3
<1> HIDE DEF c, q, h, r
<1>p. /\ Plus(f.a, q)[2] = o + q /\ Plus(f.a, 3 * q)[2] = o + 3 * q
      /\ Plus(f.a, h)[1] = f.a[1] /\ Plus(f.a, h)[2] = o + h
      /\ Plus(f.b, h)[1] = f.b[1] /\ Plus(f.b, h)[2] = o + h
  <2>1. f.a \in Pointers /\ f.b \in Pointers /\ f.b[2] = o
    BY <1>1
  <2>2. q \in Nat /\ 3 * q \in Nat /\ h \in Nat
    BY <1>2
  <2>3. Plus(f.b, h)[1] = f.b[1] /\ Plus(f.b, h)[2] = o + h
    BY <2>1, <2>2, PlusPointer
  <2> QED BY <2>1, <2>2, <2>3, PlusPointer
<1>6. MergeOf(O, o, I, o, q, o + q, q)
  <2>1. MergeOf(O, f.b[2], I, o, q, Plus(f.a, q)[2], q)
    BY <1>3, <1>5, MergeCallDone
  <2> QED BY <1>p, <2>1
<1>7. MergeOf(O, o + h, I, o + h, q, o + 3 * q, r)
  <2>1. MergeOf(Row(m, Plus(f.b, h)[1]), Plus(f.b, h)[2], Row(m, Plus(f.a, h)[1]), Plus(f.a, h)[2], q,
                Plus(f.a, 3 * q)[2], r)
    BY <1>3, <1>5, MergeCallDone
  <2> QED BY <1>p, <2>1
<1>8. SortOf(O, g, o, o + 2 * q)
  <2>1. /\ o + q \in Nat /\ o + 2 * q \in Nat /\ o <= o + q /\ o + q <= o + 2 * q
        /\ (o + q) - o = q /\ (o + 2 * q) - (o + q) = q
    BY <1>1, <1>2
  <2>2. MergeOf(O, o, I, o, (o + q) - o, o + q, (o + 2 * q) - (o + q))
    BY <1>6, <2>1
  <2> QED BY <1>1, <1>4, <2>1, <2>2, SortsJoin
<1>9. SortOf(O, g, o + 2 * q, o + f.len)
  <2> DEFINE lo == o + 2 * q
             mid == o + 3 * q
             hi == o + f.len
  <2>1. lo \in Nat /\ mid \in Nat /\ lo <= mid /\ o + h = lo /\ mid - lo = q
    BY <1>1, <1>2
  <2>2. hi \in Nat /\ mid <= hi /\ hi - mid = r
    BY <1>1, <1>2
  <2>3. SortOf(I, g, lo, mid) /\ SortOf(I, g, mid, hi)
    BY <1>4
  <2>4. MergeOf(O, lo, I, lo, mid - lo, mid, hi - mid)
    BY <1>7, <2>1, <2>2
  <2> HIDE DEF lo, mid, hi
  <2>5. SortOf(O, g, lo, hi)
    BY <2>1, <2>2, <2>3, <2>4, SortsJoin
  <2> QED BY <2>5 DEF lo, hi
<1> QED BY <1>8, <1>9 DEF Halves, q

\* the merge of the halves back into in
LEMMA WholeDone ==
  ASSUME NEW m, NEW g, NEW f \in Activations, f.fn = "mergesort", f.b[2] = f.a[2],
         \A k \in DOMAIN WholeCalls(f) : Done(m, g, WholeCalls(f)[k]),
         Halves(Row(m, f.b[1]), g, f.a[2], f.len)
  PROVE  SortOf(Row(m, f.a[1]), g, f.a[2], f.a[2] + f.len)
<1> DEFINE o == f.a[2]
           h == 2 * (f.len \div 4)
           r == f.len - h
           I == Row(m, f.a[1])
           O == Row(m, f.b[1])
           c == WholeCalls(f)
<1>1. f.a \in Pointers /\ f.b \in Pointers /\ o \in Nat /\ f.len \in Nat
  BY DEF Activations, Pointers
<1>2. h \in Nat /\ r \in Nat /\ h + r = f.len
  <2>1. h \in Nat /\ h <= f.len
    BY <1>1, QuarterBounds
  <2> QED BY <1>1, <2>1
<1>3. DOMAIN c = {1} /\ c[1] = MergeCall(f.b, Plus(f.b, h), h, r, f.a)
  BY DEF WholeCalls
<1>4. SortOf(O, g, o, o + h) /\ SortOf(O, g, o + h, o + f.len)
  BY DEF Halves
<1>5. Done(m, g, c[1])
  BY <1>3
<1> HIDE DEF c, h, r
<1>6. MergeOf(I, o, O, o, h, o + h, r)
  <2>1. MergeOf(I, o, O, f.b[2], h, Plus(f.b, h)[2], r)
    BY <1>3, <1>5, MergeCallDone
  <2>2. Plus(f.b, h)[2] = o + h
    BY <1>1, <1>2, PlusPointer
  <2> QED BY <2>1, <2>2
<1>7. /\ o + h \in Nat /\ o + f.len \in Nat /\ o <= o + h /\ o + h <= o + f.len
      /\ (o + h) - o = h /\ (o + f.len) - (o + h) = r
  BY <1>1, <1>2
<1>8. MergeOf(I, o, O, o, (o + h) - o, o + h, (o + f.len) - (o + h))
  BY <1>6, <1>7
<1> QED BY <1>1, <1>4, <1>7, <1>8, SortsJoin

\* the merges of the parts
LEMMA PartsDone ==
  ASSUME NEW D, NEW m \in [D -> Int], NEW g, NEW n, NEW f, ActOK(f, n), f.fn = "merge", f.lo = f.hi,
         \A k \in DOMAIN PartCalls(f) : Done(m, g, PartCalls(f)[k]),
         LET A == Row(m, f.a[1])
         IN  /\ SplitAt(A, f)
             /\ Ascending(A, f.a[2], f.a[2] + f.lena)
  PROVE  Done(m, g, f)
<1> DEFINE a == f.a[2]
           b == f.b[2]
           c == f.c[2]
           ha == f.lena \div 2
           s == f.hi
           A == Row(m, f.a[1])
           C == Row(m, f.c[1])
           d == PartCalls(f)
<1>1. /\ f.a \in Pointers /\ f.b \in Pointers /\ f.c \in Pointers /\ a \in Nat /\ b \in Nat /\ c \in Nat
      /\ f.lena \in Nat /\ f.lenb \in Nat /\ s \in Nat /\ s <= f.lenb /\ f.a[1] = f.b[1] /\ f.v \in Int
  BY DEF ActOK, MergeOK, Activations, Pointers
<1>2. ha \in Nat /\ ha < f.lena /\ ha + s \in Nat
  BY <1>1 DEF SplitAt
<1>3. /\ DOMAIN d = 1..2 /\ d[1] = MergeCall(f.a, f.b, ha, s, f.c)
      /\ d[2] = MergeCall(Plus(f.a, ha), Plus(f.b, s), f.lena - ha, f.lenb - s, Plus(f.c, ha + s))
  BY DEF PartCalls
<1>4. Done(m, g, d[1]) /\ Done(m, g, d[2])
  BY <1>3
<1>r. A \in Rows /\ C \in Rows
  BY RowTyped
<1>v. f.v = A[a + ha]
  BY DEF SplitAt
<1> HIDE DEF d, ha
<1>p. /\ Plus(f.a, ha)[1] = f.a[1] /\ Plus(f.a, ha)[2] = a + ha /\ Plus(f.b, s)[2] = b + s
      /\ Plus(f.c, ha + s)[1] = f.c[1] /\ Plus(f.c, ha + s)[2] = c + (ha + s)
  BY <1>1, <1>2, PlusPointer
<1>5. MergeOf(C, c, A, a, ha, b, s)
  BY <1>3, <1>4, MergeCallDone
<1>6. MergeOf(C, c + (ha + s), A, a + ha, f.lena - ha, b + s, f.lenb - s)
  <2>1. MergeOf(Row(m, Plus(f.c, ha + s)[1]), Plus(f.c, ha + s)[2], Row(m, Plus(f.a, ha)[1]),
                Plus(f.a, ha)[2], f.lena - ha, Plus(f.b, s)[2], f.lenb - s)
    BY <1>3, <1>4, MergeCallDone
  <2> QED BY <1>p, <2>1
<1>7. \A x \in a..((a + ha) - 1) : A[x] <= f.v
  <2> SUFFICES ASSUME NEW x \in a..((a + ha) - 1) PROVE A[x] <= A[a + ha]
    BY <1>v
  <2>1. x \in a..((a + f.lena) - 1) /\ a + ha \in a..((a + f.lena) - 1) /\ x <= a + ha
    BY <1>1, <1>2
  <2> QED BY <2>1 DEF Ascending
<1>8. \A x \in (a + ha)..((a + f.lena) - 1) : f.v <= A[x]
  <2> SUFFICES ASSUME NEW x \in (a + ha)..((a + f.lena) - 1) PROVE A[a + ha] <= A[x]
    BY <1>v
  <2>1. x \in a..((a + f.lena) - 1) /\ a + ha \in a..((a + f.lena) - 1) /\ a + ha <= x
    BY <1>1, <1>2
  <2> QED BY <2>1 DEF Ascending
<1>9. /\ \A x \in b..((b + s) - 1) : A[x] <= f.v
      /\ \A x \in (b + s)..((b + f.lenb) - 1) : f.v <= A[x]
  BY DEF SplitAt
<1> DEFINE la == f.lena
           lb == f.lenb
           v == f.v
<1>t. /\ a \in Nat /\ b \in Nat /\ c \in Nat /\ la \in Nat /\ lb \in Nat /\ s \in Nat /\ s <= lb
      /\ v \in Int /\ ha \in Nat /\ ha <= la
  BY <1>1, <1>2
<1> HIDE DEF A, C, a, b, c, s, la, lb, v
<1>10. MergeOf(C, c, A, a, la, b, lb)
  <2>1. MergeOf(C, c + (ha + s), A, a + ha, la - ha, b + s, lb - s)
    BY <1>6 DEF la, lb
  <2>2. /\ \A x \in a..((a + ha) - 1) : A[x] <= v
        /\ \A x \in (a + ha)..((a + la) - 1) : v <= A[x]
    BY <1>7, <1>8 DEF la, v
  <2>3. /\ \A x \in b..((b + s) - 1) : A[x] <= v
        /\ \A x \in (b + s)..((b + lb) - 1) : v <= A[x]
    BY <1>9 DEF lb, v
  <2> QED BY <1>t, <1>r, <1>5, <2>1, <2>2, <2>3, MergeJoins
<1> QED BY <1>10 DEF Done, A, C, a, b, c, la, lb

-----------------------------------------------------------------------------
(* The forks of mergesort.                                                   *)

\* a mergesort that moves on is the same call
LEMMA SortForkKeeps ==
  ASSUME MergesortAssumption, Inv, EP!Nested, Linked, DataOK,
         NEW p, NEW pc, At(p, "mergesort", pc), tasks[p].len > quick_size,
         UNCHANGED <<len, input, mem>>,
         NEW next \in {"quarters_sorted", "halves_merged", "return"}, NEW act,
         act = [tasks[p] EXCEPT !.pc = next], Cobegin(p, act, Calls(act)),
         SortNow(Row(mem, act.a[1]), Row(mem, act.b[1]), input, act),
         \A i \in DOMAIN Calls(act) : Begins(mem, input, Calls(act)[i])
  PROVE  EP!Nested' /\ Linked' /\ DataOK'
<1>1. TasksOK /\ len' = len
  BY DEF Inv
<1>2. TasksOK' /\ Checked!CheckedStep(p)
  BY <1>1, SortForks
<1>3. Running(p) /\ act.fn = "mergesort" /\ SameCall(act, tasks[p])
  BY <1>1, SortFrame DEF SameCall, Activations
<1>4. DOMAIN Calls(act) \subseteq Nat
  <2>1. /\ DOMAIN QuarterCalls(act) \subseteq Nat /\ DOMAIN HalfCalls(act) \subseteq Nat
        /\ DOMAIN WholeCalls(act) \subseteq Nat /\ DOMAIN <<>> \subseteq Nat
    BY DEF QuarterCalls, HalfCalls, WholeCalls
  <2> QED BY <1>3, <2>1 DEF Calls
<1>5. Now(mem, input, act)
  BY <1>3 DEF Now
<1> QED BY <1>1, <1>2, <1>3, <1>4, <1>5, ForkKeeps

LEMMA SortQuartersKeeps ==
  ASSUME MergesortAssumption, Inv, EP!Nested, Linked, DataOK, NEW p, SortQuarters(p)
  PROVE  EP!Nested' /\ Linked' /\ DataOK'
<1> DEFINE f == tasks[p]
           act == [f EXCEPT !.pc = "quarters_sorted"]
           q == f.len \div 4
           r == f.len - (q + q + q)
           o == f.a[2]
           I == Row(mem, f.a[1])
<1>1. TasksOK /\ UNCHANGED <<len, input, mem>>
  BY DEF Inv, SortQuarters
<1>2. At(p, "mergesort", "entry") /\ f.len > quick_size /\ Cobegin(p, act, Calls(act))
  BY <1>1, SortQuartersForks
<1>3. /\ p \in DOMAIN tasks /\ f \in Activations /\ f.fn = "mergesort" /\ f.pc = "entry"
      /\ f.a \in Pointers /\ f.b \in Pointers /\ f.len \in Nat /\ o \in Nat
  BY <1>1, <1>2, SortFrame DEF Running, Pointers
<1>4. f.b[2] = o /\ Alike(input, I, o, o + f.len)
  BY <1>3 DEF DataOK, Now, SortNow
<1>5. /\ act.fn = "mergesort" /\ act.pc = "quarters_sorted" /\ act.a = f.a /\ act.b = f.b /\ act.len = f.len
  BY <1>3 DEF Activations
<1>6. Calls(act) = QuarterCalls(f)
  BY <1>5 DEF Calls, QuarterCalls
<1>7. SortNow(Row(mem, act.a[1]), Row(mem, act.b[1]), input, act)
  BY <1>4, <1>5 DEF SortNow
<1>8. /\ q \in Nat /\ 2 * q \in Nat /\ 3 * q \in Nat /\ 2 * q = q + q /\ 3 * q = q + q + q
      /\ r \in Nat /\ 3 * q + r = f.len
  <2>1. f.len \in Nat
    BY <1>3
  <2>2. /\ q \in Nat /\ 2 * q \in Nat /\ 3 * q \in Nat /\ 2 * q = q + q /\ 3 * q = q + q + q
        /\ 3 * q <= f.len
    BY <2>1, QuarterBounds
  <2> HIDE DEF q
  <2> QED BY <2>1, <2>2
<1> HIDE DEF q, r, I
<1>9. ASSUME NEW m \in Nat, NEW n \in Nat, m + n <= f.len
      PROVE  Begins(mem, input, SortCall(Plus(f.a, m), Plus(f.b, m), n))
  <2>1. /\ Plus(f.a, m) \in Pointers /\ Plus(f.a, m)[1] = f.a[1] /\ Plus(f.a, m)[2] = o + m
        /\ Plus(f.b, m) \in Pointers /\ Plus(f.b, m)[2] = o + m
    <3>1. f.a \in Pointers /\ f.b \in Pointers /\ f.b[2] = o
      BY <1>3, <1>4
    <3>2. Plus(f.a, m) \in Pointers /\ Plus(f.a, m)[1] = f.a[1] /\ Plus(f.a, m)[2] = f.a[2] + m
      BY <3>1, PlusPointer
    <3>3. Plus(f.b, m) \in Pointers /\ Plus(f.b, m)[2] = f.b[2] + m
      BY <3>1, PlusPointer
    <3> QED BY <3>1, <3>2, <3>3
  <2>2. Alike(input, I, o + m, (o + m) + n)
    BY <1>3, <1>4, <1>9, AlikeWithin
  <2> QED BY <2>1, <2>2, SortBegins DEF I
<1>10. Begins(mem, input, SortCall(f.a, f.b, q))
  <2>1. Alike(input, I, o, o + q)
    BY <1>3, <1>4, <1>8, AlikeWithin
  <2> QED BY <1>3, <1>4, <1>8, <2>1, SortBegins DEF I
<1>11. /\ Begins(mem, input, SortCall(Plus(f.a, q), Plus(f.b, q), q))
       /\ Begins(mem, input, SortCall(Plus(f.a, 2 * q), Plus(f.b, 2 * q), q))
       /\ Begins(mem, input, SortCall(Plus(f.a, 3 * q), Plus(f.b, 3 * q), r))
  <2>1. q + q <= f.len /\ 2 * q + q <= f.len /\ 3 * q + r <= f.len
    BY <1>3, <1>8
  <2> QED BY <1>8, <1>9, <2>1
<1>12. \A i \in DOMAIN Calls(act) : Begins(mem, input, Calls(act)[i])
  <2>1. /\ DOMAIN QuarterCalls(f) = 1..4
        /\ QuarterCalls(f)[1] = SortCall(f.a, f.b, q)
        /\ QuarterCalls(f)[2] = SortCall(Plus(f.a, q), Plus(f.b, q), q)
        /\ QuarterCalls(f)[3] = SortCall(Plus(f.a, 2 * q), Plus(f.b, 2 * q), q)
        /\ QuarterCalls(f)[4] = SortCall(Plus(f.a, 3 * q), Plus(f.b, 3 * q), r)
    BY DEF QuarterCalls, q, r
  <2> QED BY <1>6, <1>10, <1>11, <2>1
<1> HIDE DEF act
<1>13. act = [tasks[p] EXCEPT !.pc = "quarters_sorted"]
  BY DEF act
<1> QED BY <1>1, <1>2, <1>7, <1>12, <1>13, SortForkKeeps

\* The calls of a task that runs are done.
LEMMA CallsAreDone ==
  ASSUME TasksOK, DataOK, NEW p, Running(p), DOMAIN Calls(tasks[p]) \subseteq Int
  PROVE  \A k \in DOMAIN Calls(tasks[p]) : Done(mem, input, Calls(tasks[p])[k])
BY NoChild DEF DataOK, Running

LEMMA MergeHalvesKeeps ==
  ASSUME MergesortAssumption, Inv, EP!Nested, Linked, DataOK, NEW p, MergeHalves(p)
  PROVE  EP!Nested' /\ Linked' /\ DataOK'
<1> DEFINE f == tasks[p]
           act == [f EXCEPT !.pc = "halves_merged"]
           q == f.len \div 4
           h == q + q
           r == f.len - (q + q + q)
           o == f.a[2]
           I == Row(mem, f.a[1])
<1>1. TasksOK /\ UNCHANGED <<len, input, mem>>
  BY DEF Inv, MergeHalves
<1>2. At(p, "mergesort", "quarters_sorted") /\ f.len > quick_size /\ Cobegin(p, act, Calls(act))
  BY <1>1, MergeHalvesForks
<1>3. /\ Running(p) /\ p \in DOMAIN tasks /\ f \in Activations /\ f.fn = "mergesort" /\ f.pc = "quarters_sorted"
      /\ f.a \in Pointers /\ f.b \in Pointers /\ f.len \in Nat /\ o \in Nat
  BY <1>1, <1>2, SortFrame DEF Running, Pointers
<1>4. f.b[2] = o
  BY <1>3 DEF DataOK, Now, SortNow
<1>5. /\ act.fn = "mergesort" /\ act.pc = "halves_merged" /\ act.a = f.a /\ act.b = f.b /\ act.len = f.len
  BY <1>3 DEF Activations
<1>6. Calls(act) = HalfCalls(f)
  BY <1>5 DEF Calls, HalfCalls
<1>7. Quarters(I, input, o, f.len)
  <2>1. Calls(f) = QuarterCalls(f) /\ DOMAIN QuarterCalls(f) \subseteq Int
    BY <1>3 DEF Calls, QuarterCalls
  <2>2. \A k \in DOMAIN QuarterCalls(f) : Done(mem, input, QuarterCalls(f)[k])
    BY <1>1, <1>3, <2>1, CallsAreDone
  <2> QED BY <1>3, <2>2, QuartersDone
<1>8. SortNow(Row(mem, act.a[1]), Row(mem, act.b[1]), input, act)
  BY <1>4, <1>5, <1>7 DEF SortNow
<1>9. /\ q \in Nat /\ h \in Nat /\ 3 * q \in Nat /\ 2 * q = q + q /\ 3 * q = q + q + q /\ h = q + q
      /\ r \in Nat /\ 3 * q + r = f.len
  BY <1>3, QuarterBounds
<1>10. /\ Ascending(I, o, o + q) /\ Ascending(I, o + q, o + 2 * q)
       /\ Ascending(I, o + 2 * q, o + 3 * q) /\ Ascending(I, o + 3 * q, o + f.len)
  BY <1>7 DEF Quarters, SortOf
<1> HIDE DEF q, r, h, I
<1>11. /\ o + 2 * q = (o + q) + q /\ o + 2 * q = o + h /\ o + 3 * q = (o + h) + q
       /\ o + f.len = (o + 3 * q) + r
  BY <1>3, <1>9
<1>p. /\ Plus(f.a, q) \in Pointers /\ Plus(f.a, q)[2] = o + q
      /\ Plus(f.a, h) \in Pointers /\ Plus(f.a, h)[1] = f.a[1] /\ Plus(f.a, h)[2] = o + h
      /\ Plus(f.a, 3 * q) \in Pointers /\ Plus(f.a, 3 * q)[2] = o + 3 * q
      /\ Plus(f.b, h) \in Pointers
  BY <1>3, <1>9, PlusPointer
<1>12. Begins(mem, input, MergeCall(f.a, Plus(f.a, q), q, q, f.b))
  <2>1. Ascending(I, f.a[2], f.a[2] + q)
    BY <1>10
  <2>2. Ascending(I, Plus(f.a, q)[2], Plus(f.a, q)[2] + q)
    BY <1>10, <1>11, <1>p
  <2> QED BY <1>3, <1>9, <1>p, <2>1, <2>2, MergeBegins DEF I
<1>13. Begins(mem, input, MergeCall(Plus(f.a, h), Plus(f.a, 3 * q), q, r, Plus(f.b, h)))
  <2>1. Ascending(I, Plus(f.a, h)[2], Plus(f.a, h)[2] + q)
    BY <1>10, <1>11, <1>p
  <2>2. Ascending(I, Plus(f.a, 3 * q)[2], Plus(f.a, 3 * q)[2] + r)
    BY <1>10, <1>11, <1>p
  <2>3. I = Row(mem, Plus(f.a, h)[1])
    BY <1>p DEF I
  <2> QED BY <1>9, <1>p, <2>1, <2>2, <2>3, MergeBegins
<1>14. \A i \in DOMAIN Calls(act) : Begins(mem, input, Calls(act)[i])
  <2>1. /\ DOMAIN HalfCalls(f) = 1..2
        /\ HalfCalls(f)[1] = MergeCall(f.a, Plus(f.a, q), q, q, f.b)
        /\ HalfCalls(f)[2] = MergeCall(Plus(f.a, h), Plus(f.a, 3 * q), q, r, Plus(f.b, h))
    BY DEF HalfCalls, q, h, r
  <2> QED BY <1>6, <1>12, <1>13, <2>1
<1> HIDE DEF act
<1>15. act = [tasks[p] EXCEPT !.pc = "halves_merged"]
  BY DEF act
<1> QED BY <1>1, <1>2, <1>8, <1>14, <1>15, SortForkKeeps

LEMMA MergeWholeKeeps ==
  ASSUME MergesortAssumption, Inv, EP!Nested, Linked, DataOK, NEW p, MergeWhole(p)
  PROVE  EP!Nested' /\ Linked' /\ DataOK'
<1> DEFINE f == tasks[p]
           act == [f EXCEPT !.pc = "return"]
           h == 2 * (f.len \div 4)
           o == f.a[2]
           O == Row(mem, f.b[1])
<1>1. TasksOK /\ UNCHANGED <<len, input, mem>>
  BY DEF Inv, MergeWhole
<1>2. At(p, "mergesort", "halves_merged") /\ f.len > quick_size /\ Cobegin(p, act, Calls(act))
  BY <1>1, MergeWholeForks
<1>3. /\ Running(p) /\ p \in DOMAIN tasks /\ f \in Activations /\ f.fn = "mergesort" /\ f.pc = "halves_merged"
      /\ f.a \in Pointers /\ f.b \in Pointers /\ f.len \in Nat /\ o \in Nat
  BY <1>1, <1>2, SortFrame DEF Running, Pointers
<1>4. f.b[2] = o /\ Quarters(Row(mem, f.a[1]), input, o, f.len)
  BY <1>3 DEF DataOK, Now, SortNow
<1>5. /\ act.fn = "mergesort" /\ act.pc = "return" /\ act.a = f.a /\ act.b = f.b /\ act.len = f.len
  BY <1>3 DEF Activations
<1>6. Calls(act) = WholeCalls(f)
  BY <1>5 DEF Calls, WholeCalls
<1>7. Halves(O, input, o, f.len)
  <2>1. Calls(f) = HalfCalls(f) /\ DOMAIN HalfCalls(f) \subseteq Int
    BY <1>3 DEF Calls, HalfCalls
  <2>2. \A k \in DOMAIN HalfCalls(f) : Done(mem, input, HalfCalls(f)[k])
    BY <1>1, <1>3, <2>1, CallsAreDone
  <2> QED BY <1>3, <1>4, <2>2, HalvesDone
<1>8. SortNow(Row(mem, act.a[1]), Row(mem, act.b[1]), input, act)
  BY <1>4, <1>5, <1>7 DEF SortNow
<1>9. h \in Nat /\ f.len - h \in Nat /\ o + f.len = (o + h) + (f.len - h)
  <2>1. h \in Nat /\ h <= f.len
    BY <1>3, QuarterBounds
  <2> HIDE DEF h
  <2> QED BY <1>3, <2>1
<1>10. Ascending(O, o, o + h) /\ Ascending(O, o + h, o + f.len)
  BY <1>7 DEF Halves, SortOf
<1> HIDE DEF h, O
<1>p. Plus(f.b, h) \in Pointers /\ Plus(f.b, h)[2] = o + h
  <2>1. f.b \in Pointers /\ f.b[2] = o /\ h \in Nat
    BY <1>3, <1>4, <1>9
  <2> QED BY <2>1, PlusPointer
<1>11. Begins(mem, input, MergeCall(f.b, Plus(f.b, h), h, f.len - h, f.a))
  <2>1. Ascending(O, f.b[2], f.b[2] + h)
    BY <1>4, <1>10
  <2>2. Ascending(O, Plus(f.b, h)[2], Plus(f.b, h)[2] + (f.len - h))
    BY <1>9, <1>10, <1>p
  <2> QED BY <1>3, <1>9, <1>p, <2>1, <2>2, MergeBegins DEF O
<1>12. \A i \in DOMAIN Calls(act) : Begins(mem, input, Calls(act)[i])
  <2>1. /\ DOMAIN WholeCalls(f) = {1}
        /\ WholeCalls(f)[1] = MergeCall(f.b, Plus(f.b, h), h, f.len - h, f.a)
    BY DEF WholeCalls, h
  <2> QED BY <1>6, <1>11, <2>1
<1> HIDE DEF act
<1>13. act = [tasks[p] EXCEPT !.pc = "return"]
  BY DEF act
<1> QED BY <1>1, <1>2, <1>8, <1>12, <1>13, SortForkKeeps

-----------------------------------------------------------------------------
(* The steps of merge, but for the copying.                                  *)

LEMMA RowAt ==
  ASSUME NEW m, NEW ptr \in Pointers, NEW n \in Nat, Plus(ptr, n) \in DOMAIN m
  PROVE  m[Plus(ptr, n)] = Row(m, ptr[1])[ptr[2] + n]
BY DEF Plus, Row, Pointers

\* what a merge knows while it runs
LEMMA MergeData ==
  ASSUME MergesortAssumption, Inv, DataOK, NEW p, NEW pc, At(p, "merge", pc)
  PROVE  /\ p \in DOMAIN tasks /\ tasks[p].a[2] \in Nat /\ tasks[p].b[2] \in Nat /\ tasks[p].c[2] \in Nat
         /\ tasks[p].v \in Int /\ tasks[p].a[1] = tasks[p].b[1] /\ tasks[p].c[1] # tasks[p].a[1]
         /\ mem \in [Addresses -> Int] /\ Row(mem, tasks[p].a[1]) \in Rows /\ Row(mem, tasks[p].c[1]) \in Rows
         /\ MergeNow(Row(mem, tasks[p].a[1]), Row(mem, tasks[p].c[1]), tasks[p])
<1> DEFINE f == tasks[p]
<1>1. TasksOK /\ mem \in [Addresses -> Int]
  BY DEF Inv, TypeOK
<1>2. /\ Running(p) /\ f \in Activations /\ f.fn = "merge" /\ f.a \in Pointers /\ f.b \in Pointers
      /\ f.c \in Pointers /\ MergeOK(f, len)
  BY <1>1, MergeFrame
<1>3. p \in DOMAIN tasks
  BY <1>2 DEF Running
<1>4. f.a[2] \in Nat /\ f.b[2] \in Nat /\ f.c[2] \in Nat /\ f.v \in Int
  BY <1>2 DEF Pointers, Activations
<1>5. Row(mem, f.a[1]) \in Rows /\ Row(mem, f.c[1]) \in Rows
  BY <1>1, RowTyped
<1>6. MergeNow(Row(mem, f.a[1]), Row(mem, f.c[1]), f)
  BY <1>2, <1>3 DEF DataOK, Now
<1> QED BY <1>1, <1>2, <1>3, <1>4, <1>5, <1>6 DEF MergeOK

\* the values a merge is about to read
LEMMA ReadsRow ==
  ASSUME MergesortAssumption, Inv, NEW p \in DOMAIN tasks, NEW ptr \in Pointers, NEW n \in Nat,
         Plus(ptr, n) \in NextReads(tasks[p])
  PROVE  Plus(ptr, n) \in Addresses /\ mem[Plus(ptr, n)] = Row(mem, ptr[1])[ptr[2] + n]
<1>1. Plus(ptr, n) \in Addresses /\ DOMAIN mem = Addresses
  BY ReadsValue DEF Inv, TypeOK
<1> QED BY <1>1, RowAt

\* a merge that moves on without forking is the same call
LEMMA MergeMoveKeeps ==
  ASSUME MergesortAssumption, Inv, EP!Nested, EP!UnrelatedDisjoint, Linked, DataOK,
         NEW p, NEW pc, At(p, "merge", pc), UNCHANGED <<len, input>>, mem' \in [Addresses -> Int],
         SameCells(mem, mem', Addresses \ Eff(tasks[p], "write")), Checked!CheckedStep(p),
         NEW act, Continue(p, act), act.fn = "merge", act.pc # "return", act.a = tasks[p].a,
         act.b = tasks[p].b, act.c = tasks[p].c, act.lena = tasks[p].lena, act.lenb = tasks[p].lenb,
         MergeNow(Row(mem', act.a[1]), Row(mem', act.c[1]), act)
  PROVE  EP!Nested' /\ Linked' /\ DataOK'
<1>1. TasksOK
  BY DEF Inv
<1>2. Running(p) /\ tasks[p].fn = "merge"
  BY <1>1, MergeFrame
<1>3. Calls(act) = <<>> /\ SameCall(act, tasks[p])
  BY <1>2 DEF Calls, SameCall
<1>4. Now(mem', input, act)
  BY DEF Now
<1> QED BY <1>2, <1>3, <1>4, MoveKeeps

LEMMA SplitBegins ==
  ASSUME NEW A, NEW f, f.lena >= 1, f.v = A[f.a[2] + (f.lena \div 2)],
         f.b[2] \in Nat, f.lenb \in Nat, f.lo = 0, f.hi = f.lenb
  PROVE  SplitAt(A, f)
<1>1. f.b[2]..((f.b[2] + f.lo) - 1) = {} /\ (f.b[2] + f.hi)..((f.b[2] + f.lenb) - 1) = {}
  OBVIOUS
<1> QED BY <1>1 DEF SplitAt

LEMMA EnterFindSplitKeeps ==
  ASSUME MergesortAssumption, Inv, EP!Nested, EP!UnrelatedDisjoint, Linked, DataOK,
         NEW p, EnterFindSplit(p)
  PROVE  EP!Nested' /\ Linked' /\ DataOK'
<1> DEFINE f == tasks[p]
           ha == f.lena \div 2
           A == Row(mem, f.a[1])
           C == Row(mem, f.c[1])
           act == [f EXCEPT !.pc = "find_split", !.v = mem[Plus(f.a, ha)]]
<1>1. /\ At(p, "merge", "entry") /\ UNCHANGED <<len, input, mem>> /\ Continue(p, act)
      /\ TasksOK
  BY DEF EnterFindSplit, Inv
<1>2. Checked!CheckedStep(p)
  BY EnterFindSplitStep
<1>3. /\ f \in Activations /\ f.fn = "merge" /\ f.pc = "entry" /\ MergeOK(f, len)
      /\ f.a \in Pointers /\ f.lena \in Nat /\ f.lenb \in Nat
  BY <1>1, MergeFrame
<1>4. /\ p \in DOMAIN tasks /\ f.a[2] \in Nat /\ f.b[2] \in Nat
      /\ mem \in [Addresses -> Int] /\ MergeNow(A, C, f)
  BY <1>1, MergeData
<1>5. ha \in Nat /\ f.lena >= 1
  BY <1>3 DEF MergeOK, MergesortAssumption
<1>6. mem[Plus(f.a, ha)] = A[f.a[2] + ha]
  <2>1. Plus(f.a, ha) \in NextReads(f)
    BY <1>3 DEF NextReads
  <2> QED BY <1>3, <1>4, <1>5, <2>1, ReadsRow
<1>7. /\ act.fn = "merge" /\ act.pc = "find_split" /\ act.a = f.a /\ act.b = f.b /\ act.c = f.c
      /\ act.lena = f.lena /\ act.lenb = f.lenb /\ act.lo = f.lo /\ act.hi = f.hi
      /\ act.v = A[f.a[2] + ha]
  BY <1>3, <1>6 DEF Activations
<1> HIDE DEF act, A, C
<1>8. MergeNow(A, C, act)
  <2>1. SplitAt(A, act)
    BY <1>3, <1>4, <1>5, <1>7, SplitBegins DEF MergeNow
  <2> QED BY <1>4, <1>7, <2>1 DEF MergeNow
<1>9. MergeNow(Row(mem', act.a[1]), Row(mem', act.c[1]), act)
  BY <1>1, <1>7, <1>8 DEF A, C
<1>10. SameCells(mem, mem', Addresses \ Eff(f, "write")) /\ mem' \in [Addresses -> Int]
  BY <1>1, <1>4 DEF SameCells
<1> QED BY <1>1, <1>2, <1>7, <1>9, <1>10, MergeMoveKeeps

LEMMA Halfway ==
  ASSUME NEW lo \in Nat, NEW hi \in Nat, lo < hi
  PROVE  lo + ((hi - lo) \div 2) \in Nat /\ lo <= lo + ((hi - lo) \div 2) /\ lo + ((hi - lo) \div 2) < hi
OBVIOUS

LEMMA FindSplitKeeps ==
  ASSUME MergesortAssumption, Inv, EP!Nested, EP!UnrelatedDisjoint, Linked, DataOK,
         NEW p, FindSplit(p)
  PROVE  EP!Nested' /\ Linked' /\ DataOK'
<1> DEFINE f == tasks[p]
           m == f.lo + ((f.hi - f.lo) \div 2)
           b == f.b[2]
           A == Row(mem, f.a[1])
           C == Row(mem, f.c[1])
<1>1. /\ At(p, "merge", "find_split") /\ UNCHANGED <<len, input, mem>> /\ f.lo < f.hi
      /\ \/ f.v <= mem[Plus(f.b, m)] /\ Continue(p, [f EXCEPT !.hi = m])
         \/ f.v > mem[Plus(f.b, m)] /\ Continue(p, [f EXCEPT !.lo = m + 1])
      /\ TasksOK
  BY DEF FindSplit, Inv
<1>2. Checked!CheckedStep(p)
  BY FindSplitStep
<1>3. /\ f \in Activations /\ f.fn = "merge" /\ f.pc = "find_split" /\ MergeOK(f, len)
      /\ f.b \in Pointers /\ f.lenb \in Nat /\ f.lo \in Nat /\ f.hi \in Nat
  BY <1>1, MergeFrame
<1>4. /\ p \in DOMAIN tasks /\ b \in Nat /\ f.v \in Int /\ A \in Rows /\ f.a[1] = f.b[1]
      /\ mem \in [Addresses -> Int] /\ MergeNow(A, C, f)
  BY <1>1, MergeData
<1>5. m \in Nat /\ f.lo <= m /\ m < f.hi /\ f.hi <= f.lenb
  BY <1>1, <1>3, Halfway DEF MergeOK
<1>6. mem[Plus(f.b, m)] = A[b + m]
  <2>1. Plus(f.b, m) \in NextReads(f)
    BY <1>1, <1>3 DEF NextReads
  <2> QED BY <1>3, <1>4, <1>5, <2>1, ReadsRow
<1>7. SameCells(mem, mem', Addresses \ Eff(f, "write")) /\ mem' \in [Addresses -> Int]
  BY <1>1, <1>4 DEF SameCells
<1> HIDE DEF m
<1>8. /\ \A x \in b..(b + m) : A[x] <= A[b + m]
      /\ \A x \in (b + m)..((b + f.lenb) - 1) : A[b + m] <= A[x]
  <2>1. Ascending(A, b, b + f.lenb) /\ b + m \in b..((b + f.lenb) - 1)
    BY <1>3, <1>4, <1>5 DEF MergeNow
  <2>2. ASSUME NEW x \in b..(b + m) PROVE x \in b..((b + f.lenb) - 1) /\ x <= b + m
    BY <1>3, <1>4, <1>5
  <2>3. ASSUME NEW x \in (b + m)..((b + f.lenb) - 1) PROVE x \in b..((b + f.lenb) - 1) /\ b + m <= x
    BY <1>3, <1>4, <1>5
  <2> QED BY <2>1, <2>2, <2>3 DEF Ascending
<1>9. SplitAt(A, f)
  BY <1>3, <1>4 DEF MergeNow
<1>10. ASSUME NEW act, Continue(p, act), act.fn = "merge", act.pc = "find_split", act.a = f.a, act.b = f.b,
              act.c = f.c, act.lena = f.lena, act.lenb = f.lenb, SplitAt(A, act)
       PROVE  EP!Nested' /\ Linked' /\ DataOK'
  <2>1. MergeNow(A, C, act)
    BY <1>4, <1>10 DEF MergeNow
  <2>2. MergeNow(Row(mem', act.a[1]), Row(mem', act.c[1]), act)
    BY <1>1, <1>10, <2>1
  <2> QED BY <1>1, <1>2, <1>7, <1>10, <2>2, MergeMoveKeeps
<1>11. CASE f.v <= mem[Plus(f.b, m)] /\ Continue(p, [f EXCEPT !.hi = m])
  <2> DEFINE act == [f EXCEPT !.hi = m]
  <2>1. /\ act.fn = "merge" /\ act.pc = "find_split" /\ act.a = f.a /\ act.b = f.b /\ act.c = f.c
        /\ act.lena = f.lena /\ act.lenb = f.lenb /\ act.lo = f.lo /\ act.hi = m /\ act.v = f.v
    BY <1>3 DEF Activations
  <2>2. Continue(p, act)
    BY <1>11
  <2> HIDE DEF act
  <2>3. \A x \in (b + m)..((b + f.lenb) - 1) : f.v <= A[x]
    <3> SUFFICES ASSUME NEW x \in (b + m)..((b + f.lenb) - 1) PROVE f.v <= A[x]
      OBVIOUS
    <3>1. f.v <= A[b + m] /\ A[b + m] <= A[x]
      BY <1>6, <1>8, <1>11
    <3>2. A[x] \in Int /\ A[b + m] \in Int
      BY <1>3, <1>4, <1>5 DEF Rows
    <3> QED BY <1>4, <3>1, <3>2
  <2>4. SplitAt(A, act)
    BY <1>9, <2>1, <2>3 DEF SplitAt
  <2> QED BY <1>10, <2>1, <2>2, <2>4
<1>12. CASE f.v > mem[Plus(f.b, m)] /\ Continue(p, [f EXCEPT !.lo = m + 1])
  <2> DEFINE act == [f EXCEPT !.lo = m + 1]
  <2>1. /\ act.fn = "merge" /\ act.pc = "find_split" /\ act.a = f.a /\ act.b = f.b /\ act.c = f.c
        /\ act.lena = f.lena /\ act.lenb = f.lenb /\ act.lo = m + 1 /\ act.hi = f.hi /\ act.v = f.v
    BY <1>3 DEF Activations
  <2>2. Continue(p, act)
    BY <1>12
  <2> HIDE DEF act
  <2>3. \A x \in b..((b + (m + 1)) - 1) : A[x] <= f.v
    <3> SUFFICES ASSUME NEW x \in b..((b + (m + 1)) - 1) PROVE A[x] <= f.v
      OBVIOUS
    <3>1. x \in b..(b + m) /\ x \in Nat /\ b + m \in Nat
      BY <1>4, <1>5
    <3>2. A[b + m] < f.v /\ A[x] <= A[b + m]
      BY <1>6, <1>8, <1>12, <3>1
    <3>3. A[x] \in Int /\ A[b + m] \in Int
      BY <1>4, <3>1 DEF Rows
    <3> QED BY <1>4, <3>2, <3>3
  <2>4. SplitAt(A, act)
    BY <1>9, <2>1, <2>3 DEF SplitAt
  <2> QED BY <1>10, <2>1, <2>2, <2>4
<1> QED BY <1>1, <1>11, <1>12

LEMMA MergePartsKeeps ==
  ASSUME MergesortAssumption, Inv, EP!Nested, Linked, DataOK, NEW p, MergeParts(p)
  PROVE  EP!Nested' /\ Linked' /\ DataOK'
<1> DEFINE f == tasks[p]
           ha == f.lena \div 2
           s == f.hi
           a == f.a[2]
           b == f.b[2]
           A == Row(mem, f.a[1])
           C == Row(mem, f.c[1])
           act == [f EXCEPT !.pc = "return"]
<1>1. TasksOK /\ UNCHANGED <<len, input, mem>>
  BY DEF Inv, MergeParts
<1>2. /\ At(p, "merge", "find_split") /\ Running(p) /\ f.lo >= f.hi /\ Cobegin(p, act, Calls(act))
  BY <1>1, MergePartsForks
<1>3. TasksOK' /\ Checked!CheckedStep(p)
  BY ForksOK
<1>4. /\ f \in Activations /\ f.fn = "merge" /\ f.pc = "find_split" /\ MergeOK(f, len)
      /\ f.a \in Pointers /\ f.b \in Pointers /\ f.c \in Pointers
      /\ f.lena \in Nat /\ f.lenb \in Nat /\ f.lo \in Nat /\ s \in Nat /\ s <= f.lenb
  BY <1>1, <1>2, MergeFrame DEF MergeOK
<1>5. /\ p \in DOMAIN tasks /\ a \in Nat /\ b \in Nat /\ f.a[1] = f.b[1] /\ MergeNow(A, C, f)
  BY <1>2, MergeData
<1>6. f.lo = f.hi
  BY <1>2, <1>4 DEF MergeOK
<1>7. /\ act.fn = "merge" /\ act.pc = "return" /\ act.a = f.a /\ act.b = f.b /\ act.c = f.c
      /\ act.lena = f.lena /\ act.lenb = f.lenb /\ act.lo = f.lo /\ act.hi = f.hi /\ act.v = f.v
  BY <1>4 DEF Activations
<1>8. Calls(act) = PartCalls(f)
  BY <1>7 DEF Calls, PartCalls
<1> HIDE DEF act, A, C
<1>9. SameCall(act, f)
  BY <1>4, <1>7 DEF SameCall
<1>10. Now(mem, input, act)
  <2>1. MergeNow(A, C, act)
    BY <1>4, <1>5, <1>6, <1>7 DEF MergeNow, SplitAt
  <2> QED BY <1>7, <2>1 DEF Now, A, C
<1>11. Ascending(A, a, a + f.lena) /\ Ascending(A, b, b + f.lenb)
  BY <1>5 DEF MergeNow
<1>12. ha \in Nat /\ ha <= f.lena /\ f.lena - ha \in Nat /\ f.lenb - s \in Nat /\ ha + s \in Nat
  <2>1. ha \in Nat /\ ha <= f.lena
    BY <1>4
  <2> HIDE DEF ha
  <2> QED BY <1>4, <2>1
<1> HIDE DEF ha
<1>p. /\ Plus(f.a, ha) \in Pointers /\ Plus(f.a, ha)[1] = f.a[1] /\ Plus(f.a, ha)[2] = a + ha
      /\ Plus(f.b, s) \in Pointers /\ Plus(f.b, s)[2] = b + s
      /\ Plus(f.c, ha + s) \in Pointers
  BY <1>4, <1>12, PlusPointer
<1>13. /\ Ascending(A, a, a + ha) /\ Ascending(A, b, b + s)
       /\ Ascending(A, a + ha, (a + ha) + (f.lena - ha)) /\ Ascending(A, b + s, (b + s) + (f.lenb - s))
  BY <1>4, <1>5, <1>11, <1>12, AscendingWithin
<1>14. Begins(mem, input, MergeCall(f.a, f.b, ha, s, f.c))
  BY <1>4, <1>12, <1>13, MergeBegins DEF A
<1>15. Begins(mem, input, MergeCall(Plus(f.a, ha), Plus(f.b, s), f.lena - ha, f.lenb - s, Plus(f.c, ha + s)))
  <2>1. A = Row(mem, Plus(f.a, ha)[1])
    BY <1>p DEF A
  <2>2. /\ Ascending(A, Plus(f.a, ha)[2], Plus(f.a, ha)[2] + (f.lena - ha))
        /\ Ascending(A, Plus(f.b, s)[2], Plus(f.b, s)[2] + (f.lenb - s))
    BY <1>13, <1>p
  <2> QED BY <1>12, <1>p, <2>1, <2>2, MergeBegins
<1>16. \A i \in DOMAIN Calls(act) : Begins(mem, input, Calls(act)[i])
  <2>1. /\ DOMAIN PartCalls(f) = 1..2
        /\ PartCalls(f)[1] = MergeCall(f.a, f.b, ha, s, f.c)
        /\ PartCalls(f)[2] = MergeCall(Plus(f.a, ha), Plus(f.b, s), f.lena - ha, f.lenb - s, Plus(f.c, ha + s))
    BY DEF PartCalls, ha
  <2> QED BY <1>8, <1>14, <1>15, <2>1
<1>17. DOMAIN Calls(act) \subseteq Nat
  BY <1>8 DEF PartCalls
<1> QED BY <1>1, <1>2, <1>3, <1>9, <1>10, <1>16, <1>17, ForkKeeps

-----------------------------------------------------------------------------
(* The copying of merge.                                                     *)

\* A cell that is written becomes the value at its offset; other blocks stay.
LEMMA CopyRows ==
  ASSUME NEW D, NEW m \in [D -> Int], NEW w \in [D -> Int],
         NEW ptr \in Pointers, NEW k \in Nat, Plus(ptr, k) \in D,
         SameCells(m, w, D \ {Plus(ptr, k)})
  PROVE  /\ Alike(Row(m, ptr[1]), Row(w, ptr[1]), ptr[2], ptr[2] + k)
         /\ Row(w, ptr[1])[ptr[2] + k] = w[Plus(ptr, k)]
<1> DEFINE c == ptr[2]
<1>1. c \in Nat /\ Plus(ptr, k) = <<ptr[1], c + k>> /\ c + k \in Nat
  BY DEF Pointers, Plus
<1>3. Row(w, ptr[1])[c + k] = w[Plus(ptr, k)]
  BY <1>1 DEF Row
<1>4. ASSUME NEW y \in c..((c + k) - 1) PROVE Row(m, ptr[1])[y] = Row(w, ptr[1])[y]
  <2>1. y \in Nat /\ y # c + k
    BY <1>1
  <2>2. <<ptr[1], y>> # Plus(ptr, k)
    BY <1>1, <2>1
  <2>3. <<ptr[1], y>> \in D => w[<<ptr[1], y>>] = m[<<ptr[1], y>>]
    BY <2>2 DEF SameCells
  <2> QED BY <2>1, <2>3 DEF Row
<1>5. Alike(Row(m, ptr[1]), Row(w, ptr[1]), c, c + k)
  BY <1>4 DEF Alike
<1> QED BY <1>3, <1>5

LEMMA BelowTaken ==
  ASSUME NEW C \in Rows, NEW D, NEW A, NEW c \in Nat, NEW k \in Nat, NEW lo, NEW hi,
         Alike(C, D, c, c + k), MergedBelow(C, c, k, A, lo, hi),
         \A y \in lo..(hi - 1) : D[c + k] <= A[y]
  PROVE  MergedBelow(D, c, k + 1, A, lo, hi)
<1> SUFFICES ASSUME NEW x \in c..((c + (k + 1)) - 1), NEW y \in lo..(hi - 1) PROVE D[x] <= A[y]
  BY DEF MergedBelow
<1>1. x = c + k \/ x \in c..((c + k) - 1)
  OBVIOUS
<1> QED BY <1>1 DEF MergedBelow, Alike

\* The lesser of the two next values, put at the end, keeps what is merged in order
\* and below what is left.
LEMMA Taken ==
  ASSUME NEW A \in Rows, NEW C \in Rows, NEW D \in Rows, NEW c \in Nat, NEW k \in Nat,
         NEW a \in Nat, NEW la \in Nat, NEW b \in Nat, NEW lb \in Nat,
         NEW i \in Nat, NEW j \in Nat, k = i + j, i < la,
         Ascending(A, a, a + la), Ascending(A, b, b + lb), MergeOf(C, c, A, a, i, b, j),
         MergedBelow(C, c, k, A, a + i, a + la), MergedBelow(C, c, k, A, b + j, b + lb),
         Alike(C, D, c, c + k), D[c + k] = A[a + i], j < lb => A[a + i] <= A[b + j]
  PROVE  /\ MergeOf(D, c, A, a, i + 1, b, j)
         /\ MergedBelow(D, c, k + 1, A, a + (i + 1), a + la)
         /\ MergedBelow(D, c, k + 1, A, b + j, b + lb)
<1>1. a + i \in (a + i)..((a + la) - 1) /\ a + i \in a..((a + la) - 1)
  OBVIOUS
<1>2. MergeOf(D, c, A, a, i + 1, b, j)
  <2> DEFINE n == c + k
  <2>1. n \in Nat /\ n = c + (i + j) /\ D[n] = A[a + i] /\ Alike(C, D, c, n)
    OBVIOUS
  <2>2. \A x \in c..(n - 1) : C[x] <= A[a + i]
    BY <1>1 DEF MergedBelow
  <2> HIDE DEF n
  <2> QED BY <2>1, <2>2, MergeTakes
<1>3. MergedBelow(D, c, k + 1, A, a + (i + 1), a + la)
  <2>1. MergedBelow(C, c, k, A, a + (i + 1), a + la)
    <3>1. \A y \in (a + (i + 1))..((a + la) - 1) : y \in (a + i)..((a + la) - 1)
      OBVIOUS
    <3> QED BY <3>1 DEF MergedBelow
  <2>2. ASSUME NEW y \in (a + (i + 1))..((a + la) - 1) PROVE D[c + k] <= A[y]
    <3>1. y \in a..((a + la) - 1) /\ a + i <= y
      OBVIOUS
    <3> QED BY <1>1, <3>1 DEF Ascending
  <2> QED BY <2>1, <2>2, BelowTaken
<1>4. MergedBelow(D, c, k + 1, A, b + j, b + lb)
  <2>1. ASSUME NEW y \in (b + j)..((b + lb) - 1) PROVE D[c + k] <= A[y]
    <3>1. j < lb /\ b + j \in b..((b + lb) - 1) /\ y \in b..((b + lb) - 1) /\ b + j <= y /\ y \in Nat
      OBVIOUS
    <3>2. A[b + j] <= A[y] /\ A[a + i] <= A[b + j]
      BY <3>1 DEF Ascending
    <3>3. A[y] \in Int /\ A[b + j] \in Int /\ A[a + i] \in Int
      BY <3>1 DEF Rows
    <3> QED BY <3>2, <3>3
  <2> QED BY <2>1, BelowTaken
<1> QED BY <1>2, <1>3, <1>4

\* the cell a merge copies to
LEMMA CopyIn ==
  ASSUME MergesortAssumption, Inv, NEW p, At(p, "merge", "seq_merge"),
         tasks[p].i < tasks[p].lena \/ tasks[p].j < tasks[p].lenb
  PROVE  /\ Plus(tasks[p].c, tasks[p].k) \in Eff(tasks[p], "write")
         /\ Plus(tasks[p].c, tasks[p].k) \in Addresses
         /\ Eff(tasks[p], "write") = Cells(tasks[p].c, tasks[p].lena + tasks[p].lenb)
<1> DEFINE f == tasks[p]
<1>1. TasksOK /\ len \in Nat
  BY MergesortAssumption DEF Inv, TypeOK, MergesortAssumption
<1>2. f.fn = "merge" /\ f.pc = "seq_merge" /\ p \in DOMAIN tasks
  BY <1>1, MergeFrame DEF Running
<1>3. ActOK(f, len) /\ Eff(f, "write") = Cells(f.c, f.lena + f.lenb)
  BY <1>1, <1>2 DEF TasksOK, Eff
<1>4. Plus(f.c, f.k) \in NextWrites(f)
  BY <1>2 DEF NextWrites
<1>5. NextWrites(f) \subseteq Eff(f, "write") /\ Eff(f, "write") \subseteq Addresses
  BY <1>1, <1>3, AccessesWithinEffects, EffectsInBounds
<1> QED BY <1>3, <1>4, <1>5

\* A merge that copies writes its next cell of c, and what it reads stays.
LEMMA CopyKeeps ==
  ASSUME MergesortAssumption, Inv, DataOK, NEW p, At(p, "merge", "seq_merge"),
         tasks[p].i < tasks[p].lena \/ tasks[p].j < tasks[p].lenb,
         NEW w \in [Addresses -> Int],
         SameCells(mem, w, Addresses \ {Plus(tasks[p].c, tasks[p].k)})
  PROVE  /\ SameCells(mem, w, Addresses \ Eff(tasks[p], "write"))
         /\ Row(w, tasks[p].a[1]) = Row(mem, tasks[p].a[1])
         /\ Row(w, tasks[p].c[1]) \in Rows
         /\ Alike(Row(mem, tasks[p].c[1]), Row(w, tasks[p].c[1]),
                  tasks[p].c[2], tasks[p].c[2] + tasks[p].k)
         /\ Row(w, tasks[p].c[1])[tasks[p].c[2] + tasks[p].k]
            = w[Plus(tasks[p].c, tasks[p].k)]
<1> DEFINE f == tasks[p]
           n == f.lena + f.lenb
<1>1. TasksOK
  BY DEF Inv
<1>2. /\ f.c \in Pointers /\ f.k \in Nat /\ n \in Int
  BY <1>1, MergeFrame
<1>3. f.c[1] # f.a[1] /\ mem \in [Addresses -> Int]
  BY MergeData
<1>4. /\ Plus(f.c, f.k) \in Eff(f, "write") /\ Plus(f.c, f.k) \in Addresses
      /\ Eff(f, "write") = Cells(f.c, n)
  BY CopyIn
<1> DEFINE ptr == f.c
           k == f.k
           S == Addresses
<1>5. /\ mem \in [S -> Int] /\ ptr \in Pointers /\ k \in Nat /\ Plus(ptr, k) \in S
      /\ w \in [S -> Int] /\ SameCells(mem, w, S \ {Plus(ptr, k)})
  BY <1>2, <1>3, <1>4
<1> HIDE DEF n
<1>6. /\ Alike(Row(mem, f.c[1]), Row(w, f.c[1]), f.c[2], f.c[2] + f.k)
      /\ Row(w, f.c[1])[f.c[2] + f.k] = w[Plus(f.c, f.k)]
  <2> HIDE DEF ptr, k, S
  <2>1. /\ Alike(Row(mem, ptr[1]), Row(w, ptr[1]), ptr[2], ptr[2] + k)
        /\ Row(w, ptr[1])[ptr[2] + k] = w[Plus(ptr, k)]
    BY <1>5, CopyRows
  <2> QED BY <1>5, <2>1 DEF ptr, k, S
<1>7. SameCells(mem, w, Addresses \ Eff(f, "write"))
  BY <1>4 DEF SameCells
<1>8. Row(w, f.a[1]) = Row(mem, f.a[1])
  <2> DEFINE blk == f.a[1]
  <2>1. SameCells(mem, w, S \ Cells(ptr, n)) /\ w \in [S -> Int] /\ blk # ptr[1]
    BY <1>3, <1>4, <1>7
  <2> HIDE DEF ptr, S, blk
  <2>2. Row(w, blk) = Row(mem, blk)
    BY <1>5, <1>2, <2>1, RowOther
  <2> QED BY <2>2 DEF blk
<1>9. Row(w, f.c[1]) \in Rows
  BY RowTyped
<1> QED BY <1>6, <1>7, <1>8, <1>9

LEMMA TakeAKeeps ==
  ASSUME MergesortAssumption, Inv, EP!Nested, EP!UnrelatedDisjoint, Linked, DataOK, NEW p, TakeA(p)
  PROVE  EP!Nested' /\ Linked' /\ DataOK'
<1> DEFINE f == tasks[p]
           i1 == f.i + 1
           k1 == f.k + 1
           act == [f EXCEPT !.i = i1, !.k = k1]
           a == f.a[2]
           b == f.b[2]
           c == f.c[2]
           A == Row(mem, f.a[1])
           C == Row(mem, f.c[1])
           w == mem'
           D == Row(w, f.c[1])
<1>1. /\ At(p, "merge", "seq_merge") /\ f.i < f.lena /\ UNCHANGED <<len, input>> /\ Continue(p, act)
      /\ f.j < f.lenb => mem[Plus(f.a, f.i)] < mem[Plus(f.b, f.j)]
      /\ w = [mem EXCEPT ![Plus(f.c, f.k)] = mem[Plus(f.a, f.i)]] /\ TasksOK
  BY DEF TakeA, Inv
<1>2. Checked!CheckedStep(p)
  BY TakeAStep
<1>3. /\ f \in Activations /\ f.fn = "merge" /\ f.pc = "seq_merge" /\ f.a \in Pointers /\ f.b \in Pointers
      /\ f.i \in Nat /\ f.j \in Nat /\ f.k \in Nat /\ f.lena \in Nat /\ f.lenb \in Nat /\ f.k = f.i + f.j
  BY <1>1, MergeFrame DEF MergeOK
<1>4. /\ p \in DOMAIN tasks /\ a \in Nat /\ b \in Nat /\ c \in Nat /\ A \in Rows /\ C \in Rows
      /\ f.a[1] = f.b[1] /\ MergeNow(A, C, f) /\ mem \in [Addresses -> Int]
  BY <1>1, MergeData
<1>5. mem[Plus(f.a, f.i)] = A[a + f.i] /\ mem[Plus(f.a, f.i)] \in Int
  <2>1. Plus(f.a, f.i) \in NextReads(f)
    BY <1>1, <1>3 DEF NextReads
  <2> QED BY <1>3, <1>4, <2>1, ReadsRow, ReadsValue
<1>6. f.j < f.lenb => mem[Plus(f.b, f.j)] = A[b + f.j]
  <2>1. f.j < f.lenb => Plus(f.b, f.j) \in NextReads(f)
    BY <1>3 DEF NextReads
  <2> QED BY <1>3, <1>4, <2>1, ReadsRow
<1>i. i1 = f.i + 1 /\ k1 = f.k + 1
  OBVIOUS
<1> HIDE DEF w, i1, k1
<1>7. /\ w \in [Addresses -> Int] /\ SameCells(mem, w, Addresses \ Eff(f, "write"))
      /\ Row(w, f.a[1]) = A /\ D \in Rows /\ Alike(C, D, c, c + f.k) /\ D[c + f.k] = A[a + f.i]
  <2>1. w \in [Addresses -> Int]
    BY <1>1, <1>4, <1>5
  <2>2. SameCells(mem, w, Addresses \ {Plus(f.c, f.k)})
    BY <1>1, <1>4 DEF SameCells
  <2>3. /\ SameCells(mem, w, Addresses \ Eff(f, "write"))
        /\ Row(w, f.a[1]) = A /\ D \in Rows /\ Alike(C, D, c, c + f.k)
        /\ D[c + f.k] = w[Plus(f.c, f.k)]
    BY <1>1, <2>1, <2>2, CopyKeeps
  <2>4. Plus(f.c, f.k) \in Addresses
    BY <1>1, CopyIn
  <2>5. w[Plus(f.c, f.k)] = A[a + f.i]
    BY <1>1, <1>4, <1>5, <2>4
  <2> QED BY <2>1, <2>3, <2>5
<1>8. /\ act.fn = "merge" /\ act.pc = "seq_merge" /\ act.a = f.a /\ act.b = f.b /\ act.c = f.c
      /\ act.lena = f.lena /\ act.lenb = f.lenb /\ act.i = i1 /\ act.j = f.j /\ act.k = k1
  BY <1>3 DEF Activations
<1>9. f.j < f.lenb => A[a + f.i] <= A[b + f.j]
  <2>1. f.j < f.lenb => A[a + f.i] < A[b + f.j]
    BY <1>1, <1>5, <1>6
  <2>2. A[a + f.i] \in Int /\ A[b + f.j] \in Int
    BY <1>3, <1>4 DEF Rows
  <2> QED BY <2>1, <2>2
<1> HIDE DEF act, A, C, D
<1>10. /\ MergeOf(D, c, A, a, i1, b, f.j)
       /\ MergedBelow(D, c, k1, A, a + i1, a + f.lena)
       /\ MergedBelow(D, c, k1, A, b + f.j, b + f.lenb)
  <2>1. /\ Ascending(A, a, a + f.lena) /\ Ascending(A, b, b + f.lenb) /\ MergeOf(C, c, A, a, f.i, b, f.j)
        /\ MergedBelow(C, c, f.k, A, a + f.i, a + f.lena) /\ MergedBelow(C, c, f.k, A, b + f.j, b + f.lenb)
    BY <1>3, <1>4 DEF MergeNow
  <2> DEFINE i == f.i
             j == f.j
             k == f.k
             la == f.lena
             lb == f.lenb
  <2>2. /\ i \in Nat /\ j \in Nat /\ k \in Nat /\ la \in Nat /\ lb \in Nat /\ k = i + j /\ i < la
        /\ j < lb => A[a + i] <= A[b + j]
    BY <1>1, <1>3, <1>9
  <2>3. D \in Rows /\ Alike(C, D, c, c + k) /\ D[c + k] = A[a + i]
    BY <1>7
  <2>4. a \in Nat /\ b \in Nat /\ c \in Nat /\ A \in Rows /\ C \in Rows
    BY <1>4
  <2> HIDE DEF i, j, k, la, lb, a, b, c
  <2>5. /\ MergeOf(D, c, A, a, i + 1, b, j)
        /\ MergedBelow(D, c, k + 1, A, a + (i + 1), a + la)
        /\ MergedBelow(D, c, k + 1, A, b + j, b + lb)
    BY <2>1, <2>2, <2>3, <2>4, Taken DEF i, j, k, la, lb
  <2> QED BY <1>i, <2>5 DEF i, j, k, la, lb, a, b, c
<1>11. MergeNow(A, D, act)
  BY <1>4, <1>8, <1>10 DEF MergeNow
<1>12. MergeNow(Row(mem', act.a[1]), Row(mem', act.c[1]), act)
  BY <1>7, <1>8, <1>11 DEF D, w
<1> QED BY <1>1, <1>2, <1>7, <1>8, <1>12, <1>i, MergeMoveKeeps DEF w, act

LEMMA TakeBKeeps ==
  ASSUME MergesortAssumption, Inv, EP!Nested, EP!UnrelatedDisjoint, Linked, DataOK, NEW p, TakeB(p)
  PROVE  EP!Nested' /\ Linked' /\ DataOK'
<1> DEFINE f == tasks[p]
           j1 == f.j + 1
           k1 == f.k + 1
           act == [f EXCEPT !.j = j1, !.k = k1]
           a == f.a[2]
           b == f.b[2]
           c == f.c[2]
           A == Row(mem, f.a[1])
           C == Row(mem, f.c[1])
           w == mem'
           D == Row(w, f.c[1])
<1>1. /\ At(p, "merge", "seq_merge") /\ f.j < f.lenb /\ UNCHANGED <<len, input>> /\ Continue(p, act)
      /\ f.i < f.lena => mem[Plus(f.a, f.i)] >= mem[Plus(f.b, f.j)]
      /\ w = [mem EXCEPT ![Plus(f.c, f.k)] = mem[Plus(f.b, f.j)]] /\ TasksOK
  BY DEF TakeB, Inv
<1>2. Checked!CheckedStep(p)
  BY TakeBStep
<1>3. /\ f \in Activations /\ f.fn = "merge" /\ f.pc = "seq_merge" /\ f.a \in Pointers /\ f.b \in Pointers
      /\ f.i \in Nat /\ f.j \in Nat /\ f.k \in Nat /\ f.lena \in Nat /\ f.lenb \in Nat /\ f.k = f.j + f.i
  BY <1>1, MergeFrame DEF MergeOK
<1>4. /\ p \in DOMAIN tasks /\ a \in Nat /\ b \in Nat /\ c \in Nat /\ A \in Rows /\ C \in Rows
      /\ f.a[1] = f.b[1] /\ MergeNow(A, C, f) /\ mem \in [Addresses -> Int]
  BY <1>1, MergeData
<1>5. mem[Plus(f.b, f.j)] = A[b + f.j] /\ mem[Plus(f.b, f.j)] \in Int
  <2>1. Plus(f.b, f.j) \in NextReads(f)
    BY <1>1, <1>3 DEF NextReads
  <2> QED BY <1>3, <1>4, <2>1, ReadsRow, ReadsValue
<1>6. f.i < f.lena => mem[Plus(f.a, f.i)] = A[a + f.i]
  <2>1. f.i < f.lena => Plus(f.a, f.i) \in NextReads(f)
    BY <1>3 DEF NextReads
  <2> QED BY <1>3, <1>4, <2>1, ReadsRow
<1>i. j1 = f.j + 1 /\ k1 = f.k + 1
  OBVIOUS
<1>j. j1 \in Nat
  BY <1>3
<1> HIDE DEF w, j1, k1
<1>7. /\ w \in [Addresses -> Int] /\ SameCells(mem, w, Addresses \ Eff(f, "write"))
      /\ Row(w, f.a[1]) = A /\ D \in Rows /\ Alike(C, D, c, c + f.k) /\ D[c + f.k] = A[b + f.j]
  <2>1. w \in [Addresses -> Int]
    BY <1>1, <1>4, <1>5
  <2>2. SameCells(mem, w, Addresses \ {Plus(f.c, f.k)})
    BY <1>1, <1>4 DEF SameCells
  <2>3. /\ SameCells(mem, w, Addresses \ Eff(f, "write"))
        /\ Row(w, f.a[1]) = A /\ D \in Rows /\ Alike(C, D, c, c + f.k)
        /\ D[c + f.k] = w[Plus(f.c, f.k)]
    BY <1>1, <2>1, <2>2, CopyKeeps
  <2>4. Plus(f.c, f.k) \in Addresses
    BY <1>1, CopyIn
  <2>5. w[Plus(f.c, f.k)] = A[b + f.j]
    BY <1>1, <1>4, <1>5, <2>4
  <2> QED BY <2>1, <2>3, <2>5
<1>8. /\ act.fn = "merge" /\ act.pc = "seq_merge" /\ act.a = f.a /\ act.b = f.b /\ act.c = f.c
      /\ act.lena = f.lena /\ act.lenb = f.lenb /\ act.i = f.i /\ act.j = j1 /\ act.k = k1
  BY <1>3 DEF Activations
<1>9. f.i < f.lena => A[b + f.j] <= A[a + f.i]
  <2>1. f.i < f.lena => A[a + f.i] >= A[b + f.j]
    BY <1>1, <1>5, <1>6
  <2>2. A[a + f.i] \in Int /\ A[b + f.j] \in Int
    BY <1>3, <1>4 DEF Rows
  <2> QED BY <2>1, <2>2
<1> HIDE DEF act, A, C, D
<1>10. /\ MergeOf(D, c, A, a, f.i, b, j1)
       /\ MergedBelow(D, c, k1, A, a + f.i, a + f.lena)
       /\ MergedBelow(D, c, k1, A, b + j1, b + f.lenb)
  <2>1. /\ Ascending(A, a, a + f.lena) /\ Ascending(A, b, b + f.lenb) /\ MergeOf(C, c, A, a, f.i, b, f.j)
        /\ MergedBelow(C, c, f.k, A, a + f.i, a + f.lena) /\ MergedBelow(C, c, f.k, A, b + f.j, b + f.lenb)
    BY <1>3, <1>4 DEF MergeNow
  <2>2. MergeOf(C, c, A, b, f.j, a, f.i)
    BY <1>3, <1>4, <2>1, MergeSwaps
  <2>3. /\ MergeOf(D, c, A, b, j1, a, f.i)
        /\ MergedBelow(D, c, k1, A, b + j1, b + f.lenb)
        /\ MergedBelow(D, c, k1, A, a + f.i, a + f.lena)
    <3> DEFINE i == f.i
               j == f.j
               k == f.k
               la == f.lena
               lb == f.lenb
    <3>1. /\ i \in Nat /\ j \in Nat /\ k \in Nat /\ la \in Nat /\ lb \in Nat /\ k = j + i /\ j < lb
          /\ i < la => A[b + j] <= A[a + i]
      BY <1>1, <1>3, <1>9
    <3>2. D \in Rows /\ Alike(C, D, c, c + k) /\ D[c + k] = A[b + j]
      BY <1>7
    <3>3. a \in Nat /\ b \in Nat /\ c \in Nat /\ A \in Rows /\ C \in Rows
      BY <1>4
    <3> HIDE DEF i, j, k, la, lb, a, b, c
    <3>4. /\ MergeOf(D, c, A, b, j + 1, a, i)
          /\ MergedBelow(D, c, k + 1, A, b + (j + 1), b + lb)
          /\ MergedBelow(D, c, k + 1, A, a + i, a + la)
      BY <2>1, <2>2, <3>1, <3>2, <3>3, Taken DEF i, j, k, la, lb
    <3> QED BY <1>i, <3>4 DEF i, j, k, la, lb, a, b, c
  <2> QED BY <1>3, <1>4, <1>j, <2>3, MergeSwaps
<1>11. MergeNow(A, D, act)
  BY <1>4, <1>8, <1>10 DEF MergeNow
<1>12. MergeNow(Row(mem', act.a[1]), Row(mem', act.c[1]), act)
  BY <1>7, <1>8, <1>11 DEF D, w
<1> QED BY <1>1, <1>2, <1>7, <1>8, <1>12, <1>i, MergeMoveKeeps DEF w, act

-----------------------------------------------------------------------------
(* Parts of rows as functions from 0 on.                                     *)

Where(s, v) == {i \in DOMAIN s : s[i] = v}

\* s is the part of h from lo up to hi
IsPart(s, h, lo, hi) == DOMAIN s = 0..((hi - lo) - 1) /\ \A i \in 0..((hi - lo) - 1) : h[lo + i] = s[i]

LEMMA CountShifts ==
  ASSUME NEW h, NEW s, NEW lo \in Nat, NEW hi \in Nat, IsPart(s, h, lo, hi), NEW v
  PROVE  Count(h, lo, hi, v) = Cardinality(Where(s, v))
<1> DEFINE S == Places(h, lo, hi, v)
           T == Where(s, v)
           g == [x \in S |-> x - lo]
<1>0. DOMAIN s = 0..((hi - lo) - 1) /\ \A i \in 0..((hi - lo) - 1) : h[lo + i] = s[i]
  BY DEF IsPart
<1>1. ASSUME NEW x \in S PROVE x \in Int /\ x - lo \in T
  <2>1. x \in lo..(hi - 1) /\ h[x] = v
    BY DEF Places
  <2>2. x - lo \in 0..((hi - lo) - 1) /\ lo + (x - lo) = x
    BY <2>1
  <2> QED BY <1>0, <2>1, <2>2 DEF Where
<1>2. ASSUME NEW i \in T PROVE lo + i \in S /\ (lo + i) - lo = i
  <2>1. i \in 0..((hi - lo) - 1) /\ s[i] = v
    BY <1>0 DEF Where
  <2>2. lo + i \in lo..(hi - 1) /\ h[lo + i] = v
    BY <1>0, <2>1
  <2> QED BY <2>1, <2>2 DEF Places
<1> HIDE DEF S, T
<1>3. g \in [S -> T]
  BY <1>1
<1>4. \A x, y \in DOMAIN g : g[x] = g[y] => x = y
  BY <1>1
<1>5. \A i \in T : \E x \in S : g[x] = i
  BY <1>2
<1>6. g \in Bijection(S, T)
  BY <1>3, <1>4, <1>5 DEF Bijection, Injection, IsInjective, Surjection
<1>7. ExistsBijection(S, T)
  BY <1>6 DEF ExistsBijection
<1>8. IsFiniteSet(S)
  BY PlacesFinite DEF S
<1>9. Cardinality(T) = Cardinality(S)
  BY <1>7, <1>8, FS_Bijection
<1> QED BY <1>9 DEF S, T, Count

\* What IsSortOf says of two functions, SortOf says of the parts of rows they are.
LEMMA PartSorted ==
  ASSUME NEW h, NEW g, NEW lo \in Nat, NEW hi \in Nat, NEW s, NEW t,
         IsPart(s, h, lo, hi), IsPart(t, g, lo, hi), SortOf(h, g, lo, hi)
  PROVE  IsSortOf(s, t)
<1>1. \A v : /\ Count(h, lo, hi, v) = Cardinality(Where(s, v))
             /\ Count(g, lo, hi, v) = Cardinality(Where(t, v))
  BY CountShifts
<1>2. \A v : Cardinality(Where(s, v)) = Cardinality(Where(t, v))
  BY <1>1 DEF SortOf
<1>3. ASSUME NEW i \in DOMAIN s, NEW j \in DOMAIN s, i <= j PROVE s[i] <= s[j]
  <2>1. i \in 0..((hi - lo) - 1) /\ j \in 0..((hi - lo) - 1)
    BY DEF IsPart
  <2>2. lo + i \in lo..(hi - 1) /\ lo + j \in lo..(hi - 1) /\ lo + i <= lo + j
    BY <1>3, <2>1
  <2>3. h[lo + i] <= h[lo + j]
    BY <2>2 DEF SortOf, Ascending
  <2> QED BY <2>1, <2>3 DEF IsPart
<1> QED BY <1>2, <1>3 DEF IsSortOf, Where

LEMMA RowSorted ==
  ASSUME NEW h, NEW g, NEW lo \in Nat, NEW hi \in Nat, NEW s, NEW t,
         IsPart(s, h, lo, hi), IsPart(t, g, lo, hi), IsSortOf(s, t),
         \A i \in 0..((hi - lo) - 1) : s[i] \in Vals /\ t[i] \in Vals
  PROVE  SortOf(h, g, lo, hi)
<1>1. \A v : /\ Count(h, lo, hi, v) = Cardinality(Where(s, v))
             /\ Count(g, lo, hi, v) = Cardinality(Where(t, v))
  BY CountShifts
<1>d. DOMAIN s = 0..((hi - lo) - 1) /\ DOMAIN t = 0..((hi - lo) - 1)
  BY DEF IsPart
<1>2. Ascending(h, lo, hi)
  <2> SUFFICES ASSUME NEW x \in lo..(hi - 1), NEW y \in lo..(hi - 1), x <= y
               PROVE  h[x] <= h[y]
    BY DEF Ascending
  <2>1. /\ x - lo \in 0..((hi - lo) - 1) /\ y - lo \in 0..((hi - lo) - 1) /\ x - lo <= y - lo
        /\ lo + (x - lo) = x /\ lo + (y - lo) = y
    OBVIOUS
  <2>2. s[x - lo] <= s[y - lo]
    BY <1>d, <2>1 DEF IsSortOf
  <2>3. h[x] = s[x - lo] /\ h[y] = s[y - lo]
    BY <2>1 DEF IsPart
  <2> QED BY <2>2, <2>3
<1>3. ASSUME NEW v PROVE Count(h, lo, hi, v) = Count(g, lo, hi, v)
  <2>1. CASE v \in Vals
    <3>1. Cardinality(Where(s, v)) = Cardinality(Where(t, v))
      BY <2>1 DEF IsSortOf, Where
    <3> QED BY <1>1, <3>1
  <2>2. CASE v \notin Vals
    <3>1. Where(s, v) = {} /\ Where(t, v) = {}
      BY <1>d, <2>2 DEF Where
    <3> QED BY <1>1, <3>1
  <2> QED BY <2>1, <2>2
<1> QED BY <1>2, <1>3 DEF SortOf

-----------------------------------------------------------------------------
(* Returns.                                                                  *)

LEMMA QuicksortKeeps ==
  ASSUME MergesortAssumption, Inv, EP!Nested, EP!UnrelatedDisjoint, Linked, DataOK, NEW p, Quicksort(p)
  PROVE  EP!Nested' /\ Linked' /\ DataOK'
<1> DEFINE f == tasks[p]
           n == f.len
           o == f.a[2]
           hi == o + n
           l == Load(f.a, n)
           w == mem'
           I == Row(mem, f.a[1])
           H == Row(w, f.a[1])
<1>1. /\ At(p, "mergesort", "entry") /\ n <= quick_size /\ Return(p) /\ UNCHANGED <<len, input>>
      /\ TasksOK /\ mem \in [Addresses -> Int] /\ len \in Nat /\ input \in [0..(len - 1) -> Vals]
  BY MergesortAssumption DEF Quicksort, Inv, TypeOK, MergesortAssumption
<1>2. Checked!CheckedReturn(p) /\ w \in [Addresses -> Int]
  <2>1. Addresses' = Addresses
    BY <1>1 DEF Addresses
  <2> QED BY <2>1, QuicksortStep
<1>3. /\ Running(p) /\ p \in DOMAIN tasks /\ f \in Activations /\ f.fn = "mergesort" /\ f.pc = "entry"
      /\ f.a \in Pointers /\ f.b \in Pointers /\ n \in Nat /\ o \in Nat /\ hi \in Nat /\ hi <= len
      /\ ActOK(f, len)
  BY <1>1, SortFrame DEF Running, Pointers, SortOK, Fits, TasksOK
<1>4. f.b[2] = o /\ Alike(input, I, o, hi)
  BY <1>3 DEF DataOK, Now, SortNow
<1>5. /\ Eff(f, "write") = Cells(f.a, n) \cup Cells(f.b, n) /\ Cells(f.a, n) \subseteq Addresses
  BY <1>1, <1>3, EffectsInBounds DEF Eff
<1>6. PICK s \in [0..(n - 1) -> Vals] : IsSortOf(s, l) /\ w = Stored(f.a, n, s)
  BY DEF Quicksort
<1>7. ASSUME NEW i \in 0..(n - 1)
      PROVE  /\ Plus(f.a, i) \in Cells(f.a, n) /\ Plus(f.a, i) \in Addresses /\ i \in Nat
             /\ Plus(f.a, i)[2] - o = i
  BY <1>3, <1>5, CellIn DEF Plus
<1>8. SameCells(mem, w, Addresses \ Eff(f, "write"))
  BY <1>1, <1>5, <1>6 DEF SameCells, Stored
<1> DEFINE N == 0..((hi - o) - 1)
<1>9. N = 0..(n - 1)
  BY <1>3
<1>10. IsPart(s, H, o, hi)
  <2>1. ASSUME NEW i \in 0..(n - 1) PROVE H[o + i] = s[i]
    <3>1. w[Plus(f.a, i)] = s[i]
      BY <1>1, <1>6, <1>7 DEF Stored
    <3>2. w[Plus(f.a, i)] = H[o + i]
      BY <1>2, <1>3, <1>7, RowAt
    <3> QED BY <3>1, <3>2
  <2>2. DOMAIN s = 0..(n - 1)
    OBVIOUS
  <2> QED BY <1>9, <2>1, <2>2 DEF IsPart
<1>11. ASSUME NEW i \in 0..(n - 1) PROVE l[i] = input[o + i] /\ l[i] \in Vals
  <2>1. l[i] = mem[Plus(f.a, i)]
    BY DEF Load
  <2>2. mem[Plus(f.a, i)] = I[o + i]
    BY <1>1, <1>3, <1>7, RowAt
  <2>3. o + i \in o..(hi - 1) /\ o + i \in 0..(len - 1)
    <3>1. n \in Nat /\ o \in Nat /\ hi = o + n /\ hi <= len /\ len \in Nat
      BY <1>1, <1>3
    <3> HIDE DEF n, o, hi
    <3> QED BY <3>1
  <2>4. input[o + i] = I[o + i]
    BY <1>4, <2>3 DEF Alike
  <2> QED BY <1>1, <2>1, <2>2, <2>3, <2>4
<1>12. IsPart(l, input, o, hi)
  <2>1. DOMAIN l = 0..(n - 1)
    BY DEF Load
  <2> QED BY <1>9, <1>11, <2>1 DEF IsPart
<1>13. SortOf(H, input, o, hi)
  <2>1. \A i \in 0..((hi - o) - 1) : s[i] \in Vals /\ l[i] \in Vals
    BY <1>9, <1>11
  <2> HIDE DEF H, l, o, hi
  <2> QED BY <1>3, <1>6, <1>10, <1>12, <2>1, RowSorted
<1>14. Done(w, input, f)
  <2>1. ~(f.len > quick_size)
    BY <1>1, <1>3, MergesortAssumption DEF MergesortAssumption
  <2> QED BY <1>3, <1>4, <1>13, <2>1 DEF Done, SortDone
<1> QED BY <1>1, <1>2, <1>3, <1>8, <1>14, ReturnKeeps

LEMMA ReturnFromKeeps ==
  ASSUME MergesortAssumption, Inv, EP!Nested, EP!UnrelatedDisjoint, Linked, DataOK, NEW p, ReturnFrom(p)
  PROVE  EP!Nested' /\ Linked' /\ DataOK'
<1> DEFINE f == tasks[p]
           A == Row(mem, f.a[1])
           C == Row(mem, f.c[1])
<1>1. UNCHANGED <<len, input, mem>> /\ Return(p) /\ TasksOK /\ mem \in [Addresses -> Int]
  BY DEF ReturnFrom, Inv, TypeOK
<1>2. Checked!CheckedReturn(p)
  BY ReturnFromStep
<1>3. SameCells(mem, mem', Addresses \ Eff(f, "write")) /\ mem' \in [Addresses -> Int]
  BY <1>1 DEF SameCells
<1>4. Running(p) /\ Done(mem, input, f)
  <2>1. CASE At(p, "merge", "seq_merge") /\ f.i >= f.lena /\ f.j >= f.lenb
    <3>1. /\ Running(p) /\ f.fn = "merge" /\ f.pc = "seq_merge" /\ f.i = f.lena /\ f.j = f.lenb
      BY <1>1, <2>1, MergeFrame DEF MergeOK
    <3>2. MergeNow(A, C, f)
      BY <2>1, MergeData
    <3> QED BY <3>1, <3>2 DEF MergeNow, Done
  <2>2. CASE At(p, "merge", "return")
    <3>1. /\ Running(p) /\ p \in DOMAIN tasks /\ f.fn = "merge" /\ f.pc = "return"
      BY <1>1, <2>2, MergeFrame DEF Running
    <3>2. MergeNow(A, C, f) /\ ActOK(f, len)
      BY <1>1, <2>2, <3>1, MergeData DEF TasksOK
    <3>3. Calls(f) = PartCalls(f) /\ DOMAIN PartCalls(f) \subseteq Int
      BY <3>1 DEF Calls, PartCalls
    <3>4. \A k \in DOMAIN PartCalls(f) : Done(mem, input, PartCalls(f)[k])
      BY <1>1, <3>1, <3>3, CallsAreDone
    <3>5. f.lo = f.hi /\ SplitAt(A, f) /\ Ascending(A, f.a[2], f.a[2] + f.lena)
      BY <3>1, <3>2 DEF MergeNow
    <3>6. Done(mem, input, f)
      BY <1>1, <3>1, <3>2, <3>4, <3>5, PartsDone
    <3> QED BY <3>1, <3>6
  <2>3. CASE At(p, "mergesort", "return")
    <3>1. /\ Running(p) /\ p \in DOMAIN tasks /\ f \in Activations /\ f.fn = "mergesort" /\ f.pc = "return"
      BY <1>1, <2>3, SortFrame DEF Running
    <3>2. Calls(f) = WholeCalls(f) /\ DOMAIN WholeCalls(f) \subseteq Int
      BY <3>1 DEF Calls, WholeCalls
    <3>3. \A k \in DOMAIN WholeCalls(f) : Done(mem, input, WholeCalls(f)[k])
      BY <1>1, <3>1, <3>2, CallsAreDone
    <3>4. f.b[2] = f.a[2] /\ Halves(Row(mem, f.b[1]), input, f.a[2], f.len)
      BY <3>1 DEF DataOK, Now, SortNow
    <3>5. SortOf(A, input, f.a[2], f.a[2] + f.len)
      BY <3>1, <3>3, <3>4, WholeDone
    <3> QED BY <3>1, <3>4, <3>5 DEF Done, SortDone
  <2> QED BY <2>1, <2>2, <2>3 DEF ReturnFrom
<1>5. Done(mem', input, f)
  BY <1>1, <1>4
<1> QED BY <1>1, <1>2, <1>3, <1>4, <1>5, ReturnKeeps

-----------------------------------------------------------------------------
(* The data invariant, and what it makes of the end of the program.          *)

LEMMA TaskStepKeeps ==
  ASSUME MergesortAssumption, Inv, EP!Nested, EP!UnrelatedDisjoint, Linked, DataOK, NEW p, TaskStep(p)
  PROVE  EP!Nested' /\ Linked' /\ DataOK'
BY QuicksortKeeps, SortQuartersKeeps, MergeHalvesKeeps, MergeWholeKeeps, EnterFindSplitKeeps,
   FindSplitKeeps, MergePartsKeeps, TakeAKeeps, TakeBKeeps, ReturnFromKeeps DEF TaskStep

LEMMA StepKeeps ==
  ASSUME MergesortAssumption, Inv, EP!Nested, EP!UnrelatedDisjoint, Linked, DataOK, [Next]_vars
  PROVE  EP!Nested' /\ Linked' /\ DataOK'
<1>1. CASE \E p \in DOMAIN tasks : TaskStep(p)
  BY <1>1, TaskStepKeeps
<1>2. CASE UNCHANGED <<tasks, len, input, mem>>
  <2>1. EP!Nested'
    BY <1>2 DEF EP!Nested
  <2>2. Linked'
    BY <1>2 DEF Linked, Main
  <2>3. DataOK'
    BY <1>2 DEF DataOK, Main
  <2> QED BY <2>1, <2>2, <2>3
<1>3. CheckSorted \/ UNCHANGED vars => UNCHANGED <<tasks, len, input, mem>>
  BY DEF CheckSorted, vars
<1> QED BY <1>1, <1>2, <1>3 DEF Next

LEMMA InitKeeps ==
  ASSUME MergesortAssumption, Init
  PROVE  EP!Nested /\ Linked /\ DataOK
<1> DEFINE n == len
           I == Row(mem, "in")
<1>1. n \in Nat /\ input \in [0..(n - 1) -> Vals]
  BY DEF Init, MergesortAssumption
<1>2. DOMAIN tasks = {<<>>} /\ tasks[<<>>] = Main
  BY DEF Init, Start, Main
<1>3. EP!Nested
  BY <1>2 DEF EP!Nested, EP!IsStrictPrefix
<1>4. ASSUME NEW p \in DOMAIN tasks, NEW k \in Int PROVE Child(p, k) \notin DOMAIN tasks
  BY <1>2 DEF Child
<1>5. Linked
  BY <1>2, <1>4 DEF Linked, SameCall
<1>6. Alike(input, I, 0, n)
  <2> SUFFICES ASSUME NEW x \in 0..(n - 1) PROVE input[x] = I[x]
    BY DEF Alike
  <2>1. PICK v \in [0..(len - 1) -> OutVals] :
          mem = [y \in Addresses |-> IF y[1] = "in" THEN input[y[2]] ELSE v[y[2]]]
    BY DEF Init
  <2>2. <<"in", x>> \in Addresses
    <3>1. Plus(in, x) = <<"in", x>>
      BY DEF Plus, in
    <3> QED BY <3>1, CellIn DEF Addresses
  <2>3. mem[<<"in", x>>] = input[x] /\ DOMAIN mem = Addresses
    BY <2>1, <2>2
  <2> QED BY <2>2, <2>3 DEF Row
<1>7. in \in Pointers /\ out \in Pointers /\ in[1] = "in" /\ in[2] = 0 /\ out[2] = 0
  BY DEF in, out, Pointers
<1>8. Begins(mem, input, Main)
  BY <1>1, <1>6, <1>7, SortBegins DEF Main
<1>9. DataOK
  BY <1>2, <1>8 DEF DataOK, Begins
<1> QED BY <1>3, <1>5, <1>9

\* Every task has done what its pc says, on the data the input determines.
THEOREM DataKept == Spec => [](EP!Nested /\ Linked /\ DataOK)
<1>1. Init => EP!Nested /\ Linked /\ DataOK
  BY MergesortAssumption, InitKeeps
<1>2. /\ Inv /\ EP!UnrelatedDisjoint
      /\ EP!Nested /\ Linked /\ DataOK
      /\ [Next]_vars
      => (EP!Nested /\ Linked /\ DataOK)'
  BY MergesortAssumption, StepKeeps
<1> QED BY <1>1, <1>2, WellFormed, Disjoint, PTL DEF Spec

\* a part of a block, and the part of the input it is compared with
LEMMA SliceSorted ==
  ASSUME mem \in [Addresses -> Int], len \in Nat, input \in [0..(len - 1) -> Vals],
         NEW ptr \in {in, out}, NEW lo \in Nat, NEW hi \in Nat, hi <= len,
         SortOf(Row(mem, ptr[1]), input, lo, hi)
  PROVE  IsSortOf(Slice(ptr[1], lo, hi), [i \in 0..(hi - lo - 1) |-> input[lo + i]])
<1> DEFINE s == Slice(ptr[1], lo, hi)
           t == [i \in 0..(hi - lo - 1) |-> input[lo + i]]
           h == Row(mem, ptr[1])
<1>1. IsPart(t, input, lo, hi)
  BY DEF IsPart
<1>2. ASSUME NEW i \in 0..((hi - lo) - 1) PROVE s[i] = h[lo + i]
  <2>1. lo + i \in 0..(len - 1) /\ lo + i \in Nat
    OBVIOUS
  <2>2. ptr[2] = 0 /\ Plus(ptr, lo + i) = <<ptr[1], lo + i>>
    BY <2>1 DEF in, out, Plus
  <2>3. <<ptr[1], lo + i>> \in Addresses
    BY <2>1, <2>2, CellIn DEF Addresses
  <2>4. s[i] = mem[<<ptr[1], lo + i>>]
    BY DEF Slice
  <2> QED BY <2>1, <2>3, <2>4 DEF Row
<1>3. IsPart(s, h, lo, hi)
  BY <1>2 DEF IsPart, Slice
<1> HIDE DEF s, t, h
<1>4. IsSortOf(s, t)
  BY <1>1, <1>3, PartSorted DEF h
<1> QED BY <1>4 DEF s, t

\* Whatever the interleaving, the program ends in the one memory the input
\* determines: for every length, every contents and every threshold.
THEOREM SortIsDeterministic == Spec => []Deterministic
<1>1. Inv /\ DataOK => Deterministic
  <2> SUFFICES ASSUME Inv, DataOK, DOMAIN tasks = {}
               PROVE  LET h == 2 * (len \div 4)
                          half(lo, hi) == [i \in 0..(hi - lo - 1) |-> input[lo + i]]
                      IN /\ IsSortOf(Slice("in", 0, len), input)
                         /\ len > quick_size => /\ IsSortOf(Slice("out", 0, h), half(0, h))
                                                /\ IsSortOf(Slice("out", h, len), half(h, len))
    BY DEF Deterministic
  <2> DEFINE h == 2 * (len \div 4)
             half(lo, hi) == [i \in 0..(hi - lo - 1) |-> input[lo + i]]
  <2>1. mem \in [Addresses -> Int] /\ len \in Nat /\ input \in [0..(len - 1) -> Vals]
    BY MergesortAssumption DEF Inv, TypeOK, MergesortAssumption
  <2>2. /\ in[1] = "in" /\ out[1] = "out" /\ in[2] = 0
    BY DEF in, out
  <2>3. /\ SortOf(Row(mem, in[1]), input, 0, len)
        /\ len > quick_size => Halves(Row(mem, out[1]), input, 0, len)
    <3>1. Done(mem, input, Main)
      BY DEF DataOK
    <3>2. Main.fn = "mergesort" /\ Main.a = in /\ Main.b = out /\ Main.len = len
      BY DEF Main, SortCall
    <3>3. SortDone(Row(mem, in[1]), Row(mem, out[1]), input, Main)
      BY <3>1, <3>2 DEF Done
    <3>4. 0 + len = len
      BY <2>1
    <3> QED BY <2>2, <3>2, <3>3, <3>4 DEF SortDone
  <2>4. h \in Nat /\ h <= len
    BY <2>1, QuarterBounds
  <2>5. IsSortOf(Slice("in", 0, len), input)
    <3>1. IsSortOf(Slice(in[1], 0, len), half(0, len))
      BY <2>1, <2>3, SliceSorted
    <3>2. half(0, len) = input
      <4>1. \A i \in 0..(len - 1) : input[0 + i] = input[i]
        BY <2>1
      <4>2. len - 0 - 1 = len - 1
        BY <2>1
      <4>3. input = [i \in 0..(len - 1) |-> input[i]]
        BY <2>1
      <4> QED BY <4>1, <4>2, <4>3
    <3> QED BY <2>2, <3>1, <3>2
  <2>6. ASSUME len > quick_size
        PROVE  /\ IsSortOf(Slice("out", 0, h), half(0, h))
               /\ IsSortOf(Slice("out", h, len), half(h, len))
    <3>1. SortOf(Row(mem, out[1]), input, 0, h) /\ SortOf(Row(mem, out[1]), input, h, len)
      <4>1. 0 + h = h /\ 0 + len = len
        BY <2>1, <2>4
      <4> QED BY <2>3, <2>6, <4>1 DEF Halves
    <3> HIDE DEF h
    <3>2. IsSortOf(Slice(out[1], 0, h), half(0, h))
      BY <2>1, <2>4, <3>1, SliceSorted
    <3>3. IsSortOf(Slice(out[1], h, len), half(h, len))
      BY <2>1, <2>4, <3>1, SliceSorted
    <3> QED BY <2>2, <3>2, <3>3
  <2> QED BY <2>5, <2>6
<1> QED BY <1>1, WellFormed, DataKept, PTL
=============================================================================
