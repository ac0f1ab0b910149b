------------------------------ MODULE Mergesort ------------------------------
(*****************************************************************************)
(* demo/mergesort.c: a merge sort whose recursive sorts, and the two halves  *)
(* of whose merges, run in parallel.  Its header: "CSolve verifies the       *)
(* safety of all memory accesses and the determinism of parallel execution." *)
(*                                                                           *)
(* A step of a task reads and writes a few cells.  RaceFree makes that       *)
(* grain as good as any finer one.                                           *)
(*****************************************************************************)
EXTENDS ForkJoin, FiniteSets

CONSTANTS
  quick_size, merge_size,     \* below them the code is sequential
  Lens,                       \* lengths of the array (buf_len)
  Vals,                       \* what initialize may put into in
  OutVals                     \* ... and into out

ASSUME MergesortAssumption ==
  /\ quick_size \in Nat /\ quick_size >= 3  \* "Need to know that len >= 4"
  /\ merge_size \in Nat /\ merge_size >= 1
  /\ Lens \subseteq Nat
  /\ Vals \subseteq Int /\ OutVals \subseteq Int

VARIABLES
  len,        \* of both arrays
  input,      \* what in was initialized to (never read by the program)
  mem,        \* address -> value
  sorted      \* result of check_sorted

vars == <<tasks, len, input, mem, sorted>>

\* a pointer, and the address it points to: the malloc'ed block and an offset
Plus(ptr, n) == <<ptr[1], ptr[2] + n>>

Cells(ptr, n) == {Plus(ptr, i) : i \in 0..(n - 1)}

in  == <<"in", 0>>
out == <<"out", 0>>

Addresses == Cells(in, len) \cup Cells(out, len)

-----------------------------------------------------------------------------
(* Activations.  find_split and seq_merge are phases of the merge that calls *)
(* them: v, lo and hi belong to the former, i, j and k to the latter.        *)

SortCall(a, b, n) == [fn |-> "mergesort", pc |-> "entry", a |-> a, b |-> b, len |-> n]

MergeCall(a, b, lena, lenb, c) ==
  [fn |-> "merge", pc |-> IF lena <= merge_size THEN "seq_merge" ELSE "entry",
   a |-> a, b |-> b, lena |-> lena, lenb |-> lenb, c |-> c,
   v |-> 0, lo |-> 0, hi |-> lenb, i |-> 0, j |-> 0, k |-> 0]

At(p, fn, pc) == Running(p) /\ tasks[p].fn = fn /\ tasks[p].pc = pc

\* the same values in ascending order
IsSortOf(g, f) ==
  /\ \A i, j \in DOMAIN g : i <= j => g[i] <= g[j]
  /\ \A v \in Vals : Cardinality({i \in DOMAIN g : g[i] = v}) = Cardinality({i \in DOMAIN f : f[i] = v})

Load(ptr, n) == [i \in 0..(n - 1) |-> mem[Plus(ptr, i)]]

Stored(ptr, n, g) ==
  [x \in DOMAIN mem |-> IF x \in Cells(ptr, n) THEN g[x[2] - ptr[2]] ELSE mem[x]]

-----------------------------------------------------------------------------
(* main, up to the call of mergesort.                                        *)

Init ==
  /\ len \in Lens
  /\ input \in [0..(len - 1) -> Vals]
  /\ \E o \in [0..(len - 1) -> OutVals] :
       mem = [x \in Addresses |-> IF x[1] = "in" THEN input[x[2]] ELSE o[x[2]]]
  /\ Start(SortCall(in, out, len))
  /\ sorted = "not_checked"

(* mergesort                                                                 *)

\* quicksort is extern: it has the effect its declaration gives it, and sorts
Quicksort(p) ==
  LET f == tasks[p] IN
  /\ At(p, "mergesort", "entry")
  /\ f.len <= quick_size
  /\ \E g \in [0..(f.len - 1) -> Vals] :
       IsSortOf(g, Load(f.a, f.len)) /\ mem' = Stored(f.a, f.len, g)
  /\ Return(p)
  /\ UNCHANGED <<len, input, sorted>>

\* Faulty variant of SortQuarters: the last part is taken for a half.
SortQuartersLongRest(p) ==
  LET f == tasks[p]
      q == f.len \div 4
  IN /\ At(p, "mergesort", "entry")
     /\ f.len > quick_size
     /\ Cobegin(p, [f EXCEPT !.pc = "quarters_sorted"],
                [i \in 1..4 |-> SortCall(Plus(f.a, (i - 1) * q), Plus(f.b, (i - 1) * q),
                                         IF i = 4 THEN f.len - (q + q) ELSE q)])
     /\ UNCHANGED <<len, input, mem, sorted>>

SortQuarters(p) ==
  LET f == tasks[p]
      q == f.len \div 4
      r == f.len - (q + q + q)
  IN /\ At(p, "mergesort", "entry")
     /\ f.len > quick_size
     /\ Cobegin(p, [f EXCEPT !.pc = "quarters_sorted"],
                <<SortCall(f.a, f.b, q),
                  SortCall(Plus(f.a, q), Plus(f.b, q), q),
                  SortCall(Plus(f.a, 2 * q), Plus(f.b, 2 * q), q),
                  SortCall(Plus(f.a, 3 * q), Plus(f.b, 3 * q), r)>>)
     /\ UNCHANGED <<len, input, mem, sorted>>

\* Faulty variants of MergeHalves: what the second merge takes or writes is wrong.
MergeHalvesTo(p, lenb, c) ==
  LET f == tasks[p]
      q == f.len \div 4
  IN /\ At(p, "mergesort", "quarters_sorted")
     /\ Cobegin(p, [f EXCEPT !.pc = "halves_merged"],
                <<MergeCall(f.a, Plus(f.a, q), q, q, f.b),
                  MergeCall(Plus(f.a, 2 * q), Plus(f.a, 3 * q), q, lenb, c)>>)
     /\ UNCHANGED <<len, input, mem, sorted>>

MergeHalvesShortRest(p) ==
  LET f == tasks[p] q == f.len \div 4
  IN  MergeHalvesTo(p, q, Plus(f.b, 2 * q))

MergeHalvesSameTarget(p) ==
  LET f == tasks[p] q == f.len \div 4
  IN  MergeHalvesTo(p, f.len - (q + q + q), f.b)

MergeHalves(p) ==
  LET f == tasks[p]
      q == f.len \div 4
      h == q + q
      r == f.len - (q + q + q)
  IN /\ At(p, "mergesort", "quarters_sorted")
     /\ Cobegin(p, [f EXCEPT !.pc = "halves_merged"],
                <<MergeCall(f.a, Plus(f.a, q), q, q, f.b),
                  MergeCall(Plus(f.a, h), Plus(f.a, 3 * q), q, r, Plus(f.b, h))>>)
     /\ UNCHANGED <<len, input, mem, sorted>>

MergeWhole(p) ==
  LET f == tasks[p]
      h == 2 * (f.len \div 4)
  IN /\ At(p, "mergesort", "halves_merged")
     /\ Call(p, [f EXCEPT !.pc = "return"],
             MergeCall(f.b, Plus(f.b, h), h, f.len - h, f.a))
     /\ UNCHANGED <<len, input, mem, sorted>>

(* merge                                                                     *)

\* a[ha] is read before find_split is called
EnterFindSplit(p) ==
  LET f == tasks[p] IN
  /\ At(p, "merge", "entry")
  /\ Continue(p, [f EXCEPT !.pc = "find_split", !.v = mem[Plus(f.a, f.lena \div 2)]])
  /\ UNCHANGED <<len, input, mem, sorted>>

\* Faulty variant of FindSplit: the upper half starts at m, not at m + 1.
FindSplitStuck(p) ==
  LET f == tasks[p]
      m == f.lo + ((f.hi - f.lo) \div 2)
  IN /\ At(p, "merge", "find_split")
     /\ f.lo < f.hi
     /\ \/ f.v <= mem[Plus(f.b, m)] /\ Continue(p, [f EXCEPT !.hi = m])
        \/ f.v > mem[Plus(f.b, m)] /\ Continue(p, [f EXCEPT !.lo = m])
     /\ UNCHANGED <<len, input, mem, sorted>>

FindSplit(p) ==
  LET f == tasks[p]
      m == f.lo + ((f.hi - f.lo) \div 2)
  IN /\ At(p, "merge", "find_split")
     /\ f.lo < f.hi
     /\ \/ f.v <= mem[Plus(f.b, m)] /\ Continue(p, [f EXCEPT !.hi = m])
        \/ f.v > mem[Plus(f.b, m)] /\ Continue(p, [f EXCEPT !.lo = m + 1])
     /\ UNCHANGED <<len, input, mem, sorted>>

\* Faulty variant of MergeParts: sb is left out of where the second merge writes.
MergePartsOverlap(p) ==
  LET f == tasks[p]
      ha == f.lena \div 2
      sb == f.hi
  IN /\ At(p, "merge", "find_split")
     /\ f.lo >= f.hi
     /\ Cobegin(p, [f EXCEPT !.pc = "return"],
                <<MergeCall(f.a, f.b, ha, sb, f.c),
                  MergeCall(Plus(f.a, ha), Plus(f.b, sb), f.lena - ha, f.lenb - sb,
                            Plus(f.c, ha))>>)
     /\ UNCHANGED <<len, input, mem, sorted>>

MergeParts(p) ==
  LET f == tasks[p]
      ha == f.lena \div 2
      sb == f.hi
  IN /\ At(p, "merge", "find_split")
     /\ f.lo >= f.hi
     /\ Cobegin(p, [f EXCEPT !.pc = "return"],
                <<MergeCall(f.a, f.b, ha, sb, f.c),
                  MergeCall(Plus(f.a, ha), Plus(f.b, sb), f.lena - ha, f.lenb - sb,
                            Plus(f.c, ha + sb))>>)
     /\ UNCHANGED <<len, input, mem, sorted>>

(* seq_merge: one iteration of one of its three loops                        *)

TakeA(p) ==
  LET f == tasks[p] IN
  /\ At(p, "merge", "seq_merge")
  /\ f.i < f.lena
  /\ f.j < f.lenb => mem[Plus(f.a, f.i)] < mem[Plus(f.b, f.j)]
  /\ mem' = [mem EXCEPT ![Plus(f.c, f.k)] = mem[Plus(f.a, f.i)]]
  /\ Continue(p, [f EXCEPT !.i = @ + 1, !.k = @ + 1])
  /\ UNCHANGED <<len, input, sorted>>

\* Faulty variant of TakeB: c[k] = b[j++].
TakeBForgetsK(p) ==
  LET f == tasks[p] IN
  /\ At(p, "merge", "seq_merge")
  /\ f.j < f.lenb
  /\ f.i < f.lena => mem[Plus(f.a, f.i)] >= mem[Plus(f.b, f.j)]
  /\ mem' = [mem EXCEPT ![Plus(f.c, f.k)] = mem[Plus(f.b, f.j)]]
  /\ Continue(p, [f EXCEPT !.j = @ + 1])
  /\ UNCHANGED <<len, input, sorted>>

TakeB(p) ==
  LET f == tasks[p] IN
  /\ At(p, "merge", "seq_merge")
  /\ f.j < f.lenb
  /\ f.i < f.lena => mem[Plus(f.a, f.i)] >= mem[Plus(f.b, f.j)]
  /\ mem' = [mem EXCEPT ![Plus(f.c, f.k)] = mem[Plus(f.b, f.j)]]
  /\ Continue(p, [f EXCEPT !.j = @ + 1, !.k = @ + 1])
  /\ UNCHANGED <<len, input, sorted>>

ReturnFrom(p) ==
  LET f == tasks[p] IN
  /\ \/ At(p, "merge", "seq_merge") /\ f.i >= f.lena /\ f.j >= f.lenb
     \/ At(p, "merge", "return")
     \/ At(p, "mergesort", "return")
  /\ Return(p)
  /\ UNCHANGED <<len, input, mem, sorted>>

(* main, after the call                                                      *)

CheckSorted ==
  /\ DOMAIN tasks = {}
  /\ sorted = "not_checked"
  /\ sorted' = IF \E i \in 0..(len - 2) : mem[Plus(in, i)] > mem[Plus(in, i + 1)]
               THEN "FALSE" ELSE "TRUE"
  /\ UNCHANGED <<tasks, len, input, mem>>

TaskStep(p) ==
  \/ Quicksort(p) \/ SortQuarters(p) \/ MergeHalves(p) \/ MergeWhole(p)
  \/ EnterFindSplit(p) \/ FindSplit(p) \/ MergeParts(p)
  \/ TakeA(p) \/ TakeB(p) \/ ReturnFrom(p)

Next == (\E p \in DOMAIN tasks : TaskStep(p)) \/ CheckSorted

Spec == Init /\ [][Next]_vars

\* some task that can run does, as on any scheduler that keeps a processor busy
FairSpec == Spec /\ WF_vars(Next)

-----------------------------------------------------------------------------
(* Effects: what a call may touch until it returns.                          *)

Eff(f, e) ==
  IF f.fn = "mergesort" THEN Cells(f.a, f.len) \cup Cells(f.b, f.len)
  ELSE IF e = "read" THEN Cells(f.a, f.lena) \cup Cells(f.b, f.lenb)
  ELSE Cells(f.c, f.lena + f.lenb)

Checked == INSTANCE Effects WITH
             EffNames <- {"read", "write"}, Commuting <- {<<"read", "read">>}

\* what the next step of a running task reads and writes, as the code above does
NextReads(f) ==
  IF f.fn = "mergesort"
  THEN IF f.pc = "entry" /\ f.len <= quick_size THEN Cells(f.a, f.len) ELSE {}
  ELSE CASE f.pc = "entry" -> {Plus(f.a, f.lena \div 2)}
         [] f.pc = "find_split" ->
              IF f.lo < f.hi THEN {Plus(f.b, f.lo + ((f.hi - f.lo) \div 2))} ELSE {}
         [] f.pc = "seq_merge" ->
              {x \in {Plus(f.a, f.i)} : f.i < f.lena} \cup {x \in {Plus(f.b, f.j)} : f.j < f.lenb}
         [] OTHER -> {}

NextWrites(f) ==
  IF f.fn = "mergesort"
  THEN IF f.pc = "entry" /\ f.len <= quick_size THEN Cells(f.a, f.len) ELSE {}
  ELSE IF f.pc = "seq_merge" /\ (f.i < f.lena \/ f.j < f.lenb) THEN {Plus(f.c, f.k)} ELSE {}

-----------------------------------------------------------------------------
(* Properties.                                                               *)

Pointers == {"in", "out"} \X Nat

Activations ==
  [fn : {"mergesort"}, pc : {"entry", "quarters_sorted", "halves_merged", "return"},
   a : Pointers, b : Pointers, len : Nat]
  \cup
  [fn : {"merge"}, pc : {"entry", "find_split", "seq_merge", "return"},
   a : Pointers, b : Pointers, c : Pointers, lena : Nat, lenb : Nat,
   v : Int, lo : Nat, hi : Nat, i : Nat, j : Nat, k : Nat]

\* Every variable has the values its declaration gives it.
TypeOK ==
  /\ len \in Lens
  /\ input \in [0..(len - 1) -> Vals]
  /\ mem \in [Addresses -> Int]
  /\ \A p \in DOMAIN tasks : p \in Seq(Nat) /\ tasks[p] \in Activations
  /\ tasks = [p \in DOMAIN tasks |-> tasks[p]]
  /\ sorted \in {"not_checked", "TRUE", "FALSE"}

\* No two tasks are ever about to touch the same cell, one of them writing it:
\* sorts and merges that run in parallel stay out of each other's way
\* (mergesort.c, "the determinism of parallel execution").
RaceFree ==
  \A p, q \in DOMAIN tasks :
    Running(p) /\ Running(q) /\ p # q =>
      NextWrites(tasks[p]) \cap (NextReads(tasks[q]) \cup NextWrites(tasks[q])) = {}

\* No task is ever about to touch a cell outside the two arrays, however the
\* splits fall and whatever the values (mergesort.c, "the safety of all
\* memory accesses").
InBounds ==
  \A p \in DOMAIN tasks :
    Running(p) => NextReads(tasks[p]) \cup NextWrites(tasks[p]) \subseteq Addresses

\* csolve_assert (k == (i+j)) at the head of the loop of seq_merge.
AssertionHolds ==
  \A p \in DOMAIN tasks :
    At(p, "merge", "seq_merge") => tasks[p].k = tasks[p].i + tasks[p].j

\* The values at offsets from lo up to hi of a block.
Slice(blk, lo, hi) == [i \in 0..(hi - lo - 1) |-> mem[<<blk, lo + i>>]]

\* Whatever the interleaving, the program ends in the one memory the input
\* determines: in is sorted, and out holds its two halves, each sorted,
\* unless the array was so short that out was never touched.
Deterministic ==
  DOMAIN tasks = {} =>
    LET h == 2 * (len \div 4)
        half(lo, hi) == [i \in 0..(hi - lo - 1) |-> input[lo + i]]
    IN /\ IsSortOf(Slice("in", 0, len), input)
       /\ len > quick_size => /\ IsSortOf(Slice("out", 0, h), half(0, h))
                              /\ IsSortOf(Slice("out", h, len), half(h, len))

\* Every fork of the program passes the checks CSolve makes of it: routines
\* stay within the effects of their caller and do not conflict.
EffectsChecked == Checked!CheckedSpec

\* The program ends, and check_sorted finds the array sorted.
EndsSorted == <>(sorted = "TRUE")
=============================================================================
