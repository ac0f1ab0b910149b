------------------------------ MODULE ArraySum ------------------------------
(*****************************************************************************)
(* demo/arraysum.c: "two different methods for computing the sum of an array *)
(* in place in parallel."  sum1 sums the halves of a block in parallel and   *)
(* adds; sum2 folds the upper half of a prefix onto the lower one, THREADS   *)
(* iterations at a time, and halves the prefix.                              *)
(*****************************************************************************)
EXTENDS ForkJoin

CONSTANTS
  THREADS,
  CharValues,     \* of a char, up to its representation: 256
  Inputs          \* arrays to sum: functions from 0..(len - 1)

ArraySumAssumption ==
  /\ THREADS \in Nat \ {0} /\ CharValues \in Nat \ {0}
  /\ \A f \in Inputs : LET n == Cardinality(DOMAIN f)
                       IN  n \in Nat \ {0} /\ f \in [0..(n - 1) -> 0..(CharValues - 1)]

VARIABLES
  method,         \* sum1 or sum2
  input,          \* the array as it was passed (never read by the program)
  a,              \* the array
  result          \* of sum1 or sum2, -1 before it returns

vars == <<tasks, method, input, a, result>>

len == Cardinality(DOMAIN input)

-----------------------------------------------------------------------------
SumBlockCall(i, n) == [fn |-> "sumBlock", pc |-> "entry", i |-> i, len |-> n]

IterationCall(j, stride) == [fn |-> "iteration", j |-> j, stride |-> stride]

At(p, fn) == Running(p) /\ tasks[p].fn = fn

Init ==
  /\ input \in Inputs
  /\ a = input
  /\ method \in {"sum1", "sum2"}
  /\ Start([fn |-> method, pc |-> "entry", len |-> len, stride |-> len \div 2])
  /\ result = -1

(* sum1                                                                      *)

CallSumBlock(p) ==
  /\ At(p, "sum1") /\ tasks[p].pc = "entry"
  /\ Call(p, [tasks[p] EXCEPT !.pc = "return"], SumBlockCall(0, len))
  /\ UNCHANGED <<method, input, a, result>>

\* Faulty variants of SumHalves: the second half starts elsewhere.
SumHalvesFrom(p, start) ==
  LET f == tasks[p]
      hl == f.len \div 2
  IN /\ At(p, "sumBlock") /\ f.pc = "entry" /\ f.len > 1
     /\ Cobegin(p, [f EXCEPT !.pc = "add"],
                <<SumBlockCall(f.i, hl), SumBlockCall(start, f.len - hl)>>)
     /\ UNCHANGED <<method, input, a, result>>

SumHalvesOverlap(p) == SumHalvesFrom(p, tasks[p].i)

SumHalvesBeyond(p) == SumHalvesFrom(p, tasks[p].i + (tasks[p].len \div 2) + 1)

SumHalves(p) ==
  LET f == tasks[p]
      hl == f.len \div 2
  IN /\ At(p, "sumBlock") /\ f.pc = "entry" /\ f.len > 1
     /\ Cobegin(p, [f EXCEPT !.pc = "add"],
                <<SumBlockCall(f.i, hl), SumBlockCall(f.i + hl, f.len - hl)>>)
     /\ UNCHANGED <<method, input, a, result>>

\* Faulty variant of AddHalves: a[i] += a[hl].
AddHalvesOfArray(p) ==
  LET f == tasks[p] IN
  /\ At(p, "sumBlock") /\ f.pc = "add"
  /\ a' = [a EXCEPT ![f.i] = (@ + a[f.len \div 2]) % CharValues]
  /\ Return(p)
  /\ UNCHANGED <<method, input, result>>

\* a[i] += a[i + hl]
AddHalves(p) ==
  LET f == tasks[p] IN
  /\ At(p, "sumBlock") /\ f.pc = "add"
  /\ a' = [a EXCEPT ![f.i] = (@ + a[f.i + (f.len \div 2)]) % CharValues]
  /\ Return(p)
  /\ UNCHANGED <<method, input, result>>

SumNothing(p) ==
  /\ At(p, "sumBlock") /\ tasks[p].pc = "entry" /\ tasks[p].len <= 1
  /\ Return(p)
  /\ UNCHANGED <<method, input, a, result>>

(* sum2 and sumStride: one fork for each stride, and the join                *)

\* Faulty variant of NextStride: foreach (i, 0, THREADS - 1).
NextStrideShort(p) ==
  LET f == tasks[p] IN
  /\ At(p, "sum2") /\ f.stride > 0
  /\ Cobegin(p, [f EXCEPT !.stride = @ \div 2],
             [i \in 0..(THREADS - 2) |-> IterationCall(i, f.stride)])
  /\ UNCHANGED <<method, input, a, result>>

NextStride(p) ==
  LET f == tasks[p] IN
  /\ At(p, "sum2") /\ f.stride > 0
  /\ Cobegin(p, [f EXCEPT !.stride = @ \div 2],
             [i \in 0..(THREADS - 1) |-> IterationCall(i, f.stride)])
  /\ UNCHANGED <<method, input, a, result>>

\* Faulty variant of CopyStride: j++ for j += THREADS.
CopyStrideByOne(p) ==
  LET f == tasks[p] IN
  /\ At(p, "iteration") /\ f.j < f.stride
  /\ a' = [a EXCEPT ![f.j] = a[f.j + f.stride]]
  /\ Continue(p, [f EXCEPT !.j = @ + 1])
  /\ UNCHANGED <<method, input, result>>

\* a[j] = a[j + stride]
CopyStride(p) ==
  LET f == tasks[p] IN
  /\ At(p, "iteration") /\ f.j < f.stride
  /\ a' = [a EXCEPT ![f.j] = a[f.j + f.stride]]
  /\ Continue(p, [f EXCEPT !.j = @ + THREADS])
  /\ UNCHANGED <<method, input, result>>

EndIteration(p) ==
  /\ At(p, "iteration") /\ tasks[p].j >= tasks[p].stride
  /\ Return(p)
  /\ UNCHANGED <<method, input, a, result>>

\* return a[0], of either
ReturnSum(p) ==
  /\ \/ At(p, "sum1") /\ tasks[p].pc = "return"
     \/ At(p, "sum2") /\ tasks[p].stride = 0
  /\ result' = a[0]
  /\ Return(p)
  /\ UNCHANGED <<method, input, a>>

Next == \E p \in DOMAIN tasks :
  \/ CallSumBlock(p) \/ SumHalves(p) \/ AddHalves(p) \/ SumNothing(p)
  \/ NextStride(p) \/ CopyStride(p) \/ EndIteration(p)
  \/ ReturnSum(p)

Spec == Init /\ [][Next]_vars

-----------------------------------------------------------------------------
(* Effects: what a call may touch until it returns.                          *)

Eff(f, e) ==
  CASE f.fn \in {"sum1", "sum2"} -> 0..(f.len - 1)
    [] f.fn = "sumBlock" -> f.i..(f.i + f.len - 1)
    [] f.fn = "iteration" ->
         LET js == {j \in f.j..(f.stride - 1) : (j - f.j) % THREADS = 0}
         IN  IF e = "read" THEN {j + f.stride : j \in js} ELSE js

Checked == INSTANCE Effects WITH
             EffNames <- {"read", "write"}, Commuting <- {<<"read", "read">>}

\* what the next step of a running task reads and writes
NextReads(f) ==
  CASE f.fn = "sumBlock" /\ f.pc = "add" -> {f.i, f.i + (f.len \div 2)}
    [] f.fn = "iteration" /\ f.j < f.stride -> {f.j + f.stride}
    [] OTHER -> {}

NextWrites(f) ==
  CASE f.fn = "sumBlock" /\ f.pc = "add" -> {f.i}
    [] f.fn = "iteration" /\ f.j < f.stride -> {f.j}
    [] OTHER -> {}

-----------------------------------------------------------------------------
(* Properties.                                                               *)

\* No two tasks are ever about to touch the same element, one of them writing
\* it: "CSolve proves the program behaves deterministically" (arraysum.c).
RaceFree ==
  \A p, q \in DOMAIN tasks :
    Running(p) /\ Running(q) /\ p # q =>
      NextWrites(tasks[p]) \cap (NextReads(tasks[q]) \cup NextWrites(tasks[q])) = {}

\* Every access is within the array the contract of sum1 and sum2 asks for:
\* also where len is odd and the halves differ, and with more threads than
\* elements.
InBounds ==
  \A p \in DOMAIN tasks :
    Running(p) => NextReads(tasks[p]) \cup NextWrites(tasks[p]) \subseteq DOMAIN input

\* what the first elements of f add up to
Sums(f) ==
  LET s[k \in 0..Cardinality(DOMAIN f)] == IF k = 0 THEN 0 ELSE s[k - 1] + f[k - 1]
  IN s

Sum(f) == Sums(f)[Cardinality(DOMAIN f)] % CharValues

\* What sum1 returns is the sum of the array it was passed, whatever the
\* interleaving (for chars: modulo the number of their values).
Sum1IsSum == result # -1 /\ method = "sum1" => result = Sum(input)

\* One pass of sum2, in one step.
Pass(f, stride) == [j \in DOMAIN f |-> IF j < stride THEN f[j + stride] ELSE f[j]]

AfterPass(r) ==
  LET half == r.stride \div 2 IN [a |-> Pass(r.a, half), stride |-> half]

\* the array and the stride after the passes one by one
Passes(f) ==
  LET n == Cardinality(DOMAIN f)
      r[k \in 0..n] == IF k = 0 THEN [a |-> f, stride |-> n] ELSE AfterPass(r[k - 1])
  IN r

\* sum2 leaves the array that its passes lead to one after the other, whatever
\* the interleaving of their iterations: none is missed or done twice, and no
\* pass starts before the one before it has ended.
PassesInOrder ==
  result # -1 /\ method = "sum2" => a = Passes(input)[len].a

\* Every fork passes the checks CSolve makes of it: the halves of sumBlock and
\* the iterations of sumStride do not conflict, and stay within the array.
EffectsChecked == Checked!CheckedSpec

\* arraysum.c says that sum2, too, computes the sum of the array.
Sum2IsSum == result # -1 /\ method = "sum2" => result = Sum(input)
=============================================================================
