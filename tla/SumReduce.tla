------------------------------ MODULE SumReduce ------------------------------
(*****************************************************************************)
(* demo/sumreduce.c: an array is initialized in parallel and summed by       *)
(* halves, in parallel as long as they are longer than seqLen.               *)
(*****************************************************************************)
EXTENDS ForkJoin

CONSTANTS
  Lens, SeqLens,      \* what nondetpos may return for len and for seqLen
  INT_MAX,
  Garbage             \* what malloc leaves in memory

SumReduceAssumption ==
  /\ \A n \in Lens \cup SeqLens : n \in Nat /\ n >= 1
  \* longer arrays make result = result + a[i] overflow, which C leaves undefined
  /\ \A n \in Lens : (n * (n - 1)) \div 2 <= INT_MAX
  /\ Garbage \notin Int

VARIABLES
  len, seqLen,
  arr,                \* the block main allocates
  tmp                 \* path -> value of the calls of reduce that have returned

vars == <<tasks, len, seqLen, arr, tmp>>

-----------------------------------------------------------------------------
ReduceCall(i, n) == [fn |-> "reduce", pc |-> "entry", a |-> i, len |-> n, i |-> 0, result |-> 0]

AssignCall(i) == [fn |-> "iteration", i |-> i]

At(p, fn, pc) == Running(p) /\ tasks[p].fn = fn /\ tasks[p].pc = pc

Init ==
  /\ len \in Lens /\ seqLen \in SeqLens
  /\ arr = [i \in 0..(len - 1) |-> Garbage]
  /\ Start([fn |-> "main", pc |-> "initialize", len |-> len])
  /\ tmp = [p \in {} |-> 0]

\* return v, in a call of reduce
ReturnValue(p, v) ==
  /\ Return(p)
  /\ tmp' = [q \in DOMAIN tmp \cup {p} |-> IF q = p THEN v ELSE tmp[q]]

(* initialize                                                                *)

\* Faulty variant of Initialize: foreach (i, 0, len - 1).
InitializeShort(p) ==
  /\ At(p, "main", "initialize")
  /\ Cobegin(p, [tasks[p] EXCEPT !.pc = "reduce"], [i \in 0..(len - 2) |-> AssignCall(i)])
  /\ UNCHANGED <<len, seqLen, arr, tmp>>

Initialize(p) ==
  /\ At(p, "main", "initialize")
  /\ Cobegin(p, [tasks[p] EXCEPT !.pc = "reduce"], [i \in 0..(len - 1) |-> AssignCall(i)])
  /\ UNCHANGED <<len, seqLen, arr, tmp>>

\* a[i] = i
Assign(p) ==
  /\ Running(p) /\ tasks[p].fn = "iteration"
  /\ arr' = [arr EXCEPT ![tasks[p].i] = tasks[p].i]
  /\ Return(p)
  /\ UNCHANGED <<len, seqLen, tmp>>

CallReduce(p) ==
  /\ At(p, "main", "reduce")
  /\ Call(p, [tasks[p] EXCEPT !.pc = "return"], ReduceCall(0, len))
  /\ UNCHANGED <<len, seqLen, arr, tmp>>

(* reduce                                                                    *)

ReduceShort(p) ==
  LET f == tasks[p] IN
  /\ At(p, "reduce", "entry") /\ f.len <= 1
  /\ ReturnValue(p, IF f.len = 0 THEN 0 ELSE arr[f.a])
  /\ UNCHANGED <<len, seqLen, arr>>

\* Faulty variants of ReduceHalves: the parts of the cobegin are others.
ReduceParts(p, calls) ==
  /\ At(p, "reduce", "entry") /\ tasks[p].len > 1 /\ tasks[p].len > seqLen
  /\ Cobegin(p, [tasks[p] EXCEPT !.pc = "join"], calls)
  /\ UNCHANGED <<len, seqLen, arr, tmp>>

ReduceHalvesEven(p) ==
  LET f == tasks[p]
      h == f.len \div 2
  IN ReduceParts(p, <<ReduceCall(f.a, h), ReduceCall(f.a + h, h)>>)

ReduceHalvesBeyond(p) ==
  LET f == tasks[p]
      h == f.len \div 2
  IN ReduceParts(p, <<ReduceCall(f.a, h), ReduceCall(f.a + h + 1, f.len - h)>>)

ReduceHalves(p) ==
  LET f == tasks[p]
      h == f.len \div 2
  IN /\ At(p, "reduce", "entry") /\ f.len > 1 /\ f.len > seqLen
     /\ Cobegin(p, [f EXCEPT !.pc = "join"],
                <<ReduceCall(f.a, h), ReduceCall(f.a + h, f.len - h)>>)
     /\ UNCHANGED <<len, seqLen, arr, tmp>>

\* result = tmp1 + tmp2
JoinHalves(p) ==
  /\ At(p, "reduce", "join")
  /\ ReturnValue(p, tmp[Child(p, 1)] + tmp[Child(p, 2)])
  /\ UNCHANGED <<len, seqLen, arr>>

\* an iteration of the sequential loop: result = result + a[i]
ReduceElement(p) ==
  LET f == tasks[p] IN
  /\ At(p, "reduce", "entry") /\ f.len > 1 /\ f.len <= seqLen
  /\ f.i < f.len
  /\ Continue(p, [f EXCEPT !.i = @ + 1, !.result = @ + arr[f.a + f.i]])
  /\ UNCHANGED <<len, seqLen, arr, tmp>>

\* Faulty variant of ReduceEnd: neither this guard nor the loop's holds at the end.
ReduceEndBeyond(p) ==
  LET f == tasks[p] IN
  /\ At(p, "reduce", "entry") /\ f.len > 1 /\ f.len <= seqLen
  /\ f.i > f.len
  /\ ReturnValue(p, f.result)
  /\ UNCHANGED <<len, seqLen, arr>>

ReduceEnd(p) ==
  LET f == tasks[p] IN
  /\ At(p, "reduce", "entry") /\ f.len > 1 /\ f.len <= seqLen
  /\ f.i >= f.len
  /\ ReturnValue(p, f.result)
  /\ UNCHANGED <<len, seqLen, arr>>

MainReturns(p) ==
  /\ At(p, "main", "return")
  /\ Return(p)
  /\ UNCHANGED <<len, seqLen, arr, tmp>>

Next == \E p \in DOMAIN tasks :
  \/ Initialize(p) \/ Assign(p) \/ CallReduce(p)
  \/ ReduceShort(p) \/ ReduceHalves(p) \/ JoinHalves(p)
  \/ ReduceElement(p) \/ ReduceEnd(p) \/ MainReturns(p)

Spec == Init /\ [][Next]_vars

-----------------------------------------------------------------------------
(* Effects: what a call may touch until it returns.                          *)

Eff(f, e) ==
  CASE f.fn = "main" -> 0..(f.len - 1)
    [] f.fn = "iteration" -> IF e = "write" THEN {f.i} ELSE {}
    [] f.fn = "reduce" -> IF e = "read" THEN f.a..(f.a + f.len - 1) ELSE {}

Checked == INSTANCE Effects WITH
             EffNames <- {"read", "write"}, Commuting <- {<<"read", "read">>}

\* the element the next step of a running call of reduce reads
NextReads(f) ==
  IF f.fn # "reduce" \/ f.pc # "entry" THEN {}
  ELSE IF f.len = 1 THEN {f.a}
  ELSE IF f.len <= seqLen /\ f.i < f.len THEN {f.a + f.i} ELSE {}

-----------------------------------------------------------------------------
(* Properties.                                                               *)

\* reduce reads no element outside the array, whatever len and seqLen, and
\* none that initialize has not written: the join of the foreach comes first.
ReadsInitialized ==
  \A p \in DOMAIN tasks :
    Running(p) => \A i \in NextReads(tasks[p]) : i \in DOMAIN arr /\ arr[i] # Garbage

\* Every fork passes the checks CSolve makes of it: the iterations of
\* initialize do not conflict, and neither do the halves of reduce.
EffectsChecked == Checked!CheckedSpec

\* What the call by main returns is the sum of the array, whatever the
\* interleaving and wherever seqLen stops the forks: the two values a join adds
\* are those of the routines it waited for.
ReducesToSum == <<1>> \in DOMAIN tmp => tmp[<<1>>] = (len * (len - 1)) \div 2
=============================================================================
