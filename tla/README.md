# Verification of CSolve: a TLA+ development

CSolve infers liquid types for C programs. It reads a C file (through CIL), infers
where in the store every pointer points, generates *subtyping constraints* over
unknown refinements ("kvars"), and solves them with a fixpoint solver. A program is
reported safe when no constraint is left unsatisfied, so everything CSolve says rests
on that solver (`external/fixpoint`) and its two abstract domains. What it says about
*parallel* programs rests, besides, on the meaning given to the macros of `lib/cpj.h`, on the
checks of effects, and on contracts (`lib/csolve.h`) that are trusted. The
development covers both: the analyser, and the library and the example programs the
analyser is made for (`lib/`, `demo/`), of which CSolve proves memory safety and
determinism and of which the models show what it does not prove: that they compute
what they should, and that they end.

Paths in this file are relative to the repository.

## 1. Inventory

### The analyser

| part | source | state | operations | how it talks to the rest |
|---|---|---|---|---|
| constraint language | external/fixpoint/fixConstraint.ml | none | kvars and predicates of a constraint, `is_simple`, `is_conc_rhs` | called by everything below |
| constraint index, worklist | external/fixpoint/cindex.ml, misc/fcommon.ml | constraints, dependencies, ranks, the table `pend`, a heap, a time stamp | `create`, `slice`, `winit`, `wpush`, `wpop`, `deps` | called by the iteration; ranks come from a graph library |
| heaps | external/misc/heaps.ml | trees, balanced as their tags say | `add`, `maximum`, `remove` | the worklist |
| iteration | external/fixpoint/solve.ml | solution, worklist, counters | `create`, `true_unconstrained`, `acsolve`, `unsat_constraints` | a functor over the domain |
| predicate abstraction | external/fixpoint/predAbs.ml | kvar -> set of qualifiers | `read`, `refine`, `top`, `unsat`, `create` | asks the theorem prover |
| theorem prover | external/fixpoint/tpZ3.ml | declaration tables, a push/pop stack in the prover | `set_filter`, `unsat_core` | calls Z3 |
| index lattice and domain | src/index.ml, src/indexDomain.ml | kvar -> history of indices | `lub`, `glb`, arithmetic; `refine_store` | a second domain of the same solver |
| index solving | src/indexSolver.ml, consindex.ml, scalar.ml | per-function constraints | build, solve, read back | client of the solver |
| constraint simplification | external/fixpoint/Simplification.ml, fixSimplify.ml, kvgraph.ml | kvar graph | elimination, pruning | before `Ci.create` |
| counterexamples, validation, qualifiers | counterexample.ml, prepass.ml, qualifier.ml, ast.ml | traces | replay, checks | around the solver |
| timeouts | external/fixpoint/timeout.ml | two refs shared by two threads | `do_timeout` | its only caller is commented out |
| reference annotations | src/refanno.ml | block -> open locations, with tags | a fixpoint over the CFG, sweeping in place | feeds constraint generation |
| non-aliasing, final fields | src/notAliased.ml, finalFields.ml | block -> sets | fixpoints over the CFG, from above | feed constraint generation, read the annotations |
| store type inference | src/inferctypes.ml, ctypes.ml, sloc.ml, substitution.ml | unifier, store | unify and retry | before constraint generation |
| SSA, guards, simplification of C | src/ssa_transform.ml, guards.ml, psimplify.ml | none | transformations | before everything |
| constraint generation | src/consgen.ml, consInfra.ml, consVisitor.ml, ... | lists of constraints | a walk over the syntax | feeds the solver |
| effect checks | src/consVisitor.ml, fixInterface.ml, effectDecls.ml | none | constraints between the effects of the routines of a block, and with those of the block that dominates it | judge every cobegin and foreach |
| front ends, printers, driver | parsers, `to*.ml`, annots.ml, csolve | files | I/O | |

### The library and the examples

| part | source | state | operations | how it talks to the rest |
|---|---|---|---|---|
| parallel constructs | lib/cpj.h | the memory the routines share | `cobegin`/`rtn`/`coend`, `foreach`/`endfor` | used by the demos, read by the analyser as sequential code |
| contracts and bodies | lib/csolve.h, libcsolve.c | none | `nondet`, `nondetpos`, `nondetnn`, `nondetrange`, `csolve_assert`, `csolve_assume`, the predicates of pointers, the bit operations | linked into programs, their contracts trusted by the analyser |
| merge sort | demo/mergesort.c | two arrays, a task for every call | `mergesort`, `merge`, `seq_merge`, `find_split` | forks through cpj.h |
| array sum | demo/arraysum.c | one array, tasks | `sum1`, `sum2`, `sumBlock`, `sumStride` | forks through cpj.h |
| sum reduce | demo/sumreduce.c | an array from malloc, tasks | `initialize`, `reduce` | forks through cpj.h |
| comma-separated values | demo/csv.c | a line, divided in place, and its fields | dividing, lowercasing | pointers into one block |
| string list | demo/stringlist.c | a heap of strings and list cells | `new_string`, `make_string`, `new_strings`, `init_string`, `string_succ` | pointers into fields |

`PROJECT.json` says for each part what is modelled; under `hazards` it lists what is hard to
test, at the line where it bites. What is hard in the analyser is *order*: a
worklist kept in two data structures, ranks that only guide it, a prover that may
fail, slicing that forgets part of the input, widening that depends on which
constraint comes next, sweeps that update in place what they read, arithmetic at
zero and below. What is hard in the examples is *interleaving* and boundaries: which
part of an array a routine may touch, what must wait for a join, lengths that no
power of two divides, memory that malloc left uninitialised.

## 2. Modules

```
FixConstraint  constraints: guards, occurrences, sides, tags
   |------------- Cindex     dependencies, slicing, ranks, order, roots
   |------------- Domain     the functor parameter and its contract
   |                 \
   |                  Solve  the iteration (EXTENDS Cindex, Domain)
   |                    |--- Chaotic       abstract specification (INSTANCE)
   |------------- PredAbs    domain 1
   |                    \--- SolveProofs   theorems (EXTENDS Solve, PredAbs; D == INSTANCE Domain)
   |------------- IndexDomain domain 2 (EXTENDS Index)
Index          the lattice of bounded congruence classes
   |------------- IndexEval  expressions over indices beside their integers ---- IndexProofs
Heaps          the heap of the worklist
   |------------- PriorityQueue  abstract specification (INSTANCE)
Refanno        concrete locations along a function
   |------------- NotAliased     what cannot alias, on the annotations Refanno leaves
Timeout        do_timeout and its worker

ForkJoin       tasks: calls, cobegin, foreach
   |------------- Effects    the checks of forks ---- EffectsProofs
   |------------- Mergesort  ---- MergesortProofs
   |------------- ArraySum   ---- ArraySumProofs      (EP == INSTANCE EffectsProofs
   |------------- SumReduce  ---- SumReduceProofs      in each of the three)
AnyOrder       what the analysis sees of a parallel block: abstract specification
   |------------- CobeginCode  the code of the macros
   |------------- CobeginRun   the block run in parallel
                       \--- CobeginFollowed  the run, and the code following it
Csolve         the contracts' predicates of pointers
   |------------- Libcsolve  bodies against contracts
   |------------- Csv
StringList

Concurrent     ArraySum, SumReduce, CobeginFollowed, Timeout ---- ConcurrentProofs
Demos          Csv, StringList ---- SequentialProofs (EXTENDS Demos, NotAliased)

MCSolvePred    an instance of the solver over PredAbs; MCSolve adds a second one (G == INSTANCE Solve)
MCIndexEval    an instance of IndexEval; MCIndices adds the solver over IndexDomain
MCConcurrent   an instance of Concurrent
MCSequential   Demos, Libcsolve, Heaps, Refanno with NotAliased
```

**FixConstraint.** A constraint is a record: `guard` (the concrete predicates, which
`non_trivial` separates from the environment), `env`, `lhsP`/`lhsK`, `rhsP`/`rhsK`,
`tag`. Predicates, kvars and substitutions are abstract; a substitution is applied by
a parameter. A tag is a number: the order of tags is all the solver uses.

**Cindex.** Operators on maps from ids to constraints. The SCC numbering is whatever
the graph library returns: every numbering that meets the comment of `scc_rank` is
allowed, and one is chosen nondeterministically. The heap is a set of entries
`<<timestamp, id>>` that gives out a maximum of `WH.compare`; among entries the order
does not tell apart any may come out. That `heaps.ml` is such a queue is what `Heaps` shows.

**Solve.** One action per phase of `create` and `solve` (`Create`, `SliceIndex`,
`RankIndex`, `TrueUnconstrainedKs`, `Winit`, `Iterate`, `Finish`, `TestSolution`,
`Return`). `Iterate` is one whole round of `acsolve`: pop, clear the id in `pend`, refine,
count, and push what is due. `cfreqt` is the key set of `stat_cfreqt`: the code counts how
often each constraint was refined, and the properties use it to speak of the
constraints refined so far (`Taken`). `Settled` are those of them not due again.

**Domain.** `Dom.refine`, `Dom.top`, `Dom.unsat` and what is read of a solution are CONSTANT
operators, as they are the functor's parameter. `DomainContract` is what the
iteration needs of them.

**PredAbs.** A solution binds each kvar to a set of qualifiers. A predicate is what
environments it holds in (`Holds`); the prover proves valid implications, and unless
`ProverComplete` may fail to prove any of them, differently each time it is asked.
`refine` keeps its early returns (no candidates; a contradictory lhs), the syntactic
matches, the shortcut for simple constraints and the counting of copies.

**Index, IndexEval.** Every operator of `index.ml`, with OCaml's division that rounds
towards zero and `mod` that takes the sign of the dividend. `IndexEval` computes an index
and, beside it, the set of integers the same operations yield.

**IndexDomain.** A kvar is bound to its history of indices, the latest first;
`RefineStore` joins, and when the history is full gives up a bound that moved at every
step of it.

**Chaotic.** What the iteration promises, without worklist, ranks or time stamps:
constraints are refined in any order; one counts as settled only while the solution
satisfies it; and the iteration stops only when all it ever took up are settled.
`Solve` implements it under the mapping `Phase`, `Taken`, `Settled`.

**Heaps, PriorityQueue.** A heap is empty or a node, `Same` or `Diff`, whose tag says
whether its subtrees have the same number of elements or the left one has one more. `add`,
`descent`, `extract_last` and `remove` are recursive operators, case by case as in the code. The
abstract queue adds an entry or takes away one that none is above.

**Timeout.** Every access of the shared references and of the lock is an action. The worker
takes the lock to write `ret` and `rd`; `fail` kills it wherever it is, and writes both
without the lock. `Thread.kill` is external: it stops the worker, or raises. What the
prover's thread does before it has its answer is one step, `Compute`, that may never come.

**Refanno.** A function is a record of the predecessors and the instructions of its blocks. The
two actions are one step of a sweep (`annotate_block` on one block, in place) and the end of a
sweep (`soln_diff`). `conc_of_predecessors`, `generalize`, `instantiate` and the cases of `annotate_instr`
are operators. The numbers of tags, which only tell uses apart in `consInfra.ml`, are left
out; whether a location was read or written is kept. `Locs` are the locations, and `RefannoAssumption`
says what a function is: blocks numbered from 0, and instructions that name locations.

**NotAliased.** The second fixpoint, on the annotations the first leaves: `merge_preds` intersects
what holds after the predecessors and keeps what is open *after* the block (the map of
`refanno.ml` it consults is that at the end of the block, so what the block itself closes is lost at
its head: less precise than it could be, and still sound).

**ForkJoin.** `lib/cpj.h` names the calls in progress by the path of forks that leads to
each. A task runs unless it waits for tasks it forked; `Cobegin` adds one for every routine and `Return`
takes one away. A foreach is a `Cobegin` with a routine per index.

**Effects.** What CSolve demands of forks, as a specification: the effects of a routine
are among those of its block, no two routines of a block conflict, and a task between
two forks keeps within its effects.

**Mergesort, ArraySum, SumReduce.** One action per stretch of code of a task between calls
and forks, or per turn of a loop; the effects of a function are those its declaration in the C file gives
(`Eff`). Pointers are a pair of a block and an offset. `quicksort` is external, by its
declared effect: it sorts its part of the array.

**AnyOrder, CobeginCode, CobeginRun, CobeginFollowed.** What the analysis is to see of a block (the routines run
one at a time, in any order and number), the code the macros expand to (at the grain of calls of
`nondet`), and the block run in parallel, load by load and store by store; a routine loads all
it reads before it stores. In `CobeginFollowed` both go together: `order` holds the routines that
have ended and that the code has still to run, and every call of `nondet` and `nondetrange` in the code is
answered so that it runs the first of them. The steps of the code are those of `CobeginCode`, so that what its
macros do not allow (to skip a routine, to go round again, to get the last index) it cannot do.

**Csolve, Libcsolve.** A pointer is an address with the block it was made from, and the contracts are
predicates over it. Integers have `W` bits, and the bit operations are done on two's
complement.

**Csv, StringList.** Sequential C, an action per stretch between loop heads; every access to memory
is through an operator the property `InBounds` looks at. Memory from malloc is `Garbage`.

**MCSolve, MCIndices, Concurrent, Demos, MCSequential.** One variable says which component moves in this behaviour; the
others keep an initial state, so that the state space is the sum of theirs and not the
product. Properties are conjunctions of the components' properties that ask the same question. `Concurrent`
and `Demos` are kept apart from their instances so that theorems can speak of them; `MCSequential` adds to
`Demos` what the proof system cannot read (recursive operators, bit operations).

## 3. What the runs check

| run | module | result |
|---|---|---|
| SolvePred | MCSolve | holds: `TypeOK`, `PendMirrorsWkl`, `SettledSatisfied`, `FinishedAcyclicSatisfied`, `SliceSound`, `SccOrder`, `KeepsFixpoints`, `ImplementsChaotic`; with a prover that fails at will, user dependencies and a cut kvar: `SettledThoughLost`, `ReturnsThoughLost` |
| SolvePredMissed | MCSolvePred | **violated**: `FinishedIsFixpoint` |
| Indices | MCIndices | holds: `LubUpper`, `SubindexIsInclusion`, `CoversStepwise`, `KeepsForm`; of the solver over indices: `SettledCovers`, `GrowthIsWidened`, `UnsatsAreReal`, `IterationEnds` |
| IndexLoses | MCIndexEval | **violated**: `CoversNaturals` |
| IndexGlb | MCIndexEval | **violated**: `GlbLower` |
| Mergesort | Mergesort | holds: `RaceFree`, `InBounds`, `AssertionHolds`, `Deterministic`, `EffectsChecked`, `EndsSorted` |
| Concurrent | MCConcurrent | holds: `RoutinesApart`, `InBounds`, `AsIfSequential`, `Deterministic`, `CodeAgrees`, `ParallelIsAnyOrder`, `AnswersAreFinal`, `RunsEnd` |
| ArraySum2 | MCConcurrent | **violated**: `Sum2IsSum` |
| Sequential | MCSequential | holds: `InBounds`, `FieldsAreTheLine`, `StructuresKept`, `OtherContractsKept`, `ImplementsQueue`, `LocationsStable`, `GreatestNotAliased`, `RunsEnd` |
| LibcsolveRange | MCSequential | **violated**: `NondetrangeKept` |
| LibcsolveAssume | MCSequential | **violated**: `AssumeKept` |
| RefannoStale | MCSequential | **violated**: `Invariant1` |

### The solver

* `PendMirrorsWkl`: the hash table `pend` and the heap agree.
* `SettledSatisfied`: a constraint that was refined and is not due is satisfied by the
  current solution, whatever was refined since. This is what `update_worklist` is for.
  `SettledThoughLost` is the same of the second solver of `MCSolve`, whose prover may give up on any query and whose
  ranks, with dependencies the user added and deleted, are not those of the dependencies it solves along.
* `FinishedAcyclicSatisfied`: at the end, a system without mutual dependencies is
  solved. With them it need not be (`SolvePredMissed`): `winit` pushes one constraint of
  each SCC (the filter on `me.rts` is commented out), and if that one changes nothing
  the others are never looked at. An entry into a loop, which is an SCC of its own,
  normally starts the loop; the counterexample is a loop none of whose entries change
  anything its root reads. `unsat_constraints` tests every constraint that was kept,
  whatever its rhs, so the one that was missed is reported, although another round would
  have satisfied it: an alarm too many, but nothing unsafe is accepted.
* `SliceSound`: when nothing is reported, the solution in which kvars that no kept
  constraint reads are made true satisfies the constraints that were sliced away. TLC checks
  it with the complete prover, the theorem `SlicingSound` covers any.
* `SccOrder`: the order solves SCC after SCC. It needs that no dependency is deleted.
* `KeepsFixpoints`: no round steps below a fixpoint that is below the solution: what is
  inferred is never stronger than necessary, in particular never loses a
  qualifier that could have stayed. Only for a complete prover.
* `ImplementsChaotic`: the refinement above.
* `ReturnsThoughLost`, `IterationEnds`: the solver returns (`Termination`), on predicates and on indices.
* `ImplementsQueue`: the trees of `heaps.ml` are the priority queue `Cindex` takes for
  granted, also among entries of one key. That they keep the balance their tags claim is part of
  `OtherContractsKept`.

### Indices

* `LubUpper`, `SubindexIsInclusion`: `lub` is an upper bound in the order the solver tests,
  and that order is inclusion; `CoversStepwise`, `KeepsForm`: no operator loses an integer or
  breaks the form the comments state. All of these hold of *well-formed indices
  without negative integers and bounds* (`Proper`); two violated runs show
  what happens beyond: a natural number lost through a negative remainder (`IndexLoses`), and a
  glb outside its arguments (`IndexGlb`).
* `SettledCovers`: the same iteration over indices, stated on the integers described.
  `UnsatsAreReal`: what the domain reports does not hold of the integers. It is stated for
  solutions without negative integers: with them a negative remainder meets a modulus, and
  constraints that hold are reported.
* `GrowthIsWidened`: no finite bound gets further than two loops over both kvars can move it
  while a history fills up.

### Fixpoints over a function

* `LocationsStable`: when `annot_iter` stops, annotating a block again opens and closes the same
  locations and leaves the same ones open, although sweeps read blocks that the same sweep
  has not reached. `Invariant1` is the same of the maps with their tags, as `refanno.mli` states
  it, and is **violated**: `soln_diff` compares sizes. In a loop in a loop a location that the inner loop
  writes stays marked as read at the head of the outer one.
  `EntersFirst` says that every block comes after one of its predecessors, if it has any. `cfg_check` would assert that of
  all but the first block, but nothing calls it. TLC checks it of all functions of the runs but `LoopsFirst`, whose first
  statement is a loop. Where it fails the sweeps need not settle: in a function into whose loop a `goto` leads, with
  predecessors none, {0, 2}, {3} and {1} of its four blocks and a read in block 0, block 2 is swept before block 3
  was reached.
* `GreatestNotAliased`: the in-place sweeps of `notAliased.ml` end in the greatest solution, given as
  an independent definition: a pair holds after a block exactly if a set of blocks
  justifies it.

### Threads of the analyser

* `AnswersAreFinal`: once `do_timeout` has returned, no thread is left that uses the prover or changes `ret`,
  and the absence of an answer means the time was up. What `do_timeout` does wait for forever is a worker
  killed inside its critical section: `fail` does not release the lock, and
  `not_done` then waits for it. `RunsEnd` (of `Concurrent`) excludes exactly that.

### Parallel programs

* `EffectsChecked`, `RoutinesApart`: every fork of the demos passes the checks CSolve makes of it.
  `RaceFree` (for the array sums part of `AsIfSequential`): no two tasks are about to touch one
  cell, one of them writing it.
* `InBounds`: no access outside an array, in all demos; `SumReduce` reads nothing malloc left.
  `AssertionHolds`: the loop assertion of `seq_merge`.
* `Deterministic`, `AsIfSequential`, `EndsSorted`: whatever the interleaving, one result, and the right one:
  the sorted array, the sum, what a sequential run leaves.
* `Sum2IsSum` is **violated**: `sumStride` assigns where it should add, so `sum2` returns an element.
* `ParallelIsAnyOrder`: run in parallel, routines that do not conflict do what they would do one at a
  time, each when it ends.
* `CodeAgrees`: the code of the macros, which is what the analysis reads, can do the same. When it has run what
  has ended, it has the memory in which each routine seems to have run at once, and when it has left the block
  the program has, too, and both have the same memory. That it does get there is part of `RunsEnd`: code that
  could not skip a routine, go round again or get an index of the range would run something twice, or never keep up.
* `RunsEnd`: nothing waits for a join for ever.

### Sequential examples and the library

* `FieldsAreTheLine`: the fields partition the line at its commas, empty and last fields
  included, and each of their chars is lowercased, and nothing else.
* `StructuresKept`: `len` is the length of `str` in every string that is made, `string_succ` goes
  to the next cell.
* `NondetrangeKept` and `AssumeKept` are **violated**. `nondetrange (l, u)` returns `l`, which may be negative;
  its contract promises a result of at least 0 and asks only for `l < u`. `csolve_assume (b)` lets every int but 0
  pass; its contract promises that `b = 1`.
* `OtherContractsKept`: what the bodies of `libcsolve.c` return is what their contracts promise, in full and on every int; left out
  are just the calls that break the two above (`nondetrange` from a negative bound, `csolve_assume` of anything but 1). And
  the nodes of the worklist's heap tell the sizes of their subtrees, as `heaps.ml` says of its constructors.

Each property has a mutant in `PROJECT.json`: a definition changed the way a plausible
bug would change the code, under which TLC refutes it. The variants stand in
the modules, each next to the definition it replaces.

### Bounds

* *Systems*: all of up to three constraints from a menu (entry, copy, step under a
  substitution, several occurrences in one rhs, obligation) over two kvars, and
  loops of four. Three constraints suffice for a constraint that is broken by another after
  it was refined, for a cycle with an entry, and for a chain of which the slice drops an end.
  The solver whose prover gives up has one constraint of every kind (`MCSmallSystems`).
* *Predicates*: three qualifiers of which one is contradictory, and a predicate
  that is no qualifier; three environments. Solutions have at most three
  qualifiers per kvar, so a kvar can be refined three times.
* *Starts*: every kvar full, or with one qualifier (a seed solution).
* *Indices*: two operators (`MaxOps`; three in `IndexLoses`) on thirteen operands,
  integers compared within `MCWin`, and for inclusion within `MCWide`, which is longer
  than any bound plus any period. For the solver steps of +4 and -1, the bound of
  Le 7, histories of 5 as in `refine`, and the integers that two loops can reach in two histories (`MCReach`).
* Time stamps are not bounded: they stop with the iteration.
* *Heap* (`MaxSize`): 7 elements, three full levels, so that every case of `extract_last` and
  `descent` meets a subtree of its own; three keys with two entries each and two with one.
* *Functions*: a branch, a loop, a loop in a loop and a loop to begin with, up to six blocks, with at most one instruction per block.
* *Merge sort*: lengths 3, 4, 6 and 7 with `quick_size` 3 and `merge_size` 1, so that the run has
  arrays that are not divided, divided evenly, and with a longer last part, and merges that are forked and
  that are not; two values, so that most arrays have duplicates.
* *Sums*: lengths up to 9 (`ArraySum`, 2 threads, a char of four values so that sums wrap) and up to 7
  (`SumReduce`, `seqLen` below, at and above the halves).
* *Blocks*: four routines, of which one reads what it writes, one reads nothing and one writes nothing;
  `nondet` gives -1, 0 or 1.
* *Lines*: every line of up to five chars; *strings* and lists of up to five; *ints* of five bits; pointers to,
  into, before and beyond a block.

### Fairness

The solver is a single thread that runs until it returns: weak fairness of `Next`, in `MCSolve` and `MCIndices` for
the solver that is asked to return. So are `csv.c`,
`stringlist.c` and the two fixpoints; a call of `libcsolve.c` that has begun is fair, but nothing makes a program
begin one, and nothing pushes on the heap or pops. In the parallel programs it is weak fairness of *some* task's step: a
scheduler that keeps a processor busy, and no more, is enough for them to end. In `Timeout`, time
passes, the caller runs, and the worker gets through its critical section; it need not ever
finish `f x`, nor ever get the lock. The code of the macros, left alone, may run its routines for ever; that the
code that follows a parallel run takes its steps (`CodeStep`) is no assumption about a scheduler: what is asked is
whether answers of `nondet` exist that bring it to the end, and `CobeginFollowed` gives them.

Runs whose system really stops (a demo that has returned) switch the check for
deadlock off.

### What the index runs leave out on purpose

`MCIndices` keeps the loops of one system going one way. With `x + 4` and `x - 1` both
flowing into the same kvar the worklist, which serves the oldest entry first, takes
the two in turn; each raises or lowers its own bound, no bound moves at *every* step of
the history, `count_bounds` never reaches 5, and the solver does not stop. TLC shows
bounds growing past any limit on such a system; as the state space is infinite and no
line of the code promises anything about it, it is recorded as a hazard
(`indexDomain.ml:53`), not as a run.

## 4. What is proved

### The solver

`SolveProofs` proves about `Solve`, for every set of constraints, every solution
space, every ranking the graph library may return and every domain that keeps
`DomainContract`:

| theorem | statement |
|---|---|
| TypeCorrect | `Spec => []TypeOK` |
| PendMirrorsHeap | `Spec => []PendMirrorsWkl` |
| SettledStaySatisfied | `Spec => []SettledSatisfied` |
| SccsInOrder | `Spec => []SccOrder` |
| AcyclicSolved | `Spec => []FinishedAcyclicSatisfied` |
| SlicingSound | `Spec => []SliceSound` |
| FixpointsKept | with `MonotoneContract`: `Spec => KeepsFixpoints` |
| SolveImplementsChaotic | `Spec => ImplementsChaotic` |

`SolveProofs` also proves that predicate abstraction keeps `DomainContract`, whatever the
prover fails to prove (`PredAbsKeepsContract`), and `MonotoneContract` if it is
complete (`PredAbsMonotone`). Together the theorems speak of CSolve's solver as it is
used for refinements.

*Assumptions.* `FixConstraintAssumption`, `DomainAssumption`, `SolveAssumption` (inputs are finite maps from
ids in `CIds` to constraints; starts are solutions), `SolveDomainAssumption` (the contract), and
`PredAbsAssumption` (predicates have extensions, contradictory ones an empty one,
substitution stays among predicates). TLC evaluates all of them in `SolvePred`.

*The argument.* `SettledSatisfied` is not inductive: that a refinement of i breaks only
constraints that are pushed needs the dependencies to be exactly those of the
index (`DepsExact`, which slicing must preserve), and that pushing reaches the heap needs
`PendMirrorsWkl`; before the worklist exists nothing is taken (`Quiet`). `IInv` is the
conjunction. In the step, a settled constraint j either reads nothing i writes, and then
the contract's `StableContract` keeps it, or it is in `DepsToPush`, unless it `IsSolved`, and then
`TrueContract` applies; i itself is satisfied by `SatContract` if it does not read what it
writes, and is among its own dependencies if it does. `SccOrder`, `FinishedAcyclicSatisfied` and
`SliceSound` add invariants of their own on top of `IInv` (that ranks respect the
dependencies; that each SCC has its root taken or pending; that the slice is closed
under predecessors and that kept constraints that are not reported are satisfied).
The invariants were model-checked before they were proved.

### Indices

`IndexProofs` proves about `IndexEval`, for any number of operators applied:

| theorem | statement |
|---|---|
| SubindexSound | if `is_subindex` accepts, what the first index describes the second does, too: for all indices |
| OffsetSound, ScaleSound | sums and products with an integer are described: for all indices |
| IndexTyped | `EvalSpec => []Typed`: bounds stay in order and periods differ from 0 |
| LubIsUpper | `EvalSpec => []LubUpper` |
| OrderIsInclusion | `EvalSpec => []SubindexIsInclusion`, with all integers as the window |
| NothingLost | `EvalSpec => CoversStepwise`, for any window of integers |
| FormIsKept | `EvalSpec => KeepsForm` |

*Assumptions.* "No bound" is no integer. `IndexTyped` takes operands whose lower bound is below the upper one
(`StrictIndices`); the last four take operands that are, besides, `Proper`, that is, of the form the comments of `index.ml` give and
without negative integers or bounds (`ProperIndices`); the operands of the runs are. Beyond that they fail: so
say the two violated runs.

*The argument.* The lemmas treat, from below: OCaml's division (a multiple has remainder 0 on every combination of
signs; a remainder is congruent, and of a natural number it is the only one in range); Euclid's algorithm, whose
recursion is shown to define a function (`RecursExists`, `RecursUnique`), which yields a common divisor and a
combination of its arguments (`GcdOK`), so that `lcm` divides every common multiple; then each operator. `glb`
is the hard one: a shared member leaves one rest modulo the least common multiple (`SharedRest`),
which is the one `search_congruent` finds, and rounding towards zero moves no bound past a member
(`Rounded`). That inclusion implies acceptance needs two members of a class that follow each other (`TwoMembers`) and
members beyond any integer where a bound is missing (`Unbounded`).

### Parallel programs

| module | theorem | statement |
|---|---|---|
| EffectsProofs | EffectsSuffice | a program all of whose forks pass the checks never has two unrelated tasks that conflict |
| MergesortProofs | WellFormed | `Spec => []Inv`, the invariant |
| | TypeCorrect, LoopAssertion, MemorySafe | `Spec => []TypeOK`, `[]AssertionHolds`, `[]InBounds` |
| | ForksChecked | `Spec => EffectsChecked` |
| | NoRace | `Spec => []RaceFree` |
| | DataKept | `Spec => [](EP!Nested /\ Linked /\ DataOK)`, the invariant of the data |
| | SortIsDeterministic | `Spec => []Deterministic` |
| ArraySumProofs | Invariance, DataInvariance | `Spec => []Inv`, `[]DataOK`, the invariants |
| | MemorySafe, ForksChecked, NoRace | `Spec => []InBounds`, `EffectsChecked`, `[]RaceFree` |
| | SumIsSum, PassesAreInOrder | `Spec => []Sum1IsSum`, `[]PassesInOrder` |
| SumReduceProofs | Invariance | `Spec => []Inv`, the invariant |
| | ReduceIsSum, ReadsAreInitialized, ForksChecked | `Spec => []ReducesToSum`, `[]ReadsInitialized`, `EffectsChecked` |
| ConcurrentProofs | BlockDeterministic | `ParSpec => []Deterministic` |
| | ParallelImplementsSeen | `ParSpec => ParallelIsAnyOrder` |
| | BlockStaysInOrder | `Spec => ParallelIsAnyOrder /\ []Deterministic` |
| | CodeStaysInAgreement | `Spec => []CodeAgrees` |
| | ForksApart, MemorySafe, SameAsSequential | `Spec => RoutinesApart`, `[]InBounds`, `[]AsIfSequential` |
| | AnswersStayFinal | `Spec => []AnswersAreFinal` |

`EffectsSuffice` is the argument on which CSolve's claim of determinism rests, for forks nested to any depth: two tasks neither
of which waits for the other descend from two routines of one block, whose effects do not conflict, and
effects only shrink on the way down. It assumes that commuting is symmetric. The merge sort is
an instance of it: for arrays of any length and any thresholds that `MergesortAssumption` allows (`quick_size` at least 3, from the comment in the code,
`merge_size` at least 1) every step of a task is a `CheckedStep`, and hence no interleaving has a race. What the
checks need to know of a task is `ActOK`: the arrays a call works on are in bounds, it writes to another block
than it reads, splits and merge indices are within their arrays.

That every interleaving ends in the one sorted memory (`SortIsDeterministic`) is the longest proof here. The
invariant relates the arrays to the pc of every task. `Now` says what a call in progress has done: its part is as it
was passed, or its quarters are sorted, or its halves, or what is merged so far is no more than what is left. `Done` says what a
call has done that has returned, and its parent relies on it until it goes on. `Linked` says that
each task is one its parent called, with the same arguments; without it a task's return would tell its parent
nothing. A step of one task must spare what the invariant says of all the others, and this is where the effects come
in: unrelated tasks are `EP!UnrelatedDisjoint`, the ones above it only wait, and a call that has returned conflicts with
none of its siblings. "Sorted" is "ascending, and every value occurs as often as in the input" (`SortOf`,
`MergeOf`), and lemmas on counts join two adjoining parts; `quicksort` is external and does what `IsSortOf` says.

The array sums are instances, too, for any array, and any number of threads that `ArraySumAssumption` allows. What they compute needs
an invariant of the data on top of that of the tasks (`DataOK`): a block that has not begun finds its part of the array as
it was passed, a part that has returned has left its sum in its first element, and in `sum2` the array is that of the passes one after the other,
but for the elements some iteration has still to copy. In
`SumReduceProofs` a call of `reduce` that has returned has left the sum of its range in its parent's
temporary, and `reduce` runs only when `initialize` has joined.

`BlockDeterministic` and `ParallelImplementsSeen` are proved for any number of routines that do not
conflict (`CobeginRunAssumption`), whatever they compute. Stores of a routine that has not ended are hidden by the mapping `memBar`; as
nobody else reads them, the routine seems to run at once when it ends. For `CodeStaysInAgreement` the invariant
(`FollowInv`) says that `order` names no routine twice and that the code's memory is the one before the block, but for what the routines it
has run have stored (`Replayed`): what the next one reads in it is then what it read in parallel. That the code gets to
the end is model-checked (`RunsEnd`).

`AnswersStayFinal` assumes that the answer differs from "no answer". Its invariant says that the
lock protects the worker's writes and `not_done`'s read, that `fail` writes only when the worker is gone and
the time is up, and what `rd` says of `ret` at each place of the worker.

### Sequential examples and the fixpoints over a function

`SequentialProofs` proves `DemosSpec => []FieldsAreTheLine` (FieldsPartitionAndLower), `DemosSpec => []InBounds` (MemorySafe) and
`DemosSpec => []StructuresKept` (StructuresStay), for lines of any length with commas anywhere, and strings and lists of
any size (`DemosAssumption`).

For `csv.c` the invariant `CsvInv` chains the fields: they are found from the end of the line, so the last one in
the list begins where the line begins and each begins one past the NUL of the one before it
(`FieldsChained`), what is still to be searched is what precedes the first of them, and of the list of fields a part is
lowercased, one is partly, and the others are as in the input.

For `stringlist.c` the difficulty is the heap, to which every call adds blocks. `Wellformed` says of a heap that every block is an
array, a string or a cell, that a string points to an array of `len` chars none of which is what malloc left, and that the
lengths of the strings of a list descend by one from cell to cell, to 1 at its end. `Keeps` says that one heap extends another: no block is
freed, no length or cell changes, no char that was set is lost. Every step is shown to keep both; `MakingString`, `StringMade` and `Listing` say
what the call in progress has made so far.

Of the fixpoints, `SequentialProofs` proves `NaSpec => []GreatestNotAliased` (NotAliasedIsGreatest) and, under two hypotheses,
`NaSpec => []LocationsStable` (LocationsSettle), for any set of functions that `RefannoAssumption` allows: any graph, any
instructions.

`notAliased.ml` starts from all pairs and sweeps in place. The invariant `NaInv` has two sides. From above: no sweep adds a
pair, since a block's transfer is monotone and what it reads has only shrunk (what a block has is a bound for what the next
sweep makes of it), so that the sweep that changes nothing stops at a solution, and the blocks after which that solution
has a pair justify it. From below: a set of blocks that justifies a pair is never left without it, by any step.

`refanno.ml` compares sizes, and that is right for the locations only because they go one way: after the first sweep,
in which blocks not yet reached are left out of the intersection, what is open after a block only shrinks
(`ConcInv`), and then equally many are the same. This needs that a block is first swept when a predecessor
has been reached, if it has any (`EntersFirst`, which leaves functions that begin with a loop to TLC), and that "not
reached" is no map (`NoneIsNoConc`). Closing and opening within a block is monotone in the locations, though a block that
meets a location under another name closes it first. Tags do not go one way, which is why `Invariant1` fails.

### Only model-checked

Liveness (`ReturnsThoughLost`, `IterationEnds`, `RunsEnd`, `EndsSorted`), which is beyond the prover. What the recursive operators of `heaps.ml`
compute (`ImplementsQueue`) and the bodies of `libcsolve.c` on bits (`OtherContractsKept`): the prover cannot read recursive operators or
`Bitwise`. (The recursive *functions* of the models are dealt with: that Euclid's algorithm and the sums are
defined, and what they compute, is proved through least counterexamples.)
`SettledCovers`, `GrowthIsWidened` and `UnsatsAreReal` of the index domain, which does not keep `DomainContract` for
negative integers, so that the solver's theorems apply to it only where remainders are not
negative.

## 5. What the code does not do as it says

| run | what | where |
|---|---|---|
| SolvePredMissed | one constraint per SCC starts the worklist; in a cycle whose root changes nothing at first another constraint is never refined | external/fixpoint/cindex.ml:358 |
| IndexLoses | OCaml's `mod` keeps the sign of the dividend, remainders are compared by equality, and a natural number is lost | src/index.ml:154 |
| IndexGlb | `glb` rounds the upper bound towards zero, out of an index | src/index.ml:183 |
| ArraySum2 | `sum2` folds by assignment and returns one element | demo/arraysum.c:36 |
| RefannoStale | the fixpoint compares sizes, not tags | src/refanno.ml:250 |
| LibcsolveRange | `nondetrange` returns a negative lower bound, against its contract | lib/libcsolve.c:23 |
| LibcsolveAssume | `csolve_assume` lets any int but 0 pass, its contract says 1 | lib/libcsolve.c:35 |

## 6. Possible extensions

1. *TpZ3*: declaration tables, Barriers and the prover's stack; `set_filter` and `unsat_suffix`
   as sequences of calls, with failures between them.
2. *EliminateK / Kvgraph*: elimination of kvars keeps the solutions of what remains; stale
   lists of readers and writers. `Simplification.simplify_ts` against `make_lives`.
3. *apply_facts, refine_sort, qualifier instantiation* of `predAbs.ml`: the start solution is above every
   fixpoint. The pattern match `index_of_pred`, with the missing case for `x = v`.
4. *FinalFields*: a fixpoint like that of `notAliased.ml`, over fields.
5. *Proofs*: the index domain's contracts on proper indices.

## 7. Not modelled

Parsers, printers and translators to other solvers, the driver scripts, the
annotation files: pure I/O. Constraint generation and the inference of effects: syntax-directed walks whose
difficulty is C's syntax; of effects the models take what is declared. The unification of store types (`inferctypes.ml`): it retries
constraints over the syntax of C types, which is its state. Simplification of constraints, counterexamples: off by
default. SSA and guards: syntactic transformations without state. `demo_test01p.c` is one straight run of five
assignments. Sorts and sort checking, wording and statistics. Z3, CIL, ocamlgraph, `quicksort`, `strnchr`, `tolower` and `malloc`
are external: they appear as what the code relies on. The tables of `tpZ3.ml` change no answer
`PredAbs` assumes of the prover.

Integers of the analyser's models are unbounded, OCaml's have 63 bits; the values reached stay far
below. `SumReduce` assumes lengths whose sum is an int (from 65537 on it overflows, which C leaves
undefined), and `Csv` takes `tolower` as total (of a negative char it is undefined). `nondet` of
`libcsolve.c` is always 0, so that a compiled cobegin runs no routine: what is claimed of the macros is claimed of the code the
analysis reads, where `nondet` is any int (`NondetValues` has 0 and another).
