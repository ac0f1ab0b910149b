------------------------------ MODULE Concurrent ------------------------------
(*****************************************************************************)
(* What runs concurrently: the demos that sum an array in parallel, a        *)
(* parallel block, followed by the code of its macros, and the threads of    *)
(* do_timeout.  They share nothing: `program` says which of them a behaviour *)
(* is of, and the others keep one of their initial states.                   *)
(*****************************************************************************)
EXTENDS CobeginFollowed

CONSTANTS
  THREADS, CharValues, ArrInputs,             \* of arraysum.c
  Lens, SeqLens, INT_MAX, Garbage,            \* of sumreduce.c
  None, Answer                                \* of do_timeout

VARIABLES
  program,            \* "arraysum", "sumreduce", "parallel" or "timeout"
  tasks, method, input, a, result,
  reduceTasks, len, seqLen, arr, tmp,
  worker, caller, lk, ret, rd, trd, late, answered

arraysum  == <<tasks, method, input, a, result>>
sumreduce == <<reduceTasks, len, seqLen, arr, tmp>>
timeout   == <<worker, caller, lk, ret, rd, trd, late, answered>>
allVars   == <<program, arraysum, sumreduce, followedVars, timeout>>

A == INSTANCE ArraySum WITH Inputs <- ArrInputs

R == INSTANCE SumReduce WITH tasks <- reduceTasks

T == INSTANCE Timeout WITH result <- answered

ASSUME ConcurrentAssumption ==
  /\ A!ArraySumAssumption /\ R!SumReduceAssumption
  /\ Answer # None

-----------------------------------------------------------------------------
Init ==
  /\ program \in {"arraysum", "sumreduce", "parallel", "timeout"}
  /\ A!Init /\ R!Init /\ FollowedInit /\ T!Init

DemoStep ==
  \/ program = "arraysum" /\ A!Next /\ UNCHANGED <<program, sumreduce, followedVars, timeout>>
  \/ program = "sumreduce" /\ R!Next /\ UNCHANGED <<program, arraysum, followedVars, timeout>>

ParallelStep(B) ==
  program = "parallel" /\ B /\ UNCHANGED <<program, arraysum, sumreduce, timeout>>

TimeoutStep(B) ==
  program = "timeout" /\ B /\ UNCHANGED <<program, arraysum, sumreduce, followedVars>>

Next == DemoStep \/ ParallelStep(RunStep) \/ ParallelStep(CodeStep) \/ TimeoutStep(T!Next)

\* Some task, or routine, that can run does, as on any scheduler that keeps a
\* processor busy, and the code that follows the block takes the steps it can; of
\* do_timeout, time passes, the caller runs, and the worker does not stop in its
\* critical section.
Fairness ==
  /\ WF_allVars(DemoStep)
  /\ WF_allVars(ParallelStep(RunStep)) /\ WF_allVars(ParallelStep(CodeStep))
  /\ WF_allVars(TimeoutStep(T!TimeUp)) /\ WF_allVars(TimeoutStep(T!Caller))
  /\ WF_allVars(TimeoutStep(T!WorkerLeaves))

Spec == Init /\ [][Next]_allVars /\ Fairness

-----------------------------------------------------------------------------
\* Every fork of arraysum.c and sumreduce.c passes the checks CSolve makes of
\* it.
RoutinesApart == A!EffectsChecked /\ R!EffectsChecked

\* sumBlock and sumStride stay within the array, odd lengths and more threads
\* than elements included, and reduce reads what initialize has written, and
\* nothing else.
InBounds == A!InBounds /\ R!ReadsInitialized

\* No two tasks of arraysum.c are ever about to touch the same element, one of
\* them writing it; and whatever the interleaving, sum1 and reduce return the sum
\* of the array, wherever seqLen stops the forks, and sum2 leaves the array that
\* its passes lead to one after the other.
AsIfSequential == A!RaceFree /\ A!Sum1IsSum /\ A!PassesInOrder /\ R!ReducesToSum

\* timeout.ml: what do_timeout returns is final.
AnswersAreFinal == T!AnswersAreFinal

\* Everything that runs in parallel ends: no join waits for a routine that never
\* returns, no stride or iteration is repeated for ever, and do_timeout waits
\* for ever only for a worker that was killed while it held the lock.  And the
\* code of the macros can follow a parallel block to its end.
RunsEnd ==
  <>(CASE program = "arraysum"  -> result # -1
       [] program = "sumreduce" -> DOMAIN reduceTasks = {}
       [] program = "parallel"  -> left /\ codeLeft
       [] program = "timeout"   -> T!Ended)

\* arraysum.c, "two different methods for computing the sum of an array in
\* place": sum2 returns the sum of the array, too.
Sum2IsSum == A!Sum2IsSum
===============================================================================
