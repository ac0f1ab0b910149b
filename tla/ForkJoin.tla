------------------------------- MODULE ForkJoin -------------------------------
(*****************************************************************************)
(* The parallel constructs of lib/cpj.h: cobegin ... coend runs its routines *)
(* in parallel and foreach ... endfor the iterations of its body; both end   *)
(* when all the parts have ended.  The macros expand to sequential code that *)
(* the analysis reads (see CobeginCode); what they stand for is told by the  *)
(* block attributes, and it is modelled here.                                *)
(*                                                                           *)
(* A task is one call in progress.  Its name is the path of forks that leads *)
(* to it, its value the activation: function, arguments, locals, pc.         *)
(*****************************************************************************)
EXTENDS Integers, Sequences, SequencesExt

VARIABLE tasks      \* path -> activation, of the tasks that have not ended

Child(p, i) == Append(p, i)

Related(p, q) == IsPrefix(p, q) \/ IsPrefix(q, p)

\* a task runs unless it waits for the tasks it forked
Running(p) == /\ p \in DOMAIN tasks
              /\ \A q \in DOMAIN tasks : ~IsStrictPrefix(p, q)

-----------------------------------------------------------------------------
(* Steps of task p.                                                          *)

Continue(p, act) == tasks' = [tasks EXCEPT ![p] = act]

\* p goes on as act when all of calls, a function from part to activation, are done
Cobegin(p, act, calls) ==
  tasks' = [q \in DOMAIN tasks \cup {Child(p, i) : i \in DOMAIN calls} |->
              IF q = p THEN act
              ELSE IF q \in DOMAIN tasks THEN tasks[q] ELSE calls[Last(q)]]

\* an ordinary call: nothing else of p runs meanwhile
Call(p, act, callee) == Cobegin(p, act, <<callee>>)

Return(p) == tasks' = [q \in DOMAIN tasks \ {p} |-> tasks[q]]

Start(act) == tasks = [p \in {<<>>} |-> act]
=============================================================================
