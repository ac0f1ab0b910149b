------------------------------- MODULE Effects -------------------------------
(*****************************************************************************)
(* What CSolve checks of a parallel program, and what for (the constraints   *)
(* consVisitor.ml and fixInterface.ml generate for parallel blocks).         *)
(*                                                                           *)
(* Every activation has, for each kind of effect, the addresses it may touch *)
(* that way until it returns.  A routine of a cobegin, or an iteration of a  *)
(* foreach, has effects of its own, which must be among those of the block   *)
(* that dominates it, and no two of them may conflict: have an address in    *)
(* common under effects that do not commute.  A program all of whose forks   *)
(* pass has no two running tasks that conflict: it is deterministic.         *)
(*****************************************************************************)
EXTENDS ForkJoin

CONSTANTS
  EffNames,       \* effectDecls.ml: read, write and those declared by pragmas
  Commuting,      \* pairs of them that commute
  Eff(_, _)       \* the addresses an activation touches, by name of effect

NonCommuting == (EffNames \X EffNames) \ Commuting

ConflictFree(f, g) ==
  \A e \in NonCommuting : Eff(f, e[1]) \cap Eff(g, e[2]) = {}

Within(f, g) == \A e \in EffNames : Eff(f, e) \subseteq Eff(g, e)

-----------------------------------------------------------------------------
Forked == DOMAIN tasks' \ DOMAIN tasks

\* the effects of a forked routine are among those of the block it stands in
SubEffects(p) == \A q \in Forked : Within(tasks'[q], tasks[p])

\* the routines forked by one cobegin or foreach do not conflict
SiblingsDisjoint == \A q, r \in Forked : q # r => ConflictFree(tasks'[q], tasks'[r])

\* p goes on, perhaps after forking
CheckedStep(p) ==
  /\ Running(p)
  /\ p \in DOMAIN tasks'
  /\ Within(tasks'[p], tasks[p])
  /\ \A q \in DOMAIN tasks \ {p} : q \in DOMAIN tasks' /\ tasks'[q] = tasks[q]
  /\ \A q \in Forked : q = Child(p, Last(q))
  /\ SubEffects(p)
  /\ SiblingsDisjoint

CheckedReturn(p) == Running(p) /\ Return(p)

CheckedInit == DOMAIN tasks = {<<>>}

CheckedNext == \E p \in DOMAIN tasks : CheckedStep(p) \/ CheckedReturn(p)

CheckedSpec == CheckedInit /\ [][CheckedNext]_tasks

-----------------------------------------------------------------------------
\* Tasks that may run at the same time do not conflict, however the forks
\* interleave: what the check of consVisitor.ml is for.
UnrelatedDisjoint ==
  \A p, q \in DOMAIN tasks : ~Related(p, q) => ConflictFree(tasks[p], tasks[q])
=============================================================================
