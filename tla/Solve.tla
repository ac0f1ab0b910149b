-------------------------------- MODULE Solve --------------------------------
(***************************************************************************)
(* The solver's iteration, external/fixpoint/solve.ml, over the worklist   *)
(* of cindex.ml.  Solve.Make is a functor: the module is parameterised by  *)
(* the domain as the functor is.  PredAbs and IndexDomain are the domains  *)
(* of the code, and module Domain says what the iteration needs of one.    *)
(***************************************************************************)
EXTENDS Cindex, Domain

CONSTANTS
    CIds,               \* the ids constraints may have
    Systems,            \* the inputs: functions from ids to constraints
    Starts,             \* the solutions Dom.create may return
    Sliced,             \* the -slice flag
    TrueUnconstrained   \* the -true_unconstrained flag

ASSUME SolveAssumption ==
    /\ CIds \subseteq Nat
    /\ \A cm \in Systems : /\ DOMAIN cm \subseteq CIds
                           /\ cm \in [DOMAIN cm -> Constraints]
                           /\ IsFiniteSet(DOMAIN cm)
    /\ Starts \subseteq Soln
    /\ Sliced \in BOOLEAN /\ TrueUnconstrained \in BOOLEAN

------------------------------------------------------------------------------
VARIABLES
    pc,         \* where solve is
    cs,         \* the constraints given to create
    cnst,       \* me.cnst: the constraints solved, a slice of cs
    depm,       \* me.depm and me.rdeps: their dependencies
    rnkm,       \* me.rnkm: their ranks
    pend,       \* me.pend: ids recorded as being in the worklist
    timestamp,  \* the counter of wpush
    wkl,        \* the worklist's entries <<timestamp, id>>
    soln,       \* the solution
    cfreqt,     \* the keys <<id, ch>> of stat_cfreqt
    unsats      \* the constraints reported unsatisfied

index == <<cs, cnst, depm, rnkm>>
work  == <<pend, timestamp, wkl>>
vars  == <<pc, index, work, soln, cfreqt, unsats>>

Phases == {"create", "slice", "rank", "true", "winit", "acsolve", "test", "done"}

Init ==
    /\ pc = "create"
    /\ cs \in Systems
    /\ cnst = <<>> /\ depm = <<>> /\ rnkm = <<>>
    /\ pend = {} /\ timestamp = 0 /\ wkl = {}
    /\ soln \in Starts
    /\ cfreqt = {}
    /\ unsats = {}

(***************************************************************************)
(* Ci.create indexes the constraints; Ci.slice restricts constraints and   *)
(* dependencies to the live ones; create_raw ranks what is left.  (With    *)
(* slicing it has ranked everything before: those ranks are discarded.)    *)
(***************************************************************************)
Create ==
    /\ pc = "create"
    /\ cnst' = cs
    /\ depm' = Deps(cs)
    /\ pc' = "slice"
    /\ UNCHANGED <<cs, rnkm, work, soln, cfreqt, unsats>>

\* Faulty variant of SliceIndex: the dependencies are not restricted.
SliceIndexConstraintsOnly ==
    /\ pc = "slice"
    /\ LET ids == IF Sliced THEN Lives(cnst, depm) ELSE DOMAIN cnst
       IN  cnst' = [i \in ids |-> cnst[i]]
    /\ pc' = "rank"
    /\ UNCHANGED <<cs, depm, rnkm, work, soln, cfreqt, unsats>>

SliceIndex ==
    /\ pc = "slice"
    /\ LET ids == IF Sliced THEN Lives(cnst, depm) ELSE DOMAIN cnst
       IN  /\ cnst' = [i \in ids |-> cnst[i]]
           /\ depm' = [i \in ids |-> depm[i] \cap ids]
    /\ pc' = "rank"
    /\ UNCHANGED <<cs, rnkm, work, soln, cfreqt, unsats>>

\* Faulty variant of RankIndex: the user's dependencies are solved along, too.
RankIndexAdjustsDeps ==
    /\ pc = "rank"
    /\ rnkm' \in RankMaps(cnst, depm)
    /\ depm' = AdjustDeps(cnst, depm)
    /\ pc' = "true"
    /\ UNCHANGED <<cs, cnst, work, soln, cfreqt, unsats>>

RankIndex ==
    /\ pc = "rank"
    /\ rnkm' \in RankMaps(cnst, depm)
    /\ pc' = "true"
    /\ UNCHANGED <<cs, cnst, depm, work, soln, cfreqt, unsats>>

UnconstrainedKs(cm) ==
    UNION {KVarsOfT(cm[i]) : i \in DOMAIN cm}
      \ UNION {RhsKs(cm[i]) : i \in DOMAIN cm}

TrueUnconstrainedKs ==
    /\ pc = "true"
    /\ soln' = IF TrueUnconstrained THEN DomTop(soln, UnconstrainedKs(cnst)) ELSE soln
    /\ pc' = "winit"
    /\ UNCHANGED <<index, work, cfreqt, unsats>>

(***************************************************************************)
(* wpush w cs: the timestamp moves even if nothing is added, and ids that  *)
(* are pending keep the entry they have.                                   *)
(***************************************************************************)
WPush(w, p, ids) ==
    /\ timestamp' = timestamp + 1
    /\ wkl' = w \cup {<<timestamp', i>> : i \in ids \ p}
    /\ pend' = p \cup ids

Winit ==
    /\ pc = "winit"
    /\ WPush({}, pend, Roots(rnkm))
    /\ pc' = "acsolve"
    /\ UNCHANGED <<index, soln, cfreqt, unsats>>

IsSolved(s, c) == \A k \in RhsKs(c) : DomReadsTrue(s, k)

\* Faulty variant of DepsToPush: a constraint is not pushed for itself.
DepsToPushNotSelf(s, i) == {j \in depm[i] \ {i} : ~IsSolved(s, cnst[j])}

DepsToPush(s, i) == {j \in depm[i] : ~IsSolved(s, cnst[j])}

\* Faulty variant of Round: pend is not cleared when an entry is given out.
RoundKeepsPend(e, r) ==
    /\ soln' = r.soln
    /\ cfreqt' = cfreqt \cup {<<e[2], r.ch>>}
    /\ \/ r.ch /\ WPush(wkl \ {e}, pend, DepsToPush(r.soln, e[2]))
       \/ ~r.ch /\ wkl' = wkl \ {e} /\ UNCHANGED <<pend, timestamp>>

\* Faulty variant of Round: the entry given out stays in the heap.
RoundKeepsEntry(e, r) ==
    /\ soln' = r.soln
    /\ cfreqt' = cfreqt \cup {<<e[2], r.ch>>}
    /\ \/ r.ch /\ WPush(wkl, pend \ {e[2]}, DepsToPush(r.soln, e[2]))
       \/ ~r.ch /\ pend' = pend \ {e[2]} /\ UNCHANGED <<wkl, timestamp>>

(***************************************************************************)
(* One round of acsolve: the heap gives out entry e, Dom.refine answers r, *)
(* and if the solution changed the constraints that read what was written  *)
(* are pushed.                                                             *)
(***************************************************************************)
Round(e, r) ==
    /\ soln' = r.soln
    /\ cfreqt' = cfreqt \cup {<<e[2], r.ch>>}
    /\ \/ /\ r.ch
          /\ WPush(wkl \ {e}, pend \ {e[2]}, DepsToPush(r.soln, e[2]))
       \/ /\ ~r.ch
          /\ wkl' = wkl \ {e}
          /\ pend' = pend \ {e[2]}
          /\ UNCHANGED timestamp

Iterate ==
    /\ pc = "acsolve"
    /\ \E e \in Maxima(rnkm, wkl) : \E r \in DomRefine(soln, cnst[e[2]]) : Round(e, r)
    /\ UNCHANGED <<pc, index, unsats>>

\* Faulty variant of Finish: the iteration may stop early.
FinishEarly ==
    /\ pc = "acsolve"
    /\ pc' = "test"
    /\ UNCHANGED <<index, work, soln, cfreqt, unsats>>

Finish ==
    /\ pc = "acsolve"
    /\ wkl = {}
    /\ pc' = "test"
    /\ UNCHANGED <<index, work, soln, cfreqt, unsats>>

TestSolution ==
    /\ pc = "test"
    /\ unsats' \in {U \in SUBSET DOMAIN cnst :
                      \A i \in DOMAIN cnst : (i \in U) \in DomUnsat(soln, cnst[i])}
    /\ pc' = "done"
    /\ UNCHANGED <<index, work, soln, cfreqt>>

Return == pc = "done" /\ UNCHANGED vars

Next ==
    \/ Create \/ SliceIndex \/ RankIndex \/ TrueUnconstrainedKs \/ Winit
    \/ Iterate \/ Finish \/ TestSolution \/ Return

Spec == Init /\ [][Next]_vars

\* The solver is a single thread that runs until solve returns.
FairSpec == Spec /\ WF_vars(Next)
------------------------------------------------------------------------------
(***************************************************************************)
(* Properties                                                              *)
(***************************************************************************)
Ids == DOMAIN cnst

\* Every variable has its type; in particular the worklist names constraints
\* of the index only, so that get_ref_rank and get_ref_constraint find them.
TypeOK ==
    /\ pc \in Phases
    /\ cs \in [DOMAIN cs -> Constraints]
    /\ DOMAIN cs \subseteq CIds
    /\ Ids \subseteq DOMAIN cs
    /\ cnst \in [Ids -> Constraints]
    /\ depm \in [Ids -> SUBSET Ids]
    /\ pc \notin {"create", "slice", "rank"} => rnkm \in [Ids -> Rank]
    /\ pend \subseteq Ids
    /\ timestamp \in Nat
    /\ wkl \subseteq (1 .. timestamp) \X Ids
    /\ soln \in Soln
    /\ cfreqt \subseteq Ids \X BOOLEAN
    /\ unsats \subseteq Ids

\* me.pend is a hash table kept beside the heap: it holds exactly the ids of
\* the heap's entries, and no id has two entries (wpush, wpop).
PendMirrorsWkl ==
    /\ pend = {e[2] : e \in wkl}
    /\ \A e, f \in wkl : e[2] = f[2] => e = f

\* The constraints refined so far, and those of them not due again.
Taken == {x[1] : x \in cfreqt}
Settled == Taken \ pend

\* update_worklist pushes enough: a constraint that was refined and is not
\* in the worklist is satisfied by the solution, whatever was refined since.
SettledSatisfied == \A i \in Settled : DomSat(soln, cnst[i])

\* When the iteration finishes, no constraint of a system without mutual
\* dependencies is left unsatisfied: each is the root of its SCC (winit).
Finished == pc \in {"test", "done"}

FinishedAcyclicSatisfied ==
    Finished /\ (\A i, j \in Ids : rnkm[i].scc = rnkm[j].scc => i = j)
      => \A i \in Ids : DomSat(soln, cnst[i])

\* slice forgets only what may be forgotten: if nothing is reported, the
\* solution with the kvars no remaining constraint reads made true satisfies
\* every constraint given to create, the dropped ones too.
ReadKs == UNION {LhsKs(cnst[i]) : i \in Ids}

SliceSound ==
    pc = "done" /\ unsats = {}
      => \A i \in DOMAIN cs : DomSat(DomTop(soln, KVar \ ReadKs), cs[i])

\* The ranks make the iteration go through the SCCs in topological order, each
\* solved once: nothing is due in an SCC that comes before that of a
\* constraint already refined.  Deleting dependencies gives that up.
NoDeletions == DelDeps = {} /\ DelSrc = {} /\ DelTgt = {}

SccOrder ==
    NoDeletions =>
      \A i \in Taken, j \in pend : rnkm[j].scc <= rnkm[i].scc

\* The iteration never refines past a fixpoint: a solution below the current
\* one that no constraint can refine stays below it, so that what is found
\* is no stronger than needed (solve.ml, "iterative refinement").
Fixpoint(f) == \A i \in Ids : \A r \in DomRefine(f, cnst[i]) : r.soln = f

KeepsFixpoints ==
    [][pc = "acsolve" =>
         \A f \in Soln :
            SolnLeq(f, soln) /\ ~SolnLeq(f, soln') => ~Fixpoint(f)]_vars

\* solve.ml: "This module implements a fixpoint solver": when the iteration
\* finishes, the solution satisfies every constraint of the index.
FinishedIsFixpoint == Finished => \A i \in Ids : DomSat(soln, cnst[i])

\* solve returns: refinement goes down, and constraints are pushed again
\* only when it did.
Termination == <>(pc = "done")

\* The iteration implements the chaotic iteration of module Chaotic.
Phase == CASE pc = "acsolve" -> "run"
           [] pc \in {"test", "done"} -> "stop"
           [] OTHER -> "start"

Abstract == INSTANCE Chaotic
              WITH Ids <- CIds, phase <- Phase, taken <- Taken, settled <- Settled

ImplementsChaotic == Abstract!Spec
==============================================================================
