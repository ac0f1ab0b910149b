-------------------------------- MODULE Domain --------------------------------
(***************************************************************************)
(* The abstract domain solve.ml is a functor over (DOMAIN in fixConfig.ml  *)
(* gives its types only), and the contract between the two: what solve.ml  *)
(* and cindex.ml rely on when they forget about a refined constraint until *)
(* something it reads is written.  SolveProofs shows what follows from it  *)
(* for the iteration, and that predicate abstraction keeps it.             *)
(***************************************************************************)
EXTENDS FixConstraint

CONSTANTS
    Constraints,        \* the constraints that occur in the inputs
    Bind,               \* Dom.bind, what a kvar is mapped to
    DomRefine(_, _),    \* Dom.refine s c: the outcomes [ch, soln]
    DomTop(_, _),       \* Dom.top s ks
    DomUnsat(_, _),     \* Dom.unsat s c: the possible answers
    DomReadsTrue(_, _), \* Dom.read s k = []
    DomSat(_, _),       \* the meaning of "s satisfies the kvars of c's rhs"
    BindLeq(_, _)       \* the direction in which bindings are refined

ASSUME DomainAssumption == Constraints \subseteq Constraint

Soln == [KVar -> Bind]

SolnLeq(s, t) == \A k \in KVar : BindLeq(s[k], t[k])

\* s and t bind every kvar of ks alike.
Agree(s, t, ks) == \A k \in ks : s[k] = t[k]

\* Refinement writes only the kvars of the rhs, only downwards, and says so.
RefineContract ==
    \A s \in Soln, c \in Constraints : \A r \in DomRefine(s, c) :
        /\ r.ch \in BOOLEAN /\ r.soln \in Soln
        /\ Agree(r.soln, s, KVar \ RhsKs(c))
        /\ SolnLeq(r.soln, s)
        /\ ~r.ch => r.soln = s

\* A refinement that leaves what the constraint reads alone satisfies it.
SatContract ==
    \A s \in Soln, c \in Constraints : \A r \in DomRefine(s, c) :
        Agree(r.soln, s, LhsKs(c)) => DomSat(r.soln, c)

\* Satisfaction survives refinements of what the constraint only writes.
StableContract ==
    \A s, t \in Soln, c \in Constraints :
        DomSat(s, c) /\ Agree(s, t, LhsKs(c)) /\ SolnLeq(t, s) => DomSat(t, c)

\* A constraint whose rhs reads as true is satisfied.
TrueContract ==
    \A s \in Soln, c \in Constraints :
        (\A k \in RhsKs(c) : DomReadsTrue(s, k)) => DomSat(s, c)

\* A constraint that is not reported is satisfied.
UnsatContract ==
    \A s \in Soln, c \in Constraints : FALSE \in DomUnsat(s, c) => DomSat(s, c)

\* Dom.top gives up the kvars of ks only, downwards, and asks nothing of a
\* constraint that writes no others.
TopContract ==
    \A s \in Soln, ks \in SUBSET KVar :
        /\ DomTop(s, ks) \in Soln
        /\ Agree(DomTop(s, ks), s, KVar \ ks)
        /\ SolnLeq(DomTop(s, ks), s)
        /\ \A c \in Constraints : RhsKs(c) \subseteq ks => DomSat(DomTop(s, ks), c)

DomainContract ==
    /\ TopContract
    /\ \A s \in Soln, c \in Constraints : DomUnsat(s, c) \subseteq BOOLEAN
    /\ RefineContract
    /\ SatContract
    /\ StableContract
    /\ TrueContract
    /\ UnsatContract

\* Not part of the contract, as a prover that gives up breaks it: a solution f
\* below s that c cannot refine stays below the refinements of s.
MonotoneContract ==
    \A f, s \in Soln, c \in Constraints : \A r \in DomRefine(s, c) :
        SolnLeq(f, s) /\ (\A q \in DomRefine(f, c) : q.soln = f) => SolnLeq(f, r.soln)
===============================================================================
