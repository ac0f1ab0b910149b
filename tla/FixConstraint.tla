---------------------------- MODULE FixConstraint ----------------------------
(***************************************************************************)
(* Horn constraints over unknown refinements, external/fixpoint/           *)
(* fixConstraint.ml.  A constraint reads                                   *)
(*                                                                         *)
(*     guard /\ environment /\ lhs  |-  rhs                                *)
(*                                                                         *)
(* and a refinement is a conjunction of concrete predicates (Conc p) and   *)
(* occurrences of unknowns under a pending substitution (Kvar (su, k)).    *)
(* Predicates, substitutions and unknowns are opaque: only what the solver *)
(* tells apart is kept.                                                    *)
(***************************************************************************)
EXTENDS Naturals, FiniteSets

CONSTANTS
    KVar,               \* the unknown refinements ("kvars")
    Pred,               \* predicates
    Subst,              \* pending substitutions
    NoSubst,            \* the empty substitution
    SubstPred(_, _),    \* A.substs_pred: a predicate under a substitution
    Tags                \* constraint tags, as numbers in their order

ASSUME FixConstraintAssumption ==
    /\ NoSubst \in Subst
    /\ Tags \subseteq Nat

Occ == Subst \X KVar            \* Kvar (su, k)

(***************************************************************************)
(* guard collects iguard and the concrete part of the environment, which   *)
(* non_trivial moves there; env holds the occurrences left in nontriv.     *)
(* Conc True says nothing, so a concrete rhs is a set of non-tautologies.  *)
(***************************************************************************)
Constraint ==
    [guard : SUBSET Pred, env  : SUBSET Occ,
     lhsP  : SUBSET Pred, lhsK : SUBSET Occ,
     rhsP  : SUBSET Pred, rhsK : SUBSET Occ,
     tag   : Tags]

KVarsOf(occs) == {o[2] : o \in occs}

LhsKs(c) == KVarsOf(c.env \cup c.lhsK)

RhsKs(c) == KVarsOf(c.rhsK)

KVarsOfT(c) == LhsKs(c) \cup RhsKs(c)

IsConcRhs(c) == c.rhsP # {}

(***************************************************************************)
(* is_conc_rhs asserts that a rhs with a concrete atom is all concrete.    *)
(***************************************************************************)
RhsUniform(c) == c.rhsP = {} \/ c.rhsK = {}

(***************************************************************************)
(* Neither the guard nor the environment is looked at.                     *)
(***************************************************************************)
IsSimple(c) ==
    /\ c.lhsP = {} /\ c.rhsP = {}
    /\ \A o \in c.lhsK \cup c.rhsK : o[1] = NoSubst

(***************************************************************************)
(* The predicates occurrences stand for under a reading of the unknowns,   *)
(* and with them the whole left-hand side.                                 *)
(***************************************************************************)
PredsOfOccs(read, occs) ==
    UNION {{SubstPred(p, o[1]) : p \in read[o[2]]} : o \in occs}

PredsOfLhs(read, c) ==
    c.guard \cup c.lhsP \cup PredsOfOccs(read, c.env \cup c.lhsK)

PredsOfRhs(read, c) == c.rhsP \cup PredsOfOccs(read, c.rhsK)
==============================================================================
