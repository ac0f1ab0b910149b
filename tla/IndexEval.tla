------------------------------ MODULE IndexEval ------------------------------
(***************************************************************************)
(* How indices are computed: index_of_expr and index_of_pred of            *)
(* src/index.ml fold operators over an expression or a refinement, one     *)
(* operator at a time.  Beside the index goes the set of integers that it  *)
(* is to describe, as far as they lie in the window Win.                   *)
(***************************************************************************)
EXTENDS Index

CONSTANTS
    Args,       \* the indices of the operands
    Win,        \* the integers looked at
    Wide,       \* a wider window, in which different indices differ
    MaxOps      \* bound: the number of operators applied

VARIABLES
    ix,         \* the index computed so far
    ints,       \* integers it is to describe
    ops         \* operators applied

evalVars == <<ix, ints, ops>>

EvalInit ==
    /\ ix \in Args
    /\ ints = Members(ix, Win)
    /\ ops = 0

Apply(result, image) ==
    /\ ops < MaxOps
    /\ ops' = ops + 1
    /\ ix' = result
    /\ ints' = image \cap Win

ImageOf(F(_, _), a) ==
    UNION {{F(x, y) : y \in Members(a, Win)} : x \in ints}

\* A.Or, A.Ite; A.And and the refinements of a reft
Join(a) == Apply(Lub(ix, a), ints \cup Members(a, Win))
Meet(a) == Apply(Glb(ix, a), ints \cap Members(a, Win))

\* A.Plus, A.Minus, A.Times, A.Div
Add(a) == Apply(Plus(ix, a), LET F(x, y) == x + y IN ImageOf(F, a))
Subtract(a) == Apply(Minus(ix, a), LET F(x, y) == x - y IN ImageOf(F, a))
Multiply(a) == Apply(Mult(ix, a), LET F(x, y) == x * y IN ImageOf(F, a))

Divide(a) ==
    /\ ~(IsInt(ix) /\ a = IInt(0))
    /\ Apply(Div(ix, a),
             UNION {{Quot(x, y) : y \in Members(a, Win) \ {0}} : x \in ints})

\* The cast to an unsigned type, which keeps what is not negative.
Cast == Apply(Unsign(ix), {x \in ints : x >= 0})

\* A.Lt and A.Le, A.Gt and A.Ge
Less(strict) == Apply(Below(strict, ix), {y \in Win : \E x \in ints : y + strict <= x})
Greater(strict) == Apply(Above(strict, ix), {y \in Win : \E x \in ints : y >= x + strict})

Done == ops = MaxOps /\ UNCHANGED evalVars

EvalNext ==
    \/ \E a \in Args : Join(a) \/ Meet(a) \/ Add(a) \/ Subtract(a) \/ Multiply(a) \/ Divide(a)
    \/ Cast
    \/ \E strict \in 0 .. 1 : Less(strict) \/ Greater(strict)
    \/ Done

EvalSpec == EvalInit /\ [][EvalNext]_evalVars
------------------------------------------------------------------------------
\* The index describes every integer it is computed for.
Covers == ints \subseteq Members(ix, Win)

\* What the lattice operators are right about: an index of the form the comments
\* give, without a negative integer or bound.
Proper(i) ==
    /\ WellFormed(i)
    /\ IsInt(i) => i.val >= 0
    /\ IsClass(i) => (i.lb # None => i.lb >= 0)
                    /\ (i.ub # None => i.ub >= 0)

\* No operator loses an integer when it is given a well-formed index.
CoversStepwise == [][Proper(ix) /\ Covers => Covers']_evalVars

\* Every operator but minus leaves a well-formed index.
KeepsForm ==
    [][Proper(ix) /\ (\A a \in Args : ~Subtract(a)) => WellFormed(ix')]_evalVars

\* lub is an upper bound in the order the solver tests, is_subindex, and that
\* order is the inclusion of the integers described.
LubUpper ==
    Proper(ix) =>
      \A a \in Args : IsSubindex(a, Lub(ix, a)) /\ IsSubindex(ix, Lub(ix, a))

SubindexIsInclusion ==
    Proper(ix) =>
      \A a \in Args : IsSubindex(a, ix) <=> Members(a, Wide) \subseteq Members(ix, Wide)

\* doc/insrc-annots.org: "The index annotations are GLB'd together to get the
\* type's index": what is left are integers that both indices describe.
GlbLower ==
    Proper(ix) =>
      \A a \in Args : Members(Glb(ix, a), Win) \subseteq Members(ix, Win)

\* index.ml, of bounded_congruence_class: "Describes the integers lb <= n <= ub
\* s.t. n = c (mod m)": no natural number the index is computed for gets lost.
CoversNaturals == {k \in ints : k >= 0} \subseteq Members(ix, Win)
===============================================================================
