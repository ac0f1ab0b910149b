-------------------------------- MODULE PredAbs --------------------------------
(***************************************************************************)
(* The predicate abstraction domain, external/fixpoint/predAbs.ml.  A kvar *)
(* is bound to a set of instantiated qualifiers, read as their             *)
(* conjunction; refinement drops the qualifiers a constraint does not      *)
(* justify.                                                                *)
(*                                                                         *)
(* The theorem prover (external, reached through tpZ3.ml) is modelled by   *)
(* what a valid implication is: Holds[p] is the set of environments in     *)
(* which p is true.  It may fail to prove a valid query (Z3.check answers  *)
(* unknown, which unsat takes for no) unless ProverComplete.               *)
(***************************************************************************)
EXTENDS FixConstraint

CONSTANTS
    Env,            \* environments, valuations of the program variables
    Qual,           \* the instantiated qualifiers
    Holds,          \* Holds[p]: where predicate p is true
    Contra,         \* P.is_contra: the predicates that are false by their syntax
    Assm,           \* me.assm: predicates assumed of each kvar
    ProverComplete  \* the prover proves every valid query

ASSUME PredAbsAssumption ==
    /\ Qual \subseteq Pred
    /\ Holds \in [Pred -> SUBSET Env]
    /\ Contra \subseteq Pred
    /\ \A p \in Contra : Holds[p] = {}
    /\ Assm \in [KVar -> SUBSET Pred]
    /\ ProverComplete \in BOOLEAN
    /\ \A k \in KVar, u \in Subst : \A p \in Qual \cup Assm[k] : SubstPred(p, u) \in Pred

Binding == SUBSET Qual

Solution == [KVar -> Binding]

(***************************************************************************)
(* read: the assumption about k and the qualifiers left to it.             *)
(***************************************************************************)
Read(s) == [k \in KVar |-> Assm[k] \cup s[k]]

Models(ps) == {v \in Env : \A p \in ps : v \in Holds[p]}

Valid(ps, p) == Models(ps) \subseteq Holds[p]

(***************************************************************************)
(* The answers the prover may give to the queries ps |- p, p \in qs.       *)
(***************************************************************************)
Proved(ps, qs) ==
    LET valid == {p \in qs : Valid(ps, p)}
    IN  IF ProverComplete THEN {valid} ELSE SUBSET valid

(***************************************************************************)
(* The candidates of the rhs: an occurrence and a qualifier of its kvar.   *)
(***************************************************************************)
RhsCands(s, c) == {x \in c.rhsK \X Qual : x[2] \in s[x[1][2]]}

PredOf(x) == SubstPred(x[2], x[1][1])

(***************************************************************************)
(* p_update with group_ks_kqs: if a kvar occurs several times, a qualifier *)
(* stays only if it was kept for every occurrence.  update compares        *)
(* lengths: the solution changed if a qualifier was dropped.               *)
(***************************************************************************)
PUpdate(s, c, kept) ==
    LET s2 == [k \in KVar |->
                 IF k \in RhsKs(c)
                 THEN {q \in s[k] : \A o \in c.rhsK : o[2] = k => <<o, q>> \in kept}
                 ELSE s[k]]
    IN  [ch |-> s2 # s, soln |-> s2]

\* Faulty variant of Refine: a contradictory lhs justifies nothing.
RefineDropsOnContra(s, c) ==
    LET lps   == PredsOfLhs(Read(s), c)
        cands == RhsCands(s, c)
    IN  IF cands = {} THEN {[ch |-> FALSE, soln |-> s]}
        ELSE IF lps \cap Contra # {} THEN {PUpdate(s, c, {})}
        ELSE {PUpdate(s, c, {x \in cands : PredOf(x) \in lps \/ PredOf(x) \in proved}) :
                proved \in Proved(lps, {PredOf(x) : x \in cands})}

Refine(s, c) ==
    LET lps     == PredsOfLhs(Read(s), c)
        cands   == RhsCands(s, c)
        rcs     == {x \in cands : PredOf(x) \notin Contra}
        matched == {x \in rcs : PredOf(x) \in lps}
        queried == IF IsSimple(c) THEN {} ELSE {PredOf(x) : x \in rcs \ matched}
    IN  IF cands = {} \/ lps \cap Contra # {}
        THEN {[ch |-> FALSE, soln |-> s]}
        ELSE {PUpdate(s, c, matched \cup {x \in rcs : PredOf(x) \in proved}) :
                proved \in Proved(lps, queried)}

Top(s, ks) == [k \in KVar |-> IF k \in ks THEN {} ELSE s[k]]

(***************************************************************************)
(* unsat: one query for the conjunction of the rhs.                        *)
(***************************************************************************)
Unsat(s, c) ==
    LET lps == PredsOfLhs(Read(s), c)
    IN  IF Models(lps) \subseteq Models(PredsOfRhs(Read(s), c))
        THEN {FALSE} \cup (IF ProverComplete THEN {} ELSE {TRUE})
        ELSE {TRUE}

ReadsTrue(s, k) == Read(s)[k] = {}

(***************************************************************************)
(* s satisfies the kvars of c's rhs: every qualifier left to them follows  *)
(* from the lhs at every occurrence.                                       *)
(***************************************************************************)
Satisfies(s, c) ==
    \A o \in c.rhsK : \A q \in s[o[2]] :
        Valid(PredsOfLhs(Read(s), c), SubstPred(q, o[1]))

Weaker(b, d) == b \subseteq d
===============================================================================
