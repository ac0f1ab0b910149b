----------------------------- MODULE IndexDomain -----------------------------
(***************************************************************************)
(* The index domain, src/indexDomain.ml.  A kvar is bound to a history of  *)
(* indices, the latest first; a refinement joins the index of the lhs into *)
(* it, and gives up a bound that moved in every step of a full history.    *)
(*                                                                         *)
(* The index of a predicate (index_of_pred) is a parameter: the operators  *)
(* it is computed with are those of module Index.  Guards (apply_grd) are  *)
(* not modelled; neither are pending substitutions, which the domain       *)
(* ignores.                                                                *)
(***************************************************************************)
EXTENDS FixConstraint, Index, Sequences, FiniteSetsExt

CONSTANTS
    PredIndex(_, _),    \* index_of_pred: the index of p, given those of the kvars
    HistoryLen          \* the n of refine_store, 5 in refine

ASSUME IndexDomainAssumption == HistoryLen \in Nat \ {0}

Indices ==
    {Bot} \cup [kind : {"IInt"}, val : Int]
    \cup [kind : {"ICClass"}, lb : Int \cup {None}, ub : Int \cup {None}, c : Int, m : Int]

History == Seq(Indices)

\* read_bind
Current(s) == [k \in KVar |-> Head(s[k])]

(***************************************************************************)
(* count_bounds folds over the whole history: a count reaches its length   *)
(* only if the bound moved, strictly and in one direction, at every step.  *)
(***************************************************************************)
Steps(h) == 1 .. Len(h) - 1

Moves(h, Beyond(_, _), Bound(_)) ==
    \A n \in Steps(h) :
        /\ IsClass(h[n]) /\ IsClass(h[n + 1])
        /\ Bound(h[n]) # None /\ Bound(h[n + 1]) # None
        /\ Beyond(Bound(h[n]), Bound(h[n + 1]))

UpperRises(h) == LET Beyond(a, b) == a > b  Bound(i) == i.ub IN Moves(h, Beyond, Bound)
LowerFalls(h) == LET Beyond(a, b) == a < b  Bound(i) == i.lb IN Moves(h, Beyond, Bound)

Widen(h) ==
    LET i == Head(h)
    IN  MkSequence(i.c, i.m, IF LowerFalls(h) THEN None ELSE i.lb,
                   IF UpperRises(h) THEN None ELSE i.ub)

\* Faulty variant of RefineStore: a count has to exceed the history (ubi > n).
RefineStoreUnwidened(h, i) ==
    LET h2 == <<Lub(i, Head(h))>> \o h
    IN  IF Len(h) < HistoryLen THEN h2 ELSE SubSeq(h2, 1, HistoryLen)

RefineStore(h, i) ==
    LET h2 == <<Lub(i, Head(h))>> \o h
    IN  IF Len(h) < HistoryLen THEN h2
        ELSE <<IF IsClass(Head(h2)) THEN Widen(h2) ELSE Head(h2)>>
               \o SubSeq(h2, 2, HistoryLen)

(***************************************************************************)
(* The index of the lhs: its predicates and kvars, met.                    *)
(***************************************************************************)
LhsIndex(s, c) ==
    FoldSet(Glb, Top, {PredIndex(Current(s), p) : p \in c.lhsP}
                      \cup {Current(s)[o[2]] : o \in c.lhsK})

\* One outcome; the sets of one element only name its parts.
IxRefine(s, c) ==
    LET Joined(h, i) ==
            IF Head(RefineStore(h, i)) = Head(h) THEN h ELSE RefineStore(h, i)
    IN  {[ch |-> t # s, soln |-> t] :
           t \in {[k \in KVar |-> IF k \in RhsKs(c) THEN Joined(s[k], i) ELSE s[k]] :
                    i \in {LhsIndex(s, c)}}}

IxTop(s, ks) == [k \in KVar |-> IF k \in ks THEN <<Top>> ELSE s[k]]

\* A concrete right-hand side is not looked at.
IxSatisfies(s, c) ==
    \A k \in RhsKs(c) : IsSubindex(LhsIndex(s, c), Head(s[k]))

\* Faulty variant of IxUnsat: the subindex is tested the other way round.
IxUnsatSwapped(s, c) ==
    {\E k \in RhsKs(c) : ~IsSubindex(Head(s[k]), LhsIndex(s, c))}

IxUnsat(s, c) == {~IxSatisfies(s, c)}

\* read gives every kvar one predicate, so that none reads as true.
IxReadsTrue(s, k) == FALSE

\* Refinement takes an index up.
IxLeq(h, g) == IsSubindex(Head(g), Head(h))
===============================================================================
