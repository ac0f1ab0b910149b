----------------------------- MODULE SolveProofs -----------------------------
(***************************************************************************)
(* Theorems about the solver's iteration, for every input, every ranking   *)
(* of the graph library and every domain that keeps its contract; and that *)
(* predicate abstraction is such a domain, whatever the predicates, the    *)
(* qualifiers and the prover's failures.  With a prover that proves every  *)
(* valid query it refines monotonically.                                   *)
(***************************************************************************)
EXTENDS Solve, PredAbs, TLAPS

ASSUME SolveDomainAssumption == DomainContract

LEMMA EmptyIndex == /\ DOMAIN <<>> = {}
                    /\ \A S : <<>> \in [{} -> S]
  OBVIOUS

LEMMA RanksTyped ==
  ASSUME NEW cm, NEW dm, NEW r \in SccRanks(dm)
  PROVE  r \in [DOMAIN dm -> Nat]
  BY DEF SccRanks

LEMMA RankMapsTyped ==
  ASSUME NEW cm, NEW dm, cm \in [DOMAIN cm -> Constraint],
         NEW rk \in RankMaps(cm, dm)
  PROVE  rk \in [DOMAIN cm -> Rank]
<1> DEFINE deps == AdjustDeps(cm, dm)
<1>1. PICK r \in SccRanks(deps) : \E ir \in InnerRanks(cm, deps, r) :
         rk = [i \in DOMAIN cm |->
                   [scc |-> r[i], iscc |-> ir[i], simpl |-> IsSimple(cm[i]),
                    cut |-> Kuts # {} /\ IsCut(cm[i]), tag |-> cm[i].tag]]
  BY DEF RankMaps
<1>2. PICK ir \in InnerRanks(cm, deps, r) :
         rk = [i \in DOMAIN cm |->
                   [scc |-> r[i], iscc |-> ir[i], simpl |-> IsSimple(cm[i]),
                    cut |-> Kuts # {} /\ IsCut(cm[i]), tag |-> cm[i].tag]]
  BY <1>1
<1>3. r \in [DOMAIN cm -> Nat]
  BY DEF AdjustDeps, SccRanks
<1>4. ir \in [DOMAIN cm -> Nat]
  BY <1>3 DEF InnerRanks, SccRanks
<1>5. \A i \in DOMAIN cm : cm[i].tag \in Tags
  BY DEF Constraint
<1>6. \A i \in DOMAIN cm : IsSimple(cm[i]) \in BOOLEAN /\ (Kuts # {} /\ IsCut(cm[i])) \in BOOLEAN
  BY DEF IsSimple, IsCut
<1> QED
  BY <1>2, <1>3, <1>4, <1>5, <1>6 DEF Rank

(***************************************************************************)
(* The inductive invariant.  SettledSatisfied is not inductive alone: that *)
(* enough is pushed depends on depm being the dependencies of the          *)
(* constraints that are left, and on pend telling what is in the heap.     *)
(***************************************************************************)
Quiet ==
    pc \in {"create", "slice", "rank", "true", "winit"} =>
      wkl = {} /\ pend = {} /\ cfreqt = {} /\ unsats = {}

DepsExact == pc # "create" => depm = Deps(cnst)

IInv ==
    /\ TypeOK
    /\ PendMirrorsWkl
    /\ Quiet
    /\ DepsExact
    /\ SettledSatisfied

LEMMA ConstraintKs ==
  ASSUME NEW c \in Constraint
  PROVE  LhsKs(c) \subseteq KVar /\ RhsKs(c) \subseteq KVar
<1>1. c.env \subseteq Subst \X KVar /\ c.lhsK \subseteq Subst \X KVar
      /\ c.rhsK \subseteq Subst \X KVar
  BY DEF Constraint, Occ
<1> QED
  BY <1>1 DEF LhsKs, RhsKs, KVarsOf

LEMMA InitIInv == Init => IInv
<1> SUFFICES ASSUME Init PROVE IInv
  OBVIOUS
<1>1. cs \in [DOMAIN cs -> Constraints] /\ DOMAIN cs \subseteq CIds
  BY SolveAssumption DEF Init
<1>2. Ids = {} /\ cnst \in [Ids -> Constraints] /\ depm \in [Ids -> SUBSET Ids]
  BY EmptyIndex DEF Init, Ids
<1>3. TypeOK
  BY <1>1, <1>2, SolveAssumption DEF Init, TypeOK, Phases
<1> QED
  BY <1>3 DEF Init, IInv, PendMirrorsWkl, Quiet, DepsExact, SettledSatisfied, Settled, Taken

LEMMA RefineFacts ==
  ASSUME NEW s \in Soln, NEW c \in Constraints, NEW r \in DomRefine(s, c)
  PROVE  /\ r.ch \in BOOLEAN /\ r.soln \in Soln
         /\ Agree(r.soln, s, KVar \ RhsKs(c))
         /\ SolnLeq(r.soln, s)
         /\ ~r.ch => r.soln = s
         /\ Agree(r.soln, s, LhsKs(c)) => DomSat(r.soln, c)
  BY SolveDomainAssumption DEF DomainContract, RefineContract, SatContract

(***************************************************************************)
(* Type correctness, action by action.                                     *)
(***************************************************************************)
LEMMA TypeCreate == TypeOK /\ Quiet /\ Create => TypeOK'
<1> SUFFICES ASSUME TypeOK, Quiet, Create PROVE TypeOK'
  OBVIOUS
<1>1. cnst' = cs /\ depm' = Deps(cs) /\ Ids' = DOMAIN cs
  BY DEF Create, Ids
<1>2. depm' \in [Ids' -> SUBSET Ids']
  BY <1>1 DEF Deps
<1>3. wkl = {} /\ pend = {} /\ cfreqt = {} /\ unsats = {}
  BY DEF Create, Quiet
<1> QED
  BY <1>1, <1>2, <1>3 DEF TypeOK, Create, work, Phases

LEMMA TypeSliceIndex == TypeOK /\ Quiet /\ SliceIndex => TypeOK'
<1> SUFFICES ASSUME TypeOK, Quiet, SliceIndex PROVE TypeOK'
  OBVIOUS
<1> DEFINE ids == IF Sliced THEN Lives(cnst, depm) ELSE DOMAIN cnst
<1>1. ids \subseteq Ids
  BY DEF Lives, Ids
<1>2. Ids' = ids /\ cnst' = [i \in ids |-> cnst[i]] /\ depm' = [i \in ids |-> depm[i] \cap ids]
  BY DEF SliceIndex, Ids
<1>3. cnst' \in [Ids' -> Constraints] /\ depm' \in [Ids' -> SUBSET Ids']
  BY <1>1, <1>2 DEF TypeOK
<1>4. wkl = {} /\ pend = {} /\ cfreqt = {} /\ unsats = {}
  BY DEF SliceIndex, Quiet
<1> QED
  BY <1>1, <1>2, <1>3, <1>4 DEF TypeOK, SliceIndex, work, Phases

LEMMA TypeRankIndex == TypeOK /\ RankIndex => TypeOK'
<1> SUFFICES ASSUME TypeOK, RankIndex PROVE TypeOK'
  OBVIOUS
<1>1. cnst \in [DOMAIN cnst -> Constraint]
  BY DomainAssumption DEF TypeOK, Ids
<1>2. rnkm' \in [Ids -> Rank]
  BY <1>1, RankMapsTyped DEF RankIndex, Ids
<1> QED
  BY <1>2 DEF TypeOK, RankIndex, work, Phases, Ids

LEMMA TypeTrueUnconstrainedKs == TypeOK /\ TrueUnconstrainedKs => TypeOK'
<1> SUFFICES ASSUME TypeOK, TrueUnconstrainedKs PROVE TypeOK'
  OBVIOUS
<1>1. UnconstrainedKs(cnst) \subseteq KVar
  <2>1. \A i \in Ids : LhsKs(cnst[i]) \subseteq KVar /\ RhsKs(cnst[i]) \subseteq KVar
    BY ConstraintKs, DomainAssumption DEF TypeOK
  <2> QED
    BY <2>1 DEF UnconstrainedKs, KVarsOfT, Ids
<1>2. soln' \in Soln
  BY <1>1, SolveDomainAssumption DEF DomainContract, TypeOK, TopContract, TrueUnconstrainedKs
<1> QED
  BY <1>2 DEF TypeOK, TrueUnconstrainedKs, index, work, Phases, Ids

LEMMA WPushTyped ==
  ASSUME TypeOK, NEW w \in SUBSET wkl, NEW p \in SUBSET pend, NEW ids \in SUBSET Ids,
         WPush(w, p, ids)
  PROVE  timestamp' \in Nat /\ pend' \subseteq Ids /\ wkl' \subseteq (1 .. timestamp') \X Ids
<1>1. timestamp' = timestamp + 1 /\ timestamp \in Nat /\ wkl \subseteq (1 .. timestamp) \X Ids
  BY DEF WPush, TypeOK
<1>2. 1 .. timestamp \subseteq 1 .. timestamp' /\ timestamp' \in 1 .. timestamp'
  BY <1>1
<1>3. wkl' \subseteq (1 .. timestamp') \X Ids
  BY <1>1, <1>2 DEF WPush
<1> QED
  BY <1>1, <1>3 DEF WPush, TypeOK

LEMMA TypeWinit == TypeOK /\ Quiet /\ Winit => TypeOK'
<1> SUFFICES ASSUME TypeOK, Quiet, Winit PROVE TypeOK'
  OBVIOUS
<1>1. Roots(rnkm) \in SUBSET Ids
  BY DEF Roots, TypeOK, Winit
<1>2. WPush({}, pend, Roots(rnkm))
  BY DEF Winit
<1>3. timestamp' \in Nat /\ pend' \subseteq Ids /\ wkl' \subseteq (1 .. timestamp') \X Ids
  BY <1>1, <1>2, WPushTyped
<1> QED
  BY <1>3 DEF TypeOK, Winit, index, Phases, Ids

LEMMA TypeIterate == TypeOK /\ Iterate => TypeOK'
<1> SUFFICES ASSUME TypeOK, Iterate PROVE TypeOK'
  OBVIOUS
<1>0. PICK e \in Maxima(rnkm, wkl) : \E r \in DomRefine(soln, cnst[e[2]]) : Round(e, r)
  BY DEF Iterate, Round
<1>1. PICK r \in DomRefine(soln, cnst[e[2]]) : Round(e, r)
  BY <1>0
<1>2. e \in wkl /\ e[2] \in Ids /\ cnst[e[2]] \in Constraints /\ soln \in Soln
  BY DEF Maxima, TypeOK
<1>3. r.ch \in BOOLEAN /\ r.soln \in Soln
  <2> DEFINE c == cnst[e[2]]
  <2>1. r \in DomRefine(soln, c) /\ c \in Constraints /\ soln \in Soln
    BY <1>1, <1>2
  <2> HIDE DEF c
  <2> QED
    BY <2>1, RefineFacts
<1>4. DepsToPush(r.soln, e[2]) \in SUBSET Ids
  BY <1>2 DEF DepsToPush, TypeOK
<1>5. timestamp' \in Nat /\ pend' \subseteq Ids /\ wkl' \subseteq (1 .. timestamp') \X Ids
  <2>1. CASE r.ch
    BY <2>1, <1>1, <1>4, WPushTyped DEF Round
  <2>2. CASE ~r.ch
    BY <2>2, <1>1 DEF TypeOK, Round
  <2> QED
    BY <2>1, <2>2
<1>6. cfreqt' \subseteq Ids \X BOOLEAN
  BY <1>1, <1>2, <1>3 DEF TypeOK, Round
<1> QED
  BY <1>1, <1>3, <1>5, <1>6 DEF TypeOK, Iterate, index, Ids, Round

LEMMA TypeFinish == TypeOK /\ Finish => TypeOK'
  BY DEF TypeOK, Finish, index, work, Phases, Ids

LEMMA TypeTestSolution == TypeOK /\ TestSolution => TypeOK'
  BY DEF TypeOK, TestSolution, index, work, Phases, Ids

LEMMA TypeStutter == TypeOK /\ UNCHANGED vars => TypeOK'
  BY DEF TypeOK, vars, index, work, Ids

LEMMA TypeNext == TypeOK /\ Quiet /\ [Next]_vars => TypeOK'
  BY TypeCreate, TypeSliceIndex, TypeRankIndex, TypeTrueUnconstrainedKs, TypeWinit,
     TypeIterate, TypeFinish, TypeTestSolution, TypeStutter
     DEF Next, Return

(***************************************************************************)
(* Before the iteration nothing is in the worklist, refined or reported.   *)
(***************************************************************************)
LEMMA QuietNext == Quiet /\ [Next]_vars => Quiet'
<1> SUFFICES ASSUME Quiet, [Next]_vars PROVE Quiet'
  OBVIOUS
<1>1. CASE Create
  BY <1>1 DEF Create, Quiet, work
<1>2. CASE SliceIndex
  BY <1>2 DEF SliceIndex, Quiet, work
<1>3. CASE RankIndex
  BY <1>3 DEF RankIndex, Quiet, work
<1>4. CASE TrueUnconstrainedKs
  BY <1>4 DEF TrueUnconstrainedKs, Quiet, work
<1>5. CASE Winit
  BY <1>5 DEF Winit, Quiet
<1>6. CASE Iterate
  BY <1>6 DEF Iterate, Quiet
<1>7. CASE Finish
  BY <1>7 DEF Finish, Quiet
<1>8. CASE TestSolution
  BY <1>8 DEF TestSolution, Quiet
<1>9. CASE Return \/ UNCHANGED vars
  BY <1>9 DEF Return, vars, work, Quiet
<1> QED
  BY <1>1, <1>2, <1>3, <1>4, <1>5, <1>6, <1>7, <1>8, <1>9 DEF Next

(***************************************************************************)
(* Restricting the dependencies to the live constraints gives the          *)
(* dependencies of the live constraints: slice need not recompute them.    *)
(***************************************************************************)
LEMMA DepsOfSlice ==
  ASSUME NEW cm, NEW ids \in SUBSET DOMAIN cm
  PROVE  Deps([i \in ids |-> cm[i]]) = [i \in ids |-> Deps(cm)[i] \cap ids]
  BY DEF Deps

LEMMA DepsExactNext == DepsExact /\ [Next]_vars => DepsExact'
<1> SUFFICES ASSUME DepsExact, [Next]_vars PROVE DepsExact'
  OBVIOUS
<1>1. CASE Create
  BY <1>1 DEF Create, DepsExact
<1>2. CASE SliceIndex
  <2>1. PICK ids \in SUBSET DOMAIN cnst :
           /\ cnst' = [i \in ids |-> cnst[i]]
           /\ depm' = [i \in ids |-> depm[i] \cap ids]
    BY <1>2 DEF SliceIndex, Lives
  <2>2. depm = Deps(cnst)
    BY <1>2 DEF SliceIndex, DepsExact
  <2> QED
    BY <2>1, <2>2, DepsOfSlice DEF DepsExact
<1>3. CASE RankIndex
  BY <1>3 DEF RankIndex, DepsExact
<1>4. CASE TrueUnconstrainedKs \/ Winit \/ Iterate \/ Finish \/ TestSolution \/ Return
           \/ UNCHANGED vars
  <2>1. UNCHANGED <<cnst, depm>> /\ (pc = "create" <=> pc' = "create")
    BY <1>4 DEF TrueUnconstrainedKs, Winit, Iterate, Finish, TestSolution, Return, vars, index
  <2> QED
    BY <2>1 DEF DepsExact
<1> QED
  BY <1>1, <1>2, <1>3, <1>4 DEF Next

(***************************************************************************)
(* The table of pending ids and the heap.                                  *)
(***************************************************************************)
LEMMA WPushMirrors ==
  ASSUME TypeOK, NEW w \in SUBSET wkl, NEW p, NEW ids,
         p = {e[2] : e \in w},
         \A e, f \in w : e[2] = f[2] => e = f,
         WPush(w, p, ids)
  PROVE  PendMirrorsWkl'
<1>1. wkl' = w \cup {<<timestamp', i>> : i \in ids \ p} /\ pend' = p \cup ids
  BY DEF WPush
<1> DEFINE new == {<<timestamp', i>> : i \in ids \ p}
<1>a. \A e \in new : e[2] \in ids \ p
  OBVIOUS
<1>b. \A i \in ids \ p : \E e \in new : e[2] = i
  <2>1. ASSUME NEW i \in ids \ p PROVE \E e \in new : e[2] = i
    <3>1. <<timestamp', i>> \in new /\ <<timestamp', i>>[2] = i
      OBVIOUS
    <3> QED
      BY <3>1
  <2> QED
    BY <2>1
<1>2. pend' = {e[2] : e \in wkl'}
  BY <1>1, <1>a, <1>b
<1>3. \A e, f \in wkl' : e[2] = f[2] => e = f
  <2>1. ASSUME NEW e \in wkl', NEW f \in wkl', e[2] = f[2] PROVE e = f
    <3>1. CASE e \in w /\ f \in w
      BY <3>1, <2>1
    <3>2. CASE e \in new /\ f \in new
      BY <3>2, <2>1
    <3>3. CASE (e \in w /\ f \in new) \/ (e \in new /\ f \in w)
      BY <3>3, <2>1, <1>a
    <3> QED
      BY <3>1, <3>2, <3>3, <1>1
  <2> QED
    BY <2>1
<1> QED
  BY <1>2, <1>3 DEF PendMirrorsWkl

LEMMA PendMirrorsNext == TypeOK /\ Quiet /\ PendMirrorsWkl /\ [Next]_vars => PendMirrorsWkl'
<1> SUFFICES ASSUME TypeOK, Quiet, PendMirrorsWkl, [Next]_vars PROVE PendMirrorsWkl'
  OBVIOUS
<1>1. CASE Winit
  <2>1. pend = {} /\ WPush({}, pend, Roots(rnkm))
    BY <1>1 DEF Winit, Quiet
  <2> QED
    BY <2>1, WPushMirrors
<1>2. CASE Iterate
  <2>1. PICK e \in Maxima(rnkm, wkl) : \E r \in DomRefine(soln, cnst[e[2]]) : Round(e, r)
    BY <1>2 DEF Iterate
  <2>2. PICK r \in DomRefine(soln, cnst[e[2]]) : Round(e, r)
    BY <2>1
  <2>3. e \in wkl
    BY DEF Maxima
  <2>4. pend \ {e[2]} = {f[2] : f \in wkl \ {e}}
    BY <2>3 DEF PendMirrorsWkl
  <2>5. \A f, g \in wkl \ {e} : f[2] = g[2] => f = g
    BY DEF PendMirrorsWkl
  <2>6. CASE r.ch
    BY <2>2, <2>4, <2>5, <2>6, WPushMirrors DEF Round
  <2>7. CASE ~r.ch
    BY <2>2, <2>4, <2>5, <2>7 DEF Round, PendMirrorsWkl
  <2> QED
    BY <2>6, <2>7
<1>3. CASE Create \/ SliceIndex \/ RankIndex \/ TrueUnconstrainedKs \/ Finish \/ TestSolution
           \/ Return \/ UNCHANGED vars
  BY <1>3 DEF Create, SliceIndex, RankIndex, TrueUnconstrainedKs, Finish, TestSolution,
              Return, vars, work, PendMirrorsWkl
<1> QED
  BY <1>1, <1>2, <1>3 DEF Next

(***************************************************************************)
(* One round keeps every settled constraint satisfied: those that read     *)
(* what was written are pushed or read as true, those that only write it   *)
(* keep their satisfaction as bindings only go down, and the refined one   *)
(* is satisfied unless it reads what it wrote.                             *)
(***************************************************************************)
LEMMA RoundSettles ==
  ASSUME IInv, pc = "acsolve",
         NEW e \in wkl, NEW r \in DomRefine(soln, cnst[e[2]]), Round(e, r),
         UNCHANGED cnst,
         NEW j \in Settled'
  PROVE  /\ j \in Ids
         /\ j \in Settled \cup {e[2]}
         /\ DomSat(soln', cnst[j])
<1> DEFINE i == e[2]
<1>1. i \in Ids /\ cnst[i] \in Constraints /\ soln \in Soln
  BY DEF IInv, TypeOK
<1>2. /\ r.ch \in BOOLEAN /\ r.soln \in Soln
      /\ Agree(r.soln, soln, KVar \ RhsKs(cnst[i]))
      /\ SolnLeq(r.soln, soln)
      /\ ~r.ch => r.soln = soln
      /\ Agree(r.soln, soln, LhsKs(cnst[i])) => DomSat(r.soln, cnst[i])
  BY <1>1, RefineFacts
<1>3. soln' = r.soln /\ j \in Taken \cup {i} /\ j \notin pend'
  BY DEF Round, Settled, Taken
<1>4. j \in Ids /\ cnst[j] \in Constraints
  BY <1>1, <1>3 DEF IInv, TypeOK, Taken
<1>5. LhsKs(cnst[j]) \subseteq KVar /\ RhsKs(cnst[j]) \subseteq KVar
  BY <1>4, ConstraintKs, DomainAssumption
<1>6. j # i => j \in Settled
  BY <1>3 DEF Round, WPush, Settled
<1>7. j # i => DomSat(soln, cnst[j])
  BY <1>6 DEF IInv, SettledSatisfied
<1>8. CASE ~r.ch
  <2>1. r.soln = soln
    BY <1>2, <1>8
  <2>2. Agree(r.soln, soln, LhsKs(cnst[i]))
    BY <2>1 DEF Agree
  <2> QED
    BY <1>2, <1>3, <1>4, <1>6, <1>7, <2>1, <2>2
<1>9. CASE r.ch
  <2>1. j \notin DepsToPush(r.soln, i)
    BY <1>3, <1>9 DEF Round, WPush
  <2>2. CASE j \in depm[i]
    <3>1. \A k \in RhsKs(cnst[j]) : DomReadsTrue(r.soln, k)
      BY <2>1, <2>2 DEF DepsToPush, IsSolved
    <3>2. DomSat(r.soln, cnst[j])
      BY <1>2, <1>4, <3>1, SolveDomainAssumption DEF DomainContract, TrueContract
    <3> QED
      BY <1>3, <1>4, <1>6, <3>2
  <2>3. CASE j \notin depm[i]
    <3>1. RhsKs(cnst[i]) \cap LhsKs(cnst[j]) = {}
      BY <1>1, <1>4, <2>3 DEF IInv, DepsExact, Deps, Ids
    <3>2. Agree(soln, r.soln, LhsKs(cnst[j])) /\ Agree(r.soln, soln, LhsKs(cnst[j]))
      BY <1>2, <1>5, <3>1 DEF Agree
    <3>3. CASE j = i
      BY <1>2, <1>3, <1>4, <3>2, <3>3
    <3>4. CASE j # i
      <4>1. DomSat(r.soln, cnst[j])
        BY <1>1, <1>2, <1>4, <1>7, <3>2, <3>4, SolveDomainAssumption DEF DomainContract, StableContract
      <4> QED
        BY <1>3, <1>4, <1>6, <4>1
    <3> QED
      BY <3>3, <3>4
  <2> QED
    BY <2>2, <2>3
<1> QED
  BY <1>2, <1>8, <1>9

LEMMA SettledNext == IInv /\ [Next]_vars => SettledSatisfied'
<1> SUFFICES ASSUME IInv, [Next]_vars PROVE SettledSatisfied'
  OBVIOUS
<1>1. CASE Iterate
  <2>1. PICK e \in Maxima(rnkm, wkl) : \E r \in DomRefine(soln, cnst[e[2]]) : Round(e, r)
    BY <1>1 DEF Iterate
  <2>2. PICK r \in DomRefine(soln, cnst[e[2]]) : Round(e, r)
    BY <2>1
  <2>3. e \in wkl /\ pc = "acsolve" /\ UNCHANGED cnst
    BY <1>1 DEF Maxima, Iterate, index
  <2>4. \A j \in Settled' : DomSat(soln', cnst[j])
    BY <2>2, <2>3, RoundSettles
  <2> QED
    BY <2>3, <2>4 DEF SettledSatisfied
<1>2. CASE Create \/ SliceIndex \/ RankIndex \/ TrueUnconstrainedKs \/ Winit
  <2>1. cfreqt' = {}
    BY <1>2 DEF IInv, Quiet, Create, SliceIndex, RankIndex, TrueUnconstrainedKs, Winit
  <2> QED
    BY <2>1 DEF SettledSatisfied, Settled, Taken
<1>3. CASE Finish \/ TestSolution \/ Return \/ UNCHANGED vars
  BY <1>3 DEF IInv, Finish, TestSolution, Return, vars, index, work, SettledSatisfied,
              Settled, Taken
<1> QED
  BY <1>1, <1>2, <1>3 DEF Next

LEMMA NextIInv == IInv /\ [Next]_vars => IInv'
  BY TypeNext, QuietNext, DepsExactNext, PendMirrorsNext, SettledNext DEF IInv

(***************************************************************************)
(* The inductive invariant holds for every input, every ranking and every  *)
(* domain that keeps the contract.                                         *)
(***************************************************************************)
THEOREM Invariance == Spec => []IInv
  BY InitIInv, NextIInv, PTL DEF Spec

\* The state always has its type: worklist, ranks and dependencies speak of
\* constraints that are in the index, for every input and every domain.
THEOREM TypeCorrect == Spec => []TypeOK
<1>1. IInv => TypeOK
  BY DEF IInv
<1> QED
  BY <1>1, Invariance, PTL

\* The table me.pend and the heap of the worklist never disagree.
THEOREM PendMirrorsHeap == Spec => []PendMirrorsWkl
<1>1. IInv => PendMirrorsWkl
  BY DEF IInv
<1> QED
  BY <1>1, Invariance, PTL

\* A constraint that was refined and is not due again is satisfied: deps and
\* is_solved together push everything a refinement may have broken.
THEOREM SettledStaySatisfied == Spec => []SettledSatisfied
<1>1. IInv => SettledSatisfied
  BY DEF IInv
<1> QED
  BY <1>1, Invariance, PTL

(***************************************************************************)
(* The solver implements the chaotic iteration: what solve does before it  *)
(* iterates prepares the input, a round takes up one constraint, and the   *)
(* heap is empty only if everything taken up is settled.                   *)
(***************************************************************************)
LEMMA SolveInitRefines == Init => Abstract!Init
  BY SolveAssumption DEF Init, Abstract!Init, Phase, Taken, Settled

LEMMA PrepareRefines ==
  ASSUME IInv, IInv',
         Create \/ SliceIndex \/ RankIndex \/ TrueUnconstrainedKs \/ Winit
  PROVE  Abstract!Prepare
<1>1. /\ Phase = "start" /\ Phase' \in {"start", "run"}
      /\ cfreqt = {} /\ cfreqt' = {}
  BY DEF IInv, Quiet, Create, SliceIndex, RankIndex, TrueUnconstrainedKs, Winit, Phase
<1>2. Taken' = Taken /\ Settled' = Settled
  BY <1>1 DEF Taken, Settled
<1>3. cnst' \in [Ids' -> Constraints] /\ Ids' \in SUBSET CIds /\ soln' \in Soln
  BY DEF IInv, TypeOK
<1> QED
  BY <1>1, <1>2, <1>3 DEF Abstract!Prepare

LEMMA RoundTakes ==
  ASSUME NEW e, NEW r, Round(e, r)
  PROVE  soln' = r.soln /\ Taken' = Taken \cup {e[2]}
<1>1. soln' = r.soln /\ cfreqt' = cfreqt \cup {<<e[2], r.ch>>}
  BY DEF Round
<1>2. \A i : i \in Taken' <=> \E x \in cfreqt \cup {<<e[2], r.ch>>} : i = x[1]
  BY <1>1 DEF Taken
<1>3. \A i : i \in Taken <=> \E x \in cfreqt : i = x[1]
  BY DEF Taken
<1>4. <<e[2], r.ch>>[1] = e[2]
  OBVIOUS
<1>5. \A i : i \in Taken' <=> i \in Taken \/ i = e[2]
  BY <1>2, <1>3, <1>4, Zenon
<1> QED
  BY <1>1, <1>5

LEMMA RoundRefines ==
  ASSUME IInv, Iterate
  PROVE  \E i \in DOMAIN cnst : Abstract!Refine(i)
<1>1. PICK e \in Maxima(rnkm, wkl) : \E r \in DomRefine(soln, cnst[e[2]]) : Round(e, r)
  BY DEF Iterate
<1>2. PICK r \in DomRefine(soln, cnst[e[2]]) : Round(e, r)
  BY <1>1
<1>3. e \in wkl /\ pc = "acsolve" /\ UNCHANGED <<pc, cnst>>
  BY DEF Maxima, Iterate, index
<1>4. e[2] \in DOMAIN cnst
  BY <1>3 DEF IInv, TypeOK, Ids
<1>5. soln' = r.soln /\ Taken' = Taken \cup {e[2]}
  BY <1>2, RoundTakes
<1>6. Settled' \subseteq {j \in Settled \cup {e[2]} : DomSat(soln', cnst[j])}
  BY <1>2, <1>3, RoundSettles
<1>7. Phase = "run" /\ Phase' = Phase
  BY <1>3 DEF Phase
<1> QED
  BY <1>2, <1>3, <1>4, <1>5, <1>6, <1>7 DEF Abstract!Refine

LEMMA FinishRefines ==
  ASSUME IInv, Finish
  PROVE  Abstract!Stop
<1>1. pend = {}
  BY DEF Finish, IInv, PendMirrorsWkl
<1>2. UNCHANGED <<cnst, soln, Taken, Settled>> /\ Phase = "run" /\ Phase' = "stop"
  BY DEF Finish, index, work, Taken, Settled, Phase
<1> QED
  BY <1>1, <1>2 DEF Abstract!Stop, Settled

LEMMA SolveNextRefines ==
  IInv /\ IInv' /\ [Next]_vars => [Abstract!Next]_(Abstract!vars)
<1> SUFFICES ASSUME IInv, IInv', [Next]_vars PROVE [Abstract!Next]_(Abstract!vars)
  OBVIOUS
<1>1. CASE Create \/ SliceIndex \/ RankIndex \/ TrueUnconstrainedKs \/ Winit
  BY <1>1, PrepareRefines DEF Abstract!Next
<1>2. CASE Iterate
  BY <1>2, RoundRefines DEF Abstract!Next
<1>3. CASE Finish
  BY <1>3, FinishRefines DEF Abstract!Next
<1>4. CASE TestSolution \/ Return \/ UNCHANGED vars
  <2>1. UNCHANGED <<Phase, cnst, soln, Taken, Settled>>
    BY <1>4 DEF TestSolution, Return, vars, index, work, Phase, Taken, Settled
  <2> QED
    BY <2>1 DEF Abstract!vars
<1> QED
  BY <1>1, <1>2, <1>3, <1>4 DEF Next

\* The solver, with its worklist, ranks and timestamps, is an implementation of
\* chaotic iteration.
THEOREM SolveImplementsChaotic == Spec => ImplementsChaotic
<1>1. IInv /\ IInv' /\ [Next]_vars => [Abstract!Next]_(Abstract!vars)
  BY SolveNextRefines
<1> QED
  BY <1>1, SolveInitRefines, Invariance, PTL DEF Spec, ImplementsChaotic, Abstract!Spec

(***************************************************************************)
(* Ranks and roots.  Along an undeleted dependency the SCC number does not *)
(* grow, which is what the order of the worklist is good for; and every    *)
(* root is refined before the iteration ends.                              *)
(***************************************************************************)
RanksExact ==
    pc \notin {"create", "slice", "rank"} => rnkm \in RankMaps(cnst, depm)

RootsDue == pc \in {"acsolve", "test", "done"} => Roots(rnkm) \subseteq Taken \cup pend

EmptyAtEnd == Finished => wkl = {}

JInv == RanksExact /\ RootsDue /\ EmptyAtEnd /\ SccOrder

LEMMA RanksDescend ==
  ASSUME NEW cm, NEW dm, NEW rk \in RankMaps(cm, dm), NoDeletions,
         NEW i \in DOMAIN cm, NEW j \in dm[i], dm[i] \subseteq DOMAIN cm
  PROVE  rk[j].scc <= rk[i].scc
<1> DEFINE deps == AdjustDeps(cm, dm)
<1>1. PICK r \in SccRanks(deps) : \E ir \in InnerRanks(cm, deps, r) :
         rk = [n \in DOMAIN cm |->
                   [scc |-> r[n], iscc |-> ir[n], simpl |-> IsSimple(cm[n]),
                    cut |-> Kuts # {} /\ IsCut(cm[n]), tag |-> cm[n].tag]]
  BY DEF RankMaps
<1>2. DOMAIN deps = DOMAIN cm /\ j \in deps[i]
  BY DEF AdjustDeps, MatchesDeps, NoDeletions
<1>3. r[i] >= r[j] /\ r[i] \in Nat /\ r[j] \in Nat
  BY <1>2 DEF SccRanks
<1>4. rk[i].scc = r[i] /\ rk[j].scc = r[j]
  BY <1>1
<1> QED
  BY <1>3, <1>4

LEMMA InitJInv == Init => JInv
  BY DEF Init, JInv, RanksExact, RootsDue, EmptyAtEnd, Finished, SccOrder, Taken

LEMMA RoundDue ==
  ASSUME NEW e, NEW r, Round(e, r)
  PROVE  /\ Taken \cup pend \subseteq Taken' \cup pend'
         /\ pend' \subseteq pend \cup depm[e[2]]
<1>1. Taken' = Taken \cup {e[2]}
  BY RoundTakes
<1>2. pend \ {e[2]} \subseteq pend'
      /\ pend' \subseteq pend \cup DepsToPush(r.soln, e[2])
  BY DEF Round, WPush
<1> QED
  BY <1>1, <1>2 DEF DepsToPush

\* The entry the heap gives out has the highest SCC number of all that are due.
LEMMA MaximumScc ==
  ASSUME IInv, pc = "acsolve", NEW e \in Maxima(rnkm, wkl), NEW j \in pend
  PROVE  e[2] \in Ids /\ e[2] \in pend /\ rnkm[j].scc <= rnkm[e[2]].scc
<1>1. e \in wkl /\ e[2] \in pend /\ e[2] \in Ids /\ j \in Ids
  BY DEF Maxima, IInv, PendMirrorsWkl, TypeOK
<1>2. PICK f \in wkl : f[2] = j
  BY DEF IInv, PendMirrorsWkl
<1>3. ~Lower(rnkm, e, f)
  BY DEF Maxima
<1>4. rnkm[j].scc \in Nat /\ rnkm[e[2]].scc \in Nat
  BY <1>1 DEF IInv, TypeOK, Rank
<1>5. ~(rnkm[e[2]].scc < rnkm[j].scc)
  BY <1>2, <1>3 DEF Lower
<1> QED
  BY <1>1, <1>4, <1>5

LEMMA RoundKeepsOrder ==
  ASSUME IInv, JInv, Iterate
  PROVE  SccOrder'
<1> SUFFICES ASSUME NoDeletions, NEW i \in Taken', NEW j \in pend'
             PROVE  rnkm'[j].scc <= rnkm'[i].scc
  BY DEF SccOrder, NoDeletions
<1>1. PICK e \in Maxima(rnkm, wkl) : \E r \in DomRefine(soln, cnst[e[2]]) : Round(e, r)
  BY DEF Iterate
<1>2. PICK r \in DomRefine(soln, cnst[e[2]]) : Round(e, r)
  BY <1>1
<1>3. pc = "acsolve" /\ UNCHANGED <<cnst, depm, rnkm>>
  BY DEF Iterate, index
<1>4. e[2] \in Ids /\ e[2] \in pend
  BY <1>3 DEF Maxima, IInv, PendMirrorsWkl, TypeOK
<1>5. i \in Taken \/ i = e[2]
  BY <1>2, RoundTakes
<1>6. j \in pend \cup depm[e[2]]
  BY <1>2, RoundDue
<1>7. j \in Ids /\ i \in Ids /\ depm[e[2]] \subseteq Ids /\ pend \subseteq Ids
  BY <1>4, <1>5, <1>6 DEF IInv, TypeOK, Taken
<1>8. \A n \in Ids : rnkm[n].scc \in Nat
  BY <1>3 DEF IInv, TypeOK, Rank
<1>9. rnkm[j].scc <= rnkm[e[2]].scc
  <2>1. CASE j \in pend
    BY <2>1, <1>3, MaximumScc
  <2>2. CASE j \in depm[e[2]]
    <3>1. rnkm \in RankMaps(cnst, depm)
      BY <1>3 DEF JInv, RanksExact
    <3> QED
      BY <3>1, <2>2, <1>4, <1>7, RanksDescend DEF Ids
  <2> QED
    BY <1>6, <2>1, <2>2
<1>10. rnkm[e[2]].scc <= rnkm[i].scc
  <2>1. CASE i = e[2]
    BY <2>1, <1>4, <1>8
  <2>2. CASE i \in Taken
    BY <2>2, <1>4 DEF JInv, SccOrder
  <2> QED
    BY <1>5, <2>1, <2>2
<1>11. \A a, b, c \in Nat : a <= b /\ b <= c => a <= c
  OBVIOUS
<1> QED
  BY <1>3, <1>4, <1>7, <1>8, <1>9, <1>10, <1>11

LEMMA JNext == IInv /\ IInv' /\ JInv /\ [Next]_vars => JInv'
<1> SUFFICES ASSUME IInv, IInv', JInv, [Next]_vars PROVE JInv'
  OBVIOUS
<1>1. CASE Create \/ SliceIndex \/ RankIndex \/ TrueUnconstrainedKs
  <2>1. RanksExact'
    BY <1>1 DEF JInv, RanksExact, Create, SliceIndex, RankIndex, TrueUnconstrainedKs, index
  <2>2. pc' \in {"slice", "rank", "true", "winit"} /\ cfreqt' = {}
    BY <1>1 DEF IInv, Quiet, Create, SliceIndex, RankIndex, TrueUnconstrainedKs
  <2> QED
    BY <2>1, <2>2 DEF JInv, RootsDue, EmptyAtEnd, Finished, SccOrder, Taken
<1>2. CASE Winit
  <2>1. pc' = "acsolve" /\ UNCHANGED <<cnst, depm, rnkm>> /\ cfreqt' = {} /\ pc = "winit"
    BY <1>2 DEF Winit, index, IInv, Quiet
  <2>2. pend' = pend \cup Roots(rnkm)
    BY <1>2 DEF Winit, WPush
  <2> QED
    BY <2>1, <2>2 DEF JInv, RanksExact, RootsDue, EmptyAtEnd, Finished, SccOrder, Taken
<1>3. CASE Iterate
  <2>1. PICK e \in Maxima(rnkm, wkl) : \E r \in DomRefine(soln, cnst[e[2]]) : Round(e, r)
    BY <1>3 DEF Iterate
  <2>2. PICK r \in DomRefine(soln, cnst[e[2]]) : Round(e, r)
    BY <2>1
  <2>3. pc = "acsolve" /\ pc' = "acsolve" /\ UNCHANGED <<cnst, depm, rnkm>>
    BY <1>3 DEF Iterate, index
  <2>4. Taken \cup pend \subseteq Taken' \cup pend'
    BY <2>2, RoundDue
  <2> QED
    BY <2>3, <2>4, <1>3, RoundKeepsOrder DEF JInv, RanksExact, RootsDue, EmptyAtEnd, Finished
<1>4. CASE Finish \/ TestSolution \/ Return \/ UNCHANGED vars
  <2>1. UNCHANGED <<cnst, depm, rnkm, pend, wkl, cfreqt>>
    BY <1>4 DEF Finish, TestSolution, Return, vars, index, work
  <2>2. /\ pc \in {"test", "done"} => pc' \in {"test", "done"}
        /\ pc' \in {"test", "done"} => wkl = {} /\ pc \in {"acsolve", "test", "done"}
        /\ pc' \notin {"test", "done"} => pc' = pc
    BY <1>4 DEF Finish, TestSolution, Return, vars, JInv, EmptyAtEnd, Finished
  <2> QED
    BY <2>1, <2>2 DEF JInv, RanksExact, RootsDue, EmptyAtEnd, Finished, SccOrder, Taken
<1> QED
  BY <1>1, <1>2, <1>3, <1>4 DEF Next

LEMMA JInvariance == Spec => []JInv
  BY InitJInv, JNext, Invariance, PTL DEF Spec

\* Without deleted dependencies the solver goes through the SCCs in topological
\* order: what is due never lies in an SCC before one already refined.
THEOREM SccsInOrder == Spec => []SccOrder
<1>1. JInv => SccOrder
  BY DEF JInv
<1> QED
  BY <1>1, JInvariance, PTL

\* Among constraints without mutual dependencies winit pushes every one, and
\* the solver leaves none of them unsatisfied.
THEOREM AcyclicSolved == Spec => []FinishedAcyclicSatisfied
<1>1. IInv /\ JInv => FinishedAcyclicSatisfied
  <2> SUFFICES ASSUME IInv, JInv, Finished,
                      \A i, j \in Ids : rnkm[i].scc = rnkm[j].scc => i = j,
                      NEW n \in Ids
               PROVE  DomSat(soln, cnst[n])
    BY DEF FinishedAcyclicSatisfied
  <2>1. pend = {} /\ rnkm \in [Ids -> Rank] /\ Ids \subseteq Nat
    BY SolveAssumption DEF IInv, JInv, PendMirrorsWkl, EmptyAtEnd, TypeOK, Finished
  <2>2. n \in Roots(rnkm)
    <3>1. DOMAIN rnkm = Ids /\ n <= n
      BY <2>1
    <3> QED
      BY <3>1 DEF Roots
  <2>3. n \in Settled
    BY <2>1, <2>2 DEF JInv, RootsDue, Finished, Settled
  <2> QED
    BY <2>3 DEF IInv, SettledSatisfied
<1> QED
  BY <1>1, Invariance, JInvariance, PTL

(***************************************************************************)
(* The slice.  What is left of the input stays what create made of it, and *)
(* the answers of solve are about the final solution.                      *)
(***************************************************************************)
LiveIds == IF Sliced THEN Lives(cs, Deps(cs)) ELSE DOMAIN cs

SliceExact ==
    /\ pc = "slice" => cnst = cs /\ depm = Deps(cs)
    /\ pc \notin {"create", "slice"} => cnst = [i \in LiveIds |-> cs[i]]

UnsatsExact ==
    pc = "done" => \A i \in Ids : (i \in unsats) \in DomUnsat(soln, cnst[i])

LEMMA SliceNext == TypeOK /\ SliceExact /\ [Next]_vars => SliceExact'
<1> SUFFICES ASSUME TypeOK, SliceExact, [Next]_vars PROVE SliceExact'
  OBVIOUS
<1>1. cs' = cs /\ LiveIds' = LiveIds
  BY DEF Next, Create, SliceIndex, RankIndex, TrueUnconstrainedKs, Winit, Iterate, Finish,
         TestSolution, Return, vars, index, LiveIds
<1>2. CASE Create
  BY <1>1, <1>2 DEF Create, SliceExact
<1>3. CASE SliceIndex
  <2>1. cnst = cs /\ depm = Deps(cs)
    BY <1>3 DEF SliceIndex, SliceExact
  <2>2. pc' = "rank" /\ cnst' = [i \in LiveIds |-> cs[i]]
    BY <1>3, <2>1 DEF SliceIndex, LiveIds
  <2> QED
    BY <1>1, <2>2 DEF SliceExact
<1>4. CASE RankIndex \/ TrueUnconstrainedKs \/ Winit \/ Iterate \/ Finish
           \/ TestSolution \/ Return \/ UNCHANGED vars
  <2>1. cnst' = cnst /\ depm' = depm
    BY <1>4 DEF RankIndex, TrueUnconstrainedKs, Winit, Iterate, Finish, TestSolution,
                Return, vars, index
  <2>2. \/ pc' = pc
        \/ pc' \notin {"create", "slice"} /\ pc \notin {"create", "slice"}
    BY <1>4 DEF RankIndex, TrueUnconstrainedKs, Winit, Iterate, Finish, TestSolution,
                Return, vars
  <2> QED
    BY <1>1, <2>1, <2>2 DEF SliceExact
<1> QED
  BY <1>2, <1>3, <1>4 DEF Next

LEMMA UnsatsNext == UnsatsExact /\ [Next]_vars => UnsatsExact'
<1> SUFFICES ASSUME UnsatsExact, [Next]_vars PROVE UnsatsExact'
  OBVIOUS
<1>1. CASE TestSolution
  BY <1>1 DEF TestSolution, UnsatsExact, Ids, index
<1>2. CASE Return \/ UNCHANGED vars
  BY <1>2 DEF Return, vars, UnsatsExact, Ids, index
<1>3. CASE Create \/ SliceIndex \/ RankIndex \/ TrueUnconstrainedKs \/ Winit
           \/ Iterate \/ Finish
  <2>1. pc' # "done"
    BY <1>3 DEF Create, SliceIndex, RankIndex, TrueUnconstrainedKs, Winit, Iterate, Finish
  <2> QED
    BY <2>1 DEF UnsatsExact
<1> QED
  BY <1>1, <1>2, <1>3 DEF Next

\* What writes an unknown that a live constraint reads is live itself.
LEMMA LivesClosed ==
  ASSUME NEW cm, NEW i \in DOMAIN cm, NEW j \in Lives(cm, Deps(cm)),
         RhsKs(cm[i]) \cap LhsKs(cm[j]) # {}
  PROVE  i \in Lives(cm, Deps(cm))
<1> DEFINE dm == Deps(cm)
<1>1. DOMAIN dm = DOMAIN cm /\ j \in DOMAIN cm /\ j \in dm[i]
  BY DEF Deps, Lives
<1>2. PICK n \in Reach(dm)[j] : IsConcRhs(cm[n])
  BY DEF Lives
<1> HIDE DEF dm
<1>3. \A S \in SUBSET DOMAIN dm : Closed(dm, S) /\ i \in S => j \in S
  BY <1>1 DEF Closed
<1>4. n \in Reach(dm)[i]
  BY <1>1, <1>2, <1>3 DEF Reach
<1> QED
  BY <1>2, <1>4 DEF Lives, dm

\* A constraint that the slice dropped writes nothing a remaining one reads.
LEMMA DroppedUnread ==
  ASSUME TypeOK, SliceExact, pc = "done", NEW i \in DOMAIN cs \ Ids
  PROVE  RhsKs(cs[i]) \cap ReadKs = {}
<1>1. cnst = [n \in LiveIds |-> cs[n]] /\ Ids = LiveIds
  BY DEF SliceExact, Ids
<1>2. Sliced /\ Ids = Lives(cs, Deps(cs))
  BY <1>1 DEF LiveIds
<1>3. \A j \in Ids : RhsKs(cs[i]) \cap LhsKs(cs[j]) = {}
  BY <1>2, LivesClosed
<1> QED
  BY <1>1, <1>3 DEF ReadKs

\* What solve reports is the truth about the whole input, although solve looks
\* only at the slice.
THEOREM SlicingSound == Spec => []SliceSound
<1>1. Init => SliceExact /\ UnsatsExact
  BY DEF Init, SliceExact, UnsatsExact
<1>2. IInv /\ SliceExact /\ UnsatsExact => SliceSound
  <2> SUFFICES ASSUME IInv, SliceExact, UnsatsExact, pc = "done", unsats = {},
                      NEW i \in DOMAIN cs
               PROVE  DomSat(DomTop(soln, KVar \ ReadKs), cs[i])
    BY DEF SliceSound
  <2> DEFINE t == DomTop(soln, KVar \ ReadKs)
  <2>1. /\ soln \in Soln /\ cs[i] \in Constraints
        /\ TypeOK
    BY DEF IInv, TypeOK
  <2>2. /\ t \in Soln
        /\ Agree(t, soln, KVar \ (KVar \ ReadKs))
        /\ SolnLeq(t, soln)
        /\ RhsKs(cs[i]) \subseteq KVar \ ReadKs => DomSat(t, cs[i])
    BY <2>1, SolveDomainAssumption DEF DomainContract, TopContract
  <2>3. LhsKs(cs[i]) \subseteq KVar /\ RhsKs(cs[i]) \subseteq KVar
    BY <2>1, ConstraintKs, DomainAssumption
  <2>4. CASE i \in Ids
    <3>1. cnst[i] = cs[i]
      BY <2>4 DEF SliceExact, Ids
    <3>2. DomSat(soln, cs[i])
      BY <2>1, <2>4, <3>1, SolveDomainAssumption DEF DomainContract, UnsatsExact, UnsatContract
    <3>3. Agree(soln, t, LhsKs(cs[i]))
      <4>1. LhsKs(cs[i]) \subseteq ReadKs
        BY <2>4, <3>1 DEF ReadKs
      <4> QED
        BY <4>1, <2>2, <2>3 DEF Agree
    <3> QED
      BY <2>1, <2>2, <3>2, <3>3, SolveDomainAssumption DEF DomainContract, StableContract
  <2>5. CASE i \notin Ids
    BY <2>1, <2>2, <2>3, <2>5, DroppedUnread
  <2> QED
    BY <2>4, <2>5
<1>3. IInv /\ SliceExact /\ [Next]_vars => SliceExact'
  BY SliceNext DEF IInv
<1> QED
  BY <1>1, <1>2, <1>3, UnsatsNext, Invariance, PTL DEF Spec

\* Over a domain that refines monotonically, no step takes the solution below
\* a fixpoint it was above.
THEOREM FixpointsKept ==
  ASSUME MonotoneContract
  PROVE  Spec => KeepsFixpoints
<1> DEFINE Keeps == pc = "acsolve" =>
              \A f \in Soln :
                SolnLeq(f, soln) /\ ~SolnLeq(f, soln') => ~Fixpoint(f)
<1>1. ASSUME IInv, [Next]_vars
      PROVE  [Keeps]_vars
  <2> SUFFICES ASSUME pc = "acsolve", NEW f \in Soln, SolnLeq(f, soln),
                      ~SolnLeq(f, soln'), Fixpoint(f)
               PROVE  FALSE
    OBVIOUS
  <2>1. CASE Iterate
    <3>0. PICK e \in Maxima(rnkm, wkl) : \E r \in DomRefine(soln, cnst[e[2]]) : Round(e, r)
      BY <2>1 DEF Iterate
    <3>1. PICK r \in DomRefine(soln, cnst[e[2]]) : Round(e, r)
      BY <3>0
    <3>2. e[2] \in Ids /\ cnst[e[2]] \in Constraints /\ soln \in Soln
      BY <1>1 DEF Maxima, IInv, TypeOK
    <3>3. soln' = r.soln
      BY <3>1 DEF Round
    <3>4. \A q \in DomRefine(f, cnst[e[2]]) : q.soln = f
      BY <3>2 DEF Fixpoint
    <3>5. SolnLeq(f, r.soln)
      BY <1>1, <3>1, <3>2, <3>4 DEF MonotoneContract
    <3> QED
      BY <3>3, <3>5
  <2>2. CASE Finish \/ UNCHANGED vars
    BY <2>2 DEF Finish, vars, SolnLeq
  <2>3. CASE Create \/ SliceIndex \/ RankIndex \/ TrueUnconstrainedKs \/ Winit
             \/ TestSolution \/ Return
    BY <2>3 DEF Create, SliceIndex, RankIndex, TrueUnconstrainedKs, Winit, TestSolution, Return
  <2> QED
    BY <1>1, <2>1, <2>2, <2>3 DEF Next
<1> QED
  BY <1>1, Invariance, PTL DEF Spec, KeepsFixpoints

------------------------------------------------------------------------------
(* Predicate abstraction keeps the contract of module Domain.             *)

D == INSTANCE Domain
       WITH Bind <- Binding, DomRefine <- Refine, DomTop <- Top, DomUnsat <- Unsat,
            DomReadsTrue <- ReadsTrue, DomSat <- Satisfies, BindLeq <- Weaker

LEMMA WellFormed == Constraints \subseteq Constraint
  BY DomainAssumption

LEMMA SameKs == \A c : D!LhsKs(c) = LhsKs(c) /\ D!RhsKs(c) = RhsKs(c)
  BY DEF D!LhsKs, D!RhsKs, D!KVarsOf, LhsKs, RhsKs, KVarsOf

LEMMA OccFacts ==
  ASSUME NEW c \in Constraint
  PROVE  /\ c.env \subseteq Occ /\ c.lhsK \subseteq Occ /\ c.rhsK \subseteq Occ
         /\ \A o \in c.env \cup c.lhsK : o[2] \in LhsKs(c)
         /\ \A o \in c.rhsK : o[2] \in RhsKs(c)
         /\ \A o \in Occ : o[1] \in Subst /\ o[2] \in KVar
         /\ LhsKs(c) \subseteq KVar /\ RhsKs(c) \subseteq KVar
<1>1. c.env \subseteq Occ /\ c.lhsK \subseteq Occ /\ c.rhsK \subseteq Occ
  BY DEF Constraint
<1>2. \A o \in Occ : o[1] \in Subst /\ o[2] \in KVar
  BY DEF Occ
<1> QED
  BY <1>1, <1>2 DEF LhsKs, RhsKs, KVarsOf

(***************************************************************************)
(* A solution that binds what a constraint reads alike, or to more, gives  *)
(* it the same left-hand side, or a stronger one.                          *)
(***************************************************************************)
LEMMA LhsAgree ==
  ASSUME NEW s \in Solution, NEW t \in Solution, NEW c \in Constraint,
         \A k \in LhsKs(c) : s[k] = t[k]
  PROVE  PredsOfLhs(Read(s), c) = PredsOfLhs(Read(t), c)
<1>1. \A o \in c.env \cup c.lhsK : Read(s)[o[2]] = Read(t)[o[2]]
  BY OccFacts DEF Read
<1> QED
  BY <1>1 DEF PredsOfLhs, PredsOfOccs

LEMMA LhsMonotone ==
  ASSUME NEW s \in Solution, NEW t \in Solution, NEW c \in Constraint,
         \A k \in KVar : s[k] \subseteq t[k]
  PROVE  PredsOfLhs(Read(s), c) \subseteq PredsOfLhs(Read(t), c)
<1>1. \A o \in c.env \cup c.lhsK : Read(s)[o[2]] \subseteq Read(t)[o[2]]
  BY OccFacts DEF Read
<1>2. PredsOfOccs(Read(s), c.env \cup c.lhsK) \subseteq PredsOfOccs(Read(t), c.env \cup c.lhsK)
  BY <1>1 DEF PredsOfOccs
<1> QED
  BY <1>2 DEF PredsOfLhs

LEMMA ModelsAntitone ==
  ASSUME NEW ps, NEW qs, ps \subseteq qs
  PROVE  Models(qs) \subseteq Models(ps)
  BY DEF Models

LEMMA MemberValid ==
  ASSUME NEW ps, NEW p \in ps
  PROVE  Valid(ps, p)
  BY DEF Valid, Models

LEMMA ContradictionValid ==
  ASSUME NEW ps, ps \cap Contra # {}, NEW p
  PROVE  Valid(ps, p)
<1>1. PICK q \in ps : q \in Contra
  OBVIOUS
<1>2. Holds[q] = {}
  BY <1>1, PredAbsAssumption
<1>3. Models(ps) = {}
  BY <1>1, <1>2 DEF Models
<1> QED
  BY <1>3 DEF Valid

LEMMA ProvedValid ==
  ASSUME NEW ps, NEW qs, NEW proved \in Proved(ps, qs)
  PROVE  \A p \in proved : p \in qs /\ Valid(ps, p)
  BY DEF Proved

LEMMA UpdateFacts ==
  ASSUME NEW s \in Solution, NEW c \in Constraint, NEW kept
  PROVE  LET r == PUpdate(s, c, kept)
         IN  /\ r.ch \in BOOLEAN /\ r.soln \in Solution
             /\ \A k \in KVar \ RhsKs(c) : r.soln[k] = s[k]
             /\ \A k \in KVar : r.soln[k] \subseteq s[k]
             /\ ~r.ch => r.soln = s
             /\ \A o \in c.rhsK : \A q \in s[o[2]] :
                  q \in r.soln[o[2]] => <<o, q>> \in kept
  BY OccFacts DEF PUpdate, Solution, Binding

(***************************************************************************)
(* What Refine returns: the solution itself, if nothing is to be kept or   *)
(* the lhs is contradictory, or an update that keeps what follows.         *)
(***************************************************************************)
Justified(s, c, kept) ==
    \A x \in kept : Valid(PredsOfLhs(Read(s), c), PredOf(x))

LEMMA RefineCases ==
  ASSUME NEW s \in Solution, NEW c \in Constraint, NEW r \in Refine(s, c)
  PROVE  \/ /\ r = [ch |-> FALSE, soln |-> s]
            /\ RhsCands(s, c) = {} \/ PredsOfLhs(Read(s), c) \cap Contra # {}
         \/ \E kept : r = PUpdate(s, c, kept) /\ Justified(s, c, kept)
<1> DEFINE lps     == PredsOfLhs(Read(s), c)
           cands   == RhsCands(s, c)
           rcs     == {x \in cands : PredOf(x) \notin Contra}
           matched == {x \in rcs : PredOf(x) \in lps}
           queried == IF IsSimple(c) THEN {} ELSE {PredOf(x) : x \in rcs \ matched}
<1>1. CASE cands = {} \/ lps \cap Contra # {}
  BY <1>1 DEF Refine
<1>2. CASE ~(cands = {} \/ lps \cap Contra # {})
  <2>1. PICK proved \in Proved(lps, queried) :
          r = PUpdate(s, c, matched \cup {x \in rcs : PredOf(x) \in proved})
    BY <1>2 DEF Refine
  <2>2. \A x \in matched : Valid(lps, PredOf(x))
    BY MemberValid
  <2>3. \A p \in proved : Valid(lps, p)
    BY ProvedValid
  <2> QED
    BY <2>1, <2>2, <2>3 DEF Justified
<1> QED
  BY <1>1, <1>2

LEMMA RefineKeeps ==
  ASSUME NEW s \in Solution, NEW c \in Constraint, NEW r \in Refine(s, c)
  PROVE  /\ r.ch \in BOOLEAN /\ r.soln \in Solution
         /\ \A k \in KVar \ RhsKs(c) : r.soln[k] = s[k]
         /\ \A k \in KVar : r.soln[k] \subseteq s[k]
         /\ ~r.ch => r.soln = s
<1>1. CASE r = [ch |-> FALSE, soln |-> s]
  BY <1>1
<1>2. CASE \E kept : r = PUpdate(s, c, kept)
  BY <1>2, UpdateFacts
<1> QED
  BY <1>1, <1>2, RefineCases

(***************************************************************************)
(* The contract, part by part.                                             *)
(***************************************************************************)
LEMMA KeepsRefineContract == D!RefineContract
  BY RefineKeeps, SameKs, WellFormed DEF D!RefineContract, D!Soln, D!Agree, D!SolnLeq, Weaker, Solution

LEMMA KeepsSatContract == D!SatContract
<1> SUFFICES ASSUME NEW s \in Solution, NEW c \in Constraint, NEW r \in Refine(s, c),
                    \A k \in LhsKs(c) : r.soln[k] = s[k],
                    NEW o \in c.rhsK, NEW q \in r.soln[o[2]]
             PROVE  Valid(PredsOfLhs(Read(r.soln), c), SubstPred(q, o[1]))
  BY SameKs, WellFormed DEF D!SatContract, D!Soln, D!Agree, Solution, Satisfies
<1>1. r.soln \in Solution /\ o[2] \in KVar /\ q \in s[o[2]] /\ q \in Qual
  BY RefineKeeps, OccFacts DEF Solution, Binding
<1>2. PredsOfLhs(Read(r.soln), c) = PredsOfLhs(Read(s), c)
  BY <1>1, LhsAgree
<1>3. CASE r = [ch |-> FALSE, soln |-> s] /\ RhsCands(s, c) = {}
  <2>1. <<o, q>> \in RhsCands(s, c)
    BY <1>1 DEF RhsCands
  <2> QED
    BY <2>1, <1>3
<1>4. CASE PredsOfLhs(Read(s), c) \cap Contra # {}
  BY <1>2, <1>4, ContradictionValid
<1>5. CASE \E kept : r = PUpdate(s, c, kept) /\ Justified(s, c, kept)
  <2>1. PICK kept : r = PUpdate(s, c, kept) /\ Justified(s, c, kept)
    BY <1>5
  <2>2. <<o, q>> \in kept
    BY <1>1, <2>1, UpdateFacts
  <2>3. PredOf(<<o, q>>) = SubstPred(q, o[1])
    BY DEF PredOf
  <2> QED
    BY <1>2, <2>1, <2>2, <2>3 DEF Justified
<1> QED
  BY <1>3, <1>4, <1>5, RefineCases

LEMMA KeepsStableContract == D!StableContract
<1> SUFFICES ASSUME NEW s \in Solution, NEW t \in Solution, NEW c \in Constraint,
                    Satisfies(s, c),
                    \A k \in LhsKs(c) : s[k] = t[k],
                    \A k \in KVar : t[k] \subseteq s[k],
                    NEW o \in c.rhsK, NEW q \in t[o[2]]
             PROVE  Valid(PredsOfLhs(Read(t), c), SubstPred(q, o[1]))
  BY SameKs, WellFormed DEF D!StableContract, D!Soln, D!Agree, D!SolnLeq, Weaker, Solution, Satisfies
<1>1. q \in s[o[2]]
  BY OccFacts
<1>2. PredsOfLhs(Read(t), c) = PredsOfLhs(Read(s), c)
  BY LhsAgree
<1> QED
  BY <1>1, <1>2 DEF Satisfies

LEMMA KeepsTrueContract == D!TrueContract
<1> SUFFICES ASSUME NEW s \in Solution, NEW c \in Constraint,
                    \A k \in RhsKs(c) : ReadsTrue(s, k),
                    NEW o \in c.rhsK, NEW q \in s[o[2]]
             PROVE  FALSE
  BY SameKs, WellFormed DEF D!TrueContract, D!Soln, Solution, Satisfies
<1>1. o[2] \in KVar /\ ReadsTrue(s, o[2])
  BY OccFacts
<1> QED
  BY <1>1 DEF ReadsTrue, Read

LEMMA KeepsUnsatContract == D!UnsatContract
<1> SUFFICES ASSUME NEW s \in Solution, NEW c \in Constraint, FALSE \in Unsat(s, c),
                    NEW o \in c.rhsK, NEW q \in s[o[2]]
             PROVE  Valid(PredsOfLhs(Read(s), c), SubstPred(q, o[1]))
  BY SameKs, WellFormed DEF D!UnsatContract, D!Soln, Solution, Satisfies
<1>1. Models(PredsOfLhs(Read(s), c)) \subseteq Models(PredsOfRhs(Read(s), c))
  BY DEF Unsat
<1>2. q \in Read(s)[o[2]]
  BY OccFacts DEF Read
<1>3. SubstPred(q, o[1]) \in PredsOfRhs(Read(s), c)
  BY <1>2 DEF PredsOfRhs, PredsOfOccs
<1> QED
  BY <1>1, <1>3 DEF Valid, Models

LEMMA KeepsTopContract == D!TopContract
<1> SUFFICES ASSUME NEW s \in Solution, NEW ks \in SUBSET KVar
             PROVE  /\ Top(s, ks) \in Solution
                    /\ \A k \in KVar \ ks : Top(s, ks)[k] = s[k]
                    /\ \A k \in KVar : Top(s, ks)[k] \subseteq s[k]
                    /\ \A c \in Constraint : RhsKs(c) \subseteq ks => Satisfies(Top(s, ks), c)
  BY SameKs, WellFormed DEF D!TopContract, D!Soln, D!Agree, D!SolnLeq, Weaker, Solution
<1>1. /\ Top(s, ks) \in Solution
      /\ \A k \in KVar \ ks : Top(s, ks)[k] = s[k]
      /\ \A k \in KVar : Top(s, ks)[k] \subseteq s[k]
  BY DEF Top, Solution, Binding
<1>2. ASSUME NEW c \in Constraint, RhsKs(c) \subseteq ks
      PROVE  Satisfies(Top(s, ks), c)
  <2>1. \A o \in c.rhsK : Top(s, ks)[o[2]] = {}
    BY <1>2, OccFacts DEF Top
  <2> QED
    BY <2>1 DEF Satisfies
<1> QED
  BY <1>1, <1>2

\* Predicate abstraction is a domain the solver's iteration is correct for, also
\* if the prover gives up on valid queries.
THEOREM PredAbsKeepsContract == D!DomainContract
<1>1. \A s, c : Unsat(s, c) \subseteq BOOLEAN
  BY DEF Unsat
<1> QED
  BY <1>1, KeepsRefineContract, KeepsSatContract, KeepsStableContract, KeepsTrueContract,
     KeepsUnsatContract, KeepsTopContract DEF D!DomainContract

(***************************************************************************)
(* With a complete prover the qualifiers kept are determined: those that   *)
(* are on the lhs, and unless the constraint is "simple" those that follow *)
(* from it; never one that is false by its syntax.                         *)
(***************************************************************************)
Kept(s, c) ==
    {x \in RhsCands(s, c) :
       /\ PredOf(x) \notin Contra
       /\ \/ PredOf(x) \in PredsOfLhs(Read(s), c)
          \/ ~IsSimple(c) /\ Valid(PredsOfLhs(Read(s), c), PredOf(x))}

Idle(s, c) == RhsCands(s, c) = {} \/ PredsOfLhs(Read(s), c) \cap Contra # {}

LEMMA CompleteRefine ==
  ASSUME ProverComplete, NEW s \in Solution, NEW c \in Constraint, ~Idle(s, c)
  PROVE  Refine(s, c) = {PUpdate(s, c, Kept(s, c))}
<1> DEFINE lps     == PredsOfLhs(Read(s), c)
           cands   == RhsCands(s, c)
           rcs     == {x \in cands : PredOf(x) \notin Contra}
           matched == {x \in rcs : PredOf(x) \in lps}
           queried == IF IsSimple(c) THEN {} ELSE {PredOf(x) : x \in rcs \ matched}
           valid   == {p \in queried : Valid(lps, p)}
<1>1. Refine(s, c) = {PUpdate(s, c, matched \cup {x \in rcs : PredOf(x) \in proved}) :
                        proved \in Proved(lps, queried)}
  BY DEF Refine, Idle
<1>2. Proved(lps, queried) = {valid}
  BY DEF Proved
<1>3. matched \cup {x \in rcs : PredOf(x) \in valid} = Kept(s, c)
  BY DEF Kept
<1> HIDE DEF lps, cands, rcs, matched, queried, valid
<1> QED
  BY <1>1, <1>2, <1>3

LEMMA KeptMonotone ==
  ASSUME NEW f \in Solution, NEW s \in Solution, NEW c \in Constraint,
         \A k \in KVar : f[k] \subseteq s[k]
  PROVE  Kept(f, c) \subseteq Kept(s, c)
<1>1. PredsOfLhs(Read(f), c) \subseteq PredsOfLhs(Read(s), c)
  BY LhsMonotone
<1>2. \A p : Valid(PredsOfLhs(Read(f), c), p) => Valid(PredsOfLhs(Read(s), c), p)
  BY <1>1, ModelsAntitone DEF Valid
<1>3. RhsCands(f, c) \subseteq RhsCands(s, c)
  BY OccFacts DEF RhsCands
<1> QED
  BY <1>1, <1>2, <1>3 DEF Kept

\* With a complete prover a solution that a constraint cannot refine bounds from
\* below every refinement of a stronger one, so that the iteration keeps it.
THEOREM PredAbsMonotone ==
  ASSUME ProverComplete
  PROVE  D!MonotoneContract
<1> SUFFICES ASSUME NEW f \in Solution, NEW s \in Solution, NEW c \in Constraint,
                    NEW r \in Refine(s, c),
                    \A k \in KVar : f[k] \subseteq s[k],
                    \A q \in Refine(f, c) : q.soln = f,
                    NEW k \in KVar, NEW p \in f[k]
             PROVE  p \in r.soln[k]
  BY WellFormed DEF D!MonotoneContract, D!Soln, D!SolnLeq, Weaker, Solution
<1>1. p \in s[k] /\ p \in Qual
  BY DEF Solution, Binding
<1>2. CASE Idle(s, c)
  BY <1>1, <1>2 DEF Refine, Idle
<1>3. CASE ~Idle(s, c)
  <2>1. r = PUpdate(s, c, Kept(s, c))
    BY <1>3, CompleteRefine
  <2>2. ASSUME NEW o \in c.rhsK, o[2] = k
        PROVE  <<o, p>> \in Kept(s, c)
    <3>1. <<o, p>> \in RhsCands(f, c)
      BY <1>1, <2>2 DEF RhsCands
    <3>2. PredsOfLhs(Read(f), c) \cap Contra = {}
      BY <1>3, LhsMonotone DEF Idle
    <3>3. Refine(f, c) = {PUpdate(f, c, Kept(f, c))}
      BY <3>1, <3>2, CompleteRefine DEF Idle
    <3>4. PUpdate(f, c, Kept(f, c)).soln = f
      BY <3>3
    <3>5. <<o, p>> \in Kept(f, c)
      BY <2>2, <3>4, UpdateFacts
    <3> QED
      BY <3>5, KeptMonotone
  <2> QED
    BY <1>1, <2>1, <2>2 DEF PUpdate
<1> QED
  BY <1>2, <1>3
==============================================================================
