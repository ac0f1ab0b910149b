-------------------------------- MODULE Cindex --------------------------------
(***************************************************************************)
(* The constraint index, external/fixpoint/cindex.ml: dependencies between *)
(* constraints, the slice of those a concrete obligation depends on, the   *)
(* SCC ranks that order the worklist, and its first content.               *)
(*                                                                         *)
(* A system of constraints is a function cm from ids to constraints.       *)
(***************************************************************************)
EXTENDS FixConstraint

CONSTANTS
    Kuts,       \* the cut kvars of the configuration
    AddDeps,    \* Adp (t, t'): tag pairs whose constraints become dependent
    DelDeps,    \* Ddp (t, t'): tag pairs whose dependency is forgotten
    DelSrc,     \* Ddp_s t: tags without outgoing dependencies
    DelTgt      \* Ddp_t t: tags without incoming dependencies

(***************************************************************************)
(* make_deps: the successors of i are the constraints that read an unknown *)
(* i writes.  Dependencies are maps from ids to successors throughout.     *)
(***************************************************************************)
Deps(cm) ==
    [i \in DOMAIN cm |-> {j \in DOMAIN cm : RhsKs(cm[i]) \cap LhsKs(cm[j]) # {}}]

(***************************************************************************)
(* The user's tag dependencies, applied for the ranks only.                *)
(***************************************************************************)
MatchesDeps(t, u) == <<t, u>> \in DelDeps \/ t \in DelSrc \/ u \in DelTgt

AdjustDeps(cm, dm) ==
    [i \in DOMAIN cm |->
       {j \in dm[i] : ~MatchesDeps(cm[i].tag, cm[j].tag)}
       \cup {j \in DOMAIN cm : <<cm[i].tag, cm[j].tag>> \in AddDeps}]

(***************************************************************************)
(* j is reached from i along the map dm iff every set that holds i and is  *)
(* closed under dm holds j.                                                *)
(***************************************************************************)
Closed(dm, S) == \A i \in S : dm[i] \subseteq S

Reach(dm) ==
    LET closed == {S \in SUBSET DOMAIN dm : Closed(dm, S)}
    IN  [i \in DOMAIN dm |-> {j \in DOMAIN dm : \A S \in closed : i \in S => j \in S}]

\* Faulty variant of Lives: only the direct dependencies are kept.
LivesOneStep(cm, dm) ==
    {i \in DOMAIN cm : \E j \in dm[i] \cup {i} : IsConcRhs(cm[j])}

(***************************************************************************)
(* make_lives: the constraints a concrete right-hand side transitively     *)
(* depends on.                                                             *)
(***************************************************************************)
Lives(cm, dm) ==
    LET reach == Reach(dm)
    IN  {i \in DOMAIN cm : \E j \in reach[i] : IsConcRhs(cm[j])}

(***************************************************************************)
(* Fcommon.scc_rank numbers the vertices so that two of them have the same *)
(* number iff they are in the same SCC, and numbers never grow along an    *)
(* edge.  Which such numbering comes out is the graph library's choice.    *)
(***************************************************************************)
SccRanks(dm) ==
    LET V     == DOMAIN dm
        reach == Reach(dm)
    IN  {r \in [V -> 0 .. Cardinality(V) - 1] :
           /\ \A i \in V : \A j \in dm[i] : r[i] >= r[j]
           /\ \A i, j \in V : r[i] = r[j] <=> (j \in reach[i] /\ i \in reach[j])
           /\ \A i \in V : r[i] = 0 \/ \E j \in V : r[j] = r[i] - 1}

IsCut(c) == RhsKs(c) \cap Kuts # {}

InnerRanks(cm, dm, ranks) ==
    IF Kuts = {} THEN {ranks}
    ELSE SccRanks([i \in DOMAIN cm |->
                     {j \in dm[i] : ~(IsCut(cm[i]) /\ ranks[i] = ranks[j])}])

Rank == [scc : Nat, iscc : Nat, simpl : BOOLEAN, cut : BOOLEAN, tag : Tags]

(***************************************************************************)
(* The rank maps create_raw may build (make_ranks, make_rankm).            *)
(***************************************************************************)
RankMaps(cm, dm) ==
    LET deps == AdjustDeps(cm, dm)
    IN  UNION {{[i \in DOMAIN cm |->
                   [scc |-> r[i], iscc |-> ir[i], simpl |-> IsSimple(cm[i]),
                    cut |-> Kuts # {} /\ IsCut(cm[i]), tag |-> cm[i].tag]] :
                 ir \in InnerRanks(cm, deps, r)} :
               r \in SccRanks(deps)}

(***************************************************************************)
(* Worklist entries are pairs <<timestamp, id>>.  Lower(rk, e, f) is       *)
(* WH's compare e f < 0: the heap gives out a maximum.                     *)
(***************************************************************************)
Bit(b) == IF b THEN 1 ELSE 0

\* Faulty variant of Lower: the timestamp is compared before the SCC.
LowerTimeFirst(rk, e, f) ==
    \/ e[1] > f[1]
    \/ e[1] = f[1] /\ rk[e[2]].scc < rk[f[2]].scc

Lower(rk, e, f) ==
    LET r == rk[e[2]]
        s == rk[f[2]]
    IN  \/ r.scc < s.scc
        \/ r.scc = s.scc /\ e[1] > f[1]
        \/ r.scc = s.scc /\ e[1] = f[1] /\ r.iscc < s.iscc
        \/ r.scc = s.scc /\ e[1] = f[1] /\ r.iscc = s.iscc /\ r.tag < s.tag
        \/ /\ r.scc = s.scc /\ e[1] = f[1] /\ r.iscc = s.iscc /\ r.tag = s.tag
           /\ Bit(r.simpl) < Bit(s.simpl)

Maxima(rk, w) == {e \in w : \A f \in w : ~Lower(rk, e, f)}

\* Faulty variant of Roots: one root for the whole index.
RootsLeast(rk) == {i \in DOMAIN rk : \A j \in DOMAIN rk : i <= j}

(***************************************************************************)
(* roots: of every SCC the constraint with the least id, whichever SCCs    *)
(* depend on which (the test against me.rts is commented out).             *)
(***************************************************************************)
Roots(rk) ==
    {i \in DOMAIN rk : \A j \in DOMAIN rk : rk[i].scc = rk[j].scc => i <= j}
==============================================================================
