------------------------------ MODULE MCSolvePred ------------------------------
(***************************************************************************)
(* The solver over predicate abstraction, on every system of up to three   *)
(* constraints drawn from a menu, and on a few larger ones.  The programs  *)
(* have one variable v with values 0..2; the substitution "inc" is         *)
(* [v := v + 1], so that a kvar at the head of a loop can be written at    *)
(* its end.                                                                *)
(***************************************************************************)
EXTENDS SolveProofs, PredAbs, TLC

CONSTANTS k1, k2

MCKVar  == {k1, k2}
MCEnv   == 0 .. 2
MCSubst == {"id", "inc"}
MCTags  == 0 .. 1

\* A predicate is a name under a substitution.  lo: v <= 1, nz: v >= 1,
\* ff: false; zero: v = 0, which is not a qualifier.
P(name) == <<name, "id">>

MCPred == {"lo", "nz", "ff", "zero"} \X MCSubst

MCQual == {P("lo"), P("nz"), P("ff")}

MCSubstPred(p, u) == <<p[1], u>>

Extension(name) == CASE name = "lo"   -> {0, 1}
                     [] name = "nz"   -> {1, 2, 3}
                     [] name = "ff"   -> {}
                     [] name = "zero" -> {0}

MCHolds == [p \in MCPred |->
              {v \in MCEnv : (IF p[2] = "id" THEN v ELSE v + 1) \in Extension(p[1])}]

MCContra == {p \in MCPred : p[1] = "ff"}

NoAssm == [k \in MCKVar |-> {}]
SomeAssm == [k \in MCKVar |-> IF k = k1 THEN {P("nz")} ELSE {}]

C(guard, env, lhsK, rhsP, rhsK, tag) ==
    [guard |-> guard, env |-> env, lhsP |-> {}, lhsK |-> lhsK,
     rhsP |-> rhsP, rhsK |-> rhsK, tag |-> tag]

Id(k)  == <<"id", k>>
Inc(k) == <<"inc", k>>

Base == {C({P("zero")}, {}, {}, {}, {Id(k)}, 0) : k \in MCKVar}
\* The lhs says where v is; without occurrences and substitutions it is a
\* "simple" constraint, of which only the syntax is looked at.
Entry == {[b EXCEPT !.guard = {}, !.lhsP = {P("zero")}] : b \in Base}
Copy == {C({}, {}, {Id(j)}, {}, {Id(k)}, 0) : j, k \in MCKVar}
Step == {C({}, {Id(j)}, {}, {}, {Inc(k)}, 1) : j, k \in MCKVar}
Twice == {C({}, {Id(j)}, {}, {}, {Id(k1), Inc(k1), Id(k2)}, 1) : j \in MCKVar}
Goal == {C({}, {Id(k)}, {}, {p}, {}, 0) : k \in MCKVar, p \in {P("lo")}}

MCConstraints == Base \cup Entry \cup Copy \cup Step \cup Twice \cup Goal

\* Three constraints of which one is an obligation, and loops: one copies k2 to
\* k1 or back, one steps, one enters, and k1 or k2 is to stay below 2.
MCSystems ==
    {cm \in [1 .. 3 -> MCConstraints] : \E i \in 1 .. 3 : cm[i] \in Goal}
    \cup {<<a, b, c, d>> : a \in Copy, b \in Step, c \in Base \cup Entry, d \in Goal}

\* One constraint of every kind, for the run in which the prover may give up.
MCSmallSystems ==
    {<<a, b, g>> : a \in Base \cup Entry \cup Copy \cup Twice, b \in Step \cup Twice, g \in Goal}

\* The user's dependencies, for the run that has some: k1 is cut, steps (tag 1)
\* come before everything else, and nothing else before them.
MCKuts == {k1}
MCAddDeps == {<<1, 0>>}
MCDelDeps == {<<0, 1>>}

MCStarts == {[k \in MCKVar |-> MCQual], [k \in MCKVar |-> {P("lo")}]}
===============================================================================
