------------------------------ MODULE MCIndices ------------------------------
(***************************************************************************)
(* Indices: their operators, and the solver over the index domain, on      *)
(* constants, copies, steps x + 4 and x - 1, and loops of these with and   *)
(* without a bound, over two kvars.  `part` says which of them runs.       *)
(***************************************************************************)
EXTENDS Solve, IndexDomain, MCIndexEval

CONSTANTS k1, k2

VARIABLE part       \* "operators" or "iteration"

MCKVar == {k1, k2}
MCTags == {0}

\* The integers looked at: more than two loops over both kvars can reach.
MCRounds == 2 * (HistoryLen + 3)
MCReach  == -MCRounds .. 4 * MCRounds

\* v = n, v <= n, and v = x + n for an x of kvar k
Eq(n) == <<"eq", n>>
Le(n) == <<"le", n>>
Inc(k, n) == <<"inc", k, n>>

MCPred == {Eq(n) : n \in {0, 3}} \cup {Le(7)}
          \cup {Inc(k, n) : k \in MCKVar, n \in {-1, 4}}

MCPredIndex(read, p) ==
    CASE p[1] = "eq"  -> IInt(p[2])
      [] p[1] = "le"  -> Below(0, IInt(p[2]))
      [] p[1] = "inc" -> Plus(read[p[2]], IInt(p[3]))

\* The integers the predicate allows, if x is of the integers of its kvar.
Allows(read, p, v) ==
    CASE p[1] = "eq"  -> v = p[2]
      [] p[1] = "le"  -> v <= p[2]
      [] p[1] = "inc" -> v - p[3] \in read[p[2]]

MCSubstPred(p, u) == p

C(env, lhsP, lhsK, rhsK) ==
    [guard |-> {}, env |-> env, lhsP |-> lhsP, lhsK |-> lhsK,
     rhsP |-> {}, rhsK |-> rhsK, tag |-> 0]

Id(k) == <<"id", k>>

\* Loops go one way: with a loop up and a loop down on the same kvar, the
\* worklist alternates between them, no bound moves at every step of a history,
\* and the solver would not stop.
OneWay(b, c) == ~ \E j, k \in MCKVar : Inc(j, 4) \in b.lhsP \cup c.lhsP
                                      /\ Inc(k, -1) \in b.lhsP \cup c.lhsP

\* The first constraint starts k1, alone or with k2: the kvars are otherwise
\* alike.
Entry == {C({}, {Eq(n)}, {}, {Id(k)}) : n \in {0, 3}, k \in MCKVar}
Both  == C({}, {Eq(0)}, {}, {Id(k1), Id(k2)})
Copy  == {C({}, lhs, {Id(j)}, {Id(k)}) : lhs \in {{}, {Le(7)}}, j, k \in MCKVar}
Step  == {C({Id(j)}, {Inc(j, n)}, {}, {Id(k)}) : n \in {-1, 4}, j, k \in MCKVar}

MCConstraints == Entry \cup {Both} \cup Copy \cup Step

MCSystems ==
    {<<a, b, c>> \in {C({}, {Eq(0)}, {}, {Id(k1)}), Both}
                     \X (Copy \cup Step) \X (Entry \cup Copy \cup Step) : OneWay(b, c)}

MCStarts == {[k \in MCKVar |-> <<Bot>>]}

\* One of the two runs.  The other is left where it is, the operators at a
\* negative constant, of which their invariants say nothing.
MCInit ==
    /\ \/ part = "operators" /\ EvalInit /\ cs = CHOOSE cm \in MCSystems : TRUE
       \/ part = "iteration" /\ ix = IInt(-1) /\ ints = {} /\ ops = MaxOps
    /\ Init

Operators == part = "operators" /\ EvalNext /\ UNCHANGED <<part, vars>>

Iteration == part = "iteration" /\ Next /\ UNCHANGED <<part, evalVars>>

mcVars == <<part, vars, evalVars>>

MCSpec == MCInit /\ [][Operators \/ Iteration]_mcVars /\ WF_mcVars(Iteration)

------------------------------------------------------------------------------
\* The integers of every kvar, and those a constraint's lhs allows.
Ints == [k \in MCKVar |-> Members(Head(soln[k]), MCReach)]

LhsInts(c) ==
    LET of == Ints
    IN  {v \in MCReach : /\ \A p \in c.lhsP : Allows(of, p, v)
                        /\ \A o \in c.lhsK : v \in of[o[2]]}

Covered(c) == \A k \in RhsKs(c) : LhsInts(c) \subseteq Ints[k]

\* A constraint that was refined and is not due again holds of the integers
\* themselves: the values of its lhs are among those of its kvars.
SettledCovers == \A i \in Settled : Covered(cnst[i])

\* refine_store widens: a loop that keeps moving a bound has it given up once
\* every step of a full history moved it, so that no finite bound gets far.
GrowthIsWidened ==
    \A k \in MCKVar :
        LET i == Head(soln[k])
        IN  IsClass(i) => /\ i.ub # None => i.ub <= 4 * MCRounds
                          /\ i.lb # None => i.lb >= -MCRounds

\* No kvar has a negative integer or a remainder that is none.
Natural ==
    \A k \in KVar : WellFormed(Head(soln[k])) /\ Ints[k] \subseteq Nat

\* indexDomain.ml, unsat: "true if the constraint is unsatisfied".  Where no
\* integer is negative, what is reported does not hold of the integers.  (Of
\* negative integers is_subindex compares remainders that may be negative: {3}
\* is not found in {-1, 3}, and reported.)
UnsatsAreReal == \A i \in unsats : Natural => ~Covered(cnst[i])

\* The solver returns: widening leaves no loop that goes on for ever.
IterationEnds == part = "iteration" => Termination
===============================================================================
