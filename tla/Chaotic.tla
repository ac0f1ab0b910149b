------------------------------- MODULE Chaotic -------------------------------
(***************************************************************************)
(* What the solver's iteration promises, without worklist, ranks or        *)
(* timestamps: constraints are taken up in any order, each time replacing  *)
(* the solution by one of its refinements; a constraint counts as settled  *)
(* only while the solution satisfies it; and the iteration stops only when *)
(* every constraint it ever took up is settled.                            *)
(***************************************************************************)
CONSTANTS Ids, Constraints, Soln, DomRefine(_, _), DomSat(_, _)

VARIABLES phase, cnst, soln, taken, settled

vars == <<phase, cnst, soln, taken, settled>>

Init ==
    /\ phase = "start"
    /\ soln \in Soln
    /\ taken = {} /\ settled = {}

\* The input is fixed and the initial solution adjusted before the iteration.
Prepare ==
    /\ phase = "start"
    /\ phase' \in {"start", "run"}
    /\ \E I \in SUBSET Ids : cnst' \in [I -> Constraints]
    /\ soln' \in Soln
    /\ UNCHANGED <<taken, settled>>

Refine(i) ==
    /\ phase = "run"
    /\ \E r \in DomRefine(soln, cnst[i]) : soln' = r.soln
    /\ taken' = taken \cup {i}
    /\ settled' \subseteq {j \in settled \cup {i} : DomSat(soln', cnst[j])}
    /\ UNCHANGED <<phase, cnst>>

Stop ==
    /\ phase = "run"
    /\ taken \subseteq settled
    /\ phase' = "stop"
    /\ UNCHANGED <<cnst, soln, taken, settled>>

Next == Prepare \/ (\E i \in DOMAIN cnst : Refine(i)) \/ Stop

Spec == Init /\ [][Next]_vars
==============================================================================
