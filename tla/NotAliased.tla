------------------------------ MODULE NotAliased ------------------------------
(*****************************************************************************)
(* notAliased.ml: pairs of a concrete and an abstract location such that no  *)
(* pointer to the abstract one can alias the concrete one.  Another fixpoint *)
(* over the blocks, from above, on the annotations that refanno.ml leaves.   *)
(*****************************************************************************)
EXTENDS Refanno

VARIABLES
  nasa,               \* the pairs at every instruction, and after every block
  nasaOld             \* the same before this sweep

naVars == <<vars, nasa, nasaOld>>

Pair(a) == <<a.cl, a.al>>

process_annot(na, a) ==
  CASE a.op \in {"Gen", "WGen"} -> na \ {Pair(a)}
    [] a.op = "NewC"            -> na \cup {Pair(a)}
    [] OTHER                    -> na

\* *v := e, where e points to i.val: the pointers in the store may reach it
process_set(na, i) ==
  IF i.op = "write" /\ i.val # None THEN {x \in na : x[2] # i.val} ELSE na

process_annots(na, anns) ==
  LET after[n \in 0..Len(anns)] == IF n = 0 THEN na ELSE process_annot(after[n - 1], anns[n])
  IN  after[Len(anns)]

\* na after every instruction of a block, and after the block
process_block(na0, instrs, annot) ==
  LET after[n \in 0..Len(instrs)] ==
        IF n = 0 THEN na0 ELSE process_set(process_annots(after[n - 1], annot[n]), instrs[n])
  IN  [nas |-> [n \in 1..Len(instrs) |-> after[n]], na |-> after[Len(instrs)]]

\* the pairs that are open after a block
Open(j) == {<<y[2], y[1]>> : y \in DOMAIN sol[j]}

\* Faulty variant of merge_preds: one predecessor is enough.
merge_preds_some(s, j) == {x \in Open(j) : \E i \in fn.preds[j] : x \in s[i].na}

\* Only what is open after the block is kept, conca pairing what is open before
\* a block with what is open after it.
merge_preds(s, j) ==
  IF fn.preds[j] = {} THEN {}
  ELSE {x \in Open(j) : \A i \in fn.preds[j] : x \in s[i].na}

all_disjoint == {Pair(a) : a \in {b \in UNION {UNION {ToSet(anna[j][k]) : k \in DOMAIN anna[j]}
                                                 : j \in Blocks} : b.op = "NewC"}}

\* Faulty variant of initial_nasa: from below.
initial_nasa_empty == [j \in Blocks |-> [nas |-> [k \in DOMAIN anna[j] |-> {}], na |-> {}]]

initial_nasa == [j \in Blocks |-> [nas |-> [k \in DOMAIN anna[j] |-> all_disjoint],
                                   na |-> all_disjoint]]

-----------------------------------------------------------------------------
NaInit == Init /\ nasa = [j \in DOMAIN fn.preds |-> None] /\ nasaOld = nasa

NaStart ==
  /\ phase = "annotated"
  /\ nasa' = initial_nasa /\ nasaOld' = nasa'
  /\ phase' = "iterate"
  /\ UNCHANGED <<fn, sol, anna, old, at>>

\* A sweep, in place: a block sees what the sweep has done to the blocks before it.
non_aliased_iter_block ==
  /\ phase = "iterate" /\ at \in Blocks
  /\ nasa' = [nasa EXCEPT ![at] = process_block(merge_preds(nasa, at), fn.instrs[at], anna[at])]
  /\ at' = at + 1
  /\ UNCHANGED <<fn, sol, anna, old, phase, nasaOld>>

\* fixed compares the pairs of all blocks
non_aliased_iter_end ==
  /\ phase = "iterate" /\ at \notin Blocks
  /\ phase' = IF nasa = nasaOld THEN "done" ELSE "iterate"
  /\ nasaOld' = nasa /\ at' = 0
  /\ UNCHANGED <<fn, sol, anna, old, nasa>>

NaNext ==
  \/ (annot_iter_block \/ annot_iter_end) /\ UNCHANGED <<nasa, nasaOld>>
  \/ NaStart \/ non_aliased_iter_block \/ non_aliased_iter_end

NaSpec == NaInit /\ [][NaNext]_naVars

-----------------------------------------------------------------------------
(* Properties.                                                               *)

\* A set of blocks such that x is kept by each of them that only they precede,
\* and gained by the others: x holds after them all.
Justifies(B, x) ==
  \A j \in B :
    LET kept == fn.preds[j] # {} /\ fn.preds[j] \subseteq B /\ x \in Open(j)
    IN  x \in process_block(IF kept THEN {x} ELSE {}, fn.instrs[j], anna[j]).na

\* What is returned is the greatest solution, as meant for what must hold on
\* every path: in place and from above, the sweeps stop at no other.  A pair
\* counts after a block if, and only if, some set of blocks justifies it.
GreatestNotAliased ==
  phase = "done" =>
    \A j \in Blocks :
      nasa[j].na = {x \in all_disjoint : \E B \in SUBSET Blocks : j \in B /\ Justifies(B, x)}
=============================================================================
