-------------------------------- MODULE Refanno --------------------------------
(*****************************************************************************)
(* refanno.ml: which concrete locations stand for which abstract ones along  *)
(* a function.  A fixpoint over its blocks, in the order of their numbers,   *)
(* computes for every block the concrete locations that are open after it,   *)
(* and the annotations that open (Ins, NewC) and close (Gen, WGen) them.     *)
(*                                                                           *)
(* A conc maps pairs of an abstract and a concrete location to what was done *)
(* since the location was opened, "Read" or "Write".  The numbers of tags    *)
(* only tell their uses in consInfra.ml apart and are left out.              *)
(*****************************************************************************)
EXTENDS Integers, FiniteSets, SequencesExt

CONSTANTS
  Functions,          \* the functions analysed, records of
                      \*   preds:  the predecessors of every block 0..n-1
                      \*   instrs: the instructions of every block
  Locs,               \* abstract and concrete locations
  GlobalLocs,         \* abstract locations of globals
  None                \* a block that was not reached, no location

\* Reads, writes and mallocs open a location; a call's are those of its store.
IsInstruction(i) ==
  /\ i \in [op : {"read", "write", "malloc", "call", "fold"}, al : Locs \cup {None},
           cl : Locs \cup {None}, val : Locs \cup {None}, news : Seq([al : Locs, cl : Locs \cup {None}])]
  /\ i.op \in {"read", "write", "malloc"} => i.al \in Locs /\ i.cl \in Locs

IsFunction(f) ==
  /\ IsFiniteSet(DOMAIN f.preds) /\ DOMAIN f.preds = 0..(Cardinality(DOMAIN f.preds) - 1)
  /\ f.preds \in [DOMAIN f.preds -> SUBSET DOMAIN f.preds]
  /\ DOMAIN f.instrs = DOMAIN f.preds
  /\ \A j \in DOMAIN f.preds :
       LET is == f.instrs[j] IN is \in Seq(ToSet(is)) /\ \A k \in 1..Len(is) : IsInstruction(is[k])

ASSUME RefannoAssumption ==
  IsFiniteSet(Locs) /\ GlobalLocs \subseteq Locs /\ \A f \in Functions : IsFunction(f)

VARIABLES
  fn,                 \* the function analysed
  sol, anna,          \* conc and annotations of every block
  old,                \* the solution before this sweep
  at,                 \* the block the sweep is at
  phase               \* "annotate", then that of the analyses that follow

vars == <<fn, sol, anna, old, at, phase>>

Blocks == DOMAIN fn.preds

-----------------------------------------------------------------------------
(* Operations on conc-maps.                                                  *)

conc_size(conc) == Cardinality(DOMAIN conc)

clocs_of_aloc(conc, al) == {x[2] : x \in {y \in DOMAIN conc : y[1] = al}}

\* What is open after every predecessor; blocks that were not reached yet are
\* left out.
conc_of_predecessors(s, js) ==
  LET concs == {s[j] : j \in {i \in js : s[i] # None}}
  IN  [x \in {y \in UNION {DOMAIN c : c \in concs} : \A c \in concs : y \in DOMAIN c} |->
         IF \A c \in concs : c[x] = "Read" THEN "Read" ELSE "Write"]

set_rw(conc, al, cl, rw) ==
  [x \in DOMAIN conc \cup {<<al, cl>>} |-> IF x = <<al, cl>> THEN rw ELSE conc[x]]

Annot(op, al, cl) == [op |-> op, al |-> al, cl |-> cl]

\* A step of the analysis within a block: a conc and the annotations so far.
\* Every concrete location of al is closed; what was only read, weakly.
generalize(st, al) ==
  LET c == st.conc
  IN  [conc |-> [x \in {y \in DOMAIN c : y[1] # al} |-> c[x]],
       anns |-> st.anns \o SetToSeq({Annot(IF c[<<al, cl>>] = "Write" THEN "Gen" ELSE "WGen", al, cl)
                                       : cl \in clocs_of_aloc(c, al)})]

Opened(st, op, al, cl, rw) ==
  [conc |-> set_rw(st.conc, al, cl, rw), anns |-> Append(st.anns, Annot(op, al, cl))]

instantiate(op, st, al, cl, rw) ==
  LET cls == clocs_of_aloc(st.conc, al)
  IN  IF cls = {} THEN Opened(st, op, al, cl, rw)
      ELSE IF cl \in cls
           THEN IF rw = "Write" THEN [st EXCEPT !.conc = set_rw(@, al, cl, rw)] ELSE st
           ELSE Opened(generalize(st, al), op, al, cl, rw)

-----------------------------------------------------------------------------
(* Instructions: a read or write of *v, where v points to al and the location*)
(* opened for v is cl; malloc; a call with the locations of its store, and   *)
(* a concrete one where the callee's is concrete; and csolve_fold_all.  All  *)
(* others have no pointer to follow.                                         *)

concretize_new(st, new) ==
  IF new.cl # None THEN instantiate("NewC", st, new.al, new.cl, "Write")
  ELSE LET g == generalize(st, new.al)
       IN  [g EXCEPT !.anns = Append(@, Annot("New", new.al, None))]

\* the locations of a call's store, one after the other
concretize_all(st, news) ==
  LET after[n \in 0..Len(news)] == IF n = 0 THEN st ELSE concretize_new(after[n - 1], news[n])
  IN  after[Len(news)]

\* the abstract locations of a set, closed one after the other
GeneralizeAll(st, als) ==
  LET list == SetToSeq(als)
      after[n \in 0..Len(list)] == IF n = 0 THEN st ELSE generalize(after[n - 1], list[n])
  IN  after[Len(list)]

annotate_instr(st, i) ==
  CASE i.op = "read"   -> instantiate("Ins", st, i.al, i.cl, "Read")
    [] i.op = "write"  -> instantiate("Ins", st, i.al, i.cl, "Write")
    [] i.op = "malloc" -> Opened(st, "NewC", i.al, i.cl, "Write")
    [] i.op = "call"   -> GeneralizeAll(concretize_all(st, i.news), GlobalLocs)
    [] i.op = "fold"   -> GeneralizeAll(st, {x[1] : x \in DOMAIN st.conc})

\* conc after a block and, for every instruction, its annotations
annotate_block(conc, instrs) ==
  LET after[n \in 0..Len(instrs)] ==
        IF n = 0 THEN [conc |-> conc, anns |-> <<>>]
        ELSE annotate_instr([conc |-> after[n - 1].conc, anns |-> <<>>], instrs[n])
  IN  [conc |-> after[Len(instrs)].conc, anns |-> [n \in 1..Len(instrs) |-> after[n].anns]]

-----------------------------------------------------------------------------
(* Fixpoint.                                                                 *)

\* Every block comes after one of its predecessors, if it has any.  cfg_check,
\* which nothing calls, asks this of all blocks but the first, which has
\* predecessors where a function begins with a loop.
EntersFirst(fs) ==
  \A f \in fs : \A j \in DOMAIN f.preds : f.preds[j] = {} \/ \E i \in f.preds[j] : i < j

Init ==
  /\ fn \in Functions
  /\ sol = [j \in DOMAIN fn.preds |-> None]
  /\ anna = [j \in DOMAIN fn.preds |-> <<>>]
  /\ old = sol /\ at = 0
  /\ phase = "annotate"

\* the conc a block starts with
ConcIn(s, j) == conc_of_predecessors(s, fn.preds[j])

\* A sweep goes through the blocks in the order of their numbers, and each
\* sees what the sweep has already done.
annot_iter_block ==
  /\ phase = "annotate" /\ at \in Blocks
  /\ LET b == annotate_block(ConcIn(sol, at), fn.instrs[at])
     IN  sol' = [sol EXCEPT ![at] = b.conc] /\ anna' = [anna EXCEPT ![at] = b.anns]
  /\ at' = at + 1
  /\ UNCHANGED <<fn, old, phase>>

\* Faulty variant of soln_diff: only which blocks were reached is compared.
soln_diff_reached(s, t) == \E j \in Blocks : (s[j] = None) # (t[j] = None)

soln_diff(s, t) ==
  \E j \in Blocks : (s[j] = None) # (t[j] = None) \/ conc_size(s[j]) # conc_size(t[j])

annot_iter_end ==
  /\ phase = "annotate" /\ at \notin Blocks
  /\ phase' = IF soln_diff(old, sol) THEN "annotate" ELSE "annotated"
  /\ old' = sol /\ at' = 0
  /\ UNCHANGED <<fn, sol, anna>>

-----------------------------------------------------------------------------
(* Properties, once the iteration has stopped (annots_of_sol).               *)

\* the annotations that tell what a block opens and closes
Locations(anns) ==
  [k \in DOMAIN anns |->
     [m \in DOMAIN anns[k] |->
        IF anns[k][m].op = "WGen" THEN [anns[k][m] EXCEPT !.op = "Gen"] ELSE anns[k][m]]]

\* INVARIANT 1 of refanno.mli, for the locations alone: the sizes that
\* soln_diff compares tell when they are stable.  From what is open before a
\* block its annotations lead to what is open after it, in the order of the
\* sweep, which read some predecessors before they were swept themselves.
LocationsStable ==
  phase # "annotate" =>
    \A j \in Blocks :
      LET b == annotate_block(ConcIn(sol, j), fn.instrs[j])
      IN  /\ DOMAIN b.conc = DOMAIN sol[j]
          /\ Len(b.anns) = Len(anna[j])
          /\ \A k \in DOMAIN b.anns : ToSet(Locations(b.anns)[k]) = ToSet(Locations(anna[j])[k])

\* INVARIANT 1 of refanno.mli, "forall blocks i, Upd(Ci(i), B(i)) = Co(i)", of
\* maps with their tags, on which it depends whether Gen or WGen closes a
\* location.
Invariant1 ==
  phase # "annotate" =>
    \A j \in Blocks : annotate_block(ConcIn(sol, j), fn.instrs[j]).conc = sol[j]
=============================================================================
