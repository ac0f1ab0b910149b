----------------------------- MODULE MCSequential -----------------------------
(*****************************************************************************)
(* The sequential components for TLC: `part` says which of them runs, and the*)
(* others keep one of their initial states.                                  *)
(*****************************************************************************)
EXTENDS Demos, NotAliased

VARIABLES
  libPc, libCall, libValue,
  heap, popped

\* `part` may also be "libcsolve", "heaps" or "shape"
libcsolve  == <<libPc, libCall, libValue>>
heaps      == <<heap, popped>>
mcVars     == <<part, csv, stringlist, libcsolve, heaps, naVars>>

\* pointers to, into and beyond a block
MCBlocks == LET block(here) == [begin |-> 2, end |-> 5, at |-> here]
            IN  {[begin |-> 0, end |-> 0, at |-> 0]} \cup {block(here) : here \in 1..6}

L == INSTANCE Libcsolve WITH
       W <- 5, Blocks <- MCBlocks, pc <- libPc, call <- libCall, value <- libValue

\* keys of one entry and of two, in a heap of up to four rows
H == INSTANCE Heaps WITH
       Entries <- (1..3) \X {1, 2} \cup {4, 5} \X {1}, MaxSize <- 7

ASSUME L!LibcsolveAssumption

-----------------------------------------------------------------------------
(* The functions whose annotations are computed: a branch, a loop, a loop in *)
(* a loop, and a loop to begin with, with an instruction or none in a block. *)
(* The locations p and q are opened for pointers to A, "m1" by a malloc and  *)
(* "n1" by a call in block 1; g is a global's.                               *)

Instr(op, al, cl) == [op |-> op, al |-> al, cl |-> cl, val |-> None, news |-> <<>>]

Skip    == {<<>>}
Reads   == {<<Instr("read", "A", cl)>> : cl \in {"p", "q"}}
Writes  == {<<[Instr("write", "A", "p") EXCEPT !.val = al]>> : al \in {None, "A"}}
Mallocs == {<<Instr("malloc", "A", "m")>>}
CallsOf == {<<[Instr("call", None, None) EXCEPT !.news = <<[al |-> "A", cl |-> cl]>>]>>
              : cl \in {None, "n"}}
Each    == Skip \cup Reads \cup Writes \cup Mallocs \cup CallsOf
           \cup {<<[Instr("write", "B", "g") EXCEPT !.val = "A"]>>, <<Instr("fold", None, None)>>}

\* cloc_of_position: a location of its own for every malloc and call
Located(instrs, j) ==
  LET cloc(cl) == IF cl \in {"m", "n"} THEN cl \o ToString(j) ELSE cl
  IN  [k \in DOMAIN instrs |->
         [instrs[k] EXCEPT !.cl = cloc(@),
                           !.news = [i \in DOMAIN @ |-> [@[i] EXCEPT !.cl = cloc(@)]]]]

FunctionsOf(preds, choices) ==
  {[preds |-> [j \in 0..(Len(preds) - 1) |-> preds[j + 1]],
    instrs |-> [j \in 0..(Len(preds) - 1) |-> Located(b[j + 1], j)]] : b \in choices}

\* the first block is the head of a loop
LoopsFirst ==
  FunctionsOf(<<{2, 3}, {0}, {1}, {1}>>,
              Skip \X (Reads \cup Mallocs) \X (Skip \cup Mallocs \cup CallsOf) \X Each)

MCFunctions ==
  LoopsFirst
  \cup FunctionsOf(<<{}, {0}, {0}, {1, 2}>>,
                   (Reads \cup Mallocs) \X Each \X Each \X (Skip \cup CallsOf))
  \cup FunctionsOf(<<{}, {0, 2}, {1}, {1}>>,
                   (Skip \cup Reads \cup Mallocs) \X (Skip \cup Mallocs \cup CallsOf) \X Each \X CallsOf)
  \cup FunctionsOf(<<{}, {0, 4}, {1, 3}, {2}, {2}, {1}>>,
                   (Reads \cup Mallocs) \X Skip \X (Skip \cup Reads) \X (Writes \cup Mallocs \cup CallsOf)
                   \X (Skip \cup Reads) \X (Skip \cup CallsOf))

MCLocs == {"A", "B", "p", "q", "g"} \cup {cl \o ToString(j) : cl \in {"m", "n"}, j \in 0..5}

ASSUME EntersFirst(MCFunctions \ LoopsFirst)

OneFunction == CHOOSE f \in MCFunctions : TRUE

-----------------------------------------------------------------------------
MCInit ==
  /\ part \in {"csv", "stringlist", "libcsolve", "heaps", "shape"}
  /\ NaInit /\ (part # "shape" => fn = OneFunction)
  /\ (part # "csv" => csvLen = 1 /\ csvInput = [i \in {0} |-> "a"]) /\ C!Init
  /\ T!Init /\ L!Init /\ H!Init

DemoStep(B) == B /\ UNCHANGED <<libcsolve, heaps, naVars>>

LibStep(B) == part = "libcsolve" /\ B /\ UNCHANGED <<part, csv, stringlist, heaps, naVars>>

HeapStep == part = "heaps" /\ H!Next /\ UNCHANGED <<part, csv, stringlist, libcsolve, naVars>>

ShapeStep == part = "shape" /\ NaNext /\ UNCHANGED <<part, csv, stringlist, libcsolve, heaps>>

\* The two demos and the fixpoints run until they end, and so does a call of
\* libcsolve.c, but nothing makes a program call it, push or pop.
MCSpec ==
  /\ MCInit
  /\ [][DemoStep(CsvStep \/ StringStep) \/ LibStep(L!Next) \/ HeapStep \/ ShapeStep]_mcVars
  /\ WF_mcVars(DemoStep(CsvStep)) /\ WF_mcVars(DemoStep(StringStep))
  /\ WF_mcVars(LibStep(L!Return \/ L!Exit)) /\ WF_mcVars(ShapeStep)

-----------------------------------------------------------------------------
\* Called as they may be, libcsolve.c's bodies keep their contracts, but for the
\* calls of which the next two properties tell, and heaps.ml the one its functions
\* rely on: the tag of a node tells the sizes of its subtrees.
OtherContractsKept == L!OtherContractsKept /\ H!Balanced

\* csolve.h, "REF(V >= l) REF(V < u) REF(V >= 0)": what nondetrange returns.
NondetrangeKept == L!NondetrangeKept

\* csolve.h, "int REF(b = 1) csolve_assume (int b)": the program goes on after
\* csolve_assume only if 1 was passed.
AssumeKept == L!AssumeKept

\* heaps.ml: the heap is the queue the worklist needs, which gives out a greatest
\* entry and loses none.
ImplementsQueue == H!ImplementsQueue

\* Both demos end, each iteration takes a char, a field, a string; calls of
\* libcsolve.c end but for those that are to spin; and both fixpoints are
\* reached, also where a loop opens what it closes.
RunsEnd ==
  /\ <>(/\ part = "csv" => csvPc = "done"
        /\ part = "stringlist" => strPc = "done"
        /\ part = "shape" => phase = "done")
  /\ L!CallsEnd
===============================================================================
