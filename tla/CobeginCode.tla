------------------------------ MODULE CobeginCode ------------------------------
(*****************************************************************************)
(* The sequential code the macros of lib/cpj.h expand to, at the grain of the*)
(* calls of nondet: a cobegin tests its routines in turn, over and over, and *)
(* a foreach picks an index with nondetrange as long as it goes on.          *)
(*****************************************************************************)
EXTENDS AnyOrder

CONSTANTS
  N,                  \* routines of the cobegin, 1..N, or the range 1..N of the foreach
  NondetValues        \* what nondet may return

\* the contract of nondet says nothing of the int it returns
CobeginCodeAssumption ==
  /\ N \in Nat /\ Routines = 1..N
  /\ NondetValues \subseteq Int /\ 0 \in NondetValues /\ NondetValues # {0}

VARIABLES
  construct,          \* the block is a "cobegin" or a "foreach"
  at                  \* the RTN tested next; N + 1 is COEND, or the head of the foreach

vars == <<mem, left, construct, at>>

nondet(answer) == \E v \in NondetValues : (v # 0) = answer

CodeInit ==
  /\ Init
  /\ construct \in {"cobegin", "foreach"}
  /\ at = IF construct = "cobegin" THEN 1 ELSE N + 1

\* if (nondet ()) { s; }
RtnTaken ==
  /\ construct = "cobegin" /\ ~left /\ at \in Routines
  /\ nondet(TRUE)
  /\ mem' = RunOf(at, mem)
  /\ at' = at + 1 /\ UNCHANGED <<left, construct>>

\* Faulty variant of RtnSkipped: a routine is run whatever nondet says.
RtnAlwaysRuns ==
  /\ construct = "cobegin" /\ ~left /\ at \in Routines
  /\ mem' = RunOf(at, mem)
  /\ at' = at + 1 /\ UNCHANGED <<left, construct>>

RtnSkipped ==
  /\ construct = "cobegin" /\ ~left /\ at \in Routines
  /\ nondet(FALSE)
  /\ at' = at + 1 /\ UNCHANGED <<mem, left, construct>>

\* if (nondet ()) { break; } }
CoendBreaks ==
  /\ construct = "cobegin" /\ ~left /\ at = N + 1
  /\ nondet(TRUE)
  /\ left' = TRUE /\ UNCHANGED <<mem, construct, at>>

\* Faulty variant of CoendRepeats: the routines are not in a loop.
CoendRunsOn ==
  /\ construct = "cobegin" /\ ~left /\ at = N + 1
  /\ left' = TRUE /\ UNCHANGED <<mem, construct, at>>

CoendRepeats ==
  /\ construct = "cobegin" /\ ~left /\ at = N + 1
  /\ nondet(FALSE)
  /\ at' = 1 /\ UNCHANGED <<mem, left, construct>>

\* Faulty variant of ForeachIteration: nondetrange never gives the last index.
ForeachIterationShort(i) ==
  /\ construct = "foreach" /\ ~left
  /\ nondet(TRUE)
  /\ i < N /\ mem' = RunOf(i, mem)
  /\ UNCHANGED <<left, construct, at>>

\* while (nondet ()) { i = nondetrange (l, u); ... }
ForeachIteration(i) ==
  /\ construct = "foreach" /\ ~left
  /\ nondet(TRUE)
  /\ i \in Routines /\ mem' = RunOf(i, mem)
  /\ UNCHANGED <<left, construct, at>>

ForeachEnd ==
  /\ construct = "foreach" /\ ~left
  /\ nondet(FALSE)
  /\ left' = TRUE
  /\ UNCHANGED <<mem, construct, at>>
=============================================================================
