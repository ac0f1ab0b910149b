------------------------------ MODULE Libcsolve ------------------------------
(*****************************************************************************)
(* lib/libcsolve.c: the bodies of the functions by which a program talks to  *)
(* the analysis, against the contracts lib/csolve.h gives them.  The analysis*)
(* trusts the contracts; a program that is compiled runs the bodies.         *)
(*****************************************************************************)
EXTENDS Csolve, Bitwise

CONSTANTS
  W,              \* bits of an int
  Blocks          \* pointers a program may pass

LibcsolveAssumption == W \in Nat /\ W >= 2

VARIABLES
  pc,             \* "program", "running", "returned" or "exited"
  call,           \* function and arguments
  value           \* what it returned

vars == <<pc, call, value>>

Ints == -(2^(W - 1))..(2^(W - 1) - 1)

\* the bits of an int, two's complement
Bits(x) == x % (2^W)

FromBits(x) == IF x >= 2^(W - 1) THEN x - 2^W ELSE x

-----------------------------------------------------------------------------
(* csolve.h                                                                  *)

Functions0 == {"nondet", "nondetnn", "nondetpos", "csolve_fold_all"}
Functions1 == {"csolve_assert", "csolve_assume"}
Functions2 == {"nondetrange", "csolve_mod", "bor", "band"}
FunctionsP == {"validptr", "csolve_block_begin", "csolve_block_end"}

Calls ==
  [fn : Functions0] \cup [fn : Functions1, a : Ints] \cup [fn : Functions2, a : Ints, b : Ints]
  \cup [fn : FunctionsP, p : Blocks]

\* refinements of the parameters
Requires(c) ==
  CASE c.fn = "nondetrange"   -> c.a < c.b
    [] c.fn = "csolve_assert" -> c.a # 0
    [] c.fn = "csolve_mod"    -> c.a >= 0 /\ c.b > 0
    [] c.fn = "bor"           -> c.a >= 0 /\ c.b >= 0
    [] c.fn = "band"          -> c.b >= 0
    [] c.fn = "validptr"      -> PVALIDPTR(c.p)
    [] OTHER                  -> TRUE

\* refinements of the result, V
Ensures(c, V) ==
  CASE c.fn = "nondetpos"     -> V >= 1
    [] c.fn = "nondetnn"      -> V >= 0
    [] c.fn = "nondetrange"   -> V >= c.a /\ V < c.b /\ V >= 0
    [] c.fn = "csolve_assume" -> c.a = 1
    [] c.fn = "csolve_mod"    -> V < c.b /\ V >= 0 /\ V <= c.a
    [] c.fn = "bor"           -> V >= c.a /\ V >= c.b /\ V >= 0 /\ V <= c.a + c.b
    [] c.fn = "band"          -> V <= c.b /\ V >= 0
    [] c.fn = "csolve_block_begin" -> V = c.p.begin
    [] c.fn = "csolve_block_end"   -> V = c.p.end
    [] OTHER                  -> TRUE

-----------------------------------------------------------------------------
(* libcsolve.c                                                               *)

\* Faulty variant of Result: every function returns what nondet does.
ResultOfNondet(c) == 0

Result(c) ==
  CASE c.fn \in {"nondet", "nondetnn", "csolve_assert", "csolve_assume"} -> 0
    [] c.fn = "nondetpos"   -> 1
    [] c.fn = "nondetrange" -> c.a
    [] c.fn = "csolve_mod"  -> c.a % c.b
    [] c.fn = "bor"         -> FromBits(Bits(c.a) | Bits(c.b))
    [] c.fn = "band"        -> FromBits(Bits(c.a) & Bits(c.b))
    [] OTHER                -> 0        \* void

\* csolve_assert (0) exits, and the functions that are only for the analysis call it
Exits(c) ==
  \/ c.fn \in {"csolve_block_begin", "csolve_block_end"}
  \/ c.fn = "csolve_assert" /\ c.a = 0

\* Faulty variant of Spins: while (p).
SpinsIfTrue(c) == c.fn = "csolve_assume" /\ c.a # 0

\* while (!p) ;
Spins(c) == c.fn = "csolve_assume" /\ c.a = 0

Init == pc = "program" /\ call = [fn |-> "nondet"] /\ value = 0

\* a call CSolve has checked: it meets the contract
Call ==
  /\ pc = "program"
  /\ call' \in {c \in Calls : Requires(c)}
  /\ pc' = "running"
  /\ UNCHANGED value

Return ==
  /\ pc = "running" /\ ~Exits(call) /\ ~Spins(call)
  /\ value' = Result(call)
  /\ pc' = "returned"
  /\ UNCHANGED call

Exit ==
  /\ pc = "running" /\ Exits(call)
  /\ pc' = "exited"
  /\ UNCHANGED <<call, value>>

\* the program goes on, and forgets the call
GoOn ==
  /\ pc = "returned"
  /\ pc' = "program" /\ call' = [fn |-> "nondet"] /\ value' = 0

Next == Call \/ Return \/ Exit \/ GoOn

Spec == Init /\ [][Next]_vars

-----------------------------------------------------------------------------
(* Properties.                                                               *)

Kept == pc = "returned" => Ensures(call, value)

\* csolve.h promises of nondetrange (l, u) an int from l up to u that is not
\* negative, and asks of the caller only l < u.
NondetrangeKept == call.fn = "nondetrange" => Kept

\* csolve.h promises that b = 1 where csolve_assume (b) has returned.
AssumeKept == call.fn = "csolve_assume" => Kept

\* What a body returns is what its contract in csolve.h promises, for every int,
\* the least and the greatest and negative ones included.  The calls left out are
\* those that break the two contracts above.
OtherContractsKept ==
  \/ call.fn = "nondetrange" /\ call.a < 0
  \/ call.fn = "csolve_assume" /\ call.a # 1
  \/ Kept

\* Every call of a function ends, but an assumption that does not hold.
CallsEnd ==
  pc = "running" /\ ~(call.fn = "csolve_assume" /\ call.a = 0) ~> pc \in {"returned", "exited"}
=============================================================================
