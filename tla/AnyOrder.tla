-------------------------------- MODULE AnyOrder --------------------------------
(*****************************************************************************)
(* What the analysis sees of a parallel block of lib/cpj.h: its routines run *)
(* one at a time, in any order, any number of times, and then the program    *)
(* goes on.                                                                  *)
(*****************************************************************************)
EXTENDS Integers

CONSTANTS
  Routines,           \* of a cobegin, or the iterations of a foreach
  Addresses, Values,
  Reads(_), Writes(_),
  F(_, _, _)          \* what a routine stores at an address, having read some

AnyOrderAssumption ==
  /\ \A r \in Routines : Reads(r) \subseteq Addresses /\ Writes(r) \subseteq Addresses
  /\ \A r \in Routines, x \in Addresses : \A m \in [Reads(r) -> Values] : F(r, x, m) \in Values

VARIABLES
  mem,                \* address -> value
  left                \* the program has left the block

Inputs(r, m) == [y \in Reads(r) |-> m[y]]

\* the memory after r
RunOf(r, m) == [x \in Addresses |-> IF x \in Writes(r) THEN F(r, x, Inputs(r, m)) ELSE m[x]]

Init == mem \in [Addresses -> Values] /\ left = FALSE

Run(r) == ~left /\ mem' = RunOf(r, mem) /\ UNCHANGED left

Leave == ~left /\ left' = TRUE /\ UNCHANGED mem

Next == (\E r \in Routines : Run(r)) \/ Leave

Spec == Init /\ [][Next]_<<mem, left>>
=============================================================================
