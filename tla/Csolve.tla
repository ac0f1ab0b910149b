-------------------------------- MODULE Csolve --------------------------------
(*****************************************************************************)
(* lib/csolve.h: the predicates that refine the types of pointers.  A pointer*)
(* V is an address and the block it was made from: BLOCK_BEGIN([V]) and      *)
(* BLOCK_END([V]) are what the analysis knows of the block.                  *)
(*****************************************************************************)
EXTENDS Integers

Pointer(begin, end, at) == [begin |-> begin, end |-> end, at |-> at]

NullPointer == Pointer(0, 0, 0)

\* pointer arithmetic stays in the block
Advance(v, n) == [v EXCEPT !.at = @ + n]

PNONNULL(v) == v.at > 0

PNN(v, p) == v.at # 0 => p

PVALIDLO(v) == v.begin <= v.at

PVALIDHI(v) == v.at < v.end

PVALIDPTR(v) == PNONNULL(v) /\ PVALIDLO(v) /\ PVALIDHI(v)

PSIZE_GE(v, n) == v.at + n <= v.end

PEQBLOCK(v, x) == v.begin = x.begin /\ v.end = x.end

\* VALIDPTR REF(PSIZE_GE(n)), as of a parameter
SIZE_GE(v, n) == PVALIDPTR(v) /\ PSIZE_GE(v, n)
=============================================================================
