------------------------------- MODULE CobeginRun -------------------------------
(*****************************************************************************)
(* The same block run in parallel: every routine reads what it needs, address*)
(* by address, then stores its results one by one, while the others do; the  *)
(* program goes on when all have ended.  CSolve checks that the routines do  *)
(* not conflict.                                                             *)
(*****************************************************************************)
EXTENDS Integers

CONSTANTS Routines, Addresses, Values, Reads(_), Writes(_), F(_, _, _)

\* what src/src/consVisitor.ml checks of the routines of one block
ConflictFree ==
  \A q, r \in Routines : q # r => Writes(q) \cap (Reads(r) \cup Writes(r)) = {}

ASSUME CobeginRunAssumption ==
  /\ ConflictFree
  /\ \A r \in Routines : Reads(r) \subseteq Addresses /\ Writes(r) \subseteq Addresses
  /\ \A r \in Routines, x \in Addresses : \A m \in [Reads(r) -> Values] : F(r, x, m) \in Values

VARIABLES
  mem0,               \* the memory before the block (never read by the program)
  mem,
  loaded,             \* routine -> addresses it has read
  local,              \* routine -> what it has read there
  stored,             \* routine -> addresses it has stored to
  ended,              \* routines that have ended
  left

vars == <<mem0, mem, loaded, local, stored, ended, left>>

ParInit ==
  /\ mem0 \in [Addresses -> Values]
  /\ mem = mem0
  /\ loaded = [r \in Routines |-> {}]
  /\ local = [r \in Routines |-> [y \in Reads(r) |-> mem0[y]]]     \* not used before Load
  /\ stored = [r \in Routines |-> {}]
  /\ ended = {}
  /\ left = FALSE

Load(r, y) ==
  /\ y \in Reads(r) \ loaded[r]
  /\ loaded' = [loaded EXCEPT ![r] = @ \cup {y}]
  /\ local' = [local EXCEPT ![r][y] = mem[y]]
  /\ UNCHANGED <<mem0, mem, stored, ended, left>>

\* Faulty variant of Store: what it has stored before is read again.
StoreReloading(r, x) ==
  /\ loaded[r] = Reads(r) /\ x \in Writes(r) \ stored[r]
  /\ mem' = [mem EXCEPT ![x] = F(r, x, [y \in Reads(r) |-> mem[y]])]
  /\ stored' = [stored EXCEPT ![r] = @ \cup {x}]
  /\ UNCHANGED <<mem0, loaded, local, ended, left>>

Store(r, x) ==
  /\ loaded[r] = Reads(r) /\ x \in Writes(r) \ stored[r]
  /\ mem' = [mem EXCEPT ![x] = F(r, x, local[r])]
  /\ stored' = [stored EXCEPT ![r] = @ \cup {x}]
  /\ UNCHANGED <<mem0, loaded, local, ended, left>>

End(r) ==
  /\ r \notin ended /\ loaded[r] = Reads(r) /\ stored[r] = Writes(r)
  /\ ended' = ended \cup {r}
  /\ UNCHANGED <<mem0, mem, loaded, local, stored, left>>

\* Faulty variant of Join: the program goes on when one routine has ended.
JoinOne ==
  /\ ~left /\ ended # {}
  /\ left' = TRUE
  /\ UNCHANGED <<mem0, mem, loaded, local, stored, ended>>

Join ==
  /\ ~left /\ Routines \subseteq ended
  /\ left' = TRUE
  /\ UNCHANGED <<mem0, mem, loaded, local, stored, ended>>

Works(r) == (\E y \in Reads(r) : Load(r, y)) \/ (\E x \in Writes(r) : Store(r, x))

ParNext == (\E r \in Routines : Works(r) \/ End(r)) \/ Join

ParSpec == ParInit /\ [][ParNext]_vars

-----------------------------------------------------------------------------
\* the memory, without what routines that have not ended have stored
memBar ==
  [x \in Addresses |-> IF \E r \in Routines \ ended : x \in Writes(r) THEN mem0[x] ELSE mem[x]]

Seen == INSTANCE AnyOrder WITH mem <- memBar

\* Run in parallel, the routines do what the analysis saw them do one after the
\* other: each seems to run at once, when it ends.
ParallelIsAnyOrder == Seen!Spec

\* All routines having ended, the memory is the one they were bound to lead to,
\* each having run once, whatever the interleaving.
Deterministic ==
  left => \A x \in Addresses :
            /\ \A r \in Routines : x \in Writes(r) => mem[x] = F(r, x, [y \in Reads(r) |-> mem0[y]])
            /\ (\A r \in Routines : x \notin Writes(r)) => mem[x] = mem0[x]
=============================================================================
