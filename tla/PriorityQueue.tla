----------------------------- MODULE PriorityQueue -----------------------------
(*****************************************************************************)
(* What a worklist needs of a heap: a set of entries of which an operation   *)
(* adds one or takes away a greatest one.                                    *)
(*****************************************************************************)
EXTENDS Integers

CONSTANTS
  Entries,
  compare(_, _)       \* negative, 0 or positive

VARIABLES
  queue,
  given               \* what the last step took away, <<>> if it added

Init == queue = {} /\ given = <<>>

Push(x) == queue' = queue \cup {x} /\ given' = <<>>

Pop(x) == /\ \A y \in queue : compare(x, y) >= 0
          /\ queue' = queue \ {x} /\ given' = x

Next == \/ \E x \in Entries \ queue : Push(x)
        \/ \E x \in queue : Pop(x)

Spec == Init /\ [][Next]_<<queue, given>>
=============================================================================
