--------------------------------- MODULE Heaps ---------------------------------
(*****************************************************************************)
(* external/misc/heaps.ml, Functional: the heaps the worklist of cindex.ml is*)
(* kept in.  A heap is empty or a node whose tag says whether its subtrees   *)
(* have the same number of elements or the left one has one more.            *)
(*****************************************************************************)
EXTENDS Integers, FiniteSets

CONSTANTS
  Entries,            \* what may be added, pairs of a key and a name
  MaxSize             \* bound: elements in the heap

VARIABLES
  heap,
  popped              \* what the last pop gave out, <<>> if the last step was no pop

vars == <<heap, popped>>

\* X.compare: entries of one key are equal to it
compare(x, y) == x[1] - y[1]

Empty == <<>>

Same(l, x, r) == [tag |-> "Same", l |-> l, x |-> x, r |-> r]

Diff(l, x, r) == [tag |-> "Diff", l |-> l, x |-> x, r |-> r]

\* the node h with other subtrees or another element
Node(h, l, x, r) == [h EXCEPT !.l = l, !.x = x, !.r = r]

Leaf(x) == Same(Empty, x, Empty)

IsLeaf(h) == h # Empty /\ h.l = Empty /\ h.r = Empty

RECURSIVE Size(_)
Size(h) == IF h = Empty THEN 0 ELSE Size(h.l) + 1 + Size(h.r)

RECURSIVE Elements(_)
Elements(h) == IF h = Empty THEN {} ELSE Elements(h.l) \cup {h.x} \cup Elements(h.r)

RECURSIVE Nodes(_)
Nodes(h) == IF h = Empty THEN {} ELSE {h} \cup Nodes(h.l) \cup Nodes(h.r)

-----------------------------------------------------------------------------
maximum(h) == h.x

RECURSIVE add(_, _)
add(x, h) ==
  IF h = Empty THEN Leaf(x)
  ELSE LET top == IF compare(x, h.x) > 0 THEN x ELSE h.x
           low == IF compare(x, h.x) > 0 THEN h.x ELSE x
       IN IF h.tag = "Same" THEN Diff(add(low, h.l), top, h.r)
          ELSE Same(h.l, top, add(low, h.r))

\* Faulty variant of extract_last: the tags remain.
RECURSIVE extract_last_tags(_)
extract_last_tags(h) ==
  IF IsLeaf(h) THEN [y |-> h.x, rest |-> Empty]
  ELSE IF h.tag = "Same"
       THEN LET e == extract_last_tags(h.r) IN [y |-> e.y, rest |-> Node(h, h.l, h.x, e.rest)]
       ELSE LET e == extract_last_tags(h.l) IN [y |-> e.y, rest |-> Node(h, e.rest, h.x, h.r)]

\* the last element of a bottom row, and the heap without it
RECURSIVE extract_last(_)
extract_last(h) ==
  IF IsLeaf(h) THEN [y |-> h.x, rest |-> Empty]
  ELSE IF h.tag = "Same"
       THEN LET e == extract_last(h.r) IN [y |-> e.y, rest |-> Diff(h.l, h.x, e.rest)]
       ELSE LET e == extract_last(h.l) IN [y |-> e.y, rest |-> Same(e.rest, h.x, h.r)]

\* Faulty variant of descent: x stays if it is above one of the subtrees.
RECURSIVE descent_one(_, _)
descent_one(x, h) ==
  IF IsLeaf(h) THEN Leaf(x)
  ELSE IF h.r = Empty
       THEN IF compare(x, h.l.x) > 0 THEN Diff(h.l, x, Empty) ELSE Diff(Leaf(x), h.l.x, Empty)
       ELSE LET ml == maximum(h.l)
                mr == maximum(h.r)
            IN IF compare(x, ml) > 0 \/ compare(x, mr) > 0 THEN Node(h, h.l, x, h.r)
               ELSE IF compare(ml, mr) > 0 THEN Node(h, descent_one(x, h.l), ml, h.r)
               ELSE Node(h, h.l, mr, descent_one(x, h.r))

\* x in the place of the topmost element, as far down as it belongs
RECURSIVE descent(_, _)
descent(x, h) ==
  IF IsLeaf(h) THEN Leaf(x)
  ELSE IF h.r = Empty
       THEN IF compare(x, h.l.x) > 0 THEN Diff(h.l, x, Empty) ELSE Diff(Leaf(x), h.l.x, Empty)
       ELSE LET ml == maximum(h.l)
                mr == maximum(h.r)
            IN IF compare(x, ml) > 0 /\ compare(x, mr) > 0 THEN Node(h, h.l, x, h.r)
               ELSE IF compare(ml, mr) > 0 THEN Node(h, descent(x, h.l), ml, h.r)
               ELSE Node(h, h.l, mr, descent(x, h.r))

remove(h) ==
  IF IsLeaf(h) THEN Empty
  ELSE LET e == extract_last(h) IN descent(e.y, e.rest)

-----------------------------------------------------------------------------
(* The calls of cindex.ml: wpush adds an entry that is not in the worklist,  *)
(* wpop takes the maximum and removes it.                                    *)

Init == heap = Empty /\ popped = <<>>

Push ==
  /\ Size(heap) < MaxSize
  /\ \E x \in Entries \ Elements(heap) : heap' = add(x, heap)
  /\ popped' = <<>>

Pop ==
  /\ heap # Empty
  /\ popped' = maximum(heap)
  /\ heap' = remove(heap)

Next == Push \/ Pop

Spec == Init /\ [][Next]_vars

-----------------------------------------------------------------------------
\* heaps.ml, "The representation invariant": every node has the tag that the
\* sizes of its subtrees call for, so that the height stays logarithmic after
\* any sequence of pushes and pops; and no entry is in the heap twice.
Balanced ==
  /\ \A h \in Nodes(heap) :
       Size(h.l) = IF h.tag = "Same" THEN Size(h.r) ELSE Size(h.r) + 1
  /\ Size(heap) = Cardinality(Elements(heap))

\* The heap is the queue the worklist needs: no entry is lost or kept by the
\* turns of descent and extract_last, and what is popped is a greatest one.
Queue == INSTANCE PriorityQueue WITH queue <- Elements(heap), given <- popped

ImplementsQueue == Queue!Spec
=============================================================================
