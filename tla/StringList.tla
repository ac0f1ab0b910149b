------------------------------ MODULE StringList ------------------------------
(*****************************************************************************)
(* demo/stringlist.c: Pascal-style strings and lists of them, in memory that *)
(* malloc leaves uninitialised.  "All array accesses in this file are        *)
(* verified safe by CSolve", from the invariant that the length of each      *)
(* string pointed to by the str field is the value of the len field.         *)
(*****************************************************************************)
EXTENDS Integers, Sequences, SequencesExt

CONSTANTS
  Sizes,          \* what nondetpos may return
  Garbage,        \* what malloc leaves in memory
  Letter          \* the char nondetpos returns

StringListAssumption ==
  /\ \A k \in Sizes : k \in Nat /\ k >= 1
  /\ Garbage \notin Int /\ Letter \notin Int /\ Letter # Garbage

Null == 0

VARIABLES
  heap,           \* address -> block: an array of char, a string or an slist
  pc,
  size, caller,   \* of make_string: its n, and where it returns to
  n, i,           \* of make_string, new_string or new_strings
  str0, j,        \* of make_string: its block, and the index str has come to
  s, sl,          \* of new_string and new_strings
  result          \* of string_succ

vars == <<heap, pc, size, caller, n, i, str0, j, s, sl, result>>

Fresh == Cardinality(DOMAIN heap) + 1

With(h, address, block) == [x \in DOMAIN h \cup {address} |-> IF x = address THEN block ELSE h[x]]

AString(k, p) == [len |-> k, str |-> p]

ArrayOf(k, c) == [chars |-> [x \in 0..(k - 1) |-> c]]

-----------------------------------------------------------------------------
(* make_string(k), called in heap h, for a caller that goes on at ret        *)

\* Faulty variant of MakeString: malloc ((n - 1) * sizeof (char)).
MakeStringShort(h, k, ret) ==
  LET p == Cardinality(DOMAIN h) + 1
  IN IF k <= 0
     THEN str0' = Null /\ pc' = ret /\ heap' = h /\ UNCHANGED <<size, caller, j>>
     ELSE /\ str0' = p /\ heap' = With(h, p, ArrayOf(k - 1, Garbage))
          /\ pc' = "make_string" /\ size' = k /\ caller' = ret /\ j' = 0

MakeString(h, k, ret) ==
  LET p == Cardinality(DOMAIN h) + 1
  IN IF k <= 0
     THEN str0' = Null /\ pc' = ret /\ heap' = h /\ UNCHANGED <<size, caller, j>>
     ELSE /\ str0' = p /\ heap' = With(h, p, ArrayOf(k, Garbage))
          /\ pc' = "make_string" /\ size' = k /\ caller' = ret /\ j' = 0

\* *str++ = 0
Zero ==
  /\ pc = "make_string" /\ j < size
  /\ heap' = [heap EXCEPT ![str0].chars[j] = 0]
  /\ j' = j + 1
  /\ UNCHANGED <<size, caller, pc, n, i, str0, s, sl, result>>

\* Faulty variant of MakeStringReturns: the loop ends one char early.
MakeStringReturnsEarly ==
  /\ pc = "make_string" /\ j >= size - 1
  /\ pc' = caller
  /\ UNCHANGED <<size, caller, heap, n, i, str0, j, s, sl, result>>

MakeStringReturns ==
  /\ pc = "make_string" /\ j >= size
  /\ pc' = caller
  /\ UNCHANGED <<size, caller, heap, n, i, str0, j, s, sl, result>>

-----------------------------------------------------------------------------
(* main, new_string and init_string                                          *)

Init ==
  /\ heap = [x \in {} |-> Null]
  /\ pc = "main"
  /\ size = 0 /\ caller = "main"
  /\ n = 0 /\ i = 0 /\ str0 = Null /\ j = 0 /\ s = Null /\ sl = Null /\ result = Null

MainMakesString ==
  /\ pc = "main"
  /\ \E k \in Sizes : MakeString(heap, k, "new_string")
  /\ UNCHANGED <<n, i, s, sl, result>>

\* s->len = n, and the call of make_string
NewString ==
  /\ pc = "new_string"
  /\ n' \in Sizes
  /\ s' = Fresh
  /\ MakeString(With(heap, Fresh, AString(n', Garbage)), n', "init_string")
  /\ UNCHANGED <<i, sl, result>>

\* s->str = make_string (n), and the call of init_string
InitStringStarts ==
  /\ pc = "init_string"
  /\ heap' = [heap EXCEPT ![s].str = str0]
  /\ pc' = "init_string_loop" /\ i' = 0
  /\ UNCHANGED <<size, caller, n, str0, j, s, sl, result>>

\* s->str[i] = c
InitStringSets ==
  /\ pc = "init_string_loop" /\ i < heap[s].len
  /\ heap' = [heap EXCEPT ![heap[s].str].chars[i] = Letter]
  /\ i' = i + 1
  /\ UNCHANGED <<size, caller, pc, n, str0, j, s, sl, result>>

InitStringReturns ==
  /\ pc = "init_string_loop" /\ i >= heap[s].len
  /\ pc' = "new_strings" /\ n' \in Sizes /\ i' = 1 /\ sl' = Null
  /\ UNCHANGED <<size, caller, heap, str0, j, s, result>>

(* new_strings: the two halves of an iteration, and its end                  *)

NewListString ==
  /\ pc = "new_strings" /\ i < n
  /\ s' = Fresh
  /\ MakeString(With(heap, Fresh, AString(i, Garbage)), i, "link")
  /\ UNCHANGED <<n, i, sl, result>>

\* Faulty variant of Link: t->next is the new cell.
LinkToItself ==
  /\ pc = "link"
  /\ heap' = With([heap EXCEPT ![s].str = str0], Fresh, [next |-> Fresh, s |-> s])
  /\ sl' = Fresh
  /\ i' = i + 1 /\ pc' = "new_strings"
  /\ UNCHANGED <<size, caller, n, str0, j, s, result>>

\* s->str = make_string (i), and t in front of the list
Link ==
  /\ pc = "link"
  /\ heap' = With([heap EXCEPT ![s].str = str0], Fresh, [next |-> sl, s |-> s])
  /\ sl' = Fresh
  /\ i' = i + 1 /\ pc' = "new_strings"
  /\ UNCHANGED <<size, caller, n, str0, j, s, result>>

(* string_succ of the s field of the head: back to the head, then on         *)

StringSucc ==
  /\ pc = "new_strings" /\ i >= n
  /\ result' = IF sl = Null \/ heap[sl].next = Null THEN Null ELSE heap[heap[sl].next].s
  /\ pc' = "done"
  /\ UNCHANGED <<size, caller, heap, n, i, str0, j, s, sl>>

Next ==
  \/ MainMakesString \/ NewString \/ InitStringStarts \/ InitStringSets \/ InitStringReturns
  \/ NewListString \/ Link \/ StringSucc
  \/ Zero \/ MakeStringReturns

Spec == Init /\ [][Next]_vars

-----------------------------------------------------------------------------
(* Properties.                                                               *)

Strings == {x \in DOMAIN heap : "str" \in DOMAIN heap[x]}

\* The next char written is one of its block: in make_string, where a pointer
\* counts up to n, and in init_string, where len stands for the size of str.
InBounds ==
  /\ pc = "make_string" /\ j < size => j \in DOMAIN heap[str0].chars
  /\ pc = "init_string_loop" /\ i < heap[s].len => i \in DOMAIN heap[heap[s].str].chars

\* "The length of each string pointed to by the str field is equal to the
\* value of the len field" (stringlist.c), once str has been set; and no char
\* of such a string is what malloc left there.
LengthsAgree ==
  \A x \in Strings :
    heap[x].str # Garbage =>
      /\ DOMAIN heap[heap[x].str].chars = 0..(heap[x].len - 1)
      /\ \A k \in DOMAIN heap[heap[x].str].chars : heap[heap[x].str].chars[k] # Garbage

\* string_succ goes to the string after the one it was given: the list has the
\* lengths from n - 1 down to 1, so that is the one of length n - 2, if any.
SuccIsNext ==
  pc = "done" =>
    IF n <= 2 THEN result = Null
    ELSE result \in Strings /\ heap[result].len = n - 2
=============================================================================
