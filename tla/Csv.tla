---------------------------------- MODULE Csv ----------------------------------
(*****************************************************************************)
(* demo/csv.c: a line is divided in place into its comma-separated fields,   *)
(* then the fields are lowercased.  "CSolve verifies that all memory accesses*)
(* within the example are within bounds."                                    *)
(*****************************************************************************)
EXTENDS Csolve, Sequences, SequencesExt

CONSTANTS
  Lens,           \* what nondetpos may return for len
  Base            \* where malloc puts the line

CsvAssumption ==
  /\ \A n \in Lens : n \in Nat /\ n >= 1
  /\ Base \in Nat \ {0}

NUL   == "NUL"
Comma == ","
Chars == {NUL, Comma, "A", "a"}

tolower(c) == IF c = "A" THEN "a" ELSE c

VARIABLES
  len,
  input,          \* the line before it is divided (never read by the program)
  line,           \* the block: offset -> char
  pc,
  s, n,           \* of revstrncsvals, then of strntolower
  vals,           \* the list of csvals, from its head: the last field comes first
  v               \* of lowercase_csvals: what is left of the list

vars == <<len, input, line, pc, s, n, vals, v>>

Offset(p) == p.at - p.begin

Load(p) == line[Offset(p)]

Store(p, c) == line' = [line EXCEPT ![Offset(p)] = c]

-----------------------------------------------------------------------------
\* main fills all of the line but its last char, which is what malloc left there
Init ==
  /\ len \in Lens
  /\ input \in [0..(len - 1) -> Chars]
  /\ line = input
  /\ pc = "revstrncsvals"
  /\ s = Pointer(Base, Base + len, Base) /\ n = len
  /\ vals = <<>> /\ v = <<>>

\* strnchr is extern: NULL, as of the functions that stop at a NUL, or a pointer
\* into the block of p, to a c among the m chars from p on
strnchr(p, m, c) ==
  {q \in {NullPointer} \cup {Advance(p, i) : i \in 0..(m - 1)} :
     PNN(q, PEQBLOCK(q, p) /\ Load(q) = c)}

(* revstrncsvals: one iteration of its loop                                  *)

\* Faulty variants of NextField: the rest of the line is not what the field leaves.
NextFieldAnd(used, from(_)) ==
  /\ pc = "revstrncsvals" /\ n > 0
  /\ \E found \in strnchr(s, n, Comma) :
       LET comma == IF found.at = 0 THEN Advance(s, n - 1) ELSE found
           vlen  == comma.at - s.at
       IN /\ Store(comma, NUL)
          /\ vals' = <<[str |-> s, len |-> vlen]>> \o vals
          /\ n' = n - (vlen + used)
          /\ s' = from(comma)
  /\ UNCHANGED <<len, input, pc, v>>

NextFieldForgetsComma == NextFieldAnd(0, LAMBDA comma : Advance(comma, 1))

NextFieldAtComma == NextFieldAnd(1, LAMBDA comma : comma)

NextField ==
  /\ pc = "revstrncsvals" /\ n > 0
  /\ \E found \in strnchr(s, n, Comma) :
       LET comma == IF found.at = 0 THEN Advance(s, n - 1) ELSE found
           vlen  == comma.at - s.at
       IN /\ Store(comma, NUL)
          /\ vals' = <<[str |-> s, len |-> vlen]>> \o vals
          /\ n' = n - (vlen + 1)
          /\ s' = Advance(comma, 1)
  /\ UNCHANGED <<len, input, pc, v>>

(* lowercase_csvals and strntolower                                          *)

\* strntolower of the first csval of list w, or the end
Enter(w) ==
  /\ v' = w
  /\ IF w # <<>>
     THEN pc' = "strntolower" /\ s' = Head(w).str /\ n' = Head(w).len
     ELSE pc' = "done" /\ UNCHANGED <<s, n>>

LastField ==
  /\ pc = "revstrncsvals" /\ n <= 0
  /\ Enter(vals)
  /\ UNCHANGED <<len, input, line, vals>>

\* Faulty variant of LowerChar: no s++.
LowerCharStays ==
  /\ pc = "strntolower" /\ n # 0 /\ Load(s) # NUL
  /\ Store(s, tolower(Load(s)))
  /\ s' = s /\ n' = n - 1
  /\ UNCHANGED <<len, input, pc, vals, v>>

\* n-- && *s != '\0': the char is read only where some are left
LowerChar ==
  /\ pc = "strntolower" /\ n # 0 /\ Load(s) # NUL
  /\ Store(s, tolower(Load(s)))
  /\ s' = Advance(s, 1) /\ n' = n - 1
  /\ UNCHANGED <<len, input, pc, vals, v>>

\* Faulty variant of NextValue: the list is not followed.
NextValueSame ==
  /\ pc = "strntolower"
  /\ n = 0 \/ Load(s) = NUL
  /\ Enter(v)
  /\ UNCHANGED <<len, input, line, vals>>

NextValue ==
  /\ pc = "strntolower"
  /\ n = 0 \/ Load(s) = NUL
  /\ Enter(Tail(v))
  /\ UNCHANGED <<len, input, line, vals>>

Next == NextField \/ LastField \/ LowerChar \/ NextValue

Spec == Init /\ [][Next]_vars

-----------------------------------------------------------------------------
(* Properties.                                                               *)

\* What revstrncsvals passes to strnchr meets its contract (SIZE_GE(n), NONNEG),
\* and strntolower reads no char but of the line: no field leads beyond it,
\* wherever the commas are and whether or not there are any.
InBounds ==
  /\ pc = "revstrncsvals" /\ n > 0 => SIZE_GE(s, n)
  /\ pc = "strntolower" /\ n # 0 => PVALIDPTR(s)

\* The fields found so far lie one after the other, from the beginning of the
\* line to where the search goes on, each with a NUL after its last char: no
\* char of the line is lost, or in two fields.
FieldsPartition ==
  LET Start(k) == IF k = Len(vals) THEN Base ELSE vals[k + 1].str.at + vals[k + 1].len + 1
  IN /\ \A k \in 1..Len(vals) :
          /\ vals[k].str.at = Start(k) /\ vals[k].len >= 0
          /\ Load(Advance(vals[k].str, vals[k].len)) = NUL
     /\ pc = "revstrncsvals" => s.at = Start(0) /\ n = Base + len - s.at

\* In the end each field holds its chars of the line, in lower case up to the
\* first NUL among them: lowercasing one field never reaches another, and
\* misses none, the empty ones and the ones of one char included.
FieldsLowered ==
  pc = "done" =>
    \A k \in 1..Len(vals) : \A i \in 0..(vals[k].len - 1) :
      LET first == Offset(vals[k].str)
          c == input[first + i]
      IN line[first + i] =
           IF \E j \in 0..i : input[first + j] = NUL THEN c ELSE tolower(c)
=============================================================================
