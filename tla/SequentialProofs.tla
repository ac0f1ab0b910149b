----------------------------- MODULE SequentialProofs -----------------------------
(*****************************************************************************)
(* For lines of any length with commas anywhere, and for strings of any size:*)
(* demo/csv.c stays within its line, partitions it and lowercases every field*)
(* and nothing else; demo/stringlist.c stays within its strings, keeps its   *)
(* invariant about their lengths, and finds the successor of a string.       *)
(*                                                                           *)
(* For functions of any number of blocks and instructions: the iteration of  *)
(* refanno.ml stops with locations that are stable, though it compares sizes *)
(* alone, and that of notAliased.ml with the greatest of its solutions.      *)
(*****************************************************************************)
EXTENDS Demos, NotAliased, Sequences, FiniteSets, FiniteSetTheorems, WellFoundedInduction, TLAPS

-----------------------------------------------------------------------------
(* demo/csv.c                                                                *)

Pointers == [begin : {Base}, end : {Base + csvLen}, at : Int]

Csvals == [str : Pointers, len : Nat]

\* the offsets of the first char of a field, and of the NUL after its last
First(f) == f.str.at - Base
Past(f)  == First(f) + f.len

Here == csvS.at - Base

CsvTypeOK ==
  /\ csvLen \in Nat \ {0} /\ Base \in Nat \ {0}
  /\ csvInput \in [0..(csvLen - 1) -> C!Chars]
  /\ csvLine \in [0..(csvLen - 1) -> C!Chars]
  /\ csvPc \in {"revstrncsvals", "strntolower", "done"}
  /\ csvS \in Pointers /\ csvN \in Int
  /\ csvVals \in Seq(Csvals) /\ csvV \in Seq(Csvals)

\* a field lies in the line, with its NUL
FieldsInLine ==
  \A k \in 1..Len(csvVals) :
    /\ First(csvVals[k]) >= 0 /\ Past(csvVals[k]) < csvLen
    /\ csvLine[Past(csvVals[k])] = C!NUL

\* where the field before the k-th of the list ends, which was found before it
Begin(k) == IF k = Len(csvVals) THEN 0 ELSE Past(csvVals[k + 1]) + 1

FieldsChained == \A k \in 1..Len(csvVals) : First(csvVals[k]) = Begin(k)

FieldsApart ==
  \A k, l \in 1..Len(csvVals) : k < l => Past(csvVals[l]) < First(csvVals[k])

\* the k-th field as it was, or lowercased up to its first NUL
Kept(k) == \A x \in First(csvVals[k])..(Past(csvVals[k]) - 1) : csvLine[x] = csvInput[x]

Lowered(k) ==
  \A x \in First(csvVals[k])..(Past(csvVals[k]) - 1) :
    csvLine[x] = IF \E y \in First(csvVals[k])..x : csvInput[y] = C!NUL
                 THEN csvInput[x] ELSE C!tolower(csvInput[x])

\* revstrncsvals has divided what is before s, and nothing else
Searching ==
  csvPc = "revstrncsvals" =>
    /\ Here = Begin(0) /\ csvN = csvLen - Here /\ csvN >= 0
    /\ \A k \in 1..Len(csvVals) : Past(csvVals[k]) < Here /\ Kept(k)
    /\ \A x \in Here..(csvLen - 1) : csvLine[x] = csvInput[x]

\* the fields that are not in csvV any more
Passed == Len(csvVals) - Len(csvV)

\* lowercase_csvals has lowercased the fields it has passed, and nothing else
Lowercasing ==
  csvPc # "revstrncsvals" =>
    /\ Len(csvV) <= Len(csvVals)
    /\ \A k \in 1..Len(csvV) : csvV[k] = csvVals[Passed + k]
    /\ \A k \in 1..Passed : Lowered(k)
    /\ csvPc = "done" <=> csvV = <<>>

\* and strntolower the chars of its field before s
LowercasingField ==
  csvPc = "strntolower" =>
    LET f == csvVals[Passed + 1]
    IN /\ First(f) <= Here /\ Here <= Past(f) /\ csvN = Past(f) - Here
       /\ \A x \in First(f)..(Here - 1) :
            csvInput[x] # C!NUL /\ csvLine[x] = C!tolower(csvInput[x])
       /\ \A x \in Here..(Past(f) - 1) : csvLine[x] = csvInput[x]
       /\ \A k \in (Passed + 2)..Len(csvVals) : Kept(k)

CsvInv ==
  /\ CsvTypeOK /\ FieldsInLine /\ FieldsChained /\ FieldsApart
  /\ Searching /\ Lowercasing /\ LowercasingField

-----------------------------------------------------------------------------
LEMMA Prepended ==
  ASSUME NEW S, NEW e \in S, NEW q \in Seq(S)
  PROVE  /\ <<e>> \o q \in Seq(S) /\ Len(<<e>> \o q) = Len(q) + 1
         /\ (<<e>> \o q)[1] = e
         /\ \A k \in 1..Len(q) : (<<e>> \o q)[k + 1] = q[k]
OBVIOUS

LEMMA CsvInitially == C!Init => CsvInv
<1> SUFFICES ASSUME C!Init PROVE CsvInv
  OBVIOUS
<1>1. csvLen \in Nat \ {0} /\ Base \in Nat \ {0}
  BY DemosAssumption DEF C!Init, C!CsvAssumption
<1>2. csvVals = <<>> /\ csvV = <<>> /\ Len(csvVals) = 0 /\ csvPc = "revstrncsvals"
  BY DEF C!Init
<1>3. CsvTypeOK
  BY <1>1 DEF C!Init, C!Pointer, CsvTypeOK, Pointers
<1>4. FieldsInLine /\ FieldsChained /\ FieldsApart /\ Lowercasing /\ LowercasingField
  BY <1>2 DEF FieldsInLine, FieldsChained, FieldsApart, Lowercasing, LowercasingField
<1>5. Searching
  BY <1>1, <1>2 DEF C!Init, C!Pointer, Searching, Here, Begin
<1> QED
  BY <1>3, <1>4, <1>5 DEF CsvInv

\* What strnchr finds, or the last char, is one of the chars that are left.
LEMMA CommaFound ==
  ASSUME CsvInv, csvPc = "revstrncsvals", csvN > 0,
         NEW found \in C!strnchr(csvS, csvN, C!Comma),
         NEW comma, comma = IF found.at = 0 THEN C!Advance(csvS, csvN - 1) ELSE found
  PROVE  /\ comma \in Pointers
         /\ csvS.at <= comma.at /\ comma.at < Base + csvLen
<1>1. /\ csvS \in Pointers /\ csvS.at \in Int /\ csvN \in Int /\ csvLen \in Nat /\ Base \in Nat
      /\ csvS.at = Base + csvLen - csvN
  BY DEF CsvInv, CsvTypeOK, Searching, Here, Pointers
<1>2. \A m \in Int : C!Advance(csvS, m) \in Pointers /\ C!Advance(csvS, m).at = csvS.at + m
  BY <1>1 DEF C!Advance, Pointers
<1>3. CASE found.at = 0
  BY <1>1, <1>2, <1>3
<1>4. CASE found.at # 0
  <2>1. PICK m \in 0..(csvN - 1) : found = C!Advance(csvS, m)
    BY <1>4 DEF C!strnchr, C!NullPointer, C!Pointer
  <2> QED
    BY <1>1, <1>2, <1>4, <2>1
<1> QED
  BY <1>3, <1>4

LEMMA Advanced ==
  ASSUME NEW p \in Pointers, NEW m \in Int
  PROVE  C!Advance(p, m) \in Pointers /\ C!Advance(p, m).at = p.at + m /\ p.at \in Int
BY DEF C!Advance, Pointers

LEMMA NextFieldKeeps ==
  ASSUME CsvInv, C!NextField
  PROVE  CsvInv'
<1>1. csvPc = "revstrncsvals" /\ csvN > 0
  BY DEF C!NextField
<1>2. PICK found \in C!strnchr(csvS, csvN, C!Comma) :
        LET comma == IF found.at = 0 THEN C!Advance(csvS, csvN - 1) ELSE found
            vlen  == comma.at - csvS.at
        IN /\ C!Store(comma, C!NUL)
           /\ csvVals' = <<[str |-> csvS, len |-> vlen]>> \o csvVals
           /\ csvN' = csvN - (vlen + 1)
           /\ csvS' = C!Advance(comma, 1)
  BY DEF C!NextField
<1> DEFINE comma == IF found.at = 0 THEN C!Advance(csvS, csvN - 1) ELSE found
           vlen == comma.at - csvS.at
           field == [str |-> csvS, len |-> vlen]
           end == comma.at - Base
<1>3. comma \in Pointers /\ csvS.at <= comma.at /\ comma.at < Base + csvLen
  BY <1>1, CommaFound
<1>4. UNCHANGED <<csvLen, csvInput, csvPc, csvV>>
  BY DEF C!NextField
<1>5. /\ csvLine' = [csvLine EXCEPT ![end] = C!NUL]
      /\ csvVals' = <<field>> \o csvVals
      /\ csvN' = csvN - (vlen + 1)
      /\ csvS' = C!Advance(comma, 1)
  <2>1. C!Offset(comma) = end
    BY <1>3 DEF C!Offset, Pointers
  <2> QED
    BY <1>2, <2>1 DEF C!Store
<1> HIDE DEF comma
<1>6. /\ csvLen \in Nat \ {0} /\ Base \in Nat \ {0}
      /\ csvInput \in [0..(csvLen - 1) -> C!Chars] /\ csvLine \in [0..(csvLen - 1) -> C!Chars]
      /\ csvS \in Pointers /\ csvN \in Int /\ csvS.at \in Int /\ comma.at \in Int
      /\ csvVals \in Seq(Csvals) /\ csvV \in Seq(Csvals)
  BY <1>3 DEF CsvInv, CsvTypeOK, Pointers
<1>7. /\ Here = Begin(0) /\ Here >= 0 /\ csvN = csvLen - Here
      /\ \A k \in 1..Len(csvVals) : Past(csvVals[k]) < Here /\ Kept(k)
      /\ \A x \in Here..(csvLen - 1) : csvLine[x] = csvInput[x]
  <2>1. /\ Here = Begin(0) /\ csvN = csvLen - Here
        /\ \A k \in 1..Len(csvVals) : Past(csvVals[k]) < Here /\ Kept(k)
        /\ \A x \in Here..(csvLen - 1) : csvLine[x] = csvInput[x]
    BY <1>1 DEF CsvInv, Searching
  <2>2. Here >= 0
    <3>1. CASE Len(csvVals) = 0
      BY <2>1, <3>1 DEF Begin
    <3>2. CASE Len(csvVals) # 0
      <4>1. 1 \in 1..Len(csvVals) /\ csvVals[1] \in Csvals
        BY <1>6, <3>2
      <4>2. First(csvVals[1]) >= 0 /\ csvVals[1].len \in Nat /\ First(csvVals[1]) \in Int
        <5>1. First(csvVals[1]) >= 0
          BY <4>1 DEF CsvInv, FieldsInLine
        <5>2. csvVals[1].str.at \in Int /\ csvVals[1].len \in Nat
          BY <4>1 DEF Csvals, Pointers
        <5>3. Base \in Int
          BY <1>6
        <5> QED
          BY <5>1, <5>2, <5>3 DEF First
      <4> QED
        BY <2>1, <3>2, <4>2 DEF Begin, Past
    <3> QED
      BY <3>1, <3>2
  <2> QED
    BY <2>1, <2>2
<1>8. /\ field \in Csvals /\ First(field) = Here /\ Past(field) = end
      /\ Here <= end /\ end < csvLen /\ vlen \in Nat /\ Here \in Int /\ end \in Int
      /\ vlen = end - Here /\ end \in 0..(csvLen - 1)
  <2>1. /\ vlen \in Nat /\ end \in Int /\ Here \in Int /\ vlen = end - Here
        /\ Here <= end /\ end < csvLen
    <3>1. csvS.at \in Int /\ comma.at \in Int /\ Base \in Int /\ csvLen \in Int
      BY <1>6
    <3> DEFINE from == csvS.at
               to == comma.at
    <3>2. from <= to /\ to < Base + csvLen
      BY <1>3
    <3>3. vlen = to - from /\ end = to - Base /\ Here = from - Base
      BY DEF Here
    <3> HIDE DEF vlen, end, from, to
    <3>4. from \in Int /\ to \in Int
      BY <3>1 DEF from, to
    <3> QED
      BY <3>1, <3>2, <3>3, <3>4
  <2>2. field \in Csvals /\ First(field) = Here /\ Past(field) = end
    <3>1. field \in Csvals
      BY <1>6, <2>1 DEF Csvals
    <3>2. First(field) = Here /\ field.len = vlen
      BY DEF First, Here
    <3>3. Past(field) = Here + vlen
      BY <3>2 DEF Past
    <3> QED
      BY <2>1, <3>1, <3>2, <3>3
  <2>3. end \in 0..(csvLen - 1)
    <3>1. Here >= 0 /\ csvLen \in Int
      BY <1>6, <1>7
    <3> QED
      BY <2>1, <3>1
  <2> QED
    BY <2>1, <2>2, <2>3
<1>9. /\ csvVals' \in Seq(Csvals) /\ Len(csvVals') = Len(csvVals) + 1
      /\ csvVals'[1] = field
      /\ \A k \in 1..Len(csvVals) : csvVals'[k + 1] = csvVals[k]
  BY <1>5, <1>6, <1>8, Prepended
<1>10. /\ csvS' \in Pointers /\ csvN' \in Int /\ csvS'.at = comma.at + 1
       /\ csvS'.at - Base = end + 1
  <2>1. csvS' \in Pointers /\ csvS'.at = comma.at + 1
    <3>1. C!Advance(comma, 1) \in Pointers /\ C!Advance(comma, 1).at = comma.at + 1
      BY <1>3, 1 \in Int, Advanced
    <3> QED
      BY <1>5, <3>1
  <2>2. csvN' \in Int
    BY <1>5, <1>6, <1>8
  <2> QED
    BY <1>6, <2>1, <2>2
<1>11. /\ csvLine' \in [0..(csvLen - 1) -> C!Chars]
       /\ csvLine'[end] = C!NUL
       /\ \A x \in 0..(csvLen - 1) : x # end => csvLine'[x] = csvLine[x]
  <2>1. C!NUL \in C!Chars
    BY DEF C!Chars
  <2> QED
    BY <1>5, <1>6, <1>8, <2>1
<1> HIDE DEF field, vlen, end
<1>12. CsvTypeOK'
  <2>1. Pointers' = Pointers /\ Csvals' = Csvals
    BY <1>4 DEF Pointers, Csvals
  <2> QED
    BY <1>1, <1>4, <1>6, <1>9, <1>10, <1>11, <2>1 DEF CsvTypeOK
\* the new field comes first, and the others move on in the list
<1>13. ASSUME NEW k \in 1..Len(csvVals') PROVE
         \/ k = 1 /\ csvVals'[k] = field
         \/ k - 1 \in 1..Len(csvVals) /\ csvVals'[k] = csvVals[k - 1]
  <2>1. CASE k = 1
    BY <1>9, <2>1
  <2>2. CASE k # 1
    <3>1. k - 1 \in 1..Len(csvVals) /\ (k - 1) + 1 = k
      BY <1>6, <1>9, <2>2
    <3> QED
      BY <1>9, <3>1
  <2> QED
    BY <2>1, <2>2
<1>14. \A k \in 1..Len(csvVals) :
         /\ csvVals[k].len \in Nat /\ First(csvVals[k]) \in Nat /\ Past(csvVals[k]) \in Nat
         /\ First(csvVals[k]) <= Past(csvVals[k]) /\ Past(csvVals[k]) < Here
         /\ csvLine[Past(csvVals[k])] = C!NUL
  <2> SUFFICES ASSUME NEW k \in 1..Len(csvVals)
               PROVE  /\ csvVals[k].len \in Nat /\ First(csvVals[k]) \in Nat
                      /\ Past(csvVals[k]) \in Nat /\ First(csvVals[k]) <= Past(csvVals[k])
                      /\ Past(csvVals[k]) < Here
                      /\ csvLine[Past(csvVals[k])] = C!NUL
    OBVIOUS
  <2>1. csvVals[k] \in Csvals
    BY <1>6
  <2>2. First(csvVals[k]) \in Int /\ csvVals[k].len \in Nat
    <3>1. csvVals[k].str.at \in Int /\ csvVals[k].len \in Nat
      BY <2>1 DEF Csvals, Pointers
    <3>2. Base \in Int
      BY <1>6
    <3> QED
      BY <3>1, <3>2 DEF First
  <2> QED
    BY <1>7, <2>2 DEF CsvInv, FieldsInLine, Past
<1>15. FieldsInLine'
  <2> SUFFICES ASSUME NEW k \in 1..Len(csvVals')
               PROVE  /\ First(csvVals'[k]) >= 0 /\ Past(csvVals'[k]) < csvLen
                      /\ csvLine'[Past(csvVals'[k])] = C!NUL
    BY <1>4 DEF FieldsInLine
  <2>1. CASE csvVals'[k] = field
    BY <1>6, <1>7, <1>8, <1>11, <2>1
  <2>2. CASE k - 1 \in 1..Len(csvVals) /\ csvVals'[k] = csvVals[k - 1]
    <3>1. /\ First(csvVals[k - 1]) \in Nat /\ Past(csvVals[k - 1]) \in Nat
          /\ Past(csvVals[k - 1]) < Here /\ csvLine[Past(csvVals[k - 1])] = C!NUL
      BY <1>14, <2>2
    <3>2. Past(csvVals[k - 1]) \in 0..(csvLen - 1) /\ Past(csvVals[k - 1]) # end
      BY <1>6, <1>8, <3>1
    <3> QED
      BY <1>6, <1>8, <1>11, <2>2, <3>1, <3>2
  <2> QED
    BY <1>13, <2>1, <2>2
<1>16. FieldsChained'
  <2> SUFFICES ASSUME NEW k \in 1..Len(csvVals')
               PROVE  First(csvVals'[k]) =
                        IF k = Len(csvVals') THEN 0 ELSE Past(csvVals'[k + 1]) + 1
    BY DEF FieldsChained, Begin
  <2>1. CASE k = 1
    <3>1. First(csvVals'[k]) = Begin(0) /\ Len(csvVals) \in Nat
      BY <1>6, <1>7, <1>8, <1>9, <2>1
    <3>2. CASE Len(csvVals) = 0
      BY <1>9, <2>1, <3>1, <3>2 DEF Begin
    <3>3. CASE Len(csvVals) # 0
      <4>1. 1 \in 1..Len(csvVals)
        BY <3>1, <3>3
      <4>2. csvVals'[1 + 1] = csvVals[1]
        BY <1>9, <4>1
      <4> QED
        BY <1>9, <2>1, <3>1, <3>3, <4>2 DEF Begin
    <3> QED
      BY <3>2, <3>3
  <2>2. CASE k # 1
    <3>1. k - 1 \in 1..Len(csvVals) /\ csvVals'[k] = csvVals[k - 1]
      BY <1>13, <2>2
    <3>2. First(csvVals[k - 1]) = Begin(k - 1)
      BY <3>1 DEF CsvInv, FieldsChained
    <3>3. k # Len(csvVals') => csvVals'[k + 1] = csvVals[k]
      <4>1. k # Len(csvVals') => k \in 1..Len(csvVals)
        BY <1>6, <1>9
      <4> QED
        BY <1>9, <4>1
    <3> QED
      BY <1>6, <1>9, <3>1, <3>2, <3>3 DEF Begin
  <2> QED
    BY <2>1, <2>2
<1>17. FieldsApart'
  <2> SUFFICES ASSUME NEW k \in 1..Len(csvVals'), NEW l \in 1..Len(csvVals'), k < l
               PROVE  Past(csvVals'[l]) < First(csvVals'[k])
    BY DEF FieldsApart
  <2>1. l - 1 \in 1..Len(csvVals) /\ csvVals'[l] = csvVals[l - 1]
    BY <1>13
  <2>2. CASE k = 1
    BY <1>7, <1>8, <1>13, <2>1, <2>2
  <2>3. CASE k # 1
    <3>1. k - 1 \in 1..Len(csvVals) /\ csvVals'[k] = csvVals[k - 1]
      BY <1>13, <2>3
    <3> QED
      BY <2>1, <3>1 DEF CsvInv, FieldsApart
  <2> QED
    BY <2>2, <2>3
<1>18. Searching'
  <2>1. Here' = end + 1 /\ Here' = Begin(0)'
    <3>1. Here' = end + 1
      BY <1>10 DEF Here
    <3>2. Len(csvVals') # 0 /\ csvVals'[0 + 1] = field
      BY <1>6, <1>9
    <3>3. Begin(0)' = end + 1
      BY <1>8, <3>2 DEF Begin
    <3> QED
      BY <3>1, <3>3
  <2>2. csvN' = csvLen - (end + 1) /\ csvN' >= 0
    <3>1. csvN' = csvN - (vlen + 1)
      BY <1>5
    <3>2. csvLen \in Int /\ csvN = csvLen - Here
      BY <1>6, <1>7
    <3>3. vlen = end - Here /\ vlen \in Int /\ Here \in Int /\ end \in Int /\ end < csvLen
      BY <1>8
    <3> DEFINE here == Here
               n == csvN
               next == csvN'
    <3>4. /\ next = n - (vlen + 1) /\ n = csvLen - here /\ vlen = end - here
          /\ here \in Int /\ vlen \in Int /\ end \in Int /\ csvLen \in Int /\ end < csvLen
      BY <3>1, <3>2, <3>3
    <3>5. next = csvLen - (end + 1) /\ next >= 0
      <4> HIDE DEF here, n, next
      <4> QED
        BY <3>4
    <3> QED
      BY <3>5
  <2>3. ASSUME NEW k \in 1..Len(csvVals')
        PROVE  Past(csvVals'[k]) < end + 1 /\ Kept(k)'
    <3>1. SUFFICES /\ Past(csvVals'[k]) < end + 1
                   /\ \A x \in First(csvVals'[k])..(Past(csvVals'[k]) - 1) :
                        csvLine'[x] = csvInput[x]
      BY <1>4 DEF Kept
    <3>2. CASE k = 1
      <4>1. First(csvVals'[k]) = Here /\ Past(csvVals'[k]) = end
        BY <1>8, <1>9, <3>2
      <4>2. ASSUME NEW x \in Here..(end - 1) PROVE csvLine'[x] = csvInput[x]
        <5>1. x \in Here..(csvLen - 1) /\ x \in 0..(csvLen - 1) /\ x # end
          BY <1>6, <1>7, <1>8
        <5> QED
          BY <1>7, <1>11, <5>1
      <4>3. end < end + 1
        BY <1>8
      <4> QED
        BY <4>1, <4>2, <4>3
    <3>3. CASE k # 1
      <4>1. k - 1 \in 1..Len(csvVals) /\ csvVals'[k] = csvVals[k - 1]
        BY <1>13, <3>3
      <4>2. Kept(k - 1)
        BY <1>7, <4>1
      <4>3. /\ First(csvVals[k - 1]) \in Nat /\ Past(csvVals[k - 1]) \in Nat
            /\ Past(csvVals[k - 1]) < Here
        BY <1>14, <4>1
      <4>4. \A x \in First(csvVals[k - 1])..(Past(csvVals[k - 1]) - 1) :
              x \in 0..(csvLen - 1) /\ x # end /\ csvLine[x] = csvInput[x]
        BY <1>6, <1>8, <4>2, <4>3 DEF Kept
      <4>5. \A x \in First(csvVals[k - 1])..(Past(csvVals[k - 1]) - 1) :
              csvLine'[x] = csvInput[x]
        BY <1>11, <4>4
      <4>6. Past(csvVals[k - 1]) < end + 1
        BY <1>8, <4>3
      <4> QED
        BY <4>1, <4>5, <4>6
    <3> QED
      BY <3>2, <3>3
  <2>4. \A x \in (end + 1)..(csvLen - 1) : csvLine'[x] = csvInput[x]
    BY <1>6, <1>7, <1>8, <1>11
  <2> QED
    BY <1>4, <2>1, <2>2, <2>3, <2>4 DEF Searching
<1>19. Lowercasing' /\ LowercasingField'
  BY <1>1, <1>4 DEF Lowercasing, LowercasingField
<1> QED
  BY <1>12, <1>15, <1>16, <1>17, <1>18, <1>19 DEF CsvInv

\* What the conjuncts say of the fields and of the line alone.
LEMMA FieldFacts ==
  ASSUME CsvInv, NEW k \in 1..Len(csvVals)
  PROVE  /\ csvVals[k] \in Csvals /\ csvVals[k].len \in Nat
         /\ First(csvVals[k]) \in Nat /\ Past(csvVals[k]) \in Nat
         /\ Past(csvVals[k]) = First(csvVals[k]) + csvVals[k].len
         /\ First(csvVals[k]) <= Past(csvVals[k]) /\ Past(csvVals[k]) < csvLen
         /\ csvLine[Past(csvVals[k])] = C!NUL
<1>1. csvVals[k] \in Csvals /\ Base \in Nat
  BY DEF CsvInv, CsvTypeOK
<1>2. First(csvVals[k]) \in Int /\ csvVals[k].len \in Nat
  BY <1>1 DEF First, Csvals, Pointers
<1> QED
  BY <1>1, <1>2 DEF CsvInv, FieldsInLine, Past

\* lowercase_csvals goes on with a list of which no field was touched yet.
LEMMA EnterKeeps ==
  ASSUME CsvInv, NEW w \in Seq(Csvals), Len(w) <= Len(csvVals),
         \A k \in 1..Len(w) : w[k] = csvVals[(Len(csvVals) - Len(w)) + k],
         \A k \in 1..(Len(csvVals) - Len(w)) : Lowered(k),
         \A k \in ((Len(csvVals) - Len(w)) + 1)..Len(csvVals) : Kept(k),
         C!Enter(w), UNCHANGED <<csvLen, csvInput, csvLine, csvVals>>
  PROVE  CsvInv'
<1>1. /\ csvVals \in Seq(Csvals) /\ Len(csvVals) \in Nat /\ Len(w) \in Nat
      /\ Base \in Nat \ {0} /\ csvLen \in Nat \ {0}
      /\ csvS \in Pointers /\ csvN \in Int /\ csvV' = w
  BY DEF CsvInv, CsvTypeOK, C!Enter
<1>2. Pointers' = Pointers /\ Csvals' = Csvals
  BY DEF Pointers, Csvals
<1>3. CASE w = <<>>
  <2>1. csvPc' = "done" /\ csvS' = csvS /\ csvN' = csvN /\ Len(w) = 0
    BY <1>3 DEF C!Enter
  <2>2. CsvTypeOK'
    BY <1>1, <1>2, <2>1 DEF CsvInv, CsvTypeOK
  <2>3. FieldsInLine' /\ FieldsChained' /\ FieldsApart' /\ Searching' /\ LowercasingField'
    BY <2>1 DEF CsvInv, FieldsInLine, FieldsChained, FieldsApart, Begin, Searching,
                LowercasingField
  <2>4. Lowercasing'
    BY <1>1, <1>3, <2>1 DEF Lowercasing, Passed, Lowered
  <2> QED
    BY <2>2, <2>3, <2>4 DEF CsvInv
<1>4. CASE w # <<>>
  <2>1. csvPc' = "strntolower" /\ csvS' = Head(w).str /\ csvN' = Head(w).len
    BY <1>4 DEF C!Enter
  <2> DEFINE d == (Len(csvVals) - Len(w)) + 1
  <2>2. /\ Len(w) >= 1 /\ Head(w) = csvVals[d] /\ d \in 1..Len(csvVals)
    BY <1>1, <1>4
  <2>3. Passed' = Len(csvVals) - Len(w)
    BY <1>1 DEF Passed
  <2> HIDE DEF d
  <2>4. /\ csvVals[d] \in Csvals /\ csvVals[d].len \in Nat
        /\ First(csvVals[d]) \in Nat /\ Past(csvVals[d]) \in Nat
        /\ Past(csvVals[d]) = First(csvVals[d]) + csvVals[d].len
        /\ First(csvVals[d]) <= Past(csvVals[d]) /\ Past(csvVals[d]) < csvLen
    BY <2>2, FieldFacts
  <2>5. CsvTypeOK'
    <3>1. csvS' \in Pointers /\ csvN' \in Int
      BY <2>1, <2>2, <2>4 DEF Csvals
    <3> QED
      BY <1>1, <1>2, <2>1, <3>1 DEF CsvInv, CsvTypeOK
  <2>6. FieldsInLine' /\ FieldsChained' /\ FieldsApart' /\ Searching'
    BY <2>1 DEF CsvInv, FieldsInLine, FieldsChained, FieldsApart, Begin, Searching
  <2>7. Lowercasing'
    <3>1. \A k \in 1..Passed' : Lowered(k)'
      <4>1. \A k \in 1..Passed' : Lowered(k)
        BY <2>3
      <4> QED
        BY <4>1 DEF Lowered
    <3>2. Len(w) <= Len(csvVals) /\ \A k \in 1..Len(w) : w[k] = csvVals[Passed' + k]
      BY <2>3
    <3>3. csvPc' # "done" /\ csvV' # <<>> /\ csvV' = w /\ csvVals' = csvVals
      BY <1>1, <1>4, <2>1
    <3> QED
      BY <3>1, <3>2, <3>3 DEF Lowercasing
  <2>8. LowercasingField'
    <3>1. Passed' + 1 = d /\ Passed' + 2 = d + 1
      BY <1>1, <2>3 DEF d
    <3>2. Here' = First(csvVals[d])
      BY <2>1, <2>2 DEF Here, First
    <3>3. csvN' = Past(csvVals[d]) - First(csvVals[d])
      BY <2>1, <2>2, <2>4
    <3>4. \A k \in d..Len(csvVals) : Kept(k)
      BY DEF d
    <3>5. \A x \in First(csvVals[d])..(Past(csvVals[d]) - 1) : csvLine[x] = csvInput[x]
      BY <2>2, <3>4 DEF Kept
    <3>6. \A k \in (d + 1)..Len(csvVals) : Kept(k)'
      <4>1. \A k \in (d + 1)..Len(csvVals) : Kept(k)
        BY <2>2, <3>4
      <4> QED
        BY <4>1 DEF Kept
    <3> QED
      BY <2>4, <3>1, <3>2, <3>3, <3>5, <3>6 DEF LowercasingField
  <2> QED
    BY <2>5, <2>6, <2>7, <2>8 DEF CsvInv
<1> QED
  BY <1>3, <1>4

LEMMA LastFieldKeeps ==
  ASSUME CsvInv, C!LastField
  PROVE  CsvInv'
<1>1. csvVals \in Seq(Csvals) /\ Len(csvVals) \in Nat /\ csvPc = "revstrncsvals"
  BY DEF CsvInv, CsvTypeOK, C!LastField
<1>2. \A k \in 1..Len(csvVals) : Kept(k)
  BY <1>1 DEF CsvInv, Searching
<1>3. C!Enter(csvVals) /\ UNCHANGED <<csvLen, csvInput, csvLine, csvVals>>
  BY DEF C!LastField
<1>4. /\ Len(csvVals) <= Len(csvVals) /\ Len(csvVals) - Len(csvVals) = 0
      /\ \A k \in 1..Len(csvVals) : csvVals[k] = csvVals[0 + k]
      /\ \A k \in 1..0 : Lowered(k)
      /\ \A k \in (0 + 1)..Len(csvVals) : Kept(k)
  BY <1>1, <1>2
<1> QED
  BY <1>1, <1>3, <1>4, EnterKeeps

\* What strntolower is at: a field of the list, and a char of it.
LEMMA AtChar ==
  ASSUME CsvInv, csvPc = "strntolower"
  PROVE  /\ Len(csvV) \in 1..Len(csvVals) /\ Passed + 1 \in 1..Len(csvVals)
         /\ Passed \in Nat /\ Here \in Nat /\ Here < csvLen
         /\ First(csvVals[Passed + 1]) <= Here /\ Here <= Past(csvVals[Passed + 1])
         /\ csvN = Past(csvVals[Passed + 1]) - Here
         /\ C!Offset(csvS) = Here
         /\ csvLine[Here] = IF csvN = 0 THEN C!NUL ELSE csvInput[Here]
<1>1. /\ csvVals \in Seq(Csvals) /\ csvV \in Seq(Csvals) /\ Base \in Nat /\ csvLen \in Nat
      /\ csvS \in Pointers /\ Len(csvVals) \in Nat /\ Len(csvV) \in Nat
  BY DEF CsvInv, CsvTypeOK
<1>2. csvV # <<>> /\ Len(csvV) <= Len(csvVals)
  BY DEF CsvInv, Lowercasing
<1>3. Len(csvV) >= 1
  BY <1>1, <1>2
<1>4. Len(csvV) \in 1..Len(csvVals) /\ Passed + 1 \in 1..Len(csvVals) /\ Passed \in Nat
  BY <1>1, <1>2, <1>3 DEF Passed
<1>5. /\ First(csvVals[Passed + 1]) <= Here /\ Here <= Past(csvVals[Passed + 1])
      /\ csvN = Past(csvVals[Passed + 1]) - Here
      /\ \A x \in Here..(Past(csvVals[Passed + 1]) - 1) : csvLine[x] = csvInput[x]
  BY DEF CsvInv, LowercasingField
<1>6. /\ First(csvVals[Passed + 1]) \in Nat /\ Past(csvVals[Passed + 1]) \in Nat
      /\ Past(csvVals[Passed + 1]) < csvLen /\ csvLine[Past(csvVals[Passed + 1])] = C!NUL
  BY <1>4, FieldFacts
<1>7. C!Offset(csvS) = Here /\ Here \in Int
  BY <1>1 DEF C!Offset, Here, Pointers
<1> DEFINE past == Past(csvVals[Passed + 1])
<1>8. Here \in Nat /\ Here < csvLen
  BY <1>1, <1>5, <1>6, <1>7
<1>9. csvLine[Here] = IF csvN = 0 THEN C!NUL ELSE csvInput[Here]
  <2> HIDE DEF past
  <2>1. past \in Nat /\ Here <= past /\ csvN = past - Here /\ csvLine[past] = C!NUL
    BY <1>5, <1>6 DEF past
  <2>2. CASE csvN = 0
    BY <1>8, <2>1, <2>2
  <2>3. CASE csvN # 0
    <3>1. Here \in Here..(past - 1)
      BY <1>8, <2>1, <2>3
    <3> QED
      BY <1>5, <2>3, <3>1 DEF past
  <2> QED
    BY <2>2, <2>3
<1> QED
  BY <1>4, <1>5, <1>7, <1>8, <1>9

LEMMA LowerCharKeeps ==
  ASSUME CsvInv, C!LowerChar
  PROVE  CsvInv'
<1> DEFINE d == Passed + 1
           here == Here
<1>1. csvPc = "strntolower" /\ csvN # 0
  BY DEF C!LowerChar
<1>2. /\ UNCHANGED <<csvLen, csvInput, csvPc, csvVals, csvV>>
      /\ csvS' = C!Advance(csvS, 1) /\ csvN' = csvN - 1
  BY DEF C!LowerChar
<1>3. /\ csvLen \in Nat \ {0} /\ Base \in Nat \ {0} /\ csvN \in Int
      /\ csvInput \in [0..(csvLen - 1) -> C!Chars] /\ csvLine \in [0..(csvLen - 1) -> C!Chars]
      /\ csvS \in Pointers /\ csvVals \in Seq(Csvals) /\ csvV \in Seq(Csvals)
      /\ Len(csvVals) \in Nat
  BY DEF CsvInv, CsvTypeOK
<1>4. /\ d \in 1..Len(csvVals) /\ Passed \in Nat /\ here \in Nat /\ here < csvLen
      /\ First(csvVals[d]) <= here /\ here <= Past(csvVals[d])
      /\ csvN = Past(csvVals[d]) - here
      /\ C!Offset(csvS) = here
      /\ csvLine[here] = csvInput[here]
  BY <1>1, AtChar
<1>5. /\ csvVals[d] \in Csvals /\ First(csvVals[d]) \in Nat /\ Past(csvVals[d]) \in Nat
      /\ Past(csvVals[d]) < csvLen
  BY <1>4, FieldFacts
<1>6. here < Past(csvVals[d]) /\ here \in 0..(csvLen - 1)
  BY <1>1, <1>3, <1>4, <1>5
<1>7. csvInput[here] # C!NUL /\ csvLine' = [csvLine EXCEPT ![here] = C!tolower(csvInput[here])]
  BY <1>4 DEF C!LowerChar, C!Load, C!Store
<1>8. /\ csvLine' \in [0..(csvLen - 1) -> C!Chars]
      /\ csvLine'[here] = C!tolower(csvInput[here])
      /\ \A x \in 0..(csvLen - 1) : x # here => csvLine'[x] = csvLine[x]
  <2>1. C!tolower(csvInput[here]) \in C!Chars
    BY <1>3, <1>6 DEF C!tolower, C!Chars
  <2> QED
    BY <1>3, <1>6, <1>7, <2>1
<1>9. /\ csvS' \in Pointers /\ Here' = here + 1 /\ csvS.at \in Int
  <2>1. C!Advance(csvS, 1) \in Pointers /\ C!Advance(csvS, 1).at = csvS.at + 1 /\ csvS.at \in Int
    BY <1>3, 1 \in Int, Advanced
  <2> QED
    BY <1>2, <1>3, <2>1 DEF Here
<1>10. Pointers' = Pointers /\ Csvals' = Csvals /\ Passed' = Passed
  BY <1>2 DEF Pointers, Csvals, Passed
<1> HIDE DEF here, d
<1>11. CsvTypeOK'
  BY <1>1, <1>2, <1>3, <1>8, <1>9, <1>10 DEF CsvTypeOK
\* the other fields are before this one or after it
<1>12. ASSUME NEW k \in 1..Len(csvVals), k # d, NEW x \in First(csvVals[k])..Past(csvVals[k])
       PROVE  x \in 0..(csvLen - 1) /\ x # here
  <2>1. /\ First(csvVals[k]) \in Nat /\ Past(csvVals[k]) \in Nat /\ Past(csvVals[k]) < csvLen
    BY FieldFacts
  <2>2. k < d => Past(csvVals[d]) < First(csvVals[k])
    BY <1>4 DEF CsvInv, FieldsApart
  <2>3. k > d => Past(csvVals[k]) < First(csvVals[d])
    BY <1>4 DEF CsvInv, FieldsApart
  <2>4. k < d \/ k > d
    BY <1>3, <1>4, <1>12
  <2>5. x \in Int /\ First(csvVals[k]) <= x /\ x <= Past(csvVals[k])
    BY <2>1
  <2>6. /\ csvLen \in Nat /\ here \in Nat
        /\ First(csvVals[d]) <= here /\ here < Past(csvVals[d])
    BY <1>3, <1>4, <1>6
  <2>7. x # here
    <3>1. CASE k < d
      BY <1>5, <2>1, <2>2, <2>5, <2>6, <3>1
    <3>2. CASE k > d
      BY <1>5, <2>1, <2>3, <2>5, <2>6, <3>2
    <3> QED
      BY <2>4, <3>1, <3>2
  <2> QED
    BY <2>1, <2>5, <2>6, <2>7
<1>13. FieldsInLine'
  <2> SUFFICES ASSUME NEW k \in 1..Len(csvVals)
               PROVE  /\ First(csvVals[k]) >= 0 /\ Past(csvVals[k]) < csvLen
                      /\ csvLine'[Past(csvVals[k])] = C!NUL
    BY <1>2 DEF FieldsInLine
  <2>1. /\ First(csvVals[k]) \in Nat /\ Past(csvVals[k]) \in Nat /\ Past(csvVals[k]) < csvLen
        /\ First(csvVals[k]) <= Past(csvVals[k]) /\ csvLine[Past(csvVals[k])] = C!NUL
    BY FieldFacts
  <2>2. Past(csvVals[k]) \in 0..(csvLen - 1) /\ Past(csvVals[k]) # here
    <3>1. CASE k = d
      BY <1>3, <1>6, <2>1, <3>1
    <3>2. CASE k # d
      BY <1>12, <2>1, <3>2
    <3> QED
      BY <3>1, <3>2
  <2> QED
    BY <1>8, <2>1, <2>2
<1>14. FieldsChained' /\ FieldsApart' /\ Searching'
  BY <1>1, <1>2 DEF CsvInv, FieldsChained, FieldsApart, Begin, Searching
\* what is said of the chars of another field still holds
<1>15. ASSUME NEW k \in 1..Len(csvVals), k # d
       PROVE  /\ Kept(k) => Kept(k)'
              /\ Lowered(k) => Lowered(k)'
  <2>1. \A x \in First(csvVals[k])..(Past(csvVals[k]) - 1) : csvLine'[x] = csvLine[x]
    <3>1. First(csvVals[k]) \in Nat /\ Past(csvVals[k]) \in Nat
      BY FieldFacts
    <3> QED
      BY <1>8, <1>12, <1>15, <3>1
  <2>2. Kept(k) => Kept(k)'
    BY <1>2, <2>1 DEF Kept
  <2>3. Lowered(k) => Lowered(k)'
    BY <1>2, <2>1 DEF Lowered
  <2> QED
    BY <2>2, <2>3
<1>16. Lowercasing'
  <2>1. /\ Len(csvV) <= Len(csvVals)
        /\ \A k \in 1..Len(csvV) : csvV[k] = csvVals[Passed + k]
        /\ \A k \in 1..Passed : Lowered(k)
        /\ csvPc = "done" <=> csvV = <<>>
    BY <1>1 DEF CsvInv, Lowercasing
  <2>2. \A k \in 1..Passed : k \in 1..Len(csvVals) /\ k # d
    BY <1>3, <1>4 DEF d
  <2>3. \A k \in 1..Passed : Lowered(k)'
    BY <1>15, <2>1, <2>2
  <2> QED
    BY <1>2, <1>10, <2>1, <2>3 DEF Lowercasing
<1>17. LowercasingField'
  <2>1. /\ \A x \in First(csvVals[d])..(here - 1) :
             csvInput[x] # C!NUL /\ csvLine[x] = C!tolower(csvInput[x])
        /\ \A x \in here..(Past(csvVals[d]) - 1) : csvLine[x] = csvInput[x]
        /\ \A k \in (Passed + 2)..Len(csvVals) : Kept(k)
    BY <1>1 DEF CsvInv, LowercasingField, d, here
  <2>2. /\ First(csvVals[d]) <= here + 1 /\ here + 1 <= Past(csvVals[d])
        /\ csvN' = Past(csvVals[d]) - (here + 1)
    BY <1>2, <1>4, <1>5, <1>6
  <2>3. \A x \in First(csvVals[d])..((here + 1) - 1) :
          csvInput[x] # C!NUL /\ csvLine'[x] = C!tolower(csvInput[x])
    BY <1>3, <1>4, <1>5, <1>7, <1>8, <2>1
  <2>4. \A x \in (here + 1)..(Past(csvVals[d]) - 1) : csvLine'[x] = csvInput[x]
    BY <1>3, <1>4, <1>5, <1>8, <2>1
  <2>5. \A k \in (Passed + 2)..Len(csvVals) : Kept(k)'
    <3>1. \A k \in (Passed + 2)..Len(csvVals) : k \in 1..Len(csvVals) /\ k # d
      BY <1>3, <1>4 DEF d
    <3> QED
      BY <1>15, <2>1, <3>1
  <2> QED
    BY <1>2, <1>9, <1>10, <2>2, <2>3, <2>4, <2>5 DEF LowercasingField, d
<1> QED
  BY <1>11, <1>13, <1>14, <1>16, <1>17 DEF CsvInv

LEMMA NextValueKeeps ==
  ASSUME CsvInv, C!NextValue
  PROVE  CsvInv'
<1> DEFINE d == Passed + 1
           here == Here
<1>1. /\ csvPc = "strntolower" /\ (csvN = 0 \/ C!Load(csvS) = C!NUL)
      /\ C!Enter(Tail(csvV)) /\ UNCHANGED <<csvLen, csvInput, csvLine, csvVals>>
  BY DEF C!NextValue
<1>2. csvPc = "strntolower"
  BY DEF C!NextValue
<1>3. /\ csvVals \in Seq(Csvals) /\ csvV \in Seq(Csvals) /\ Len(csvVals) \in Nat
      /\ Len(csvV) \in Nat /\ csvN \in Int
  BY DEF CsvInv, CsvTypeOK
<1>4. /\ Len(csvV) \in 1..Len(csvVals) /\ d \in 1..Len(csvVals) /\ Passed \in Nat
      /\ here \in Nat /\ First(csvVals[d]) <= here /\ here <= Past(csvVals[d])
      /\ csvN = Past(csvVals[d]) - here /\ C!Offset(csvS) = here
      /\ csvLine[here] = IF csvN = 0 THEN C!NUL ELSE csvInput[here]
  BY <1>2, AtChar
<1>5. /\ First(csvVals[d]) \in Nat /\ Past(csvVals[d]) \in Nat
  BY <1>4, FieldFacts
<1>6. /\ \A x \in First(csvVals[d])..(here - 1) :
           csvInput[x] # C!NUL /\ csvLine[x] = C!tolower(csvInput[x])
      /\ \A x \in here..(Past(csvVals[d]) - 1) : csvLine[x] = csvInput[x]
      /\ \A k \in (Passed + 2)..Len(csvVals) : Kept(k)
  BY <1>2 DEF CsvInv, LowercasingField
<1>7. /\ \A k \in 1..Len(csvV) : csvV[k] = csvVals[Passed + k]
      /\ \A k \in 1..Passed : Lowered(k)
  BY <1>2 DEF CsvInv, Lowercasing
<1>8. Passed = Len(csvVals) - Len(csvV)
  BY DEF Passed
<1>9. csvN = 0 \/ csvInput[here] = C!NUL
  BY <1>1, <1>4 DEF C!Load
<1> HIDE DEF here, d
<1>10. Lowered(d)
  <2> SUFFICES ASSUME NEW x \in First(csvVals[d])..(Past(csvVals[d]) - 1)
               PROVE  csvLine[x] = IF \E y \in First(csvVals[d])..x : csvInput[y] = C!NUL
                                   THEN csvInput[x] ELSE C!tolower(csvInput[x])
    BY DEF Lowered
  <2>1. CASE x < here
    <3>1. \A y \in First(csvVals[d])..x : y \in First(csvVals[d])..(here - 1)
      BY <1>4, <1>5, <2>1
    <3>2. x \in First(csvVals[d])..(here - 1)
      BY <1>4, <1>5, <2>1
    <3> QED
      BY <1>6, <3>1, <3>2
  <2>2. CASE x >= here
    <3>1. here \in First(csvVals[d])..x /\ csvN # 0
      BY <1>3, <1>4, <1>5, <2>2
    <3>2. csvInput[here] = C!NUL
      BY <1>9, <3>1
    <3>3. x \in here..(Past(csvVals[d]) - 1)
      BY <1>4, <1>5, <2>2
    <3> QED
      BY <1>6, <3>1, <3>2, <3>3
  <2> QED
    BY <1>4, <1>5, <2>1, <2>2
<1> DEFINE w == Tail(csvV)
<1>11. /\ w \in Seq(Csvals) /\ Len(w) = Len(csvV) - 1 /\ Len(w) <= Len(csvVals)
       /\ \A k \in 1..Len(w) : w[k] = csvV[k + 1]
  BY <1>3, <1>4
<1>12. Len(csvVals) - Len(w) = d
  BY <1>3, <1>8, <1>11 DEF d
<1>13. ASSUME NEW k \in 1..Len(w) PROVE w[k] = csvVals[d + k]
  <2>1. k + 1 \in 1..Len(csvV) /\ Passed + (k + 1) = d + k
    BY <1>3, <1>4, <1>11 DEF d
  <2> QED
    BY <1>7, <1>11, <2>1
<1>14. ASSUME NEW k \in 1..d PROVE Lowered(k)
  <2>1. k \in 1..Passed \/ k = d
    BY <1>4 DEF d
  <2> QED
    BY <1>7, <1>10, <2>1
<1>15. \A k \in (d + 1)..Len(csvVals) : Kept(k)
  <2>1. d + 1 = Passed + 2
    BY <1>4 DEF d
  <2> QED
    BY <1>6, <2>1
<1> HIDE DEF w
<1>16. /\ \A k \in 1..Len(w) : w[k] = csvVals[(Len(csvVals) - Len(w)) + k]
       /\ \A k \in 1..(Len(csvVals) - Len(w)) : Lowered(k)
       /\ \A k \in ((Len(csvVals) - Len(w)) + 1)..Len(csvVals) : Kept(k)
  BY <1>12, <1>13, <1>14, <1>15
<1>17. C!Enter(w)
  BY <1>1 DEF w
<1> QED
  BY <1>1, <1>11, <1>16, <1>17, EnterKeeps

LEMMA CsvStepKeeps == CsvInv /\ [C!Next]_(C!vars) => CsvInv'
<1> SUFFICES ASSUME CsvInv, [C!Next]_(C!vars) PROVE CsvInv'
  OBVIOUS
<1>1. CASE UNCHANGED C!vars
  <2>1. /\ csvLen' = csvLen /\ csvInput' = csvInput /\ csvLine' = csvLine /\ csvPc' = csvPc
        /\ csvS' = csvS /\ csvN' = csvN /\ csvVals' = csvVals /\ csvV' = csvV
    BY <1>1 DEF C!vars
  <2>2. \A k : /\ Begin(k)' = Begin(k) /\ Kept(k)' = Kept(k) /\ Lowered(k)' = Lowered(k)
    BY <2>1 DEF Begin, Kept, Lowered
  <2>3. Here' = Here /\ Passed' = Passed
    BY <2>1 DEF Here, Passed
  <2>4. CsvTypeOK'
    BY <2>1 DEF CsvInv, CsvTypeOK, Pointers, Csvals
  <2>5. FieldsInLine' /\ FieldsChained' /\ FieldsApart'
    BY <2>1, <2>2 DEF CsvInv, FieldsInLine, FieldsChained, FieldsApart
  <2>6. Searching' /\ Lowercasing'
    BY <2>1, <2>2, <2>3 DEF CsvInv, Searching, Lowercasing
  <2>7. LowercasingField'
    BY <2>1, <2>2, <2>3 DEF CsvInv, LowercasingField
  <2> QED
    BY <2>4, <2>5, <2>6, <2>7 DEF CsvInv
<1> QED
  BY <1>1, NextFieldKeeps, LastFieldKeeps, LowerCharKeeps, NextValueKeeps DEF C!Next

LEMMA CsvRuns == DemosSpec => C!Spec
<1>1. DemosInit => C!Init
  BY DEF DemosInit
<1>2. [CsvStep \/ StringStep]_<<part, csv, stringlist>> => [C!Next]_(C!vars)
  BY DEF CsvStep, StringStep, C!vars, csv
<1> QED
  BY <1>1, <1>2, PTL DEF DemosSpec, C!Spec

LEMMA CsvInvariance == DemosSpec => []CsvInv
BY CsvInitially, CsvStepKeeps, CsvRuns, PTL DEF C!Spec

LEMMA CsvSafe == CsvInv => C!InBounds
<1> SUFFICES ASSUME CsvInv PROVE C!InBounds
  OBVIOUS
<1>1. /\ csvS \in Pointers /\ csvS.at \in Int /\ Base \in Nat \ {0} /\ csvLen \in Nat /\ csvN \in Int
      /\ csvVals \in Seq(Csvals) /\ Len(csvVals) \in Nat
      /\ csvS.begin = Base /\ csvS.end = Base + csvLen
  BY DEF CsvInv, CsvTypeOK, Pointers
<1>2. CASE csvPc = "revstrncsvals" /\ csvN > 0
  <2>1. Here = Begin(0) /\ csvN = csvLen - Here
    BY <1>2 DEF CsvInv, Searching
  <2>2. Begin(0) >= 0
    <3>1. CASE Len(csvVals) = 0
      BY <3>1 DEF Begin
    <3>2. CASE Len(csvVals) # 0
      <4>1. 1 \in 1..Len(csvVals)
        BY <1>1, <3>2
      <4> QED
        BY <3>2, <4>1, FieldFacts DEF Begin
    <3> QED
      BY <3>1, <3>2
  <2> QED
    BY <1>1, <1>2, <2>1, <2>2
    DEF Here, C!InBounds, C!SIZE_GE, C!PVALIDPTR, C!PNONNULL, C!PVALIDLO, C!PVALIDHI, C!PSIZE_GE
<1>3. CASE csvPc = "strntolower" /\ csvN # 0
  BY <1>1, <1>3, AtChar
  DEF Here, C!InBounds, C!PVALIDPTR, C!PNONNULL, C!PVALIDLO, C!PVALIDHI
<1> QED
  BY <1>2, <1>3 DEF C!InBounds

LEMMA CsvPartitions == CsvInv => C!FieldsPartition
<1> SUFFICES ASSUME CsvInv PROVE C!FieldsPartition
  OBVIOUS
<1> DEFINE Start(k) == IF k = Len(csvVals) THEN Base
                       ELSE csvVals[k + 1].str.at + csvVals[k + 1].len + 1
<1>1. /\ csvS \in Pointers /\ csvS.at \in Int /\ Base \in Nat \ {0} /\ csvLen \in Nat /\ csvN \in Int
      /\ csvVals \in Seq(Csvals) /\ Len(csvVals) \in Nat
  BY DEF CsvInv, CsvTypeOK, Pointers
<1>2. ASSUME NEW k \in 1..Len(csvVals)
      PROVE  /\ csvVals[k].str \in Pointers /\ csvVals[k].str.at \in Int
             /\ csvVals[k].len \in Nat
             /\ First(csvVals[k]) = csvVals[k].str.at - Base
             /\ Past(csvVals[k]) = (csvVals[k].str.at - Base) + csvVals[k].len
             /\ csvLine[Past(csvVals[k])] = C!NUL
    BY <1>1, FieldFacts DEF Csvals, Pointers, First, Past
<1>3. ASSUME NEW k \in 0..Len(csvVals) PROVE Start(k) = Base + Begin(k)
  <2>1. CASE k = Len(csvVals)
    BY <1>1, <2>1 DEF Begin
  <2>2. CASE k # Len(csvVals)
    <3>1. k + 1 \in 1..Len(csvVals)
      BY <1>1, <2>2
    <3>2. Start(k) = csvVals[k + 1].str.at + csvVals[k + 1].len + 1
      BY <2>2
    <3>3. Begin(k) = Past(csvVals[k + 1]) + 1
      BY <2>2 DEF Begin
    <3>4. /\ Past(csvVals[k + 1]) = (csvVals[k + 1].str.at - Base) + csvVals[k + 1].len
          /\ csvVals[k + 1].str.at \in Int /\ csvVals[k + 1].len \in Nat
      BY <1>2, <3>1
    <3> DEFINE ad == csvVals[k + 1].str.at
               ln == csvVals[k + 1].len
    <3>5. Start(k) = ad + ln + 1 /\ Begin(k) = (ad - Base) + ln + 1 /\ ad \in Int /\ ln \in Int
      BY <3>2, <3>3, <3>4
    <3>6. Base \in Int
      BY <1>1
    <3> HIDE DEF Start, ad, ln
    <3> QED
      BY <3>5, <3>6
  <2> QED
    BY <2>1, <2>2
<1>4. ASSUME NEW k \in 1..Len(csvVals)
      PROVE  /\ csvVals[k].str.at = Start(k) /\ csvVals[k].len >= 0
             /\ C!Load(C!Advance(csvVals[k].str, csvVals[k].len)) = C!NUL
  <2>1. First(csvVals[k]) = Begin(k)
    BY DEF CsvInv, FieldsChained
  <2>2. csvVals[k].str.at = Base + Begin(k)
    BY <1>1, <1>2, <2>1
  <2>3. C!Offset(C!Advance(csvVals[k].str, csvVals[k].len)) = Past(csvVals[k])
    BY <1>1, <1>2 DEF C!Offset, C!Advance, Pointers
  <2> QED
    BY <1>2, <1>3, <2>2, <2>3 DEF C!Load
<1>5. csvPc = "revstrncsvals" => csvS.at = Start(0) /\ csvN = Base + csvLen - csvS.at
  <2> SUFFICES ASSUME csvPc = "revstrncsvals"
               PROVE  csvS.at = Start(0) /\ csvN = Base + csvLen - csvS.at
    OBVIOUS
  <2>1. Here = Begin(0) /\ csvN = csvLen - Here /\ Here \in Int
    BY <1>1 DEF CsvInv, Searching, Here
  <2>2. Start(0) = Base + Begin(0)
    BY <1>1, <1>3
  <2>3. csvS.at = Base + Here
    BY <1>1 DEF Here
  <2> HIDE DEF Start
  <2> QED
    BY <1>1, <2>1, <2>2, <2>3
<1> HIDE DEF Start
<1>6. C!FieldsPartition <=>
        /\ \A k \in 1..Len(csvVals) :
             /\ csvVals[k].str.at = Start(k) /\ csvVals[k].len >= 0
             /\ C!Load(C!Advance(csvVals[k].str, csvVals[k].len)) = C!NUL
        /\ csvPc = "revstrncsvals" => csvS.at = Start(0) /\ csvN = Base + csvLen - csvS.at
  BY DEF C!FieldsPartition, Start
<1> QED
  BY <1>4, <1>5, <1>6

LEMMA CsvLowers == CsvInv => C!FieldsLowered
<1> SUFFICES ASSUME CsvInv, csvPc = "done",
                    NEW k \in 1..Len(csvVals), NEW i \in 0..(csvVals[k].len - 1)
             PROVE  csvLine[C!Offset(csvVals[k].str) + i] =
                      IF \E j \in 0..i : csvInput[C!Offset(csvVals[k].str) + j] = C!NUL
                      THEN csvInput[C!Offset(csvVals[k].str) + i]
                      ELSE C!tolower(csvInput[C!Offset(csvVals[k].str) + i])
  BY DEF C!FieldsLowered
<1> DEFINE first == First(csvVals[k])
<1>1. /\ first \in Nat /\ csvVals[k].len \in Nat /\ Past(csvVals[k]) = first + csvVals[k].len
      /\ csvVals[k].str \in Pointers
  BY FieldFacts DEF Csvals
<1>2. C!Offset(csvVals[k].str) = first
  BY <1>1 DEF C!Offset, First, Pointers
<1> HIDE DEF first
<1>3. csvVals \in Seq(Csvals) /\ csvV = <<>> /\ Passed = Len(csvVals)
  BY DEF CsvInv, CsvTypeOK, Lowercasing, Passed
<1>4. Lowered(k)
  BY <1>3 DEF CsvInv, Lowercasing
<1>5. csvLine[first + i] = IF \E y \in first..(first + i) : csvInput[y] = C!NUL
                           THEN csvInput[first + i] ELSE C!tolower(csvInput[first + i])
  <2>1. first + i \in First(csvVals[k])..(Past(csvVals[k]) - 1)
    BY <1>1 DEF first
  <2> QED
    BY <1>4, <2>1 DEF Lowered, first
<1>6. (\E y \in first..(first + i) : csvInput[y] = C!NUL)
        <=> \E j \in 0..i : csvInput[first + j] = C!NUL
  <2>1. ASSUME NEW y \in first..(first + i), csvInput[y] = C!NUL
        PROVE  \E j \in 0..i : csvInput[first + j] = C!NUL
    <3>1. y - first \in 0..i /\ first + (y - first) = y
      BY <1>1
    <3> QED
      BY <2>1, <3>1
  <2>2. ASSUME NEW j \in 0..i, csvInput[first + j] = C!NUL
        PROVE  \E y \in first..(first + i) : csvInput[y] = C!NUL
    <3>1. first + j \in first..(first + i)
      BY <1>1
    <3> QED
      BY <2>2, <3>1
  <2> QED
    BY <2>1, <2>2
<1> QED
  BY <1>2, <1>5, <1>6

\* "The fields partition the line, and lowercasing reaches every char of a field
\* and nothing else", for every line and wherever strnchr finds its commas.
THEOREM FieldsPartitionAndLower == DemosSpec => []FieldsAreTheLine
<1>1. CsvInv => FieldsAreTheLine
  BY CsvPartitions, CsvLowers DEF FieldsAreTheLine
<1> QED
  BY <1>1, CsvInvariance, PTL

-----------------------------------------------------------------------------
(* demo/stringlist.c: blocks, and heaps of them                              *)

Values == {0, Letter, Garbage}

IsArray(b, k) == b \in [chars : [0..(k - 1) -> Values]]
IsString(b)   == b \in [len : Nat \ {0}, str : Nat \cup {Garbage}]
IsCell(b)     == b \in [next : Nat, s : Nat]

\* an array of k chars that are not what malloc left there
Filled(h, p, k) ==
  /\ p \in DOMAIN h /\ IsArray(h[p], k)
  /\ \A x \in 0..(k - 1) : h[p].chars[x] # Garbage

\* the length of the string of a cell, and the shape of a list that starts there
LenOf(h, t) == h[h[t].s].len

Linked(h, t) ==
  /\ h[t].s \in DOMAIN h /\ IsString(h[h[t].s])
  /\ IF LenOf(h, t) = 1 THEN h[t].next = T!Null
     ELSE /\ h[t].next \in DOMAIN h /\ IsCell(h[h[t].next])
          /\ h[h[t].next].s \in DOMAIN h /\ LenOf(h, h[t].next) = LenOf(h, t) - 1

Wellformed(h) ==
  /\ \E m \in Nat : DOMAIN h = 1..m
  /\ \A x \in DOMAIN h : (\E k \in Nat : IsArray(h[x], k)) \/ IsString(h[x]) \/ IsCell(h[x])
  /\ \A x \in DOMAIN h : IsString(h[x]) /\ h[x].str # Garbage => Filled(h, h[x].str, h[x].len)
  /\ \A x \in DOMAIN h : IsCell(h[x]) => Linked(h, x)

\* No block is freed, no string changes its length, no cell changes, and no char
\* that was set is lost.
Keeps(h, g) ==
  \A x \in DOMAIN h :
    /\ x \in DOMAIN g
    /\ IsString(h[x]) => IsString(g[x]) /\ g[x].len = h[x].len
    /\ IsCell(h[x]) => g[x] = h[x]
    /\ \A k \in Nat : IsArray(h[x], k) =>
         /\ IsArray(g[x], k)
         /\ \A y \in 0..(k - 1) : h[x].chars[y] # Garbage => g[x].chars[y] # Garbage

LEMMA Kinds ==
  /\ \A b : ~(IsString(b) /\ IsCell(b))
  /\ \A b, k : IsArray(b, k) => ~IsString(b) /\ ~IsCell(b)
<1>1. ASSUME NEW b, IsString(b), IsCell(b) PROVE FALSE
  <2>1. DOMAIN b = {"len", "str"}
    BY <1>1 DEF IsString
  <2>2. DOMAIN b = {"next", "s"}
    BY <1>1 DEF IsCell
  <2> QED
    BY <2>1, <2>2
<1>2. ASSUME NEW b, NEW k, IsArray(b, k) PROVE ~IsString(b) /\ ~IsCell(b)
  <2>1. DOMAIN b = {"chars"}
    BY <1>2 DEF IsArray
  <2>2. IsString(b) => DOMAIN b = {"len", "str"}
    BY DEF IsString
  <2>3. IsCell(b) => DOMAIN b = {"next", "s"}
    BY DEF IsCell
  <2> QED
    BY <2>1, <2>2, <2>3
<1> QED
  BY <1>1, <1>2

LEMMA SizeOfHeap ==
  ASSUME NEW h, NEW m \in Nat, DOMAIN h = 1..m
  PROVE  T!Cardinality(DOMAIN h) = m
<1>1. T!Cardinality(1..m) = Cardinality(1..m)
  BY DEF T!Cardinality, Cardinality
<1> QED
  BY <1>1, FS_Interval

\* What With adds is a block of its own, the next one.
LEMMA Added ==
  ASSUME NEW h, NEW m \in Nat, DOMAIN h = 1..m, NEW b,
         NEW g, g = T!With(h, m + 1, b)
  PROVE  /\ DOMAIN g = 1..(m + 1)
         /\ g[m + 1] = b /\ m + 1 \notin DOMAIN h /\ m + 1 \in DOMAIN g
         /\ \A x \in DOMAIN h : x \in DOMAIN g /\ g[x] = h[x]
BY DEF T!With

LEMMA FilledStays ==
  ASSUME NEW h, NEW g, Keeps(h, g), NEW p, NEW k \in Nat, Filled(h, p, k)
  PROVE  Filled(g, p, k)
<1>1. p \in DOMAIN h /\ IsArray(h[p], k) /\ \A y \in 0..(k - 1) : h[p].chars[y] # Garbage
  BY DEF Filled
<1>2. /\ p \in DOMAIN g /\ IsArray(g[p], k)
      /\ \A y \in 0..(k - 1) : h[p].chars[y] # Garbage => g[p].chars[y] # Garbage
  BY <1>1 DEF Keeps
<1> QED
  BY <1>1, <1>2 DEF Filled

LEMMA LinkedStays ==
  ASSUME NEW h, NEW g, Keeps(h, g), NEW t \in DOMAIN h, IsCell(h[t]), Linked(h, t),
         h[t].next \in DOMAIN h /\ IsCell(h[h[t].next]) => Linked(h, h[t].next)
  PROVE  Linked(g, t) /\ LenOf(g, t) = LenOf(h, t)
<1>1. g[t] = h[t]
  BY DEF Keeps
<1>2. g[t].s \in DOMAIN g /\ IsString(g[g[t].s]) /\ LenOf(g, t) = LenOf(h, t)
  BY <1>1 DEF Keeps, Linked, LenOf
<1>3. CASE LenOf(h, t) = 1
  BY <1>1, <1>2, <1>3 DEF Linked
<1>4. CASE LenOf(h, t) # 1
  <2> DEFINE u == h[t].next
  <2>1. u \in DOMAIN h /\ IsCell(h[u]) /\ h[u].s \in DOMAIN h /\ LenOf(h, u) = LenOf(h, t) - 1
    BY <1>4 DEF Linked
  <2>2. IsString(h[h[u].s])
    BY <2>1 DEF Linked
  <2>3. u \in DOMAIN g /\ g[u] = h[u] /\ g[u].s \in DOMAIN g /\ LenOf(g, u) = LenOf(h, u)
    BY <2>1, <2>2 DEF Keeps, LenOf
  <2> HIDE DEF u
  <2> QED
    BY <1>1, <1>2, <1>4, <2>1, <2>3 DEF Linked, u
<1> QED
  BY <1>3, <1>4

LEMMA WellformedStays ==
  ASSUME NEW h, Wellformed(h), NEW g, Keeps(h, g),
         \E m \in Nat : DOMAIN g = 1..m,
         \A x \in DOMAIN g :
           (\E k \in Nat : IsArray(g[x], k)) \/ IsString(g[x]) \/ IsCell(g[x]),
         \A x \in DOMAIN g :
           IsString(g[x]) /\ g[x].str # Garbage =>
             \/ x \in DOMAIN h /\ IsString(h[x]) /\ h[x].str = g[x].str
             \/ Filled(g, g[x].str, g[x].len),
         \A x \in DOMAIN g :
           IsCell(g[x]) => (x \in DOMAIN h /\ IsCell(h[x])) \/ Linked(g, x)
  PROVE  Wellformed(g)
<1>1. ASSUME NEW x \in DOMAIN g, IsString(g[x]), g[x].str # Garbage
      PROVE  Filled(g, g[x].str, g[x].len)
  <2>1. CASE x \in DOMAIN h /\ IsString(h[x]) /\ h[x].str = g[x].str
    <3>1. Filled(h, h[x].str, h[x].len) /\ g[x].len = h[x].len
      BY <1>1, <2>1 DEF Wellformed, Keeps
    <3>2. h[x].len \in Nat
      BY <2>1 DEF IsString
    <3>3. Filled(g, h[x].str, h[x].len)
      BY <3>1, <3>2, FilledStays
    <3> QED
      BY <2>1, <3>1, <3>3
  <2> QED
    BY <1>1, <2>1
<1>2. ASSUME NEW x \in DOMAIN g, IsCell(g[x]) PROVE Linked(g, x)
  <2>1. CASE x \in DOMAIN h /\ IsCell(h[x])
    <3>1. Linked(h, x) /\ (h[x].next \in DOMAIN h /\ IsCell(h[h[x].next]) => Linked(h, h[x].next))
      BY <2>1 DEF Wellformed
    <3> QED
      BY <2>1, <3>1, LinkedStays
  <2> QED
    BY <1>2, <2>1
<1> QED
  BY <1>1, <1>2 DEF Wellformed

LEMMA Allocation ==
  ASSUME NEW h, Wellformed(h), NEW b, NEW p, p = T!Cardinality(DOMAIN h) + 1,
         NEW g, g = T!With(h, p, b),
         \/ \E k \in Nat : IsArray(b, k)
         \/ IsString(b) /\ b.str = Garbage
         \/ IsCell(b) /\ Linked(g, p)
  PROVE  /\ Wellformed(g) /\ Keeps(h, g)
         /\ p \in Nat /\ p \in DOMAIN g /\ g[p] = b /\ p \notin DOMAIN h
         /\ \A x \in DOMAIN h : g[x] = h[x]
<1>1. PICK m \in Nat : DOMAIN h = 1..m
  BY DEF Wellformed
<1>2. p = m + 1
  BY <1>1, SizeOfHeap
<1>3. /\ DOMAIN g = 1..(m + 1) /\ g[p] = b /\ p \notin DOMAIN h /\ p \in DOMAIN g
      /\ \A x \in DOMAIN h : x \in DOMAIN g /\ g[x] = h[x]
  BY <1>1, <1>2, Added
<1>4. Keeps(h, g)
  BY <1>3 DEF Keeps
<1>5. \A x \in DOMAIN g : x = p \/ x \in DOMAIN h
  BY <1>1, <1>2, <1>3
<1>6. \A x \in DOMAIN g : (\E k \in Nat : IsArray(g[x], k)) \/ IsString(g[x]) \/ IsCell(g[x])
  BY <1>3, <1>5 DEF Wellformed
<1>7. \A x \in DOMAIN g :
        IsString(g[x]) /\ g[x].str # Garbage =>
          x \in DOMAIN h /\ IsString(h[x]) /\ h[x].str = g[x].str
  BY <1>3, <1>5, Kinds
<1>8. \A x \in DOMAIN g : IsCell(g[x]) => (x \in DOMAIN h /\ IsCell(h[x])) \/ Linked(g, x)
  BY <1>3, <1>5, Kinds
<1>9. \E k \in Nat : DOMAIN g = 1..k
  BY <1>3
<1>10. Wellformed(g)
  BY <1>4, <1>6, <1>7, <1>8, <1>9, WellformedStays
<1> QED
  BY <1>1, <1>2, <1>3, <1>4, <1>10

LEMMA Writing ==
  ASSUME NEW h, Wellformed(h), NEW p \in DOMAIN h, NEW k \in Nat, IsArray(h[p], k),
         NEW y \in 0..(k - 1), NEW c \in Values, c # Garbage,
         NEW g, g = [h EXCEPT ![p].chars[y] = c]
  PROVE  Wellformed(g) /\ Keeps(h, g) /\ g[p].chars[y] # Garbage
<1>1. DOMAIN g = DOMAIN h /\ \A x \in DOMAIN h : x # p => g[x] = h[x]
  OBVIOUS
<1>2. /\ h[p].chars \in [0..(k - 1) -> Values]
      /\ g[p] = [chars |-> [h[p].chars EXCEPT ![y] = c]]
  BY DEF IsArray
<1>3. IsArray(g[p], k)
  BY <1>2 DEF IsArray
<1>4. g[p].chars[y] = c /\ \A x \in 0..(k - 1) : x # y => g[p].chars[x] = h[p].chars[x]
  BY <1>2
<1>5. \A l \in Nat : IsArray(h[p], l) => l = k
  <2> SUFFICES ASSUME NEW l \in Nat, IsArray(h[p], l) PROVE l = k
    OBVIOUS
  <2>1. 0..(l - 1) = 0..(k - 1)
    BY DEF IsArray
  <2>2. l # 0
    BY <2>1
  <2> QED
    BY <2>1, <2>2
<1>6. ~IsString(h[p]) /\ ~IsCell(h[p]) /\ ~IsString(g[p]) /\ ~IsCell(g[p])
  BY <1>3, Kinds
<1>7. ASSUME NEW x \in DOMAIN h, NEW l \in Nat, IsArray(h[x], l)
      PROVE  /\ IsArray(g[x], l)
             /\ \A z \in 0..(l - 1) : h[x].chars[z] # Garbage => g[x].chars[z] # Garbage
  <2>1. CASE x = p
    <3>1. l = k
      BY <1>5, <1>7, <2>1
    <3> QED
      BY <1>3, <1>4, <2>1, <3>1
  <2>2. CASE x # p
    BY <1>1, <1>7, <2>2
  <2> QED
    BY <2>1, <2>2
<1>8. Keeps(h, g)
  BY <1>1, <1>6, <1>7 DEF Keeps
<1>9. \E m \in Nat : DOMAIN g = 1..m
  BY <1>1 DEF Wellformed
<1>10. \A x \in DOMAIN g : (\E l \in Nat : IsArray(g[x], l)) \/ IsString(g[x]) \/ IsCell(g[x])
  BY <1>1, <1>3 DEF Wellformed
<1>11. \A x \in DOMAIN g :
         /\ IsString(g[x]) => x \in DOMAIN h /\ IsString(h[x]) /\ h[x].str = g[x].str
         /\ IsCell(g[x]) => x \in DOMAIN h /\ IsCell(h[x])
  BY <1>1, <1>6
<1>12. Wellformed(g)
  BY <1>8, <1>9, <1>10, <1>11, WellformedStays
<1> QED
  BY <1>4, <1>8, <1>12

LEMMA Attaching ==
  ASSUME NEW h, Wellformed(h), NEW x \in DOMAIN h, IsString(h[x]), h[x].str = Garbage,
         NEW p, Filled(h, p, h[x].len),
         NEW g, g = [h EXCEPT ![x].str = p]
  PROVE  Wellformed(g) /\ Keeps(h, g) /\ DOMAIN g = DOMAIN h /\ g[x].str # Garbage
<1>1. DOMAIN g = DOMAIN h /\ \A y \in DOMAIN h : y # x => g[y] = h[y]
  OBVIOUS
<1>2. p \in Nat /\ p # Garbage
  BY DemosAssumption DEF Filled, Wellformed, T!StringListAssumption
<1>3. h[x].len \in Nat \ {0} /\ g[x] = [len |-> h[x].len, str |-> p]
  BY DEF IsString
<1>4. IsString(g[x]) /\ g[x].len = h[x].len /\ g[x].str = p
  BY <1>2, <1>3 DEF IsString
<1>5. ~IsCell(h[x]) /\ ~IsCell(g[x]) /\ \A l : ~IsArray(h[x], l)
  BY <1>4, Kinds
<1>6. Keeps(h, g)
  BY <1>1, <1>4, <1>5 DEF Keeps
<1>7. \E m \in Nat : DOMAIN g = 1..m
  BY <1>1 DEF Wellformed
<1>8. \A y \in DOMAIN g : (\E l \in Nat : IsArray(g[y], l)) \/ IsString(g[y]) \/ IsCell(g[y])
  BY <1>1, <1>4 DEF Wellformed
<1>9. Filled(g, g[x].str, g[x].len)
  BY <1>3, <1>4, <1>6, FilledStays
<1>10. \A y \in DOMAIN g :
         IsString(g[y]) /\ g[y].str # Garbage =>
           \/ y \in DOMAIN h /\ IsString(h[y]) /\ h[y].str = g[y].str
           \/ Filled(g, g[y].str, g[y].len)
  BY <1>1, <1>9
<1>11. \A y \in DOMAIN g :
         IsCell(g[y]) => (y \in DOMAIN h /\ IsCell(h[y])) \/ Linked(g, y)
  BY <1>1, <1>5
<1>12. Wellformed(g)
  BY <1>6, <1>7, <1>8, <1>10, <1>11, WellformedStays
<1> QED
  BY <1>1, <1>2, <1>4, <1>6, <1>12

-----------------------------------------------------------------------------
(* demo/stringlist.c: its invariant                                          *)

\* the string of s, whose str is still what malloc left there
Unset(k) ==
  /\ strS \in DOMAIN strHeap /\ IsString(strHeap[strS])
  /\ strHeap[strS].str = Garbage /\ strHeap[strS].len = k

\* make_string has set the first j chars of its block
MakingString ==
  strPc = "make_string" =>
    /\ strSize \in Nat \ {0} /\ strJ \in 0..strSize
    /\ strStr0 \in DOMAIN strHeap /\ IsArray(strHeap[strStr0], strSize)
    /\ \A y \in 0..(strJ - 1) : strHeap[strStr0].chars[y] # Garbage
    /\ strCaller \in {"new_string", "init_string", "link"}
    /\ strCaller # "new_string" => Unset(strSize)

\* its caller has a string of the length of the block it gets
StringMade ==
  strPc \in {"init_string", "link"} =>
    \E k \in Nat : Unset(k) /\ Filled(strHeap, strStr0, k)

InitialisingString ==
  strPc = "init_string_loop" =>
    /\ strS \in DOMAIN strHeap /\ IsString(strHeap[strS]) /\ strHeap[strS].str # Garbage
    /\ strI \in Nat

\* in an iteration of new_strings
Iterating == strPc = "link" \/ (strPc = "make_string" /\ strCaller = "link")

\* new_strings has made the strings of the lengths below i
Listed(m) ==
  IF m = 1 THEN strSl = T!Null
  ELSE strSl \in DOMAIN strHeap /\ IsCell(strHeap[strSl]) /\ LenOf(strHeap, strSl) = m - 1

Listing ==
  strPc = "new_strings" \/ Iterating =>
    /\ strN \in Nat /\ strI \in 1..strN /\ Listed(strI)
    /\ Iterating => strI < strN
    /\ strPc = "link" => strHeap[strS].len = strI
    /\ Iterating /\ strPc = "make_string" => strSize = strI

StrInv ==
  /\ Wellformed(strHeap)
  /\ MakingString /\ StringMade /\ InitialisingString /\ Listing /\ T!SuccIsNext

LEMMA StrInitially == T!Init => StrInv
<1> SUFFICES ASSUME T!Init PROVE StrInv
  OBVIOUS
<1>1. DOMAIN strHeap = 1..0 /\ strPc = "main"
  BY DEF T!Init
<1>2. Wellformed(strHeap)
  BY <1>1, 0 \in Nat DEF Wellformed
<1> QED
  BY <1>1, <1>2
  DEF StrInv, MakingString, StringMade, InitialisingString, Listing, Iterating, T!SuccIsNext

\* What make_string starts with.
LEMMA StringStarted ==
  ASSUME NEW h, Wellformed(h), NEW k \in Nat \ {0}, NEW ret, T!MakeString(h, k, ret)
  PROVE  /\ Wellformed(strHeap') /\ Keeps(h, strHeap')
         /\ \A x \in DOMAIN h : strHeap'[x] = h[x]
         /\ strStr0' \in DOMAIN strHeap' /\ IsArray(strHeap'[strStr0'], k)
         /\ strPc' = "make_string" /\ strSize' = k /\ strCaller' = ret /\ strJ' = 0
<1> DEFINE p == T!Cardinality(DOMAIN h) + 1
<1>1. /\ strStr0' = p /\ strHeap' = T!With(h, p, T!ArrayOf(k, Garbage))
      /\ strPc' = "make_string" /\ strSize' = k /\ strCaller' = ret /\ strJ' = 0
  BY DEF T!MakeString
<1>2. IsArray(T!ArrayOf(k, Garbage), k)
  BY DEF IsArray, T!ArrayOf, Values
<1> DEFINE b == T!ArrayOf(k, Garbage)
<1>3. \E l \in Nat : IsArray(b, l)
  BY <1>2
<1>4. p = T!Cardinality(DOMAIN h) + 1 /\ strHeap' = T!With(h, p, b)
  BY <1>1
<1> HIDE DEF b, p
<1>5. /\ Wellformed(strHeap') /\ Keeps(h, strHeap')
      /\ p \in DOMAIN strHeap' /\ strHeap'[p] = b
      /\ \A x \in DOMAIN h : strHeap'[x] = h[x]
  BY <1>3, <1>4, Allocation
<1> QED
  BY <1>1, <1>2, <1>5 DEF b, p

\* And what it starts with for a string that is allocated before its chars.
LEMMA StringAllocated ==
  ASSUME Wellformed(strHeap), NEW k \in Nat \ {0}, NEW ret,
         strS' = T!Fresh, T!MakeString(T!With(strHeap, T!Fresh, T!AString(k, Garbage)), k, ret)
  PROVE  /\ Wellformed(strHeap') /\ Keeps(strHeap, strHeap') /\ Unset(k)'
         /\ strStr0' \in DOMAIN strHeap' /\ IsArray(strHeap'[strStr0'], k)
         /\ strPc' = "make_string" /\ strSize' = k /\ strCaller' = ret /\ strJ' = 0
<1> DEFINE b == T!AString(k, Garbage)
           h == T!With(strHeap, T!Fresh, b)
<1>1. IsString(b) /\ b.str = Garbage
  BY DEF IsString, T!AString
<1>2. T!Fresh = T!Cardinality(DOMAIN strHeap) + 1
  BY DEF T!Fresh
<1>3. T!MakeString(h, k, ret)
  OBVIOUS
<1>4. h = T!With(strHeap, T!Fresh, b)
  OBVIOUS
<1> HIDE DEF b, h
<1>5. Wellformed(h) /\ Keeps(strHeap, h) /\ strS' \in DOMAIN h /\ h[strS'] = b
  BY <1>1, <1>2, <1>4, Allocation
<1>6. /\ Wellformed(strHeap') /\ Keeps(h, strHeap')
      /\ \A x \in DOMAIN h : strHeap'[x] = h[x]
      /\ strStr0' \in DOMAIN strHeap' /\ IsArray(strHeap'[strStr0'], k)
      /\ strPc' = "make_string" /\ strSize' = k /\ strCaller' = ret /\ strJ' = 0
  BY <1>3, <1>5, StringStarted
<1>7. Keeps(strHeap, strHeap')
  BY <1>5, <1>6 DEF Keeps
<1>8. b.len = k
  BY DEF b, T!AString
<1>9. strS' \in DOMAIN strHeap' /\ strHeap'[strS'] = b
  BY <1>5, <1>6 DEF Keeps
<1>10. Unset(k)'
  BY <1>1, <1>8, <1>9 DEF Unset
<1> QED
  BY <1>6, <1>7, <1>10

LEMMA MainMakesStringKeeps == StrInv /\ T!MainMakesString => StrInv'
<1> SUFFICES ASSUME StrInv, T!MainMakesString PROVE StrInv'
  OBVIOUS
<1>1. PICK k \in Sizes : T!MakeString(strHeap, k, "new_string")
  BY DEF T!MainMakesString
<1>2. k \in Nat \ {0} /\ Wellformed(strHeap)
  BY DemosAssumption DEF T!StringListAssumption, StrInv
<1>3. /\ Wellformed(strHeap')
      /\ strStr0' \in DOMAIN strHeap' /\ IsArray(strHeap'[strStr0'], k)
      /\ strPc' = "make_string" /\ strSize' = k /\ strCaller' = "new_string" /\ strJ' = 0
  BY <1>1, <1>2, StringStarted
<1> QED
  BY <1>2, <1>3
  DEF StrInv, MakingString, StringMade, InitialisingString, Listing, Iterating, T!SuccIsNext

LEMMA NewStringKeeps == StrInv /\ T!NewString => StrInv'
<1> SUFFICES ASSUME StrInv, T!NewString PROVE StrInv'
  OBVIOUS
<1>1. strN' \in Nat \ {0} /\ Wellformed(strHeap)
  BY DemosAssumption DEF T!NewString, T!StringListAssumption, StrInv
<1>2. PICK k \in Nat \ {0} : k = strN'
  BY <1>1
<1>3. /\ strS' = T!Fresh
      /\ T!MakeString(T!With(strHeap, T!Fresh, T!AString(k, Garbage)), k, "init_string")
  BY <1>2 DEF T!NewString
<1>4. /\ Wellformed(strHeap') /\ Unset(k)'
      /\ strStr0' \in DOMAIN strHeap' /\ IsArray(strHeap'[strStr0'], k)
      /\ strPc' = "make_string" /\ strSize' = k /\ strCaller' = "init_string" /\ strJ' = 0
  BY <1>1, <1>3, StringAllocated
<1>5. MakingString'
  BY <1>4 DEF MakingString
<1> QED
  BY <1>4, <1>5
  DEF StrInv, StringMade, InitialisingString, Listing, Iterating, T!SuccIsNext

\* The list stays where it is.
LEMMA ListedStays ==
  ASSUME Wellformed(strHeap), Keeps(strHeap, strHeap'), strSl' = strSl,
         NEW m \in Nat, Listed(m)
  PROVE  Listed(m)'
<1>1. CASE m = 1
  BY <1>1 DEF Listed
<1>2. CASE m # 1
  <2>1. strSl \in DOMAIN strHeap /\ IsCell(strHeap[strSl]) /\ LenOf(strHeap, strSl) = m - 1
    BY <1>2 DEF Listed
  <2>2. strHeap[strSl].s \in DOMAIN strHeap /\ IsString(strHeap[strHeap[strSl].s])
    BY <2>1 DEF Wellformed, Linked
  <2>3. /\ strSl \in DOMAIN strHeap' /\ strHeap'[strSl] = strHeap[strSl]
        /\ LenOf(strHeap', strSl) = m - 1
    BY <2>1, <2>2 DEF Keeps, LenOf
  <2> QED
    BY <1>2, <2>1, <2>3 DEF Listed
<1> QED
  BY <1>1, <1>2

LEMMA NewListStringKeeps == StrInv /\ T!NewListString => StrInv'
<1> SUFFICES ASSUME StrInv, T!NewListString PROVE StrInv'
  OBVIOUS
<1>1. /\ strI \in Nat \ {0} /\ strI < strN /\ strN \in Nat /\ Wellformed(strHeap) /\ Listed(strI)
  BY DEF T!NewListString, StrInv, Listing
<1>2. /\ strS' = T!Fresh /\ strN' = strN /\ strI' = strI /\ strSl' = strSl
      /\ T!MakeString(T!With(strHeap, T!Fresh, T!AString(strI, Garbage)), strI, "link")
  BY DEF T!NewListString
<1>3. /\ Wellformed(strHeap') /\ Keeps(strHeap, strHeap') /\ Unset(strI)'
      /\ strStr0' \in DOMAIN strHeap' /\ IsArray(strHeap'[strStr0'], strI)
      /\ strPc' = "make_string" /\ strSize' = strI /\ strCaller' = "link" /\ strJ' = 0
  BY <1>1, <1>2, StringAllocated
<1>4. Listed(strI)'
  BY <1>1, <1>2, <1>3, ListedStays
<1>5. MakingString'
  BY <1>1, <1>2, <1>3 DEF MakingString
<1>6. Listing'
  BY <1>1, <1>2, <1>3, <1>4 DEF Listing, Iterating
<1> QED
  BY <1>3, <1>5, <1>6 DEF StrInv, StringMade, InitialisingString, T!SuccIsNext

\* A string that has not got its chars is not the array that is written to.
LEMMA UnsetStays ==
  ASSUME NEW g, NEW p, NEW k, NEW l,
         Unset(k), IsArray(strHeap[p], l),
         \A x \in DOMAIN strHeap : x \in DOMAIN g /\ (x # p => g[x] = strHeap[x])
  PROVE  strS \in DOMAIN g /\ g[strS] = strHeap[strS]
<1>1. strS # p
  BY Kinds DEF Unset
<1> QED
  BY <1>1 DEF Unset

LEMMA ZeroKeeps == StrInv /\ T!Zero => StrInv'
<1> SUFFICES ASSUME StrInv, T!Zero PROVE StrInv'
  OBVIOUS
<1>1. /\ strPc = "make_string" /\ strJ < strSize /\ strJ' = strJ + 1
      /\ strSize' = strSize /\ strCaller' = strCaller /\ strPc' = strPc /\ strN' = strN
      /\ strI' = strI /\ strStr0' = strStr0 /\ strS' = strS /\ strSl' = strSl
      /\ strHeap' = [strHeap EXCEPT ![strStr0].chars[strJ] = 0]
  BY DEF T!Zero
<1>2. /\ Wellformed(strHeap) /\ strSize \in Nat /\ strSize # 0 /\ strJ \in 0..(strSize - 1)
      /\ strStr0 \in DOMAIN strHeap /\ IsArray(strHeap[strStr0], strSize)
      /\ \A y \in 0..(strJ - 1) : strHeap[strStr0].chars[y] # Garbage
      /\ strCaller \in {"new_string", "init_string", "link"}
      /\ strCaller # "new_string" => Unset(strSize)
  BY <1>1 DEF StrInv, MakingString
<1>3. 0 \in Values /\ 0 # Garbage
  BY DemosAssumption DEF T!StringListAssumption, Values
<1>4. /\ Wellformed(strHeap') /\ Keeps(strHeap, strHeap')
      /\ strHeap'[strStr0].chars[strJ] # Garbage
  BY <1>1, <1>2, <1>3, Writing
<1>5. \A x \in DOMAIN strHeap : x \in DOMAIN strHeap' /\ (x # strStr0 => strHeap'[x] = strHeap[x])
  BY <1>1
<1>6. strStr0' \in DOMAIN strHeap' /\ IsArray(strHeap'[strStr0'], strSize')
  BY <1>1, <1>2, <1>4 DEF Keeps
<1>7. ASSUME NEW y \in 0..(strJ' - 1) PROVE strHeap'[strStr0].chars[y] # Garbage
  <2>1. CASE y = strJ
    BY <1>4, <2>1
  <2>2. CASE y # strJ
    <3>1. y \in 0..(strSize - 1) /\ y \in 0..(strJ - 1)
      BY <1>1, <1>2, <2>2
    <3>2. strHeap[strStr0].chars[y] # Garbage
      BY <1>2, <3>1
    <3> QED
      BY <1>2, <1>4, <3>1, <3>2 DEF Keeps
  <2> QED
    BY <2>1, <2>2
<1>8. ASSUME Unset(strSize) PROVE Unset(strSize)'
  <2>1. strS \in DOMAIN strHeap' /\ strHeap'[strS] = strHeap[strS]
    BY <1>2, <1>5, <1>8, UnsetStays
  <2> QED
    BY <1>1, <1>8, <2>1 DEF Unset
<1>9. MakingString'
  BY <1>1, <1>2, <1>6, <1>7, <1>8 DEF MakingString
<1>10. Listing'
  <2> SUFFICES ASSUME Iterating' PROVE Listing'
    BY <1>1 DEF Listing
  <2>1. Iterating
    BY <1>1 DEF Iterating
  <2>2. /\ strN \in Nat /\ strI \in 1..strN /\ Listed(strI)
        /\ strI < strN /\ strSize = strI
    BY <1>1, <2>1 DEF StrInv, Listing
  <2>3. strI \in Nat
    BY <2>2
  <2>4. PICK m \in Nat : m = strI
    BY <2>3
  <2>5. Listed(m)
    BY <2>2, <2>4
  <2>6. Listed(m)'
    BY <1>1, <1>2, <1>4, <2>5, ListedStays
  <2> QED
    BY <1>1, <2>2, <2>4, <2>6 DEF Listing, Listed
<1> QED
  BY <1>1, <1>4, <1>9, <1>10 DEF StrInv, StringMade, InitialisingString, T!SuccIsNext

LEMMA MakeStringReturnsKeeps == StrInv /\ T!MakeStringReturns => StrInv'
<1> SUFFICES ASSUME StrInv, T!MakeStringReturns PROVE StrInv'
  OBVIOUS
<1>1. /\ strPc = "make_string" /\ strJ >= strSize /\ strPc' = strCaller /\ strHeap' = strHeap
      /\ strN' = strN /\ strI' = strI /\ strStr0' = strStr0 /\ strS' = strS /\ strSl' = strSl
  BY DEF T!MakeStringReturns
<1>2. /\ strSize \in Nat /\ strJ = strSize
      /\ strStr0 \in DOMAIN strHeap /\ IsArray(strHeap[strStr0], strSize)
      /\ \A y \in 0..(strJ - 1) : strHeap[strStr0].chars[y] # Garbage
      /\ strCaller \in {"new_string", "init_string", "link"}
      /\ strCaller # "new_string" => Unset(strSize)
  BY <1>1 DEF StrInv, MakingString
<1>3. Filled(strHeap, strStr0, strSize)
  BY <1>2 DEF Filled
<1>4. StringMade'
  <2> SUFFICES ASSUME strPc' \in {"init_string", "link"}
               PROVE  \E k \in Nat : Unset(k)' /\ Filled(strHeap', strStr0', k)
    BY DEF StringMade
  <2>1. Unset(strSize) /\ Filled(strHeap', strStr0', strSize)
    BY <1>1, <1>2, <1>3
  <2> QED
    BY <1>1, <1>2, <2>1 DEF Unset
<1>5. Listing'
  <2> SUFFICES ASSUME strPc' = "link" PROVE Listing'
    BY <1>1, <1>2 DEF Listing, Iterating
  <2>1. /\ strN \in Nat /\ strI \in 1..strN /\ Listed(strI)
        /\ strI < strN /\ strSize = strI
    BY <1>1 DEF StrInv, Listing, Iterating
  <2>2. strHeap[strS].len = strI
    BY <1>1, <1>2, <2>1 DEF Unset
  <2>3. Listed(strI)'
    BY <1>1, <2>1 DEF Listed
  <2> QED
    BY <1>1, <2>1, <2>2, <2>3 DEF Listing
<1> QED
  BY <1>1, <1>2, <1>4, <1>5
  DEF StrInv, MakingString, InitialisingString, T!SuccIsNext

LEMMA InitStringStartsKeeps == StrInv /\ T!InitStringStarts => StrInv'
<1> SUFFICES ASSUME StrInv, T!InitStringStarts PROVE StrInv'
  OBVIOUS
<1>1. /\ strPc = "init_string" /\ strPc' = "init_string_loop" /\ strI' = 0 /\ strS' = strS
      /\ strHeap' = [strHeap EXCEPT ![strS].str = strStr0]
  BY DEF T!InitStringStarts
<1>2. PICK k \in Nat : Unset(k) /\ Filled(strHeap, strStr0, k)
  BY <1>1 DEF StrInv, StringMade
<1>3. /\ Wellformed(strHeap) /\ strS \in DOMAIN strHeap /\ IsString(strHeap[strS])
      /\ strHeap[strS].str = Garbage /\ Filled(strHeap, strStr0, strHeap[strS].len)
  BY <1>2 DEF StrInv, Unset
<1>4. /\ Wellformed(strHeap') /\ Keeps(strHeap, strHeap') /\ DOMAIN strHeap' = DOMAIN strHeap
      /\ strHeap'[strS].str # Garbage
  BY <1>1, <1>3, Attaching
<1>5. InitialisingString'
  BY <1>1, <1>3, <1>4 DEF InitialisingString, Keeps
<1> QED
  BY <1>1, <1>4, <1>5
  DEF StrInv, MakingString, StringMade, Listing, Iterating, T!SuccIsNext

LEMMA InitStringSetsKeeps == StrInv /\ T!InitStringSets => StrInv'
<1> SUFFICES ASSUME StrInv, T!InitStringSets PROVE StrInv'
  OBVIOUS
<1> DEFINE p == strHeap[strS].str
           l == strHeap[strS].len
<1>1. /\ strPc = "init_string_loop" /\ strI < l /\ strI' = strI + 1
      /\ strPc' = strPc /\ strS' = strS
      /\ strHeap' = [strHeap EXCEPT ![p].chars[strI] = Letter]
  BY DEF T!InitStringSets
<1>2. /\ Wellformed(strHeap) /\ strS \in DOMAIN strHeap /\ IsString(strHeap[strS])
      /\ p # Garbage /\ strI \in Nat
  BY <1>1 DEF StrInv, InitialisingString
<1>3. Filled(strHeap, p, l) /\ l \in Nat
  BY <1>2 DEF Wellformed, IsString
<1>4. p \in DOMAIN strHeap /\ IsArray(strHeap[p], l) /\ strI \in 0..(l - 1)
  BY <1>1, <1>2, <1>3 DEF Filled
<1>5. Letter \in Values /\ Letter # Garbage
  BY DemosAssumption DEF T!StringListAssumption, Values
<1>6. strS # p
  BY <1>2, <1>4, Kinds
<1> HIDE DEF p, l
<1>7. Wellformed(strHeap') /\ Keeps(strHeap, strHeap')
  BY <1>1, <1>2, <1>3, <1>4, <1>5, Writing
<1>8. strS \in DOMAIN strHeap' /\ strHeap'[strS] = strHeap[strS]
  BY <1>1, <1>2, <1>6
<1>9. InitialisingString'
  BY <1>1, <1>2, <1>8 DEF InitialisingString, p
<1> QED
  BY <1>1, <1>7, <1>9
  DEF StrInv, MakingString, StringMade, Listing, Iterating, T!SuccIsNext

LEMMA InitStringReturnsKeeps == StrInv /\ T!InitStringReturns => StrInv'
<1> SUFFICES ASSUME StrInv, T!InitStringReturns PROVE StrInv'
  OBVIOUS
<1>1. /\ strPc' = "new_strings" /\ strN' \in Nat \ {0} /\ strI' = 1 /\ strSl' = T!Null
      /\ strHeap' = strHeap
  BY DemosAssumption DEF T!InitStringReturns, T!StringListAssumption
<1>2. Listing'
  BY <1>1 DEF Listing, Iterating, Listed
<1> QED
  BY <1>1, <1>2
  DEF StrInv, MakingString, StringMade, InitialisingString, T!SuccIsNext

LEMMA LinkKeeps == StrInv /\ T!Link => StrInv'
<1> SUFFICES ASSUME StrInv, T!Link PROVE StrInv'
  OBVIOUS
<1> DEFINE h == [strHeap EXCEPT ![strS].str = strStr0]
           b == [next |-> strSl, s |-> strS]
           p == T!Fresh
<1>1. /\ strPc = "link" /\ strPc' = "new_strings" /\ strI' = strI + 1 /\ strN' = strN
      /\ strSl' = p /\ strHeap' = T!With(h, p, b)
  BY DEF T!Link
<1>2. PICK k \in Nat : Unset(k) /\ Filled(strHeap, strStr0, k)
  BY <1>1 DEF StrInv, StringMade
<1>3. /\ Wellformed(strHeap) /\ strS \in DOMAIN strHeap /\ IsString(strHeap[strS])
      /\ strHeap[strS].str = Garbage /\ Filled(strHeap, strStr0, strHeap[strS].len)
  BY <1>2 DEF StrInv, Unset
<1>4. /\ strN \in Nat /\ strI \in 1..strN /\ strI < strN /\ Listed(strI)
      /\ strHeap[strS].len = strI
  BY <1>1 DEF StrInv, Listing, Iterating
<1>5. Wellformed(h) /\ Keeps(strHeap, h) /\ DOMAIN h = DOMAIN strHeap
  BY <1>3, Attaching
<1>6. PICK m \in Nat : DOMAIN strHeap = 1..m
  BY <1>3 DEF Wellformed
<1>7. p = T!Cardinality(DOMAIN h) + 1 /\ p = m + 1
  BY <1>5, <1>6, SizeOfHeap DEF T!Fresh
<1>8. b.next = strSl /\ b.s = strS
  OBVIOUS
<1>9. strSl \in Nat
  BY <1>4, <1>6 DEF Listed, T!Null
<1>10. IsCell(b)
  BY <1>3, <1>6, <1>9 DEF IsCell
<1> HIDE DEF h, b, p
<1>11. /\ strHeap'[p] = b
       /\ \A x \in DOMAIN h : x \in DOMAIN strHeap' /\ strHeap'[x] = h[x]
  BY <1>1, <1>5, <1>6, <1>7, Added
<1>12. Keeps(strHeap, strHeap')
  BY <1>5, <1>11 DEF Keeps
<1>13. /\ strS \in DOMAIN strHeap' /\ IsString(strHeap'[strS]) /\ strHeap'[strS].len = strI
  BY <1>3, <1>4, <1>12 DEF Keeps
<1>14. LenOf(strHeap', p) = strI
  BY <1>8, <1>11, <1>13 DEF LenOf
<1>15. Linked(strHeap', p)
  <2>1. CASE strI = 1
    BY <1>4, <1>8, <1>11, <1>13, <1>14, <2>1 DEF Linked, Listed
  <2>2. CASE strI # 1
    <3>1. strSl \in DOMAIN strHeap /\ IsCell(strHeap[strSl]) /\ LenOf(strHeap, strSl) = strI - 1
      BY <1>4, <2>2 DEF Listed
    <3>2. strHeap[strSl].s \in DOMAIN strHeap /\ IsString(strHeap[strHeap[strSl].s])
      BY <1>3, <3>1 DEF Wellformed, Linked
    <3>3. /\ strSl \in DOMAIN strHeap' /\ IsCell(strHeap'[strSl])
          /\ strHeap'[strSl].s \in DOMAIN strHeap' /\ LenOf(strHeap', strSl) = strI - 1
      BY <1>12, <3>1, <3>2 DEF Keeps, LenOf
    <3> QED
      BY <1>8, <1>11, <1>13, <1>14, <2>2, <3>3 DEF Linked
  <2> QED
    BY <2>1, <2>2
<1>16. IsCell(b) /\ Linked(strHeap', p) /\ strHeap' = T!With(h, p, b)
  BY <1>1, <1>10, <1>15
<1>17. Wellformed(strHeap') /\ p \in DOMAIN strHeap'
  BY <1>5, <1>7, <1>16, Allocation
<1>18. /\ strSl' \in DOMAIN strHeap' /\ IsCell(strHeap'[strSl'])
       /\ LenOf(strHeap', strSl') = strI
  BY <1>1, <1>10, <1>11, <1>14, <1>17
<1>19. Listing'
  <2>1. strN' \in Nat /\ strI' \in 1..strN' /\ strI' - 1 = strI /\ strI' # 1
    BY <1>1, <1>4
  <2> QED
    BY <1>1, <1>18, <2>1 DEF Listing, Iterating, Listed
<1> QED
  BY <1>1, <1>17, <1>19
  DEF StrInv, MakingString, StringMade, InitialisingString, T!SuccIsNext

LEMMA StringBlocks ==
  ASSUME NEW x \in DOMAIN strHeap, IsString(strHeap[x])
  PROVE  x \in T!Strings
<1>1. DOMAIN strHeap[x] = {"len", "str"}
  BY DEF IsString
<1> QED
  BY <1>1 DEF T!Strings

LEMMA StringSuccKeeps == StrInv /\ T!StringSucc => StrInv'
<1> SUFFICES ASSUME StrInv, T!StringSucc PROVE StrInv'
  OBVIOUS
<1>1. /\ strPc = "new_strings" /\ strI >= strN /\ strPc' = "done"
      /\ strHeap' = strHeap /\ strN' = strN
      /\ strResult' = IF strSl = T!Null \/ strHeap[strSl].next = T!Null THEN T!Null
                      ELSE strHeap[strHeap[strSl].next].s
  BY DEF T!StringSucc
<1>2. strN \in Nat /\ strI = strN /\ strN >= 1 /\ Listed(strN) /\ Wellformed(strHeap)
  BY <1>1 DEF StrInv, Listing
<1>3. CASE strN = 1
  <2>1. strResult' = T!Null
    BY <1>1, <1>2, <1>3 DEF Listed
  <2> QED
    BY <1>1, <1>2, <1>3, <2>1
    DEF StrInv, MakingString, StringMade, InitialisingString, Listing, Iterating, T!SuccIsNext
<1>4. CASE strN # 1
  <2>1. /\ strSl \in DOMAIN strHeap /\ IsCell(strHeap[strSl]) /\ LenOf(strHeap, strSl) = strN - 1
        /\ Linked(strHeap, strSl) /\ strSl # T!Null
    BY <1>2, <1>4 DEF Listed, Wellformed, T!Null
  <2>2. CASE strN = 2
    <3>1. strResult' = T!Null
      BY <1>1, <2>1, <2>2 DEF Linked
    <3> QED
      BY <1>1, <1>2, <2>2, <3>1
      DEF StrInv, MakingString, StringMade, InitialisingString, Listing, Iterating, T!SuccIsNext
  <2>3. CASE strN # 2
    <3> DEFINE u == strHeap[strSl].next
    <3>1. u \in DOMAIN strHeap /\ IsCell(strHeap[u]) /\ LenOf(strHeap, u) = strN - 2
      BY <1>2, <1>4, <2>1, <2>3 DEF Linked
    <3>2. u # T!Null /\ Linked(strHeap, u)
      BY <1>2, <3>1 DEF Wellformed, T!Null
    <3>3. strResult' = strHeap[u].s
      BY <1>1, <2>1, <3>2
    <3> HIDE DEF u
    <3>4. /\ strResult' \in DOMAIN strHeap /\ IsString(strHeap[strResult'])
          /\ strHeap[strResult'].len = strN - 2
      BY <3>1, <3>2, <3>3 DEF Linked, LenOf
    <3>5. PICK x : x = strResult'
      OBVIOUS
    <3>6. x \in T!Strings
      BY <3>4, <3>5, StringBlocks
    <3>7. T!Strings' = T!Strings
      BY <1>1 DEF T!Strings
    <3>8. strResult' \in T!Strings' /\ strHeap'[strResult'].len = strN' - 2
      BY <1>1, <3>4, <3>5, <3>6, <3>7
    <3>9. ~(strN' <= 2)
      BY <1>1, <1>2, <1>4, <2>3
    <3>10. T!SuccIsNext'
      BY <3>8, <3>9 DEF T!SuccIsNext
    <3> QED
      BY <1>1, <1>2, <3>10
      DEF StrInv, MakingString, StringMade, InitialisingString, Listing, Iterating
  <2> QED
    BY <2>2, <2>3
<1> QED
  BY <1>3, <1>4

LEMMA StrStepKeeps == StrInv /\ [T!Next]_(T!vars) => StrInv'
<1> SUFFICES ASSUME StrInv, [T!Next]_(T!vars) PROVE StrInv'
  OBVIOUS
<1>1. CASE UNCHANGED T!vars
  <2>1. /\ strHeap' = strHeap /\ strPc' = strPc /\ strSize' = strSize /\ strCaller' = strCaller
        /\ strN' = strN /\ strI' = strI /\ strStr0' = strStr0 /\ strJ' = strJ
        /\ strS' = strS /\ strSl' = strSl /\ strResult' = strResult
    BY <1>1 DEF T!vars
  <2>2. \A k : Unset(k)' = Unset(k) /\ Listed(k)' = Listed(k)
    BY <2>1 DEF Unset, Listed
  <2>3. MakingString' /\ StringMade' /\ InitialisingString'
    BY <2>1, <2>2 DEF StrInv, MakingString, StringMade, InitialisingString
  <2>4. Listing'
    BY <2>1, <2>2 DEF StrInv, Listing, Iterating, Listed
  <2>5. T!SuccIsNext'
    BY <2>1 DEF StrInv, T!SuccIsNext, T!Strings
  <2> QED
    BY <2>1, <2>3, <2>4, <2>5 DEF StrInv
<1> QED
  BY <1>1, MainMakesStringKeeps, NewStringKeeps, InitStringStartsKeeps, InitStringSetsKeeps,
     InitStringReturnsKeeps, NewListStringKeeps, LinkKeeps, StringSuccKeeps, ZeroKeeps,
     MakeStringReturnsKeeps
  DEF T!Next

LEMMA StringsRun == DemosSpec => T!Spec
<1>1. DemosInit => T!Init
  BY DEF DemosInit
<1>2. [CsvStep \/ StringStep]_<<part, csv, stringlist>> => [T!Next]_(T!vars)
  BY DEF CsvStep, StringStep, T!vars, stringlist
<1> QED
  BY <1>1, <1>2, PTL DEF DemosSpec, T!Spec

LEMMA StrInvariance == DemosSpec => []StrInv
BY StrInitially, StrStepKeeps, StringsRun, PTL DEF T!Spec

LEMMA StringsSafe == StrInv => T!InBounds
<1> SUFFICES ASSUME StrInv PROVE T!InBounds
  OBVIOUS
<1>1. strPc = "make_string" /\ strJ < strSize => strJ \in DOMAIN strHeap[strStr0].chars
  BY DEF StrInv, MakingString, IsArray
<1>2. ASSUME strPc = "init_string_loop", strI < strHeap[strS].len
      PROVE  strI \in DOMAIN strHeap[strHeap[strS].str].chars
  <2>1. /\ strS \in DOMAIN strHeap /\ IsString(strHeap[strS]) /\ strHeap[strS].str # Garbage
        /\ strI \in Nat /\ Wellformed(strHeap)
    BY <1>2 DEF StrInv, InitialisingString
  <2>2. /\ IsArray(strHeap[strHeap[strS].str], strHeap[strS].len)
        /\ strHeap[strS].len \in Nat
    BY <2>1 DEF Wellformed, Filled, IsString
  <2> QED
    BY <1>2, <2>1, <2>2 DEF IsArray
<1> QED
  BY <1>1, <1>2 DEF T!InBounds

LEMMA LengthsOfStrings == StrInv => T!LengthsAgree
<1> SUFFICES ASSUME StrInv, NEW x \in T!Strings, strHeap[x].str # Garbage
             PROVE  /\ DOMAIN strHeap[strHeap[x].str].chars = 0..(strHeap[x].len - 1)
                    /\ \A k \in DOMAIN strHeap[strHeap[x].str].chars :
                         strHeap[strHeap[x].str].chars[k] # Garbage
  BY DEF T!LengthsAgree
<1>1. x \in DOMAIN strHeap /\ "str" \in DOMAIN strHeap[x]
  BY DEF T!Strings
<1>2. ~IsCell(strHeap[x]) /\ \A k : ~IsArray(strHeap[x], k)
  <2>1. IsCell(strHeap[x]) => DOMAIN strHeap[x] = {"next", "s"}
    BY DEF IsCell
  <2>2. \A k : IsArray(strHeap[x], k) => DOMAIN strHeap[x] = {"chars"}
    BY DEF IsArray
  <2> QED
    BY <1>1, <2>1, <2>2
<1>3. IsString(strHeap[x])
  BY <1>1, <1>2 DEF StrInv, Wellformed
<1>4. Filled(strHeap, strHeap[x].str, strHeap[x].len)
  BY <1>1, <1>3 DEF StrInv, Wellformed
<1> QED
  BY <1>4 DEF Filled, IsArray

-----------------------------------------------------------------------------
\* "All memory accesses within the example are within bounds" (csv.c) and "all
\* array accesses in this file are verified safe" (stringlist.c), for lines and
\* strings of any length.
THEOREM MemorySafe == DemosSpec => []InBounds
<1>1. CsvInv /\ StrInv => InBounds
  BY CsvSafe, StringsSafe DEF InBounds
<1> QED
  BY <1>1, CsvInvariance, StrInvariance, PTL

\* "The length of each string pointed to by the str field is equal to the value
\* of the len field", and string_succ finds the next string of the list.
THEOREM StructuresStay == DemosSpec => []StructuresKept
<1>1. StrInv => StructuresKept
  BY LengthsOfStrings DEF StructuresKept, StrInv
<1> QED
  BY <1>1, StrInvariance, PTL

-----------------------------------------------------------------------------
(* Recursion along a sequence.                                               *)

NatLess == {p \in Nat \X Nat : p[1] < p[2]}

LEMMA Upto ==
  ASSUME NEW L \in Nat, NEW W, 0 \in W, \A n \in 1..L : n - 1 \in W => n \in W
  PROVE  \A n \in 0..L : n \in W
<1> DEFINE U == (0..L) \ W
<1> SUFFICES ASSUME U # {} PROVE FALSE
  OBVIOUS
<1>1. IsWellFoundedOn(NatLess, Nat)
  BY NatLessThanWellFounded DEF OpToRel, NatLess
<1>2. U \subseteq Nat
  OBVIOUS
<1>3. PICK x \in U : \A y \in U : ~(<<y, x>> \in NatLess)
  BY <1>1, <1>2, WFMin
<1>4. x \in 1..L /\ x - 1 \in 0..L
  OBVIOUS
<1>5. x - 1 \in Nat /\ x \in Nat /\ x - 1 < x
  BY <1>4
<1>6. <<x - 1, x>> \in NatLess
  BY <1>5 DEF NatLess
<1>7. x - 1 \in W
  BY <1>3, <1>4, <1>6
<1> QED BY <1>4, <1>7

IsRun(f, l, S, b, step) ==
  f \in [0..l -> S] /\ f[0] = b /\ \A n \in 1..l : f[n] = step[<<f[n - 1], n>>]

LEMMA Iterated ==
  ASSUME NEW S, NEW b \in S, NEW L \in Nat, NEW step \in [S \X (1..L) -> S]
  PROVE  \E f : IsRun(f, L, S, b, step)
<1> DEFINE W == {l \in 0..L : \E f : IsRun(f, l, S, b, step)}
<1>1. 0 \in W
  <2>1. IsRun([n \in 0..0 |-> b], 0, S, b, step)
    BY DEF IsRun
  <2>2. 0 \in 0..L
    OBVIOUS
  <2> QED BY <2>1, <2>2
<1>2. ASSUME NEW l \in 1..L, l - 1 \in W PROVE l \in W
  <2>1. PICK f : IsRun(f, l - 1, S, b, step)
    BY <1>2
  <2> DEFINE s == step[<<f[l - 1], l>>]
             g == [n \in 0..l |-> IF n = l THEN s ELSE f[n]]
  <2>2. f[l - 1] \in S /\ s \in S
    BY <2>1 DEF IsRun
  <2>3. g \in [0..l -> S] /\ g[0] = b
    <3> HIDE DEF s
    <3> QED BY <2>1, <2>2 DEF IsRun
  <2>4. ASSUME NEW n \in 1..l PROVE g[n] = step[<<g[n - 1], n>>]
    <3>1. n - 1 \in 0..l /\ n - 1 # l /\ n \in 0..l /\ (n # l => n \in 1..(l - 1))
      OBVIOUS
    <3>2. g[n - 1] = f[n - 1] /\ g[n] = IF n = l THEN s ELSE f[n]
      BY <3>1
    <3> HIDE DEF g
    <3> QED BY <2>1, <3>1, <3>2 DEF IsRun
  <2> HIDE DEF g
  <2>5. IsRun(g, l, S, b, step)
    BY <2>3, <2>4 DEF IsRun
  <2>6. l \in 0..L
    OBVIOUS
  <2> QED BY <2>5, <2>6
<1> HIDE DEF W
<1>3. L \in W
  BY <1>1, <1>2, Upto
<1> QED BY <1>3 DEF W

LEMMA Recurs ==
  ASSUME NEW S, NEW b \in S, NEW L \in Nat, NEW step \in [S \X (1..L) -> S],
         NEW f, f = [n \in 0..L |-> f[n]], f[0] = b,
         \A n \in 1..L : f[n - 1] \in S => f[n] = step[<<f[n - 1], n>>]
  PROVE  IsRun(f, L, S, b, step)
<1> DEFINE W == {n \in 0..L : f[n] \in S}
<1>1. 0 \in W
  OBVIOUS
<1>2. ASSUME NEW n \in 1..L, n - 1 \in W PROVE n \in W
  <2>1. f[n - 1] \in S /\ <<f[n - 1], n>> \in S \X (1..L)
    BY <1>2
  <2>2. f[n] = step[<<f[n - 1], n>>]
    BY <2>1
  <2>3. f[n] \in S
    BY <2>1, <2>2
  <2> QED BY <2>3
<1>3. \A n \in 0..L : n \in W
  <2> HIDE DEF W
  <2> QED BY <1>1, <1>2, Upto
<1>4. \A n \in 0..L : f[n] \in S
  BY <1>3
<1>5. f \in [0..L -> S]
  BY <1>4
<1>6. \A n \in 1..L : f[n] = step[<<f[n - 1], n>>]
  <2> TAKE n \in 1..L
  <2>1. n - 1 \in 0..L
    OBVIOUS
  <2> QED BY <1>4, <2>1
<1> QED BY <1>5, <1>6 DEF IsRun

-----------------------------------------------------------------------------
(* notAliased.ml: what a block makes of the pairs it starts with.            *)

Pairs == (Locs \cup {None}) \X (Locs \cup {None})

Annots == [op : {"Gen", "WGen", "New", "NewC", "Ins"}, al : Locs \cup {None}, cl : Locs \cup {None}]

NewPairs(anns) == {Pair(anns[k]) : k \in {l \in 1..Len(anns) : anns[l].op = "NewC"}}

LEMMA PairOf ==
  ASSUME NEW a \in Annots
  PROVE  Pair(a) \in Pairs
BY DEF Pair, Pairs, Annots

AnnotsAfter(f, na, anns) ==
  /\ f[0] = na /\ \A n \in 1..Len(anns) : f[n] = process_annot(f[n - 1], anns[n])
  /\ process_annots(na, anns) = f[Len(anns)]

LEMMA AnnotsRun ==
  ASSUME NEW anns \in Seq(Annots), NEW na \in SUBSET Pairs
  PROVE  \E f : AnnotsAfter(f, na, anns)
<1> DEFINE L == Len(anns)
           step == [x \in (SUBSET Pairs) \X (1..L) |-> process_annot(x[1], anns[x[2]])]
           R(f) == f = [n \in 0..L |-> IF n = 0 THEN na ELSE process_annot(f[n - 1], anns[n])]
           after == CHOOSE f : R(f)
<1>1. L \in Nat /\ \A n \in 1..L : anns[n] \in Annots
  OBVIOUS
<1>2. step \in [(SUBSET Pairs) \X (1..L) -> SUBSET Pairs]
  BY <1>1, PairOf DEF process_annot
<1>3. PICK f : IsRun(f, L, SUBSET Pairs, na, step)
  <2> HIDE DEF step, L
  <2> QED BY <1>1, <1>2, Iterated
<1>a. f \in [0..L -> SUBSET Pairs] /\ f[0] = na
  BY <1>3 DEF IsRun
<1>4. ASSUME NEW n \in 1..L PROVE f[n] = process_annot(f[n - 1], anns[n])
  <2>1. n - 1 \in 0..L
    BY <1>1
  <2>2. <<f[n - 1], n>> \in (SUBSET Pairs) \X (1..L)
    BY <1>a, <2>1
  <2> QED BY <1>3, <2>2 DEF IsRun
<1>5. f = [n \in 0..L |-> f[n]]
  BY <1>a
<1>6. R(f)
  <2>1. \A n \in 0..L : f[n] = IF n = 0 THEN na ELSE process_annot(f[n - 1], anns[n])
    BY <1>1, <1>a, <1>4
  <2> QED BY <1>5, <2>1, Zenon
<1>7. R(after)
  BY <1>6, Zenon
<1>8. after = [n \in 0..L |-> after[n]] /\ after[0] = na
      /\ \A n \in 1..L : after[n] = process_annot(after[n - 1], anns[n])
  <2> HIDE DEF after
  <2>1. \A n \in 0..L : after[n] = IF n = 0 THEN na ELSE process_annot(after[n - 1], anns[n])
    BY <1>1, <1>7
  <2> QED BY <1>1, <1>7, <2>1
<1>9. process_annots(na, anns) = after[L]
  BY Zenon DEF process_annots
<1> HIDE DEF after
<1> QED BY <1>8, <1>9 DEF AnnotsAfter

\* the pairs S are made (S \cap K) \cup G
NewPair(a) == {Pair(b) : b \in {c \in {a} : c.op = "NewC"}}

FormStep(a, K, G, K2, G2) ==
  /\ K2 \in SUBSET Pairs /\ G2 \in SUBSET Pairs /\ G2 \subseteq G \cup NewPair(a)
  /\ \A S : process_annot((S \cap K) \cup G, a) = (S \cap K2) \cup G2

LEMMA AnnotForm ==
  ASSUME NEW a \in Annots, NEW K \in SUBSET Pairs, NEW G \in SUBSET Pairs
  PROVE  \E K2, G2 : FormStep(a, K, G, K2, G2)
<1> DEFINE p == Pair(a)
<1>1. p \in Pairs
  BY PairOf
<1>2. CASE a.op \in {"Gen", "WGen"}
  <2>1. \A S : process_annot((S \cap K) \cup G, a) = (S \cap (K \ {p})) \cup (G \ {p})
    BY <1>2 DEF process_annot
  <2>2. FormStep(a, K, G, K \ {p}, G \ {p})
    BY <2>1 DEF FormStep
  <2> QED BY <2>2
<1>3. CASE a.op = "NewC"
  <2>1. \A S : process_annot((S \cap K) \cup G, a) = (S \cap K) \cup (G \cup {p})
    BY <1>3 DEF process_annot
  <2>2. G \cup {p} \in SUBSET Pairs
    BY <1>1
  <2>3. G \cup {p} \subseteq G \cup NewPair(a)
    BY <1>3 DEF NewPair
  <2>4. FormStep(a, K, G, K, G \cup {p})
    BY <2>1, <2>2, <2>3 DEF FormStep
  <2> QED BY <2>4
<1>4. CASE a.op \notin {"Gen", "WGen", "NewC"}
  <2>1. \A S : process_annot((S \cap K) \cup G, a) = (S \cap K) \cup G
    BY <1>4 DEF process_annot
  <2>2. FormStep(a, K, G, K, G)
    BY <2>1 DEF FormStep
  <2> QED BY <2>2
<1> QED BY <1>2, <1>3, <1>4

AnnotsFormAt(n, anns, K, G) ==
  /\ K \in SUBSET Pairs /\ G \in SUBSET Pairs /\ G \subseteq NewPairs(anns)
  /\ \A S, f : S \in SUBSET Pairs /\ AnnotsAfter(f, S, anns) => f[n] = (S \cap K) \cup G

LEMMA AnnotsForm ==
  ASSUME NEW anns \in Seq(Annots)
  PROVE  \E K, G \in SUBSET Pairs :
           /\ G \subseteq NewPairs(anns)
           /\ \A S \in SUBSET Pairs : process_annots(S, anns) = (S \cap K) \cup G
<1> DEFINE W == {n \in 0..Len(anns) : \E K, G : AnnotsFormAt(n, anns, K, G)}
<1>1. Len(anns) \in Nat /\ \A n \in 1..Len(anns) : anns[n] \in Annots
  OBVIOUS
<1>2. 0 \in W
  <2>1. AnnotsFormAt(0, anns, Pairs, {})
    BY DEF AnnotsFormAt, AnnotsAfter
  <2> QED BY <1>1, <2>1
<1>3. ASSUME NEW n \in 1..Len(anns), n - 1 \in W PROVE n \in W
  <2>1. PICK K, G : AnnotsFormAt(n - 1, anns, K, G)
    BY <1>3
  <2>2. anns[n] \in Annots /\ K \in SUBSET Pairs /\ G \in SUBSET Pairs
    BY <1>1, <2>1 DEF AnnotsFormAt
  <2>3. PICK K2, G2 : FormStep(anns[n], K, G, K2, G2)
    BY <2>2, AnnotForm
  <2>4. NewPair(anns[n]) \subseteq NewPairs(anns)
    BY <1>1 DEF NewPairs, NewPair
  <2>5. G2 \subseteq NewPairs(anns)
    BY <2>1, <2>3, <2>4 DEF AnnotsFormAt, FormStep
  <2>6. ASSUME NEW S, NEW f, S \in SUBSET Pairs, AnnotsAfter(f, S, anns)
        PROVE  f[n] = (S \cap K2) \cup G2
    <3>1. f[n - 1] = (S \cap K) \cup G
      BY <2>1, <2>6 DEF AnnotsFormAt
    <3>2. f[n] = process_annot(f[n - 1], anns[n])
      BY <2>6 DEF AnnotsAfter
    <3> QED BY <2>3, <3>1, <3>2 DEF FormStep
  <2>7. AnnotsFormAt(n, anns, K2, G2)
    BY <2>3, <2>5, <2>6 DEF AnnotsFormAt, FormStep
  <2> QED BY <1>1, <2>7
<1>4. \A n \in 0..Len(anns) : n \in W
  <2> HIDE DEF W
  <2> QED BY <1>1, <1>2, <1>3, Upto
<1>5. PICK K, G : AnnotsFormAt(Len(anns), anns, K, G)
  BY <1>1, <1>4
<1>6. ASSUME NEW S \in SUBSET Pairs PROVE process_annots(S, anns) = (S \cap K) \cup G
  <2>1. PICK f : AnnotsAfter(f, S, anns)
    BY AnnotsRun
  <2>2. f[Len(anns)] = (S \cap K) \cup G
    BY <1>5, <2>1 DEF AnnotsFormAt
  <2> QED BY <2>1, <2>2 DEF AnnotsAfter
<1> QED BY <1>5, <1>6 DEF AnnotsFormAt

InstrStep(anns, i, K, G, K2, G2) ==
  /\ K2 \in SUBSET Pairs /\ G2 \in SUBSET Pairs /\ G2 \subseteq G \cup NewPairs(anns)
  /\ \A S \in SUBSET Pairs :
       process_set(process_annots((S \cap K) \cup G, anns), i) = (S \cap K2) \cup G2

LEMMA SetForm ==
  ASSUME NEW i
  PROVE  \E Q \in SUBSET Pairs : \A S \in SUBSET Pairs : process_set(S, i) = S \cap Q
<1>1. CASE i.op = "write" /\ i.val # None
  <2> DEFINE Q == {x \in Pairs : x[2] # i.val}
  <2>1. \A S \in SUBSET Pairs : process_set(S, i) = S \cap Q
    BY <1>1 DEF process_set
  <2>2. Q \in SUBSET Pairs
    OBVIOUS
  <2> QED BY <2>1, <2>2
<1>2. CASE ~(i.op = "write" /\ i.val # None)
  <2>1. \A S \in SUBSET Pairs : process_set(S, i) = S \cap Pairs
    BY <1>2 DEF process_set
  <2> QED BY <2>1
<1> QED BY <1>1, <1>2

LEMMA InstrForm ==
  ASSUME NEW anns \in Seq(Annots), NEW i, NEW K \in SUBSET Pairs, NEW G \in SUBSET Pairs
  PROVE  \E K2, G2 : InstrStep(anns, i, K, G, K2, G2)
<1>1. PICK K1, G1 \in SUBSET Pairs :
        /\ G1 \subseteq NewPairs(anns)
        /\ \A S \in SUBSET Pairs : process_annots(S, anns) = (S \cap K1) \cup G1
  BY AnnotsForm
<1>2. PICK Q \in SUBSET Pairs : \A S \in SUBSET Pairs : process_set(S, i) = S \cap Q
  BY SetForm
<1> DEFINE K2 == K \cap K1 \cap Q
           G2 == ((G \cap K1) \cup G1) \cap Q
<1>3. ASSUME NEW S \in SUBSET Pairs
      PROVE  process_set(process_annots((S \cap K) \cup G, anns), i) = (S \cap K2) \cup G2
  <2>1. process_annots((S \cap K) \cup G, anns) = (((S \cap K) \cup G) \cap K1) \cup G1
    BY <1>1
  <2>2. process_set((((S \cap K) \cup G) \cap K1) \cup G1, i) = ((((S \cap K) \cup G) \cap K1) \cup G1) \cap Q
    BY <1>2
  <2> QED BY <2>1, <2>2
<1>4. InstrStep(anns, i, K, G, K2, G2)
  BY <1>1, <1>2, <1>3 DEF InstrStep
<1> QED BY <1>4

-----------------------------------------------------------------------------
NewPairsOf(annot) == UNION {NewPairs(annot[n]) : n \in 1..Len(annot)}

BlockAfter(f, na, instrs, annot) ==
  /\ f[0] = na
  /\ \A n \in 1..Len(instrs) : f[n] = process_set(process_annots(f[n - 1], annot[n]), instrs[n])
  /\ process_block(na, instrs, annot).na = f[Len(instrs)]

LEMMA InstrPairs ==
  ASSUME NEW anns \in Seq(Annots), NEW i, NEW S \in SUBSET Pairs
  PROVE  process_set(process_annots(S, anns), i) \in SUBSET Pairs
<1>1. PICK K2, G2 : InstrStep(anns, i, Pairs, {}, K2, G2)
  BY InstrForm
<1>2. (S \cap Pairs) \cup {} = S
  OBVIOUS
<1>3. process_set(process_annots((S \cap Pairs) \cup {}, anns), i) = (S \cap K2) \cup G2
  BY <1>1 DEF InstrStep
<1> QED BY <1>1, <1>2, <1>3 DEF InstrStep

LEMMA BlockRun ==
  ASSUME NEW instrs, Len(instrs) \in Nat, NEW annot \in Seq(Seq(Annots)), Len(annot) = Len(instrs),
         NEW na \in SUBSET Pairs
  PROVE  \E f : BlockAfter(f, na, instrs, annot)
<1> DEFINE L == Len(instrs)
           next(S, n) == process_set(process_annots(S, annot[n]), instrs[n])
           step == [x \in (SUBSET Pairs) \X (1..L) |-> next(x[1], x[2])]
           R(f) == f = [n \in 0..L |-> IF n = 0 THEN na ELSE next(f[n - 1], n)]
           after == CHOOSE f : R(f)
<1>1. L \in Nat /\ \A n \in 1..L : annot[n] \in Seq(Annots)
  OBVIOUS
<1>2. \A S \in SUBSET Pairs, n \in 1..L : next(S, n) \in SUBSET Pairs
  BY <1>1, InstrPairs
<1>3. step \in [(SUBSET Pairs) \X (1..L) -> SUBSET Pairs]
  <2> HIDE DEF next, L
  <2> QED BY <1>2
<1>4. PICK f : IsRun(f, L, SUBSET Pairs, na, step)
  <2> HIDE DEF step, L
  <2> QED BY <1>1, <1>3, Iterated
<1>5. f \in [0..L -> SUBSET Pairs] /\ f[0] = na
  BY <1>4 DEF IsRun
<1>6. ASSUME NEW n \in 1..L PROVE f[n] = next(f[n - 1], n)
  <2>1. n - 1 \in 0..L
    BY <1>1
  <2>2. <<f[n - 1], n>> \in (SUBSET Pairs) \X (1..L)
    BY <1>5, <2>1
  <2>3. step[<<f[n - 1], n>>] = next(f[n - 1], n)
    <3> HIDE DEF next, L
    <3> QED BY <2>2
  <2>4. f[n] = step[<<f[n - 1], n>>]
    BY <1>4 DEF IsRun
  <2> QED BY <2>3, <2>4, Zenon
<1>7. R(f)
  <2> HIDE DEF next
  <2>1. \A n \in 0..L : f[n] = IF n = 0 THEN na ELSE next(f[n - 1], n)
    BY <1>1, <1>5, <1>6
  <2> QED BY <1>5, <2>1, Zenon
<1>8. R(after)
  BY <1>7, Zenon
<1>9. after[0] = na /\ \A n \in 1..L : after[n] = next(after[n - 1], n)
  <2> HIDE DEF after, next
  <2>1. \A n \in 0..L : after[n] = IF n = 0 THEN na ELSE next(after[n - 1], n)
    BY <1>1, <1>8
  <2> QED BY <1>1, <2>1
<1>10. process_block(na, instrs, annot).na = after[L]
  BY DEF process_block
<1> HIDE DEF after
<1> QED BY <1>9, <1>10 DEF BlockAfter

BlockFormAt(n, instrs, annot, K, G) ==
  /\ K \in SUBSET Pairs /\ G \in SUBSET Pairs /\ G \subseteq NewPairsOf(annot)
  /\ \A S, f : S \in SUBSET Pairs /\ BlockAfter(f, S, instrs, annot) => f[n] = (S \cap K) \cup G

IsForm(instrs, annot, K, G) ==
  /\ K \in SUBSET Pairs /\ G \in SUBSET Pairs /\ G \subseteq NewPairsOf(annot)
  /\ \A S \in SUBSET Pairs : process_block(S, instrs, annot).na = (S \cap K) \cup G

LEMMA BlockForm ==
  ASSUME NEW instrs, Len(instrs) \in Nat, NEW annot \in Seq(Seq(Annots)), Len(annot) = Len(instrs)
  PROVE  \E K, G : IsForm(instrs, annot, K, G)
<1> DEFINE L == Len(instrs)
           W == {n \in 0..L : \E K, G : BlockFormAt(n, instrs, annot, K, G)}
<1>1. L \in Nat /\ \A n \in 1..L : annot[n] \in Seq(Annots)
  OBVIOUS
<1>2. 0 \in W
  <2>1. BlockFormAt(0, instrs, annot, Pairs, {})
    BY DEF BlockFormAt, BlockAfter
  <2> QED BY <1>1, <2>1
<1>3. ASSUME NEW n \in 1..L, n - 1 \in W PROVE n \in W
  <2>1. PICK K, G : BlockFormAt(n - 1, instrs, annot, K, G)
    BY <1>3
  <2>2. annot[n] \in Seq(Annots) /\ K \in SUBSET Pairs /\ G \in SUBSET Pairs
    BY <1>1, <2>1 DEF BlockFormAt
  <2>3. PICK K2, G2 : InstrStep(annot[n], instrs[n], K, G, K2, G2)
    BY <2>2, InstrForm
  <2>4. NewPairs(annot[n]) \subseteq NewPairsOf(annot)
    BY <1>1 DEF NewPairsOf
  <2>5. G2 \subseteq NewPairsOf(annot)
    BY <2>1, <2>3, <2>4 DEF BlockFormAt, InstrStep
  <2>6. ASSUME NEW S, NEW f, S \in SUBSET Pairs, BlockAfter(f, S, instrs, annot)
        PROVE  f[n] = (S \cap K2) \cup G2
    <3>1. f[n - 1] = (S \cap K) \cup G
      BY <2>1, <2>6 DEF BlockFormAt
    <3>2. f[n] = process_set(process_annots(f[n - 1], annot[n]), instrs[n])
      BY <2>6 DEF BlockAfter
    <3> QED BY <2>3, <2>6, <3>1, <3>2 DEF InstrStep
  <2>7. BlockFormAt(n, instrs, annot, K2, G2)
    BY <2>3, <2>5, <2>6 DEF BlockFormAt, InstrStep
  <2> QED BY <1>1, <2>7
<1>4. \A n \in 0..L : n \in W
  <2> HIDE DEF W, L
  <2> QED BY <1>1, <1>2, <1>3, Upto
<1>5. PICK K, G : BlockFormAt(L, instrs, annot, K, G)
  BY <1>1, <1>4
<1>6. ASSUME NEW S \in SUBSET Pairs PROVE process_block(S, instrs, annot).na = (S \cap K) \cup G
  <2>1. PICK f : BlockAfter(f, S, instrs, annot)
    BY BlockRun
  <2>2. f[L] = (S \cap K) \cup G
    BY <1>5, <2>1 DEF BlockFormAt
  <2> QED BY <2>1, <2>2 DEF BlockAfter
<1>7. IsForm(instrs, annot, K, G)
  BY <1>5, <1>6 DEF BlockFormAt, IsForm
<1> QED BY <1>7

-----------------------------------------------------------------------------
(* refanno.ml: what an instruction opens and closes depends on what is open. *)

Concs == UNION {[D -> {"Read", "Write"}] : D \in SUBSET (Locs \X Locs)}

States == [conc : Concs, anns : Seq(Annots)]

\* an annotation, whatever was done since the location was opened
Norm(a) == IF a.op = "WGen" THEN [a EXCEPT !.op = "Gen"] ELSE a

Norms(anns) == {Norm(anns[k]) : k \in 1..Len(anns)}

Closing(D, al) == {Annot("Gen", al, y[2]) : y \in {z \in D : z[1] = al}}

Without(D, al) == {y \in D : y[1] # al}

\* st leads to g, where D is open, and the annotations A have been added
Leads(st, g, D, A) ==
  g \in States /\ DOMAIN g.conc = D /\ Norms(g.anns) = Norms(st.anns) \cup A

LEMMA ConcFacts ==
  ASSUME NEW c
  PROVE  c \in Concs <=> c \in [DOMAIN c -> {"Read", "Write"}] /\ DOMAIN c \in SUBSET (Locs \X Locs)
BY DEF Concs

LEMMA FiniteLocs == 
  ASSUME NEW D \in SUBSET (Locs \X Locs)
  PROVE  IsFiniteSet(D)
<1>1. IsFiniteSet(Locs \X Locs)
  BY RefannoAssumption, FS_Product
<1> QED BY <1>1, FS_Subset

LEMMA SetSeq ==
  ASSUME NEW S, IsFiniteSet(S)
  PROVE  /\ SetToSeq(S) \in Seq(S)
         /\ S = {SetToSeq(S)[k] : k \in 1..Len(SetToSeq(S))}
<1> DEFINE n == Cardinality(S)
           s == SetToSeq(S)
<1>1. n \in Nat /\ ExistsBijection(1..n, S)
  BY FS_CardinalityType
<1>2. PICK g \in Bijection(1..n, S) : TRUE
  BY <1>1 DEF ExistsBijection
<1>3. g \in [1..n -> S] /\ IsInjective(g)
  BY <1>2 DEF Bijection, Injection
<1>4. s \in [1..n -> S] /\ IsInjective(s)
  BY <1>3, Zenon DEF SetToSeq
<1> HIDE DEF s
<1>5. s \in Injection(1..n, S) /\ IsFiniteSet(1..n) /\ Cardinality(1..n) = n
  BY <1>1, <1>4, FS_Interval DEF Injection
<1>6. s \in Surjection(1..n, S)
  BY <1>5, FS_Injection
<1>7. s \in Seq(S) /\ Len(s) = n
  BY <1>1, <1>4
<1>8. S = {s[k] : k \in 1..n}
  BY <1>4, <1>6 DEF Surjection
<1> QED BY <1>7, <1>8 DEF s

LEMMA NormsOf ==
  ASSUME NEW s \in Seq(Annots), NEW t \in Seq(Annots)
  PROVE  Norms(s \o t) = Norms(s) \cup Norms(t)
<1>1. /\ Len(s \o t) = Len(s) + Len(t) /\ Len(s) \in Nat /\ Len(t) \in Nat
      /\ \A k \in 1..Len(s) : (s \o t)[k] = s[k]
      /\ \A k \in 1..Len(t) : (s \o t)[Len(s) + k] = t[k]
  OBVIOUS
<1>2. \A k \in 1..(Len(s) + Len(t)) : k \in 1..Len(s) \/ ((k - Len(s)) \in 1..Len(t) /\ k = Len(s) + (k - Len(s)))
  BY <1>1
<1>3. \A k \in 1..Len(s) : k \in 1..(Len(s) + Len(t))
  BY <1>1
<1>4. \A k \in 1..Len(t) : Len(s) + k \in 1..(Len(s) + Len(t))
  BY <1>1
<1>5. Norms(s \o t) \subseteq Norms(s) \cup Norms(t)
  <2> SUFFICES ASSUME NEW k \in 1..(Len(s) + Len(t)) PROVE Norm((s \o t)[k]) \in Norms(s) \cup Norms(t)
    BY <1>1 DEF Norms
  <2> QED BY <1>1, <1>2 DEF Norms
<1>6. Norms(s) \subseteq Norms(s \o t)
  <2> SUFFICES ASSUME NEW k \in 1..Len(s) PROVE Norm(s[k]) \in Norms(s \o t)
    BY DEF Norms
  <2> QED BY <1>1, <1>3 DEF Norms
<1>7. Norms(t) \subseteq Norms(s \o t)
  <2> SUFFICES ASSUME NEW k \in 1..Len(t) PROVE Norm(t[k]) \in Norms(s \o t)
    BY DEF Norms
  <2> QED BY <1>1, <1>4 DEF Norms
<1> QED BY <1>5, <1>6, <1>7

LEMMA NormsAppend ==
  ASSUME NEW s \in Seq(Annots), NEW a \in Annots
  PROVE  Norms(Append(s, a)) = Norms(s) \cup {Norm(a)}
<1>1. <<a>> \in Seq(Annots) /\ Append(s, a) = s \o <<a>>
  OBVIOUS
<1>2. Norms(<<a>>) = {Norm(a)}
  BY DEF Norms
<1> QED BY <1>1, <1>2, NormsOf

LEMMA NormAnnot ==
  ASSUME NEW al, NEW cl
  PROVE  /\ Norm(Annot("Gen", al, cl)) = Annot("Gen", al, cl)
         /\ Norm(Annot("WGen", al, cl)) = Annot("Gen", al, cl)
         /\ Norm(Annot("Ins", al, cl)) = Annot("Ins", al, cl)
         /\ Norm(Annot("New", al, cl)) = Annot("New", al, cl)
         /\ Norm(Annot("NewC", al, cl)) = Annot("NewC", al, cl)
BY DEF Norm, Annot

LEMMA GeneralizeFacts ==
  ASSUME NEW st \in States, NEW al
  PROVE  Leads(st, generalize(st, al), Without(DOMAIN st.conc, al), Closing(DOMAIN st.conc, al))
<1> DEFINE c == st.conc
           D == DOMAIN c
           g == generalize(st, al)
           gen(cl) == Annot(IF c[<<al, cl>>] = "Write" THEN "Gen" ELSE "WGen", al, cl)
           cls == clocs_of_aloc(c, al)
           A == {gen(cl) : cl \in cls}
           r == SetToSeq(A)
           rest == [x \in {y \in D : y[1] # al} |-> c[x]]
<1>1. c \in Concs /\ st.anns \in Seq(Annots)
  BY DEF States
<1>2. c \in [D -> {"Read", "Write"}] /\ D \in SUBSET (Locs \X Locs)
  BY <1>1, ConcFacts
<1>3. g = [conc |-> rest, anns |-> st.anns \o r]
  BY DEF generalize
<1>4. rest \in Concs /\ DOMAIN rest = Without(D, al)
  <2>1. rest \in [Without(D, al) -> {"Read", "Write"}] /\ Without(D, al) \in SUBSET (Locs \X Locs)
    BY <1>2 DEF Without
  <2> QED BY <2>1, ConcFacts
<1>5. cls = {y[2] : y \in {z \in D : z[1] = al}} /\ cls \subseteq Locs
  BY <1>2 DEF clocs_of_aloc
<1>6. A \subseteq Annots
  <2> SUFFICES ASSUME NEW cl \in cls PROVE gen(cl) \in Annots
    OBVIOUS
  <2>1. al \in Locs /\ cl \in Locs
    BY <1>2, <1>5
  <2> QED BY <2>1 DEF Annot, Annots
<1>7. IsFiniteSet(A)
  <2>1. IsFiniteSet(cls)
    BY <1>5, RefannoAssumption, FS_Subset
  <2>2. PICK n \in Nat : ExistsSurjection(1..n, cls)
    BY <2>1, FS_NatSurjection
  <2>3. PICK f \in Surjection(1..n, cls) : TRUE
    BY <2>2 DEF ExistsSurjection
  <2> HIDE DEF cls, gen
  <2>4. [k \in 1..n |-> gen(f[k])] \in Surjection(1..n, A)
    BY <2>3 DEF Surjection
  <2>5. ExistsSurjection(1..n, A)
    BY <2>4 DEF ExistsSurjection
  <2> QED BY <2>5, FS_NatSurjection
<1>8. r \in Seq(Annots) /\ A = {r[k] : k \in 1..Len(r)}
  <2> HIDE DEF A
  <2>1. r \in Seq(A) /\ A = {r[k] : k \in 1..Len(r)}
    BY <1>7, SetSeq
  <2> HIDE DEF r
  <2>2. r \in Seq(Annots)
    BY <1>6, <2>1
  <2> QED BY <2>1, <2>2
<1>9. Norms(r) = Closing(D, al)
  <2>1. Norms(r) = {Norm(a) : a \in A}
    <3> HIDE DEF A, r
    <3> QED BY <1>8 DEF Norms
  <2>2. \A cl : Norm(gen(cl)) = Annot("Gen", al, cl)
    BY NormAnnot
  <2>3. {Norm(a) : a \in A} = {Annot("Gen", al, cl) : cl \in cls}
    <3> HIDE DEF gen, cls
    <3> QED BY <2>2
  <2>4. {Annot("Gen", al, cl) : cl \in cls} = Closing(D, al)
    <3> HIDE DEF cls
    <3> QED BY <1>5 DEF Closing
  <2> QED BY <2>1, <2>3, <2>4
<1> HIDE DEF c, rest, r
<1>10. g \in States /\ Norms(g.anns) = Norms(st.anns) \cup Closing(D, al)
  <2>1. st.anns \o r \in Seq(Annots)
    BY <1>1, <1>8
  <2> QED BY <1>1, <1>3, <1>4, <1>8, <1>9, <2>1, NormsOf DEF States
<1>11. DOMAIN g.conc = Without(D, al)
  BY <1>3, <1>4
<1> HIDE DEF g
<1> QED BY <1>10, <1>11 DEF Leads, g, c

Plus(D, al, cl) == D \cup {<<al, cl>>}

LEMMA OpenedFacts ==
  ASSUME NEW st \in States, NEW op \in {"Ins", "NewC"}, NEW al \in Locs, NEW cl \in Locs,
         NEW rw \in {"Read", "Write"}
  PROVE  Leads(st, Opened(st, op, al, cl, rw), Plus(DOMAIN st.conc, al, cl), {Annot(op, al, cl)})
<1> DEFINE c == st.conc
           D == DOMAIN c
           g == Opened(st, op, al, cl, rw)
           a == Annot(op, al, cl)
<1>1. c \in Concs /\ st.anns \in Seq(Annots)
  BY DEF States
<1>2. c \in [D -> {"Read", "Write"}] /\ D \in SUBSET (Locs \X Locs)
  BY <1>1, ConcFacts
<1>3. set_rw(c, al, cl, rw) \in [Plus(D, al, cl) -> {"Read", "Write"}]
  BY <1>2 DEF set_rw, Plus
<1>4. Plus(D, al, cl) \in SUBSET (Locs \X Locs)
  BY <1>2 DEF Plus
<1>5. set_rw(c, al, cl, rw) \in Concs /\ DOMAIN set_rw(c, al, cl, rw) = Plus(D, al, cl)
  BY <1>3, <1>4, ConcFacts
<1>6. a \in Annots /\ Norm(a) = a
  BY NormAnnot DEF Annot, Annots
<1>7. g = [conc |-> set_rw(c, al, cl, rw), anns |-> Append(st.anns, a)]
  BY DEF Opened
<1>8. Append(st.anns, a) \in Seq(Annots) /\ Norms(Append(st.anns, a)) = Norms(st.anns) \cup {a}
  <2> HIDE DEF a
  <2> QED BY <1>1, <1>6, NormsAppend
<1> HIDE DEF c, a
<1>9. g \in States /\ DOMAIN g.conc = Plus(D, al, cl) /\ Norms(g.anns) = Norms(st.anns) \cup {a}
  BY <1>5, <1>7, <1>8 DEF States
<1> HIDE DEF g
<1> QED BY <1>9 DEF Leads, g, c, a

\* what is open and what is annotated after al has been instantiated at cl
InstOpen(D, al, cl) == IF <<al, cl>> \in D THEN D ELSE Plus(Without(D, al), al, cl)

InstNorms(D, op, al, cl) ==
  IF <<al, cl>> \in D THEN {} ELSE Closing(D, al) \cup {Annot(op, al, cl)}

LEMMA InstantiateFacts ==
  ASSUME NEW st \in States, NEW op \in {"Ins", "NewC"}, NEW al \in Locs, NEW cl \in Locs,
         NEW rw \in {"Read", "Write"}
  PROVE  LET D == DOMAIN st.conc
         IN  Leads(st, instantiate(op, st, al, cl, rw), InstOpen(D, al, cl), InstNorms(D, op, al, cl))
<1> DEFINE c == st.conc
           D == DOMAIN c
           cls == clocs_of_aloc(c, al)
           g == instantiate(op, st, al, cl, rw)
<1>1. c \in Concs /\ st.anns \in Seq(Annots)
  BY DEF States
<1>2. c \in [D -> {"Read", "Write"}] /\ D \in SUBSET (Locs \X Locs)
  BY <1>1, ConcFacts
<1>3. \A y \in D : y = <<y[1], y[2]>>
  BY <1>2
<1>4. cls = {y[2] : y \in {z \in D : z[1] = al}}
  BY DEF clocs_of_aloc
<1>5. cl \in cls <=> <<al, cl>> \in D
  BY <1>3, <1>4
<1>6. CASE cls = {}
  <2>1. g = Opened(st, op, al, cl, rw)
    BY <1>6 DEF instantiate
  <2>2. Without(D, al) = D /\ Closing(D, al) = {} /\ <<al, cl>> \notin D
    BY <1>4, <1>5, <1>6 DEF Without, Closing
  <2>3. Leads(st, g, Plus(D, al, cl), {Annot(op, al, cl)})
    BY <2>1, OpenedFacts
  <2>4. InstOpen(D, al, cl) = Plus(D, al, cl) /\ InstNorms(D, op, al, cl) = {Annot(op, al, cl)}
    BY <2>2 DEF InstOpen, InstNorms
  <2> QED BY <2>3, <2>4
<1>7. CASE cl \in cls
  <2>1. g = IF rw = "Write" THEN [st EXCEPT !.conc = set_rw(c, al, cl, rw)] ELSE st
    BY <1>7 DEF instantiate
  <2>2. set_rw(c, al, cl, rw) \in [D -> {"Read", "Write"}]
    BY <1>2, <1>5, <1>7 DEF set_rw
  <2>3. set_rw(c, al, cl, rw) \in Concs /\ DOMAIN set_rw(c, al, cl, rw) = D
    BY <1>2, <2>2, ConcFacts
  <2>4. g \in States /\ DOMAIN g.conc = D /\ g.anns = st.anns
    BY <2>1, <2>3 DEF States
  <2>5. InstOpen(D, al, cl) = D /\ InstNorms(D, op, al, cl) = {}
    BY <1>5, <1>7 DEF InstOpen, InstNorms
  <2> HIDE DEF g
  <2>6. Leads(st, g, InstOpen(D, al, cl), InstNorms(D, op, al, cl))
    BY <2>4, <2>5 DEF Leads
  <2> QED BY <2>6 DEF g
<1>8. CASE cls # {} /\ cl \notin cls
  <2> DEFINE h == generalize(st, al)
  <2>1. g = Opened(h, op, al, cl, rw)
    BY <1>8 DEF instantiate
  <2>2. Leads(st, h, Without(D, al), Closing(D, al))
    BY GeneralizeFacts
  <2> HIDE DEF h
  <2>3. h \in States
    BY <2>2 DEF Leads
  <2>4. Leads(h, g, Plus(DOMAIN h.conc, al, cl), {Annot(op, al, cl)})
    BY <2>1, <2>3, OpenedFacts
  <2>5. InstOpen(D, al, cl) = Plus(Without(D, al), al, cl)
        /\ InstNorms(D, op, al, cl) = Closing(D, al) \cup {Annot(op, al, cl)}
    BY <1>5, <1>8 DEF InstOpen, InstNorms
  <2> HIDE DEF g
  <2>6. Leads(st, g, InstOpen(D, al, cl), InstNorms(D, op, al, cl))
    BY <2>2, <2>4, <2>5 DEF Leads
  <2> QED BY <2>6 DEF g
<1> QED BY <1>6, <1>7, <1>8

LEMMA InstOpenGrows ==
  ASSUME NEW D, NEW E, D \subseteq E, NEW al, NEW cl, \A y \in E : y = <<y[1], y[2]>>
  PROVE  InstOpen(D, al, cl) \subseteq InstOpen(E, al, cl)
BY DEF InstOpen, Plus, Without

-----------------------------------------------------------------------------
(* Closing every location of a set.                                          *)

Outside(D, als) == {y \in D : y[1] \notin als}

ClosingAll(D, als) == {Annot("Gen", y[1], y[2]) : y \in {z \in D : z[1] \in als}}

ClosedAfter(f, st, als) ==
  LET list == SetToSeq(als)
  IN  /\ f[0] = st /\ \A n \in 1..Len(list) : f[n] = generalize(f[n - 1], list[n])
      /\ GeneralizeAll(st, als) = f[Len(list)]

LEMMA ClosedRun ==
  ASSUME NEW als, IsFiniteSet(als), NEW st \in States
  PROVE  \E f : ClosedAfter(f, st, als)
<1> DEFINE list == SetToSeq(als)
           L == Len(list)
           step == [x \in States \X (1..L) |-> generalize(x[1], list[x[2]])]
           R(f) == f = [n \in 0..L |-> IF n = 0 THEN st ELSE generalize(f[n - 1], list[n])]
           after == CHOOSE f : R(f)
<1>1. L \in Nat
  <2>1. list \in Seq(als)
    BY SetSeq
  <2> HIDE DEF list
  <2> QED BY <2>1
<1>2. step \in [States \X (1..L) -> States]
  <2> HIDE DEF list, L
  <2>1. \A s \in States, n \in 1..L : generalize(s, list[n]) \in States
    BY GeneralizeFacts DEF Leads
  <2> QED BY <2>1
<1>3. PICK f : IsRun(f, L, States, st, step)
  <2> HIDE DEF step, L
  <2> QED BY <1>1, <1>2, Iterated
<1>4. f \in [0..L -> States] /\ f[0] = st
  BY <1>3 DEF IsRun
<1>5. ASSUME NEW n \in 1..L PROVE f[n] = generalize(f[n - 1], list[n])
  <2> HIDE DEF L, list
  <2>1. <<f[n - 1], n>> \in States \X (1..L)
    BY <1>1, <1>4
  <2> QED BY <1>3, <2>1 DEF IsRun
<1>6. R(f)
  <2> HIDE DEF L, list
  <2>1. \A n \in 0..L : f[n] = IF n = 0 THEN st ELSE generalize(f[n - 1], list[n])
    BY <1>1, <1>4, <1>5
  <2> QED BY <1>4, <2>1, Zenon
<1>7. R(after)
  BY <1>6, Zenon
<1>8. after[0] = st /\ \A n \in 1..L : after[n] = generalize(after[n - 1], list[n])
  <2> HIDE DEF after, L, list
  <2>1. \A n \in 0..L : after[n] = IF n = 0 THEN st ELSE generalize(after[n - 1], list[n])
    BY <1>1, <1>7
  <2> QED BY <1>1, <2>1
<1>9. GeneralizeAll(st, als) = after[L]
  BY Zenon DEF GeneralizeAll
<1> HIDE DEF after
<1> QED BY <1>8, <1>9 DEF ClosedAfter

LEMMA GeneralizeAllFacts ==
  ASSUME NEW als, IsFiniteSet(als), NEW st \in States
  PROVE  LET D == DOMAIN st.conc
         IN  Leads(st, GeneralizeAll(st, als), Outside(D, als), ClosingAll(D, als))
<1> DEFINE list == SetToSeq(als)
           L == Len(list)
           D == DOMAIN st.conc
           first(n) == {list[k] : k \in 1..n}
<1>1. L \in Nat /\ als = {list[k] : k \in 1..L}
  <2>1. list \in Seq(als) /\ als = {list[k] : k \in 1..L}
    BY SetSeq
  <2> HIDE DEF list
  <2> QED BY <2>1
<1>2. PICK f : ClosedAfter(f, st, als)
  BY ClosedRun
<1>3. /\ f[0] = st /\ \A n \in 1..L : f[n] = generalize(f[n - 1], list[n])
      /\ GeneralizeAll(st, als) = f[L]
  BY <1>2 DEF ClosedAfter
<1> DEFINE OK(n) == Leads(st, f[n], Outside(D, first(n)), ClosingAll(D, first(n)))
           W == {n \in 0..L : OK(n)}
<1> HIDE DEF list, L
<1>4. 0 \in W
  <2>1. Outside(D, first(0)) = D /\ ClosingAll(D, first(0)) = {}
    BY DEF Outside, ClosingAll
  <2>2. OK(0)
    <3> HIDE DEF first
    <3> QED BY <1>3, <2>1 DEF Leads
  <2> QED BY <1>1, <2>2
<1>5. ASSUME NEW n \in 1..L, n - 1 \in W PROVE n \in W
  <2> DEFINE al == list[n]
             V == Outside(D, first(n - 1))
  <2>1. Leads(st, f[n - 1], V, ClosingAll(D, first(n - 1)))
    BY <1>5
  <2>2. f[n - 1] \in States /\ DOMAIN f[n - 1].conc = V
    BY <2>1 DEF Leads
  <2>3. Leads(f[n - 1], f[n], Without(V, al), Closing(V, al))
    <3>1. Leads(f[n - 1], generalize(f[n - 1], al), Without(DOMAIN f[n - 1].conc, al), Closing(DOMAIN f[n - 1].conc, al))
      BY <2>2, GeneralizeFacts
    <3>2. f[n] = generalize(f[n - 1], al)
      BY <1>3
    <3> HIDE DEF al, V
    <3> QED BY <2>2, <3>1, <3>2
  <2>4. first(n) = first(n - 1) \cup {al}
    <3>1. \A k : k \in 1..n <=> k \in 1..(n - 1) \/ k = n
      BY <1>1
    <3> QED BY <3>1
  <2>5. Without(V, al) = Outside(D, first(n))
    <3> HIDE DEF first, al
    <3> QED BY <2>4 DEF Without, Outside
  <2>6. ClosingAll(D, first(n)) = ClosingAll(D, first(n - 1)) \cup Closing(V, al)
    <3> HIDE DEF first, al
    <3>1. Closing(V, al) \subseteq ClosingAll(D, first(n))
      BY <2>4 DEF Closing, ClosingAll, Outside
    <3>2. ClosingAll(D, first(n - 1)) \subseteq ClosingAll(D, first(n))
      BY <2>4 DEF ClosingAll
    <3>3. ASSUME NEW y \in D, y[1] \in first(n)
          PROVE  Annot("Gen", y[1], y[2]) \in ClosingAll(D, first(n - 1)) \cup Closing(V, al)
      <4>1. CASE y[1] \in first(n - 1)
        BY <4>1 DEF ClosingAll
      <4>2. CASE y[1] \notin first(n - 1)
        <5>1. y \in V /\ y[1] = al
          BY <2>4, <3>3, <4>2 DEF Outside
        <5> HIDE DEF V
        <5> QED BY <5>1 DEF Closing
      <4> QED BY <4>1, <4>2
    <3> QED BY <3>1, <3>2, <3>3 DEF ClosingAll
  <2>7. OK(n)
    <3> HIDE DEF first, V, al
    <3> QED BY <2>1, <2>3, <2>5, <2>6 DEF Leads
  <2> HIDE DEF OK
  <2> QED BY <1>1, <2>7
<1>6. \A n \in 0..L : n \in W
  <2> HIDE DEF W
  <2> QED BY <1>1, <1>4, <1>5, Upto
<1>7. OK(L)
  BY <1>1, <1>6
<1>8. first(L) = als
  BY <1>1
<1> HIDE DEF first
<1> QED BY <1>3, <1>7, <1>8

-----------------------------------------------------------------------------
(* Two runs of the same code: from the same locations they open and annotate *)
(* the same ones, and from more locations they leave more open.              *)

Same(s, t) ==
  /\ s \in States /\ t \in States
  /\ DOMAIN s.conc = DOMAIN t.conc /\ Norms(s.anns) = Norms(t.anns)

Below(s, t) == s \in States /\ t \in States /\ DOMAIN s.conc \subseteq DOMAIN t.conc

\* s and t lead to g and h
Follows(s, t, g, h) == (Same(s, t) => Same(g, h)) /\ (Below(s, t) => Below(g, h))

LEMMA PairsOpen ==
  ASSUME NEW st \in States
  PROVE  /\ DOMAIN st.conc \in SUBSET (Locs \X Locs)
         /\ \A y \in DOMAIN st.conc : y = <<y[1], y[2]>> /\ y[1] \in Locs /\ y[2] \in Locs
<1>1. st.conc \in Concs
  BY DEF States
<1>2. DOMAIN st.conc \in SUBSET (Locs \X Locs)
  BY <1>1, ConcFacts
<1> QED BY <1>2

LEMMA InstantiateFollows ==
  ASSUME NEW s \in States, NEW t \in States, NEW op \in {"Ins", "NewC"}, NEW al \in Locs,
         NEW cl \in Locs, NEW rw \in {"Read", "Write"}
  PROVE  Follows(s, t, instantiate(op, s, al, cl, rw), instantiate(op, t, al, cl, rw))
<1> DEFINE D == DOMAIN s.conc
           E == DOMAIN t.conc
           g == instantiate(op, s, al, cl, rw)
           h == instantiate(op, t, al, cl, rw)
<1>1. Leads(s, g, InstOpen(D, al, cl), InstNorms(D, op, al, cl))
  BY InstantiateFacts
<1>2. Leads(t, h, InstOpen(E, al, cl), InstNorms(E, op, al, cl))
  BY InstantiateFacts
<1>3. \A y \in E : y = <<y[1], y[2]>>
  BY PairsOpen
<1> HIDE DEF g, h
<1>4. Same(s, t) => Same(g, h)
  BY <1>1, <1>2 DEF Leads, Same
<1>5. D \subseteq E => InstOpen(D, al, cl) \subseteq InstOpen(E, al, cl)
  BY <1>3, InstOpenGrows
<1>6. Below(s, t) => Below(g, h)
  BY <1>1, <1>2, <1>5 DEF Leads, Below
<1> QED BY <1>4, <1>6 DEF Follows, g, h

LEMMA OpenedFollows ==
  ASSUME NEW s \in States, NEW t \in States, NEW op \in {"Ins", "NewC"}, NEW al \in Locs,
         NEW cl \in Locs, NEW rw \in {"Read", "Write"}
  PROVE  Follows(s, t, Opened(s, op, al, cl, rw), Opened(t, op, al, cl, rw))
<1> DEFINE D == DOMAIN s.conc
           E == DOMAIN t.conc
           g == Opened(s, op, al, cl, rw)
           h == Opened(t, op, al, cl, rw)
<1>1. Leads(s, g, Plus(D, al, cl), {Annot(op, al, cl)}) /\ Leads(t, h, Plus(E, al, cl), {Annot(op, al, cl)})
  BY OpenedFacts
<1> HIDE DEF g, h
<1>2. Same(s, t) => Same(g, h)
  BY <1>1 DEF Leads, Same
<1>3. Below(s, t) => Below(g, h)
  BY <1>1 DEF Leads, Below, Plus
<1> QED BY <1>2, <1>3 DEF Follows, g, h

News == [al : Locs, cl : Locs \cup {None}]

LEMMA WithNew ==
  ASSUME NEW st \in States, NEW al \in Locs
  PROVE  LET D == DOMAIN st.conc
             g == generalize(st, al)
         IN  Leads(st, [g EXCEPT !.anns = Append(@, Annot("New", al, None))],
                   Without(D, al), Closing(D, al) \cup {Annot("New", al, None)})
<1> DEFINE D == DOMAIN st.conc
           g == generalize(st, al)
           a == Annot("New", al, None)
           h == [g EXCEPT !.anns = Append(@, a)]
<1>1. Leads(st, g, Without(D, al), Closing(D, al))
  BY GeneralizeFacts
<1> HIDE DEF g
<1>2. a \in Annots /\ Norm(a) = a
  BY NormAnnot DEF Annot, Annots
<1> HIDE DEF a
<1>3. g.conc \in Concs /\ g.anns \in Seq(Annots) /\ g \in States
  BY <1>1 DEF Leads, States
<1>4. Append(g.anns, a) \in Seq(Annots) /\ Norms(Append(g.anns, a)) = Norms(g.anns) \cup {a}
  BY <1>2, <1>3, NormsAppend
<1>5. h \in States /\ h.conc = g.conc /\ h.anns = Append(g.anns, a)
  BY <1>3, <1>4 DEF States
<1> HIDE DEF h
<1>6. Leads(st, h, Without(D, al), Closing(D, al) \cup {a})
  BY <1>1, <1>4, <1>5 DEF Leads
<1> QED BY <1>6 DEF h, g, a

LEMMA ConcretizeFollows ==
  ASSUME NEW s \in States, NEW t \in States, NEW new \in News
  PROVE  /\ concretize_new(s, new) \in States
         /\ Follows(s, t, concretize_new(s, new), concretize_new(t, new))
<1>1. CASE new.cl # None
  <2>1. new.al \in Locs /\ new.cl \in Locs
    BY <1>1 DEF News
  <2>2. /\ concretize_new(s, new) = instantiate("NewC", s, new.al, new.cl, "Write")
        /\ concretize_new(t, new) = instantiate("NewC", t, new.al, new.cl, "Write")
    BY <1>1 DEF concretize_new
  <2>3. instantiate("NewC", s, new.al, new.cl, "Write") \in States
    BY <2>1, InstantiateFacts DEF Leads
  <2>4. Follows(s, t, instantiate("NewC", s, new.al, new.cl, "Write"),
                instantiate("NewC", t, new.al, new.cl, "Write"))
    BY <2>1, InstantiateFollows
  <2> QED BY <2>2, <2>3, <2>4
<1>2. CASE new.cl = None
  <2> DEFINE D == DOMAIN s.conc
             E == DOMAIN t.conc
             al == new.al
             a == Annot("New", al, None)
             g == concretize_new(s, new)
             h == concretize_new(t, new)
  <2>1. al \in Locs
    BY DEF News
  <2>2. Leads(s, g, Without(D, al), Closing(D, al) \cup {a})
    BY <1>2, <2>1, WithNew DEF concretize_new
  <2>3. Leads(t, h, Without(E, al), Closing(E, al) \cup {a})
    BY <1>2, <2>1, WithNew DEF concretize_new
  <2> HIDE DEF g, h, a, al
  <2>4. Same(s, t) => Same(g, h)
    BY <2>2, <2>3 DEF Leads, Same
  <2>5. Below(s, t) => Below(g, h)
    BY <2>2, <2>3 DEF Leads, Below, Without
  <2>6. g \in States
    BY <2>2 DEF Leads
  <2> QED BY <2>4, <2>5, <2>6 DEF Follows, g, h
<1> QED BY <1>1, <1>2

LEMMA GeneralizeAllFollows ==
  ASSUME NEW s \in States, NEW t \in States, NEW als, IsFiniteSet(als)
  PROVE  /\ GeneralizeAll(s, als) \in States
         /\ Follows(s, t, GeneralizeAll(s, als), GeneralizeAll(t, als))
<1> DEFINE D == DOMAIN s.conc
           E == DOMAIN t.conc
           g == GeneralizeAll(s, als)
           h == GeneralizeAll(t, als)
<1>1. Leads(s, g, Outside(D, als), ClosingAll(D, als))
  BY GeneralizeAllFacts
<1>2. Leads(t, h, Outside(E, als), ClosingAll(E, als))
  BY GeneralizeAllFacts
<1> HIDE DEF g, h
<1>3. Same(s, t) => Same(g, h)
  BY <1>1, <1>2 DEF Leads, Same
<1>4. Below(s, t) => Below(g, h)
  BY <1>1, <1>2 DEF Leads, Below, Outside
<1>5. g \in States
  BY <1>1 DEF Leads
<1> QED BY <1>3, <1>4, <1>5 DEF Follows, g, h

LEMMA FollowsOn ==
  ASSUME NEW s, NEW t, NEW a, NEW b, NEW c, NEW d, Follows(s, t, a, b), Follows(a, b, c, d)
  PROVE  Follows(s, t, c, d)
BY DEF Follows

LEMMA FollowsAtOnce ==
  ASSUME NEW s, NEW t
  PROVE  Follows(s, t, s, t)
BY DEF Follows

NewsAfter(f, st, news) ==
  /\ f \in [0..Len(news) -> States]
  /\ f[0] = st /\ \A n \in 1..Len(news) : f[n] = concretize_new(f[n - 1], news[n])
  /\ concretize_all(st, news) = f[Len(news)]

LEMMA NewsRun ==
  ASSUME NEW news \in Seq(News), NEW st \in States
  PROVE  \E f : NewsAfter(f, st, news)
<1> DEFINE L == Len(news)
           step == [x \in States \X (1..L) |-> concretize_new(x[1], news[x[2]])]
           R(f) == f = [n \in 0..L |-> IF n = 0 THEN st ELSE concretize_new(f[n - 1], news[n])]
           after == CHOOSE f : R(f)
<1>1. L \in Nat /\ \A n \in 1..L : news[n] \in News
  OBVIOUS
<1>2. step \in [States \X (1..L) -> States]
  <2>1. \A s \in States, n \in 1..L : concretize_new(s, news[n]) \in States
    BY <1>1, ConcretizeFollows
  <2> HIDE DEF L
  <2> QED BY <2>1
<1>3. PICK f : IsRun(f, L, States, st, step)
  <2> HIDE DEF step, L
  <2> QED BY <1>1, <1>2, Iterated
<1>4. f \in [0..L -> States] /\ f[0] = st
  BY <1>3 DEF IsRun
<1>5. ASSUME NEW n \in 1..L PROVE f[n] = concretize_new(f[n - 1], news[n])
  <2> HIDE DEF L
  <2>1. <<f[n - 1], n>> \in States \X (1..L)
    BY <1>1, <1>4
  <2> QED BY <1>3, <2>1 DEF IsRun
<1>6. R(f)
  <2> HIDE DEF L
  <2>1. \A n \in 0..L : f[n] = IF n = 0 THEN st ELSE concretize_new(f[n - 1], news[n])
    BY <1>1, <1>4, <1>5
  <2> QED BY <1>4, <2>1, Zenon
<1>7. R(after)
  BY <1>6, Zenon
<1>8. /\ after = [n \in 0..L |-> after[n]] /\ after[0] = st
      /\ \A n \in 1..L : after[n] = concretize_new(after[n - 1], news[n])
  <2> HIDE DEF after, L
  <2>1. \A n \in 0..L : after[n] = IF n = 0 THEN st ELSE concretize_new(after[n - 1], news[n])
    BY <1>1, <1>7
  <2> QED BY <1>1, <1>7, <2>1
<1>9. concretize_all(st, news) = after[L]
  BY Zenon DEF concretize_all
<1> HIDE DEF after
<1>10. IsRun(after, L, States, st, step)
  <2> HIDE DEF L
  <2>1. \A n \in 1..L : after[n - 1] \in States => after[n] = step[<<after[n - 1], n>>]
    BY <1>8
  <2> HIDE DEF step
  <2> QED BY <1>1, <1>2, <1>8, <2>1, Recurs
<1> QED BY <1>8, <1>9, <1>10 DEF NewsAfter, IsRun

LEMMA ConcretizeAllFollows ==
  ASSUME NEW s \in States, NEW t \in States, NEW news \in Seq(News)
  PROVE  /\ concretize_all(s, news) \in States
         /\ Follows(s, t, concretize_all(s, news), concretize_all(t, news))
<1> DEFINE L == Len(news)
<1>1. L \in Nat /\ \A n \in 1..L : news[n] \in News
  OBVIOUS
<1>2. PICK f : NewsAfter(f, s, news)
  BY NewsRun
<1>3. PICK g : NewsAfter(g, t, news)
  BY NewsRun
<1> DEFINE W == {n \in 0..L : Follows(s, t, f[n], g[n])}
<1>4. 0 \in W
  BY <1>1, <1>2, <1>3, FollowsAtOnce DEF NewsAfter
<1>5. ASSUME NEW n \in 1..L, n - 1 \in W PROVE n \in W
  <2>0. n \in 1..L /\ n - 1 \in 0..L
    BY <1>1
  <2>f. f[n] = concretize_new(f[n - 1], news[n]) /\ f[n - 1] \in States
    BY <1>2, <2>0 DEF NewsAfter
  <2>g. g[n] = concretize_new(g[n - 1], news[n]) /\ g[n - 1] \in States
    BY <1>3, <2>0 DEF NewsAfter
  <2>1. /\ f[n] = concretize_new(f[n - 1], news[n]) /\ g[n] = concretize_new(g[n - 1], news[n])
        /\ f[n - 1] \in States /\ g[n - 1] \in States
    BY <2>f, <2>g
  <2>2. Follows(f[n - 1], g[n - 1], f[n], g[n])
    BY <1>1, <2>1, ConcretizeFollows
  <2>3. Follows(s, t, f[n], g[n])
    BY <1>5, <2>2, FollowsOn
  <2> QED BY <1>1, <2>3
<1>6. \A n \in 0..L : n \in W
  <2> HIDE DEF W, L
  <2> QED BY <1>1, <1>4, <1>5, Upto
<1>7. Follows(s, t, f[L], g[L])
  BY <1>1, <1>6
<1> QED BY <1>1, <1>2, <1>3, <1>7 DEF NewsAfter

-----------------------------------------------------------------------------
(* Instructions and blocks.                                                  *)

LEMMA FoldFollows ==
  ASSUME NEW s \in States, NEW t \in States
  PROVE  LET g == GeneralizeAll(s, {x[1] : x \in DOMAIN s.conc})
             h == GeneralizeAll(t, {x[1] : x \in DOMAIN t.conc})
         IN  g \in States /\ Follows(s, t, g, h)
<1> DEFINE D == DOMAIN s.conc
           E == DOMAIN t.conc
           als == {x[1] : x \in D}
           bls == {x[1] : x \in E}
           g == GeneralizeAll(s, als)
           h == GeneralizeAll(t, bls)
<1>1. IsFiniteSet(als) /\ IsFiniteSet(bls)
  <2>1. als \in SUBSET Locs /\ bls \in SUBSET Locs
    BY PairsOpen
  <2> HIDE DEF als, bls
  <2> QED BY <2>1, RefannoAssumption, FS_Subset
<1>2. Leads(s, g, Outside(D, als), ClosingAll(D, als)) /\ Leads(t, h, Outside(E, bls), ClosingAll(E, bls))
  <2> HIDE DEF als, bls
  <2> QED BY <1>1, GeneralizeAllFacts
<1>3. Outside(D, als) = {} /\ Outside(E, bls) = {}
  BY DEF Outside
<1>4. D = E => als = bls
  OBVIOUS
<1> HIDE DEF als, bls, g, h
<1>5. Same(s, t) => Same(g, h)
  BY <1>2, <1>3, <1>4 DEF Leads, Same
<1>6. Below(s, t) => Below(g, h)
  BY <1>2, <1>3 DEF Leads, Below
<1>7. g \in States
  BY <1>2 DEF Leads
<1> QED BY <1>5, <1>6, <1>7 DEF Follows, g, h, als, bls

LEMMA InstrFollows ==
  ASSUME NEW s \in States, NEW t \in States, NEW i, IsInstruction(i)
  PROVE  annotate_instr(s, i) \in States /\ Follows(s, t, annotate_instr(s, i), annotate_instr(t, i))
<1>1. /\ i.op \in {"read", "write", "malloc", "call", "fold"} /\ i.news \in Seq(News)
      /\ i.op \in {"read", "write", "malloc"} => i.al \in Locs /\ i.cl \in Locs
  BY DEF IsInstruction, News
<1>2. IsFiniteSet(GlobalLocs)
  BY RefannoAssumption, FS_Subset
<1>3. CASE i.op = "read"
  <2>1. \A st : annotate_instr(st, i) = instantiate("Ins", st, i.al, i.cl, "Read")
    BY <1>3 DEF annotate_instr
  <2>2. i.al \in Locs /\ i.cl \in Locs
    BY <1>1, <1>3
  <2>3. instantiate("Ins", s, i.al, i.cl, "Read") \in States
    BY <2>2, InstantiateFacts DEF Leads
  <2>4. Follows(s, t, instantiate("Ins", s, i.al, i.cl, "Read"), instantiate("Ins", t, i.al, i.cl, "Read"))
    BY <2>2, InstantiateFollows
  <2> QED BY <2>1, <2>3, <2>4
<1>4. CASE i.op = "write"
  <2>1. \A st : annotate_instr(st, i) = instantiate("Ins", st, i.al, i.cl, "Write")
    BY <1>4 DEF annotate_instr
  <2>2. i.al \in Locs /\ i.cl \in Locs
    BY <1>1, <1>4
  <2>3. instantiate("Ins", s, i.al, i.cl, "Write") \in States
    BY <2>2, InstantiateFacts DEF Leads
  <2>4. Follows(s, t, instantiate("Ins", s, i.al, i.cl, "Write"), instantiate("Ins", t, i.al, i.cl, "Write"))
    BY <2>2, InstantiateFollows
  <2> QED BY <2>1, <2>3, <2>4
<1>5. CASE i.op = "malloc"
  <2>1. \A st : annotate_instr(st, i) = Opened(st, "NewC", i.al, i.cl, "Write")
    BY <1>5 DEF annotate_instr
  <2>2. i.al \in Locs /\ i.cl \in Locs
    BY <1>1, <1>5
  <2>3. Opened(s, "NewC", i.al, i.cl, "Write") \in States
    BY <2>2, OpenedFacts DEF Leads
  <2>4. Follows(s, t, Opened(s, "NewC", i.al, i.cl, "Write"), Opened(t, "NewC", i.al, i.cl, "Write"))
    BY <2>2, OpenedFollows
  <2> QED BY <2>1, <2>3, <2>4
<1>6. CASE i.op = "call"
  <2> DEFINE g == concretize_all(s, i.news)
             h == concretize_all(t, i.news)
  <2>1. annotate_instr(s, i) = GeneralizeAll(g, GlobalLocs) /\ annotate_instr(t, i) = GeneralizeAll(h, GlobalLocs)
    BY <1>6 DEF annotate_instr
  <2>2. g \in States /\ h \in States /\ Follows(s, t, g, h)
    BY <1>1, ConcretizeAllFollows
  <2> HIDE DEF g, h
  <2>3. /\ GeneralizeAll(g, GlobalLocs) \in States
        /\ Follows(g, h, GeneralizeAll(g, GlobalLocs), GeneralizeAll(h, GlobalLocs))
    BY <1>2, <2>2, GeneralizeAllFollows
  <2> QED BY <2>1, <2>2, <2>3, FollowsOn
<1>7. CASE i.op = "fold"
  <2>1. \A st : annotate_instr(st, i) = GeneralizeAll(st, {x[1] : x \in DOMAIN st.conc})
    BY <1>7 DEF annotate_instr
  <2> QED BY <2>1, FoldFollows
<1> QED BY <1>1, <1>3, <1>4, <1>5, <1>6, <1>7

IsInstrs(instrs) == Len(instrs) \in Nat /\ \A k \in 1..Len(instrs) : IsInstruction(instrs[k])

Start(conc) == [conc |-> conc, anns |-> <<>>]

AnnotatedAfter(f, conc, instrs) ==
  /\ f \in [0..Len(instrs) -> States]
  /\ f[0] = Start(conc) /\ \A n \in 1..Len(instrs) : f[n] = annotate_instr(Start(f[n - 1].conc), instrs[n])
  /\ annotate_block(conc, instrs) =
       [conc |-> f[Len(instrs)].conc, anns |-> [n \in 1..Len(instrs) |-> f[n].anns]]

LEMMA StartIsState ==
  ASSUME NEW c \in Concs
  PROVE  Start(c) \in States /\ Start(c).conc = c /\ Norms(Start(c).anns) = {}
BY DEF Start, States, Norms

LEMMA AnnotatedRun ==
  ASSUME NEW instrs, IsInstrs(instrs), NEW conc \in Concs
  PROVE  \E f : AnnotatedAfter(f, conc, instrs)
<1> DEFINE L == Len(instrs)
           next(b, n) == annotate_instr([conc |-> b.conc, anns |-> <<>>], instrs[n])
           base == [conc |-> conc, anns |-> <<>>]
           step == [x \in States \X (1..L) |-> next(x[1], x[2])]
           R(f) == f = [n \in 0..L |-> IF n = 0 THEN base ELSE next(f[n - 1], n)]
           after == CHOOSE f : R(f)
<1>1. L \in Nat /\ \A n \in 1..L : IsInstruction(instrs[n])
  BY DEF IsInstrs
<1>2. base \in States
  BY StartIsState DEF Start
<1>3. ASSUME NEW b \in States, NEW n \in 1..L PROVE next(b, n) \in States
  <2>1. b.conc \in Concs
    BY DEF States
  <2>2. Start(b.conc) \in States
    BY <2>1, StartIsState
  <2> QED BY <1>1, <2>2, InstrFollows DEF Start
<1>4. step \in [States \X (1..L) -> States]
  <2> HIDE DEF next, L
  <2> QED BY <1>3
<1>5. PICK f : IsRun(f, L, States, base, step)
  <2> HIDE DEF step, L, base
  <2> QED BY <1>1, <1>2, <1>4, Iterated
<1>6. f \in [0..L -> States] /\ f[0] = base
  BY <1>5 DEF IsRun
<1>7. ASSUME NEW n \in 1..L PROVE f[n] = next(f[n - 1], n)
  <2> HIDE DEF L, next
  <2>1. <<f[n - 1], n>> \in States \X (1..L)
    BY <1>1, <1>6
  <2>2. step[<<f[n - 1], n>>] = next(f[n - 1], n)
    BY <2>1
  <2> QED BY <1>5, <2>2 DEF IsRun
<1>8. R(f)
  <2> HIDE DEF L, next, base
  <2>1. \A n \in 0..L : f[n] = IF n = 0 THEN base ELSE next(f[n - 1], n)
    BY <1>1, <1>6, <1>7
  <2> QED BY <1>6, <2>1, Zenon
<1>9. R(after)
  BY <1>8, Zenon
<1>10. /\ after = [n \in 0..L |-> after[n]] /\ after[0] = base
       /\ \A n \in 1..L : after[n] = next(after[n - 1], n)
  <2> HIDE DEF after, L, next, base
  <2>1. \A n \in 0..L : after[n] = IF n = 0 THEN base ELSE next(after[n - 1], n)
    BY <1>1, <1>9
  <2>2. 0 \in 0..L /\ \A n \in 1..L : n \in 0..L /\ n # 0
    BY <1>1
  <2>3. after[0] = base
    BY <2>1, <2>2
  <2>4. \A n \in 1..L : after[n] = next(after[n - 1], n)
    BY <2>1, <2>2
  <2>5. after = [n \in 0..L |-> after[n]]
    BY <1>9
  <2> QED BY <2>3, <2>4, <2>5
<1>11. annotate_block(conc, instrs) = [conc |-> after[L].conc, anns |-> [n \in 1..L |-> after[n].anns]]
  BY Zenon DEF annotate_block
<1> HIDE DEF after
<1>12. IsRun(after, L, States, base, step)
  <2> HIDE DEF L, next, base
  <2>1. ASSUME NEW n \in 1..L, after[n - 1] \in States PROVE after[n] = step[<<after[n - 1], n>>]
    <3>1. <<after[n - 1], n>> \in States \X (1..L)
      BY <2>1
    <3>2. step[<<after[n - 1], n>>] = next(after[n - 1], n)
      BY <3>1
    <3> QED BY <1>10, <3>2
  <2> HIDE DEF step
  <2> QED BY <1>1, <1>2, <1>4, <1>10, <2>1, Recurs
<1> QED BY <1>10, <1>11, <1>12 DEF AnnotatedAfter, IsRun, Start

LEMMA BlockTyped ==
  ASSUME NEW instrs, IsInstrs(instrs), NEW conc \in Concs
  PROVE  LET b == annotate_block(conc, instrs)
         IN  b.conc \in Concs /\ b.anns \in Seq(Seq(Annots)) /\ Len(b.anns) = Len(instrs)
<1>1. PICK f : AnnotatedAfter(f, conc, instrs)
  BY AnnotatedRun
<1> DEFINE L == Len(instrs)
           b == annotate_block(conc, instrs)
<1>2. L \in Nat
  BY DEF IsInstrs
<1>3. \A n \in 0..L : f[n].conc \in Concs /\ f[n].anns \in Seq(Annots)
  BY <1>1 DEF AnnotatedAfter, States
<1>4. b.conc = f[L].conc /\ b.anns = [n \in 1..L |-> f[n].anns]
  BY <1>1 DEF AnnotatedAfter
<1> HIDE DEF b, L
<1>5. b.conc \in Concs
  BY <1>2, <1>3, <1>4
<1>6. b.anns \in Seq(Seq(Annots)) /\ Len(b.anns) = L
  BY <1>2, <1>3, <1>4
<1> QED BY <1>5, <1>6 DEF b, L

\* an instruction takes c to s and d to t
Alike(c, d, s, t) ==
  /\ DOMAIN c = DOMAIN d => DOMAIN s.conc = DOMAIN t.conc /\ Norms(s.anns) = Norms(t.anns)
  /\ DOMAIN c \subseteq DOMAIN d => DOMAIN s.conc \subseteq DOMAIN t.conc

LEMMA StepFollows ==
  ASSUME NEW instrs, IsInstrs(instrs), NEW n \in 1..Len(instrs), NEW c \in Concs, NEW d \in Concs
  PROVE  Alike(c, d, annotate_instr(Start(c), instrs[n]), annotate_instr(Start(d), instrs[n]))
<1> DEFINE s == annotate_instr(Start(c), instrs[n])
           t == annotate_instr(Start(d), instrs[n])
<1>1. Follows(Start(c), Start(d), s, t)
  BY StartIsState, InstrFollows DEF IsInstrs
<1>2. DOMAIN c = DOMAIN d => Same(Start(c), Start(d))
  BY StartIsState DEF Same
<1>3. DOMAIN c \subseteq DOMAIN d => Below(Start(c), Start(d))
  BY StartIsState DEF Below
<1> HIDE DEF s, t
<1>4. DOMAIN c = DOMAIN d => DOMAIN s.conc = DOMAIN t.conc /\ Norms(s.anns) = Norms(t.anns)
  BY <1>1, <1>2 DEF Follows, Same
<1>5. DOMAIN c \subseteq DOMAIN d => DOMAIN s.conc \subseteq DOMAIN t.conc
  BY <1>1, <1>3 DEF Follows, Below
<1> QED BY <1>4, <1>5 DEF Alike, s, t

LEMMA BlockFollows ==
  ASSUME NEW instrs, IsInstrs(instrs), NEW c \in Concs, NEW d \in Concs
  PROVE  LET b == annotate_block(c, instrs)
             e == annotate_block(d, instrs)
         IN  /\ DOMAIN c = DOMAIN d => /\ DOMAIN b.conc = DOMAIN e.conc
                                       /\ \A n \in 1..Len(instrs) : Norms(b.anns[n]) = Norms(e.anns[n])
             /\ DOMAIN c \subseteq DOMAIN d => DOMAIN b.conc \subseteq DOMAIN e.conc
<1>1. PICK f : AnnotatedAfter(f, c, instrs)
  BY AnnotatedRun
<1>2. PICK g : AnnotatedAfter(g, d, instrs)
  BY AnnotatedRun
<1> DEFINE L == Len(instrs)
           b == annotate_block(c, instrs)
           e == annotate_block(d, instrs)
           W == {n \in 0..L : DOMAIN c = DOMAIN d => DOMAIN f[n].conc = DOMAIN g[n].conc}
           U == {n \in 0..L : DOMAIN c \subseteq DOMAIN d => DOMAIN f[n].conc \subseteq DOMAIN g[n].conc}
<1>3. L \in Nat
  BY DEF IsInstrs
<1>4. /\ f \in [0..L -> States] /\ f[0] = Start(c)
      /\ \A n \in 1..L : f[n] = annotate_instr(Start(f[n - 1].conc), instrs[n])
      /\ g \in [0..L -> States] /\ g[0] = Start(d)
      /\ \A n \in 1..L : g[n] = annotate_instr(Start(g[n - 1].conc), instrs[n])
  BY <1>1, <1>2 DEF AnnotatedAfter
<1>5. /\ b.conc = f[L].conc /\ \A n \in 1..L : b.anns[n] = f[n].anns
      /\ e.conc = g[L].conc /\ \A n \in 1..L : e.anns[n] = g[n].anns
  BY <1>1, <1>2 DEF AnnotatedAfter
<1>6. 0 \in W /\ 0 \in U
  BY <1>3, <1>4, StartIsState
<1>7. ASSUME NEW n \in 1..L
      PROVE  Alike(f[n - 1].conc, g[n - 1].conc, f[n], g[n])
  <2>1. n - 1 \in 0..L
    BY <1>3
  <2>2. f[n - 1].conc \in Concs /\ g[n - 1].conc \in Concs
    BY <1>4, <2>1 DEF States
  <2>3. f[n] = annotate_instr(Start(f[n - 1].conc), instrs[n])
        /\ g[n] = annotate_instr(Start(g[n - 1].conc), instrs[n])
    BY <1>4
  <2> QED BY <2>2, <2>3, StepFollows
<1>8. \A n \in 1..L : (n - 1 \in W => n \in W) /\ (n - 1 \in U => n \in U)
  BY <1>3, <1>7 DEF Alike
<1>9. \A n \in 0..L : n \in W
  <2> HIDE DEF W, L
  <2> QED BY <1>3, <1>6, <1>8, Upto
<1>10. \A n \in 0..L : n \in U
  <2> HIDE DEF U, L
  <2> QED BY <1>3, <1>6, <1>8, Upto
<1>11. DOMAIN c = DOMAIN d => \A n \in 1..L : Norms(f[n].anns) = Norms(g[n].anns)
  <2> SUFFICES ASSUME DOMAIN c = DOMAIN d, NEW n \in 1..L PROVE Norms(f[n].anns) = Norms(g[n].anns)
    OBVIOUS
  <2>1. n - 1 \in 0..L
    BY <1>3
  <2>2. DOMAIN f[n - 1].conc = DOMAIN g[n - 1].conc
    BY <1>9, <2>1
  <2> QED BY <1>7, <2>2 DEF Alike
<1>12. (DOMAIN c = DOMAIN d => DOMAIN b.conc = DOMAIN e.conc)
       /\ (DOMAIN c \subseteq DOMAIN d => DOMAIN b.conc \subseteq DOMAIN e.conc)
  <2>1. L \in 0..L
    BY <1>3
  <2> HIDE DEF b, e
  <2> QED BY <1>5, <1>9, <1>10, <2>1
<1>13. DOMAIN c = DOMAIN d => \A n \in 1..L : Norms(b.anns[n]) = Norms(e.anns[n])
  <2> HIDE DEF b, e
  <2> QED BY <1>5, <1>11
<1> QED BY <1>12, <1>13

-----------------------------------------------------------------------------
(* The state of both fixpoints.                                              *)

Size == Cardinality(Blocks)

ShapeTypeOK ==
  /\ fn \in Functions
  /\ phase \in {"annotate", "annotated", "iterate", "done"}
  /\ at \in 0..Size /\ (phase \in {"annotated", "done"} => at = 0)
  /\ sol \in [Blocks -> Concs \cup {None}]
  /\ anna \in [Blocks -> Seq(Seq(Annots))]
  /\ \A j \in Blocks : phase # "annotate" \/ j < at => Len(anna[j]) = Len(fn.instrs[j])

LEMMA FunctionFacts ==
  ASSUME fn \in Functions
  PROVE  /\ Size \in Nat /\ Blocks = 0..(Size - 1)
         /\ \A j \in Blocks : fn.preds[j] \subseteq Blocks /\ IsInstrs(fn.instrs[j])
<1>1. IsFunction(fn)
  BY RefannoAssumption
<1>2. Size \in Nat
  BY <1>1, FS_CardinalityType DEF IsFunction, Size, Blocks
<1>3. Blocks = 0..(Size - 1) /\ \A j \in Blocks : fn.preds[j] \subseteq Blocks
  BY <1>1 DEF IsFunction, Size, Blocks
<1>4. \A j \in Blocks : IsInstrs(fn.instrs[j])
  BY <1>1 DEF IsFunction, Blocks, IsInstrs
<1> QED BY <1>2, <1>3, <1>4

\* what is open after all of js that were reached
OpenIn(s, js) ==
  {y \in Locs \X Locs : /\ \E j \in js : s[j] # None /\ y \in DOMAIN s[j]
                       /\ \A j \in js : s[j] # None => y \in DOMAIN s[j]}

LEMMA ConcInTyped ==
  ASSUME NEW B, NEW s \in [B -> Concs \cup {None}], NEW js, js \subseteq B
  PROVE  /\ conc_of_predecessors(s, js) \in Concs
         /\ DOMAIN conc_of_predecessors(s, js) = OpenIn(s, js)
<1> DEFINE concs == {s[j] : j \in {i \in js : s[i] # None}}
           D == {y \in UNION {DOMAIN c : c \in concs} : \A c \in concs : y \in DOMAIN c}
           c0 == conc_of_predecessors(s, js)
<1>1. concs \subseteq Concs
  OBVIOUS
<1>2. \A c \in concs : DOMAIN c \subseteq Locs \X Locs
  BY <1>1, ConcFacts
<1>3. D \in SUBSET (Locs \X Locs)
  <2> HIDE DEF concs
  <2> QED BY <1>2
<1>4. c0 \in [D -> {"Read", "Write"}]
  <2> HIDE DEF concs
  <2> QED BY DEF conc_of_predecessors, concs
<1>5. c0 \in Concs /\ DOMAIN c0 = D
  <2> HIDE DEF c0, D
  <2>1. DOMAIN c0 = D
    BY <1>4
  <2> QED BY <1>3, <1>4, <2>1, ConcFacts
<1>6. D = OpenIn(s, js)
  <2> HIDE DEF c0
  <2>1. \A c : c \in concs <=> \E j \in js : s[j] # None /\ c = s[j]
    OBVIOUS
  <2>2. \A y : y \in D <=> (\E c \in concs : y \in DOMAIN c) /\ \A c \in concs : y \in DOMAIN c
    <3> HIDE DEF concs
    <3> QED OBVIOUS
  <2> HIDE DEF concs, D
  <2> QED BY <1>3, <2>1, <2>2 DEF OpenIn
<1> QED BY <1>5, <1>6

LEMMA ShapeStarts == NaInit => ShapeTypeOK
<1> SUFFICES ASSUME NaInit PROVE ShapeTypeOK
  OBVIOUS
<1>1. fn \in Functions /\ at = 0 /\ phase = "annotate"
  BY DEF NaInit, Init
<1>2. Size \in Nat /\ Blocks = 0..(Size - 1)
  BY <1>1, FunctionFacts
<1>3. sol \in [Blocks -> Concs \cup {None}] /\ anna \in [Blocks -> Seq(Seq(Annots))]
  BY DEF NaInit, Init, Blocks
<1> QED BY <1>1, <1>2, <1>3 DEF ShapeTypeOK

LEMMA AnnotateTyped ==
  ASSUME ShapeTypeOK, annot_iter_block
  PROVE  /\ ConcIn(sol, at) \in Concs /\ IsInstrs(fn.instrs[at])
         /\ LET b == annotate_block(ConcIn(sol, at), fn.instrs[at])
            IN  /\ b.conc \in Concs /\ b.anns \in Seq(Seq(Annots)) /\ Len(b.anns) = Len(fn.instrs[at])
                /\ sol' = [sol EXCEPT ![at] = b.conc] /\ anna' = [anna EXCEPT ![at] = b.anns]
<1>1. at \in Blocks /\ fn \in Functions /\ sol \in [Blocks -> Concs \cup {None}]
  BY DEF ShapeTypeOK, annot_iter_block
<1>2. fn.preds[at] \subseteq Blocks /\ IsInstrs(fn.instrs[at])
  BY <1>1, FunctionFacts
<1>3. ConcIn(sol, at) \in Concs
  BY <1>1, <1>2, ConcInTyped DEF ConcIn
<1> QED BY <1>2, <1>3, BlockTyped DEF annot_iter_block

LEMMA ShapeStep == ShapeTypeOK /\ [NaNext]_naVars => ShapeTypeOK'
<1> SUFFICES ASSUME ShapeTypeOK, [NaNext]_naVars PROVE ShapeTypeOK'
  OBVIOUS
<1>1. Size \in Nat /\ Blocks = 0..(Size - 1)
  BY FunctionFacts DEF ShapeTypeOK
<1>2. CASE annot_iter_block
  <2> DEFINE b == annotate_block(ConcIn(sol, at), fn.instrs[at])
  <2>1. /\ b.conc \in Concs /\ b.anns \in Seq(Seq(Annots)) /\ Len(b.anns) = Len(fn.instrs[at])
        /\ sol' = [sol EXCEPT ![at] = b.conc] /\ anna' = [anna EXCEPT ![at] = b.anns]
    BY <1>2, AnnotateTyped
  <2>2. fn' = fn /\ at \in Blocks /\ at' = at + 1 /\ phase' = phase /\ phase = "annotate"
    BY <1>2 DEF annot_iter_block
  <2>3. Blocks' = Blocks /\ Size' = Size
    BY <2>2 DEF Blocks, Size
  <2> HIDE DEF b
  <2>4. sol' \in [Blocks -> Concs \cup {None}] /\ anna' \in [Blocks -> Seq(Seq(Annots))]
    BY <2>1, <2>2 DEF ShapeTypeOK
  <2>5. \A j \in Blocks : j < at + 1 => Len(anna'[j]) = Len(fn.instrs[j])
    <3>1. anna'[at] = b.anns /\ \A j \in Blocks \ {at} : anna'[j] = anna[j]
      BY <2>1, <2>2 DEF ShapeTypeOK
    <3>2. \A j \in Blocks : j < at => Len(anna[j]) = Len(fn.instrs[j])
      BY <2>2 DEF ShapeTypeOK
    <3> SUFFICES ASSUME NEW j \in Blocks, j < at + 1 PROVE Len(anna'[j]) = Len(fn.instrs[j])
      OBVIOUS
    <3>3. CASE j = at
      BY <2>1, <3>1, <3>3
    <3>4. CASE j # at
      <4>1. j < at
        BY <1>1, <2>2, <3>4
      <4> QED BY <3>1, <3>2, <3>4, <4>1
    <3> QED BY <3>3, <3>4
  <2>6. at + 1 \in 0..Size
    BY <1>1, <2>2
  <2> QED BY <2>2, <2>3, <2>4, <2>5, <2>6 DEF ShapeTypeOK
<1>3. CASE annot_iter_end
  <2>1. /\ fn' = fn /\ sol' = sol /\ anna' = anna /\ at' = 0 /\ at \notin Blocks
        /\ phase = "annotate" /\ phase' \in {"annotate", "annotated"}
    BY <1>3 DEF annot_iter_end
  <2>2. Blocks' = Blocks /\ Size' = Size
    BY <2>1 DEF Blocks, Size
  <2>3. at = Size /\ \A j \in Blocks : j < at
    BY <1>1, <2>1 DEF ShapeTypeOK
  <2> QED BY <1>1, <2>1, <2>2, <2>3 DEF ShapeTypeOK
<1>4. CASE NaStart
  <2>1. fn' = fn /\ sol' = sol /\ anna' = anna /\ at' = at /\ phase = "annotated" /\ phase' = "iterate"
    BY <1>4 DEF NaStart
  <2>2. Blocks' = Blocks /\ Size' = Size
    BY <2>1 DEF Blocks, Size
  <2> QED BY <2>1, <2>2 DEF ShapeTypeOK
<1>5. CASE non_aliased_iter_block
  <2>1. /\ fn' = fn /\ sol' = sol /\ anna' = anna /\ at' = at + 1 /\ at \in Blocks
        /\ phase = "iterate" /\ phase' = "iterate"
    BY <1>5 DEF non_aliased_iter_block
  <2>2. Blocks' = Blocks /\ Size' = Size
    BY <2>1 DEF Blocks, Size
  <2>3. at + 1 \in 0..Size
    BY <1>1, <2>1
  <2> QED BY <2>1, <2>2, <2>3 DEF ShapeTypeOK
<1>6. CASE non_aliased_iter_end
  <2>1. /\ fn' = fn /\ sol' = sol /\ anna' = anna /\ at' = 0
        /\ phase = "iterate" /\ phase' \in {"iterate", "done"}
    BY <1>6 DEF non_aliased_iter_end
  <2>2. Blocks' = Blocks /\ Size' = Size
    BY <2>1 DEF Blocks, Size
  <2> QED BY <1>1, <2>1, <2>2 DEF ShapeTypeOK
<1>7. CASE UNCHANGED naVars
  BY <1>7 DEF ShapeTypeOK, naVars, vars, Blocks, Size
<1> QED BY <1>2, <1>3, <1>4, <1>5, <1>6, <1>7 DEF NaNext

-----------------------------------------------------------------------------
(* notAliased.ml: the sweeps go down to the greatest solution.               *)

\* what the block makes of the pairs S
After(S, j) == process_block(S, fn.instrs[j], anna[j]).na

LEMMA DisjointPairs ==
  ASSUME ShapeTypeOK
  PROVE  /\ all_disjoint \in SUBSET Pairs
         /\ \A j \in Blocks : NewPairsOf(anna[j]) \subseteq all_disjoint
<1>1. \A j \in Blocks : /\ anna[j] \in Seq(Seq(Annots)) /\ DOMAIN anna[j] = 1..Len(anna[j])
                        /\ \A k \in 1..Len(anna[j]) : /\ anna[j][k] \in Seq(Annots)
                                                      /\ DOMAIN anna[j][k] = 1..Len(anna[j][k])
  BY DEF ShapeTypeOK
<1> DEFINE all == UNION {UNION {ToSet(anna[j][k]) : k \in DOMAIN anna[j]} : j \in Blocks}
<1>2. \A a : a \in all <=> \E j \in Blocks : \E k \in 1..Len(anna[j]) :
                             \E l \in 1..Len(anna[j][k]) : a = anna[j][k][l]
  <2> TAKE a
  <2>1. a \in all <=> \E j \in Blocks : \E k \in DOMAIN anna[j] : \E l \in DOMAIN anna[j][k] : a = anna[j][k][l]
    BY DEF ToSet
  <2> HIDE DEF all
  <2> QED BY <1>1, <2>1
<1>3. all \subseteq Annots
  <2> HIDE DEF all
  <2> QED BY <1>1, <1>2
<1>4. all_disjoint = {Pair(a) : a \in {b \in all : b.op = "NewC"}}
  BY DEF all_disjoint
<1> HIDE DEF all
<1>5. all_disjoint \in SUBSET Pairs
  BY <1>3, <1>4, PairOf
<1>6. ASSUME NEW j \in Blocks, NEW k \in 1..Len(anna[j]), NEW l \in 1..Len(anna[j][k]),
             anna[j][k][l].op = "NewC"
      PROVE  Pair(anna[j][k][l]) \in all_disjoint
  <2>1. anna[j][k][l] \in all
    BY <1>2
  <2> QED BY <1>4, <1>6, <2>1
<1>7. \A j \in Blocks : NewPairsOf(anna[j]) \subseteq all_disjoint
  <2> TAKE j \in Blocks
  <2>1. \A k \in 1..Len(anna[j]) : NewPairs(anna[j][k]) \subseteq all_disjoint
    <3> TAKE k \in 1..Len(anna[j])
    <3> SUFFICES ASSUME NEW y \in NewPairs(anna[j][k]) PROVE y \in all_disjoint
      OBVIOUS
    <3>1. PICK l \in 1..Len(anna[j][k]) : anna[j][k][l].op = "NewC" /\ y = Pair(anna[j][k][l])
      BY DEF NewPairs
    <3> QED BY <1>6, <3>1
  <2> QED BY <2>1 DEF NewPairsOf
<1> QED BY <1>5, <1>7

\* A block keeps the pairs of a set and adds those of another.
LEMMA AfterForm ==
  ASSUME ShapeTypeOK, phase # "annotate", NEW j \in Blocks
  PROVE  \E K, G \in SUBSET Pairs :
           G \subseteq all_disjoint /\ \A S \in SUBSET Pairs : After(S, j) = (S \cap K) \cup G
<1>1. IsInstrs(fn.instrs[j])
  BY FunctionFacts DEF ShapeTypeOK
<1>2. anna[j] \in Seq(Seq(Annots)) /\ Len(anna[j]) = Len(fn.instrs[j])
  BY DEF ShapeTypeOK
<1>3. PICK K, G : IsForm(fn.instrs[j], anna[j], K, G)
  BY <1>1, <1>2, BlockForm DEF IsInstrs
<1>4. G \subseteq all_disjoint
  BY <1>3, DisjointPairs DEF IsForm
<1> QED BY <1>3, <1>4 DEF IsForm, After

LEMMA AfterFacts ==
  ASSUME ShapeTypeOK, phase # "annotate", NEW j \in Blocks, NEW S \in SUBSET Pairs
  PROVE  /\ \A R \in SUBSET S : After(R, j) \subseteq After(S, j)
         /\ After(S, j) \subseteq S \cup all_disjoint
         /\ \A x : x \in After(S, j) => x \in After(S \cap {x}, j)
<1>1. PICK K, G \in SUBSET Pairs :
        G \subseteq all_disjoint /\ \A R \in SUBSET Pairs : After(R, j) = (R \cap K) \cup G
  BY AfterForm
<1>2. After(S, j) = (S \cap K) \cup G
  BY <1>1
<1>3. \A R \in SUBSET S : After(R, j) = (R \cap K) \cup G
  BY <1>1
<1>4. \A x : After(S \cap {x}, j) = ((S \cap {x}) \cap K) \cup G
  BY <1>1
<1> QED BY <1>1, <1>2, <1>3, <1>4

\* the pairs after a block, and what the next sweep makes of them
Na(j) == nasa[j].na

NextNa(j) == After(merge_preds(nasa, j), j)

NaInv ==
  phase \in {"iterate", "done"} =>
    /\ DOMAIN nasa = Blocks /\ nasa = [j \in Blocks |-> nasa[j]]
    /\ \A j \in Blocks : Na(j) \subseteq all_disjoint
    /\ \A j \in Blocks : Na(j) \subseteq nasaOld[j].na
    /\ \A B \in SUBSET Blocks, x \in all_disjoint : Justifies(B, x) => \A j \in B : x \in Na(j)
    /\ \A j \in Blocks : NextNa(j) \subseteq Na(j)
    /\ phase = "iterate" /\ (\A j \in Blocks : nasaOld[j].na = Na(j)) =>
         \A j \in Blocks : j < at => Na(j) = NextNa(j)
    /\ phase = "done" => \A j \in Blocks : Na(j) = NextNa(j)

LEMMA MergedPairs ==
  ASSUME ShapeTypeOK, NEW s, NEW t, NEW j \in Blocks,
         \A i \in Blocks : s[i].na \subseteq t[i].na /\ t[i].na \subseteq all_disjoint
  PROVE  merge_preds(s, j) \subseteq merge_preds(t, j) /\ merge_preds(t, j) \subseteq all_disjoint
<1>1. fn.preds[j] \subseteq Blocks
  BY FunctionFacts DEF ShapeTypeOK
<1> QED BY <1>1 DEF merge_preds

LEMMA JustifiedStays ==
  ASSUME ShapeTypeOK, phase # "annotate", NaInv, phase = "iterate",
         NEW B \in SUBSET Blocks, NEW x \in all_disjoint, Justifies(B, x), NEW k \in B
  PROVE  x \in NextNa(k)
<1> DEFINE kept == fn.preds[k] # {} /\ fn.preds[k] \subseteq B /\ x \in Open(k)
           M == merge_preds(nasa, k)
<1>1. x \in After(IF kept THEN {x} ELSE {}, k)
  BY DEF Justifies, After
<1>2. \A i \in B : x \in nasa[i].na
  BY DEF NaInv, Na
<1>3. kept => x \in M
  BY <1>2 DEF merge_preds
<1>4. M \subseteq all_disjoint
  BY MergedPairs DEF NaInv, Na
<1>5. M \in SUBSET Pairs
  BY <1>4, DisjointPairs
<1>6. (IF kept THEN {x} ELSE {}) \in SUBSET M
  BY <1>3
<1> HIDE DEF M, kept
<1>7. After(IF kept THEN {x} ELSE {}, k) \subseteq After(M, k)
  BY <1>5, <1>6, AfterFacts
<1> QED BY <1>1, <1>7 DEF NextNa, M

\* fn, sol and anna are what they were
LEMMA SameAnalysis ==
  ASSUME ShapeTypeOK, UNCHANGED <<fn, sol, anna>>
  PROVE  /\ Blocks' = Blocks /\ all_disjoint' = all_disjoint
         /\ \A B, x : Justifies(B, x)' <=> Justifies(B, x)
         /\ \A j : NextNa(j)' = After(merge_preds(nasa', j), j)
<1>1. fn' = fn /\ sol' = sol /\ anna' = anna
  OBVIOUS
<1>2. Blocks' = Blocks
  BY <1>1 DEF Blocks
<1>3. all_disjoint' = all_disjoint
  BY <1>1 DEF all_disjoint, Blocks
<1>4. \A j : Open(j)' = Open(j)
  BY <1>1 DEF Open
<1>5. ASSUME NEW B, NEW x PROVE Justifies(B, x)' <=> Justifies(B, x)
  BY <1>1, <1>4 DEF Justifies
<1>6. ASSUME NEW j PROVE NextNa(j)' = After(merge_preds(nasa', j), j)
  <2>1. merge_preds(nasa, j)' = merge_preds(nasa', j)
    BY <1>1, <1>4 DEF merge_preds
  <2> QED BY <1>1, <2>1 DEF NextNa, After
<1> QED BY <1>2, <1>3, <1>5, <1>6

LEMMA NaStarted ==
  ASSUME ShapeTypeOK, NaStart
  PROVE  NaInv'
<1>1. /\ phase = "annotated" /\ at = 0 /\ phase' = "iterate" /\ at' = 0
      /\ fn' = fn /\ sol' = sol /\ anna' = anna /\ nasa' = initial_nasa /\ nasaOld' = nasa'
  BY DEF NaStart, ShapeTypeOK
<1>2. /\ Blocks' = Blocks /\ all_disjoint' = all_disjoint
      /\ \A B, x : Justifies(B, x)' <=> Justifies(B, x)
      /\ \A j : NextNa(j)' = After(merge_preds(nasa', j), j)
  BY <1>1, SameAnalysis
<1>3. /\ DOMAIN nasa' = Blocks /\ nasa' = [j \in Blocks |-> nasa'[j]]
      /\ \A j \in Blocks : nasa'[j].na = all_disjoint
  BY <1>1 DEF initial_nasa
<1>4. \A j \in Blocks : After(merge_preds(nasa', j), j) \subseteq all_disjoint
  <2> TAKE j \in Blocks
  <2> DEFINE M == merge_preds(nasa', j)
  <2>1. M \subseteq all_disjoint
    BY <1>3, MergedPairs
  <2>2. M \in SUBSET Pairs
    BY <2>1, DisjointPairs
  <2> HIDE DEF M
  <2>3. After(M, j) \subseteq M \cup all_disjoint
    BY <1>1, <2>2, AfterFacts
  <2> QED BY <2>1, <2>3 DEF M
<1>5. \A j \in Blocks : ~(j < at')
  BY <1>1, FunctionFacts DEF ShapeTypeOK
<1>6. \A j \in Blocks : Na(j)' = all_disjoint
  BY <1>3 DEF Na
<1>7. \A B \in SUBSET Blocks, x \in all_disjoint : \A j \in B : x \in Na(j)'
  BY <1>6
<1>8. \A j \in Blocks : nasaOld'[j].na = all_disjoint
  BY <1>1, <1>3
<1> QED BY <1>1, <1>2, <1>3, <1>4, <1>5, <1>6, <1>7, <1>8 DEF NaInv

LEMMA NaSweeps ==
  ASSUME ShapeTypeOK, NaInv, non_aliased_iter_block
  PROVE  NaInv'
<1>1. /\ phase = "iterate" /\ at \in Blocks /\ phase' = "iterate" /\ at' = at + 1
      /\ fn' = fn /\ sol' = sol /\ anna' = anna /\ nasaOld' = nasaOld
      /\ nasa' = [nasa EXCEPT ![at] = process_block(merge_preds(nasa, at), fn.instrs[at], anna[at])]
  BY DEF non_aliased_iter_block
<1>2. /\ Blocks' = Blocks /\ all_disjoint' = all_disjoint
      /\ \A B, x : Justifies(B, x)' <=> Justifies(B, x)
      /\ \A j : NextNa(j)' = After(merge_preds(nasa', j), j)
  BY <1>1, SameAnalysis
<1>3. /\ DOMAIN nasa = Blocks /\ nasa = [j \in Blocks |-> nasa[j]]
      /\ \A j \in Blocks : Na(j) \subseteq all_disjoint
      /\ \A j \in Blocks : Na(j) \subseteq nasaOld[j].na
      /\ \A B \in SUBSET Blocks, x \in all_disjoint : Justifies(B, x) => \A j \in B : x \in Na(j)
      /\ \A j \in Blocks : NextNa(j) \subseteq Na(j)
      /\ (\A j \in Blocks : nasaOld[j].na = Na(j)) => \A j \in Blocks : j < at => Na(j) = NextNa(j)
  BY <1>1 DEF NaInv
<1>4. /\ DOMAIN nasa' = Blocks /\ nasa' = [j \in Blocks |-> nasa'[j]]
      /\ nasa'[at].na = NextNa(at) /\ \A j \in Blocks \ {at} : nasa'[j].na = Na(j)
  <2>1. DOMAIN nasa' = Blocks /\ nasa' = [j \in Blocks |-> nasa'[j]]
    BY <1>1, <1>3
  <2>2. nasa'[at] = process_block(merge_preds(nasa, at), fn.instrs[at], anna[at])
    BY <1>1, <1>3
  <2>3. \A j \in Blocks \ {at} : nasa'[j] = nasa[j]
    BY <1>1, <1>3
  <2> QED BY <2>1, <2>2, <2>3 DEF NextNa, After, Na
<1>5. \A j \in Blocks : nasa'[j].na \subseteq Na(j)
  BY <1>1, <1>3, <1>4
<1>6. \A j \in Blocks : NextNa(j)' \subseteq NextNa(j)
  <2> TAKE j \in Blocks
  <2> DEFINE M == merge_preds(nasa, j)
             N == merge_preds(nasa', j)
  <2>1. N \subseteq M /\ M \subseteq all_disjoint
    BY <1>3, <1>5, MergedPairs DEF Na
  <2>2. M \in SUBSET Pairs /\ N \in SUBSET M
    BY <2>1, DisjointPairs
  <2> HIDE DEF M, N
  <2>3. After(N, j) \subseteq After(M, j)
    BY <1>1, <2>2, AfterFacts
  <2> QED BY <1>2, <2>3 DEF NextNa, M, N
<1>7. \A j \in Blocks : NextNa(j)' \subseteq nasa'[j].na
  BY <1>3, <1>4, <1>6
<1>8. \A B \in SUBSET Blocks, x \in all_disjoint : Justifies(B, x) => \A j \in B : x \in nasa'[j].na
  <2> TAKE B \in SUBSET Blocks, x \in all_disjoint
  <2> SUFFICES ASSUME Justifies(B, x), NEW j \in B PROVE x \in nasa'[j].na
    OBVIOUS
  <2>1. CASE j = at
    <3>1. x \in NextNa(j)
      BY <1>1, JustifiedStays
    <3> QED BY <1>4, <2>1, <3>1
  <2>2. CASE j # at
    BY <1>3, <1>4, <2>2
  <2> QED BY <2>1, <2>2
<1>9. ASSUME \A j \in Blocks : nasaOld[j].na = nasa'[j].na
      PROVE  \A j \in Blocks : j < at + 1 => nasa'[j].na = NextNa(j)'
  <2>1. \A j \in Blocks : nasa'[j].na = Na(j)
    <3> TAKE j \in Blocks
    <3>1. nasa'[j].na \subseteq Na(j) /\ Na(j) \subseteq nasaOld[j].na
      BY <1>3, <1>5
    <3>2. nasaOld[j].na = nasa'[j].na
      BY <1>9
    <3> HIDE DEF Na
    <3> QED BY <3>1, <3>2
  <2>2. \A j \in Blocks : j < at => Na(j) = NextNa(j)
    BY <1>3, <1>9, <2>1
  <2>3. \A j \in Blocks : NextNa(j)' = NextNa(j)
    <3> TAKE j \in Blocks
    <3>1. fn.preds[j] \subseteq Blocks
      BY FunctionFacts DEF ShapeTypeOK
    <3>2. merge_preds(nasa', j) = merge_preds(nasa, j)
      BY <2>1, <3>1 DEF merge_preds, Na
    <3> QED BY <1>2, <3>2 DEF NextNa
  <2>4. \A j \in Blocks : j < at + 1 => j < at \/ j = at
    BY <1>1, FunctionFacts DEF ShapeTypeOK
  <2> QED BY <1>4, <2>1, <2>2, <2>3, <2>4
<1>10. \A j \in Blocks : Na(j)' = nasa'[j].na
  BY DEF Na
<1>11. \A j \in Blocks : nasa'[j].na \subseteq all_disjoint /\ nasa'[j].na \subseteq nasaOld[j].na
  BY <1>3, <1>5
<1> QED BY <1>1, <1>2, <1>4, <1>7, <1>8, <1>9, <1>10, <1>11 DEF NaInv

LEMMA NaEnds ==
  ASSUME ShapeTypeOK, NaInv, non_aliased_iter_end
  PROVE  NaInv'
<1>1. /\ phase = "iterate" /\ at \notin Blocks /\ phase' = IF nasa = nasaOld THEN "done" ELSE "iterate"
      /\ at' = 0 /\ fn' = fn /\ sol' = sol /\ anna' = anna /\ nasaOld' = nasa /\ nasa' = nasa
  BY DEF non_aliased_iter_end
<1>2. /\ Blocks' = Blocks /\ all_disjoint' = all_disjoint
      /\ \A B, x : Justifies(B, x)' <=> Justifies(B, x)
      /\ \A j : NextNa(j)' = After(merge_preds(nasa', j), j)
  BY <1>1, SameAnalysis
<1>3. \A j : NextNa(j)' = NextNa(j) /\ Na(j)' = Na(j)
  BY <1>1, <1>2 DEF NextNa, Na
<1>4. \A j \in Blocks : j < at /\ ~(j < 0)
  BY <1>1, FunctionFacts DEF ShapeTypeOK
<1>5. phase' = "done" => \A j \in Blocks : Na(j) = NextNa(j)
  <2> SUFFICES ASSUME nasa = nasaOld PROVE \A j \in Blocks : Na(j) = NextNa(j)
    BY <1>1
  <2>1. \A j \in Blocks : nasaOld[j].na = Na(j)
    BY DEF Na
  <2> QED BY <1>1, <1>4, <2>1 DEF NaInv
<1>6. \A j \in Blocks : Na(j) \subseteq nasaOld'[j].na
  BY <1>1 DEF Na
<1>7. phase' = "iterate" => \A j \in Blocks : ~(j < at')
  BY <1>1, <1>4
<1>8. /\ DOMAIN nasa = Blocks /\ nasa = [j \in Blocks |-> nasa[j]]
      /\ \A j \in Blocks : Na(j) \subseteq all_disjoint
      /\ \A B \in SUBSET Blocks, x \in all_disjoint : Justifies(B, x) => \A j \in B : x \in Na(j)
      /\ \A j \in Blocks : NextNa(j) \subseteq Na(j)
  BY <1>1 DEF NaInv
<1> QED BY <1>1, <1>2, <1>3, <1>5, <1>6, <1>7, <1>8 DEF NaInv

LEMMA NaStep == ShapeTypeOK /\ NaInv /\ [NaNext]_naVars => NaInv'
<1> SUFFICES ASSUME ShapeTypeOK, NaInv, [NaNext]_naVars PROVE NaInv'
  OBVIOUS
<1>1. CASE annot_iter_block \/ annot_iter_end
  BY <1>1 DEF annot_iter_block, annot_iter_end, NaInv
<1>2. CASE NaStart
  BY <1>2, NaStarted
<1>3. CASE non_aliased_iter_block
  BY <1>3, NaSweeps
<1>4. CASE non_aliased_iter_end
  BY <1>4, NaEnds
<1>5. CASE UNCHANGED naVars
  <2>1. /\ phase' = phase /\ at' = at /\ fn' = fn /\ sol' = sol /\ anna' = anna
        /\ nasa' = nasa /\ nasaOld' = nasaOld
    BY <1>5 DEF naVars, vars
  <2>2. /\ Blocks' = Blocks /\ all_disjoint' = all_disjoint
        /\ \A B, x : Justifies(B, x)' <=> Justifies(B, x)
        /\ \A j : NextNa(j)' = After(merge_preds(nasa', j), j)
    BY <2>1, SameAnalysis
  <2>3. \A j : NextNa(j)' = NextNa(j) /\ Na(j)' = Na(j)
    BY <2>1, <2>2 DEF NextNa, Na
  <2> QED BY <2>1, <2>2, <2>3 DEF NaInv
<1> QED BY <1>1, <1>2, <1>3, <1>4, <1>5 DEF NaNext

LEMMA NaGreatest == ShapeTypeOK /\ NaInv => GreatestNotAliased
<1> SUFFICES ASSUME ShapeTypeOK, NaInv, phase = "done", NEW j \in Blocks
             PROVE  nasa[j].na = {x \in all_disjoint : \E B \in SUBSET Blocks : j \in B /\ Justifies(B, x)}
  BY DEF GreatestNotAliased
<1>1. /\ \A i \in Blocks : Na(i) \subseteq all_disjoint /\ Na(i) = NextNa(i)
      /\ \A B \in SUBSET Blocks, x \in all_disjoint : Justifies(B, x) => \A i \in B : x \in Na(i)
  BY DEF NaInv
<1>2. ASSUME NEW x \in Na(j) PROVE \E B \in SUBSET Blocks : j \in B /\ Justifies(B, x)
  <2> DEFINE B == {i \in Blocks : x \in Na(i)}
  <2>1. ASSUME NEW i \in B
        PROVE  LET kept == fn.preds[i] # {} /\ fn.preds[i] \subseteq B /\ x \in Open(i)
               IN  x \in After(IF kept THEN {x} ELSE {}, i)
    <3> DEFINE kept == fn.preds[i] # {} /\ fn.preds[i] \subseteq B /\ x \in Open(i)
               M == merge_preds(nasa, i)
    <3>1. fn.preds[i] \subseteq Blocks
      BY FunctionFacts DEF ShapeTypeOK
    <3>2. x \in M <=> kept
      BY <3>1 DEF merge_preds, Na
    <3>3. M \subseteq all_disjoint
      BY <1>1, MergedPairs DEF Na
    <3>4. M \in SUBSET Pairs
      BY <3>3, DisjointPairs
    <3>5. x \in After(M, i)
      BY <1>1 DEF NextNa
    <3> HIDE DEF M, kept
    <3>6. x \in After(M \cap {x}, i)
      BY <3>4, <3>5, AfterFacts
    <3>7. M \cap {x} = IF kept THEN {x} ELSE {}
      BY <3>2
    <3> QED BY <3>6, <3>7 DEF kept
  <2>2. Justifies(B, x)
    BY <2>1 DEF Justifies, After
  <2> QED BY <2>2
<1> QED BY <1>1, <1>2 DEF Na

\* notAliased.ml's sweeps, in place and from above, stop with the greatest of
\* their solutions: a pair counts after a block if, and only if, some set of
\* blocks justifies it.  Every sweep goes down, what one leaves is a bound for
\* what it would make of it, and no justified pair is ever dropped.
THEOREM NotAliasedIsGreatest == NaSpec => []GreatestNotAliased
<1>1. NaInit => ShapeTypeOK /\ NaInv
  BY ShapeStarts DEF NaInv, NaInit, Init
<1>2. ShapeTypeOK /\ NaInv /\ [NaNext]_naVars => (ShapeTypeOK /\ NaInv)'
  BY ShapeStep, NaStep
<1>3. ShapeTypeOK /\ NaInv => GreatestNotAliased
  BY NaGreatest
<1> QED BY <1>1, <1>2, <1>3, PTL DEF NaSpec

-----------------------------------------------------------------------------
(* refanno.ml: the sweeps agree on what is open.                             *)

\* A block that was not reached can be told from one that was.
NoneIsNoConc == None \notin Concs

\* what the next sweep makes of a block
NextOf(j) == annotate_block(ConcIn(sol, j), fn.instrs[j])

Stable(j) ==
  /\ DOMAIN NextOf(j).conc = DOMAIN sol[j]
  /\ Len(NextOf(j).anns) = Len(anna[j])
  /\ \A n \in 1..Len(anna[j]) : Norms(NextOf(j).anns[n]) = Norms(anna[j][n])

\* in the first sweep no block had been reached before
FirstSweep == \A j \in Blocks : old[j] = None

ConcInv ==
  /\ phase = "annotate" =>
       /\ old \in [Blocks -> Concs \cup {None}]
       /\ FirstSweep \/ \A j \in Blocks : old[j] # None
       /\ \A j \in Blocks : sol[j] = None <=> FirstSweep /\ at <= j
       /\ \A j \in Blocks : sol[j] # None => DOMAIN NextOf(j).conc \subseteq DOMAIN sol[j]
       /\ \A j \in Blocks : old[j] # None => DOMAIN sol[j] \subseteq DOMAIN old[j]
       /\ (\A j \in Blocks : old[j] # None /\ DOMAIN sol[j] = DOMAIN old[j]) =>
            \A j \in Blocks : j < at => Stable(j)
  /\ phase # "annotate" => \A j \in Blocks : Stable(j)

\* what is open before a block only shrinks
LEMMA ConcInShrinks ==
  ASSUME NEW B, NEW s \in [B -> Concs \cup {None}], NEW t \in [B -> Concs \cup {None}],
         NEW js, js \subseteq B, js = {} \/ \E i \in js : s[i] # None,
         \A i \in js : s[i] # None => t[i] # None /\ DOMAIN t[i] \subseteq DOMAIN s[i]
  PROVE  DOMAIN conc_of_predecessors(t, js) \subseteq DOMAIN conc_of_predecessors(s, js)
<1>1. OpenIn(t, js) \subseteq OpenIn(s, js)
  BY DEF OpenIn
<1>2. DOMAIN conc_of_predecessors(s, js) = OpenIn(s, js)
  BY ConcInTyped
<1>3. DOMAIN conc_of_predecessors(t, js) = OpenIn(t, js)
  BY ConcInTyped
<1> QED BY <1>1, <1>2, <1>3

LEMMA ConcStarts == NaInit => ConcInv
<1> SUFFICES ASSUME NaInit PROVE ConcInv
  OBVIOUS
<1>1. fn \in Functions /\ phase = "annotate" /\ at = 0 /\ old = sol /\ sol = [j \in Blocks |-> None]
  BY DEF NaInit, Init, Blocks
<1>2. \A j \in Blocks : 0 <= j /\ ~(j < 0)
  BY <1>1, FunctionFacts
<1>3. \A j \in Blocks : old[j] = None /\ sol[j] = None
  BY <1>1
<1>4. old \in [Blocks -> Concs \cup {None}]
  BY <1>1
<1> QED BY <1>1, <1>2, <1>3, <1>4 DEF ConcInv, FirstSweep

LEMMA NextTyped ==
  ASSUME ShapeTypeOK, NEW j \in Blocks
  PROVE  /\ ConcIn(sol, j) \in Concs /\ IsInstrs(fn.instrs[j]) /\ NextOf(j).conc \in Concs
         /\ NextOf(j).anns \in Seq(Seq(Annots)) /\ Len(NextOf(j).anns) = Len(fn.instrs[j])
<1>1. fn.preds[j] \subseteq Blocks /\ IsInstrs(fn.instrs[j])
  BY FunctionFacts DEF ShapeTypeOK
<1>2. ConcIn(sol, j) \in Concs
  BY <1>1, ConcInTyped DEF ConcIn, ShapeTypeOK
<1> QED BY <1>1, <1>2, BlockTyped DEF NextOf

LEMMA ConcSweeps ==
  ASSUME ShapeTypeOK, ConcInv, annot_iter_block, EntersFirst(Functions), NoneIsNoConc
  PROVE  ConcInv'
<1> DEFINE b == NextOf(at)
<1>1. /\ phase = "annotate" /\ phase' = "annotate" /\ at \in Blocks /\ at' = at + 1
      /\ fn' = fn /\ old' = old
      /\ sol' = [sol EXCEPT ![at] = b.conc] /\ anna' = [anna EXCEPT ![at] = b.anns]
  BY DEF annot_iter_block, NextOf
<1>2. /\ old \in [Blocks -> Concs \cup {None}]
      /\ FirstSweep \/ \A j \in Blocks : old[j] # None
      /\ \A j \in Blocks : sol[j] = None <=> FirstSweep /\ at <= j
      /\ \A j \in Blocks : sol[j] # None => DOMAIN NextOf(j).conc \subseteq DOMAIN sol[j]
      /\ \A j \in Blocks : old[j] # None => DOMAIN sol[j] \subseteq DOMAIN old[j]
      /\ (\A j \in Blocks : old[j] # None /\ DOMAIN sol[j] = DOMAIN old[j]) =>
           \A j \in Blocks : j < at => Stable(j)
  BY <1>1 DEF ConcInv
<1>3. Size \in Nat /\ Blocks = 0..(Size - 1) /\ Blocks' = Blocks
      /\ \A j \in Blocks : fn.preds[j] \subseteq Blocks /\ IsInstrs(fn.instrs[j])
  BY <1>1, FunctionFacts DEF ShapeTypeOK, Blocks
<1>4. b.conc \in Concs /\ b.anns \in Seq(Seq(Annots)) /\ Len(b.anns) = Len(fn.instrs[at]) /\ b.conc # None
  BY <1>1, NextTyped DEF NoneIsNoConc
<1>5. /\ sol \in [Blocks -> Concs \cup {None}] /\ anna \in [Blocks -> Seq(Seq(Annots))]
      /\ at \in 0..Size /\ fn \in Functions
  BY DEF ShapeTypeOK
<1> HIDE DEF b
<1>6. /\ sol' \in [Blocks -> Concs \cup {None}]
      /\ sol'[at] = b.conc /\ \A j \in Blocks \ {at} : sol'[j] = sol[j]
      /\ anna'[at] = b.anns /\ \A j \in Blocks \ {at} : anna'[j] = anna[j]
  BY <1>1, <1>4, <1>5
<1>7. FirstSweep' <=> FirstSweep
  BY <1>1, <1>3 DEF FirstSweep
<1>8. \A j \in Blocks : sol'[j] = None <=> FirstSweep /\ at + 1 <= j
  <2> TAKE j \in Blocks
  <2>1. j \in Int /\ at \in Int
    BY <1>3, <1>5
  <2>2. CASE j = at
    BY <1>4, <1>6, <2>1, <2>2
  <2>3. CASE j # at
    <3>1. sol'[j] = None <=> FirstSweep /\ at <= j
      BY <1>2, <1>6, <2>3
    <3> QED BY <2>1, <2>3, <3>1
  <2> QED BY <2>2, <2>3
<1>9. \A j \in Blocks : sol[j] # None => sol'[j] # None /\ DOMAIN sol'[j] \subseteq DOMAIN sol[j]
  BY <1>1, <1>2, <1>4, <1>6 DEF b
<1>10. \A j \in Blocks : NextOf(j)' = annotate_block(ConcIn(sol', j), fn.instrs[j])
  BY <1>1 DEF NextOf, ConcIn
\* of a block that has been swept, a predecessor has
<1>11. \A j \in Blocks : sol'[j] # None => fn.preds[j] = {} \/ \E i \in fn.preds[j] : sol[i] # None
  <2> TAKE j \in Blocks
  <2> SUFFICES ASSUME sol'[j] # None, fn.preds[j] # {} PROVE \E i \in fn.preds[j] : sol[i] # None
    OBVIOUS
  <2>1. PICK i \in fn.preds[j] : i < j
    BY <1>5 DEF EntersFirst, Blocks
  <2>2. i \in Blocks
    BY <1>3
  <2>3. FirstSweep => ~(at + 1 <= j)
    BY <1>8
  <2>4. sol[i] # None
    BY <1>2, <1>3, <1>5, <2>1, <2>2, <2>3
  <2> QED BY <2>4
<1>12. \A j \in Blocks : sol'[j] # None => DOMAIN ConcIn(sol', j) \subseteq DOMAIN ConcIn(sol, j)
  <2> TAKE j \in Blocks
  <2> SUFFICES ASSUME sol'[j] # None PROVE DOMAIN ConcIn(sol', j) \subseteq DOMAIN ConcIn(sol, j)
    OBVIOUS
  <2>1. fn.preds[j] \subseteq Blocks
    BY <1>3
  <2>2. \A i \in fn.preds[j] : sol[i] # None => sol'[i] # None /\ DOMAIN sol'[i] \subseteq DOMAIN sol[i]
    BY <1>9, <2>1
  <2>3. fn.preds[j] = {} \/ \E i \in fn.preds[j] : sol[i] # None
    BY <1>11
  <2>4. DOMAIN conc_of_predecessors(sol', fn.preds[j]) \subseteq DOMAIN conc_of_predecessors(sol, fn.preds[j])
    BY <1>5, <1>6, <2>1, <2>2, <2>3, ConcInShrinks
  <2> QED BY <1>1, <2>4 DEF ConcIn
<1>13. \A j \in Blocks : ConcIn(sol', j) \in Concs /\ ConcIn(sol, j) \in Concs
  BY <1>3, <1>5, <1>6, ConcInTyped DEF ConcIn
<1>14. \A j \in Blocks : sol'[j] # None => DOMAIN NextOf(j)'.conc \subseteq DOMAIN NextOf(j).conc
  <2> TAKE j \in Blocks
  <2> SUFFICES ASSUME sol'[j] # None PROVE DOMAIN NextOf(j)'.conc \subseteq DOMAIN NextOf(j).conc
    OBVIOUS
  <2>1. DOMAIN annotate_block(ConcIn(sol', j), fn.instrs[j]).conc
          \subseteq DOMAIN annotate_block(ConcIn(sol, j), fn.instrs[j]).conc
    BY <1>3, <1>12, <1>13, BlockFollows
  <2> QED BY <1>10, <2>1 DEF NextOf
<1>15. \A j \in Blocks : sol'[j] # None => DOMAIN NextOf(j)'.conc \subseteq DOMAIN sol'[j]
  <2> TAKE j \in Blocks
  <2>1. CASE j = at
    BY <1>6, <1>14, <2>1 DEF b
  <2>2. CASE j # at
    BY <1>2, <1>6, <1>14, <2>2
  <2> QED BY <2>1, <2>2
<1>16. \A j \in Blocks : old[j] # None => DOMAIN sol'[j] \subseteq DOMAIN old[j]
  <2> TAKE j \in Blocks
  <2> SUFFICES ASSUME old[j] # None PROVE DOMAIN sol'[j] \subseteq DOMAIN old[j]
    OBVIOUS
  <2>1. ~FirstSweep
    BY DEF FirstSweep
  <2>2. sol[j] # None
    BY <1>2, <2>1
  <2> QED BY <1>2, <1>9, <2>2
<1>17. ASSUME \A j \in Blocks : old[j] # None /\ DOMAIN sol'[j] = DOMAIN old[j],
              NEW j \in Blocks, j < at + 1
       PROVE  Stable(j)'
  <2>1. ~FirstSweep
    BY <1>1, <1>17 DEF FirstSweep
  <2>2. \A i \in Blocks : sol[i] # None /\ sol'[i] # None
    BY <1>2, <1>9, <2>1
  <2>3. \A i \in Blocks : DOMAIN sol'[i] = DOMAIN sol[i] /\ DOMAIN sol[i] = DOMAIN old[i]
    <3> TAKE i \in Blocks
    <3>1. DOMAIN sol'[i] \subseteq DOMAIN sol[i] /\ DOMAIN sol[i] \subseteq DOMAIN old[i]
      BY <1>2, <1>9, <1>17, <2>2
    <3>2. DOMAIN sol'[i] = DOMAIN old[i]
      BY <1>17
    <3> QED BY <3>1, <3>2
  <2>4. DOMAIN ConcIn(sol', j) = DOMAIN ConcIn(sol, j)
    <3>1. fn.preds[j] \subseteq Blocks
      BY <1>3
    <3>2. OpenIn(sol', fn.preds[j]) = OpenIn(sol, fn.preds[j])
      BY <2>2, <2>3, <3>1 DEF OpenIn
    <3>3. DOMAIN conc_of_predecessors(sol, fn.preds[j]) = OpenIn(sol, fn.preds[j])
      BY <1>5, <3>1, ConcInTyped
    <3>4. DOMAIN conc_of_predecessors(sol', fn.preds[j]) = OpenIn(sol', fn.preds[j])
      <4>1. sol' \in [Blocks -> Concs \cup {None}]
        BY <1>6
      <4> QED BY <3>1, <4>1, ConcInTyped
    <3>5. fn' = fn
      BY <1>1
    <3> QED BY <3>2, <3>3, <3>4, <3>5 DEF ConcIn
  <2>5. /\ DOMAIN NextOf(j)'.conc = DOMAIN NextOf(j).conc
        /\ \A n \in 1..Len(fn.instrs[j]) : Norms(NextOf(j)'.anns[n]) = Norms(NextOf(j).anns[n])
    BY <1>3, <1>10, <1>13, <2>4, BlockFollows DEF NextOf
  <2>6. Len(NextOf(j)'.anns) = Len(fn.instrs[j])
    BY <1>3, <1>10, <1>13, BlockTyped
  <2>7. CASE j = at
    <3>1. DOMAIN NextOf(j)'.conc = DOMAIN sol'[j]
      BY <1>6, <2>5, <2>7 DEF b
    <3>2. Len(anna'[j]) = Len(fn.instrs[j])
      BY <1>4, <1>6, <2>7
    <3>3. \A n \in 1..Len(fn.instrs[j]) : Norms(NextOf(j)'.anns[n]) = Norms(anna'[j][n])
      BY <1>6, <2>5, <2>7 DEF b
    <3> QED BY <2>6, <3>1, <3>2, <3>3 DEF Stable
  <2>8. CASE j # at
    <3>1. j < at
      <4>1. j \in Int /\ at \in Int
        BY <1>3, <1>5
      <4>2. j < at + 1
        BY <1>17
      <4> QED BY <4>1, <4>2, <2>8
    <3>2. Stable(j)
      BY <1>2, <1>17, <2>3, <3>1
    <3>3. sol'[j] = sol[j] /\ anna'[j] = anna[j]
      BY <1>6, <2>8
    <3>4. Len(anna[j]) = Len(fn.instrs[j])
      BY <3>1 DEF ShapeTypeOK
    <3>5. DOMAIN NextOf(j)'.conc = DOMAIN sol'[j]
      BY <2>5, <3>2, <3>3 DEF Stable
    <3>6. \A n \in 1..Len(anna'[j]) : Norms(NextOf(j)'.anns[n]) = Norms(anna'[j][n])
      BY <2>5, <3>2, <3>3, <3>4 DEF Stable
    <3> QED BY <2>6, <3>3, <3>4, <3>5, <3>6 DEF Stable
  <2> QED BY <2>7, <2>8
<1> QED BY <1>1, <1>2, <1>3, <1>7, <1>8, <1>15, <1>16, <1>17 DEF ConcInv

\* a step that leaves the solution alone leaves alone what the sweeps make of it
LEMMA StableStays ==
  ASSUME fn' = fn, sol' = sol, anna' = anna
  PROVE  Blocks' = Blocks /\ \A j : NextOf(j)' = NextOf(j) /\ (Stable(j)' <=> Stable(j))
<1>1. Blocks' = Blocks
  BY DEF Blocks
<1>2. \A j : NextOf(j)' = NextOf(j)
  BY DEF NextOf, ConcIn
<1> QED BY <1>1, <1>2 DEF Stable

LEMMA ConcEnds ==
  ASSUME ShapeTypeOK, ConcInv, annot_iter_end
  PROVE  ConcInv'
<1>1. /\ phase = "annotate" /\ at \notin Blocks /\ at' = 0 /\ old' = sol
      /\ fn' = fn /\ sol' = sol /\ anna' = anna
      /\ phase' = IF soln_diff(old, sol) THEN "annotate" ELSE "annotated"
  BY DEF annot_iter_end
<1>2. Size \in Nat /\ Blocks = 0..(Size - 1) /\ at \in 0..Size
  BY FunctionFacts DEF ShapeTypeOK
<1>3. at = Size
  BY <1>1, <1>2
<1>4. /\ old \in [Blocks -> Concs \cup {None}] /\ sol \in [Blocks -> Concs \cup {None}]
      /\ \A j \in Blocks : sol[j] = None <=> FirstSweep /\ at <= j
      /\ \A j \in Blocks : sol[j] # None => DOMAIN NextOf(j).conc \subseteq DOMAIN sol[j]
      /\ \A j \in Blocks : old[j] # None => DOMAIN sol[j] \subseteq DOMAIN old[j]
      /\ (\A j \in Blocks : old[j] # None /\ DOMAIN sol[j] = DOMAIN old[j]) =>
           \A j \in Blocks : j < at => Stable(j)
  BY <1>1 DEF ConcInv, ShapeTypeOK
<1>5. \A j \in Blocks : 0 <= j /\ j < at /\ ~(at <= j) /\ ~(j < 0)
  BY <1>2, <1>3
<1>6. \A j \in Blocks : sol[j] # None
  BY <1>4, <1>5
<1>7. Blocks' = Blocks /\ \A j : NextOf(j)' = NextOf(j) /\ (Stable(j)' <=> Stable(j))
  BY <1>1, StableStays
<1>8. CASE soln_diff(old, sol)
  <2>1. phase' = "annotate"
    BY <1>1, <1>8
  <2>2. \A j \in Blocks : sol'[j] = None <=> FirstSweep' /\ at' <= j
    BY <1>1, <1>6, <1>7 DEF FirstSweep
  <2>3. \A j \in Blocks : old'[j] # None
    BY <1>1, <1>6
  <2> QED BY <1>1, <1>4, <1>5, <1>7, <2>1, <2>2, <2>3 DEF ConcInv
<1>9. CASE ~soln_diff(old, sol)
  <2>1. phase' = "annotated"
    BY <1>1, <1>9
  <2>2. \A j \in Blocks : old[j] # None /\ conc_size(old[j]) = conc_size(sol[j])
    BY <1>6, <1>9 DEF soln_diff
  <2>3. \A j \in Blocks : DOMAIN sol[j] = DOMAIN old[j]
    <3> TAKE j \in Blocks
    <3>1. old[j] \in Concs /\ sol[j] \in Concs
      BY <1>4, <1>6, <2>2
    <3>2. DOMAIN old[j] \in SUBSET (Locs \X Locs)
      BY <3>1, ConcFacts
    <3>3. IsFiniteSet(DOMAIN old[j])
      BY <3>2, FiniteLocs
    <3>4. DOMAIN sol[j] \subseteq DOMAIN old[j]
      BY <1>4, <2>2
    <3> QED BY <2>2, <3>3, <3>4, FS_Subset DEF conc_size
  <2>4. \A j \in Blocks : Stable(j)
    BY <1>4, <1>5, <2>2, <2>3
  <2> QED BY <1>7, <2>1, <2>4 DEF ConcInv
<1> QED BY <1>8, <1>9

LEMMA ConcStep ==
  EntersFirst(Functions) /\ NoneIsNoConc => (ShapeTypeOK /\ ConcInv /\ [NaNext]_naVars => ConcInv')
<1> SUFFICES ASSUME EntersFirst(Functions), NoneIsNoConc, ShapeTypeOK, ConcInv, [NaNext]_naVars
             PROVE  ConcInv'
  OBVIOUS
<1>1. CASE annot_iter_block
  BY <1>1, ConcSweeps
<1>2. CASE annot_iter_end
  BY <1>2, ConcEnds
<1>3. CASE NaStart \/ non_aliased_iter_block \/ non_aliased_iter_end
  <2>1. /\ fn' = fn /\ sol' = sol /\ anna' = anna
        /\ phase # "annotate" /\ phase' # "annotate"
    BY <1>3 DEF NaStart, non_aliased_iter_block, non_aliased_iter_end
  <2>2. Blocks' = Blocks /\ \A j : Stable(j)' <=> Stable(j)
    BY <2>1, StableStays
  <2> QED BY <2>1, <2>2 DEF ConcInv
<1>4. CASE UNCHANGED naVars
  <2>1. /\ fn' = fn /\ sol' = sol /\ anna' = anna /\ old' = old /\ at' = at /\ phase' = phase
    BY <1>4 DEF naVars, vars
  <2>2. Blocks' = Blocks /\ \A j : NextOf(j)' = NextOf(j) /\ (Stable(j)' <=> Stable(j))
    BY <2>1, StableStays
  <2>3. FirstSweep' <=> FirstSweep
    BY <2>1, <2>2 DEF FirstSweep
  <2> QED BY <2>1, <2>2, <2>3 DEF ConcInv
<1> QED BY <1>1, <1>2, <1>3, <1>4 DEF NaNext

\* the annotations of an instruction, as a set, without what was done
LEMMA LocationsNorms ==
  ASSUME NEW anns \in Seq(Seq(Annots)), NEW k \in 1..Len(anns)
  PROVE  ToSet(Locations(anns)[k]) = Norms(anns[k])
<1>1. anns[k] \in Seq(Annots) /\ DOMAIN anns = 1..Len(anns)
  OBVIOUS
<1>2. DOMAIN anns[k] = 1..Len(anns[k])
  BY <1>1
<1>3. Locations(anns)[k] = [m \in 1..Len(anns[k]) |-> Norm(anns[k][m])]
  BY <1>1, <1>2 DEF Locations, Norm
<1> QED BY <1>3 DEF ToSet, Norms

LEMMA StableLocations == ShapeTypeOK /\ ConcInv => LocationsStable
<1> SUFFICES ASSUME ShapeTypeOK, ConcInv, phase # "annotate", NEW j \in Blocks
             PROVE  LET b == annotate_block(ConcIn(sol, j), fn.instrs[j])
                    IN  /\ DOMAIN b.conc = DOMAIN sol[j]
                        /\ Len(b.anns) = Len(anna[j])
                        /\ \A k \in DOMAIN b.anns : ToSet(Locations(b.anns)[k]) = ToSet(Locations(anna[j])[k])
  BY DEF LocationsStable
<1> DEFINE b == NextOf(j)
<1>1. /\ DOMAIN b.conc = DOMAIN sol[j] /\ Len(b.anns) = Len(anna[j])
      /\ \A n \in 1..Len(anna[j]) : Norms(b.anns[n]) = Norms(anna[j][n])
  BY DEF ConcInv, Stable
<1>2. b.anns \in Seq(Seq(Annots)) /\ anna[j] \in Seq(Seq(Annots))
  BY NextTyped DEF ShapeTypeOK
<1> HIDE DEF b
<1>3. DOMAIN b.anns = 1..Len(anna[j])
  BY <1>1, <1>2
<1>4. \A k \in DOMAIN b.anns : ToSet(Locations(b.anns)[k]) = ToSet(Locations(anna[j])[k])
  <2> TAKE k \in DOMAIN b.anns
  <2>1. k \in 1..Len(b.anns) /\ k \in 1..Len(anna[j])
    BY <1>1, <1>3
  <2>2. ToSet(Locations(b.anns)[k]) = Norms(b.anns[k])
    BY <1>2, <2>1, LocationsNorms
  <2>3. ToSet(Locations(anna[j])[k]) = Norms(anna[j][k])
    BY <1>2, <2>1, LocationsNorms
  <2> QED BY <1>1, <2>1, <2>2, <2>3
<1> QED BY <1>1, <1>4 DEF b, NextOf

\* refanno.ml's sweeps stop with locations that are stable, INVARIANT 1 of
\* refanno.mli for the locations alone, though soln_diff compares no more than
\* how many are open: from the first sweep on what is open after a block only
\* shrinks, so that what is as many is the same.  It does where every block
\* comes after one of its predecessors, which cfg_check asserts of all but the
\* first, and the first has none; else a block may be swept before any of them was
\* reached, and what is open may come and go.
THEOREM LocationsSettle ==
  ASSUME EntersFirst(Functions), NoneIsNoConc
  PROVE  NaSpec => []LocationsStable
<1>1. NaInit => ShapeTypeOK /\ ConcInv
  BY ShapeStarts, ConcStarts
<1>2. ShapeTypeOK /\ ConcInv /\ [NaNext]_naVars => (ShapeTypeOK /\ ConcInv)'
  BY ShapeStep, ConcStep
<1>3. ShapeTypeOK /\ ConcInv => LocationsStable
  BY StableLocations
<1> QED BY <1>1, <1>2, <1>3, PTL DEF NaSpec
==================================================================================
