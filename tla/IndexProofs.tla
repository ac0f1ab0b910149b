------------------------------ MODULE IndexProofs ------------------------------
(***************************************************************************)
(* For all indices and all integers.  The order the solver tests,          *)
(* is_subindex, is the inclusion of the integers described; lub is an      *)
(* upper bound in it; no operator loses an integer; and all but minus keep *)
(* the form the comments of index.ml give.                                 *)
(*                                                                         *)
(* The proofs go from division towards zero and Euclid's algorithm to the  *)
(* operators on bounds and classes, one lemma for each operator and        *)
(* promise, and from there to the computations of IndexEval.  Where a      *)
(* number is counted up, its least value is looked for instead (LeastNat). *)
(***************************************************************************)
EXTENDS IndexEval, WellFoundedInduction, TLAPS

(* Multiples, for a division that rounds towards zero.                       *)

LEMMA QuotOfMultipleNat ==
  ASSUME NEW n \in Nat \ {0}, NEW t \in Nat
  PROVE  (n * t) \div n = t
<1> DEFINE a == n * t
           q == a \div n
<1>1. a \in Nat
  OBVIOUS
<1>2. q \in Int /\ n * q <= a /\ a < n * q + n
  BY <1>1
<1>3. n * (t - q) >= 0 /\ n * (t - q) < n
  BY <1>2
<1>4. t - q < 1
  BY <1>2, <1>3
<1>5. t - q > -1
  BY <1>2, <1>3
<1> QED BY <1>2, <1>4, <1>5

LEMMA RemOfMultiple ==
  ASSUME NEW m \in Int \ {0}, NEW t \in Int
  PROVE  Rem(m * t, m) = 0
<1>1. Abs(m) \in Nat \ {0} /\ Abs(t) \in Nat
  BY DEF Abs
<1>2. Abs(m * t) = Abs(m) * Abs(t)
  BY DEF Abs
<1>3. Abs(m * t) \div Abs(m) = Abs(t)
  BY <1>1, <1>2, QuotOfMultipleNat
<1>4. Quot(m * t, m) = t
  <2>1. CASE t = 0
    BY <1>3, <2>1 DEF Quot, Abs
  <2>2. CASE t > 0
    <3>1. (m * t < 0) = (m < 0)
      BY <2>2
    <3> QED BY <1>3, <2>2, <3>1 DEF Quot, Abs
  <2>3. CASE t < 0
    <3>1. (m * t < 0) # (m < 0)
      BY <2>3
    <3> QED BY <1>3, <2>3, <3>1 DEF Quot, Abs
  <2> QED BY <2>1, <2>2, <2>3
<1> QED BY <1>4 DEF Rem

LEMMA MultipleOfRem ==
  ASSUME NEW m \in Int \ {0}, NEW a \in Int, Rem(a, m) = 0
  PROVE  \E t \in Int : a = m * t
<1>1. Quot(a, m) \in Int
  BY DEF Quot, Abs
<1>2. m * Quot(a, m) \in Int
  BY <1>1
<1>3. a - m * Quot(a, m) = 0
  BY DEF Rem
<1>4. a = m * Quot(a, m)
  BY <1>2, <1>3
<1> QED BY <1>1, <1>4

\* The remainder is congruent, whatever its sign.
LEMMA RemIsCongruent ==
  ASSUME NEW m \in Int \ {0}, NEW a \in Int
  PROVE  /\ Rem(a, m) \in Int
         /\ \E t \in Int : a - Rem(a, m) = m * t
<1>1. Quot(a, m) \in Int
  BY DEF Quot, Abs
<1>2. m * Quot(a, m) \in Int
  BY <1>1
<1>3. Rem(a, m) = a - m * Quot(a, m)
  BY DEF Rem
<1>4. a - Rem(a, m) = m * Quot(a, m) /\ Rem(a, m) \in Int
  BY <1>2, <1>3
<1> QED BY <1>1, <1>4

\* Products distribute, and scaling by a positive integer keeps the order.
LEMMA TimesAdds ==
  ASSUME NEW m \in Int, NEW t \in Int, NEW v \in Int
  PROVE  m * t + m * v = m * (t + v) /\ m * t \in Int /\ m * v \in Int
OBVIOUS

LEMMA TimesSubtracts ==
  ASSUME NEW n \in Int, NEW c \in Int, NEW x \in Int
  PROVE  n * x - x * c = x * (n - c)
OBVIOUS

LEMMA TimesIsInt ==
  ASSUME NEW a \in Int, NEW b \in Int
  PROVE  a * b \in Int /\ (a # 0 /\ b # 0 => a * b # 0)
OBVIOUS

LEMMA TimesKeepsOrder ==
  ASSUME NEW a \in Int, NEW b \in Int, NEW x \in Int, x > 0, a <= b
  PROVE  a * x <= b * x
<1>1. (b - a) * x >= 0
  OBVIOUS
<1>2. (b - a) * x = b * x - a * x
  OBVIOUS
<1>3. a * x \in Int /\ b * x \in Int
  OBVIOUS
<1> QED BY <1>1, <1>2, <1>3

\* A multiple of a multiple plus a multiple is a multiple.
LEMMA MultiplesAdd ==
  ASSUME NEW m \in Int, NEW u \in Int, NEW t \in Int, NEW v \in Int
  PROVE  (m * u) * t + m * v = m * (u * t + v)
<1>1. (m * u) * t = m * (u * t) /\ u * t \in Int
  OBVIOUS
<1> QED BY <1>1

-----------------------------------------------------------------------------
Bounds == Int \cup {None}

Classes == {Class(lb, ub, c, m) : lb, ub \in Bounds, c \in Int, m \in Int \ {0}}

Indices == {Bot} \cup {IInt(k) : k \in Int} \cup Classes

LEMMA ClassFields ==
  ASSUME NEW i \in Indices, IsClass(i)
  PROVE  i.lb \in Bounds /\ i.ub \in Bounds /\ i.c \in Int /\ i.m \in Int \ {0}
BY DEF Indices, Classes, Class, IsClass, Bot, IInt

LEMMA IntField ==
  ASSUME NEW i \in Indices, IsInt(i)
  PROVE  i.val \in Int
BY DEF Indices, Classes, Class, IsInt, Bot, IInt

LEMMA Kinds ==
  ASSUME NEW i \in Indices
  PROVE  \/ IsBot(i) /\ ~IsInt(i) /\ ~IsClass(i)
         \/ IsInt(i) /\ ~IsBot(i) /\ ~IsClass(i)
         \/ IsClass(i) /\ ~IsBot(i) /\ ~IsInt(i)
BY DEF Indices, Classes, Class, IsBot, IsInt, IsClass, Bot, IInt

\* The meaning of a class, without division.
LEMMA ClassMembers ==
  ASSUME NEW i \in Indices, IsClass(i), NEW win \in SUBSET Int, NEW k \in win
  PROVE  k \in Members(i, win) <=>
           /\ LowerLe(i.lb, k) /\ UpperLe(k, i.ub)
           /\ \E t \in Int : k - i.c = i.m * t
<1>1. i.c \in Int /\ i.m \in Int \ {0} /\ k \in Int
  BY ClassFields
<1>2. k - i.c \in Int
  BY <1>1
<1>3. ASSUME Rem(k - i.c, i.m) = 0 PROVE \E t \in Int : k - i.c = i.m * t
  BY <1>1, <1>2, <1>3, MultipleOfRem
<1>4. ASSUME NEW t \in Int, k - i.c = i.m * t PROVE Rem(k - i.c, i.m) = 0
  BY <1>1, <1>4, RemOfMultiple
<1> QED BY <1>3, <1>4, Kinds DEF Members

-----------------------------------------------------------------------------
\* is_subindex is sound: what the smaller index describes the greater one does,
\* too, negative integers and remainders included.
THEOREM SubindexSound ==
  ASSUME None \notin Int,
         NEW i \in Indices, NEW j \in Indices, NEW win \in SUBSET Int, IsSubindex(i, j)
  PROVE  Members(i, win) \subseteq Members(j, win)
<1> SUFFICES ASSUME NEW k \in Members(i, win) PROVE k \in Members(j, win)
  OBVIOUS
<1>1. k \in win /\ k \in Int /\ ~IsBot(i)
  BY Kinds DEF Members
<1>2. CASE IsInt(i) /\ IsInt(j) /\ i.val = j.val
  BY <1>2, Kinds DEF Members
<1>3. CASE IsInt(i) /\ IsClass(j) /\ Matches(i.val, j)
  <2>1. k = i.val
    BY <1>3, Kinds DEF Members
  <2>2. \E t \in Int : k - j.c = j.m * t
    BY <1>1, <1>3, <2>1, ClassFields, RemIsCongruent DEF Matches
  <2> QED BY <1>1, <1>3, <2>1, <2>2, ClassMembers DEF Matches
<1>4. CASE /\ IsClass(i) /\ IsClass(j)
           /\ LowerLe(j.lb, i.lb) /\ UpperLe(i.ub, j.ub)
           /\ Rem(i.m, j.m) = 0 /\ Rem(i.c, j.m) = j.c
  <2>1. /\ i.lb \in Bounds /\ i.ub \in Bounds /\ i.c \in Int /\ i.m \in Int \ {0}
        /\ j.lb \in Bounds /\ j.ub \in Bounds /\ j.c \in Int /\ j.m \in Int \ {0}
    BY <1>4, ClassFields
  <2>2. LowerLe(i.lb, k) /\ UpperLe(k, i.ub) /\ \E t \in Int : k - i.c = i.m * t
    BY <1>1, <1>4, ClassMembers
  <2>3. PICK t \in Int : k - i.c = i.m * t
    BY <2>2
  <2>4. PICK u \in Int : i.m = j.m * u
    BY <1>4, <2>1, MultipleOfRem
  <2>5. PICK v \in Int : i.c - j.c = j.m * v
    BY <1>4, <2>1, RemIsCongruent
  <2>6. k - j.c = j.m * (u * t + v) /\ u * t + v \in Int
    <3>1. k - i.c = (j.m * u) * t
      BY <2>3, <2>4
    <3>2. k - j.c = (k - i.c) + (i.c - j.c)
      BY <1>1, <2>1
    <3> QED BY <2>1, <2>5, <3>1, <3>2, MultiplesAdd
  <2>7. LowerLe(j.lb, k) /\ UpperLe(k, j.ub)
    BY <1>1, <1>4, <2>1, <2>2 DEF LowerLe, UpperLe, Bounds
  <2> QED BY <1>1, <1>4, <2>6, <2>7, ClassMembers
<1> QED BY <1>1, <1>2, <1>3, <1>4 DEF IsSubindex

-----------------------------------------------------------------------------
\* What lies in a class given by its parts.
LEMMA InClass ==
  ASSUME NEW lb \in Bounds, NEW ub \in Bounds, NEW c \in Int, NEW m \in Int \ {0},
         NEW n \in Int, NEW t \in Int,
         LowerLe(lb, n), UpperLe(n, ub), n - c = m * t
  PROVE  n \in Members(Class(lb, ub, c, m), Int)
<1> DEFINE i == Class(lb, ub, c, m)
<1>1. i \in Indices
  BY DEF Indices, Classes
<1>2. IsClass(i) /\ i.lb = lb /\ i.ub = ub /\ i.c = c /\ i.m = m
  BY DEF Class, IsClass
<1> QED BY <1>1, <1>2, ClassMembers

\* The members of a class and of an integer, taken apart.
LEMMA OfClass ==
  ASSUME NEW i \in Indices, IsClass(i), NEW n \in Members(i, Int)
  PROVE  /\ n \in Int /\ LowerLe(i.lb, n) /\ UpperLe(n, i.ub)
         /\ \E t \in Int : n - i.c = i.m * t
<1>1. n \in Int
  BY Kinds DEF Members
<1> QED BY <1>1, ClassMembers

LEMMA OfInt ==
  ASSUME NEW i \in Indices, IsInt(i), NEW n \in Members(i, Int)
  PROVE  n = i.val /\ n \in Int
BY Kinds DEF Members

LEMMA InInt ==
  ASSUME NEW n \in Int
  PROVE  n \in Members(IInt(n), Int)
BY DEF Members, IInt, IsBot, IsInt

LEMMA InTop ==
  ASSUME NEW n \in Int
  PROVE  n \in Members(Top, Int)
<1>1. n - 0 = 1 * n /\ 0 \in Int /\ 1 \in Int \ {0} /\ n \in Int
  OBVIOUS
<1>2. None \in Bounds /\ LowerLe(None, n) /\ UpperLe(n, None)
  BY DEF LowerLe, UpperLe, Bounds
<1>3. n \in Members(Class(None, None, 0, 1), Int)
  BY <1>1, <1>2, InClass
<1> QED BY <1>3 DEF Top

-----------------------------------------------------------------------------
\* offset, on which plus and the arithmetic of pointers rest, loses nothing: it
\* describes every sum of its integer and one described by its index.
THEOREM OffsetSound ==
  ASSUME None \notin Int, NEW i \in Indices, NEW k \in Int, NEW n \in Members(i, Int)
  PROVE  k + n \in Members(Offset(k, i), Int)
<1>1. CASE IsInt(i)
  BY <1>1, Kinds, IntField, OfInt, InInt DEF Offset
<1>2. CASE IsClass(i)
  <2>1. i.lb \in Bounds /\ i.ub \in Bounds /\ i.c \in Int /\ i.m \in Int \ {0}
    BY <1>2, ClassFields
  <2>2. n \in Int /\ LowerLe(i.lb, n) /\ UpperLe(n, i.ub) /\ \E t \in Int : n - i.c = i.m * t
    BY <1>2, OfClass
  <2>3. PICK t \in Int : n - i.c = i.m * t
    BY <2>2
  <2>4. i.c + k \in Int
    BY <2>1
  <2>5. Rem(i.c + k, i.m) \in Int /\ \E v \in Int : (i.c + k) - Rem(i.c + k, i.m) = i.m * v
    BY <2>1, <2>4, RemIsCongruent
  <2>6. PICK v \in Int : (i.c + k) - Rem(i.c + k, i.m) = i.m * v
    BY <2>5
  <2>7. (k + n) - Rem(i.c + k, i.m) = i.m * (t + v)
    <3>1. (k + n) - Rem(i.c + k, i.m) = (n - i.c) + ((i.c + k) - Rem(i.c + k, i.m))
      BY <2>1, <2>2, <2>5
    <3>2. i.m * t + i.m * v = i.m * (t + v)
      BY <2>1, TimesAdds
    <3> QED BY <2>3, <2>6, <3>1, <3>2
  <2>8. /\ BoundPlus(k, i.lb) \in Bounds /\ LowerLe(BoundPlus(k, i.lb), k + n)
        /\ BoundPlus(k, i.ub) \in Bounds /\ UpperLe(k + n, BoundPlus(k, i.ub))
    BY <2>1, <2>2 DEF BoundPlus, LowerLe, UpperLe, Bounds
  <2>9. Offset(k, i) = Class(BoundPlus(k, i.lb), BoundPlus(k, i.ub), Rem(i.c + k, i.m), i.m)
    BY <1>2, Kinds DEF Offset
  <2>10. k + n \in Int /\ t + v \in Int
    BY <2>2
  <2> QED BY <2>1, <2>5, <2>7, <2>8, <2>9, <2>10, InClass
<1>3. ~IsBot(i)
  BY Kinds DEF Members
<1> QED BY <1>1, <1>2, <1>3, Kinds

\* scale, on which mult rests, loses nothing either: a class scaled by a negative
\* integer is given up, by a positive one its period grows.
THEOREM ScaleSound ==
  ASSUME None \notin Int, NEW i \in Indices, NEW x \in Int, NEW n \in Members(i, Int)
  PROVE  n * x \in Members(Scale(x, i), Int)
<1>1. n \in Int /\ ~IsBot(i)
  BY Kinds DEF Members
<1>2. n * x \in Int
  BY <1>1
<1>3. CASE x = 0
  BY <1>1, <1>3, InInt DEF Scale
<1>4. CASE IsInt(i) /\ x # 0
  BY <1>1, <1>2, <1>4, Kinds, OfInt, InInt DEF Scale
<1>5. CASE IsClass(i) /\ x < 0
  BY <1>1, <1>2, <1>5, Kinds, InTop DEF Scale
<1>6. CASE IsClass(i) /\ x > 0
  <2>1. i.lb \in Bounds /\ i.ub \in Bounds /\ i.c \in Int /\ i.m \in Int \ {0}
    BY <1>6, ClassFields
  <2>2. LowerLe(i.lb, n) /\ UpperLe(n, i.ub) /\ \E t \in Int : n - i.c = i.m * t
    BY <1>6, OfClass
  <2>3. PICK t \in Int : n - i.c = i.m * t
    BY <2>2
  <2>4. n * x - x * i.c = (x * i.m) * t
    <3>1. n * x - x * i.c = x * (n - i.c)
      BY <1>1, <2>1, TimesSubtracts
    <3>2. x * (i.m * t) = (x * i.m) * t
      BY <2>1
    <3> QED BY <2>3, <3>1, <3>2
  <2>5. x * i.c \in Int /\ x * i.m \in Int \ {0}
    <3>1. i.c \in Int /\ i.m \in Int /\ i.m # 0 /\ x # 0
      BY <1>6, <2>1
    <3>2. x * i.c \in Int
      BY <3>1, TimesIsInt
    <3>3. x * i.m \in Int /\ x * i.m # 0
      BY <3>1, TimesIsInt
    <3> QED BY <3>2, <3>3
  <2>6. \A b \in Int : (b <= n => b * x <= n * x) /\ (n <= b => n * x <= b * x)
    BY <1>1, <1>6, TimesKeepsOrder
  <2>7. BoundTimes(i.lb, x) \in Bounds /\ LowerLe(BoundTimes(i.lb, x), n * x)
    <3>1. CASE i.lb = None
      BY <3>1 DEF BoundTimes, LowerLe, Bounds
    <3>2. CASE i.lb \in Int
      <4>1. i.lb <= n /\ i.lb * x \in Int
        BY <2>2, <3>2, TimesIsInt DEF LowerLe
      <4>2. i.lb * x <= n * x
        BY <2>6, <3>2, <4>1
      <4>3. BoundTimes(i.lb, x) = i.lb * x
        BY <3>2 DEF BoundTimes
      <4> QED BY <1>2, <4>1, <4>2, <4>3 DEF LowerLe, Bounds
    <3> QED BY <2>1, <3>1, <3>2 DEF Bounds
  <2>8. BoundTimes(i.ub, x) \in Bounds /\ UpperLe(n * x, BoundTimes(i.ub, x))
    <3>1. CASE i.ub = None
      BY <3>1 DEF BoundTimes, UpperLe, Bounds
    <3>2. CASE i.ub \in Int
      <4>1. n <= i.ub /\ i.ub * x \in Int /\ n # None
        BY <1>1, <2>2, <3>2, TimesIsInt DEF UpperLe
      <4>2. n * x <= i.ub * x
        BY <2>6, <3>2, <4>1
      <4>3. BoundTimes(i.ub, x) = i.ub * x
        BY <3>2 DEF BoundTimes
      <4> QED BY <1>2, <4>1, <4>2, <4>3 DEF UpperLe, Bounds
    <3> QED BY <2>1, <3>1, <3>2 DEF Bounds
  <2>9. Scale(x, i) = Class(BoundTimes(i.lb, x), BoundTimes(i.ub, x), x * i.c, x * i.m)
    BY <1>1, <1>6, Kinds DEF Scale
  <2> QED BY <1>2, <2>4, <2>5, <2>7, <2>8, <2>9, InClass
<1> QED BY <1>1, <1>3, <1>4, <1>5, <1>6, Kinds

-----------------------------------------------------------------------------
(* Division and Euclid's algorithm.                                          *)

Divides(d, a) == \E t \in Int : a = d * t

LEMMA DividesSum ==
  ASSUME NEW d \in Int, NEW a \in Int, NEW b \in Int, Divides(d, a), Divides(d, b)
  PROVE  Divides(d, a + b) /\ Divides(d, a - b)
<1>1. PICK t \in Int : a = d * t
  BY DEF Divides
<1>2. PICK u \in Int : b = d * u
  BY DEF Divides
<1>3. a + b = d * (t + u) /\ a - b = d * (t - u) /\ t + u \in Int /\ t - u \in Int
  BY <1>1, <1>2
<1> QED BY <1>3 DEF Divides

LEMMA DividesTimes ==
  ASSUME NEW d \in Int, NEW a \in Int, NEW k \in Int, Divides(d, a)
  PROVE  Divides(d, a * k) /\ Divides(d, k * a) /\ Divides(d, -a)
<1>1. PICK t \in Int : a = d * t
  BY DEF Divides
<1>2. a * k = d * (t * k) /\ k * a = d * (t * k) /\ -a = d * (-t) /\ t * k \in Int /\ -t \in Int
  BY <1>1
<1> QED BY <1>2 DEF Divides

LEMMA DividesItself ==
  ASSUME NEW d \in Int
  PROVE  Divides(d, d) /\ Divides(d, 0) /\ Divides(1, d) /\ (Divides(0, d) => d = 0)
<1>1. d = d * 1 /\ 0 = d * 0 /\ d = 1 * d /\ \A t \in Int : 0 * t = 0
  OBVIOUS
<1> QED BY <1>1, 0 \in Int, 1 \in Int DEF Divides

LEMMA DividesTransitive ==
  ASSUME NEW d \in Int, NEW a \in Int, NEW b \in Int, Divides(d, a), Divides(a, b)
  PROVE  Divides(d, b)
<1>1. PICK t \in Int : b = a * t
  BY DEF Divides
<1> QED BY <1>1, DividesTimes

LEMMA SmallMultiple ==
  ASSUME NEW m \in Nat \ {0}, NEW x \in Int, Divides(m, x), -m < x, x < m
  PROVE  x = 0
<1>1. PICK t \in Int : x = m * t
  BY DEF Divides
<1>2. t < 1
  BY <1>1
<1>3. t > -1
  BY <1>1
<1> QED BY <1>1, <1>2, <1>3

LEMMA RemIsZero ==
  ASSUME NEW m \in Int \ {0}, NEW a \in Int
  PROVE  Rem(a, m) = 0 <=> Divides(m, a)
BY RemOfMultiple, MultipleOfRem DEF Divides

\* The remainder has the sign of the dividend.
LEMMA RemRange ==
  ASSUME NEW m \in Int \ {0}, NEW a \in Int
  PROVE  /\ Rem(a, m) \in Int /\ Divides(m, a - Rem(a, m))
         /\ Abs(Rem(a, m)) < Abs(m) /\ (a >= 0 => Rem(a, m) >= 0)
<1> DEFINE A == Abs(a)
           M == Abs(m)
           q == A \div M
<1>1. A \in Nat /\ M \in Nat \ {0}
  BY DEF Abs
<1>2. q \in Int /\ M * q <= A /\ A < M * q + M
  BY <1>1
<1>3. Quot(a, m) = IF (a < 0) = (m < 0) THEN q ELSE -q
  BY DEF Quot
<1> HIDE DEF q
<1>4. m * Quot(a, m) = IF a < 0 THEN -(M * q) ELSE M * q
  <2>1. CASE m < 0
    <3>1. M = -m /\ m * q = -(M * q) /\ m * (-q) = M * q
      BY <1>2, <2>1 DEF Abs
    <3> QED BY <1>3, <2>1, <3>1
  <2>2. CASE ~(m < 0)
    <3>1. M = m /\ m * (-q) = -(M * q)
      BY <1>2, <2>2 DEF Abs
    <3> QED BY <1>3, <2>2, <3>1
  <2> QED BY <2>1, <2>2
<1>5. M * q \in Int
  BY <1>1, <1>2
<1>6. Rem(a, m) = IF a < 0 THEN a + M * q ELSE a - M * q
  BY <1>4, <1>5 DEF Rem
<1>7. Rem(a, m) \in Int /\ \E t \in Int : a - Rem(a, m) = m * t
  BY RemIsCongruent
<1> DEFINE mq == M * q
<1>8. mq \in Int /\ mq <= A /\ A < mq + M /\ Rem(a, m) = IF a < 0 THEN a + mq ELSE a - mq
  BY <1>2, <1>5, <1>6
<1> HIDE DEF mq
<1>9. Abs(Rem(a, m)) < M /\ (a >= 0 => Rem(a, m) >= 0)
  BY <1>1, <1>8 DEF Abs
<1> QED BY <1>7, <1>9 DEF Divides

LEMMA RemNat ==
  ASSUME NEW m \in Nat \ {0}, NEW a \in Nat
  PROVE  Rem(a, m) \in 0..(m - 1) /\ Divides(m, a - Rem(a, m))
BY RemRange DEF Abs

LEMMA RemUnique ==
  ASSUME NEW m \in Nat \ {0}, NEW a \in Nat, NEW c \in 0..(m - 1), Divides(m, a - c)
  PROVE  Rem(a, m) = c
<1> DEFINE r == Rem(a, m)
<1>1. r \in 0..(m - 1) /\ Divides(m, a - r)
  BY RemNat
<1> HIDE DEF r
<1>2. Divides(m, (a - c) - (a - r)) /\ (a - c) - (a - r) = r - c
  BY <1>1, a - c \in Int, a - r \in Int, m \in Int, DividesSum
<1>3. r - c = 0
  BY <1>1, <1>2, r - c \in Int, SmallMultiple
<1> QED BY <1>1, <1>3 DEF r

NatLess == {m \in Nat \X Nat : m[1] < m[2]}

LEMMA LeastNat ==
  ASSUME NEW T, T \subseteq Nat, T # {}
  PROVE  \E x \in T : \A y \in T : x <= y
<1>1. IsWellFoundedOn(NatLess, Nat)
  BY NatLessThanWellFounded DEF OpToRel, NatLess
<1>2. PICK x \in T : \A y \in T : ~(<<y, x>> \in NatLess)
  BY <1>1, WFMin
<1>3. ASSUME NEW y \in T PROVE x <= y
  <2>1. x \in Nat /\ y \in Nat /\ <<y, x>> \in Nat \X Nat
    OBVIOUS
  <2>2. ~(y < x)
    BY <1>2, <2>1 DEF NatLess
  <2> QED BY <2>1, <2>2
<1> QED BY <1>3

LEMMA Induct ==
  ASSUME NEW S, S \subseteq Nat, 0 \in S, \A n \in S : n + 1 \in S
  PROVE  S = Nat
<1> SUFFICES ASSUME Nat \ S # {} PROVE FALSE
  OBVIOUS
<1>1. PICK x \in Nat \ S : \A y \in Nat \ S : x <= y
  BY LeastNat
<1>2. x # 0 /\ x - 1 \in Nat /\ ~(x <= x - 1)
  OBVIOUS
<1>3. x - 1 \in S
  BY <1>1, <1>2
<1>4. (x - 1) + 1 \in S /\ (x - 1) + 1 = x
  BY <1>2, <1>3
<1> QED BY <1>4

\* Euclid's recursion, on the pairs whose second component is less than n.
Pairs(n) == {p \in Int \X Int : Abs(p[2]) < n}

Recurs(f, n) ==
  \A a, b \in Int : <<a, b>> \in Pairs(n) =>
    f[<<a, b>>] = IF b = 0 THEN a ELSE f[<<b, Rem(a, b)>>]

LEMMA RemPair ==
  ASSUME NEW n \in Nat, NEW a \in Int, NEW b \in Int, <<a, b>> \in Pairs(n + 1), b # 0
  PROVE  Rem(a, b) \in Int /\ <<b, Rem(a, b)>> \in Pairs(n)
<1>1. Rem(a, b) \in Int /\ Abs(Rem(a, b)) < Abs(b) /\ Abs(b) < n + 1
  BY RemRange DEF Pairs
<1>2. Abs(b) \in Int /\ Abs(Rem(a, b)) \in Int
  BY <1>1 DEF Abs
<1>3. Abs(Rem(a, b)) < n
  BY <1>1, <1>2
<1> QED BY <1>1, <1>3 DEF Pairs

LEMMA RecursExists ==
  ASSUME NEW n \in Nat
  PROVE  \E f \in [Pairs(n) -> Int] : Recurs(f, n)
<1> DEFINE S == {m \in Nat : \E f \in [Pairs(m) -> Int] : Recurs(f, m)}
<1>1. 0 \in S
  <2>1. Pairs(0) = {}
    BY DEF Pairs, Abs
  <2> DEFINE f == [p \in Pairs(0) |-> 0]
  <2>2. f \in [Pairs(0) -> Int] /\ Recurs(f, 0)
    BY <2>1 DEF Recurs
  <2> QED BY <2>2
<1>2. ASSUME NEW m \in S PROVE m + 1 \in S
  <2>1. m \in Nat
    OBVIOUS
  <2>2. PICK f \in [Pairs(m) -> Int] : Recurs(f, m)
    OBVIOUS
  <2> DEFINE val(p) == IF p[2] = 0 THEN p[1] ELSE f[<<p[2], Rem(p[1], p[2])>>]
             g == [p \in Pairs(m + 1) |-> val(p)]
  <2>3. ASSUME NEW p \in Pairs(m + 1) PROVE val(p) \in Int
    <3>1. p = <<p[1], p[2]>> /\ p[1] \in Int /\ p[2] \in Int
      BY DEF Pairs
    <3>2. p[2] # 0 => <<p[2], Rem(p[1], p[2])>> \in Pairs(m)
      BY <2>1, <3>1, RemPair
    <3> QED BY <2>2, <3>1, <3>2
  <2> HIDE DEF val
  <2>4. g \in [Pairs(m + 1) -> Int] /\ \A p \in Pairs(m + 1) : g[p] = val(p)
    BY <2>3
  <2> HIDE DEF g
  <2>5. \A p \in Pairs(m) : p \in Pairs(m + 1)
    BY <2>1 DEF Pairs, Abs
  <2>6. ASSUME NEW a \in Int, NEW b \in Int, <<a, b>> \in Pairs(m) PROVE g[<<a, b>>] = f[<<a, b>>]
    <3>1. g[<<a, b>>] = val(<<a, b>>)
      BY <2>4, <2>5, <2>6
    <3> QED BY <2>2, <2>6, <3>1 DEF Recurs, val
  <2>7. ASSUME NEW a \in Int, NEW b \in Int, <<a, b>> \in Pairs(m + 1)
        PROVE  g[<<a, b>>] = IF b = 0 THEN a ELSE g[<<b, Rem(a, b)>>]
    <3>1. g[<<a, b>>] = val(<<a, b>>)
      BY <2>4, <2>7
    <3>2. b # 0 => g[<<b, Rem(a, b)>>] = f[<<b, Rem(a, b)>>]
      BY <2>1, <2>6, <2>7, RemPair
    <3> QED BY <3>1, <3>2 DEF val
  <2>8. Recurs(g, m + 1)
    BY <2>7 DEF Recurs
  <2> QED BY <2>1, <2>4, <2>8
<1> HIDE DEF S
<1>3. S = Nat
  BY <1>1, <1>2, Induct DEF S
<1> QED BY <1>3 DEF S

LEMMA RecursUnique ==
  ASSUME NEW m \in Nat, NEW n \in Nat, m <= n, NEW f, Recurs(f, m), NEW g, Recurs(g, n),
         NEW a \in Int, NEW b \in Int, <<a, b>> \in Pairs(m)
  PROVE  f[<<a, b>>] = g[<<a, b>>]
<1> DEFINE S == {k \in Nat : \A x, y \in Int :
                   <<x, y>> \in Pairs(m) /\ <<x, y>> \in Pairs(k) => f[<<x, y>>] = g[<<x, y>>]}
<1>0. \A k \in Nat : k <= n => \A p \in Pairs(k) : p \in Pairs(n)
  BY DEF Pairs, Abs
<1>1. 0 \in S
  BY DEF Pairs, Abs
<1>2. ASSUME NEW k \in S PROVE k + 1 \in S
  <2> SUFFICES ASSUME NEW x \in Int, NEW y \in Int,
                      <<x, y>> \in Pairs(m), <<x, y>> \in Pairs(k + 1)
               PROVE  f[<<x, y>>] = g[<<x, y>>]
    OBVIOUS
  <2>1. k \in Nat /\ <<x, y>> \in Pairs(n)
    BY <1>0
  <2>2. CASE y = 0
    BY <2>1, <2>2 DEF Recurs
  <2>3. CASE y # 0
    <3>1. Rem(x, y) \in Int /\ <<y, Rem(x, y)>> \in Pairs(k)
      BY <2>1, <2>3, RemPair
    <3>2. <<y, Rem(x, y)>> \in Pairs(m)
      <4>1. Abs(Rem(x, y)) < Abs(y) /\ Abs(y) < m
        BY <2>3, RemRange DEF Pairs
      <4>2. Abs(Rem(x, y)) \in Int /\ Abs(y) \in Int
        BY <3>1 DEF Abs
      <4>3. Abs(Rem(x, y)) < m
        BY <4>1, <4>2
      <4> QED BY <3>1, <4>3 DEF Pairs
    <3>3. f[<<y, Rem(x, y)>>] = g[<<y, Rem(x, y)>>]
      BY <3>1, <3>2
    <3> QED BY <2>1, <2>3, <3>3 DEF Recurs
  <2> QED BY <2>2, <2>3
<1> HIDE DEF S
<1>3. S = Nat
  BY <1>1, <1>2, Induct DEF S
<1>4. m \in S
  BY <1>3
<1> QED BY <1>4 DEF S

LEMMA EuclidRecurs ==
  ASSUME NEW a \in Int, NEW b \in Int
  PROVE  Gcd(a, b) = IF b = 0 THEN a ELSE Gcd(b, Rem(a, b))
<1> DEFINE F(n) == CHOOSE f \in [Pairs(n) -> Int] : Recurs(f, n)
           level(p) == Abs(p[2]) + 1
           val(p) == F(level(p))[p]
           g == [p \in Int \X Int |-> val(p)]
           body(h) == [p \in Int \X Int |-> IF p[2] = 0 THEN p[1] ELSE h[<<p[2], Rem(p[1], p[2])>>]]
<1>1. \A n \in Nat : F(n) \in [Pairs(n) -> Int] /\ Recurs(F(n), n)
  BY RecursExists
<1> HIDE DEF F
<1>2. ASSUME NEW x \in Int, NEW y \in Int
      PROVE  val(<<x, y>>) = IF y = 0 THEN x ELSE val(<<y, Rem(x, y)>>)
  <2>1. Abs(y) \in Nat /\ level(<<x, y>>) = Abs(y) + 1 /\ <<x, y>> \in Pairs(Abs(y) + 1)
    BY DEF Abs, Pairs
  <2>2. val(<<x, y>>) = IF y = 0 THEN x ELSE F(Abs(y) + 1)[<<y, Rem(x, y)>>]
    BY <1>1, <2>1 DEF Recurs
  <2>3. CASE y # 0
    <3> DEFINE r == Rem(x, y)
    <3>1. r \in Int /\ Abs(r) < Abs(y) /\ Abs(r) \in Nat
      BY <2>3, RemRange DEF Abs
    <3> HIDE DEF r
    <3>2. <<y, r>> \in Pairs(Abs(r) + 1) /\ level(<<y, r>>) = Abs(r) + 1
      BY <3>1 DEF Pairs
    <3>3. Abs(r) + 1 \in Nat /\ Abs(y) + 1 \in Nat /\ Abs(r) + 1 <= Abs(y) + 1
      BY <2>1, <3>1
    <3>4. F(Abs(r) + 1)[<<y, r>>] = F(Abs(y) + 1)[<<y, r>>]
      BY <1>1, <3>1, <3>2, <3>3, RecursUnique
    <3> QED BY <2>2, <2>3, <3>2, <3>4 DEF r
  <2> QED BY <2>2, <2>3
<1> HIDE DEF val
<1>3. \A p \in Int \X Int : g[p] = val(p)
  OBVIOUS
<1> HIDE DEF g
<1>4. ASSUME NEW p \in Int \X Int
      PROVE  val(p) = IF p[2] = 0 THEN p[1] ELSE g[<<p[2], Rem(p[1], p[2])>>]
  <2>1. p = <<p[1], p[2]>> /\ p[1] \in Int /\ p[2] \in Int
    OBVIOUS
  <2>2. val(p) = IF p[2] = 0 THEN p[1] ELSE val(<<p[2], Rem(p[1], p[2])>>)
    BY <1>2, <2>1
  <2>3. p[2] # 0 => Rem(p[1], p[2]) \in Int
    BY <2>1, RemRange
  <2>4. p[2] # 0 => g[<<p[2], Rem(p[1], p[2])>>] = val(<<p[2], Rem(p[1], p[2])>>)
    BY <1>3, <2>1, <2>3
  <2> QED BY <2>2, <2>4
<1>5. g = body(g)
  BY <1>4 DEF g
<1>6. Euclid = CHOOSE h : h = body(h)
  BY DEF Euclid
<1> HIDE DEF body
<1>7. Euclid = body(Euclid)
  BY <1>5, <1>6
<1>8. Euclid = [p \in Int \X Int |-> IF p[2] = 0 THEN p[1] ELSE Euclid[<<p[2], Rem(p[1], p[2])>>]]
  BY <1>7 DEF body
<1> QED BY <1>8 DEF Gcd

\* What Euclid's algorithm computes: a divisor of both, and a combination of them.
GcdOK(a, b) ==
  /\ Gcd(a, b) \in Int
  /\ Divides(Gcd(a, b), a) /\ Divides(Gcd(a, b), b)
  /\ \E u, v \in Int : Gcd(a, b) = a * u + b * v
  /\ a >= 0 /\ b >= 0 => Gcd(a, b) >= 0

LEMMA GcdStep ==
  ASSUME NEW a \in Int, NEW b \in Int \ {0}, GcdOK(b, Rem(a, b))
  PROVE  GcdOK(a, b)
<1> DEFINE r == Rem(a, b)
           g == Gcd(b, r)
           q == Quot(a, b)
<1>1. /\ r \in Int /\ (a >= 0 => r >= 0)
  BY RemRange
<1>2. q \in Int /\ r = a - b * q /\ b * q \in Int
  BY DEF Quot, Abs, Rem
<1>3. Gcd(a, b) = g
  BY EuclidRecurs
<1>4. g \in Int /\ Divides(g, b) /\ Divides(g, r) /\ (b >= 0 /\ r >= 0 => g >= 0)
  BY DEF GcdOK
<1>5. PICK u, v \in Int : g = b * u + r * v
  BY DEF GcdOK
<1> HIDE DEF r, g, q
<1>6. Divides(g, a)
  <2>1. PICK x \in Int : x = b * q
    BY <1>2
  <2>2. Divides(g, x)
    BY <1>2, <1>4, <2>1, DividesTimes
  <2>3. a = r + x
    BY <1>1, <1>2, <2>1
  <2>4. Divides(g, r + x)
    BY <1>1, <1>4, <2>1, <2>2, DividesSum
  <2> QED BY <2>3, <2>4
<1>7. g = a * v + b * (u - q * v) /\ u - q * v \in Int
  <2>1. r * v = a * v - b * (q * v)
    BY <1>2
  <2>2. b * (u - q * v) = b * u - b * (q * v)
    BY <1>2
  <2>3. a * v \in Int /\ b * (q * v) \in Int /\ b * u \in Int /\ q * v \in Int
    BY <1>2
  <2> QED BY <1>5, <2>1, <2>2, <2>3
<1>8. \E x, y \in Int : g = a * x + b * y
  BY <1>7
<1> QED BY <1>1, <1>3, <1>4, <1>6, <1>8 DEF GcdOK

LEMMA GcdFacts ==
  ASSUME NEW a \in Int, NEW b \in Int
  PROVE  GcdOK(a, b)
<1> DEFINE S == {n \in Nat : \A x, y \in Int : Abs(y) < n => GcdOK(x, y)}
<1>1. 0 \in S
  BY DEF Abs
<1>2. ASSUME NEW n \in S PROVE n + 1 \in S
  <2> SUFFICES ASSUME NEW x \in Int, NEW y \in Int, Abs(y) < n + 1 PROVE GcdOK(x, y)
    OBVIOUS
  <2>1. CASE y = 0
    <3>1. Gcd(x, y) = x
      BY <2>1, EuclidRecurs
    <3>2. x = x * 1 + y * 0
      BY <2>1
    <3> QED BY <2>1, <3>1, <3>2, 0 \in Int, 1 \in Int, DividesItself DEF GcdOK
  <2>2. CASE y # 0
    <3>1. Rem(x, y) \in Int /\ Abs(Rem(x, y)) < Abs(y)
      BY <2>2, RemRange
    <3>2. Abs(Rem(x, y)) \in Int /\ Abs(y) \in Int /\ n \in Int
      BY <3>1 DEF Abs
    <3>3. Abs(Rem(x, y)) < n
      BY <3>1, <3>2
    <3>4. GcdOK(y, Rem(x, y))
      BY <3>1, <3>3
    <3> QED BY <2>2, <3>4, GcdStep
  <2> QED BY <2>1, <2>2
<1> HIDE DEF S
<1>3. S = Nat
  BY <1>1, <1>2, Induct DEF S
<1>4. Abs(b) + 1 \in S /\ Abs(b) < Abs(b) + 1
  BY <1>3 DEF Abs
<1> QED BY <1>4 DEF S

LEMMA GcdDivides ==
  ASSUME NEW a \in Int, NEW b \in Int
  PROVE  /\ Gcd(a, b) \in Int /\ Divides(Gcd(a, b), a) /\ Divides(Gcd(a, b), b)
         /\ a # 0 \/ b # 0 => Gcd(a, b) # 0
         /\ a >= 0 /\ b >= 0 => Gcd(a, b) >= 0
<1>1. GcdOK(a, b)
  BY GcdFacts
<1>2. Gcd(a, b) = 0 => a = 0 /\ b = 0
  BY <1>1, DividesItself DEF GcdOK
<1> QED BY <1>1, <1>2 DEF GcdOK

LEMMA GcdNat ==
  ASSUME NEW a \in Nat, NEW b \in Nat
  PROVE  /\ Gcd(a, b) \in Nat /\ Divides(Gcd(a, b), a) /\ Divides(Gcd(a, b), b)
         /\ a # 0 => Gcd(a, b) # 0
<1>1. a \in Int /\ b \in Int /\ a >= 0 /\ b >= 0
  OBVIOUS
<1>2. Gcd(a, b) \in Int /\ Gcd(a, b) >= 0
  BY <1>1, GcdDivides
<1> QED BY <1>1, <1>2, GcdDivides

\* Whatever both divide their least common multiple divides.
LEMMA LcmDivides ==
  ASSUME NEW a \in Nat \ {0}, NEW b \in Nat \ {0}
  PROVE  /\ Lcm(a, b) \in Nat \ {0}
         /\ Divides(a, Lcm(a, b)) /\ Divides(b, Lcm(a, b))
         /\ \A d \in Int : Divides(a, d) /\ Divides(b, d) => Divides(Lcm(a, b), d)
<1> DEFINE g == Gcd(a, b)
<1>1. g \in Nat \ {0} /\ Divides(g, a) /\ Divides(g, b)
  BY GcdDivides
<1>2. PICK s \in Int : a = g * s
  BY <1>1 DEF Divides
<1>3. PICK t \in Int : b = g * t
  BY <1>1 DEF Divides
<1>4. PICK u, v \in Int : g = a * u + b * v
  <2>1. GcdOK(a, b)
    BY GcdFacts
  <2> QED BY <2>1 DEF GcdOK
<1>5. Lcm(a, b) = Quot(Abs(a * b), g)
  BY DEF Lcm
<1> HIDE DEF g
<1>6. s > 0 /\ t > 0
  BY <1>1, <1>2, <1>3
<1>7. a * b = g * (a * t) /\ a * t \in Nat /\ a * b \in Nat /\ a * b = g * (b * s) /\ a * t = b * s
  <2>1. a * b = g * (a * t)
    BY <1>1, <1>3
  <2>2. a * b = g * (b * s)
    BY <1>1, <1>2
  <2>3. a * t \in Nat /\ b * s \in Nat /\ a * b \in Nat
    BY <1>6
  <2>4. g * (a * t - b * s) = 0
    BY <1>1, <2>1, <2>2, <2>3
  <2> QED BY <1>1, <2>1, <2>2, <2>3, <2>4
<1>8. Lcm(a, b) = a * t
  <2> DEFINE l == a * t
  <2>1. l \in Nat /\ a * b = g * l
    BY <1>7
  <2> HIDE DEF l
  <2>2. Abs(a * b) = g * l /\ g * l \in Nat /\ Abs(g * l) = g * l /\ Abs(g) = g
    BY <1>1, <1>7, <2>1 DEF Abs
  <2>3. (g * l) \div g = l
    BY <1>1, <2>1, QuotOfMultipleNat
  <2>4. Quot(g * l, g) = l
    BY <1>1, <2>2, <2>3 DEF Quot
  <2> QED BY <1>5, <2>2, <2>4 DEF l
<1>9. a * t # 0
  BY <1>6, TimesIsInt
<1>10. ASSUME NEW d \in Int, Divides(a, d), Divides(b, d) PROVE Divides(a * t, d)
  <2>1. PICK x \in Int : d = a * x
    BY <1>10 DEF Divides
  <2>2. PICK y \in Int : d = b * y
    BY <1>10 DEF Divides
  <2>3. g * d = (a * u) * d + (b * v) * d
    BY <1>4
  <2>4. (a * u) * d = (a * b) * (u * y) /\ (b * v) * d = (a * b) * (v * x)
    <3>1. (a * u) * (b * y) = (a * b) * (u * y)
      OBVIOUS
    <3>2. (b * v) * (a * x) = (a * b) * (v * x)
      OBVIOUS
    <3> QED BY <2>1, <2>2, <3>1, <3>2
  <2>5. g * d = (a * b) * (u * y + v * x) /\ u * y + v * x \in Int
    BY <2>3, <2>4
  <2> DEFINE k == u * y + v * x
             l == a * t
  <2>6. g * d = (g * l) * k /\ k \in Int /\ l \in Int
    BY <1>7, <2>5
  <2> HIDE DEF k, l
  <2>7. g * (d - l * k) = 0
    BY <1>1, <2>6
  <2>8. d - l * k = 0
    BY <1>1, <2>6, <2>7, d - l * k \in Int, TimesIsInt
  <2>9. d = l * k
    BY <2>6, <2>8
  <2> QED BY <2>6, <2>9 DEF Divides, l
<1>11. Divides(a, a * t) /\ Divides(b, a * t)
  BY <1>2, <1>3, <1>7 DEF Divides
<1> QED BY <1>7, <1>8, <1>9, <1>10, <1>11

-----------------------------------------------------------------------------
(* Bounds and classes.                                                       *)

LEMMA NewClass ==
  ASSUME NEW lb \in Bounds, NEW ub \in Bounds, NEW c \in Int, NEW m \in Int \ {0}
  PROVE  /\ Class(lb, ub, c, m) \in Indices /\ IsClass(Class(lb, ub, c, m))
         /\ Class(lb, ub, c, m).lb = lb /\ Class(lb, ub, c, m).ub = ub
         /\ Class(lb, ub, c, m).c = c /\ Class(lb, ub, c, m).m = m
BY DEF Indices, Classes, Class, IsClass

LEMMA NewInt ==
  ASSUME NEW k \in Int
  PROVE  IInt(k) \in Indices /\ IsInt(IInt(k)) /\ IInt(k).val = k
BY DEF Indices, IInt, IsInt

LEMMA NewBot == Bot \in Indices /\ IsBot(Bot)
BY DEF Indices, Bot, IsBot

LEMMA LeastAndGreatest ==
  ASSUME None \notin Int, NEW b \in Bounds, NEW d \in Bounds
  PROVE  /\ LowerMin(b, d) \in {b, d} /\ LowerLe(LowerMin(b, d), b) /\ LowerLe(LowerMin(b, d), d)
         /\ UpperMax(b, d) \in {b, d} /\ UpperLe(b, UpperMax(b, d)) /\ UpperLe(d, UpperMax(b, d))
         /\ LowerMax(b, d) \in {b, d} /\ LowerLe(b, LowerMax(b, d)) /\ LowerLe(d, LowerMax(b, d))
         /\ UpperMin(b, d) \in {b, d} /\ UpperLe(UpperMin(b, d), b) /\ UpperLe(UpperMin(b, d), d)
         /\ LowerLe(b, b) /\ UpperLe(b, b)
<1>1. LowerLe(b, d) \/ LowerLe(d, b)
  BY DEF LowerLe, Bounds
<1>2. UpperLe(b, d) \/ UpperLe(d, b)
  BY DEF UpperLe, Bounds
<1>3. LowerLe(b, b) /\ LowerLe(d, d) /\ UpperLe(b, b) /\ UpperLe(d, d)
  BY DEF LowerLe, UpperLe, Bounds
<1> QED BY <1>1, <1>2, <1>3 DEF LowerMin, UpperMax, LowerMax, UpperMin

\* The order of bounds, with a number between them.
LEMMA BetweenBounds ==
  ASSUME None \notin Int, NEW b \in Bounds, NEW d \in Bounds, NEW k \in Int
  PROVE  /\ LowerLe(b, d) /\ LowerLe(d, k) => LowerLe(b, k)
         /\ UpperLe(k, b) /\ UpperLe(b, d) => UpperLe(k, d)
         /\ LowerLe(LowerMax(b, d), k) <=> LowerLe(b, k) /\ LowerLe(d, k)
         /\ UpperLe(k, UpperMin(b, d)) <=> UpperLe(k, b) /\ UpperLe(k, d)
         /\ LowerLe(b, k) <=> (b = None \/ b <= k)
         /\ UpperLe(k, b) <=> (b = None \/ k <= b)
BY DEF LowerLe, UpperLe, LowerMax, UpperMin, Bounds

\* "lb < ub", if there are both.
Strict(i) == IsClass(i) /\ i.lb # None /\ i.ub # None => i.lb < i.ub

LEMMA StrictClass ==
  ASSUME NEW lb, NEW ub, NEW c, NEW m
  PROVE  Strict(Class(lb, ub, c, m)) <=> (lb # None /\ ub # None => lb < ub)
BY DEF Strict, Class, IsClass

LEMMA NotClass ==
  /\ \A k : Strict(IInt(k)) /\ Strict(Bot)
  /\ Strict(Top) /\ Top \in Indices /\ Strict(NonNeg) /\ NonNeg \in Indices
<1>1. \A k : ~IsClass(IInt(k)) /\ ~IsClass(Bot)
  BY DEF IInt, Bot, IsClass
<1>2. Top \in Indices /\ NonNeg \in Indices
  BY NewClass, 0 \in Int, 1 \in Int \ {0} DEF Top, NonNeg, Bounds
<1> QED BY <1>1, <1>2, StrictClass DEF Strict, Top, NonNeg

-----------------------------------------------------------------------------
(* Every operator yields an index, with its lower bound below its upper one. *)

StrictIndices == {i \in Indices : Strict(i)}

\* the bounds of what joins i and another class, or an integer
LEMMA WiderBounds ==
  ASSUME None \notin Int, NEW i \in StrictIndices, IsClass(i), NEW lb \in Bounds, NEW ub \in Bounds,
         LowerLe(lb, i.lb), UpperLe(i.ub, ub)
  PROVE  lb # None /\ ub # None => lb < ub
<1>1. i.lb \in Bounds /\ i.ub \in Bounds
  BY ClassFields DEF StrictIndices
<1> QED BY <1>1 DEF StrictIndices, Strict, LowerLe, UpperLe, Bounds

LEMMA LubTyped ==
  ASSUME None \notin Int, NEW i \in StrictIndices, NEW j \in StrictIndices
  PROVE  Lub(i, j) \in StrictIndices
<1>1. ASSUME NEW k \in Int, NEW l \in StrictIndices, IsClass(l)
      PROVE  LubIntClass(k, l) \in StrictIndices
  <2>1. l.lb \in Bounds /\ l.ub \in Bounds /\ l.c \in Int /\ l.m \in Int \ {0} /\ k \in Bounds
    BY <1>1, ClassFields DEF StrictIndices, Bounds
  <2> DEFINE m == Gcd(l.m, Abs(l.c - Rem(k, l.m)))
  <2>2. Abs(l.c - Rem(k, l.m)) \in Int
    BY <2>1, RemRange DEF Abs
  <2>3. m \in Int \ {0}
    BY <2>1, <2>2, GcdDivides
  <2> HIDE DEF m
  <2>4. Rem(l.c, m) \in Int
    BY <2>1, <2>3, RemRange
  <2>5. /\ LowerMin(l.lb, k) \in Bounds /\ LowerLe(LowerMin(l.lb, k), l.lb)
        /\ UpperMax(l.ub, k) \in Bounds /\ UpperLe(l.ub, UpperMax(l.ub, k))
    BY <2>1, LeastAndGreatest
  <2>6. LowerMin(l.lb, k) # None /\ UpperMax(l.ub, k) # None
          => LowerMin(l.lb, k) < UpperMax(l.ub, k)
    BY <1>1, <2>5, WiderBounds
  <2> QED BY <2>3, <2>4, <2>5, <2>6, NewClass, StrictClass DEF LubIntClass, m, StrictIndices
<1>2. ASSUME NEW k \in Int, NEW l \in Int, k # l PROVE LubInts(k, l) \in StrictIndices
  <2>1. Abs(k - l) \in Int \ {0} /\ k \in Bounds /\ l \in Bounds
    BY <1>2 DEF Abs, Bounds
  <2>2. Rem(k, Abs(k - l)) \in Int
    BY <2>1, RemRange
  <2> DEFINE lo == IF k < l THEN k ELSE l
             hi == IF k < l THEN l ELSE k
             d  == Abs(k - l)
             c  == Rem(k, Abs(k - l))
  <2>3. lo \in Bounds /\ hi \in Bounds /\ lo < hi
    BY <1>2, <2>1
  <2>4. LubInts(k, l) = Class(lo, hi, c, d) /\ d \in Int \ {0} /\ c \in Int
    BY <2>1, <2>2 DEF LubInts
  <2> HIDE DEF lo, hi, c, d
  <2>5. Class(lo, hi, c, d) \in Indices
    BY <2>3, <2>4, NewClass
  <2> QED BY <2>3, <2>4, <2>5, StrictClass DEF StrictIndices
<1>3. ASSUME IsClass(i), IsClass(j) PROVE LubClasses(i, j) \in StrictIndices
  <2>1. /\ i.lb \in Bounds /\ i.ub \in Bounds /\ i.c \in Int /\ i.m \in Int \ {0}
        /\ j.lb \in Bounds /\ j.ub \in Bounds /\ j.c \in Int /\ j.m \in Int \ {0}
    BY <1>3, ClassFields DEF StrictIndices
  <2> DEFINE m == Gcd(i.m, Gcd(j.m, Abs(i.c - j.c)))
  <2>2. Abs(i.c - j.c) \in Int
    BY <2>1 DEF Abs
  <2>3. Gcd(j.m, Abs(i.c - j.c)) \in Int
    BY <2>1, <2>2, GcdDivides
  <2>4. m \in Int \ {0}
    BY <2>1, <2>3, GcdDivides
  <2> HIDE DEF m
  <2>5. Rem(i.c, m) \in Int
    BY <2>1, <2>4, RemRange
  <2>6. /\ LowerMin(i.lb, j.lb) \in Bounds /\ LowerLe(LowerMin(i.lb, j.lb), i.lb)
        /\ UpperMax(i.ub, j.ub) \in Bounds /\ UpperLe(i.ub, UpperMax(i.ub, j.ub))
    BY <2>1, LeastAndGreatest
  <2>7. LowerMin(i.lb, j.lb) # None /\ UpperMax(i.ub, j.ub) # None
          => LowerMin(i.lb, j.lb) < UpperMax(i.ub, j.ub)
    BY <1>3, <2>6, WiderBounds
  <2> QED BY <2>4, <2>5, <2>6, <2>7, NewClass, StrictClass DEF LubClasses, m, StrictIndices
<1>4. CASE IsSubindex(i, j) \/ IsSubindex(j, i)
  BY <1>4 DEF Lub
<1>5. CASE ~IsSubindex(i, j) /\ ~IsSubindex(j, i)
  <2>1. ~IsBot(i) /\ ~IsBot(j)
    BY <1>5 DEF IsSubindex
  <2>2. i \in Indices /\ j \in Indices
    BY DEF StrictIndices
  <2>3. CASE IsInt(i) /\ IsInt(j)
    <3>1. i.val \in Int /\ j.val \in Int /\ i.val # j.val
      BY <1>5, <2>2, <2>3, IntField DEF IsSubindex
    <3>2. Lub(i, j) = LubInts(i.val, j.val)
      BY <1>5, <2>2, <2>3, Kinds DEF Lub
    <3> QED BY <1>2, <3>1, <3>2
  <2>4. CASE IsInt(i) /\ IsClass(j)
    <3>1. Lub(i, j) = LubIntClass(i.val, j)
      BY <1>5, <2>2, <2>4, Kinds DEF Lub
    <3> QED BY <1>1, <2>2, <2>4, <3>1, IntField
  <2>5. CASE IsClass(i) /\ IsInt(j)
    <3>1. Lub(i, j) = LubIntClass(j.val, i)
      BY <1>5, <2>2, <2>5, Kinds DEF Lub
    <3> QED BY <1>1, <2>2, <2>5, <3>1, IntField
  <2>6. CASE IsClass(i) /\ IsClass(j)
    <3>1. Lub(i, j) = LubClasses(i, j)
      BY <1>5, <2>2, <2>6, Kinds DEF Lub
    <3> QED BY <1>3, <2>6, <3>1
  <2> QED BY <2>1, <2>2, <2>3, <2>4, <2>5, <2>6, Kinds
<1> QED BY <1>4, <1>5

\* search_congruent finds the greatest, if there is one.
LEMMA GreatestCongruent ==
  ASSUME NEW m \in Int, NEW ks, ks \subseteq 0..(m - 1), ks # {}
  PROVE  LET c == CHOOSE k \in ks : \A l \in ks : l <= k
         IN  c \in ks /\ \A l \in ks : l <= c
<1> DEFINE T == {x \in Nat : \E k \in ks : x = m - k}
<1>1. T \subseteq Nat /\ T # {}
  <2>1. PICK k \in ks : TRUE
    OBVIOUS
  <2>2. m - k \in T
    BY <2>1
  <2> QED BY <2>2
<1>2. PICK x \in T : \A y \in T : x <= y
  <2> HIDE DEF T
  <2> QED BY <1>1, LeastNat
<1>3. PICK k \in ks : x = m - k
  OBVIOUS
<1>4. ASSUME NEW l \in ks PROVE l <= k
  <2>1. m - l \in T
    OBVIOUS
  <2>2. x <= m - l
    BY <1>2, <2>1
  <2> QED BY <1>3, <2>2
<1> QED BY <1>4

\* What glb makes of two classes: the parts of its definition.
GlbPeriod(i, j) == Lcm(i.m, j.m)

GlbRest(i, j) ==
  LET ks == Congruent(i, j, GlbPeriod(i, j)) IN CHOOSE k \in ks : \A l \in ks : l <= k

GlbLowest(i, j) ==
  LET lo == LowerMax(i.lb, j.lb)
  IN  IF lo = None THEN None
      ELSE GlbPeriod(i, j) * Quot(lo + GlbPeriod(i, j) - GlbRest(i, j) - 1, GlbPeriod(i, j))
           + GlbRest(i, j)

GlbHighest(i, j) ==
  LET hi == UpperMin(i.ub, j.ub)
  IN  IF hi = None THEN None
      ELSE GlbPeriod(i, j) * Quot(hi - GlbRest(i, j), GlbPeriod(i, j)) + GlbRest(i, j)

LEMMA GlbParts ==
  ASSUME NEW i, NEW j
  PROVE  GlbClasses(i, j) =
           IF Congruent(i, j, GlbPeriod(i, j)) = {} THEN Bot
           ELSE CASE /\ GlbLowest(i, j) # None /\ GlbHighest(i, j) # None
                     /\ GlbLowest(i, j) = GlbHighest(i, j) -> IInt(GlbHighest(i, j))
                  [] /\ GlbLowest(i, j) # None /\ GlbHighest(i, j) # None
                     /\ GlbHighest(i, j) < GlbLowest(i, j) -> Bot
                  [] OTHER -> Class(GlbLowest(i, j), GlbHighest(i, j), GlbRest(i, j), GlbPeriod(i, j))
BY DEF GlbClasses, GlbPeriod, GlbRest, GlbLowest, GlbHighest

LEMMA GlbPartsTyped ==
  ASSUME None \notin Int, NEW i \in Indices, NEW j \in Indices, IsClass(i), IsClass(j),
         Congruent(i, j, GlbPeriod(i, j)) # {}
  PROVE  /\ GlbPeriod(i, j) \in Nat \ {0} /\ GlbRest(i, j) \in 0..(GlbPeriod(i, j) - 1)
         /\ Rem(GlbRest(i, j), i.m) = i.c /\ Rem(GlbRest(i, j), j.m) = j.c
         /\ GlbLowest(i, j) \in Bounds /\ GlbHighest(i, j) \in Bounds
<1> DEFINE m == GlbPeriod(i, j)
           c == GlbRest(i, j)
           ks == Congruent(i, j, m)
<1>1. /\ i.lb \in Bounds /\ i.ub \in Bounds /\ i.c \in Int /\ i.m \in Int \ {0}
      /\ j.lb \in Bounds /\ j.ub \in Bounds /\ j.c \in Int /\ j.m \in Int \ {0}
  BY ClassFields
<1>2. m \in Int
  <2>1. Gcd(i.m, j.m) \in Int
    BY <1>1, GcdDivides
  <2>2. \A x, y \in Int : y # 0 => Quot(x, y) \in Int
    BY DEF Quot, Abs
  <2>3. Gcd(i.m, j.m) # 0
    BY <1>1, GcdDivides
  <2>4. i.m * j.m \in Int /\ \A x \in Int : Abs(x) \in Int
    BY <1>1, TimesIsInt DEF Abs
  <2> QED BY <1>1, <2>1, <2>2, <2>3, <2>4 DEF GlbPeriod, Lcm
<1>3. ks \subseteq 0..(m - 1) /\ \A k \in ks : Rem(k, i.m) = i.c /\ Rem(k, j.m) = j.c
  BY DEF Congruent
<1>4. c = CHOOSE k \in ks : \A l \in ks : l <= k
  BY DEF GlbRest
<1>5. ks # {}
  OBVIOUS
<1> HIDE DEF m, c, ks
<1>6. c \in ks
  BY <1>2, <1>3, <1>4, <1>5, GreatestCongruent
<1>7. m \in Nat \ {0} /\ c \in 0..(m - 1)
  BY <1>2, <1>3, <1>6
<1>8. \A x \in Int : Quot(x, m) \in Int /\ m * Quot(x, m) + c \in Int
  <2>1. \A x \in Int : Quot(x, m) \in Int
    BY <1>7 DEF Quot, Abs
  <2> QED BY <1>7, <2>1
<1>9. GlbLowest(i, j) \in Bounds
  <2>1. LowerMax(i.lb, j.lb) \in Bounds
    BY <1>1 DEF LowerMax
  <2> QED BY <1>7, <1>8, <2>1 DEF GlbLowest, Bounds, m, c
<1>10. GlbHighest(i, j) \in Bounds
  <2>1. UpperMin(i.ub, j.ub) \in Bounds
    BY <1>1 DEF UpperMin
  <2> QED BY <1>7, <1>8, <2>1 DEF GlbHighest, Bounds, m, c
<1> QED BY <1>3, <1>6, <1>7, <1>9, <1>10 DEF m, c

LEMMA GlbTyped ==
  ASSUME None \notin Int, NEW i \in StrictIndices, NEW j \in StrictIndices
  PROVE  Glb(i, j) \in StrictIndices
<1>1. i \in Indices /\ j \in Indices /\ Bot \in StrictIndices
  BY NewBot, NotClass DEF StrictIndices
<1>2. ASSUME IsClass(i), IsClass(j) PROVE GlbClasses(i, j) \in StrictIndices
  <2> DEFINE lb == GlbLowest(i, j)
             ub == GlbHighest(i, j)
  <2>1. CASE Congruent(i, j, GlbPeriod(i, j)) = {}
    BY <1>1, <2>1, GlbParts
  <2>2. CASE Congruent(i, j, GlbPeriod(i, j)) # {}
    <3>1. /\ GlbPeriod(i, j) \in Int \ {0} /\ GlbRest(i, j) \in Int
          /\ lb \in Bounds /\ ub \in Bounds
      BY <1>1, <1>2, <2>2, GlbPartsTyped
    <3>2. GlbClasses(i, j) =
            CASE lb # None /\ ub # None /\ lb = ub -> IInt(ub)
              [] lb # None /\ ub # None /\ ub < lb -> Bot
              [] OTHER -> Class(lb, ub, GlbRest(i, j), GlbPeriod(i, j))
      BY <2>2, GlbParts
    <3> HIDE DEF lb, ub
    <3>3. CASE lb # None /\ ub # None /\ lb = ub
      <4>1. GlbClasses(i, j) = IInt(ub) /\ ub \in Int
        BY <3>1, <3>2, <3>3 DEF Bounds
      <4> QED BY <4>1, NewInt, NotClass DEF StrictIndices
    <3>4. CASE lb # None /\ ub # None /\ ub < lb
      <4>1. lb \in Int /\ ub \in Int /\ lb # ub
        BY <3>1, <3>4 DEF Bounds
      <4>2. GlbClasses(i, j) = Bot
        BY <3>2, <3>4, <4>1
      <4> QED BY <1>1, <4>2
    <3>5. CASE lb # None /\ ub # None => lb < ub
      <4>1. GlbClasses(i, j) = Class(lb, ub, GlbRest(i, j), GlbPeriod(i, j))
        BY <3>1, <3>2, <3>5 DEF Bounds
      <4> QED BY <3>1, <3>5, <4>1, NewClass, StrictClass DEF StrictIndices
    <3>6. (lb # None /\ ub # None /\ lb = ub) \/ (lb # None /\ ub # None /\ ub < lb)
          \/ (lb # None /\ ub # None => lb < ub)
      BY <3>1 DEF Bounds
    <3> QED BY <3>3, <3>4, <3>5, <3>6
  <2> QED BY <2>1, <2>2
<1>3. Glb(i, j) \in {i, j, Bot} \/ (IsClass(i) /\ IsClass(j) /\ Glb(i, j) = GlbClasses(i, j))
  BY DEF Glb
<1> QED BY <1>1, <1>2, <1>3

LEMMA OffsetTyped ==
  ASSUME None \notin Int, NEW k \in Int, NEW i \in StrictIndices
  PROVE  Offset(k, i) \in StrictIndices
<1>1. i \in Indices
  BY DEF StrictIndices
<1>2. CASE IsBot(i)
  BY <1>1, <1>2, Kinds, NewBot, NotClass DEF Offset, StrictIndices
<1>3. CASE IsInt(i)
  <2>1. Offset(k, i) = IInt(k + i.val) /\ k + i.val \in Int
    BY <1>1, <1>3, Kinds, IntField DEF Offset
  <2> QED BY <2>1, NewInt, NotClass DEF StrictIndices
<1>4. CASE IsClass(i)
  <2> DEFINE lb == BoundPlus(k, i.lb)
             ub == BoundPlus(k, i.ub)
             c  == Rem(i.c + k, i.m)
  <2>1. i.lb \in Bounds /\ i.ub \in Bounds /\ i.c \in Int /\ i.m \in Int \ {0}
    BY <1>1, <1>4, ClassFields
  <2>2. i.lb # None /\ i.ub # None => i.lb < i.ub
    BY <1>4 DEF StrictIndices, Strict
  <2>3. lb \in Bounds /\ ub \in Bounds /\ (lb # None /\ ub # None => lb < ub)
    BY <2>1, <2>2 DEF BoundPlus, Bounds
  <2>4. c \in Int
    BY <2>1, i.c + k \in Int, RemRange
  <2>5. Offset(k, i) = Class(lb, ub, c, i.m)
    BY <1>1, <1>4, Kinds DEF Offset
  <2> HIDE DEF lb, ub, c
  <2>6. Class(lb, ub, c, i.m) \in Indices
    BY <2>1, <2>3, <2>4, NewClass
  <2> QED BY <2>3, <2>5, <2>6, StrictClass DEF StrictIndices
<1> QED BY <1>1, <1>2, <1>3, <1>4, Kinds

LEMMA PlusTyped ==
  ASSUME None \notin Int, NEW i \in StrictIndices, NEW j \in StrictIndices
  PROVE  Plus(i, j) \in StrictIndices
<1>1. i \in Indices /\ j \in Indices
  BY DEF StrictIndices
<1>2. CASE IsBot(i) \/ IsBot(j)
  BY <1>1, <1>2, Kinds, NewBot, NotClass DEF Plus, StrictIndices
<1>3. CASE IsInt(i) /\ ~IsBot(j)
  <2>1. Plus(i, j) = Offset(i.val, j) /\ i.val \in Int
    BY <1>1, <1>3, Kinds, IntField DEF Plus
  <2> QED BY <2>1, OffsetTyped
<1>4. CASE IsClass(i) /\ IsInt(j)
  <2>1. Plus(i, j) = Offset(j.val, i) /\ j.val \in Int
    BY <1>1, <1>4, Kinds, IntField DEF Plus
  <2> QED BY <2>1, OffsetTyped
<1>5. CASE IsClass(i) /\ IsClass(j)
  <2> DEFINE lb == BoundPlus(i.lb, j.lb)
             ub == BoundPlus(i.ub, j.ub)
             m  == Gcd(i.m, Gcd(j.m, Gcd(i.c, j.c)))
  <2>1. /\ i.lb \in Bounds /\ i.ub \in Bounds /\ i.c \in Int /\ i.m \in Int \ {0}
        /\ j.lb \in Bounds /\ j.ub \in Bounds /\ j.c \in Int /\ j.m \in Int \ {0}
    BY <1>1, <1>5, ClassFields
  <2>2. /\ i.lb # None /\ i.ub # None => i.lb < i.ub
        /\ j.lb # None /\ j.ub # None => j.lb < j.ub
    BY <1>5 DEF StrictIndices, Strict
  <2>3. lb \in Bounds /\ ub \in Bounds /\ (lb # None /\ ub # None => lb < ub)
    BY <2>1, <2>2 DEF BoundPlus, Bounds
  <2>4. Gcd(i.c, j.c) \in Int
    BY <2>1, GcdDivides
  <2>5. Gcd(j.m, Gcd(i.c, j.c)) \in Int
    BY <2>1, <2>4, GcdDivides
  <2>6. m \in Int \ {0}
    BY <2>1, <2>5, GcdDivides
  <2>7. Plus(i, j) = Class(lb, ub, 0, m)
    BY <1>1, <1>5, Kinds DEF Plus
  <2> HIDE DEF lb, ub, m
  <2>8. Class(lb, ub, 0, m) \in Indices
    BY <2>3, <2>6, 0 \in Int, NewClass
  <2> QED BY <2>3, <2>7, <2>8, StrictClass DEF StrictIndices
<1> QED BY <1>1, <1>2, <1>3, <1>4, <1>5, Kinds

LEMMA MinusTyped ==
  ASSUME None \notin Int, NEW i \in StrictIndices, NEW j \in StrictIndices
  PROVE  Minus(i, j) \in StrictIndices
<1>1. i \in Indices /\ j \in Indices /\ Top \in StrictIndices
  BY NotClass DEF StrictIndices
<1>2. CASE IsBot(i) \/ IsBot(j)
  BY <1>1, <1>2, Kinds, NewBot, NotClass DEF Minus, StrictIndices
<1>3. CASE IsInt(i) /\ IsInt(j)
  <2>1. Minus(i, j) = IInt(i.val - j.val) /\ i.val - j.val \in Int
    BY <1>1, <1>3, Kinds, IntField DEF Minus
  <2> QED BY <2>1, NewInt, NotClass DEF StrictIndices
<1>4. CASE IsClass(i) /\ IsInt(j) /\ i.lb # None /\ LowerLe(j.val, i.lb)
  <2> DEFINE lb == i.lb - j.val
             ub == BoundPlus(-j.val, i.ub)
             c  == Rem(i.c - j.val, i.m)
  <2>1. i.lb \in Int /\ i.ub \in Bounds /\ i.c \in Int /\ i.m \in Int \ {0} /\ j.val \in Int
    BY <1>1, <1>4, ClassFields, IntField DEF Bounds
  <2>2. i.lb # None /\ i.ub # None => i.lb < i.ub
    BY <1>4 DEF StrictIndices, Strict
  <2>3. lb \in Bounds /\ ub \in Bounds /\ (lb # None /\ ub # None => lb < ub)
    BY <2>1, <2>2 DEF BoundPlus, Bounds
  <2>4. c \in Int
    BY <2>1, i.c - j.val \in Int, RemRange
  <2>5. Minus(i, j) = Class(lb, ub, c, i.m)
    BY <1>1, <1>4, Kinds DEF Minus
  <2> HIDE DEF lb, ub, c
  <2>6. Class(lb, ub, c, i.m) \in Indices
    BY <2>1, <2>3, <2>4, NewClass
  <2> QED BY <2>3, <2>5, <2>6, StrictClass DEF StrictIndices
<1>5. CASE /\ ~(IsBot(i) \/ IsBot(j)) /\ ~(IsInt(i) /\ IsInt(j))
           /\ ~(IsClass(i) /\ IsInt(j) /\ i.lb # None /\ LowerLe(j.val, i.lb))
  BY <1>1, <1>5 DEF Minus
<1> QED BY <1>2, <1>3, <1>4, <1>5

LEMMA ScaleTyped ==
  ASSUME None \notin Int, NEW x \in Int, NEW i \in StrictIndices
  PROVE  Scale(x, i) \in StrictIndices
<1>1. i \in Indices /\ Top \in StrictIndices
  BY NotClass DEF StrictIndices
<1>2. CASE IsBot(i)
  BY <1>1, <1>2, Kinds, NewBot, NotClass DEF Scale, StrictIndices
<1>3. CASE ~IsBot(i) /\ x = 0
  BY <1>1, <1>3, Kinds, NewInt, NotClass DEF Scale, StrictIndices
<1>4. CASE IsInt(i) /\ x # 0
  <2>1. Scale(x, i) = IInt(i.val * x) /\ i.val * x \in Int
    BY <1>1, <1>4, Kinds, IntField DEF Scale
  <2> QED BY <2>1, NewInt, NotClass DEF StrictIndices
<1>5. CASE IsClass(i) /\ x < 0
  BY <1>1, <1>5, Kinds DEF Scale
<1>6. CASE IsClass(i) /\ x > 0
  <2> DEFINE lb == BoundTimes(i.lb, x)
             ub == BoundTimes(i.ub, x)
             c  == x * i.c
             m  == x * i.m
  <2>1. i.lb \in Bounds /\ i.ub \in Bounds /\ i.c \in Int /\ i.m \in Int \ {0}
    BY <1>1, <1>6, ClassFields
  <2>2. i.lb # None /\ i.ub # None => i.lb < i.ub
    BY <1>6 DEF StrictIndices, Strict
  <2>3. \A b \in Int : b * x \in Int
    OBVIOUS
  <2>4. ASSUME NEW b \in Int, NEW d \in Int, b < d PROVE b * x < d * x
    <3>1. (d - b) * x > 0
      BY <1>6, <2>4
    <3>2. (d - b) * x = d * x - b * x
      OBVIOUS
    <3> QED BY <2>3, <3>1, <3>2
  <2>5. lb \in Bounds /\ ub \in Bounds
    BY <2>1, <2>3 DEF BoundTimes, Bounds
  <2>6. ASSUME lb # None, ub # None PROVE lb < ub
    <3>1. i.lb # None /\ i.ub # None
      BY <2>6 DEF BoundTimes
    <3>2. i.lb \in Int /\ i.ub \in Int /\ i.lb < i.ub
      BY <2>1, <2>2, <3>1 DEF Bounds
    <3>3. i.lb * x < i.ub * x
      BY <2>4, <3>2
    <3> QED BY <3>1, <3>3 DEF BoundTimes
  <2>7. c \in Int
    BY <2>1
  <2>8. m \in Int \ {0}
    BY <1>6, <2>1, TimesIsInt
  <2>9. Scale(x, i) = Class(lb, ub, c, m)
    BY <1>1, <1>6, Kinds DEF Scale
  <2> HIDE DEF lb, ub, c, m
  <2>10. Class(lb, ub, c, m) \in Indices
    BY <2>5, <2>7, <2>8, NewClass
  <2> QED BY <2>6, <2>9, <2>10, StrictClass DEF StrictIndices
<1> QED BY <1>1, <1>2, <1>3, <1>4, <1>5, <1>6, Kinds

LEMMA MultTyped ==
  ASSUME None \notin Int, NEW i \in StrictIndices, NEW j \in StrictIndices
  PROVE  Mult(i, j) \in StrictIndices
<1>1. i \in Indices /\ j \in Indices /\ Top \in StrictIndices
  BY NotClass DEF StrictIndices
<1>2. CASE IsBot(i) \/ IsBot(j)
  BY <1>1, <1>2, Kinds, NewBot, NotClass DEF Mult, StrictIndices
<1>3. CASE IsInt(i) /\ ~IsBot(j)
  <2>1. Mult(i, j) = Scale(i.val, j) /\ i.val \in Int
    BY <1>1, <1>3, Kinds, IntField DEF Mult
  <2> QED BY <2>1, ScaleTyped
<1>4. CASE IsClass(i) /\ IsInt(j)
  <2>1. Mult(i, j) = Scale(j.val, i) /\ j.val \in Int
    BY <1>1, <1>4, Kinds, IntField DEF Mult
  <2> QED BY <2>1, ScaleTyped
<1>5. CASE IsClass(i) /\ IsClass(j)
  BY <1>1, <1>5, Kinds DEF Mult
<1> QED BY <1>1, <1>2, <1>3, <1>4, <1>5, Kinds

LEMMA DivTyped ==
  ASSUME None \notin Int, NEW i \in StrictIndices, NEW j \in StrictIndices,
         ~(IsInt(i) /\ j = IInt(0))
  PROVE  Div(i, j) \in StrictIndices
<1>1. i \in Indices /\ j \in Indices /\ Top \in StrictIndices
  BY NotClass DEF StrictIndices
<1>2. CASE IsBot(i) \/ IsBot(j)
  BY <1>1, <1>2, Kinds, NewBot, NotClass DEF Div, StrictIndices
<1>3. CASE IsInt(i) /\ IsInt(j)
  <2>1. i.val \in Int /\ j.val \in Int /\ j = IInt(j.val)
    BY <1>1, <1>3, IntField DEF Indices, Classes, Class, IInt, IsInt, Bot
  <2>2. j.val # 0
    BY <1>3, <2>1
  <2>3. Quot(i.val, j.val) \in Int
    BY <2>1, <2>2 DEF Quot, Abs
  <2>4. Div(i, j) = IInt(Quot(i.val, j.val))
    BY <1>1, <1>3, Kinds DEF Div
  <2> QED BY <2>3, <2>4, NewInt, NotClass DEF StrictIndices
<1>4. CASE ~(IsBot(i) \/ IsBot(j)) /\ ~(IsInt(i) /\ IsInt(j))
  BY <1>1, <1>4 DEF Div
<1> QED BY <1>2, <1>3, <1>4

LEMMA HalfLine ==
  ASSUME NEW k \in Int
  PROVE  MkLeq(k) \in StrictIndices /\ MkGeq(k) \in StrictIndices
<1>1. MkLeq(k) \in Indices /\ MkGeq(k) \in Indices
  BY 0 \in Int, 1 \in Int \ {0}, NewClass DEF MkLeq, MkGeq, Bounds
<1> QED BY <1>1, StrictClass DEF MkLeq, MkGeq, StrictIndices

LEMMA SideTyped ==
  ASSUME None \notin Int, NEW strict \in 0..1, NEW i \in StrictIndices
  PROVE  Below(strict, i) \in StrictIndices /\ Above(strict, i) \in StrictIndices
<1>1. i \in Indices /\ Top \in StrictIndices /\ Bot \in StrictIndices
  BY NotClass, NewBot DEF StrictIndices
<1>2. IsInt(i) => i.val \in Int
  BY <1>1, IntField
<1>3. IsClass(i) => i.lb \in Bounds /\ i.ub \in Bounds
  BY <1>1, ClassFields
<1>4. Below(strict, i) \in StrictIndices
  <2>1. CASE IsInt(i)
    <3>1. Below(strict, i) = MkLeq(i.val - strict) /\ i.val - strict \in Int
      BY <1>1, <1>2, <2>1, Kinds DEF Below
    <3> QED BY <3>1, HalfLine
  <2>2. CASE IsClass(i) /\ i.ub # None
    <3>1. Below(strict, i) = MkLeq(i.ub - strict) /\ i.ub - strict \in Int
      BY <1>1, <1>3, <2>2, Kinds DEF Below, Bounds
    <3> QED BY <3>1, HalfLine
  <2>3. CASE IsBot(i)
    BY <1>1, <2>3, Kinds DEF Below
  <2>4. CASE IsClass(i) /\ i.ub = None
    BY <1>1, <2>4, Kinds DEF Below
  <2> QED BY <1>1, <2>1, <2>2, <2>3, <2>4, Kinds
<1>5. Above(strict, i) \in StrictIndices
  <2>1. CASE IsInt(i)
    <3>1. Above(strict, i) = MkGeq(i.val + strict) /\ i.val + strict \in Int
      BY <1>1, <1>2, <2>1, Kinds DEF Above
    <3> QED BY <3>1, HalfLine
  <2>2. CASE IsClass(i) /\ i.lb # None
    <3>1. Above(strict, i) = MkGeq(i.lb + strict) /\ i.lb + strict \in Int
      BY <1>1, <1>3, <2>2, Kinds DEF Above, Bounds
    <3> QED BY <3>1, HalfLine
  <2>3. CASE IsBot(i)
    BY <1>1, <2>3, Kinds DEF Above
  <2>4. CASE IsClass(i) /\ i.lb = None
    BY <1>1, <2>4, Kinds DEF Above
  <2> QED BY <1>1, <2>1, <2>2, <2>3, <2>4, Kinds
<1> QED BY <1>4, <1>5

-----------------------------------------------------------------------------
Typed == ix \in StrictIndices

\* Whatever is computed is an index, and has its lower bound below its upper one.
THEOREM IndexTyped ==
  ASSUME None \notin Int, Args \subseteq StrictIndices
  PROVE  EvalSpec => []Typed
<1>1. EvalInit => Typed
  BY DEF EvalInit, Typed
<1>2. Typed /\ [EvalNext]_evalVars => Typed'
  <2> SUFFICES ASSUME ix \in StrictIndices, [EvalNext]_evalVars PROVE ix' \in StrictIndices
    BY DEF Typed
  <2>1. ASSUME NEW a \in Args, Join(a) \/ Meet(a) PROVE ix' \in StrictIndices
    BY <2>1, LubTyped, GlbTyped DEF Join, Meet, Apply
  <2>2. ASSUME NEW a \in Args, Add(a) \/ Subtract(a) PROVE ix' \in StrictIndices
    BY <2>2, PlusTyped, MinusTyped DEF Add, Subtract, Apply
  <2>3. ASSUME NEW a \in Args, Multiply(a) \/ Divide(a) PROVE ix' \in StrictIndices
    BY <2>3, MultTyped, DivTyped DEF Multiply, Divide, Apply
  <2>4. Cast => ix' \in StrictIndices
    <3>1. NonNeg \in StrictIndices
      BY NotClass DEF StrictIndices
    <3> QED BY <3>1 DEF Cast, Apply, Unsign
  <2>5. ASSUME NEW strict \in 0..1, Less(strict) \/ Greater(strict) PROVE ix' \in StrictIndices
    BY <2>5, SideTyped DEF Less, Greater, Apply
  <2>6. Done \/ UNCHANGED evalVars => ix' \in StrictIndices
    BY DEF Done, evalVars
  <2> QED BY <2>1, <2>2, <2>3, <2>4, <2>5, <2>6 DEF EvalNext
<1> QED BY <1>1, <1>2, PTL DEF EvalSpec

-----------------------------------------------------------------------------
(* Least upper bounds.                                                       *)

ProperIndices == {i \in StrictIndices : Proper(i)}

LEMMA ProperFields ==
  ASSUME NEW i \in ProperIndices, IsClass(i)
  PROVE  /\ i \in Indices /\ i.m \in Nat \ {0} /\ i.c \in 0..(i.m - 1)
         /\ i.lb \in Nat \cup {None} /\ i.ub \in Nat \cup {None}
         /\ i.lb \in Bounds /\ i.ub \in Bounds
         /\ i.lb # None => Divides(i.m, i.lb - i.c)
         /\ i.ub # None => Divides(i.m, i.ub - i.c)
         /\ i.lb # None /\ i.ub # None => i.lb < i.ub
<1>1. i \in Indices /\ Strict(i) /\ Proper(i)
  BY DEF ProperIndices, StrictIndices
<1>2. i.lb \in Bounds /\ i.ub \in Bounds /\ i.c \in Int /\ i.m \in Int \ {0}
  BY <1>1, ClassFields
<1>3. 0 < i.m /\ 0 <= i.c /\ i.c < i.m
  BY <1>1 DEF Proper, WellFormed
<1>4. i.lb \in Nat \cup {None} /\ i.ub \in Nat \cup {None}
  BY <1>1, <1>2 DEF Proper, Bounds
<1>5. \A b \in Int : Rem(b - i.c, i.m) = 0 => Divides(i.m, b - i.c)
  BY <1>2, RemIsZero
<1>6. (i.lb # None => Divides(i.m, i.lb - i.c)) /\ (i.ub # None => Divides(i.m, i.ub - i.c))
  BY <1>1, <1>2, <1>5 DEF Proper, WellFormed, Bounds
<1> QED BY <1>1, <1>2, <1>3, <1>4, <1>6 DEF Strict

LEMMA ProperInt ==
  ASSUME NEW i \in ProperIndices, IsInt(i)
  PROVE  i \in Indices /\ i.val \in Nat
BY IntField DEF ProperIndices, StrictIndices, Proper

LEMMA RemEqual ==
  ASSUME NEW m \in Nat \ {0}, NEW a \in Nat, NEW b \in Nat, Divides(m, a - b)
  PROVE  Rem(a, m) = Rem(b, m)
<1> DEFINE c == Rem(b, m)
<1>1. c \in 0..(m - 1) /\ Divides(m, b - c)
  BY RemNat
<1> HIDE DEF c
<1>2. Divides(m, (a - b) + (b - c)) /\ (a - b) + (b - c) = a - c
  BY <1>1, a - b \in Int, b - c \in Int, m \in Int, DividesSum
<1>3. Rem(a, m) = c
  BY <1>1, <1>2, RemUnique
<1> QED BY <1>3 DEF c

LEMMA SubindexReflexive ==
  ASSUME None \notin Int, NEW i \in ProperIndices
  PROVE  IsSubindex(i, i)
<1>1. i \in Indices
  BY DEF ProperIndices, StrictIndices
<1>2. CASE IsClass(i)
  <2>1. i.m \in Nat \ {0} /\ i.c \in 0..(i.m - 1) /\ i.lb \in Bounds /\ i.ub \in Bounds
    BY <1>2, ProperFields
  <2>2. Rem(i.m, i.m) = 0 /\ Rem(i.c, i.m) = i.c
    <3>1. Rem(i.m, i.m) = 0
      BY <2>1, RemIsZero, DividesItself
    <3>2. Divides(i.m, i.c - i.c)
      BY <2>1, DividesItself, i.c - i.c = 0
    <3> QED BY <2>1, <3>1, <3>2, RemUnique
  <2>3. LowerLe(i.lb, i.lb) /\ UpperLe(i.ub, i.ub)
    BY <2>1, LeastAndGreatest
  <2> QED BY <1>2, <2>2, <2>3 DEF IsSubindex
<1> QED BY <1>1, <1>2, Kinds DEF IsSubindex

LEMMA LubIntsUpper ==
  ASSUME None \notin Int, NEW k \in Nat, NEW l \in Nat, k # l
  PROVE  Matches(k, LubInts(k, l)) /\ Matches(l, LubInts(k, l)) /\ IsClass(LubInts(k, l))
<1> DEFINE lo == IF k < l THEN k ELSE l
           hi == IF k < l THEN l ELSE k
           d  == Abs(k - l)
           c  == Rem(k, Abs(k - l))
<1>1. d \in Nat \ {0} /\ lo \in Int /\ hi \in Int /\ lo <= k /\ lo <= l /\ k <= hi /\ l <= hi
  BY DEF Abs
<1>2. LubInts(k, l) = Class(lo, hi, c, d)
  BY DEF LubInts
<1>3. Divides(d, l - k)
  <2>1. l - k = d * 1 \/ l - k = d * (-1)
    BY DEF Abs
  <2> QED BY <2>1, 1 \in Int, -1 \in Int DEF Divides
<1>4. Rem(k, d) = c
  OBVIOUS
<1> HIDE DEF lo, hi, d, c
<1>5. Rem(l, d) = c
  BY <1>1, <1>3, <1>4, RemEqual
<1>6. /\ IsClass(Class(lo, hi, c, d))
      /\ Class(lo, hi, c, d).lb = lo /\ Class(lo, hi, c, d).ub = hi
      /\ Class(lo, hi, c, d).c = c /\ Class(lo, hi, c, d).m = d
  BY DEF Class, IsClass
<1>7. LowerLe(lo, k) /\ LowerLe(lo, l) /\ UpperLe(k, hi) /\ UpperLe(l, hi)
  BY <1>1 DEF LowerLe, UpperLe
<1> QED BY <1>2, <1>4, <1>5, <1>6, <1>7 DEF Matches

LEMMA LubIntClassUpper ==
  ASSUME None \notin Int, NEW k \in Nat, NEW i \in ProperIndices, IsClass(i)
  PROVE  /\ Matches(k, LubIntClass(k, i)) /\ IsClass(LubIntClass(k, i))
         /\ IsSubindex(i, LubIntClass(k, i))
<1> DEFINE r  == Rem(k, i.m)
           m  == Gcd(i.m, Abs(i.c - r))
           lb == LowerMin(i.lb, k)
           ub == UpperMax(i.ub, k)
           c  == Rem(i.c, m)
<1>1. i.m \in Nat \ {0} /\ i.c \in Nat /\ i.lb \in Bounds /\ i.ub \in Bounds /\ k \in Bounds
  BY ProperFields DEF Bounds
<1>2. r \in Nat /\ Divides(i.m, k - r)
  <2>1. r \in 0..(i.m - 1) /\ Divides(i.m, k - r)
    BY <1>1, RemNat
  <2> QED BY <1>1, <2>1
<1>3. LubIntClass(k, i) = Class(lb, ub, c, m) /\ Rem(i.c, m) = c
  BY DEF LubIntClass
<1>4. /\ LowerLe(lb, i.lb) /\ LowerLe(lb, k) /\ UpperLe(i.ub, ub) /\ UpperLe(k, ub)
  BY <1>1, LeastAndGreatest
<1> HIDE DEF r, lb, ub, c
<1>5. Abs(i.c - r) \in Nat /\ (Abs(i.c - r) = i.c - r \/ Abs(i.c - r) = -(i.c - r))
  BY <1>1, <1>2 DEF Abs
<1>6. m \in Nat \ {0} /\ Divides(m, i.m) /\ Divides(m, Abs(i.c - r))
  BY <1>1, <1>5, GcdNat
<1> HIDE DEF m
<1>7. Divides(m, i.c - r)
  <2>1. i.c - r = Abs(i.c - r) \/ i.c - r = -Abs(i.c - r)
    BY <1>1, <1>2, <1>5
  <2> QED BY <1>5, <1>6, <2>1, 1 \in Int, DividesTimes
<1>8. Divides(m, k - r)
  BY <1>1, <1>2, <1>6, k - r \in Int, DividesTransitive
<1>9. Divides(m, (k - r) - (i.c - r)) /\ (k - r) - (i.c - r) = k - i.c
  <2>1. k - r \in Int /\ i.c - r \in Int /\ m \in Int /\ (k - r) - (i.c - r) = k - i.c
    BY <1>1, <1>2, <1>6
  <2> QED BY <1>7, <1>8, <2>1, DividesSum
<1>10. Rem(k, m) = c
  BY <1>1, <1>3, <1>6, <1>9, RemEqual
<1>11. Rem(i.m, m) = 0
  BY <1>1, <1>6, RemIsZero
<1>12. /\ IsClass(Class(lb, ub, c, m))
       /\ Class(lb, ub, c, m).lb = lb /\ Class(lb, ub, c, m).ub = ub
       /\ Class(lb, ub, c, m).c = c /\ Class(lb, ub, c, m).m = m
  BY DEF Class, IsClass
<1> QED BY <1>3, <1>4, <1>10, <1>11, <1>12 DEF Matches, IsSubindex

LEMMA LubClassesUpper ==
  ASSUME None \notin Int, NEW i \in ProperIndices, NEW j \in ProperIndices, IsClass(i), IsClass(j)
  PROVE  IsSubindex(i, LubClasses(i, j)) /\ IsSubindex(j, LubClasses(i, j))
<1> DEFINE d  == Abs(i.c - j.c)
           g  == Gcd(j.m, d)
           m  == Gcd(i.m, g)
           lb == LowerMin(i.lb, j.lb)
           ub == UpperMax(i.ub, j.ub)
           c  == Rem(i.c, m)
<1>1. /\ i.m \in Nat \ {0} /\ i.c \in Nat /\ i.lb \in Bounds /\ i.ub \in Bounds
      /\ j.m \in Nat \ {0} /\ j.c \in Nat /\ j.lb \in Bounds /\ j.ub \in Bounds
  BY ProperFields
<1>2. LubClasses(i, j) = Class(lb, ub, c, m) /\ Rem(i.c, m) = c
  BY DEF LubClasses
<1>3. LowerLe(lb, i.lb) /\ LowerLe(lb, j.lb) /\ UpperLe(i.ub, ub) /\ UpperLe(j.ub, ub)
  BY <1>1, LeastAndGreatest
<1> HIDE DEF lb, ub, c
<1>4. d \in Nat /\ (j.c - i.c = d \/ j.c - i.c = -d)
  BY <1>1 DEF Abs
<1> HIDE DEF d
<1>5. g \in Nat \ {0} /\ Divides(g, j.m) /\ Divides(g, d)
  BY <1>1, <1>4, GcdNat
<1> HIDE DEF g
<1>6. m \in Nat \ {0} /\ Divides(m, i.m) /\ Divides(m, g)
  BY <1>1, <1>5, GcdNat
<1> HIDE DEF m
<1>7. Divides(m, j.m) /\ Divides(m, d)
  BY <1>1, <1>4, <1>5, <1>6, DividesTransitive
<1>8. Divides(m, j.c - i.c)
  BY <1>4, <1>6, <1>7, 1 \in Int, DividesTimes
<1>9. Rem(j.c, m) = c
  BY <1>1, <1>2, <1>6, <1>8, RemEqual
<1>10. Rem(i.m, m) = 0 /\ Rem(j.m, m) = 0
  BY <1>1, <1>6, <1>7, RemIsZero
<1>11. /\ IsClass(Class(lb, ub, c, m))
       /\ Class(lb, ub, c, m).lb = lb /\ Class(lb, ub, c, m).ub = ub
       /\ Class(lb, ub, c, m).c = c /\ Class(lb, ub, c, m).m = m
  BY DEF Class, IsClass
<1> QED BY <1>2, <1>3, <1>9, <1>10, <1>11 DEF IsSubindex

LEMMA LubAbove ==
  ASSUME None \notin Int, NEW i \in ProperIndices, NEW j \in ProperIndices
  PROVE  IsSubindex(i, Lub(i, j)) /\ IsSubindex(j, Lub(i, j))
<1>1. i \in Indices /\ j \in Indices
  BY DEF ProperIndices, StrictIndices
<1>2. CASE IsSubindex(i, j)
  BY <1>2, SubindexReflexive DEF Lub
<1>3. CASE ~IsSubindex(i, j) /\ IsSubindex(j, i)
  BY <1>3, SubindexReflexive DEF Lub
<1>4. CASE ~IsSubindex(i, j) /\ ~IsSubindex(j, i)
  <2>1. ~IsBot(i) /\ ~IsBot(j)
    BY <1>4 DEF IsSubindex
  <2>2. CASE IsInt(i) /\ IsInt(j)
    <3>1. i.val \in Nat /\ j.val \in Nat /\ i.val # j.val
      BY <1>4, <2>2, ProperInt DEF IsSubindex
    <3>2. Lub(i, j) = LubInts(i.val, j.val)
      BY <1>1, <1>4, <2>2, Kinds DEF Lub
    <3> QED BY <2>2, <3>1, <3>2, LubIntsUpper DEF IsSubindex
  <2>3. CASE IsInt(i) /\ IsClass(j)
    <3>1. Lub(i, j) = LubIntClass(i.val, j) /\ i.val \in Nat
      BY <1>1, <1>4, <2>3, Kinds, ProperInt DEF Lub
    <3> QED BY <2>3, <3>1, LubIntClassUpper DEF IsSubindex
  <2>4. CASE IsClass(i) /\ IsInt(j)
    <3>1. Lub(i, j) = LubIntClass(j.val, i) /\ j.val \in Nat
      BY <1>1, <1>4, <2>4, Kinds, ProperInt DEF Lub
    <3> QED BY <2>4, <3>1, LubIntClassUpper DEF IsSubindex
  <2>5. CASE IsClass(i) /\ IsClass(j)
    <3>1. Lub(i, j) = LubClasses(i, j)
      BY <1>1, <1>4, <2>5, Kinds DEF Lub
    <3> QED BY <2>5, <3>1, LubClassesUpper
  <2> QED BY <1>1, <2>1, <2>2, <2>3, <2>4, <2>5, Kinds
<1> QED BY <1>2, <1>3, <1>4

\* lub is an upper bound in the order the solver tests, whatever the computation
\* before it, if the operands are indices over the natural numbers.
THEOREM LubIsUpper ==
  ASSUME None \notin Int, Args \subseteq ProperIndices
  PROVE  EvalSpec => []LubUpper
<1>1. Args \subseteq StrictIndices
  BY DEF ProperIndices
<1>2. EvalSpec => []Typed
  BY <1>1, IndexTyped
<1>3. Typed => LubUpper
  <2> SUFFICES ASSUME Typed, Proper(ix), NEW a \in Args
               PROVE  IsSubindex(a, Lub(ix, a)) /\ IsSubindex(ix, Lub(ix, a))
    BY DEF LubUpper
  <2>1. ix \in ProperIndices /\ a \in ProperIndices
    BY DEF ProperIndices, Typed
  <2> QED BY <2>1, LubAbove
<1> QED BY <1>2, <1>3, PTL

-----------------------------------------------------------------------------
(* The order is the inclusion of what is described.                          *)

LEMMA ClassDivides ==
  ASSUME NEW i \in Indices, IsClass(i), NEW k \in Int
  PROVE  k \in Members(i, Int) <=> LowerLe(i.lb, k) /\ UpperLe(k, i.ub) /\ Divides(i.m, k - i.c)
BY ClassMembers DEF Divides

LEMMA ProperMember ==
  ASSUME None \notin Int, NEW i \in ProperIndices, IsClass(i), NEW k \in Int
  PROVE  k \in Members(i, Int) <=>
           /\ i.lb = None \/ i.lb <= k
           /\ i.ub = None \/ k <= i.ub
           /\ Divides(i.m, k - i.c)
BY ProperFields, ClassDivides, BetweenBounds

\* Two members that follow each other.
LEMMA TwoMembers ==
  ASSUME None \notin Int, NEW i \in ProperIndices, IsClass(i)
  PROVE  \E x \in Int : x \in Members(i, Int) /\ x + i.m \in Members(i, Int)
<1>1. /\ i.m \in Nat \ {0} /\ i.c \in Int
      /\ i.lb \in Int \cup {None} /\ i.ub \in Int \cup {None}
      /\ i.lb # None => Divides(i.m, i.lb - i.c)
      /\ i.ub # None => Divides(i.m, i.ub - i.c)
      /\ i.lb # None /\ i.ub # None => i.lb < i.ub
  BY ProperFields
<1> DEFINE x == IF i.lb # None THEN i.lb ELSE IF i.ub # None THEN i.ub - i.m ELSE i.c
<1>2. x \in Int /\ x + i.m \in Int
  BY <1>1
<1>3. Divides(i.m, x - i.c)
  <2>1. CASE i.lb # None
    BY <1>1, <2>1
  <2>2. CASE i.lb = None /\ i.ub # None
    <3>1. i.ub - i.c \in Int /\ i.m \in Int /\ (i.ub - i.c) - i.m = (i.ub - i.m) - i.c
      BY <1>1, <2>2
    <3>2. Divides(i.m, (i.ub - i.c) - i.m)
      BY <1>1, <2>2, <3>1, DividesItself, DividesSum
    <3> QED BY <2>2, <3>1, <3>2
  <2>3. CASE i.lb = None /\ i.ub = None
    BY <1>1, <2>3, i.c - i.c = 0, DividesItself
  <2> QED BY <2>1, <2>2, <2>3
<1>4. Divides(i.m, (x + i.m) - i.c)
  <2>1. x - i.c \in Int /\ i.m \in Int /\ (x - i.c) + i.m = (x + i.m) - i.c
    BY <1>1, <1>2
  <2>2. Divides(i.m, (x - i.c) + i.m)
    BY <1>3, <2>1, DividesItself, DividesSum
  <2> QED BY <2>1, <2>2
<1>5. (i.lb = None \/ i.lb <= x) /\ (i.lb = None \/ i.lb <= x + i.m)
  BY <1>1
<1>6. i.ub # None => x + i.m <= i.ub
  <2> SUFFICES ASSUME i.ub # None PROVE x + i.m <= i.ub
    OBVIOUS
  <2>1. CASE i.lb # None
    <3>1. i.ub - i.c \in Int /\ i.lb - i.c \in Int /\ i.m \in Int
          /\ (i.ub - i.c) - (i.lb - i.c) = i.ub - i.lb
      BY <1>1, <2>1
    <3>2. Divides(i.m, i.ub - i.lb)
      BY <1>1, <2>1, <3>1, DividesSum
    <3>3. PICK t \in Int : i.ub - i.lb = i.m * t
      BY <3>2 DEF Divides
    <3>4. i.m * t > 0
      BY <1>1, <2>1, <3>3
    <3>5. t >= 1
      BY <1>1, <3>4
    <3>6. i.m * t >= i.m
      BY <1>1, <3>5
    <3> QED BY <1>1, <2>1, <3>3, <3>6
  <2>2. CASE i.lb = None
    BY <1>1, <2>2
  <2> QED BY <2>1, <2>2
<1>7. i.ub = None \/ (x <= i.ub /\ x + i.m <= i.ub)
  BY <1>1, <1>2, <1>6
<1> HIDE DEF x
<1> QED BY <1>2, <1>3, <1>4, <1>5, <1>7, ProperMember

\* A class without a bound has members beyond any integer.
LEMMA Unbounded ==
  ASSUME None \notin Int, NEW i \in ProperIndices, IsClass(i), NEW n \in Int
  PROVE  /\ i.lb = None => \E x \in Members(i, Int) : x < n
         /\ i.ub = None => \E x \in Members(i, Int) : x > n
<1>1. PICK y \in Int : y \in Members(i, Int)
  BY TwoMembers
<1>2. /\ i.m \in Nat \ {0} /\ i.c \in Int
      /\ i.lb \in Int \cup {None} /\ i.ub \in Int \cup {None}
  BY ProperFields
<1>3. /\ i.lb = None \/ i.lb <= y
      /\ i.ub = None \/ y <= i.ub
      /\ Divides(i.m, y - i.c)
  BY <1>1, ProperMember
<1>4. ASSUME NEW t \in Int PROVE Divides(i.m, (y + i.m * t) - i.c)
  <2>1. i.m * t \in Int /\ Divides(i.m, i.m * t)
    BY <1>2 DEF Divides
  <2> DEFINE p == i.m * t
  <2> HIDE DEF p
  <2>2. p \in Int /\ y - i.c \in Int /\ i.m \in Int /\ (y - i.c) + p = (y + p) - i.c
    BY <1>2, <2>1 DEF p
  <2>3. Divides(i.m, (y - i.c) + p)
    BY <1>3, <2>1, <2>2, DividesSum DEF p
  <2> QED BY <2>2, <2>3 DEF p
<1> DEFINE t == Abs(y - n) + 1
<1>5. t \in Nat /\ t > y - n /\ t > n - y
  BY DEF Abs
<1> HIDE DEF t
<1>6. i.m * t >= t /\ i.m * t \in Int /\ i.m * (-t) = -(i.m * t)
  BY <1>2, <1>5
<1>7. ASSUME i.lb = None PROVE \E x \in Members(i, Int) : x < n
  <2> DEFINE x == y + i.m * (-t)
  <2>1. x \in Int /\ x < n /\ x <= y
    BY <1>5, <1>6
  <2>2. Divides(i.m, x - i.c)
    BY <1>4, <1>5
  <2> HIDE DEF x
  <2>3. i.ub = None \/ x <= i.ub
    BY <1>2, <1>3, <2>1
  <2>4. x \in Members(i, Int)
    BY <1>7, <2>1, <2>2, <2>3, ProperMember
  <2> QED BY <2>1, <2>4
<1>8. ASSUME i.ub = None PROVE \E x \in Members(i, Int) : x > n
  <2> DEFINE x == y + i.m * t
  <2>1. x \in Int /\ x > n /\ y <= x
    BY <1>5, <1>6
  <2>2. Divides(i.m, x - i.c)
    BY <1>4, <1>5
  <2> HIDE DEF x
  <2>3. i.lb = None \/ i.lb <= x
    BY <1>2, <1>3, <2>1
  <2>4. x \in Members(i, Int)
    BY <1>8, <2>1, <2>2, <2>3, ProperMember
  <2> QED BY <2>1, <2>4
<1> QED BY <1>7, <1>8

LEMMA ClassesIncluded ==
  ASSUME None \notin Int, NEW i \in ProperIndices, NEW j \in ProperIndices, IsClass(i), IsClass(j),
         Members(i, Int) \subseteq Members(j, Int)
  PROVE  IsSubindex(i, j)
<1>1. /\ i.m \in Nat \ {0} /\ i.c \in Nat
      /\ j.m \in Nat \ {0} /\ j.c \in 0..(j.m - 1)
      /\ i.lb \in Int \cup {None} /\ i.ub \in Int \cup {None}
      /\ j.lb \in Int \cup {None} /\ j.ub \in Int \cup {None}
      /\ i.lb # None => Divides(i.m, i.lb - i.c)
      /\ i.ub # None => Divides(i.m, i.ub - i.c)
      /\ i.lb # None /\ i.ub # None => i.lb < i.ub
  BY ProperFields
<1>2. PICK x \in Int : x \in Members(i, Int) /\ x + i.m \in Members(i, Int)
  BY TwoMembers
<1>3. Divides(i.m, x - i.c) /\ Divides(j.m, x - j.c) /\ Divides(j.m, (x + i.m) - j.c)
  BY <1>1, <1>2, x + i.m \in Int, ProperMember
<1>4. Divides(j.m, i.m)
  <2>1. x - j.c \in Int /\ (x + i.m) - j.c \in Int /\ j.m \in Int
        /\ ((x + i.m) - j.c) - (x - j.c) = i.m
    BY <1>1
  <2> QED BY <1>3, <2>1, DividesSum
<1>5. Divides(j.m, i.c - j.c)
  <2>1. x - j.c \in Int /\ x - i.c \in Int /\ j.m \in Int /\ i.m \in Int
        /\ (x - j.c) - (x - i.c) = i.c - j.c
    BY <1>1
  <2>2. Divides(j.m, x - i.c)
    BY <1>3, <1>4, <2>1, DividesTransitive
  <2> QED BY <1>3, <2>1, <2>2, DividesSum
<1>6. Rem(i.m, j.m) = 0 /\ Rem(i.c, j.m) = j.c
  BY <1>1, <1>4, <1>5, RemIsZero, RemUnique
<1>7. LowerLe(j.lb, i.lb)
  <2>1. CASE j.lb = None
    BY <2>1 DEF LowerLe
  <2>2. CASE j.lb # None /\ i.lb = None
    <3>1. j.lb \in Int
      BY <1>1, <2>2
    <3>2. PICK y \in Members(i, Int) : y < j.lb
      BY <2>2, <3>1, Unbounded
    <3>3. y \in Members(j, Int) /\ y \in Int
      BY <3>2, OfClass DEF ProperIndices, StrictIndices
    <3>4. j.lb <= y
      BY <2>2, <3>3, ProperMember
    <3> QED BY <3>1, <3>2, <3>3, <3>4
  <2>3. CASE j.lb # None /\ i.lb # None
    <3>1. i.lb \in Members(i, Int) /\ i.lb \in Int
      BY <1>1, <2>3, ProperMember
    <3>2. j.lb <= i.lb
      BY <2>3, <3>1, ProperMember
    <3> QED BY <2>3, <3>2 DEF LowerLe
  <2> QED BY <2>1, <2>2, <2>3
<1>8. UpperLe(i.ub, j.ub)
  <2>1. CASE j.ub = None
    BY <2>1 DEF UpperLe
  <2>2. CASE j.ub # None /\ i.ub = None
    <3>1. j.ub \in Int
      BY <1>1, <2>2
    <3>2. PICK y \in Members(i, Int) : y > j.ub
      BY <2>2, <3>1, Unbounded
    <3>3. y \in Members(j, Int) /\ y \in Int
      BY <3>2, OfClass DEF ProperIndices, StrictIndices
    <3>4. y <= j.ub
      BY <2>2, <3>3, ProperMember
    <3> QED BY <3>1, <3>2, <3>3, <3>4
  <2>3. CASE j.ub # None /\ i.ub # None
    <3>1. i.ub \in Members(i, Int) /\ i.ub \in Int
      BY <1>1, <2>3, ProperMember
    <3>2. i.ub <= j.ub
      BY <2>3, <3>1, ProperMember
    <3> QED BY <2>3, <3>2 DEF UpperLe
  <2> QED BY <2>1, <2>2, <2>3
<1> QED BY <1>6, <1>7, <1>8 DEF IsSubindex

LEMMA IncludedIsSubindex ==
  ASSUME None \notin Int, NEW i \in ProperIndices, NEW j \in ProperIndices,
         Members(i, Int) \subseteq Members(j, Int)
  PROVE  IsSubindex(i, j)
<1>1. i \in Indices /\ j \in Indices
  BY DEF ProperIndices, StrictIndices
<1>2. CASE IsBot(i)
  BY <1>2 DEF IsSubindex
<1>3. CASE IsInt(i)
  <2>1. i.val \in Nat /\ i.val \in Members(j, Int)
    BY <1>1, <1>3, ProperInt, Kinds DEF Members
  <2>2. ~IsBot(j)
    BY <1>1, <2>1, Kinds DEF Members
  <2>3. CASE IsInt(j)
    BY <1>1, <1>3, <2>1, <2>3, OfInt DEF IsSubindex
  <2>4. CASE IsClass(j)
    <3>1. LowerLe(j.lb, i.val) /\ UpperLe(i.val, j.ub) /\ Divides(j.m, i.val - j.c)
      BY <1>1, <2>1, <2>4, ClassDivides
    <3>2. Rem(i.val, j.m) = j.c
      BY <2>1, <2>4, <3>1, ProperFields, RemUnique
    <3> QED BY <1>3, <2>4, <3>1, <3>2 DEF IsSubindex, Matches
  <2> QED BY <1>1, <2>2, <2>3, <2>4, Kinds
<1>4. CASE IsClass(i)
  <2>1. PICK x \in Int : x \in Members(i, Int) /\ x + i.m \in Members(i, Int)
    BY <1>4, TwoMembers
  <2>2. i.m \in Nat \ {0}
    BY <1>4, ProperFields
  <2>3. ~IsBot(j)
    BY <1>1, <2>1, Kinds DEF Members
  <2>4. ~IsInt(j)
    <3>1. IsInt(j) => x = j.val /\ x + i.m = j.val
      BY <1>1, <2>1, OfInt
    <3> QED BY <2>1, <2>2, <3>1
  <2> QED BY <1>1, <1>4, <2>3, <2>4, Kinds, ClassesIncluded
<1> QED BY <1>1, <1>2, <1>3, <1>4, Kinds

\* The order the solver tests is the inclusion of the integers described, of all
\* the integers, if the operands are indices over the natural numbers.
THEOREM OrderIsInclusion ==
  ASSUME None \notin Int, Args \subseteq ProperIndices, Wide = Int
  PROVE  EvalSpec => []SubindexIsInclusion
<1>1. Args \subseteq StrictIndices
  BY DEF ProperIndices
<1>2. EvalSpec => []Typed
  BY <1>1, IndexTyped
<1>3. Typed => SubindexIsInclusion
  <2> SUFFICES ASSUME Typed, Proper(ix), NEW a \in Args
               PROVE  IsSubindex(a, ix) <=> Members(a, Int) \subseteq Members(ix, Int)
    BY DEF SubindexIsInclusion
  <2>1. ix \in ProperIndices /\ a \in ProperIndices /\ ix \in Indices /\ a \in Indices
    BY DEF ProperIndices, StrictIndices, Typed
  <2>2. IsSubindex(a, ix) => Members(a, Int) \subseteq Members(ix, Int)
    BY <2>1, Int \in SUBSET Int, SubindexSound
  <2> QED BY <2>1, <2>2, IncludedIsSubindex
<1> QED BY <1>2, <1>3, PTL

-----------------------------------------------------------------------------
(* No operator loses an integer.                                             *)

LEMMA Described ==
  ASSUME NEW i \in Indices, NEW win \in SUBSET Int, NEW k
  PROVE  k \in Members(i, win) <=> k \in win /\ k \in Members(i, Int)
BY Kinds DEF Members

LEMMA HalfLineMembers ==
  ASSUME None \notin Int, NEW k \in Int, NEW n \in Int
  PROVE  /\ n <= k => n \in Members(MkLeq(k), Int)
         /\ n >= k => n \in Members(MkGeq(k), Int)
<1>1. n - 0 = 1 * n /\ 0 \in Int /\ 1 \in Int \ {0}
  OBVIOUS
<1>2. None \in Bounds /\ k \in Bounds /\ LowerLe(None, n) /\ UpperLe(n, None)
  BY DEF LowerLe, UpperLe, Bounds
<1>3. ASSUME n <= k PROVE n \in Members(Class(None, k, 0, 1), Int)
  <2>1. UpperLe(n, k)
    BY <1>3 DEF UpperLe
  <2> QED BY <1>1, <1>2, <2>1, InClass
<1>4. ASSUME n >= k PROVE n \in Members(Class(k, None, 0, 1), Int)
  <2>1. LowerLe(k, n)
    BY <1>4 DEF LowerLe
  <2> QED BY <1>1, <1>2, <2>1, InClass
<1> QED BY <1>3, <1>4 DEF MkLeq, MkGeq

\* The integers two classes share are those of a class whose period is the least
\* common multiple.
LEMMA SharedRest ==
  ASSUME None \notin Int, NEW i \in ProperIndices, NEW j \in ProperIndices, IsClass(i), IsClass(j),
         NEW x \in Members(i, Int), x \in Members(j, Int)
  PROVE  /\ Congruent(i, j, GlbPeriod(i, j)) # {}
         /\ x \in Int /\ Divides(GlbPeriod(i, j), x - GlbRest(i, j))
<1> DEFINE m == GlbPeriod(i, j)
<1>1. /\ i.m \in Nat \ {0} /\ i.c \in 0..(i.m - 1) /\ i \in Indices
      /\ j.m \in Nat \ {0} /\ j.c \in 0..(j.m - 1) /\ j \in Indices
  BY ProperFields
<1>2. /\ m \in Nat \ {0} /\ Divides(i.m, m) /\ Divides(j.m, m)
      /\ \A d \in Int : Divides(i.m, d) /\ Divides(j.m, d) => Divides(m, d)
  BY <1>1, LcmDivides DEF GlbPeriod
<1>3. x \in Int /\ Divides(i.m, x - i.c) /\ Divides(j.m, x - j.c)
  BY <1>1, OfClass DEF Divides
<1> HIDE DEF m
<1> DEFINE k == x % m
<1>4. k \in 0..(m - 1) /\ x = m * (x \div m) + k /\ x \div m \in Int
  BY <1>2, <1>3
<1>5. Divides(m, x - k)
  <2>1. m * (x \div m) \in Int
    BY <1>2, <1>4
  <2>2. x - k = m * (x \div m)
    BY <1>2, <1>3, <1>4, <2>1
  <2> QED BY <1>4, <2>2 DEF Divides
<1> HIDE DEF k
<1>6. ASSUME NEW d \in Nat \ {0}, NEW e \in 0..(d - 1), Divides(d, m), Divides(d, x - e)
      PROVE  Rem(k, d) = e
  <2>1. x - k \in Int /\ x - e \in Int /\ k \in Nat /\ (x - e) - (x - k) = k - e
    BY <1>2, <1>3, <1>4
  <2>2. Divides(d, x - k)
    BY <1>2, <1>5, <1>6, <2>1, DividesTransitive
  <2>3. Divides(d, k - e)
    BY <1>6, <2>1, <2>2, DividesSum
  <2> QED BY <2>1, <2>3, RemUnique
<1>7. k \in Congruent(i, j, m)
  BY <1>1, <1>2, <1>3, <1>4, <1>6 DEF Congruent
<1>8. Congruent(i, j, GlbPeriod(i, j)) # {}
  BY <1>7 DEF m
<1> DEFINE c == GlbRest(i, j)
<1>9. c \in 0..(m - 1) /\ Rem(c, i.m) = i.c /\ Rem(c, j.m) = j.c
  BY <1>1, <1>8, GlbPartsTyped DEF m
<1> HIDE DEF c
<1>10. ASSUME NEW d \in Nat \ {0}, NEW e \in Nat, Rem(c, d) = e, Divides(d, x - e)
       PROVE  Divides(d, x - c)
  <2>1. c \in Nat /\ x - e \in Int /\ c - e \in Int /\ (x - e) - (c - e) = x - c
    BY <1>2, <1>3, <1>9
  <2>2. Divides(d, c - e)
    BY <1>10, <2>1, RemNat
  <2> QED BY <1>10, <2>1, <2>2, DividesSum
<1>11. Divides(i.m, x - c) /\ Divides(j.m, x - c)
  BY <1>1, <1>3, <1>9, <1>10
<1>12. x - c \in Int
  BY <1>2, <1>3, <1>9
<1> QED BY <1>2, <1>3, <1>8, <1>11, <1>12 DEF m, c

\* Rounding a bound to the nearest member leaves every member inside.
LEMMA Rounded ==
  ASSUME NEW m \in Nat \ {0}, NEW c \in 0..(m - 1), NEW x \in Int, Divides(m, x - c)
  PROVE  /\ \A lo \in Nat : lo <= x => m * Quot(lo + m - c - 1, m) + c <= x
         /\ \A hi \in Nat : x <= hi => x <= m * Quot(hi - c, m) + c
<1>1. PICK t \in Int : x - c = m * t
  BY DEF Divides
<1>2. \A a \in Int : /\ Quot(a, m) \in Int /\ m * Quot(a, m) \in Int
                     /\ Rem(a, m) = a - m * Quot(a, m)
  <2> SUFFICES ASSUME NEW a \in Int
               PROVE  /\ Quot(a, m) \in Int /\ m * Quot(a, m) \in Int
                      /\ Rem(a, m) = a - m * Quot(a, m)
    OBVIOUS
  <2>1. Quot(a, m) \in Int
    BY DEF Quot, Abs
  <2> QED BY <2>1 DEF Rem
<1>3. \A a \in Int : Rem(a, m) < m /\ (a >= 0 => Rem(a, m) >= 0)
  BY RemRange DEF Abs
<1>4. m * t \in Int /\ m * t = x - c
  BY <1>1
<1>5. ASSUME NEW lo \in Nat, lo <= x PROVE m * Quot(lo + m - c - 1, m) + c <= x
  <2> DEFINE a == lo + m - c - 1
             q == Quot(lo + m - c - 1, m)
  <2>1. a \in Int /\ a >= 0 /\ a <= (x - c) + m - 1
    BY <1>5
  <2>2. q = Quot(a, m) /\ q \in Int /\ m * q \in Int /\ m * q <= a
    BY <1>2, <1>3, <2>1
  <2> HIDE DEF a, q
  <2>3. m * q < m * t + m
    BY <1>4, <2>1, <2>2
  <2>4. m * (q - t) < m
    BY <2>2, <2>3
  <2>5. q - t < 1
    BY <2>2, <2>4
  <2>6. m * q <= m * t
    BY <2>2, <2>5
  <2>7. m * q + c <= x
    BY <1>4, <2>2, <2>6
  <2> QED BY <2>7 DEF q
<1>6. ASSUME NEW hi \in Nat, x <= hi PROVE x <= m * Quot(hi - c, m) + c
  <2> DEFINE a == hi - c
             q == Quot(hi - c, m)
  <2>1. a \in Int /\ x - c <= a
    BY <1>6
  <2>2. q \in Int /\ m * q \in Int /\ a < m * q + m
    BY <1>2, <1>3, <2>1
  <2> HIDE DEF a, q
  <2>3. m * t < m * q + m
    BY <1>4, <2>1, <2>2
  <2>4. m * (t - q) < m
    BY <2>2, <2>3
  <2>5. t - q < 1
    BY <2>2, <2>4
  <2>6. m * t <= m * q
    BY <2>2, <2>5
  <2>7. x <= m * q + c
    BY <1>4, <2>2, <2>6
  <2> QED BY <2>7 DEF q
<1> QED BY <1>5, <1>6

LEMMA GlbClassesCover ==
  ASSUME None \notin Int, NEW i \in ProperIndices, NEW j \in ProperIndices, IsClass(i), IsClass(j),
         NEW x \in Members(i, Int), x \in Members(j, Int)
  PROVE  x \in Members(GlbClasses(i, j), Int)
<1> DEFINE m  == GlbPeriod(i, j)
           c  == GlbRest(i, j)
           lb == GlbLowest(i, j)
           ub == GlbHighest(i, j)
           lo == LowerMax(i.lb, j.lb)
           hi == UpperMin(i.ub, j.ub)
<1>1. /\ i.lb \in Nat \cup {None} /\ i.ub \in Nat \cup {None} /\ i \in Indices
      /\ j.lb \in Nat \cup {None} /\ j.ub \in Nat \cup {None} /\ j \in Indices
      /\ i.lb \in Bounds /\ i.ub \in Bounds /\ j.lb \in Bounds /\ j.ub \in Bounds
  BY ProperFields
<1>2. Congruent(i, j, m) # {} /\ x \in Int /\ Divides(m, x - c)
  BY SharedRest
<1>3. m \in Nat \ {0} /\ c \in 0..(m - 1) /\ lb \in Bounds /\ ub \in Bounds
  BY <1>1, <1>2, GlbPartsTyped
<1>4. lo \in Nat \cup {None} /\ hi \in Nat \cup {None}
  BY <1>1 DEF LowerMax, UpperMin
<1>5. LowerLe(lo, x) /\ UpperLe(x, hi)
  <2>1. LowerLe(i.lb, x) /\ UpperLe(x, i.ub) /\ LowerLe(j.lb, x) /\ UpperLe(x, j.ub)
    BY <1>1, <1>2, ClassDivides
  <2> QED BY <1>1, <1>2, <2>1, BetweenBounds
<1>6. /\ lb = IF lo = None THEN None ELSE m * Quot(lo + m - c - 1, m) + c
      /\ ub = IF hi = None THEN None ELSE m * Quot(hi - c, m) + c
  BY DEF GlbLowest, GlbHighest
<1>7. GlbClasses(i, j) =
        CASE lb # None /\ ub # None /\ lb = ub -> IInt(ub)
          [] lb # None /\ ub # None /\ ub < lb -> Bot
          [] OTHER -> Class(lb, ub, c, m)
  BY <1>2, GlbParts
<1> HIDE DEF m, c, lb, ub, lo, hi
<1>8. lb = None \/ lb <= x
  <2>1. CASE lo = None
    BY <1>6, <2>1
  <2>2. CASE lo # None
    <3>1. lo \in Nat /\ lo <= x
      BY <1>4, <1>5, <2>2 DEF LowerLe
    <3> QED BY <1>2, <1>3, <1>6, <2>2, <3>1, Rounded
  <2> QED BY <2>1, <2>2
<1>9. ub = None \/ x <= ub
  <2>1. CASE hi = None
    BY <1>6, <2>1
  <2>2. CASE hi # None
    <3>1. hi \in Nat /\ x <= hi
      BY <1>4, <1>5, <2>2 DEF UpperLe
    <3> QED BY <1>2, <1>3, <1>6, <2>2, <3>1, Rounded
  <2> QED BY <2>1, <2>2
<1>10. CASE lb # None /\ ub # None /\ lb = ub
  <2>1. x = ub
    BY <1>2, <1>3, <1>8, <1>9, <1>10 DEF Bounds
  <2> QED BY <1>2, <1>7, <1>10, <2>1, InInt
<1>11. CASE ~(lb # None /\ ub # None /\ lb = ub)
  <2>1. ~(lb # None /\ ub # None /\ ub < lb)
    BY <1>2, <1>3, <1>8, <1>9 DEF Bounds
  <2>2. GlbClasses(i, j) = Class(lb, ub, c, m)
    BY <1>7, <1>11, <2>1
  <2>3. LowerLe(lb, x) /\ UpperLe(x, ub)
    BY <1>2, <1>8, <1>9 DEF LowerLe, UpperLe
  <2>4. PICK t \in Int : x - c = m * t
    BY <1>2 DEF Divides
  <2> QED BY <1>2, <1>3, <2>2, <2>3, <2>4, InClass
<1> QED BY <1>10, <1>11

LEMMA GlbCovers ==
  ASSUME None \notin Int, NEW i \in ProperIndices, NEW j \in ProperIndices,
         NEW x \in Members(i, Int), x \in Members(j, Int)
  PROVE  x \in Members(Glb(i, j), Int)
<1>1. i \in Indices /\ j \in Indices
  BY DEF ProperIndices, StrictIndices
<1>2. CASE IsSubindex(i, j) \/ IsSubindex(j, i)
  BY <1>2 DEF Glb
<1>3. CASE ~IsSubindex(i, j) /\ ~IsSubindex(j, i)
  <2>1. ~IsBot(i) /\ ~IsBot(j)
    BY <1>3 DEF IsSubindex
  <2>2. ~IsInt(i)
    <3>1. IsInt(i) => Members(i, Int) \subseteq Members(j, Int)
      BY <1>1, OfInt
    <3> QED BY <1>3, <3>1, IncludedIsSubindex
  <2>3. ~IsInt(j)
    <3>1. IsInt(j) => Members(j, Int) \subseteq Members(i, Int)
      BY <1>1, OfInt
    <3> QED BY <1>3, <3>1, IncludedIsSubindex
  <2>4. IsClass(i) /\ IsClass(j)
    BY <1>1, <2>1, <2>2, <2>3, Kinds
  <2>5. Glb(i, j) = GlbClasses(i, j)
    BY <1>3, <2>4 DEF Glb
  <2> QED BY <2>4, <2>5, GlbClassesCover
<1> QED BY <1>2, <1>3

LEMMA PlusCovers ==
  ASSUME None \notin Int, NEW i \in StrictIndices, NEW j \in StrictIndices,
         NEW x \in Members(i, Int), NEW y \in Members(j, Int)
  PROVE  x + y \in Members(Plus(i, j), Int)
<1>1. i \in Indices /\ j \in Indices /\ ~IsBot(i) /\ ~IsBot(j)
  BY Kinds DEF StrictIndices, Members
<1>2. CASE IsInt(i)
  <2>1. Plus(i, j) = Offset(i.val, j) /\ i.val \in Int /\ x = i.val
    BY <1>1, <1>2, Kinds, OfInt, IntField DEF Plus
  <2> QED BY <1>1, <2>1, OffsetSound
<1>3. CASE IsClass(i) /\ IsInt(j)
  <2>1. Plus(i, j) = Offset(j.val, i) /\ j.val \in Int /\ y = j.val
    BY <1>1, <1>3, Kinds, OfInt, IntField DEF Plus
  <2>2. y + x \in Members(Plus(i, j), Int)
    BY <1>1, <2>1, OffsetSound
  <2>3. x \in Int /\ y \in Int /\ y + x = x + y
    BY <1>1, <1>3, OfClass, OfInt
  <2> QED BY <2>2, <2>3
<1>4. CASE IsClass(i) /\ IsClass(j)
  <2> DEFINE lb == BoundPlus(i.lb, j.lb)
             ub == BoundPlus(i.ub, j.ub)
             g  == Gcd(i.c, j.c)
             h  == Gcd(j.m, g)
             m  == Gcd(i.m, h)
  <2>1. /\ i.lb \in Bounds /\ i.ub \in Bounds /\ i.c \in Int /\ i.m \in Int \ {0}
        /\ j.lb \in Bounds /\ j.ub \in Bounds /\ j.c \in Int /\ j.m \in Int \ {0}
    BY <1>1, <1>4, ClassFields
  <2>2. /\ x \in Int /\ LowerLe(i.lb, x) /\ UpperLe(x, i.ub) /\ Divides(i.m, x - i.c)
        /\ y \in Int /\ LowerLe(j.lb, y) /\ UpperLe(y, j.ub) /\ Divides(j.m, y - j.c)
    BY <1>1, <1>4, OfClass DEF Divides
  <2>3. g \in Int /\ Divides(g, i.c) /\ Divides(g, j.c)
    BY <2>1, GcdDivides
  <2>4. h \in Int /\ Divides(h, j.m) /\ Divides(h, g)
    BY <2>1, <2>3, GcdDivides
  <2>5. m \in Int \ {0} /\ Divides(m, i.m) /\ Divides(m, h)
    BY <2>1, <2>4, GcdDivides
  <2>6. lb \in Bounds /\ ub \in Bounds /\ LowerLe(lb, x + y) /\ UpperLe(x + y, ub)
    BY <2>1, <2>2 DEF BoundPlus, Bounds, LowerLe, UpperLe
  <2>7. Plus(i, j) = Class(lb, ub, 0, m)
    BY <1>1, <1>4, Kinds DEF Plus
  <2> HIDE DEF lb, ub, g, h, m
  <2>8. Divides(m, g) /\ Divides(m, j.m)
    BY <2>1, <2>3, <2>4, <2>5, DividesTransitive
  <2>9. Divides(m, i.c) /\ Divides(m, j.c)
    BY <2>1, <2>3, <2>5, <2>8, DividesTransitive
  <2>10. x - i.c \in Int /\ y - j.c \in Int /\ (x - i.c) + i.c = x /\ (y - j.c) + j.c = y
    BY <2>1, <2>2
  <2>11. Divides(m, x - i.c) /\ Divides(m, y - j.c)
    BY <2>1, <2>2, <2>5, <2>8, <2>10, DividesTransitive
  <2>12. Divides(m, (x - i.c) + i.c) /\ Divides(m, (y - j.c) + j.c)
    BY <2>1, <2>5, <2>9, <2>10, <2>11, DividesSum
  <2>13. Divides(m, x + y)
    BY <2>2, <2>5, <2>10, <2>12, DividesSum
  <2>14. PICK t \in Int : x + y = m * t
    BY <2>13 DEF Divides
  <2>15. x + y \in Int /\ (x + y) - 0 = m * t /\ 0 \in Int
    BY <2>2, <2>14
  <2> QED BY <2>5, <2>6, <2>7, <2>15, InClass
<1> QED BY <1>1, <1>2, <1>3, <1>4, Kinds

LEMMA MinusCovers ==
  ASSUME None \notin Int, NEW i \in StrictIndices, NEW j \in StrictIndices,
         NEW x \in Members(i, Int), NEW y \in Members(j, Int)
  PROVE  x - y \in Members(Minus(i, j), Int)
<1>1. /\ i \in Indices /\ j \in Indices /\ ~IsBot(i) /\ ~IsBot(j) /\ x \in Int /\ y \in Int
      /\ x - y \in Int
  BY Kinds DEF StrictIndices, Members
<1>2. CASE IsInt(i) /\ IsInt(j)
  <2>1. Minus(i, j) = IInt(i.val - j.val) /\ x = i.val /\ y = j.val
    BY <1>1, <1>2, Kinds, OfInt DEF Minus
  <2> QED BY <1>1, <2>1, InInt
<1>3. CASE IsClass(i) /\ IsInt(j) /\ i.lb # None /\ LowerLe(j.val, i.lb)
  <2> DEFINE lb == i.lb - j.val
             ub == BoundPlus(-j.val, i.ub)
             c  == Rem(i.c - j.val, i.m)
  <2>1. /\ i.lb \in Int /\ i.ub \in Bounds /\ i.c \in Int /\ i.m \in Int \ {0}
        /\ j.val \in Int /\ y = j.val
    BY <1>1, <1>3, ClassFields, OfInt DEF Bounds
  <2>2. LowerLe(i.lb, x) /\ UpperLe(x, i.ub) /\ Divides(i.m, x - i.c)
    BY <1>1, <1>3, OfClass DEF Divides
  <2>3. lb \in Bounds /\ ub \in Bounds /\ LowerLe(lb, x - y) /\ UpperLe(x - y, ub)
    BY <1>1, <2>1, <2>2 DEF BoundPlus, Bounds, LowerLe, UpperLe
  <2>4. c \in Int /\ Divides(i.m, (i.c - j.val) - c)
    BY <2>1, i.c - j.val \in Int, RemRange
  <2>5. Minus(i, j) = Class(lb, ub, c, i.m)
    BY <1>1, <1>3, Kinds DEF Minus
  <2> HIDE DEF lb, ub, c
  <2>6. /\ x - i.c \in Int /\ (i.c - j.val) - c \in Int /\ i.m \in Int
        /\ (x - i.c) + ((i.c - j.val) - c) = (x - y) - c
    BY <1>1, <2>1, <2>4
  <2>7. Divides(i.m, (x - y) - c)
    BY <2>2, <2>4, <2>6, DividesSum
  <2>8. PICK t \in Int : (x - y) - c = i.m * t
    BY <2>7 DEF Divides
  <2> QED BY <1>1, <2>1, <2>3, <2>4, <2>5, <2>8, InClass
<1>4. CASE ~(IsInt(i) /\ IsInt(j))
           /\ ~(IsClass(i) /\ IsInt(j) /\ i.lb # None /\ LowerLe(j.val, i.lb))
  <2>1. Minus(i, j) = Top
    BY <1>1, <1>4 DEF Minus
  <2> QED BY <1>1, <2>1, InTop
<1> QED BY <1>2, <1>3, <1>4

LEMMA MultCovers ==
  ASSUME None \notin Int, NEW i \in StrictIndices, NEW j \in StrictIndices,
         NEW x \in Members(i, Int), NEW y \in Members(j, Int)
  PROVE  x * y \in Members(Mult(i, j), Int)
<1>1. /\ i \in Indices /\ j \in Indices /\ ~IsBot(i) /\ ~IsBot(j) /\ x \in Int /\ y \in Int
      /\ x * y \in Int /\ x * y = y * x
  BY Kinds DEF StrictIndices, Members
<1>2. CASE IsInt(i)
  <2>1. Mult(i, j) = Scale(i.val, j) /\ x = i.val
    BY <1>1, <1>2, Kinds, OfInt DEF Mult
  <2>2. y * x \in Members(Scale(x, j), Int)
    BY <1>1, ScaleSound
  <2> QED BY <1>1, <2>1, <2>2
<1>3. CASE IsClass(i) /\ IsInt(j)
  <2>1. Mult(i, j) = Scale(j.val, i) /\ y = j.val
    BY <1>1, <1>3, Kinds, OfInt DEF Mult
  <2> QED BY <1>1, <2>1, ScaleSound
<1>4. CASE IsClass(i) /\ IsClass(j)
  <2>1. Mult(i, j) = Top
    BY <1>1, <1>4, Kinds DEF Mult
  <2> QED BY <1>1, <2>1, InTop
<1> QED BY <1>1, <1>2, <1>3, <1>4, Kinds

LEMMA DivCovers ==
  ASSUME None \notin Int, NEW i \in StrictIndices, NEW j \in StrictIndices,
         NEW x \in Members(i, Int), NEW y \in Members(j, Int), y # 0
  PROVE  Quot(x, y) \in Members(Div(i, j), Int)
<1>1. /\ i \in Indices /\ j \in Indices /\ ~IsBot(i) /\ ~IsBot(j) /\ x \in Int /\ y \in Int
  BY Kinds DEF StrictIndices, Members
<1>2. Quot(x, y) \in Int
  BY <1>1 DEF Quot, Abs
<1>3. CASE IsInt(i) /\ IsInt(j)
  <2>1. Div(i, j) = IInt(Quot(i.val, j.val)) /\ x = i.val /\ y = j.val
    BY <1>1, <1>3, Kinds, OfInt DEF Div
  <2> QED BY <1>2, <2>1, InInt
<1>4. CASE ~(IsInt(i) /\ IsInt(j))
  <2>1. Div(i, j) = Top
    BY <1>1, <1>4 DEF Div
  <2> QED BY <1>2, <2>1, InTop
<1> QED BY <1>3, <1>4

LEMMA UnsignCovers ==
  ASSUME None \notin Int, NEW i, NEW x \in Members(i, Int), x \in Int, x >= 0
  PROVE  x \in Members(Unsign(i), Int)
<1>1. x - 0 = 1 * x /\ 0 \in Int /\ 1 \in Int \ {0}
  OBVIOUS
<1>2. 0 \in Bounds /\ None \in Bounds /\ LowerLe(0, x) /\ UpperLe(x, None)
  BY DEF Bounds, LowerLe, UpperLe
<1>3. x \in Members(NonNeg, Int)
  BY <1>1, <1>2, InClass DEF NonNeg
<1> QED BY <1>3 DEF Unsign

LEMMA SideCovers ==
  ASSUME None \notin Int, NEW i \in StrictIndices, NEW strict \in 0..1,
         NEW x \in Members(i, Int), NEW y \in Int
  PROVE  /\ y + strict <= x => y \in Members(Below(strict, i), Int)
         /\ y >= x + strict => y \in Members(Above(strict, i), Int)
<1>1. i \in Indices /\ ~IsBot(i) /\ x \in Int
  BY Kinds DEF StrictIndices, Members
<1>2. CASE IsInt(i)
  <2>1. /\ Below(strict, i) = MkLeq(x - strict) /\ Above(strict, i) = MkGeq(x + strict)
    BY <1>1, <1>2, Kinds, OfInt DEF Below, Above
  <2>2. x - strict \in Int /\ x + strict \in Int
        /\ (y + strict <= x => y <= x - strict)
    BY <1>1
  <2> QED BY <2>1, <2>2, HalfLineMembers
<1>3. CASE IsClass(i)
  <2>1. /\ i.lb = None \/ i.lb <= x
        /\ i.ub = None \/ x <= i.ub
        /\ i.lb \in Bounds /\ i.ub \in Bounds
    BY <1>1, <1>3, OfClass, ClassFields, BetweenBounds
  <2>2. ASSUME i.ub # None, y + strict <= x PROVE y \in Members(Below(strict, i), Int)
    <3>1. Below(strict, i) = MkLeq(i.ub - strict)
      BY <1>1, <1>3, <2>2, Kinds DEF Below
    <3>2. i.ub \in Int /\ i.ub - strict \in Int /\ y <= i.ub - strict
      BY <1>1, <2>1, <2>2 DEF Bounds
    <3> QED BY <3>1, <3>2, HalfLineMembers
  <2>3. ASSUME i.lb # None, y >= x + strict PROVE y \in Members(Above(strict, i), Int)
    <3>1. Above(strict, i) = MkGeq(i.lb + strict)
      BY <1>1, <1>3, <2>3, Kinds DEF Above
    <3>2. i.lb \in Int /\ i.lb + strict \in Int /\ y >= i.lb + strict
      BY <1>1, <2>1, <2>3 DEF Bounds
    <3> QED BY <3>1, <3>2, HalfLineMembers
  <2>4. y + strict <= x => y \in Members(Below(strict, i), Int)
    BY <1>1, <1>3, <2>2, Kinds, InTop DEF Below
  <2>5. y >= x + strict => y \in Members(Above(strict, i), Int)
    BY <1>1, <1>3, <2>3, Kinds, InTop DEF Above
  <2> QED BY <2>4, <2>5
<1> QED BY <1>1, <1>2, <1>3, Kinds

\* No operator loses an integer, of all the integers, if the operands are indices
\* over the natural numbers.
THEOREM NothingLost ==
  ASSUME None \notin Int, Args \subseteq ProperIndices, Win \subseteq Int
  PROVE  EvalSpec => CoversStepwise
<1>1. Args \subseteq StrictIndices
  BY DEF ProperIndices
<1>2. EvalSpec => []Typed
  BY <1>1, IndexTyped
<1>3. Typed /\ Typed' /\ [EvalNext]_evalVars => [Proper(ix) /\ Covers => Covers']_evalVars
  <2> SUFFICES ASSUME Typed, Typed', EvalNext, Proper(ix), ints \subseteq Members(ix, Win),
                      NEW z \in ints'
               PROVE  z \in Members(ix', Win)
    BY DEF Covers, evalVars
  <2>1. ix \in ProperIndices /\ ix \in StrictIndices /\ ix \in Indices /\ ix' \in Indices
    BY DEF Typed, ProperIndices, StrictIndices
  <2>2. ASSUME NEW x \in ints PROVE x \in Members(ix, Int) /\ x \in Win /\ x \in Int
    BY <2>1, Described
  <2>3. ASSUME NEW a \in Args, NEW y \in Members(a, Win)
        PROVE  y \in Members(a, Int) /\ y \in Win /\ y \in Int /\ a \in Indices
    BY Described DEF ProperIndices, StrictIndices
  <2>4. SUFFICES ASSUME z \in Win PROVE z \in Members(ix', Int)
    <3>1. z \in Win
      BY <2>2 DEF EvalNext, Join, Meet, Add, Subtract, Multiply, Divide, Cast, Less, Greater, Apply,
                  Done, evalVars
    <3> QED BY <2>1, <2>4, <3>1, Described
  <2>5. ASSUME NEW a \in Args, Join(a) PROVE z \in Members(ix', Int)
    <3>1. ix' = Lub(ix, a) /\ (z \in ints \/ z \in Members(a, Win)) /\ a \in ProperIndices
          /\ a \in Indices
      BY <2>5 DEF Join, Apply, ProperIndices, StrictIndices
    <3>2. IsSubindex(ix, ix') /\ IsSubindex(a, ix')
      BY <2>1, <3>1, LubAbove
    <3>3. Members(ix, Int) \subseteq Members(ix', Int) /\ Members(a, Int) \subseteq Members(ix', Int)
      BY <2>1, <3>1, <3>2, Int \in SUBSET Int, SubindexSound
    <3> QED BY <2>2, <2>3, <3>1, <3>3
  <2>6. ASSUME NEW a \in Args, Meet(a) PROVE z \in Members(ix', Int)
    <3>1. ix' = Glb(ix, a) /\ z \in ints /\ z \in Members(a, Win) /\ a \in ProperIndices
      BY <2>6 DEF Meet, Apply
    <3> QED BY <2>1, <2>2, <2>3, <3>1, GlbCovers
  <2>7. ASSUME NEW a \in Args, Add(a) PROVE z \in Members(ix', Int)
    <3>1. ix' = Plus(ix, a) /\ \E x \in ints : \E y \in Members(a, Win) : z = x + y
      BY <2>7 DEF Add, Apply, ImageOf
    <3> QED BY <1>1, <2>1, <2>2, <2>3, <3>1, PlusCovers
  <2>8. ASSUME NEW a \in Args, Subtract(a) PROVE z \in Members(ix', Int)
    <3>1. ix' = Minus(ix, a) /\ \E x \in ints : \E y \in Members(a, Win) : z = x - y
      BY <2>8 DEF Subtract, Apply, ImageOf
    <3> QED BY <1>1, <2>1, <2>2, <2>3, <3>1, MinusCovers
  <2>9. ASSUME NEW a \in Args, Multiply(a) PROVE z \in Members(ix', Int)
    <3>1. ix' = Mult(ix, a) /\ \E x \in ints : \E y \in Members(a, Win) : z = x * y
      BY <2>9 DEF Multiply, Apply, ImageOf
    <3> QED BY <1>1, <2>1, <2>2, <2>3, <3>1, MultCovers
  <2>10. ASSUME NEW a \in Args, Divide(a) PROVE z \in Members(ix', Int)
    <3>1. ix' = Div(ix, a) /\ \E x \in ints : \E y \in Members(a, Win) \ {0} : z = Quot(x, y)
      BY <2>10 DEF Divide, Apply
    <3>2. PICK x \in ints, y \in Members(a, Win) : y # 0 /\ z = Quot(x, y)
      BY <3>1
    <3>3. x \in Members(ix, Int) /\ y \in Members(a, Int) /\ a \in StrictIndices
      BY <1>1, <2>2, <2>3
    <3> QED BY <2>1, <3>1, <3>2, <3>3, DivCovers
  <2>11. ASSUME Cast PROVE z \in Members(ix', Int)
    <3>1. ix' = Unsign(ix) /\ z \in ints /\ z >= 0
      BY <2>11 DEF Cast, Apply
    <3> QED BY <2>1, <2>2, <3>1, UnsignCovers
  <2>12. ASSUME NEW strict \in 0..1, Less(strict) PROVE z \in Members(ix', Int)
    <3>1. ix' = Below(strict, ix) /\ z \in Int /\ \E x \in ints : z + strict <= x
      BY <2>12 DEF Less, Apply
    <3> QED BY <2>1, <2>2, <3>1, SideCovers
  <2>13. ASSUME NEW strict \in 0..1, Greater(strict) PROVE z \in Members(ix', Int)
    <3>1. ix' = Above(strict, ix) /\ z \in Int /\ \E x \in ints : z >= x + strict
      BY <2>13 DEF Greater, Apply
    <3> QED BY <2>1, <2>2, <3>1, SideCovers
  <2>14. ASSUME Done PROVE z \in Members(ix', Int)
    <3>1. ix' = ix /\ ints' = ints
      BY <2>14 DEF Done, evalVars
    <3> QED BY <2>2, <3>1
  <2> QED BY <2>5, <2>6, <2>7, <2>8, <2>9, <2>10, <2>11, <2>12, <2>13, <2>14 DEF EvalNext
<1> QED BY <1>2, <1>3, PTL DEF EvalSpec, CoversStepwise

-----------------------------------------------------------------------------
(* The form of what is computed.                                             *)

LEMMA FormedClass ==
  ASSUME None \notin Int, NEW lb \in Bounds, NEW ub \in Bounds, NEW m \in Nat \ {0},
         NEW c \in 0..(m - 1),
         lb # None => Divides(m, lb - c), ub # None => Divides(m, ub - c)
  PROVE  WellFormed(Class(lb, ub, c, m))
<1>1. \A b \in Int : Divides(m, b - c) => Rem(b - c, m) = 0
  BY RemIsZero
<1>2. /\ lb # None => Rem(lb - c, m) = 0
      /\ ub # None => Rem(ub - c, m) = 0
  BY <1>1 DEF Bounds
<1>3. /\ Class(lb, ub, c, m).lb = lb /\ Class(lb, ub, c, m).ub = ub
      /\ Class(lb, ub, c, m).c = c /\ Class(lb, ub, c, m).m = m
  BY DEF Class
<1> QED BY <1>2, <1>3 DEF WellFormed

LEMMA FormedOther ==
  /\ WellFormed(Bot) /\ \A k : WellFormed(IInt(k))
  /\ WellFormed(Top) /\ WellFormed(NonNeg)
  /\ None \notin Int => \A k \in Int : WellFormed(MkLeq(k)) /\ WellFormed(MkGeq(k))
<1>1. WellFormed(Bot) /\ \A k : WellFormed(IInt(k))
  BY DEF WellFormed, Bot, IInt, IsClass
<1>2. \A b \in Int : Rem(b - 0, 1) = 0
  BY RemIsZero, DividesItself, 1 \in Int \ {0}
<1>3. \A k \in Int : WellFormed(Class(k, None, 0, 1)) /\ WellFormed(Class(None, k, 0, 1))
                     /\ WellFormed(Class(None, None, 0, 1))
  BY <1>2 DEF WellFormed, Class
<1> QED BY <1>1, <1>3, 0 \in Int DEF Top, NonNeg, MkLeq, MkGeq

LEMMA LubIntsFormed ==
  ASSUME None \notin Int, NEW k \in Nat, NEW l \in Nat, k # l
  PROVE  WellFormed(LubInts(k, l))
<1> DEFINE lo == IF k < l THEN k ELSE l
           hi == IF k < l THEN l ELSE k
           d  == Abs(k - l)
           c  == Rem(k, Abs(k - l))
<1>1. d \in Nat \ {0} /\ lo \in Bounds /\ hi \in Bounds /\ lo \in {k, l} /\ hi \in {k, l}
  BY DEF Abs, Bounds
<1>2. LubInts(k, l) = Class(lo, hi, c, d)
  BY DEF LubInts
<1>3. Divides(d, l - k)
  <2>1. l - k = d * 1 \/ l - k = d * (-1)
    BY DEF Abs
  <2> QED BY <2>1, 1 \in Int, -1 \in Int DEF Divides
<1>4. c = Rem(k, d)
  OBVIOUS
<1> HIDE DEF lo, hi, d, c
<1>5. c \in 0..(d - 1) /\ Divides(d, k - c)
  BY <1>1, <1>4, RemNat
<1>6. Divides(d, l - c)
  <2>1. d \in Int /\ l - k \in Int /\ k - c \in Int /\ (l - k) + (k - c) = l - c
    BY <1>1, <1>5
  <2> QED BY <1>3, <1>5, <2>1, DividesSum
<1>7. Divides(d, lo - c) /\ Divides(d, hi - c)
  BY <1>1, <1>5, <1>6
<1> QED BY <1>1, <1>2, <1>5, <1>7, FormedClass

\* Classes whose period divides the periods, and the difference of the remainders,
\* of two others, and whose bounds are bounds of these.
LEMMA Coarser ==
  ASSUME None \notin Int, NEW m \in Nat \ {0}, NEW e \in Nat,
         NEW d \in Int, NEW f \in Int, NEW b \in Int,
         Divides(m, d), Divides(d, b - f), Divides(m, f - e)
  PROVE  Rem(e, m) \in 0..(m - 1) /\ Divides(m, b - Rem(e, m))
<1> DEFINE c == Rem(e, m)
<1>1. c \in 0..(m - 1) /\ Divides(m, e - c)
  BY RemNat
<1> HIDE DEF c
<1>2. b - f \in Int /\ f - e \in Int /\ e - c \in Int /\ b - e \in Int /\ m \in Int
      /\ (b - f) + (f - e) = b - e /\ (b - e) + (e - c) = b - c
  BY <1>1
<1>3. Divides(m, b - f)
  BY <1>2, DividesTransitive
<1>4. Divides(m, b - e)
  BY <1>2, <1>3, DividesSum
<1>5. Divides(m, b - c)
  BY <1>1, <1>2, <1>4, DividesSum
<1> QED BY <1>1, <1>5 DEF c

LEMMA LubIntClassFormed ==
  ASSUME None \notin Int, NEW k \in Nat, NEW i \in ProperIndices, IsClass(i)
  PROVE  WellFormed(LubIntClass(k, i))
<1> DEFINE r  == Rem(k, i.m)
           m  == Gcd(i.m, Abs(i.c - r))
           lb == LowerMin(i.lb, k)
           ub == UpperMax(i.ub, k)
           c  == Rem(i.c, m)
<1>1. /\ i.m \in Nat \ {0} /\ i.c \in Nat /\ i.lb \in Bounds /\ i.ub \in Bounds /\ k \in Bounds
      /\ i.lb # None => Divides(i.m, i.lb - i.c)
      /\ i.ub # None => Divides(i.m, i.ub - i.c)
  BY ProperFields DEF Bounds
<1>2. r \in Nat /\ Divides(i.m, k - r)
  <2>1. r \in 0..(i.m - 1) /\ Divides(i.m, k - r)
    BY <1>1, RemNat
  <2> QED BY <1>1, <2>1
<1>3. LubIntClass(k, i) = Class(lb, ub, c, m) /\ Rem(i.c, m) = c
  BY DEF LubIntClass
<1>4. lb \in {i.lb, k} /\ ub \in {i.ub, k}
  BY <1>1, LeastAndGreatest
<1> HIDE DEF r, lb, ub, c
<1>5. Abs(i.c - r) \in Nat /\ (Abs(i.c - r) = i.c - r \/ Abs(i.c - r) = -(i.c - r))
  BY <1>1, <1>2 DEF Abs
<1>6. m \in Nat \ {0} /\ Divides(m, i.m) /\ Divides(m, Abs(i.c - r))
  BY <1>1, <1>5, GcdNat
<1> HIDE DEF m
<1>7. Divides(m, r - i.c)
  <2>1. r - i.c = Abs(i.c - r) \/ r - i.c = -Abs(i.c - r)
    BY <1>1, <1>2, <1>5
  <2> QED BY <1>5, <1>6, <2>1, 1 \in Int, DividesTimes
<1>8. c \in 0..(m - 1) /\ Divides(m, k - c)
  BY <1>1, <1>2, <1>3, <1>6, <1>7, Coarser
<1>9. Divides(m, i.c - i.c)
  BY <1>1, <1>6, i.c - i.c = 0, DividesItself
<1>10. \A b \in Int : Divides(i.m, b - i.c) => Divides(m, b - c)
  BY <1>1, <1>3, <1>6, <1>9, Coarser
<1>11. (lb # None => Divides(m, lb - c)) /\ (ub # None => Divides(m, ub - c))
  BY <1>1, <1>4, <1>8, <1>10 DEF Bounds
<1>12. lb \in Bounds /\ ub \in Bounds
  BY <1>1, <1>4
<1> QED BY <1>3, <1>6, <1>8, <1>11, <1>12, FormedClass

LEMMA LubClassesFormed ==
  ASSUME None \notin Int, NEW i \in ProperIndices, NEW j \in ProperIndices, IsClass(i), IsClass(j)
  PROVE  WellFormed(LubClasses(i, j))
<1> DEFINE d  == Abs(i.c - j.c)
           g  == Gcd(j.m, d)
           m  == Gcd(i.m, g)
           lb == LowerMin(i.lb, j.lb)
           ub == UpperMax(i.ub, j.ub)
           c  == Rem(i.c, m)
<1>1. /\ i.m \in Nat \ {0} /\ i.c \in Nat /\ i.lb \in Bounds /\ i.ub \in Bounds
      /\ j.m \in Nat \ {0} /\ j.c \in Nat /\ j.lb \in Bounds /\ j.ub \in Bounds
      /\ i.lb # None => Divides(i.m, i.lb - i.c)
      /\ i.ub # None => Divides(i.m, i.ub - i.c)
      /\ j.lb # None => Divides(j.m, j.lb - j.c)
      /\ j.ub # None => Divides(j.m, j.ub - j.c)
  BY ProperFields
<1>2. LubClasses(i, j) = Class(lb, ub, c, m) /\ Rem(i.c, m) = c
  BY DEF LubClasses
<1>3. lb \in {i.lb, j.lb} /\ ub \in {i.ub, j.ub}
  BY <1>1, LeastAndGreatest
<1> HIDE DEF lb, ub, c
<1>4. d \in Nat /\ (j.c - i.c = d \/ j.c - i.c = -d)
  BY <1>1 DEF Abs
<1> HIDE DEF d
<1>5. g \in Nat \ {0} /\ Divides(g, j.m) /\ Divides(g, d)
  BY <1>1, <1>4, GcdNat
<1> HIDE DEF g
<1>6. m \in Nat \ {0} /\ Divides(m, i.m) /\ Divides(m, g)
  BY <1>1, <1>5, GcdNat
<1> HIDE DEF m
<1>7. Divides(m, j.m) /\ Divides(m, d)
  BY <1>1, <1>4, <1>5, <1>6, DividesTransitive
<1>8. Divides(m, j.c - i.c)
  BY <1>4, <1>6, <1>7, 1 \in Int, DividesTimes
<1>9. Divides(m, i.c - i.c)
  BY <1>1, <1>6, i.c - i.c = 0, DividesItself
<1>10. \A b \in Int : Divides(i.m, b - i.c) => Divides(m, b - c)
  BY <1>1, <1>2, <1>6, <1>9, Coarser
<1>11. \A b \in Int : Divides(j.m, b - j.c) => Divides(m, b - c)
  BY <1>1, <1>2, <1>6, <1>7, <1>8, Coarser
<1>12. (lb # None => Divides(m, lb - c)) /\ (ub # None => Divides(m, ub - c))
  BY <1>1, <1>3, <1>10, <1>11 DEF Bounds
<1>13. lb \in Bounds /\ ub \in Bounds /\ c \in 0..(m - 1)
  BY <1>1, <1>2, <1>3, <1>6, RemNat
<1> QED BY <1>2, <1>6, <1>12, <1>13, FormedClass

LEMMA LubFormed ==
  ASSUME None \notin Int, NEW i \in ProperIndices, NEW j \in ProperIndices
  PROVE  WellFormed(Lub(i, j))
<1>1. i \in Indices /\ j \in Indices /\ WellFormed(i) /\ WellFormed(j)
  BY DEF ProperIndices, StrictIndices, Proper
<1>2. CASE IsSubindex(i, j) \/ IsSubindex(j, i)
  BY <1>1, <1>2 DEF Lub
<1>3. CASE ~IsSubindex(i, j) /\ ~IsSubindex(j, i)
  <2>1. ~IsBot(i) /\ ~IsBot(j)
    BY <1>3 DEF IsSubindex
  <2>2. CASE IsInt(i) /\ IsInt(j)
    <3>1. i.val \in Nat /\ j.val \in Nat /\ i.val # j.val
      BY <1>3, <2>2, ProperInt DEF IsSubindex
    <3>2. Lub(i, j) = LubInts(i.val, j.val)
      BY <1>1, <1>3, <2>2, Kinds DEF Lub
    <3> QED BY <3>1, <3>2, LubIntsFormed
  <2>3. CASE IsInt(i) /\ IsClass(j)
    <3>1. Lub(i, j) = LubIntClass(i.val, j) /\ i.val \in Nat
      BY <1>1, <1>3, <2>3, Kinds, ProperInt DEF Lub
    <3> QED BY <2>3, <3>1, LubIntClassFormed
  <2>4. CASE IsClass(i) /\ IsInt(j)
    <3>1. Lub(i, j) = LubIntClass(j.val, i) /\ j.val \in Nat
      BY <1>1, <1>3, <2>4, Kinds, ProperInt DEF Lub
    <3> QED BY <2>4, <3>1, LubIntClassFormed
  <2>5. CASE IsClass(i) /\ IsClass(j)
    <3>1. Lub(i, j) = LubClasses(i, j)
      BY <1>1, <1>3, <2>5, Kinds DEF Lub
    <3> QED BY <2>5, <3>1, LubClassesFormed
  <2> QED BY <1>1, <2>1, <2>2, <2>3, <2>4, <2>5, Kinds
<1> QED BY <1>2, <1>3

LEMMA GlbFormed ==
  ASSUME None \notin Int, NEW i \in ProperIndices, NEW j \in ProperIndices
  PROVE  WellFormed(Glb(i, j))
<1>1. i \in Indices /\ j \in Indices /\ WellFormed(i) /\ WellFormed(j)
  BY DEF ProperIndices, StrictIndices, Proper
<1>2. ASSUME IsClass(i), IsClass(j) PROVE WellFormed(GlbClasses(i, j))
  <2> DEFINE m  == GlbPeriod(i, j)
             c  == GlbRest(i, j)
             lb == GlbLowest(i, j)
             ub == GlbHighest(i, j)
             lo == LowerMax(i.lb, j.lb)
             hi == UpperMin(i.ub, j.ub)
  <2>1. CASE Congruent(i, j, m) = {}
    BY <2>1, FormedOther, GlbParts
  <2>2. CASE Congruent(i, j, m) # {}
    <3>1. m \in Nat \ {0} /\ c \in 0..(m - 1) /\ lb \in Bounds /\ ub \in Bounds
      BY <1>1, <1>2, <2>2, GlbPartsTyped
    <3>2. GlbClasses(i, j) =
            CASE lb # None /\ ub # None /\ lb = ub -> IInt(ub)
              [] lb # None /\ ub # None /\ ub < lb -> Bot
              [] OTHER -> Class(lb, ub, c, m)
      BY <2>2, GlbParts
    <3>3. /\ lb = IF lo = None THEN None ELSE m * Quot(lo + m - c - 1, m) + c
          /\ ub = IF hi = None THEN None ELSE m * Quot(hi - c, m) + c
      BY DEF GlbLowest, GlbHighest
    <3>4. lo \in Bounds /\ hi \in Bounds
      BY <1>1, <1>2, ClassFields DEF LowerMax, UpperMin
    <3> HIDE DEF m, c, lb, ub, lo, hi
    <3>5. \A x \in Int : Divides(m, (m * Quot(x, m) + c) - c)
      <4> SUFFICES ASSUME NEW x \in Int PROVE Divides(m, (m * Quot(x, m) + c) - c)
        OBVIOUS
      <4>1. Quot(x, m) \in Int
        BY <3>1 DEF Quot, Abs
      <4>2. m * Quot(x, m) \in Int
        BY <3>1, <4>1
      <4>3. (m * Quot(x, m) + c) - c = m * Quot(x, m)
        BY <3>1, <4>2
      <4> QED BY <4>1, <4>3 DEF Divides
    <3>6. lb # None => Divides(m, lb - c)
      BY <3>1, <3>3, <3>4, <3>5 DEF Bounds
    <3>7. ub # None => Divides(m, ub - c)
      BY <3>1, <3>3, <3>4, <3>5 DEF Bounds
    <3>8. WellFormed(Class(lb, ub, c, m))
      BY <3>1, <3>6, <3>7, FormedClass
    <3>9. GlbClasses(i, j) \in {IInt(ub), Bot, Class(lb, ub, c, m)}
      BY <3>2
    <3> QED BY <3>8, <3>9, FormedOther
  <2> QED BY <2>1, <2>2
<1>3. Glb(i, j) \in {i, j, Bot} \/ (IsClass(i) /\ IsClass(j) /\ Glb(i, j) = GlbClasses(i, j))
  BY DEF Glb
<1> QED BY <1>1, <1>2, <1>3, FormedOther

LEMMA OffsetFormed ==
  ASSUME None \notin Int, NEW k \in Nat, NEW i \in ProperIndices
  PROVE  WellFormed(Offset(k, i))
<1>1. i \in Indices
  BY DEF ProperIndices, StrictIndices
<1>2. CASE IsBot(i)
  BY <1>1, <1>2, Kinds, FormedOther DEF Offset
<1>3. CASE IsInt(i)
  BY <1>1, <1>3, Kinds, FormedOther DEF Offset
<1>4. CASE IsClass(i)
  <2> DEFINE lb == BoundPlus(k, i.lb)
             ub == BoundPlus(k, i.ub)
             c  == Rem(i.c + k, i.m)
  <2>1. /\ i.m \in Nat \ {0} /\ i.c \in Nat /\ i.lb \in Bounds /\ i.ub \in Bounds
        /\ i.lb # None => Divides(i.m, i.lb - i.c)
        /\ i.ub # None => Divides(i.m, i.ub - i.c)
    BY <1>4, ProperFields
  <2>2. Offset(k, i) = Class(lb, ub, c, i.m)
    BY <1>1, <1>4, Kinds DEF Offset
  <2>3. c \in 0..(i.m - 1) /\ Divides(i.m, (i.c + k) - c)
    BY <2>1, i.c + k \in Nat, RemNat
  <2>4. /\ lb = IF i.lb = None THEN None ELSE k + i.lb
        /\ ub = IF i.ub = None THEN None ELSE k + i.ub
    BY DEF BoundPlus
  <2> HIDE DEF lb, ub, c
  <2>5. ASSUME NEW b \in Int, Divides(i.m, b - i.c) PROVE Divides(i.m, (k + b) - c)
    <3>1. b - i.c \in Int /\ (i.c + k) - c \in Int /\ i.m \in Int
          /\ (b - i.c) + ((i.c + k) - c) = (k + b) - c
      BY <2>1, <2>3
    <3> QED BY <2>3, <2>5, <3>1, DividesSum
  <2>6. lb \in Bounds /\ ub \in Bounds
    BY <2>1, <2>4 DEF Bounds
  <2>7. (lb # None => Divides(i.m, lb - c)) /\ (ub # None => Divides(i.m, ub - c))
    BY <2>1, <2>4, <2>5 DEF Bounds
  <2> QED BY <2>1, <2>2, <2>3, <2>6, <2>7, FormedClass
<1> QED BY <1>1, <1>2, <1>3, <1>4, Kinds

LEMMA PlusFormed ==
  ASSUME None \notin Int, NEW i \in ProperIndices, NEW j \in ProperIndices
  PROVE  WellFormed(Plus(i, j))
<1>1. i \in Indices /\ j \in Indices
  BY DEF ProperIndices, StrictIndices
<1>2. CASE IsBot(i) \/ IsBot(j)
  BY <1>1, <1>2, Kinds, FormedOther DEF Plus
<1>3. CASE IsInt(i) /\ ~IsBot(j)
  <2>1. Plus(i, j) = Offset(i.val, j) /\ i.val \in Nat
    BY <1>1, <1>3, Kinds, ProperInt DEF Plus
  <2> QED BY <2>1, OffsetFormed
<1>4. CASE IsClass(i) /\ IsInt(j)
  <2>1. Plus(i, j) = Offset(j.val, i) /\ j.val \in Nat
    BY <1>1, <1>4, Kinds, ProperInt DEF Plus
  <2> QED BY <2>1, OffsetFormed
<1>5. CASE IsClass(i) /\ IsClass(j)
  <2> DEFINE lb == BoundPlus(i.lb, j.lb)
             ub == BoundPlus(i.ub, j.ub)
             g  == Gcd(i.c, j.c)
             h  == Gcd(j.m, g)
             m  == Gcd(i.m, h)
  <2>1. /\ i.m \in Nat \ {0} /\ i.c \in Nat /\ i.lb \in Bounds /\ i.ub \in Bounds
        /\ i.lb # None => Divides(i.m, i.lb - i.c)
        /\ i.ub # None => Divides(i.m, i.ub - i.c)
    BY <1>5, ProperFields
  <2>2. /\ j.m \in Nat \ {0} /\ j.c \in Nat /\ j.lb \in Bounds /\ j.ub \in Bounds
        /\ j.lb # None => Divides(j.m, j.lb - j.c)
        /\ j.ub # None => Divides(j.m, j.ub - j.c)
    BY <1>5, ProperFields
  <2>3. Plus(i, j) = Class(lb, ub, 0, m)
    BY <1>1, <1>5, Kinds DEF Plus
  <2>4. g \in Nat /\ Divides(g, i.c) /\ Divides(g, j.c)
    BY <2>1, <2>2, GcdNat
  <2> HIDE DEF g
  <2>5. h \in Nat \ {0} /\ Divides(h, j.m) /\ Divides(h, g)
    BY <2>2, <2>4, GcdNat
  <2> HIDE DEF h
  <2>6. m \in Nat \ {0} /\ Divides(m, i.m) /\ Divides(m, h)
    BY <2>1, <2>5, GcdNat
  <2>7. /\ lb = IF i.lb = None \/ j.lb = None THEN None ELSE i.lb + j.lb
        /\ ub = IF i.ub = None \/ j.ub = None THEN None ELSE i.ub + j.ub
    BY DEF BoundPlus
  <2> HIDE DEF m, lb, ub
  <2>8. Divides(m, g) /\ Divides(m, j.m)
    BY <2>2, <2>4, <2>5, <2>6, DividesTransitive
  <2>9. Divides(m, i.c) /\ Divides(m, j.c)
    BY <2>1, <2>2, <2>4, <2>6, <2>8, DividesTransitive
  <2>10. ASSUME NEW d \in Int, NEW c \in Int, NEW b \in Int,
                Divides(m, d), Divides(m, c), Divides(d, b - c)
         PROVE  Divides(m, b)
    <3>1. b - c \in Int /\ (b - c) + c = b
      OBVIOUS
    <3>2. Divides(m, b - c)
      BY <2>6, <2>10, <3>1, DividesTransitive
    <3>3. Divides(m, (b - c) + c)
      BY <2>6, <2>10, <3>1, <3>2, DividesSum
    <3> QED BY <3>1, <3>3
  <2>11. /\ i.lb # None => Divides(m, i.lb)
         /\ i.ub # None => Divides(m, i.ub)
    BY <2>1, <2>6, <2>9, <2>10 DEF Bounds
  <2>12. /\ j.lb # None => Divides(m, j.lb)
         /\ j.ub # None => Divides(m, j.ub)
    BY <2>2, <2>8, <2>9, <2>10 DEF Bounds
  <2>13. \A b, e \in Int : Divides(m, b) /\ Divides(m, e) => Divides(m, (b + e) - 0)
    <3>1. \A b, e \in Int : (b + e) - 0 = b + e
      OBVIOUS
    <3> QED BY <2>6, <3>1, DividesSum
  <2>14. (lb # None => Divides(m, lb - 0)) /\ (ub # None => Divides(m, ub - 0))
    BY <2>1, <2>2, <2>7, <2>11, <2>12, <2>13 DEF Bounds
  <2>15. lb \in Bounds /\ ub \in Bounds /\ 0 \in 0..(m - 1)
    BY <2>1, <2>2, <2>6, <2>7 DEF Bounds
  <2> QED BY <2>3, <2>6, <2>14, <2>15, FormedClass
<1> QED BY <1>1, <1>2, <1>3, <1>4, <1>5, Kinds

LEMMA ScaleFormed ==
  ASSUME None \notin Int, NEW x \in Int, NEW i \in ProperIndices
  PROVE  WellFormed(Scale(x, i))
<1>1. i \in Indices
  BY DEF ProperIndices, StrictIndices
<1>2. CASE ~(IsClass(i) /\ x > 0)
  <2>1. Scale(x, i) \in {Bot, IInt(0), IInt(i.val * x), Top}
    BY <1>1, <1>2, Kinds DEF Scale
  <2> QED BY <2>1, FormedOther
<1>3. CASE IsClass(i) /\ x > 0
  <2> DEFINE lb == BoundTimes(i.lb, x)
             ub == BoundTimes(i.ub, x)
             c  == x * i.c
             m  == x * i.m
  <2>1. /\ i.m \in Nat \ {0} /\ i.c \in 0..(i.m - 1) /\ i.lb \in Bounds /\ i.ub \in Bounds
        /\ i.lb # None => Divides(i.m, i.lb - i.c)
        /\ i.ub # None => Divides(i.m, i.ub - i.c)
    BY <1>3, ProperFields
  <2>2. Scale(x, i) = Class(lb, ub, c, m)
    BY <1>1, <1>3, Kinds DEF Scale
  <2>3. m \in Nat \ {0} /\ c \in 0..(m - 1)
    <3>1. i.m \in Nat /\ i.c \in Nat /\ i.m - i.c >= 1
      BY <2>1
    <3>2. x * i.m \in Nat /\ x * i.m # 0 /\ x * i.c \in Nat
      BY <1>3, <2>1, <3>1
    <3>3. x * (i.m - i.c) >= 1
      BY <1>3, <3>1
    <3>4. x * (i.m - i.c) = x * i.m - x * i.c
      BY <3>1
    <3> QED BY <3>2, <3>3, <3>4
  <2>4. ASSUME NEW b \in Int, Divides(i.m, b - i.c) PROVE b * x \in Int /\ Divides(m, b * x - c)
    <3>1. PICK t \in Int : b - i.c = i.m * t
      BY <2>4 DEF Divides
    <3>2. b * x - x * i.c = x * (b - i.c)
      BY <2>1, TimesSubtracts
    <3>3. x * (i.m * t) = (x * i.m) * t
      BY <2>1
    <3>4. b * x - c = m * t
      BY <3>1, <3>2, <3>3
    <3> QED BY <3>4 DEF Divides
  <2>5. /\ lb = IF i.lb = None THEN None ELSE i.lb * x
        /\ ub = IF i.ub = None THEN None ELSE i.ub * x
    BY DEF BoundTimes
  <2> HIDE DEF lb, ub, c, m
  <2>6. lb \in Bounds /\ (lb # None => Divides(m, lb - c))
    BY <2>1, <2>4, <2>5 DEF Bounds
  <2>7. ub \in Bounds /\ (ub # None => Divides(m, ub - c))
    BY <2>1, <2>4, <2>5 DEF Bounds
  <2> QED BY <2>2, <2>3, <2>6, <2>7, FormedClass
<1> QED BY <1>2, <1>3

LEMMA MultFormed ==
  ASSUME None \notin Int, NEW i \in ProperIndices, NEW j \in ProperIndices
  PROVE  WellFormed(Mult(i, j))
<1>1. i \in Indices /\ j \in Indices
  BY DEF ProperIndices, StrictIndices
<1>2. CASE IsInt(i) /\ ~IsBot(j)
  <2>1. Mult(i, j) = Scale(i.val, j) /\ i.val \in Int
    BY <1>1, <1>2, Kinds, IntField DEF Mult
  <2> QED BY <2>1, ScaleFormed
<1>3. CASE IsClass(i) /\ IsInt(j)
  <2>1. Mult(i, j) = Scale(j.val, i) /\ j.val \in Int
    BY <1>1, <1>3, Kinds, IntField DEF Mult
  <2> QED BY <2>1, ScaleFormed
<1>4. CASE ~(IsInt(i) /\ ~IsBot(j)) /\ ~(IsClass(i) /\ IsInt(j))
  <2>1. Mult(i, j) \in {Bot, Top}
    BY <1>1, <1>4, Kinds DEF Mult
  <2> QED BY <2>1, FormedOther
<1> QED BY <1>2, <1>3, <1>4

LEMMA SideFormed ==
  ASSUME None \notin Int, NEW strict \in 0..1, NEW i \in StrictIndices
  PROVE  WellFormed(Below(strict, i)) /\ WellFormed(Above(strict, i))
<1>1. i \in Indices
  BY DEF StrictIndices
<1>2. IsInt(i) => i.val - strict \in Int /\ i.val + strict \in Int
  BY <1>1, IntField
<1>3. IsClass(i) => /\ i.ub # None => i.ub - strict \in Int
                    /\ i.lb # None => i.lb + strict \in Int
  BY <1>1, ClassFields DEF Bounds
<1>4. \/ Below(strict, i) \in {Bot, Top}
      \/ \E k \in Int : Below(strict, i) = MkLeq(k)
  BY <1>1, <1>2, <1>3, Kinds DEF Below
<1>5. \/ Above(strict, i) \in {Bot, Top}
      \/ \E k \in Int : Above(strict, i) = MkGeq(k)
  BY <1>1, <1>2, <1>3, Kinds DEF Above
<1> QED BY <1>4, <1>5, FormedOther

\* Every operator but minus yields an index of the form the comments give, if the
\* operands are indices over the natural numbers.
THEOREM FormIsKept ==
  ASSUME None \notin Int, Args \subseteq ProperIndices
  PROVE  EvalSpec => KeepsForm
<1>1. Args \subseteq StrictIndices
  BY DEF ProperIndices
<1>2. EvalSpec => []Typed
  BY <1>1, IndexTyped
<1>3. Typed /\ [EvalNext]_evalVars
        => [Proper(ix) /\ (\A a \in Args : ~Subtract(a)) => WellFormed(ix')]_evalVars
  <2> SUFFICES ASSUME Typed, EvalNext, Proper(ix), \A a \in Args : ~Subtract(a)
               PROVE  WellFormed(ix')
    BY DEF evalVars
  <2>1. ix \in ProperIndices /\ ix \in StrictIndices /\ WellFormed(ix)
    BY DEF Typed, ProperIndices, Proper
  <2>2. ASSUME NEW a \in Args, Join(a) \/ Meet(a) PROVE WellFormed(ix')
    BY <2>1, <2>2, LubFormed, GlbFormed DEF Join, Meet, Apply
  <2>3. ASSUME NEW a \in Args, Add(a) \/ Multiply(a) PROVE WellFormed(ix')
    BY <2>1, <2>3, PlusFormed, MultFormed DEF Add, Multiply, Apply
  <2>4. ASSUME NEW a \in Args, Divide(a) PROVE WellFormed(ix')
    <3>1. ix' \in {Bot, IInt(Quot(ix.val, a.val)), Top}
      BY <2>4 DEF Divide, Apply, Div
    <3> QED BY <3>1, FormedOther
  <2>5. ASSUME Cast PROVE WellFormed(ix')
    <3>1. ix' \in {ix, NonNeg}
      BY <2>5 DEF Cast, Apply, Unsign
    <3> QED BY <2>1, <3>1, FormedOther
  <2>6. ASSUME NEW strict \in 0..1, Less(strict) \/ Greater(strict) PROVE WellFormed(ix')
    BY <2>1, <2>6, SideFormed DEF Less, Greater, Apply
  <2>7. ASSUME Done PROVE WellFormed(ix')
    <3>1. ix' = ix
      BY <2>7 DEF Done, evalVars
    <3> QED BY <2>1, <3>1
  <2> QED BY <2>2, <2>3, <2>4, <2>5, <2>6, <2>7 DEF EvalNext
<1> QED BY <1>2, <1>3, PTL DEF EvalSpec, KeepsForm
================================================================================
