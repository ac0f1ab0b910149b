-------------------------------- MODULE Index --------------------------------
(***************************************************************************)
(* Indices, src/index.ml: sets of integers described by bounds and a       *)
(* congruence.  They abstract the offsets at which a pointer may point     *)
(* into its block, and the values of integers.                             *)
(*                                                                         *)
(* The code's / and mod round towards zero (Quot, Rem).                    *)
(***************************************************************************)
EXTENDS Integers, FiniteSets

CONSTANT None       \* no bound

Abs(a) == IF a < 0 THEN -a ELSE a

Quot(a, b) ==
    IF (a < 0) = (b < 0) THEN Abs(a) \div Abs(b) ELSE -(Abs(a) \div Abs(b))

Rem(a, b) == a - b * Quot(a, b)

Euclid[p \in Int \X Int] ==
    IF p[2] = 0 THEN p[1] ELSE Euclid[<<p[2], Rem(p[1], p[2])>>]

Gcd(a, b) == Euclid[<<a, b>>]

Lcm(a, b) == IF a = 0 THEN a ELSE Quot(Abs(a * b), Gcd(a, b))

Bot == [kind |-> "IBot"]
IInt(k) == [kind |-> "IInt", val |-> k]
Class(lb, ub, c, m) == [kind |-> "ICClass", lb |-> lb, ub |-> ub, c |-> c, m |-> m]

IsBot(i) == i.kind = "IBot"
IsInt(i) == i.kind = "IInt"
IsClass(i) == i.kind = "ICClass"

Top == Class(None, None, 0, 1)
NonNeg == Class(0, None, 0, 1)
MkGeq(k) == Class(k, None, 0, 1)
MkLeq(k) == Class(None, k, 0, 1)
MkEqMod(c, m) == Class(None, None, c, m)

MkSequence(start, period, lb, ub) ==
    IF lb # None /\ lb = ub THEN IInt(ub) ELSE Class(lb, ub, Rem(start, period), period)

------------------------------------------------------------------------------
\* Bounds: no lower bound is the least, no upper bound the greatest.
LowerLe(b, d) == b = None \/ (d # None /\ b <= d)
UpperLe(b, d) == d = None \/ (b # None /\ b <= d)

LowerMin(b, d) == IF LowerLe(b, d) THEN b ELSE d
LowerMax(b, d) == IF LowerLe(b, d) THEN d ELSE b
UpperMin(b, d) == IF UpperLe(b, d) THEN b ELSE d
UpperMax(b, d) == IF UpperLe(b, d) THEN d ELSE b

BoundPlus(b, d) == IF b = None \/ d = None THEN None ELSE b + d
BoundTimes(b, x) == IF b = None THEN None ELSE b * x

\* IInt n lies in the class i, by bounds and remainder.
Matches(k, i) == LowerLe(i.lb, k) /\ UpperLe(k, i.ub) /\ Rem(k, i.m) = i.c

\* Faulty variant of IsSubindex: of two classes the remainders are not compared.
IsSubindexByPeriod(i, j) ==
    \/ IsBot(i)
    \/ IsInt(i) /\ IsInt(j) /\ i.val = j.val
    \/ IsInt(i) /\ IsClass(j) /\ Matches(i.val, j)
    \/ /\ IsClass(i) /\ IsClass(j)
       /\ LowerLe(j.lb, i.lb) /\ UpperLe(i.ub, j.ub) /\ Rem(i.m, j.m) = 0

IsSubindex(i, j) ==
    \/ IsBot(i)
    \/ IsInt(i) /\ IsInt(j) /\ i.val = j.val
    \/ IsInt(i) /\ IsClass(j) /\ Matches(i.val, j)
    \/ /\ IsClass(i) /\ IsClass(j)
       /\ LowerLe(j.lb, i.lb) /\ UpperLe(i.ub, j.ub)
       /\ Rem(i.m, j.m) = 0 /\ Rem(i.c, j.m) = j.c

LubIntClass(k, i) ==
    LET m == Gcd(i.m, Abs(i.c - Rem(k, i.m)))
    IN  Class(LowerMin(i.lb, k), UpperMax(i.ub, k), Rem(i.c, m), m)

\* Faulty variant of LubInts: the period of a neighbouring pair.
LubIntsWiderPeriod(k, l) ==
    Class(IF k < l THEN k ELSE l, IF k < l THEN l ELSE k,
          Rem(k, Abs(k - l) + 1), Abs(k - l) + 1)

LubInts(k, l) ==
    Class(IF k < l THEN k ELSE l, IF k < l THEN l ELSE k, Rem(k, Abs(k - l)), Abs(k - l))

LubClasses(i, j) ==
    LET m == Gcd(i.m, Gcd(j.m, Abs(i.c - j.c)))
    IN  Class(LowerMin(i.lb, j.lb), UpperMax(i.ub, j.ub), Rem(i.c, m), m)

Lub(i, j) ==
    CASE IsSubindex(i, j) -> j
      [] ~IsSubindex(i, j) /\ IsSubindex(j, i) -> i
      [] OTHER -> CASE IsInt(i) /\ IsInt(j)   -> LubInts(i.val, j.val)
                    [] IsInt(i) /\ IsClass(j) -> LubIntClass(i.val, j)
                    [] IsClass(i) /\ IsInt(j) -> LubIntClass(j.val, i)
                    [] OTHER                  -> LubClasses(i, j)

\* search_congruent: the greatest of 0 .. m - 1 with both remainders.
Congruent(i, j, m) == {k \in 0 .. m - 1 : Rem(k, i.m) = i.c /\ Rem(k, j.m) = j.c}

\* Faulty variant of GlbClasses: a lower bound that is a member is moved, too.
GlbClassesMovesLower(i, j) ==
    LET m  == Lcm(i.m, j.m)
        ks == Congruent(i, j, m)
    IN  IF ks = {} THEN Bot
        ELSE LET c  == CHOOSE k \in ks : \A l \in ks : l <= k
                 lo == LowerMax(i.lb, j.lb)
                 hi == UpperMin(i.ub, j.ub)
                 lb == IF lo = None THEN None ELSE m * Quot(lo + m - c, m) + c
                 ub == IF hi = None THEN None ELSE m * Quot(hi - c, m) + c
             IN  CASE lb # None /\ ub # None /\ lb = ub -> IInt(ub)
                   [] lb # None /\ ub # None /\ ub < lb -> Bot
                   [] OTHER -> Class(lb, ub, c, m)

\* Bounds are moved to the nearest members, rounding towards zero.
GlbClasses(i, j) ==
    LET m  == Lcm(i.m, j.m)
        ks == Congruent(i, j, m)
    IN  IF ks = {} THEN Bot
        ELSE LET c  == CHOOSE k \in ks : \A l \in ks : l <= k
                 lo == LowerMax(i.lb, j.lb)
                 hi == UpperMin(i.ub, j.ub)
                 lb == IF lo = None THEN None ELSE m * Quot(lo + m - c - 1, m) + c
                 ub == IF hi = None THEN None ELSE m * Quot(hi - c, m) + c
             IN  CASE lb # None /\ ub # None /\ lb = ub -> IInt(ub)
                   [] lb # None /\ ub # None /\ ub < lb -> Bot
                   [] OTHER -> Class(lb, ub, c, m)

Glb(i, j) ==
    CASE IsSubindex(i, j) -> i
      [] ~IsSubindex(i, j) /\ IsSubindex(j, i) -> j
      [] OTHER -> IF IsClass(i) /\ IsClass(j) THEN GlbClasses(i, j) ELSE Bot

Overlaps(i, j) == Glb(i, j) # Bot

------------------------------------------------------------------------------
\* Faulty variant of Offset: the remainder is not reduced.
OffsetUnreduced(k, i) ==
    CASE IsBot(i) -> Bot
      [] IsInt(i) -> IInt(k + i.val)
      [] OTHER    -> Class(BoundPlus(k, i.lb), BoundPlus(k, i.ub), i.c + k, i.m)

Offset(k, i) ==
    CASE IsBot(i) -> Bot
      [] IsInt(i) -> IInt(k + i.val)
      [] OTHER    -> Class(BoundPlus(k, i.lb), BoundPlus(k, i.ub), Rem(i.c + k, i.m), i.m)

Plus(i, j) ==
    CASE IsBot(i) \/ IsBot(j) -> Bot
      [] IsInt(i) /\ ~IsBot(j) -> Offset(i.val, j)
      [] IsClass(i) /\ IsInt(j) -> Offset(j.val, i)
      [] OTHER -> Class(BoundPlus(i.lb, j.lb), BoundPlus(i.ub, j.ub), 0,
                        Gcd(i.m, Gcd(j.m, Gcd(i.c, j.c))))

Minus(i, j) ==
    CASE IsBot(i) \/ IsBot(j) -> Bot
      [] IsInt(i) /\ IsInt(j) -> IInt(i.val - j.val)
      [] IsClass(i) /\ IsInt(j) /\ i.lb # None /\ LowerLe(j.val, i.lb) ->
           Class(i.lb - j.val, BoundPlus(-j.val, i.ub), Rem(i.c - j.val, i.m), i.m)
      [] OTHER -> Top

Scale(x, i) ==
    CASE IsBot(i) -> Bot
      [] ~IsBot(i) /\ x = 0 -> IInt(0)
      [] IsInt(i) /\ x # 0 -> IInt(i.val * x)
      [] IsClass(i) /\ x < 0 -> Top
      [] OTHER -> Class(BoundTimes(i.lb, x), BoundTimes(i.ub, x), x * i.c, x * i.m)

Mult(i, j) ==
    CASE IsBot(i) \/ IsBot(j) -> Bot
      [] IsInt(i) /\ ~IsBot(j) -> Scale(i.val, j)
      [] IsClass(i) /\ IsInt(j) -> Scale(j.val, i)
      [] OTHER -> Top

\* Undefined (Division_by_zero is raised) if j is IInt 0 and i an integer.
Div(i, j) ==
    CASE IsBot(i) \/ IsBot(j) -> Bot
      [] IsInt(i) /\ IsInt(j) -> IInt(Quot(i.val, j.val))
      [] OTHER -> Top

Unsign(i) ==
    IF \/ IsBot(i)
       \/ IsInt(i) /\ i.val >= 0
       \/ IsClass(i) /\ i.lb # None /\ LowerLe(0, i.lb)
    THEN i ELSE NonNeg

\* The values v with v < x (strict 1) or v <= x (strict 0) for an x of i; and
\* those above.
Below(strict, i) ==
    CASE IsBot(i) -> Bot
      [] IsInt(i) -> MkLeq(i.val - strict)
      [] IsClass(i) /\ i.ub # None -> MkLeq(i.ub - strict)
      [] OTHER -> Top

Above(strict, i) ==
    CASE IsInt(i) -> MkGeq(i.val + strict)
      [] IsClass(i) /\ i.lb # None -> MkGeq(i.lb + strict)
      [] OTHER -> Top

------------------------------------------------------------------------------
(***************************************************************************)
(* The meaning: "the integers lb <= n <= ub s.t. n = c (mod m)", those of  *)
(* them that lie in win.                                                   *)
(***************************************************************************)
Members(i, win) ==
    CASE IsBot(i) -> {}
      [] IsInt(i) -> {i.val} \cap win
      [] OTHER    -> {k \in win : LowerLe(i.lb, k) /\ UpperLe(k, i.ub) /\ Rem(k - i.c, i.m) = 0}

\* The invariant the comments of bounded_congruence_class state, but for the
\* strictness of the bounds.
WellFormed(i) ==
    IsClass(i) =>
      /\ 0 < i.m /\ 0 <= i.c /\ i.c < i.m
      /\ i.lb # None => Rem(i.lb - i.c, i.m) = 0
      /\ i.ub # None => Rem(i.ub - i.c, i.m) = 0
===============================================================================
