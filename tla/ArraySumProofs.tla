---------------------------- MODULE ArraySumProofs ----------------------------
(*****************************************************************************)
(* For every array and every number of threads: the accesses of             *)
(* demo/arraysum.c are within the array, its forks pass the checks CSolve    *)
(* makes, so no two tasks race, sum1 returns the sum of the array, and sum2  *)
(* leaves the array its passes lead to.                                      *)
(*****************************************************************************)
EXTENDS ArraySum, SequenceTheorems, WellFoundedInduction, TLAPS

EP == INSTANCE EffectsProofs WITH
        EffNames <- {"read", "write"}, Commuting <- {<<"read", "read">>}

-----------------------------------------------------------------------------
(* The inductive invariant of the tasks.                                     *)

Mains == [fn : {"sum1", "sum2"}, pc : {"entry", "return"}, len : Nat, stride : Nat]
Blocks == [fn : {"sumBlock"}, pc : {"entry", "add"}, i : Nat, len : Nat]
Iterations == [fn : {"iteration"}, j : Nat, stride : Nat]

\* the parts of the cobegin of a block
PartStart(f, k) == IF k = 1 THEN f.i ELSE f.i + (f.len \div 2)
PartLen(f, k) == IF k = 1 THEN f.len \div 2 ELSE f.len - (f.len \div 2)

MainOK(f, n) == f \in Mains /\ f.len = n /\ 2 * f.stride <= n

BlockOK(f, n) ==
  /\ f \in Blocks
  /\ f.len >= 1 /\ f.i + f.len <= n
  /\ f.pc = "add" => f.len > 1

IterationOK(f, n) == f \in Iterations /\ 2 * f.stride <= n

ActOK(f, n) == MainOK(f, n) \/ BlockOK(f, n) \/ IterationOK(f, n)

\* g is the k-th part of what f has forked
PartOf(f, g, k, n) ==
  \/ /\ f.fn = "sum1" /\ f.pc = "return" /\ k = 1
     /\ g.fn = "sumBlock" /\ g.i = 0 /\ g.len = n
  \/ /\ f.fn = "sumBlock" /\ f.pc = "add" /\ k \in {1, 2}
     /\ g.fn = "sumBlock" /\ g.i = PartStart(f, k) /\ g.len = PartLen(f, k)
  \/ f.fn = "sum2" /\ g.fn = "iteration" /\ k \in 0..(THREADS - 1)

\* f is the call of m, or one that m leads to
BelongsTo(p, f, m) ==
  /\ p = <<>> <=> f.fn \in {"sum1", "sum2"}
  /\ p = <<>> => f.fn = m
  /\ f.fn = "sumBlock" => m = "sum1"
  /\ f.fn = "iteration" => m = "sum2"

TypeOK ==
  /\ THREADS \in Nat \ {0} /\ CharValues \in Nat \ {0}
  /\ len \in Nat \ {0} /\ DOMAIN input = 0..(len - 1)
  /\ input \in [0..(len - 1) -> 0..(CharValues - 1)]
  /\ a \in [0..(len - 1) -> 0..(CharValues - 1)]
  /\ method \in {"sum1", "sum2"}

Paths == Seq(Int)

TasksOK ==
  /\ DOMAIN tasks \subseteq Paths
  /\ \A p \in DOMAIN tasks : /\ ActOK(tasks[p], len)
                             /\ BelongsTo(p, tasks[p], method)
                             /\ <<>> \in DOMAIN tasks
  /\ \A p \in DOMAIN tasks, k \in Int :
       Child(p, k) \in DOMAIN tasks => PartOf(tasks[p], tasks[Child(p, k)], k, len)

Inv == TypeOK /\ TasksOK /\ EP!Nested

-----------------------------------------------------------------------------
(* Steps of one task, in the terms of this module.                           *)

LEMMA SameNames ==
  ASSUME NEW p, NEW i
  PROVE  Child(p, i) = EP!Child(p, i) /\ (Running(p) <=> EP!Running(p))
         /\ (Running(p) <=> Checked!Running(p))
BY DEF Running, EP!Running, Checked!Running, IsStrictPrefix, EP!IsStrictPrefix,
       Checked!IsStrictPrefix, IsPrefix, EP!IsPrefix, Checked!IsPrefix, Child, EP!Child

LEMMA SameCheck ==
  ASSUME NEW p
  PROVE  /\ EP!CheckedStep(p) <=> Checked!CheckedStep(p)
         /\ EP!CheckedReturn(p) <=> Checked!CheckedReturn(p)
BY DEF EP!CheckedStep, Checked!CheckedStep, EP!CheckedReturn, Checked!CheckedReturn,
       EP!Return, Checked!Return, EP!Running, Checked!Running, EP!IsStrictPrefix,
       Checked!IsStrictPrefix, EP!IsPrefix, Checked!IsPrefix, EP!Within, Checked!Within,
       EP!Forked, Checked!Forked, EP!Child, Checked!Child, EP!Last, Checked!Last,
       EP!SubEffects, Checked!SubEffects, EP!SiblingsDisjoint, Checked!SiblingsDisjoint,
       EP!ConflictFree, Checked!ConflictFree, EP!NonCommuting, Checked!NonCommuting

LEMMA Fork ==
  ASSUME DOMAIN tasks \subseteq Paths, NEW p, Running(p), NEW act,
         NEW calls, DOMAIN calls \subseteq Int, Cobegin(p, act, calls)
  PROVE  /\ p \in DOMAIN tasks /\ p \in Paths /\ DOMAIN tasks' \subseteq Paths
         /\ DOMAIN tasks' = DOMAIN tasks \cup {Child(p, i) : i \in DOMAIN calls}
         /\ tasks'[p] = act
         /\ \A q \in DOMAIN tasks \ {p} : tasks'[q] = tasks[q]
         /\ \A i \in DOMAIN calls : /\ Child(p, i) \in DOMAIN tasks' \ DOMAIN tasks
                                    /\ tasks'[Child(p, i)] = calls[i]
         /\ \A q \in DOMAIN tasks', k \in Int : Child(q, k) \in DOMAIN tasks' =>
              \/ q = p /\ k \in DOMAIN calls
              \/ q \in DOMAIN tasks \ {p} /\ Child(q, k) \in DOMAIN tasks
<1>1. EP!PathsOK /\ EP!Running(p) /\ EP!Cobegin(p, act, calls) /\ EP!Paths = Paths
  BY SameNames DEF EP!PathsOK, EP!Paths, Paths, EP!Cobegin, Cobegin, EP!Child, Child, EP!Last, Last
<1>2. /\ p \in DOMAIN tasks /\ p \in Paths /\ DOMAIN tasks' \subseteq Paths
      /\ DOMAIN tasks' = DOMAIN tasks \cup {EP!Child(p, i) : i \in DOMAIN calls}
      /\ tasks'[p] = act
      /\ \A q \in DOMAIN tasks \ {p} : tasks'[q] = tasks[q]
      /\ \A i \in DOMAIN calls : /\ EP!Child(p, i) \in DOMAIN tasks' \ DOMAIN tasks
                                 /\ tasks'[EP!Child(p, i)] = calls[i]
  BY <1>1, EP!ForkFacts DEF EP!PathsOK
<1>3. \A q \in DOMAIN tasks', k \in Int : EP!Child(q, k) \in DOMAIN tasks' =>
        \/ q = p /\ k \in DOMAIN calls
        \/ q \in DOMAIN tasks \ {p} /\ EP!Child(q, k) \in DOMAIN tasks
  BY <1>1, EP!ForkChildren
<1> QED BY <1>2, <1>3 DEF Child, EP!Child

LEMMA NoChild ==
  ASSUME DOMAIN tasks \subseteq Paths, NEW p, Running(p), NEW i \in Int
  PROVE  Child(p, i) \notin DOMAIN tasks
<1>1. p \in EP!Paths /\ EP!Running(p)
  BY SameNames DEF Running, Paths, EP!Paths
<1> QED BY <1>1, SameNames, EP!ChildIsNew

LEMMA ChildPath ==
  ASSUME NEW p \in Paths, NEW i \in Int
  PROVE  Child(p, i) \in Paths /\ Child(p, i) # p /\ Child(p, i) # <<>>
<1>1. p \in EP!Paths
  BY DEF Paths, EP!Paths
<1>2. /\ EP!Child(p, i) \in EP!Paths /\ EP!Child(p, i) # p
      /\ Len(EP!Child(p, i)) = Len(p) + 1
  BY <1>1, EP!ChildFacts
<1>3. Len(p) \in Nat
  BY DEF Paths
<1>4. EP!Child(p, i) # <<>>
  BY <1>2, <1>3
<1> QED BY <1>2, <1>4 DEF Paths, EP!Paths, Child, EP!Child

\* When the call of main runs, nothing else does.
LEMMA RootAlone ==
  ASSUME DOMAIN tasks \subseteq Paths, Running(<<>>)
  PROVE  DOMAIN tasks = {<<>>}
<1>1. ASSUME NEW q \in DOMAIN tasks, q # <<>> PROVE FALSE
  <2>1. q \in EP!Paths /\ <<>> \in EP!Paths /\ Len(<<>>) = 0
    BY DEF Paths, EP!Paths
  <2>2. Len(q) \in Nat
    BY DEF Paths
  <2>3. EP!IsPrefix(<<>>, q)
    BY <2>1, <2>2, EP!PrefixAgrees
  <2>4. IsPrefix(<<>>, q)
    BY <2>3 DEF EP!IsPrefix, IsPrefix
  <2> QED BY <1>1, <2>4 DEF Running, IsStrictPrefix
<1> QED BY <1>1 DEF Running

-----------------------------------------------------------------------------
(* What the steps keep of the tasks, and what they check of the effects.     *)

LEMMA WithinFacts ==
  ASSUME NEW f, NEW g,
         Eff(f, "read") \subseteq Eff(g, "read"), Eff(f, "write") \subseteq Eff(g, "write")
  PROVE  EP!Within(f, g)
BY DEF EP!Within

LEMMA ForkKeeps ==
  ASSUME Inv, NEW p, Running(p), NEW act, NEW calls, DOMAIN calls \subseteq Int,
         Cobegin(p, act, calls), UNCHANGED <<method, input>>,
         ActOK(act, len), act.fn = tasks[p].fn,
         \A f, k : PartOf(f, tasks[p], k, len) => PartOf(f, act, k, len),
         \A i \in DOMAIN calls : /\ ActOK(calls[i], len) /\ PartOf(act, calls[i], i, len)
                                 /\ BelongsTo(Child(p, i), calls[i], method),
         EP!Within(act, tasks[p]), EP!Within(tasks[p], act),
         \A i \in DOMAIN calls : EP!Within(calls[i], tasks[p]),
         \A i, j \in DOMAIN calls : i # j => EP!ConflictFree(calls[i], calls[j])
  PROVE  TasksOK' /\ EP!Nested' /\ Checked!CheckedStep(p)
<1>1. /\ p \in DOMAIN tasks /\ p \in Paths /\ DOMAIN tasks' \subseteq Paths
      /\ DOMAIN tasks' = DOMAIN tasks \cup {Child(p, i) : i \in DOMAIN calls}
      /\ tasks'[p] = act
      /\ \A q \in DOMAIN tasks \ {p} : tasks'[q] = tasks[q]
      /\ \A i \in DOMAIN calls : /\ Child(p, i) \in DOMAIN tasks' \ DOMAIN tasks
                                 /\ tasks'[Child(p, i)] = calls[i]
      /\ \A q \in DOMAIN tasks', k \in Int : Child(q, k) \in DOMAIN tasks' =>
           \/ q = p /\ k \in DOMAIN calls
           \/ q \in DOMAIN tasks \ {p} /\ Child(q, k) \in DOMAIN tasks
  BY Fork DEF Inv, TasksOK
<1>2. len' = len /\ method' = method
  BY DEF len
<1>3. ASSUME NEW q \in DOMAIN tasks'
      PROVE  ActOK(tasks'[q], len) /\ BelongsTo(q, tasks'[q], method) /\ <<>> \in DOMAIN tasks'
  <2>1. CASE q = p
    BY <1>1, <2>1 DEF Inv, TasksOK, BelongsTo
  <2>2. CASE q \in DOMAIN tasks \ {p}
    BY <1>1, <2>2 DEF Inv, TasksOK
  <2>3. ASSUME NEW i \in DOMAIN calls, q = Child(p, i)
        PROVE  ActOK(tasks'[q], len) /\ BelongsTo(q, tasks'[q], method) /\ <<>> \in DOMAIN tasks'
    BY <1>1, <2>3 DEF Inv, TasksOK
  <2>4. q \in DOMAIN tasks \/ \E i \in DOMAIN calls : q = Child(p, i)
    BY <1>1
  <2> QED BY <2>1, <2>2, <2>3, <2>4
<1>4. ASSUME NEW q \in DOMAIN tasks', NEW k \in Int, Child(q, k) \in DOMAIN tasks'
      PROVE  PartOf(tasks'[q], tasks'[Child(q, k)], k, len)
  <2>1. CASE q = p /\ k \in DOMAIN calls
    BY <1>1, <2>1
  <2>2. CASE q \in DOMAIN tasks \ {p} /\ Child(q, k) \in DOMAIN tasks
    <3>1. PartOf(tasks[q], tasks[Child(q, k)], k, len) /\ tasks'[q] = tasks[q]
      BY <1>1, <2>2 DEF Inv, TasksOK
    <3>2. CASE Child(q, k) = p
      BY <1>1, <3>1, <3>2
    <3>3. CASE Child(q, k) # p
      BY <1>1, <2>2, <3>1, <3>3
    <3> QED BY <3>2, <3>3
  <2> QED BY <1>1, <1>4, <2>1, <2>2
<1>5. TasksOK'
  <2>1. DOMAIN tasks' \subseteq Paths
    BY <1>1
  <2>2. len' = len
    BY <1>2
  <2> QED BY <1>3, <1>4, <2>1, <2>2 DEF TasksOK
<1>6. EP!PathsOK /\ EP!Running(p) /\ EP!Cobegin(p, act, calls) /\ EP!PathsOK'
  BY <1>1, SameNames
     DEF EP!PathsOK, EP!Paths, Paths, EP!Cobegin, Cobegin, EP!Child, Child, EP!Last, Last,
         Inv, TasksOK
<1>7. EP!CheckedStep(p)
  BY <1>6, EP!ForkChecked
<1>8. EP!Nested'
  BY <1>1, <1>6, <1>7, EP!StepNested DEF Inv
<1> QED BY <1>5, <1>7, <1>8, SameCheck

LEMMA ContinueKeeps ==
  ASSUME Inv, NEW p, Running(p), NEW act, Continue(p, act), UNCHANGED <<method, input>>,
         ActOK(act, len), act.fn = tasks[p].fn,
         \A f, k : PartOf(f, tasks[p], k, len) => PartOf(f, act, k, len),
         EP!Within(act, tasks[p])
  PROVE  TasksOK' /\ EP!Nested' /\ Checked!CheckedStep(p)
<1>1. p \in DOMAIN tasks /\ p \in Paths /\ DOMAIN tasks' = DOMAIN tasks /\ tasks'[p] = act
  BY DEF Running, Inv, TasksOK, Continue
<1>2. \A q \in DOMAIN tasks \ {p} : tasks'[q] = tasks[q]
  BY DEF Continue
<1>3. len' = len /\ method' = method
  BY DEF len
<1>4. ASSUME NEW q \in DOMAIN tasks'
      PROVE  ActOK(tasks'[q], len) /\ BelongsTo(q, tasks'[q], method) /\ <<>> \in DOMAIN tasks'
  BY <1>1, <1>2 DEF Inv, TasksOK, BelongsTo
<1>5. ASSUME NEW q \in DOMAIN tasks', NEW k \in Int, Child(q, k) \in DOMAIN tasks'
      PROVE  PartOf(tasks'[q], tasks'[Child(q, k)], k, len)
  <2>1. q # p
    BY <1>1, <1>5, NoChild DEF Inv, TasksOK
  <2>2. PartOf(tasks[q], tasks[Child(q, k)], k, len) /\ tasks'[q] = tasks[q]
    BY <1>1, <1>2, <1>5, <2>1 DEF Inv, TasksOK
  <2> QED BY <1>1, <1>2, <1>5, <2>2
<1>6. TasksOK'
  BY <1>1, <1>3, <1>4, <1>5 DEF TasksOK, Inv
<1>7. EP!PathsOK /\ EP!Running(p) /\ EP!Continue(p, act)
  BY SameNames DEF EP!PathsOK, EP!Paths, Paths, EP!Continue, Continue, Inv, TasksOK
<1>8. EP!CheckedStep(p)
  BY <1>7, EP!ContinueFacts
<1>9. EP!Nested'
  BY <1>1, <1>7, <1>8, EP!ContinueNested DEF Inv
<1> QED BY <1>6, <1>8, <1>9, SameCheck

LEMMA ReturnKeeps ==
  ASSUME Inv, NEW p, Running(p), Return(p), UNCHANGED <<method, input>>
  PROVE  TasksOK' /\ EP!Nested' /\ Checked!CheckedReturn(p)
<1>1. /\ p \in DOMAIN tasks /\ DOMAIN tasks' = DOMAIN tasks \ {p}
      /\ \A q \in DOMAIN tasks' : tasks'[q] = tasks[q]
  BY DEF Running, Return
<1>2. len' = len /\ method' = method
  BY DEF len
<1>3. TasksOK'
  <2>1. CASE p = <<>>
    <3>1. DOMAIN tasks' = {}
      BY <1>1, <2>1, RootAlone DEF Inv, TasksOK
    <3> QED BY <3>1 DEF TasksOK
  <2>2. CASE p # <<>>
    BY <1>1, <1>2, <2>2 DEF Inv, TasksOK
  <2> QED BY <2>1, <2>2
<1>4. EP!PathsOK /\ EP!Running(p) /\ EP!Return(p)
  BY SameNames DEF EP!PathsOK, EP!Paths, Paths, EP!Return, Return, Inv, TasksOK
<1>5. EP!CheckedReturn(p)
  BY <1>4 DEF EP!CheckedReturn
<1>6. EP!Nested'
  BY <1>1, <1>4, <1>5, EP!ReturnNested DEF Inv
<1> QED BY <1>3, <1>5, <1>6, SameCheck

-----------------------------------------------------------------------------
(* Residues, and the halves of a block.                                      *)

LEMMA DivMod ==
  ASSUME NEW n \in Nat \ {0}, NEW x \in Int
  PROVE  x % n \in 0..(n - 1) /\ x \div n \in Int /\ x = n * (x \div n) + (x % n)
OBVIOUS

LEMMA NoMultiple ==
  ASSUME NEW n \in Nat \ {0}, NEW q \in Int, n * q < n, -n < n * q
  PROVE  q = 0
<1>1. CASE q >= 1
  <2>1. n * q >= n * 1
    BY <1>1
  <2> QED BY <2>1
<1>2. CASE q <= -1
  <2>1. n * q <= n * (-1)
    BY <1>2
  <2> QED BY <2>1
<1> QED BY <1>1, <1>2

LEMMA ModUnique ==
  ASSUME NEW n \in Nat \ {0}, NEW q \in Int, NEW r \in 0..(n - 1)
  PROVE  (n * q + r) % n = r
<1> DEFINE x == n * q + r
           q2 == x \div n
           r2 == x % n
           d == q - q2
<1>1. r2 \in 0..(n - 1) /\ q2 \in Int /\ x = n * q2 + r2
  BY DivMod
<1> HIDE DEF q2, r2
<1>2. d \in Int /\ n * d = r2 - r
  BY <1>1
<1>3. n * d < n /\ -n < n * d
  BY <1>1, <1>2
<1> HIDE DEF d
<1>4. d = 0
  BY <1>2, <1>3, NoMultiple
<1>5. r2 = r
  BY <1>1, <1>2, <1>4
<1> QED BY <1>5 DEF r2

LEMMA ModAdds ==
  ASSUME NEW n \in Nat \ {0}, NEW x \in Int, NEW y \in Int
  PROVE  ((x % n) + (y % n)) % n = (x + y) % n
<1> DEFINE qx == x \div n
           rx == x % n
           qy == y \div n
           ry == y % n
           s == rx + ry
           q == s \div n
           r == s % n
<1>1. /\ rx \in 0..(n - 1) /\ qx \in Int /\ x = n * qx + rx
      /\ ry \in 0..(n - 1) /\ qy \in Int /\ y = n * qy + ry
  BY DivMod
<1> HIDE DEF qx, qy, rx, ry
<1>2. s \in Int
  BY <1>1
<1>3. r \in 0..(n - 1) /\ q \in Int /\ s = n * q + r
  BY <1>2, DivMod
<1> HIDE DEF q, r
<1>4. x + y = n * (qx + qy + q) + r
  BY <1>1, <1>3
<1>5. (n * (qx + qy + q) + r) % n = r
  BY <1>1, <1>3, ModUnique
<1> QED BY <1>4, <1>5 DEF r, rx, ry

LEMMA ModStep ==
  ASSUME NEW n \in Nat \ {0}, NEW x \in Int
  PROVE  (x + n) % n = x % n
<1> DEFINE q == x \div n
           r == x % n
<1>1. r \in 0..(n - 1) /\ q \in Int /\ x = n * q + r
  BY DivMod
<1> HIDE DEF q, r
<1>2. x + n = n * (q + 1) + r
  BY <1>1
<1>3. (n * (q + 1) + r) % n = r
  BY <1>1, ModUnique
<1> QED BY <1>2, <1>3 DEF r

LEMMA ModSmall ==
  ASSUME NEW n \in Nat \ {0}, NEW r \in 0..(n - 1)
  PROVE  r % n = r
BY ModUnique

\* j, j + n, j + 2 * n, ... one by one
LEMMA NextOfResidue ==
  ASSUME NEW n \in Nat \ {0}, NEW j \in Int, NEW x \in Int
  PROVE  x >= j /\ (x - j) % n = 0 <=> x = j \/ (x >= j + n /\ (x - (j + n)) % n = 0)
<1>1. (x - (j + n)) % n = (x - j) % n
  <2>1. (x - (j + n)) + n = x - j /\ x - (j + n) \in Int
    OBVIOUS
  <2> QED BY <2>1, ModStep
<1>2. ASSUME x > j, x < j + n PROVE (x - j) % n # 0
  <2>1. x - j \in 0..(n - 1) /\ x - j # 0
    BY <1>2
  <2> QED BY <2>1, ModSmall
<1>3. (j - j) % n = 0
  BY ModSmall
<1> QED BY <1>1, <1>2, <1>3

\* The indices of two threads are apart.
LEMMA ResidueUnique ==
  ASSUME NEW n \in Nat \ {0}, NEW i \in 0..(n - 1), NEW x \in Int
  PROVE  (x - i) % n = 0 <=> x % n = i
<1> DEFINE y == x - i
           q == y \div n
           r == y % n
           qx == x \div n
           rx == x % n
<1>1. y \in Int /\ r \in 0..(n - 1) /\ q \in Int /\ y = n * q + r
  BY DivMod
<1>2. rx \in 0..(n - 1) /\ qx \in Int /\ x = n * qx + rx
  BY DivMod
<1> HIDE DEF q, r, qx, rx
<1>3. ASSUME r = 0 PROVE rx = i
  <2>1. x = n * q + i
    BY <1>1, <1>3
  <2>2. (n * q + i) % n = i
    BY <1>1, ModUnique
  <2> QED BY <2>1, <2>2 DEF rx
<1>4. ASSUME rx = i PROVE r = 0
  <2>1. y = n * qx + 0
    BY <1>2, <1>4
  <2>2. 0 \in 0..(n - 1)
    OBVIOUS
  <2>3. (n * qx + 0) % n = 0
    BY <1>2, <2>2, ModUnique
  <2> QED BY <2>1, <2>3 DEF r
<1> QED BY <1>3, <1>4 DEF r, rx

LEMMA HalfOf ==
  ASSUME NEW n \in Nat, n > 1
  PROVE  /\ n \div 2 \in Nat \ {0} /\ n - (n \div 2) \in Nat \ {0}
         /\ (n \div 2) + (n - (n \div 2)) = n
OBVIOUS

LEMMA HalfBounds ==
  ASSUME NEW n \in Nat
  PROVE  n \div 2 \in Nat /\ 2 * (n \div 2) <= n
OBVIOUS

LEMMA HalvesOf ==
  ASSUME NEW f \in Blocks, f.len > 1
  PROVE  /\ PartStart(f, 1) = f.i /\ PartLen(f, 1) = f.len \div 2
         /\ PartStart(f, 2) = f.i + PartLen(f, 1) /\ PartLen(f, 1) + PartLen(f, 2) = f.len
         /\ PartLen(f, 1) \in Nat \ {0} /\ PartLen(f, 2) \in Nat \ {0}
         /\ PartStart(f, 1) \in Nat /\ PartStart(f, 2) \in Nat
<1> DEFINE h == f.len \div 2
           m == f.len - h
<1>1. f.i \in Nat /\ f.len \in Nat
  BY DEF Blocks
<1>2. h \in Nat \ {0} /\ m \in Nat \ {0} /\ h + m = f.len
  BY <1>1, HalfOf
<1>3. PartStart(f, 1) = f.i /\ PartStart(f, 2) = f.i + h
  BY DEF PartStart
<1>4. PartLen(f, 1) = h /\ PartLen(f, 2) = m
  BY DEF PartLen
<1>5. PartLen(f, 1) = f.len \div 2
  BY <1>4
<1> HIDE DEF h, m
<1> QED BY <1>1, <1>2, <1>3, <1>4, <1>5

-----------------------------------------------------------------------------
(* Effects.                                                                  *)

LEMMA MainEff ==
  ASSUME NEW f, f.fn \in {"sum1", "sum2"}
  PROVE  Eff(f, "read") = 0..(f.len - 1) /\ Eff(f, "write") = 0..(f.len - 1)
BY DEF Eff

LEMMA BlockEff ==
  ASSUME NEW f, f.fn = "sumBlock"
  PROVE  Eff(f, "read") = f.i..(f.i + f.len - 1) /\ Eff(f, "write") = f.i..(f.i + f.len - 1)
BY DEF Eff

LEMMA IterationEff ==
  ASSUME NEW f, f.fn = "iteration"
  PROVE  /\ Eff(f, "write") = {j \in f.j..(f.stride - 1) : (j - f.j) % THREADS = 0}
         /\ Eff(f, "read") = {j + f.stride : j \in Eff(f, "write")}
BY DEF Eff

\* An iteration writes below its stride and reads from there on.
LEMMA IterationRange ==
  ASSUME NEW f \in Iterations
  PROVE  /\ \A x \in Eff(f, "write") : x \in Nat /\ f.j <= x /\ x < f.stride
         /\ \A x \in Eff(f, "read") : x \in Nat /\ f.stride <= x /\ x < 2 * f.stride
<1>1. f.fn = "iteration" /\ f.j \in Nat /\ f.stride \in Nat
  BY DEF Iterations
<1>2. \A x \in Eff(f, "write") : x \in Nat /\ f.j <= x /\ x < f.stride
  BY <1>1, IterationEff
<1>3. ASSUME NEW x \in Eff(f, "read") PROVE x \in Nat /\ f.stride <= x /\ x < 2 * f.stride
  <2>1. PICK y \in Eff(f, "write") : x = y + f.stride
    BY <1>1, IterationEff
  <2>2. y \in Nat /\ y < f.stride
    BY <1>2
  <2> QED BY <1>1, <2>1, <2>2
<1> QED BY <1>2, <1>3

\* The first element an iteration is about to touch, and the others.
LEMMA IterationGoesOn ==
  ASSUME THREADS \in Nat \ {0}, NEW f \in Iterations, NEW g \in Iterations,
         g.stride = f.stride, g.j = f.j + THREADS, f.j < f.stride
  PROVE  /\ Eff(f, "write") = Eff(g, "write") \cup {f.j}
         /\ f.j \notin Eff(g, "write")
         /\ f.j + f.stride \in Eff(f, "read") /\ Eff(g, "read") \subseteq Eff(f, "read")
<1>1. /\ f.fn = "iteration" /\ f.j \in Nat /\ f.stride \in Nat
      /\ g.fn = "iteration" /\ g.j \in Nat
  BY DEF Iterations
<1>2. ASSUME NEW x \in Int
      PROVE  x \in Eff(f, "write") <=> x \in Eff(g, "write") \/ x = f.j
  <2>1. x \in Eff(f, "write") <=> f.j <= x /\ x < f.stride /\ (x - f.j) % THREADS = 0
    BY <1>1, IterationEff
  <2>2. x \in Eff(g, "write") <=>
          f.j + THREADS <= x /\ x < f.stride /\ (x - (f.j + THREADS)) % THREADS = 0
    BY <1>1, IterationEff
  <2>3. x >= f.j /\ (x - f.j) % THREADS = 0
        <=> x = f.j \/ (x >= f.j + THREADS /\ (x - (f.j + THREADS)) % THREADS = 0)
    <3> DEFINE j == f.j
    <3>1. j \in Int
      BY <1>1
    <3> HIDE DEF j
    <3>2. x >= j /\ (x - j) % THREADS = 0
          <=> x = j \/ (x >= j + THREADS /\ (x - (j + THREADS)) % THREADS = 0)
      BY <3>1, NextOfResidue
    <3> QED BY <3>2 DEF j
  <2> QED BY <1>1, <2>1, <2>2, <2>3
<1>3. \A x \in Eff(f, "write") \cup Eff(g, "write") : x \in Int
  BY <1>1, IterationRange
<1>4. Eff(f, "write") = Eff(g, "write") \cup {f.j}
  BY <1>1, <1>2, <1>3
<1>5. f.j \notin Eff(g, "write")
  BY <1>1, IterationRange
<1> QED BY <1>1, <1>4, <1>5, IterationEff

\* The iterations of a stride write every element below it, each one its own.
LEMMA IterationsPartition ==
  ASSUME THREADS \in Nat \ {0}, NEW s \in Nat
  PROVE  /\ \A x \in 0..(s - 1) :
              \E i \in 0..(THREADS - 1) : x \in Eff(IterationCall(i, s), "write")
         /\ \A i, j \in 0..(THREADS - 1), x \in Int :
              /\ x \in Eff(IterationCall(i, s), "write")
              /\ x \in Eff(IterationCall(j, s), "write")
              => i = j
<1>1. ASSUME NEW i \in 0..(THREADS - 1), NEW x \in Int
      PROVE  x \in Eff(IterationCall(i, s), "write") <=> i <= x /\ x < s /\ x % THREADS = i
  <2>1. Eff(IterationCall(i, s), "write") = {j \in i..(s - 1) : (j - i) % THREADS = 0}
    BY IterationEff DEF IterationCall
  <2> QED BY <2>1, ResidueUnique
<1>2. ASSUME NEW x \in 0..(s - 1)
      PROVE  x % THREADS \in 0..(THREADS - 1) /\ x % THREADS <= x
  <2> DEFINE q == x \div THREADS
             r == x % THREADS
  <2>1. r \in 0..(THREADS - 1) /\ q \in Int /\ x = THREADS * q + r
    BY DivMod
  <2> HIDE DEF q, r
  <2>2. q >= 0
    <3> SUFFICES ASSUME q <= -1 PROVE FALSE
      BY <2>1
    <3>1. THREADS * q <= THREADS * (-1)
      BY <2>1
    <3> QED BY <2>1, <3>1
  <2>3. THREADS * q >= 0
    BY <2>1, <2>2
  <2>4. r \in 0..(THREADS - 1) /\ r <= x
    BY <2>1, <2>3
  <2> QED BY <2>4 DEF r
<1> QED BY <1>1, <1>2

-----------------------------------------------------------------------------
(* The actions, what they keep of the tasks.                                 *)

Frozen == UNCHANGED <<method, input>>

LEMMA TypeKept ==
  ASSUME TypeOK, Frozen, a' \in [0..(len - 1) -> 0..(CharValues - 1)]
  PROVE  TypeOK' /\ len' = len
BY DEF TypeOK, Frozen, len

LEMMA Frame ==
  ASSUME Inv, NEW p \in DOMAIN tasks
  PROVE  /\ ActOK(tasks[p], len) /\ BelongsTo(p, tasks[p], method)
         /\ p = <<>> => MainOK(tasks[p], len) /\ tasks[p].fn = method
         /\ tasks[p].fn \in {"sum1", "sum2"} => MainOK(tasks[p], len) /\ p = <<>>
         /\ tasks[p].fn = "sumBlock" => BlockOK(tasks[p], len) /\ p # <<>>
         /\ tasks[p].fn = "iteration" => IterationOK(tasks[p], len) /\ p # <<>>
         /\ p \in Paths /\ len \in Nat \ {0}
<1>1. /\ ActOK(tasks[p], len) /\ BelongsTo(p, tasks[p], method) /\ p \in Paths
      /\ len \in Nat \ {0} /\ method \in {"sum1", "sum2"}
  BY DEF Inv, TypeOK, TasksOK
<1>2. /\ MainOK(tasks[p], len) => tasks[p].fn \in {"sum1", "sum2"}
      /\ BlockOK(tasks[p], len) => tasks[p].fn = "sumBlock"
      /\ IterationOK(tasks[p], len) => tasks[p].fn = "iteration"
  BY DEF MainOK, BlockOK, IterationOK, Mains, Blocks, Iterations
<1> QED BY <1>1, <1>2 DEF ActOK, BelongsTo

LEMMA CallSumBlockStep ==
  ASSUME Inv, NEW p, CallSumBlock(p)
  PROVE  Inv' /\ Checked!CheckedStep(p)
<1> DEFINE act == [tasks[p] EXCEPT !.pc = "return"]
           calls == <<SumBlockCall(0, len)>>
<1>1. /\ Running(p) /\ p \in DOMAIN tasks /\ tasks[p].fn = "sum1" /\ tasks[p].pc = "entry"
      /\ Cobegin(p, act, calls) /\ UNCHANGED <<method, input, a, result>>
  BY DEF CallSumBlock, At, Running, Call
<1>2. MainOK(tasks[p], len) /\ p = <<>> /\ p \in Paths /\ len \in Nat \ {0} /\ method = "sum1"
  BY <1>1, Frame
<1>3. /\ act.fn = "sum1" /\ act.pc = "return" /\ act.len = tasks[p].len /\ MainOK(act, len)
      /\ tasks[p].len = len
  BY <1>1, <1>2 DEF MainOK, Mains
<1>4. DOMAIN calls = {1} /\ DOMAIN calls \subseteq Int /\ calls[1] = SumBlockCall(0, len)
  OBVIOUS
<1>5. /\ calls[1].fn = "sumBlock" /\ calls[1].i = 0 /\ calls[1].len = len
      /\ ActOK(calls[1], len) /\ PartOf(act, calls[1], 1, len)
      /\ BelongsTo(Child(p, 1), calls[1], method)
  <2>1. calls[1].fn = "sumBlock" /\ calls[1].i = 0 /\ calls[1].len = len
    BY <1>4 DEF SumBlockCall
  <2>2. BlockOK(calls[1], len)
    BY <1>2, <1>4 DEF SumBlockCall, BlockOK, Blocks
  <2>3. Child(p, 1) # <<>>
    BY <1>2, ChildPath
  <2> QED BY <1>2, <1>3, <2>1, <2>2, <2>3 DEF ActOK, PartOf, BelongsTo
<1>6. \A f, k : PartOf(f, tasks[p], k, len) => PartOf(f, act, k, len)
  BY <1>1 DEF PartOf
<1> HIDE DEF act, calls
<1>7. EP!Within(act, tasks[p]) /\ EP!Within(tasks[p], act)
  BY <1>1, <1>3, MainEff, WithinFacts
<1>8. EP!Within(calls[1], tasks[p])
  <2>1. Eff(calls[1], "read") = 0..(0 + len - 1) /\ Eff(calls[1], "write") = 0..(0 + len - 1)
    BY <1>5, BlockEff
  <2>2. Eff(tasks[p], "read") = 0..(len - 1) /\ Eff(tasks[p], "write") = 0..(len - 1)
    BY <1>1, <1>3, MainEff
  <2>3. 0 + len - 1 = len - 1
    BY <1>2
  <2> QED BY <2>1, <2>2, <2>3, WithinFacts
<1>9. TasksOK' /\ EP!Nested' /\ Checked!CheckedStep(p)
  BY <1>1, <1>3, <1>4, <1>5, <1>6, <1>7, <1>8, ForkKeeps DEF ActOK
<1>10. TypeOK'
  BY <1>1, TypeKept DEF Inv, Frozen, TypeOK
<1> QED BY <1>9, <1>10 DEF Inv

\* The halves of a block partition it.
LEMMA SumHalvesStep ==
  ASSUME Inv, NEW p, SumHalves(p)
  PROVE  Inv' /\ Checked!CheckedStep(p)
<1> DEFINE f == tasks[p]
           h == f.len \div 2
           act == [f EXCEPT !.pc = "add"]
           calls == <<SumBlockCall(f.i, h), SumBlockCall(f.i + h, f.len - h)>>
<1>1. /\ Running(p) /\ p \in DOMAIN tasks /\ f.fn = "sumBlock" /\ f.pc = "entry" /\ f.len > 1
      /\ Cobegin(p, act, calls) /\ UNCHANGED <<method, input, a, result>>
  BY DEF SumHalves, At, Running
<1>2. BlockOK(f, len) /\ f \in Blocks /\ p \in Paths /\ len \in Nat \ {0} /\ method = "sum1"
  BY <1>1, Frame DEF BlockOK, BelongsTo
<1>3. /\ act.fn = "sumBlock" /\ act.pc = "add" /\ act.i = f.i /\ act.len = f.len
      /\ act \in Blocks /\ BlockOK(act, len)
  BY <1>1, <1>2 DEF BlockOK, Blocks
<1>4. DOMAIN calls = {1, 2} /\ DOMAIN calls \subseteq Int
  OBVIOUS
<1>5. ASSUME NEW k \in {1, 2}
      PROVE  /\ calls[k].fn = "sumBlock" /\ calls[k].pc = "entry"
             /\ calls[k].i = PartStart(act, k) /\ calls[k].len = PartLen(act, k)
             /\ calls[k] = SumBlockCall(PartStart(act, k), PartLen(act, k))
  BY <1>3 DEF SumBlockCall, PartStart, PartLen
<1>6. \A g, k : PartOf(g, f, k, len) => PartOf(g, act, k, len)
  BY <1>1, <1>3 DEF PartOf
<1> HIDE DEF act, calls
<1>7. /\ PartStart(act, 1) = f.i /\ PartStart(act, 2) = f.i + PartLen(act, 1)
      /\ PartLen(act, 1) + PartLen(act, 2) = f.len /\ f.i + f.len <= len /\ f.i \in Nat
      /\ PartLen(act, 1) \in Nat \ {0} /\ PartLen(act, 2) \in Nat \ {0}
      /\ PartStart(act, 1) \in Nat /\ PartStart(act, 2) \in Nat
  BY <1>1, <1>2, <1>3, HalvesOf DEF BlockOK, Blocks
<1>8. ASSUME NEW k \in {1, 2}
      PROVE  /\ ActOK(calls[k], len) /\ PartOf(act, calls[k], k, len)
             /\ BelongsTo(Child(p, k), calls[k], method)
  <2>1. /\ PartStart(act, k) \in Nat /\ PartLen(act, k) \in Nat \ {0}
        /\ PartStart(act, k) + PartLen(act, k) <= len
    BY <1>2, <1>7
  <2>2. BlockOK(SumBlockCall(PartStart(act, k), PartLen(act, k)), len)
    BY <2>1 DEF BlockOK, Blocks, SumBlockCall
  <2>3. Child(p, k) # <<>>
    BY <1>2, ChildPath
  <2> QED BY <1>2, <1>3, <1>5, <2>2, <2>3 DEF ActOK, PartOf, BelongsTo
<1>9. EP!Within(act, f) /\ EP!Within(f, act)
  BY <1>1, <1>3, BlockEff, WithinFacts
<1>10. ASSUME NEW k \in {1, 2} PROVE EP!Within(calls[k], f)
  <2>1. /\ Eff(calls[k], "read") = PartStart(act, k)..(PartStart(act, k) + PartLen(act, k) - 1)
        /\ Eff(calls[k], "write") = PartStart(act, k)..(PartStart(act, k) + PartLen(act, k) - 1)
    BY <1>5, BlockEff
  <2>2. /\ Eff(f, "read") = f.i..(f.i + f.len - 1)
        /\ Eff(f, "write") = f.i..(f.i + f.len - 1)
    BY <1>1, BlockEff
  <2>3. /\ f.i <= PartStart(act, k) /\ PartStart(act, k) + PartLen(act, k) <= f.i + f.len
        /\ f.i \in Int /\ f.len \in Int /\ PartStart(act, k) \in Int /\ PartLen(act, k) \in Int
    BY <1>2, <1>7 DEF Blocks
  <2>4. Eff(calls[k], "read") \subseteq Eff(f, "read")
    <3>1. \A x \in PartStart(act, k)..(PartStart(act, k) + PartLen(act, k) - 1) :
            x \in f.i..(f.i + f.len - 1)
      BY <2>3
    <3> QED BY <2>1, <2>2, <3>1
  <2> QED BY <2>1, <2>2, <2>4, WithinFacts
<1>11. ASSUME NEW i \in {1, 2}, NEW j \in {1, 2}, i # j
       PROVE  EP!ConflictFree(calls[i], calls[j])
  <2> DEFINE part(k) == PartStart(act, k)..(PartStart(act, k) + PartLen(act, k) - 1)
  <2>1. \A k \in {1, 2} : Eff(calls[k], "read") = part(k) /\ Eff(calls[k], "write") = part(k)
    BY <1>5, BlockEff
  <2>2. part(i) \cap part(j) = {}
    BY <1>7, <1>11
  <2>3. \A e \in {"read", "write"} : Eff(calls[i], e) = part(i) /\ Eff(calls[j], e) = part(j)
    BY <2>1
  <2> HIDE DEF part
  <2> QED BY <2>2, <2>3 DEF EP!ConflictFree, EP!NonCommuting
<1>12. TasksOK' /\ EP!Nested' /\ Checked!CheckedStep(p)
  BY <1>1, <1>3, <1>4, <1>6, <1>8, <1>9, <1>10, <1>11, ForkKeeps DEF ActOK
<1>13. TypeOK'
  BY <1>1, TypeKept DEF Inv, Frozen, TypeOK
<1> QED BY <1>12, <1>13 DEF Inv

LEMMA AddHalvesStep ==
  ASSUME Inv, NEW p, AddHalves(p)
  PROVE  Inv' /\ Checked!CheckedReturn(p)
<1> DEFINE f == tasks[p]
           h == f.len \div 2
<1>1. /\ Running(p) /\ p \in DOMAIN tasks /\ f.fn = "sumBlock" /\ f.pc = "add" /\ Return(p)
      /\ a' = [a EXCEPT ![f.i] = (a[f.i] + a[f.i + h]) % CharValues]
      /\ UNCHANGED <<method, input, result>>
  BY DEF AddHalves, At, Running
<1>2. /\ f.i \in Nat /\ f.len \in Nat /\ f.len > 1 /\ f.i + f.len <= len
      /\ len \in Nat \ {0} /\ CharValues \in Nat \ {0}
  BY <1>1, Frame DEF BlockOK, Blocks, Inv, TypeOK
<1>3. h \in Nat /\ h < f.len
  BY <1>2, HalfOf
<1> HIDE DEF h
<1>4. a[f.i] + a[f.i + h] \in Int
  <2>1. f.i \in 0..(len - 1) /\ f.i + h \in 0..(len - 1)
    BY <1>2, <1>3
  <2> QED BY <1>2, <2>1 DEF Inv, TypeOK
<1>5. (a[f.i] + a[f.i + h]) % CharValues \in 0..(CharValues - 1)
  BY <1>2, <1>4, DivMod
<1>6. a' \in [0..(len - 1) -> 0..(CharValues - 1)]
  BY <1>1, <1>5 DEF Inv, TypeOK
<1>7. TypeOK'
  BY <1>1, <1>6, TypeKept DEF Inv, Frozen
<1> QED BY <1>1, <1>7, ReturnKeeps DEF Inv

LEMMA SumNothingStep ==
  ASSUME Inv, NEW p, SumNothing(p)
  PROVE  Inv' /\ Checked!CheckedReturn(p)
<1>1. Running(p) /\ Return(p) /\ UNCHANGED <<method, input, a, result>>
  BY DEF SumNothing, At
<1>2. TypeOK'
  BY <1>1, TypeKept DEF Inv, Frozen, TypeOK
<1> QED BY <1>1, <1>2, ReturnKeeps DEF Inv

\* No two iterations of a stride conflict: they write different residues below
\* the stride, and read from the stride on.
LEMMA NextStrideStep ==
  ASSUME Inv, NEW p, NextStride(p)
  PROVE  Inv' /\ Checked!CheckedStep(p)
<1> DEFINE f == tasks[p]
           s == f.stride
           h == s \div 2
           act == [f EXCEPT !.stride = h]
           calls == [i \in 0..(THREADS - 1) |-> IterationCall(i, s)]
<1>1. /\ Running(p) /\ p \in DOMAIN tasks /\ f.fn = "sum2" /\ s > 0
      /\ Cobegin(p, act, calls) /\ UNCHANGED <<method, input, a, result>>
  BY DEF NextStride, At, Running
<1>2. /\ MainOK(f, len) /\ p = <<>> /\ p \in Paths /\ len \in Nat \ {0} /\ method = "sum2"
      /\ THREADS \in Nat \ {0}
  BY <1>1, Frame DEF Inv, TypeOK
<1>3. s \in Nat /\ 2 * s <= len /\ f.len = len /\ f \in Mains
  BY <1>2 DEF MainOK, Mains
<1>4. h \in Nat /\ 2 * h <= s
  BY <1>3, HalfBounds
<1> HIDE DEF h
<1>5. act.fn = "sum2" /\ act.len = len /\ MainOK(act, len)
  BY <1>1, <1>2, <1>3, <1>4 DEF MainOK, Mains
<1>6. DOMAIN calls = 0..(THREADS - 1) /\ DOMAIN calls \subseteq Int
  OBVIOUS
<1>7. ASSUME NEW i \in DOMAIN calls
      PROVE  /\ calls[i] = IterationCall(i, s) /\ calls[i].fn = "iteration"
             /\ calls[i] \in Iterations /\ calls[i].stride = s
             /\ ActOK(calls[i], len) /\ PartOf(act, calls[i], i, len)
             /\ BelongsTo(Child(p, i), calls[i], method)
  <2>1. calls[i] = IterationCall(i, s) /\ i \in 0..(THREADS - 1) /\ i \in Nat /\ i \in Int
    BY <1>2, <1>6
  <2>2. calls[i] \in Iterations /\ calls[i].fn = "iteration" /\ calls[i].stride = s
    BY <1>3, <2>1 DEF IterationCall, Iterations
  <2>3. Child(p, i) # <<>>
    BY <1>2, <2>1, ChildPath
  <2> HIDE DEF act, calls
  <2> QED BY <1>2, <1>3, <1>5, <2>1, <2>2, <2>3 DEF ActOK, IterationOK, PartOf, BelongsTo
<1>8. \A g, k : PartOf(g, f, k, len) => PartOf(g, act, k, len)
  BY <1>1 DEF PartOf
<1> HIDE DEF act, calls
<1>9. EP!Within(act, f) /\ EP!Within(f, act)
  BY <1>1, <1>3, <1>5, MainEff, WithinFacts
<1>10. ASSUME NEW i \in DOMAIN calls PROVE EP!Within(calls[i], f)
  <2>1. /\ \A x \in Eff(calls[i], "write") : x \in Nat /\ x < s
        /\ \A x \in Eff(calls[i], "read") : x \in Nat /\ x < 2 * s
    BY <1>3, <1>7, IterationRange
  <2>2. Eff(f, "read") = 0..(len - 1) /\ Eff(f, "write") = 0..(len - 1)
    BY <1>1, <1>3, MainEff
  <2>3. /\ \A x \in Eff(calls[i], "write") : x \in 0..(len - 1)
        /\ \A x \in Eff(calls[i], "read") : x \in 0..(len - 1)
    BY <1>2, <1>3, <2>1
  <2> QED BY <2>2, <2>3, WithinFacts
<1>11. ASSUME NEW i \in DOMAIN calls, NEW j \in DOMAIN calls, i # j
       PROVE  EP!ConflictFree(calls[i], calls[j])
  <2>1. \A k \in DOMAIN calls :
          /\ \A x \in Eff(calls[k], "write") : x \in Nat /\ x < s
          /\ \A x \in Eff(calls[k], "read") : x \in Nat /\ s <= x
    BY <1>3, <1>7, IterationRange
  <2>2. Eff(calls[i], "write") \cap Eff(calls[j], "write") = {}
    <3> SUFFICES ASSUME NEW x \in Eff(calls[i], "write"), x \in Eff(calls[j], "write") PROVE FALSE
      OBVIOUS
    <3>1. x \in Int /\ i \in 0..(THREADS - 1) /\ j \in 0..(THREADS - 1)
      BY <1>6, <2>1
    <3>2. x \in Eff(IterationCall(i, s), "write") /\ x \in Eff(IterationCall(j, s), "write")
      BY <1>7
    <3> QED BY <1>2, <1>3, <1>11, <3>1, <3>2, IterationsPartition
  <2>3. Eff(calls[i], "write") \cap Eff(calls[j], "read") = {}
    BY <1>3, <2>1
  <2>4. Eff(calls[i], "read") \cap Eff(calls[j], "write") = {}
    BY <1>3, <2>1
  <2> QED BY <2>2, <2>3, <2>4 DEF EP!ConflictFree, EP!NonCommuting
<1>12. TasksOK' /\ EP!Nested' /\ Checked!CheckedStep(p)
  BY <1>1, <1>5, <1>6, <1>7, <1>8, <1>9, <1>10, <1>11, ForkKeeps DEF ActOK
<1>13. TypeOK'
  BY <1>1, TypeKept DEF Inv, Frozen, TypeOK
<1> QED BY <1>12, <1>13 DEF Inv

LEMMA CopyStrideStep ==
  ASSUME Inv, NEW p, CopyStride(p)
  PROVE  Inv' /\ Checked!CheckedStep(p)
<1> DEFINE f == tasks[p]
           act == [f EXCEPT !.j = @ + THREADS]
<1>1. /\ Running(p) /\ p \in DOMAIN tasks /\ f.fn = "iteration" /\ f.j < f.stride
      /\ Continue(p, act) /\ a' = [a EXCEPT ![f.j] = a[f.j + f.stride]]
      /\ UNCHANGED <<method, input, result>>
  BY DEF CopyStride, At, Running
<1>2. /\ f \in Iterations /\ 2 * f.stride <= len /\ len \in Nat \ {0} /\ THREADS \in Nat \ {0}
      /\ f.j \in Nat /\ f.stride \in Nat
  BY <1>1, Frame DEF IterationOK, Iterations, Inv, TypeOK
<1>3. /\ act \in Iterations /\ act.fn = "iteration" /\ act.stride = f.stride
      /\ act.j = f.j + THREADS
  BY <1>2 DEF Iterations
<1>4. \A g, k : PartOf(g, f, k, len) => PartOf(g, act, k, len)
  BY <1>1, <1>3 DEF PartOf
<1> HIDE DEF act
<1>5. EP!Within(act, f)
  BY <1>1, <1>2, <1>3, IterationGoesOn, WithinFacts
<1>6. TasksOK' /\ EP!Nested' /\ Checked!CheckedStep(p)
  BY <1>1, <1>2, <1>3, <1>4, <1>5, ContinueKeeps DEF ActOK, IterationOK
<1>7. a[f.j + f.stride] \in 0..(CharValues - 1)
  BY <1>1, <1>2 DEF Inv, TypeOK
<1>8. a' \in [0..(len - 1) -> 0..(CharValues - 1)]
  BY <1>1, <1>7 DEF Inv, TypeOK
<1>9. TypeOK'
  BY <1>1, <1>8, TypeKept DEF Inv, Frozen
<1> QED BY <1>6, <1>9 DEF Inv

LEMMA EndIterationStep ==
  ASSUME Inv, NEW p, EndIteration(p)
  PROVE  Inv' /\ Checked!CheckedReturn(p)
<1>1. Running(p) /\ Return(p) /\ UNCHANGED <<method, input, a, result>>
  BY DEF EndIteration, At
<1>2. TypeOK'
  BY <1>1, TypeKept DEF Inv, Frozen, TypeOK
<1> QED BY <1>1, <1>2, ReturnKeeps DEF Inv

LEMMA ReturnSumStep ==
  ASSUME Inv, NEW p, ReturnSum(p)
  PROVE  Inv' /\ Checked!CheckedReturn(p)
<1>1. Running(p) /\ Return(p) /\ UNCHANGED <<method, input, a>>
  BY DEF ReturnSum, At
<1>2. TypeOK'
  BY <1>1, TypeKept DEF Inv, Frozen, TypeOK
<1> QED BY <1>1, <1>2, ReturnKeeps DEF Inv

LEMMA Initially ==
  ASSUME ArraySumAssumption, Init
  PROVE  Inv /\ Checked!CheckedInit
<1>1. TypeOK /\ len \in Nat \ {0}
  BY DEF ArraySumAssumption, Init, TypeOK, len
<1>2. /\ DOMAIN tasks = {<<>>} /\ <<>> \in Paths
      /\ tasks[<<>>] = [fn |-> method, pc |-> "entry", len |-> len, stride |-> len \div 2]
  BY DEF Init, Start, Paths
<1>3. MainOK(tasks[<<>>], len) /\ BelongsTo(<<>>, tasks[<<>>], method)
  <2>1. len \div 2 \in Nat /\ 2 * (len \div 2) <= len
    BY <1>1, HalfBounds
  <2> DEFINE h == len \div 2
  <2>2. h \in Nat /\ 2 * h <= len
    BY <2>1
  <2>3. tasks[<<>>] = [fn |-> method, pc |-> "entry", len |-> len, stride |-> h]
    BY <1>2
  <2> HIDE DEF h
  <2>4. method \in {"sum1", "sum2"}
    BY <1>1 DEF TypeOK
  <2> QED BY <1>1, <2>2, <2>3, <2>4 DEF MainOK, Mains, BelongsTo
<1>4. ASSUME NEW k \in Int PROVE Child(<<>>, k) \notin DOMAIN tasks
  BY <1>2, ChildPath
<1>5. TasksOK
  BY <1>2, <1>3, <1>4 DEF TasksOK, ActOK
<1>6. EP!Nested
  BY <1>2 DEF EP!Nested, EP!IsStrictPrefix
<1> QED BY <1>1, <1>2, <1>5, <1>6 DEF Inv, Checked!CheckedInit

LEMMA StepOK ==
  ASSUME Inv, [Next]_vars
  PROVE  Inv' /\ [Checked!CheckedNext]_tasks
<1>1. CASE UNCHANGED vars
  BY <1>1 DEF vars, Inv, TypeOK, TasksOK, len, EP!Nested, EP!IsStrictPrefix, EP!IsPrefix,
              EP!Toward, EP!Child, EP!Within
<1>2. ASSUME NEW p \in DOMAIN tasks,
             \/ CallSumBlock(p) \/ SumHalves(p) \/ AddHalves(p) \/ SumNothing(p)
             \/ NextStride(p) \/ CopyStride(p) \/ EndIteration(p)
             \/ ReturnSum(p)
      PROVE  Inv' /\ (Checked!CheckedStep(p) \/ Checked!CheckedReturn(p))
  BY <1>2, CallSumBlockStep, SumHalvesStep, AddHalvesStep, SumNothingStep,
     NextStrideStep, CopyStrideStep, EndIterationStep, ReturnSumStep
<1> QED BY <1>1, <1>2 DEF Next, Checked!CheckedNext, vars

\* The invariant of the tasks, of their parts and of the effects of their parts.
THEOREM Invariance ==
  ASSUME ArraySumAssumption
  PROVE  Spec => []Inv
<1>1. Init => Inv
  BY Initially
<1>2. Inv /\ [Next]_vars => Inv'
  BY StepOK
<1> QED BY <1>1, <1>2, PTL DEF Spec

\* Every fork of arraysum.c passes the checks CSolve makes of it.
THEOREM ForksChecked ==
  ASSUME ArraySumAssumption
  PROVE  Spec => EffectsChecked
<1>1. Init => Checked!CheckedInit
  BY Initially
<1>2. Inv /\ [Next]_vars => [Checked!CheckedNext]_tasks
  BY StepOK
<1> QED BY <1>1, <1>2, Invariance, PTL DEF Spec, EffectsChecked, Checked!CheckedSpec

\* What a step touches is among the effects of its task, and within the array.
LEMMA AccessesWithinEffects ==
  ASSUME Inv, NEW p \in DOMAIN tasks
  PROVE  /\ NextReads(tasks[p]) \subseteq Eff(tasks[p], "read")
         /\ NextWrites(tasks[p]) \subseteq Eff(tasks[p], "write")
         /\ NextReads(tasks[p]) \cup NextWrites(tasks[p]) \subseteq DOMAIN input
<1> DEFINE f == tasks[p]
<1>1. CASE f.fn = "sumBlock" /\ f.pc = "add"
  <2> DEFINE h == f.len \div 2
  <2>1. /\ f.i \in Nat /\ f.len \in Nat /\ f.len > 1 /\ f.i + f.len <= len
        /\ DOMAIN input = 0..(len - 1) /\ len \in Nat \ {0}
    BY <1>1, Frame DEF BlockOK, Blocks, Inv, TypeOK
  <2>2. h \in Nat /\ h < f.len
    BY <2>1, HalfOf
  <2>3. NextReads(f) = {f.i, f.i + h} /\ NextWrites(f) = {f.i}
    BY <1>1 DEF NextReads, NextWrites
  <2>4. Eff(f, "read") = f.i..(f.i + f.len - 1) /\ Eff(f, "write") = f.i..(f.i + f.len - 1)
    BY <1>1, BlockEff
  <2> HIDE DEF h
  <2>5. f.i \in f.i..(f.i + f.len - 1) /\ f.i + h \in f.i..(f.i + f.len - 1)
    BY <2>1, <2>2
  <2>6. f.i \in 0..(len - 1) /\ f.i + h \in 0..(len - 1)
    BY <2>1, <2>2
  <2> QED BY <2>1, <2>3, <2>4, <2>5, <2>6
<1>2. CASE f.fn = "iteration" /\ f.j < f.stride
  <2>1. /\ f \in Iterations /\ 2 * f.stride <= len /\ DOMAIN input = 0..(len - 1)
        /\ len \in Nat \ {0} /\ THREADS \in Nat \ {0} /\ f.j \in Nat /\ f.stride \in Nat
    BY <1>2, Frame DEF IterationOK, Iterations, Inv, TypeOK
  <2>2. NextReads(f) = {f.j + f.stride} /\ NextWrites(f) = {f.j}
    BY <1>2 DEF NextReads, NextWrites
  <2>3. f.j \in Eff(f, "write") /\ f.j + f.stride \in Eff(f, "read")
    <3> DEFINE g == [f EXCEPT !.j = f.j + THREADS]
    <3>1. g \in Iterations /\ g.stride = f.stride /\ g.j = f.j + THREADS
      BY <2>1 DEF Iterations
    <3> HIDE DEF g
    <3> QED BY <1>2, <2>1, <3>1, IterationGoesOn
  <2> QED BY <1>2, <2>1, <2>2, <2>3
<1>3. CASE ~(f.fn = "sumBlock" /\ f.pc = "add") /\ ~(f.fn = "iteration" /\ f.j < f.stride)
  BY <1>3 DEF NextReads, NextWrites
<1> QED BY <1>1, <1>2, <1>3

\* arraysum.c: no access is out of bounds, for every length and number of threads.
THEOREM MemorySafe ==
  ASSUME ArraySumAssumption
  PROVE  Spec => []InBounds
<1>1. Inv => InBounds
  BY AccessesWithinEffects DEF InBounds
<1> QED BY <1>1, Invariance, PTL

\* Tasks that are not forked one by the other have no conflicting effects.
THEOREM NoConflict ==
  ASSUME ArraySumAssumption
  PROVE  Spec => []EP!UnrelatedDisjoint
<1>1. EP!SymmetricCommuting
  BY DEF EP!SymmetricCommuting
<1>2. EP!CheckedSpec /\ []EP!PathsOK => []EP!UnrelatedDisjoint
  BY <1>1, EP!EffectsSuffice
<1>3. Inv => EP!PathsOK
  BY DEF Inv, TasksOK, Paths, EP!PathsOK, EP!Paths
<1>4. Checked!CheckedInit => EP!CheckedInit
  BY DEF Checked!CheckedInit, EP!CheckedInit
<1>5. [Checked!CheckedNext]_tasks => [EP!CheckedNext]_tasks
  BY SameCheck DEF Checked!CheckedNext, EP!CheckedNext
<1> QED BY <1>2, <1>3, <1>4, <1>5, Invariance, ForksChecked, PTL
        DEF EffectsChecked, Checked!CheckedSpec, EP!CheckedSpec

\* Two tasks that run at the same time are unrelated.
LEMMA RunningUnrelated ==
  ASSUME NEW p \in DOMAIN tasks, NEW q \in DOMAIN tasks, Running(p), Running(q), p # q
  PROVE  ~EP!Related(p, q)
BY DEF Running, IsStrictPrefix, IsPrefix, EP!Related, EP!IsPrefix

LEMMA ConflictFacts ==
  ASSUME NEW f, NEW g, EP!ConflictFree(f, g)
  PROVE  /\ Eff(f, "write") \cap Eff(g, "read") = {}
         /\ Eff(f, "write") \cap Eff(g, "write") = {}
         /\ Eff(f, "read") \cap Eff(g, "write") = {}
<1>1. /\ <<"write", "read">> \in EP!NonCommuting /\ <<"write", "write">> \in EP!NonCommuting
      /\ <<"read", "write">> \in EP!NonCommuting
  BY DEF EP!NonCommuting
<1>2. \A e \in EP!NonCommuting : Eff(f, e[1]) \cap Eff(g, e[2]) = {}
  BY DEF EP!ConflictFree
<1> QED BY <1>1, <1>2

\* arraysum.c, "CSolve proves the program behaves deterministically": no two
\* tasks are ever about to touch the same element, one of them writing it.
THEOREM NoRace ==
  ASSUME ArraySumAssumption
  PROVE  Spec => []RaceFree
<1>1. ASSUME Inv, EP!UnrelatedDisjoint, NEW p \in DOMAIN tasks, NEW q \in DOMAIN tasks,
             Running(p), Running(q), p # q
      PROVE  NextWrites(tasks[p]) \cap (NextReads(tasks[q]) \cup NextWrites(tasks[q])) = {}
  <2>1. EP!ConflictFree(tasks[p], tasks[q])
    BY <1>1, RunningUnrelated DEF EP!UnrelatedDisjoint
  <2> QED BY <1>1, <2>1, ConflictFacts, AccessesWithinEffects
<1>2. Inv /\ EP!UnrelatedDisjoint => RaceFree
  BY <1>1 DEF RaceFree
<1> QED BY <1>2, Invariance, NoConflict, PTL

-----------------------------------------------------------------------------
(* Recursion: what Sums and Passes are.                                      *)

NatLess == {m \in Nat \X Nat : m[1] < m[2]}

LEMMA LeastNat ==
  ASSUME NEW T, T \subseteq Nat, T # {}
  PROVE  \E x \in T : \A y \in T : x <= y
<1>1. IsWellFoundedOn(NatLess, Nat)
  BY NatLessThanWellFounded DEF OpToRel, NatLess
<1>2. PICK x \in T : \A y \in T : ~(<<y, x>> \in NatLess)
  BY <1>1, WFMin
<1>3. ASSUME NEW y \in T PROVE x <= y
  <2>1. x \in Nat /\ y \in Nat /\ <<y, x>> \in Nat \X Nat
    OBVIOUS
  <2>2. ~(y < x)
    BY <1>2, <2>1 DEF NatLess
  <2> QED BY <2>1, <2>2
<1> QED BY <1>3

\* Induction, for a set given by what its elements satisfy.
LEMMA Induct ==
  ASSUME NEW S, S \subseteq Nat, 0 \in S, \A n \in S : n + 1 \in S
  PROVE  S = Nat
<1> SUFFICES ASSUME Nat \ S # {} PROVE FALSE
  OBVIOUS
<1>1. PICK x \in Nat \ S : \A y \in Nat \ S : x <= y
  BY LeastNat
<1>2. x # 0 /\ x - 1 \in Nat /\ ~(x <= x - 1)
  OBVIOUS
<1>3. x - 1 \in S
  BY <1>1, <1>2
<1>4. (x - 1) + 1 \in S /\ (x - 1) + 1 = x
  BY <1>2, <1>3
<1> QED BY <1>4

\* s is what this recursion defines.
Follows(s, n, base, step) == s[0] = base /\ \A k \in 1..n : s[k] = step[k][s[k - 1]]

LEMMA RecursionExists ==
  ASSUME NEW n \in Nat, NEW T, NEW base \in T, NEW step \in [Nat -> [T -> T]]
  PROVE  \E s \in [0..n -> T] : Follows(s, n, base, step)
<1> DEFINE S == {m \in Nat : \E s \in [0..m -> T] : Follows(s, m, base, step)}
<1>1. 0 \in S
  <2> DEFINE s == [k \in 0..0 |-> base]
  <2>1. s \in [0..0 -> T] /\ Follows(s, 0, base, step)
    BY DEF Follows
  <2> QED BY <2>1
<1>2. ASSUME NEW m \in S PROVE m + 1 \in S
  <2>1. m \in Nat
    OBVIOUS
  <2>2. PICK s \in [0..m -> T] : Follows(s, m, base, step)
    OBVIOUS
  <2> DEFINE next == step[m + 1][s[m]]
             r == [k \in 0..(m + 1) |-> IF k <= m THEN s[k] ELSE next]
  <2>3. next \in T
    BY <2>1
  <2>4. r \in [0..(m + 1) -> T] /\ r[m + 1] = next /\ \A k \in 0..m : r[k] = s[k]
    BY <2>1, <2>3
  <2> HIDE DEF r
  <2>5. ASSUME NEW k \in 1..(m + 1) PROVE r[k] = step[k][r[k - 1]]
    <3>1. CASE k <= m
      <4>1. k \in 1..m /\ k \in 0..m /\ k - 1 \in 0..m
        BY <2>1, <3>1
      <4>2. s[k] = step[k][s[k - 1]]
        BY <2>2, <4>1 DEF Follows
      <4> QED BY <2>4, <4>1, <4>2
    <3>2. CASE k = m + 1
      <4>1. k - 1 = m /\ m \in 0..m
        BY <2>1, <3>2
      <4> QED BY <2>4, <3>2, <4>1
    <3> QED BY <2>1, <3>1, <3>2
  <2>6. r[0] = base
    BY <2>1, <2>2, <2>4 DEF Follows
  <2>7. Follows(r, m + 1, base, step)
    BY <2>5, <2>6 DEF Follows
  <2> QED BY <2>1, <2>4, <2>7
<1> HIDE DEF S
<1>3. S = Nat
  BY <1>1, <1>2, Induct DEF S
<1> QED BY <1>3 DEF S

LEMMA SumsFacts ==
  ASSUME TypeOK
  PROVE  /\ Sums(input)[0] = 0
         /\ \A k \in 0..len : Sums(input)[k] \in Int
         /\ \A k \in 0..(len - 1) : Sums(input)[k + 1] = Sums(input)[k] + input[k]
<1> DEFINE step == [k \in Nat |-> [v \in Int |-> IF k \in 1..len THEN v + input[k - 1] ELSE v]]
           Body(s) == [k \in 0..len |-> IF k = 0 THEN 0 ELSE s[k - 1] + input[k - 1]]
<1>1. len \in Nat /\ \A k \in 1..len : input[k - 1] \in Int
  BY DEF TypeOK
<1>2. step \in [Nat -> [Int -> Int]]
  BY <1>1
<1>3. PICK s \in [0..len -> Int] : Follows(s, len, 0, step)
  <2> DEFINE T == Int
             base == 0
  <2>1. base \in T /\ step \in [Nat -> [T -> T]]
    BY <1>2
  <2> HIDE DEF step, T, base
  <2>2. \E s \in [0..len -> T] : Follows(s, len, base, step)
    BY <1>1, <2>1, RecursionExists
  <2> QED BY <2>2 DEF T, base
<1>4. ASSUME NEW k \in 0..len
      PROVE  s[k] = IF k = 0 THEN 0 ELSE s[k - 1] + input[k - 1]
  <2>1. s[0] = 0 /\ (k # 0 => s[k] = step[k][s[k - 1]])
    <3> HIDE DEF step
    <3> QED BY <1>1, <1>3 DEF Follows
  <2>2. CASE k # 0
    <3>1. k \in 1..len /\ k \in Nat /\ s[k - 1] \in Int
      BY <1>1, <2>2
    <3>2. step[k][s[k - 1]] = s[k - 1] + input[k - 1]
      BY <3>1
    <3> HIDE DEF step
    <3> QED BY <2>1, <2>2, <3>2
  <2> HIDE DEF step
  <2> QED BY <2>1, <2>2
<1>5. s = Body(s)
  <2> HIDE DEF step
  <2> QED BY <1>4
<1>6. Sums(input) = CHOOSE z : z = Body(z)
  BY DEF Sums, len
<1> HIDE DEF Body
<1>7. Sums(input) = Body(Sums(input))
  BY <1>5, <1>6
<1> DEFINE S == Sums(input)
<1>8. S = [k \in 0..len |-> IF k = 0 THEN 0 ELSE S[k - 1] + input[k - 1]]
  BY <1>7 DEF Body
<1> HIDE DEF S
<1>9. S[0] = 0 /\ \A k \in 0..(len - 1) : S[k + 1] = S[k] + input[k]
  BY <1>1, <1>8
<1> DEFINE Good == {k \in Nat : k <= len => S[k] \in Int}
<1>10. 0 \in Good
  BY <1>9
<1>11. ASSUME NEW k \in Good PROVE k + 1 \in Good
  <2> SUFFICES ASSUME k + 1 <= len PROVE S[k + 1] \in Int
    OBVIOUS
  <2>1. k \in Nat /\ k \in 0..(len - 1) /\ k + 1 \in 1..len /\ S[k] \in Int
    BY <1>1
  <2>2. input[k] \in Int
    BY <2>1 DEF TypeOK
  <2> QED BY <1>9, <2>1, <2>2
<1> HIDE DEF Good
<1>12. Good = Nat
  BY <1>10, <1>11, Induct DEF Good
<1>13. \A k \in 0..len : S[k] \in Int
  BY <1>1, <1>12 DEF Good
<1> QED BY <1>9, <1>13 DEF S

Arrays(n) == [0..(n - 1) -> 0..(CharValues - 1)]

Rounds(n) == [a : Arrays(n), stride : Nat]

LEMMA ArraysEqual ==
  ASSUME NEW n, NEW b \in Arrays(n), NEW c \in Arrays(n), \A x \in 0..(n - 1) : b[x] = c[x]
  PROVE  b = c
<1> DEFINE D == 0..(n - 1)
<1>1. DOMAIN b = D /\ DOMAIN c = D /\ b = [x \in D |-> b[x]] /\ c = [x \in D |-> c[x]]
  BY DEF Arrays
<1>2. \A x \in D : b[x] = c[x]
  OBVIOUS
<1> HIDE DEF D
<1> QED BY <1>1, <1>2

LEMMA AfterPassFacts ==
  ASSUME NEW n \in Nat, NEW r \in Rounds(n), 2 * r.stride <= n \/ r.stride = n
  PROVE  /\ AfterPass(r) \in Rounds(n) /\ 2 * AfterPass(r).stride <= n
         /\ AfterPass(r).stride = r.stride \div 2
         /\ \A x \in 0..(n - 1) :
              AfterPass(r).a[x] = IF x < r.stride \div 2 THEN r.a[x + (r.stride \div 2)] ELSE r.a[x]
<1> DEFINE h == r.stride \div 2
           b == Pass(r.a, h)
<1>1. r.a \in Arrays(n) /\ r.stride \in Nat /\ r.stride <= n
  BY DEF Rounds
<1>2. h \in Nat /\ 2 * h <= r.stride
  BY <1>1, HalfBounds
<1> HIDE DEF h
<1>3. b = [x \in 0..(n - 1) |-> IF x < h THEN r.a[x + h] ELSE r.a[x]]
  BY <1>1 DEF Pass, Arrays
<1>4. b \in Arrays(n)
  <2>1. ASSUME NEW x \in 0..(n - 1)
        PROVE  (IF x < h THEN r.a[x + h] ELSE r.a[x]) \in 0..(CharValues - 1)
    <3>1. x < h => x + h \in 0..(n - 1)
      BY <1>1, <1>2
    <3> QED BY <1>1, <3>1 DEF Arrays
  <2> QED BY <1>3, <2>1 DEF Arrays
<1>5. AfterPass(r) = [a |-> b, stride |-> h]
  BY DEF AfterPass, h
<1>6. AfterPass(r) \in Rounds(n) /\ AfterPass(r).a = b /\ AfterPass(r).stride = h
  BY <1>2, <1>4, <1>5 DEF Rounds
<1>7. 2 * h <= n
  BY <1>1, <1>2
<1> QED BY <1>3, <1>6, <1>7 DEF h

LEMMA PassesFacts ==
  ASSUME TypeOK
  PROVE  /\ Passes(input)[0] = [a |-> input, stride |-> len]
         /\ \A k \in 0..len : /\ Passes(input)[k] \in Rounds(len)
                              /\ \/ 2 * Passes(input)[k].stride <= len
                                 \/ Passes(input)[k].stride = len
         /\ \A k \in 1..len : Passes(input)[k] = AfterPass(Passes(input)[k - 1])
<1> DEFINE base == [a |-> input, stride |-> len]
           Good == {r \in Rounds(len) : 2 * r.stride <= len \/ r.stride = len}
           step == [k \in Nat |-> [r \in Good |-> AfterPass(r)]]
           Body(s) == [k \in 0..len |-> IF k = 0 THEN base ELSE AfterPass(s[k - 1])]
<1>1. len \in Nat /\ base \in Good
  BY DEF TypeOK, Rounds, Arrays
<1>2. \A r \in Good : AfterPass(r) \in Good
  BY <1>1, AfterPassFacts
<1> HIDE DEF Good, base
<1>3. step \in [Nat -> [Good -> Good]]
  BY <1>2
<1>4. PICK s \in [0..len -> Good] : Follows(s, len, base, step)
  <2> HIDE DEF step
  <2> QED BY <1>1, <1>3, RecursionExists
<1>5. ASSUME NEW k \in 0..len
      PROVE  s[k] = IF k = 0 THEN base ELSE AfterPass(s[k - 1])
  <2>1. s[0] = base /\ (k # 0 => s[k] = step[k][s[k - 1]])
    <3> HIDE DEF step
    <3> QED BY <1>1, <1>4 DEF Follows
  <2>2. CASE k # 0
    <3>1. k \in Nat /\ s[k - 1] \in Good
      BY <1>1, <2>2
    <3>2. step[k][s[k - 1]] = AfterPass(s[k - 1])
      BY <3>1
    <3> HIDE DEF step
    <3> QED BY <2>1, <2>2, <3>2
  <2> HIDE DEF step
  <2> QED BY <2>1, <2>2
<1>6. s = Body(s)
  <2> HIDE DEF step
  <2> QED BY <1>5
<1>7. Passes(input) = CHOOSE z : z = Body(z)
  BY DEF Passes, len, base
<1> HIDE DEF Body
<1>8. Passes(input) = Body(Passes(input))
  BY <1>6, <1>7
<1> DEFINE P == Passes(input)
<1>9. P = [k \in 0..len |-> IF k = 0 THEN base ELSE AfterPass(P[k - 1])]
  BY <1>8 DEF Body
<1> HIDE DEF P
<1>10. P[0] = base /\ \A k \in 1..len : P[k] = AfterPass(P[k - 1])
  BY <1>1, <1>9
<1> DEFINE Typed == {k \in Nat : k <= len => P[k] \in Good}
<1>11. 0 \in Typed
  BY <1>1, <1>10
<1>12. ASSUME NEW k \in Typed PROVE k + 1 \in Typed
  <2> SUFFICES ASSUME k + 1 <= len PROVE P[k + 1] \in Good
    OBVIOUS
  <2>1. k \in Nat /\ k + 1 \in 1..len /\ P[k] \in Good /\ (k + 1) - 1 = k
    BY <1>1
  <2> QED BY <1>2, <1>10, <2>1
<1> HIDE DEF Typed
<1>13. Typed = Nat
  BY <1>11, <1>12, Induct DEF Typed
<1>14. \A k \in 0..len : P[k] \in Good
  BY <1>1, <1>13 DEF Typed
<1> QED BY <1>10, <1>14 DEF P, Good, base

\* Once the stride is 1, no pass does anything.
LEMMA PassesEnd ==
  ASSUME TypeOK, NEW k \in 0..len, Passes(input)[k].stride \div 2 = 0
  PROVE  Passes(input)[len].a = Passes(input)[k].a
<1> DEFINE P == Passes(input)
           S == {m \in Nat : k + m <= len =>
                               P[k + m].a = P[k].a /\ P[k + m].stride \div 2 = 0}
<1>1. len \in Nat /\ k \in Nat /\ k <= len
  BY DEF TypeOK
<1>2. /\ \A m \in 0..len : P[m] \in Rounds(len) /\ (2 * P[m].stride <= len \/ P[m].stride = len)
      /\ \A m \in 1..len : P[m] = AfterPass(P[m - 1])
  BY PassesFacts
<1>3. P[k].stride \div 2 = 0
  OBVIOUS
<1> HIDE DEF P
<1>4. 0 \in S
  BY <1>1, <1>3
<1>5. ASSUME NEW m \in S PROVE m + 1 \in S
  <2> SUFFICES ASSUME k + (m + 1) <= len
               PROVE  P[k + (m + 1)].a = P[k].a /\ P[k + (m + 1)].stride \div 2 = 0
    OBVIOUS
  <2> DEFINE i == k + m
  <2>1. /\ i \in 0..len /\ k + (m + 1) = i + 1 /\ i + 1 \in 1..len /\ (i + 1) - 1 = i
        /\ P[i].a = P[k].a /\ P[i].stride \div 2 = 0
    BY <1>1
  <2> HIDE DEF i
  <2>2. /\ P[i + 1] = AfterPass(P[i]) /\ P[i] \in Rounds(len)
        /\ 2 * P[i].stride <= len \/ P[i].stride = len
    BY <1>2, <2>1
  <2>3. /\ AfterPass(P[i]) \in Rounds(len) /\ AfterPass(P[i]).stride = 0
        /\ \A x \in 0..(len - 1) :
             AfterPass(P[i]).a[x] = IF x < 0 THEN P[i].a[x + 0] ELSE P[i].a[x]
    BY <1>1, <2>1, <2>2, AfterPassFacts
  <2>4. AfterPass(P[i]).a = P[i].a
    <3>1. AfterPass(P[i]).a \in Arrays(len) /\ P[i].a \in Arrays(len)
      BY <2>2, <2>3 DEF Rounds
    <3>2. \A x \in 0..(len - 1) : AfterPass(P[i]).a[x] = P[i].a[x]
      BY <1>1, <2>3
    <3> QED BY <3>1, <3>2, ArraysEqual
  <2>5. 0 \div 2 = 0
    OBVIOUS
  <2> QED BY <2>1, <2>2, <2>3, <2>4, <2>5
<1> HIDE DEF S
<1>6. S = Nat
  BY <1>4, <1>5, Induct DEF S
<1>7. len - k \in S /\ k + (len - k) = len
  BY <1>1, <1>6
<1>8. P[len].a = P[k].a
  BY <1>1, <1>7 DEF S
<1> QED BY <1>8 DEF P

-----------------------------------------------------------------------------
(* The inductive invariant of the data.                                      *)

\* what n elements from the i-th on add up to
RangeSum(s, i, n) == (s[i + n] - s[i]) % CharValues

\* A call of sumBlock finds its block as it was passed, and the halves that have
\* been summed have their sums in their first elements.
BlockDone(p) ==
  LET f == tasks[p]
      s == Sums(input)
      Ended(k) == Child(p, k) \notin DOMAIN tasks
  IN /\ f.fn = "sum1" /\ f.pc = "entry" => a = input
     /\ f.fn = "sum1" /\ f.pc = "return" => (Ended(1) => a[0] = RangeSum(s, 0, len))
     /\ f.fn = "sumBlock" /\ f.pc = "entry" => \A x \in f.i..(f.i + f.len - 1) : a[x] = input[x]
     /\ f.fn = "sumBlock" /\ f.pc = "add" =>
          \A k \in {1, 2} :
            Ended(k) => a[PartStart(f, k)] = RangeSum(s, PartStart(f, k), PartLen(f, k))

\* some iteration has still to copy the x-th element
Pending(x) ==
  \E p \in DOMAIN tasks : tasks[p].fn = "iteration" /\ x \in Eff(tasks[p], "write")

\* the iterations of the k-th pass run, or have run
Round(k) ==
  LET r == Passes(input)
  IN /\ tasks[<<>>].stride = r[k].stride \div 2
     /\ r[k].stride > 0 /\ r[k].stride + k <= len
     /\ \A p \in DOMAIN tasks :
          tasks[p].fn = "iteration" => k > 0 /\ tasks[p].stride = r[k].stride
     /\ \A x \in 0..(len - 1) : a[x] = IF Pending(x) THEN r[k - 1].a[x] ELSE r[k].a[x]

Done ==
  result # -1 =>
    /\ DOMAIN tasks = {}
    /\ method = "sum1" => result = Sum(input)
    /\ method = "sum2" => a = Passes(input)[len].a

DataOK ==
  /\ \A p \in DOMAIN tasks : BlockDone(p)
  /\ method = "sum2" /\ <<>> \in DOMAIN tasks => \E k \in 0..len : Round(k)
  /\ Done

-----------------------------------------------------------------------------
(* What the steps of sum1 keep of the data.                                  *)

\* While p runs, a task is unrelated to it or has forked what p descends from.
LEMMA Ancestors ==
  ASSUME Inv, NEW p, Running(p), NEW q \in DOMAIN tasks, q # p
  PROVE  \/ ~EP!Related(q, p)
         \/ \E k \in Int : /\ Child(q, k) \in DOMAIN tasks
                           /\ PartOf(tasks[q], tasks[Child(q, k)], k, len)
                           /\ EP!Within(tasks[p], tasks[Child(q, k)])
<1>1. p \in DOMAIN tasks /\ p \in EP!Paths /\ q \in EP!Paths
  BY DEF Running, Inv, TasksOK, Paths, EP!Paths
<1>2. ~EP!IsPrefix(p, q)
  BY DEF Running, IsStrictPrefix, IsPrefix, EP!IsPrefix
<1>3. CASE EP!IsPrefix(q, p)
  <2> DEFINE k == p[Len(q) + 1]
  <2>1. EP!IsStrictPrefix(q, p)
    BY <1>3 DEF EP!IsStrictPrefix
  <2>2. EP!Toward(q, p) \in DOMAIN tasks /\ EP!Within(tasks[p], tasks[EP!Toward(q, p)])
    BY <1>1, <2>1 DEF Inv, EP!Nested
  <2>3. k \in Int
    BY <1>1, <2>1, EP!TowardFacts
  <2>4. EP!Toward(q, p) = Child(q, k)
    BY DEF EP!Toward, EP!Child, Child
  <2> HIDE DEF k
  <2> QED BY <2>2, <2>3, <2>4 DEF Inv, TasksOK
<1> QED BY <1>2, <1>3 DEF EP!Related

\* The elements the other calls of sumBlock rely on are not those of a block
\* that runs.
LEMMA Untouched ==
  ASSUME Inv, EP!UnrelatedDisjoint, NEW p, Running(p), tasks[p].fn = "sumBlock",
         NEW q \in DOMAIN tasks, q # p
  PROVE  /\ tasks[q].fn = "sum1" => tasks[q].pc = "return" /\ Child(q, 1) \in DOMAIN tasks
         /\ tasks[q].fn = "sumBlock" /\ tasks[q].pc = "entry" =>
              tasks[p].i \notin tasks[q].i..(tasks[q].i + tasks[q].len - 1)
         /\ tasks[q].fn = "sumBlock" /\ tasks[q].pc = "add" =>
              \A k \in {1, 2} :
                Child(q, k) \notin DOMAIN tasks => PartStart(tasks[q], k) # tasks[p].i
<1> DEFINE f == tasks[p]
           g == tasks[q]
<1>1. p \in DOMAIN tasks /\ BlockOK(f, len) /\ f.i \in Nat /\ f.len \in Nat \ {0}
      /\ f.i \in Eff(f, "write") /\ len \in Nat
  <2>1. p \in DOMAIN tasks /\ BlockOK(f, len) /\ len \in Nat
    BY Frame DEF Running
  <2>2. f.i \in Nat /\ f.len \in Nat \ {0}
    BY <2>1 DEF BlockOK, Blocks
  <2>3. f.i \in f.i..(f.i + f.len - 1)
    BY <2>2
  <2> QED BY <2>1, <2>2, <2>3, BlockEff
<1>2. CASE ~EP!Related(q, p)
  <2>1. Eff(g, "write") \cap Eff(f, "write") = {}
    BY <1>1, <1>2, ConflictFacts DEF EP!UnrelatedDisjoint
  <2>2. f.i \notin Eff(g, "write")
    BY <1>1, <2>1
  <2>3. g.fn # "sum1"
    <3> SUFFICES ASSUME g.fn = "sum1" PROVE FALSE
      OBVIOUS
    <3>1. Eff(g, "write") = 0..(g.len - 1) /\ g.len = len
      BY MainEff, Frame DEF MainOK
    <3>2. f.i \in 0..(len - 1)
      BY <1>1 DEF BlockOK
    <3> QED BY <2>2, <3>1, <3>2
  <2>4. ASSUME g.fn = "sumBlock", g.pc = "add", NEW k \in {1, 2}
        PROVE  PartStart(g, k) # f.i
    <3>1. g \in Blocks /\ g.len > 1
      BY <2>4, Frame DEF BlockOK
    <3>2. /\ PartStart(g, 1) = g.i /\ PartStart(g, 2) = g.i + PartLen(g, 1)
          /\ PartLen(g, 1) + PartLen(g, 2) = g.len
          /\ PartLen(g, 1) \in Nat \ {0} /\ PartLen(g, 2) \in Nat \ {0} /\ g.i \in Nat
      BY <3>1, HalvesOf
    <3>3. PartStart(g, k) \in g.i..(g.i + g.len - 1)
      BY <3>2
    <3> QED BY <2>2, <2>4, <3>3, BlockEff
  <2> QED BY <2>2, <2>3, <2>4, BlockEff
<1>3. ASSUME NEW k \in Int, Child(q, k) \in DOMAIN tasks,
             PartOf(g, tasks[Child(q, k)], k, len), EP!Within(f, tasks[Child(q, k)])
      PROVE  /\ g.fn = "sum1" => g.pc = "return" /\ Child(q, 1) \in DOMAIN tasks
             /\ g.fn = "sumBlock" => g.pc = "add"
             /\ g.fn = "sumBlock" =>
                  \A j \in {1, 2} : Child(q, j) \notin DOMAIN tasks => PartStart(g, j) # f.i
  <2> DEFINE c == tasks[Child(q, k)]
  <2>1. g.fn = "sum1" => g.pc = "return" /\ Child(q, 1) \in DOMAIN tasks
    BY <1>3 DEF PartOf
  <2>2. ASSUME g.fn = "sumBlock"
        PROVE  /\ g.pc = "add" /\ k \in {1, 2} /\ c.fn = "sumBlock"
               /\ c.i = PartStart(g, k) /\ c.len = PartLen(g, k)
    BY <1>3, <2>2 DEF PartOf
  <2>3. ASSUME g.fn = "sumBlock", NEW j \in {1, 2}, Child(q, j) \notin DOMAIN tasks
        PROVE  PartStart(g, j) # f.i
    <3>1. k # j
      BY <1>3, <2>3
    <3>2. g \in Blocks /\ g.len > 1
      BY <2>2, <2>3, Frame DEF BlockOK
    <3>3. /\ PartStart(g, 1) = g.i /\ PartStart(g, 2) = g.i + PartLen(g, 1)
          /\ PartLen(g, 1) + PartLen(g, 2) = g.len
          /\ PartLen(g, 1) \in Nat \ {0} /\ PartLen(g, 2) \in Nat \ {0} /\ g.i \in Nat
      BY <3>2, HalvesOf
    <3>4. f.i \in Eff(c, "write")
      BY <1>1, <1>3 DEF EP!Within
    <3>5. f.i \in PartStart(g, k)..(PartStart(g, k) + PartLen(g, k) - 1)
      BY <2>2, <2>3, <3>4, BlockEff
    <3> QED BY <2>2, <2>3, <3>1, <3>3, <3>5
  <2> QED BY <2>1, <2>2, <2>3
<1> QED BY <1>2, <1>3, Ancestors

LEMMA ForkData ==
  ASSUME Inv, DataOK, NEW p, Running(p), method = "sum1", NEW act,
         NEW calls, DOMAIN calls \subseteq Int,
         Cobegin(p, act, calls), UNCHANGED <<method, input, a, result>>,
         \/ act.fn = "sum1" /\ act.pc = "return" /\ 1 \in DOMAIN calls
         \/ act.fn = "sumBlock" /\ act.pc = "add" /\ {1, 2} \subseteq DOMAIN calls,
         \A i \in DOMAIN calls :
           /\ calls[i].fn = "sumBlock" /\ calls[i].pc = "entry"
           /\ \A x \in calls[i].i..(calls[i].i + calls[i].len - 1) : a[x] = input[x]
  PROVE  DataOK'
<1>1. /\ p \in DOMAIN tasks /\ p \in Paths /\ DOMAIN tasks' \subseteq Paths
      /\ DOMAIN tasks' = DOMAIN tasks \cup {Child(p, i) : i \in DOMAIN calls}
      /\ tasks'[p] = act
      /\ \A q \in DOMAIN tasks \ {p} : tasks'[q] = tasks[q]
      /\ \A i \in DOMAIN calls : /\ Child(p, i) \in DOMAIN tasks' \ DOMAIN tasks
                                 /\ tasks'[Child(p, i)] = calls[i]
      /\ \A q \in DOMAIN tasks', k \in Int : Child(q, k) \in DOMAIN tasks' =>
           \/ q = p /\ k \in DOMAIN calls
           \/ q \in DOMAIN tasks \ {p} /\ Child(q, k) \in DOMAIN tasks
  BY Fork DEF Inv, TasksOK
<1>2. len' = len
  BY DEF len
<1>3. ASSUME NEW q \in DOMAIN tasks' PROVE BlockDone(q)'
  <2>1. CASE q = p
    BY <1>1, <1>2, <2>1 DEF BlockDone
  <2>2. CASE q \in DOMAIN tasks \ {p}
    <3>1. BlockDone(q) /\ tasks'[q] = tasks[q] /\ DOMAIN tasks \subseteq DOMAIN tasks'
      BY <1>1, <2>2 DEF DataOK
    <3> QED BY <1>2, <3>1 DEF BlockDone
  <2>3. ASSUME NEW i \in DOMAIN calls, q = Child(p, i) PROVE BlockDone(q)'
    <3>1. tasks'[q] = calls[i] /\ calls[i].fn = "sumBlock" /\ calls[i].pc = "entry"
      BY <1>1, <2>3
    <3> QED BY <3>1 DEF BlockDone
  <2> QED BY <1>1, <2>1, <2>2, <2>3
<1>4. Done'
  BY <1>1 DEF DataOK, Done
<1> QED BY <1>3, <1>4 DEF DataOK

\* A call of sumBlock returns with the sum of its block in its first element.
LEMMA BlockReturns ==
  ASSUME Inv, DataOK, EP!UnrelatedDisjoint, NEW p, Running(p), tasks[p].fn = "sumBlock",
         Return(p), UNCHANGED <<method, input, result>>,
         a'[tasks[p].i] = RangeSum(Sums(input), tasks[p].i, tasks[p].len),
         \A x \in 0..(len - 1) : x # tasks[p].i => a'[x] = a[x]
  PROVE  DataOK'
<1> DEFINE f == tasks[p]
           s == Sums(input)
<1>1. /\ p \in DOMAIN tasks /\ DOMAIN tasks' = DOMAIN tasks \ {p} /\ p # <<>>
      /\ \A q \in DOMAIN tasks' : tasks'[q] = tasks[q]
      /\ len' = len /\ method = "sum1" /\ len \in Nat \ {0} /\ <<>> \in DOMAIN tasks
  BY Frame DEF Running, Return, len, BelongsTo, Inv, TasksOK
<1>2. ASSUME NEW q \in DOMAIN tasks', NEW k \in Int, Child(q, k) = p
      PROVE  PartOf(tasks[q], f, k, len)
  BY <1>1, <1>2 DEF Inv, TasksOK
<1>3. ASSUME NEW q \in DOMAIN tasks' PROVE BlockDone(q)'
  <2>1. q \in DOMAIN tasks /\ q # p /\ tasks'[q] = tasks[q] /\ BlockDone(q)
    BY <1>1 DEF DataOK
  <2> DEFINE g == tasks[q]
  <2>2. /\ g.fn = "sum1" => g.pc = "return" /\ Child(q, 1) \in DOMAIN tasks
        /\ g.fn = "sumBlock" /\ g.pc = "entry" => f.i \notin g.i..(g.i + g.len - 1)
        /\ g.fn = "sumBlock" /\ g.pc = "add" =>
             \A k \in {1, 2} : Child(q, k) \notin DOMAIN tasks => PartStart(g, k) # f.i
    BY <2>1, Untouched
  <2>3. ASSUME g.fn = "sum1", Child(q, 1) \notin DOMAIN tasks'
        PROVE  a'[0] = RangeSum(s, 0, len)
    <3>1. Child(q, 1) = p
      BY <1>1, <2>2, <2>3
    <3>2. f.i = 0 /\ f.len = len
      BY <1>2, <2>3, <3>1 DEF PartOf
    <3> QED BY <3>2
  <2>4. ASSUME g.fn = "sumBlock", g.pc = "entry", NEW x \in g.i..(g.i + g.len - 1)
        PROVE  a'[x] = input[x]
    <3>1. BlockOK(g, len)
      BY <2>1, <2>4, Frame
    <3>2. x \in 0..(len - 1) /\ x # f.i
      BY <1>1, <2>2, <2>4, <3>1 DEF BlockOK, Blocks
    <3>3. a[x] = input[x]
      BY <2>1, <2>4 DEF BlockDone
    <3> QED BY <3>2, <3>3
  <2>5. ASSUME g.fn = "sumBlock", g.pc = "add",
               NEW k \in {1, 2}, Child(q, k) \notin DOMAIN tasks'
        PROVE  a'[PartStart(g, k)] = RangeSum(s, PartStart(g, k), PartLen(g, k))
    <3>1. CASE Child(q, k) = p
      <4>1. f.i = PartStart(g, k) /\ f.len = PartLen(g, k)
        BY <1>2, <2>5, <3>1 DEF PartOf
      <4> QED BY <4>1
    <3>2. CASE Child(q, k) # p
      <4>1. Child(q, k) \notin DOMAIN tasks
        BY <1>1, <2>5, <3>2
      <4>2. PartStart(g, k) # f.i
        BY <2>2, <2>5, <4>1
      <4>3. a[PartStart(g, k)] = RangeSum(s, PartStart(g, k), PartLen(g, k))
        BY <2>1, <2>5, <4>1 DEF BlockDone
      <4>4. BlockOK(g, len) /\ g \in Blocks /\ g.len > 1
        BY <2>1, <2>5, Frame DEF BlockOK
      <4>5. /\ PartStart(g, 1) = g.i /\ PartStart(g, 2) = g.i + PartLen(g, 1)
            /\ PartLen(g, 1) + PartLen(g, 2) = g.len
            /\ PartLen(g, 1) \in Nat \ {0} /\ PartLen(g, 2) \in Nat \ {0}
            /\ g.i \in Nat /\ g.i + g.len <= len
        BY <4>4, HalvesOf DEF BlockOK
      <4>6. PartStart(g, k) \in 0..(len - 1)
        BY <1>1, <4>5
      <4> QED BY <4>2, <4>3, <4>6
    <3> QED BY <3>1, <3>2
  <2> HIDE DEF g
  <2>6. /\ g.fn = "sum1" /\ g.pc = "entry" => FALSE
        /\ tasks'[q] = g
    BY <2>1, <2>2 DEF g
  <2> QED BY <1>1, <2>3, <2>4, <2>5, <2>6 DEF BlockDone, RangeSum
<1>4. Done'
  BY <1>1 DEF DataOK, Done
<1> QED BY <1>1, <1>3, <1>4 DEF DataOK

LEMMA CallSumBlockData ==
  ASSUME Inv, DataOK, NEW p, CallSumBlock(p)
  PROVE  DataOK'
<1> DEFINE act == [tasks[p] EXCEPT !.pc = "return"]
           calls == <<SumBlockCall(0, len)>>
<1>1. /\ Running(p) /\ p \in DOMAIN tasks /\ tasks[p].fn = "sum1" /\ tasks[p].pc = "entry"
      /\ Cobegin(p, act, calls) /\ UNCHANGED <<method, input, a, result>>
  BY DEF CallSumBlock, At, Running, Call
<1>2. MainOK(tasks[p], len) /\ method = "sum1"
  BY <1>1, Frame
<1>3. act.fn = "sum1" /\ act.pc = "return"
  BY <1>1, <1>2 DEF MainOK, Mains
<1>4. DOMAIN calls = {1} /\ DOMAIN calls \subseteq Int /\ calls[1] = SumBlockCall(0, len)
  OBVIOUS
<1>5. a = input
  BY <1>1 DEF DataOK, BlockDone
<1>6. calls[1].fn = "sumBlock" /\ calls[1].pc = "entry"
  BY <1>4 DEF SumBlockCall
<1> HIDE DEF act, calls
<1> QED BY <1>1, <1>2, <1>3, <1>4, <1>5, <1>6, ForkData

LEMMA SumHalvesData ==
  ASSUME Inv, DataOK, NEW p, SumHalves(p)
  PROVE  DataOK'
<1> DEFINE f == tasks[p]
           h == f.len \div 2
           act == [f EXCEPT !.pc = "add"]
           calls == <<SumBlockCall(f.i, h), SumBlockCall(f.i + h, f.len - h)>>
<1>1. /\ Running(p) /\ p \in DOMAIN tasks /\ f.fn = "sumBlock" /\ f.pc = "entry" /\ f.len > 1
      /\ Cobegin(p, act, calls) /\ UNCHANGED <<method, input, a, result>>
  BY DEF SumHalves, At, Running
<1>2. f \in Blocks /\ method = "sum1" /\ f.i \in Nat /\ f.len \in Nat
  BY <1>1, Frame DEF BlockOK, BelongsTo, Blocks
<1>3. act.fn = "sumBlock" /\ act.pc = "add"
  BY <1>1, <1>2 DEF Blocks
<1>4. DOMAIN calls = {1, 2} /\ DOMAIN calls \subseteq Int
  OBVIOUS
<1>5. \A x \in f.i..(f.i + f.len - 1) : a[x] = input[x]
  BY <1>1 DEF DataOK, BlockDone
<1>6. h \in Nat \ {0} /\ f.len - h \in Nat \ {0} /\ h + (f.len - h) = f.len
  BY <1>1, <1>2, HalfOf
<1>7. /\ calls[1].fn = "sumBlock" /\ calls[1].pc = "entry"
      /\ calls[1].i = f.i /\ calls[1].len = h
      /\ calls[2].fn = "sumBlock" /\ calls[2].pc = "entry"
      /\ calls[2].i = f.i + h /\ calls[2].len = f.len - h
  BY DEF SumBlockCall
<1> HIDE DEF act, calls, h
<1>8. ASSUME NEW k \in {1, 2}
      PROVE  \A x \in calls[k].i..(calls[k].i + calls[k].len - 1) : a[x] = input[x]
  BY <1>2, <1>5, <1>6, <1>7
<1> QED BY <1>1, <1>2, <1>3, <1>4, <1>7, <1>8, ForkData

LEMMA SumNothingData ==
  ASSUME Inv, DataOK, EP!UnrelatedDisjoint, NEW p, SumNothing(p)
  PROVE  DataOK'
<1> DEFINE f == tasks[p]
           s == Sums(input)
<1>1. /\ Running(p) /\ p \in DOMAIN tasks /\ f.fn = "sumBlock" /\ f.pc = "entry" /\ f.len <= 1
      /\ Return(p) /\ UNCHANGED <<method, input, a, result>>
  BY DEF SumNothing, At, Running
<1>2. f.i \in 0..(len - 1) /\ f.len = 1 /\ TypeOK
  BY <1>1, Frame DEF BlockOK, Blocks, Inv
<1>3. a[f.i] = input[f.i]
  <2>1. f.i \in f.i..(f.i + f.len - 1)
    BY <1>2
  <2> QED BY <1>1, <2>1 DEF DataOK, BlockDone
<1>4. s[f.i + 1] = s[f.i] + input[f.i] /\ s[f.i] \in Int
  <2>1. /\ \A k \in 0..len : s[k] \in Int
        /\ \A k \in 0..(len - 1) : s[k + 1] = s[k] + input[k]
    BY <1>2, SumsFacts
  <2>2. f.i \in 0..len
    BY <1>2 DEF TypeOK
  <2> HIDE DEF f, s
  <2> QED BY <1>2, <2>1, <2>2
<1>5. input[f.i] \in 0..(CharValues - 1) /\ CharValues \in Nat \ {0}
  BY <1>2 DEF TypeOK
<1>6. input[f.i] % CharValues = input[f.i]
  BY <1>5, ModSmall
<1>7. s[f.i + 1] - s[f.i] = input[f.i]
  BY <1>4, <1>5
<1>8. a'[f.i] = RangeSum(s, f.i, f.len)
  BY <1>1, <1>2, <1>3, <1>6, <1>7 DEF RangeSum
<1> QED BY <1>1, <1>8, BlockReturns

\* AddHalves adds the sums of its halves.
LEMMA AddHalvesData ==
  ASSUME Inv, DataOK, EP!UnrelatedDisjoint, NEW p, AddHalves(p)
  PROVE  DataOK'
<1> DEFINE f == tasks[p]
           s == Sums(input)
           h == f.len \div 2
<1>1. /\ Running(p) /\ p \in DOMAIN tasks /\ f.fn = "sumBlock" /\ f.pc = "add" /\ Return(p)
      /\ a' = [a EXCEPT ![f.i] = (a[f.i] + a[f.i + h]) % CharValues]
      /\ UNCHANGED <<method, input, result>>
  BY DEF AddHalves, At, Running
<1>2. f \in Blocks /\ f.len > 1 /\ f.i + f.len <= len /\ TypeOK /\ len \in Nat \ {0}
      /\ BlockDone(p) /\ CharValues \in Nat \ {0}
  BY <1>1, Frame DEF BlockOK, Inv, DataOK, TypeOK
<1>3. /\ PartStart(f, 1) = f.i /\ PartLen(f, 1) = h
      /\ PartStart(f, 2) = f.i + h /\ h + PartLen(f, 2) = f.len
      /\ h \in Nat \ {0} /\ PartLen(f, 2) \in Nat \ {0} /\ f.i \in Nat
  BY <1>2, HalvesOf
<1>4. Child(p, 1) \notin DOMAIN tasks /\ Child(p, 2) \notin DOMAIN tasks
  BY <1>1, NoChild DEF Inv, TasksOK
<1> HIDE DEF h
<1>5. /\ a[f.i] = RangeSum(s, f.i, h)
      /\ a[f.i + h] = RangeSum(s, f.i + h, PartLen(f, 2))
  <2>1. \A k \in {1, 2} : a[PartStart(f, k)] = RangeSum(s, PartStart(f, k), PartLen(f, k))
    BY <1>1, <1>2, <1>4 DEF BlockDone
  <2> QED BY <1>3, <2>1
<1> DEFINE x == s[f.i + h] - s[f.i]
           y == s[f.i + f.len] - s[f.i + h]
<1>6. s[f.i] \in Int /\ s[f.i + h] \in Int /\ s[f.i + f.len] \in Int
  <2>1. f.i \in 0..len /\ f.i + h \in 0..len /\ f.i + f.len \in 0..len
    BY <1>2, <1>3
  <2> QED BY <1>2, <2>1, SumsFacts
<1>7. x \in Int /\ y \in Int /\ x + y = s[f.i + f.len] - s[f.i]
  BY <1>6
<1>8. a[f.i] = x % CharValues /\ a[f.i + h] = y % CharValues
  <2>1. (f.i + h) + PartLen(f, 2) = f.i + f.len
    BY <1>3
  <2> QED BY <1>5, <2>1 DEF RangeSum
<1>9. (a[f.i] + a[f.i + h]) % CharValues = RangeSum(s, f.i, f.len)
  <2> HIDE DEF x, y
  <2>1. ((x % CharValues) + (y % CharValues)) % CharValues = (x + y) % CharValues
    BY <1>2, <1>7, ModAdds
  <2> QED BY <1>7, <1>8, <2>1 DEF RangeSum
<1>10. f.i \in 0..(len - 1)
  BY <1>2, <1>3
<1> HIDE DEF s
<1>11. /\ a'[f.i] = RangeSum(s, f.i, f.len)
       /\ \A z \in 0..(len - 1) : z # f.i => a'[z] = a[z]
  BY <1>1, <1>2, <1>9, <1>10 DEF TypeOK
<1> QED BY <1>1, <1>11, BlockReturns DEF s

-----------------------------------------------------------------------------
(* What the steps of sum2 keep of the data.                                  *)

LEMMA NoBlocks ==
  ASSUME TasksOK', method' = "sum2"
  PROVE  \A p \in DOMAIN tasks' : BlockDone(p)'
<1>1. ASSUME NEW p \in DOMAIN tasks' PROVE tasks'[p].fn \notin {"sum1", "sumBlock"}
  BY DEF TasksOK, BelongsTo
<1> QED BY <1>1 DEF BlockDone

LEMMA PendingIsBelow ==
  ASSUME Inv, NEW k, Round(k), NEW x \in 0..(len - 1), Pending(x)
  PROVE  x < Passes(input)[k].stride
<1>1. PICK p \in DOMAIN tasks : tasks[p].fn = "iteration" /\ x \in Eff(tasks[p], "write")
  BY DEF Pending
<1>2. tasks[p] \in Iterations /\ tasks[p].stride = Passes(input)[k].stride
  BY <1>1, Frame DEF IterationOK, Round
<1> QED BY <1>1, <1>2, IterationRange

\* The next pass starts when the iterations of the last one have ended.
LEMMA NextStrideData ==
  ASSUME Inv, Inv', DataOK, NEW p, NextStride(p)
  PROVE  DataOK'
<1> DEFINE f == tasks[p]
           s == f.stride
           h == s \div 2
           act == [f EXCEPT !.stride = h]
           calls == [i \in 0..(THREADS - 1) |-> IterationCall(i, s)]
           r == Passes(input)
<1>1. /\ Running(p) /\ p \in DOMAIN tasks /\ f.fn = "sum2" /\ s > 0
      /\ Cobegin(p, act, calls) /\ UNCHANGED <<method, input, a, result>>
  BY DEF NextStride, At, Running
<1>2. /\ f \in Mains /\ p = <<>> /\ p \in Paths /\ len \in Nat \ {0} /\ method = "sum2"
      /\ THREADS \in Nat \ {0} /\ s \in Nat /\ DOMAIN tasks = {<<>>} /\ len' = len /\ TypeOK
  BY <1>1, Frame, RootAlone DEF Inv, TypeOK, TasksOK, MainOK, Mains, len
<1>3. act.stride = h
  BY <1>1, <1>2 DEF Mains
<1>4. DOMAIN calls = 0..(THREADS - 1) /\ DOMAIN calls \subseteq Int
      /\ \A i \in DOMAIN calls : calls[i] = IterationCall(i, s)
  OBVIOUS
<1> HIDE DEF act, calls
<1>5. /\ DOMAIN tasks' = DOMAIN tasks \cup {Child(p, i) : i \in DOMAIN calls}
      /\ tasks'[p] = act
      /\ \A i \in DOMAIN calls : tasks'[Child(p, i)] = IterationCall(i, s)
  BY <1>1, <1>2, <1>4, Fork DEF Inv, TasksOK
<1>6. PICK k \in 0..len : Round(k)
  BY <1>1, <1>2 DEF DataOK
<1>7. /\ s = r[k].stride \div 2 /\ r[k].stride > 0 /\ r[k].stride + k <= len
      /\ \A x \in 0..(len - 1) : a[x] = IF Pending(x) THEN r[k - 1].a[x] ELSE r[k].a[x]
  BY <1>2, <1>6 DEF Round
<1>8. \A x : ~Pending(x)
  BY <1>1, <1>2 DEF Pending
<1>9. r[k] \in Rounds(len) /\ (2 * r[k].stride <= len \/ r[k].stride = len)
      /\ r[k].stride \in Nat
  BY <1>2, PassesFacts DEF Rounds
<1> HIDE DEF r, s, h
<1>10. k + 1 \in 1..len /\ s + (k + 1) <= len
  <2>1. 2 * s <= r[k].stride
    BY <1>7, <1>9, HalfBounds
  <2>2. s \in Nat /\ s > 0
    BY <1>1, <1>2 DEF s
  <2>3. k \in 0..len /\ len \in Nat /\ r[k].stride \in Nat /\ r[k].stride + k <= len
    BY <1>2, <1>6, <1>7, <1>9
  <2> QED BY <2>1, <2>2, <2>3
<1>11. /\ r[k + 1] = AfterPass(r[k])
       /\ r[k + 1].stride = s
       /\ \A x \in 0..(len - 1) : r[k + 1].a[x] = IF x < s THEN r[k].a[x + s] ELSE r[k].a[x]
  <2>1. r[k + 1] = AfterPass(r[k])
    <3>1. (k + 1) - 1 = k
      OBVIOUS
    <3> QED BY <1>2, <1>10, <3>1, PassesFacts DEF r
  <2>2. /\ AfterPass(r[k]).stride = r[k].stride \div 2
        /\ \A x \in 0..(len - 1) :
             AfterPass(r[k]).a[x] = IF x < r[k].stride \div 2
                                    THEN r[k].a[x + (r[k].stride \div 2)] ELSE r[k].a[x]
    <3>1. len \in Nat
      BY <1>2
    <3> QED BY <1>9, <3>1, AfterPassFacts
  <2>3. s = r[k].stride \div 2
    BY <1>7
  <2> QED BY <2>1, <2>2, <2>3
<1>12. \A x \in 0..(len - 1) : Pending(x)' <=> x < s
  <2> TAKE x \in 0..(len - 1)
  <2>1. ASSUME x < s PROVE Pending(x)'
    <3>1. PICK i \in 0..(THREADS - 1) : x \in Eff(IterationCall(i, s), "write")
      BY <1>2, <2>1, IterationsPartition DEF s
    <3>2. IterationCall(i, s).fn = "iteration"
      BY DEF IterationCall
    <3>3. Child(p, i) \in DOMAIN tasks' /\ tasks'[Child(p, i)] = IterationCall(i, s)
      BY <1>4, <1>5
    <3> QED BY <3>1, <3>2, <3>3 DEF Pending
  <2>2. ASSUME Pending(x)' PROVE x < s
    <3>1. PICK q \in DOMAIN tasks' : tasks'[q].fn = "iteration" /\ x \in Eff(tasks'[q], "write")
      BY <2>2 DEF Pending
    <3>2. q # p
      BY <1>1, <1>2, <1>5, <3>1 DEF act, Mains
    <3>3. PICK i \in DOMAIN calls : q = Child(p, i)
      BY <1>2, <1>5, <3>2
    <3>4. tasks'[q] = IterationCall(i, s) /\ i \in Nat
      BY <1>2, <1>4, <1>5, <3>3
    <3>5. IterationCall(i, s) \in Iterations /\ IterationCall(i, s).stride = s
      BY <1>2, <3>4 DEF IterationCall, Iterations, s
    <3> QED BY <3>1, <3>4, <3>5, IterationRange
  <2> QED BY <2>1, <2>2
<1>13. Round(k + 1)'
  <2>1. tasks'[<<>>].stride = r[k + 1].stride \div 2
    BY <1>2, <1>3, <1>5, <1>11 DEF h
  <2>2. ASSUME NEW q \in DOMAIN tasks', tasks'[q].fn = "iteration"
        PROVE  k + 1 > 0 /\ tasks'[q].stride = r[k + 1].stride
    <3>1. q # p
      BY <1>1, <1>2, <1>5, <2>2 DEF act, Mains
    <3>2. PICK i \in DOMAIN calls : q = Child(p, i)
      BY <1>2, <1>5, <3>1
    <3>3. tasks'[q] = IterationCall(i, s) /\ IterationCall(i, s).stride = s
      BY <1>5, <3>2 DEF IterationCall
    <3>4. k + 1 > 0
      BY <1>10
    <3> QED BY <1>11, <3>3, <3>4
  <2>3. ASSUME NEW x \in 0..(len - 1)
        PROVE  a'[x] = IF Pending(x)' THEN r[(k + 1) - 1].a[x] ELSE r[k + 1].a[x]
    <3>1. a'[x] = r[k].a[x] /\ (k + 1) - 1 = k
      BY <1>1, <1>7, <1>8
    <3> QED BY <1>11, <1>12, <3>1
  <2>4. r[k + 1].stride > 0 /\ r[k + 1].stride + (k + 1) <= len
    BY <1>1, <1>10, <1>11 DEF s
  <2>5. Passes(input)' = r /\ len' = len
    BY <1>1, <1>2 DEF r
  <2> QED BY <2>1, <2>2, <2>3, <2>4, <2>5 DEF Round
<1>14. Done'
  BY <1>1 DEF DataOK, Done
<1>15. k + 1 \in 0..len
  BY <1>10
<1>16. method' = "sum2" /\ len' = len
  BY <1>1, <1>2
<1>17. \A q \in DOMAIN tasks' : BlockDone(q)'
  BY <1>16, NoBlocks DEF Inv
<1> QED BY <1>13, <1>14, <1>15, <1>16, <1>17 DEF DataOK

\* Of a pass that goes on nothing changes but the elements that are pending.
LEMMA RoundGoesOn ==
  ASSUME NEW k, Round(k), <<>> \in DOMAIN tasks, <<>> \in DOMAIN tasks',
         UNCHANGED <<input, method>>, tasks'[<<>>] = tasks[<<>>],
         \A q \in DOMAIN tasks' : tasks'[q].fn = "iteration" =>
           /\ q \in DOMAIN tasks /\ tasks[q].fn = "iteration"
           /\ tasks'[q].stride = tasks[q].stride,
         \A x \in 0..(len - 1) :
           a'[x] = IF Pending(x)' THEN Passes(input)[k - 1].a[x] ELSE Passes(input)[k].a[x]
  PROVE  Round(k)'
BY DEF Round, len

LEMMA CopyStrideData ==
  ASSUME Inv, Inv', DataOK, EP!UnrelatedDisjoint, NEW p, CopyStride(p)
  PROVE  DataOK'
<1> DEFINE f == tasks[p]
           act == [f EXCEPT !.j = @ + THREADS]
           r == Passes(input)
           s == f.stride
           j == f.j
<1>1. /\ Running(p) /\ p \in DOMAIN tasks /\ f.fn = "iteration" /\ j < s
      /\ Continue(p, act) /\ a' = [a EXCEPT ![j] = a[j + s]]
      /\ UNCHANGED <<method, input, result>>
  BY DEF CopyStride, At, Running
<1>2. /\ f \in Iterations /\ 2 * s <= len /\ len \in Nat \ {0} /\ THREADS \in Nat \ {0}
      /\ j \in Nat /\ s \in Nat /\ p # <<>> /\ method = "sum2" /\ <<>> \in DOMAIN tasks
      /\ TypeOK
  BY <1>1, Frame DEF IterationOK, Iterations, Inv, TypeOK, BelongsTo, TasksOK
<1>3. act \in Iterations /\ act.fn = "iteration" /\ act.stride = s /\ act.j = j + THREADS
  BY <1>2 DEF Iterations
<1> HIDE DEF act
<1>4. /\ DOMAIN tasks' = DOMAIN tasks /\ tasks'[p] = act
      /\ \A q \in DOMAIN tasks \ {p} : tasks'[q] = tasks[q]
  BY <1>1 DEF Continue
<1>5. Eff(f, "write") = Eff(act, "write") \cup {j} /\ j \notin Eff(act, "write")
  BY <1>1, <1>2, <1>3, IterationGoesOn
<1>6. ASSUME NEW q \in DOMAIN tasks, q # p, tasks[q].fn = "iteration"
      PROVE  j \notin Eff(tasks[q], "write")
  <2>1. ~EP!Related(q, p)
    <3>1. \A k : ~PartOf(tasks[q], tasks[Child(q, k)], k, len)
      BY <1>6 DEF PartOf
    <3> QED BY <1>1, <1>6, <3>1, Ancestors
  <2>2. Eff(tasks[q], "write") \cap Eff(f, "write") = {}
    BY <1>1, <2>1, ConflictFacts DEF EP!UnrelatedDisjoint
  <2> QED BY <1>5, <2>2
<1>7. \A x : Pending(x)' <=> Pending(x) /\ x # j
  <2> TAKE x
  <2>1. ASSUME Pending(x), x # j PROVE Pending(x)'
    <3>1. PICK q \in DOMAIN tasks : tasks[q].fn = "iteration" /\ x \in Eff(tasks[q], "write")
      BY <2>1 DEF Pending
    <3>2. tasks'[q].fn = "iteration" /\ x \in Eff(tasks'[q], "write")
      BY <1>3, <1>4, <1>5, <2>1, <3>1
    <3> QED BY <1>4, <3>2 DEF Pending
  <2>2. ASSUME Pending(x)' PROVE Pending(x) /\ x # j
    <3>1. PICK q \in DOMAIN tasks' : tasks'[q].fn = "iteration" /\ x \in Eff(tasks'[q], "write")
      BY <2>2 DEF Pending
    <3>2. CASE q = p
      BY <1>1, <1>4, <1>5, <3>1, <3>2 DEF Pending
    <3>3. CASE q # p
      BY <1>4, <1>6, <3>1, <3>3 DEF Pending
    <3> QED BY <3>2, <3>3
  <2> QED BY <2>1, <2>2
<1>8. PICK k \in 0..len : Round(k)
  BY <1>2 DEF DataOK
<1>9. /\ k > 0 /\ s = r[k].stride
      /\ \A x \in 0..(len - 1) : a[x] = IF Pending(x) THEN r[k - 1].a[x] ELSE r[k].a[x]
  BY <1>1, <1>8 DEF Round
<1>10. j \in 0..(len - 1) /\ j + s \in 0..(len - 1)
  BY <1>1, <1>2
<1>11. /\ r[k] = AfterPass(r[k - 1]) /\ r[k - 1] \in Rounds(len) /\ k - 1 \in 0..len
       /\ 2 * r[k - 1].stride <= len \/ r[k - 1].stride = len
  <2>1. k \in 1..len /\ k - 1 \in 0..len
    BY <1>2, <1>9
  <2> QED BY <1>2, <2>1, PassesFacts
<1>12. \A x \in 0..(len - 1) : r[k].a[x] = IF x < s THEN r[k - 1].a[x + s] ELSE r[k - 1].a[x]
  <2>1. r[k].stride = r[k - 1].stride \div 2
    BY <1>2, <1>11, AfterPassFacts
  <2>2. \A x \in 0..(len - 1) :
          AfterPass(r[k - 1]).a[x] = IF x < r[k - 1].stride \div 2
                                     THEN r[k - 1].a[x + (r[k - 1].stride \div 2)]
                                     ELSE r[k - 1].a[x]
    BY <1>2, <1>11, AfterPassFacts
  <2>3. r[k - 1].stride \div 2 = s
    BY <1>9, <2>1
  <2> QED BY <1>11, <2>2, <2>3
<1>13. Pending(j) /\ ~Pending(j + s)
  <2>1. Pending(j)
    BY <1>1, <1>5 DEF Pending
  <2>2. ~(j + s < s)
    BY <1>2
  <2> QED BY <1>8, <1>9, <1>10, <2>1, <2>2, PendingIsBelow
<1> HIDE DEF r, s, j
<1>14. a'[j] = r[k].a[j]
  <2>1. a'[j] = a[j + s]
    BY <1>1, <1>2, <1>10 DEF TypeOK
  <2>2. a[j + s] = r[k].a[j + s]
    BY <1>9, <1>10, <1>13
  <2>3. r[k].a[j + s] = r[k - 1].a[j + s]
    BY <1>2, <1>10, <1>12
  <2>4. r[k].a[j] = r[k - 1].a[j + s]
    BY <1>1, <1>10, <1>12
  <2> QED BY <2>1, <2>2, <2>3, <2>4
<1>15. ASSUME NEW x \in 0..(len - 1)
       PROVE  a'[x] = IF Pending(x)' THEN r[k - 1].a[x] ELSE r[k].a[x]
  <2>1. CASE x = j
    BY <1>7, <1>14, <2>1
  <2>2. CASE x # j
    <3>1. a'[x] = a[x]
      BY <1>1, <1>2, <1>10, <2>2 DEF TypeOK
    <3> QED BY <1>7, <1>9, <2>2, <3>1
  <2> QED BY <2>1, <2>2
<1>16. Round(k)'
  <2>1. tasks'[<<>>] = tasks[<<>>] /\ <<>> \in DOMAIN tasks'
    BY <1>2, <1>4
  <2>2. ASSUME NEW q \in DOMAIN tasks', tasks'[q].fn = "iteration"
        PROVE  /\ q \in DOMAIN tasks /\ tasks[q].fn = "iteration"
               /\ tasks'[q].stride = tasks[q].stride
    BY <1>1, <1>3, <1>4, <2>2 DEF s
  <2> QED BY <1>1, <1>2, <1>8, <1>15, <2>1, <2>2, RoundGoesOn DEF r
<1>17. Done'
  BY <1>1 DEF DataOK, Done
<1>18. method' = "sum2" /\ len' = len
  BY <1>1, <1>2 DEF len
<1>19. \A q \in DOMAIN tasks' : BlockDone(q)'
  BY <1>18, NoBlocks DEF Inv
<1> QED BY <1>16, <1>17, <1>18, <1>19 DEF DataOK

LEMMA EndIterationData ==
  ASSUME Inv, Inv', DataOK, NEW p, EndIteration(p)
  PROVE  DataOK'
<1> DEFINE f == tasks[p]
<1>1. /\ Running(p) /\ p \in DOMAIN tasks /\ f.fn = "iteration" /\ f.j >= f.stride
      /\ Return(p) /\ UNCHANGED <<method, input, a, result>>
  BY DEF EndIteration, At, Running
<1>2. /\ f \in Iterations /\ p # <<>> /\ method = "sum2" /\ <<>> \in DOMAIN tasks
  BY <1>1, Frame DEF IterationOK, Inv, BelongsTo, TasksOK
<1>3. /\ DOMAIN tasks' = DOMAIN tasks \ {p} /\ \A q \in DOMAIN tasks' : tasks'[q] = tasks[q]
  BY <1>1 DEF Return
<1>4. Eff(f, "write") = {}
  <2>1. f.j \in Nat /\ f.stride \in Nat
    BY <1>2 DEF Iterations
  <2> QED BY <1>1, <1>2, <2>1, IterationRange
<1>5. \A x : Pending(x)' <=> Pending(x)
  BY <1>3, <1>4 DEF Pending
<1>6. PICK k \in 0..len : Round(k)
  BY <1>2 DEF DataOK
<1>7. \A x \in 0..(len - 1) :
        a'[x] = IF Pending(x)' THEN Passes(input)[k - 1].a[x] ELSE Passes(input)[k].a[x]
  BY <1>1, <1>5, <1>6 DEF Round
<1>8. Round(k)'
  BY <1>1, <1>2, <1>3, <1>6, <1>7, RoundGoesOn
<1>9. Done'
  BY <1>1 DEF DataOK, Done
<1>10. method' = "sum2" /\ len' = len
  BY <1>1, <1>2 DEF len
<1>11. \A q \in DOMAIN tasks' : BlockDone(q)'
  BY <1>10, NoBlocks DEF Inv
<1> QED BY <1>8, <1>9, <1>10, <1>11 DEF DataOK

LEMMA HalfIsZero ==
  ASSUME NEW n \in Nat, n \div 2 = 0, n > 0
  PROVE  n = 1
OBVIOUS

LEMMA ReturnSumData ==
  ASSUME Inv, DataOK, NEW p, ReturnSum(p)
  PROVE  DataOK'
<1>1. /\ Running(p) /\ p \in DOMAIN tasks /\ Return(p) /\ UNCHANGED <<method, input, a>>
      /\ result' = a[0]
      /\ \/ tasks[p].fn = "sum1" /\ tasks[p].pc = "return"
         \/ tasks[p].fn = "sum2" /\ tasks[p].stride = 0
  BY DEF ReturnSum, At, Running
<1>2. p = <<>> /\ tasks[p].fn = method /\ DOMAIN tasks = {<<>>} /\ TypeOK /\ p \in Paths
  BY <1>1, Frame, RootAlone DEF Inv, TasksOK
<1>3. DOMAIN tasks' = {} /\ len' = len
  BY <1>1, <1>2 DEF Return, len
<1>4. ASSUME method = "sum1" PROVE a[0] = Sum(input)
  <2>1. Child(p, 1) \notin DOMAIN tasks
    BY <1>1, <1>2, ChildPath
  <2>2. a[0] = RangeSum(Sums(input), 0, len)
    BY <1>1, <1>2, <1>4, <2>1 DEF DataOK, BlockDone
  <2>3. Sums(input)[0] = 0 /\ Sums(input)[len] \in Int /\ 0 + len = len
    BY <1>2, SumsFacts DEF TypeOK
  <2> QED BY <2>2, <2>3 DEF RangeSum, Sum, len
<1>5. ASSUME method = "sum2" PROVE a = Passes(input)[len].a
  <2> DEFINE r == Passes(input)
  <2>1. PICK k \in 0..len : Round(k)
    BY <1>1, <1>2, <1>5 DEF DataOK
  <2>2. \A x : ~Pending(x)
    BY <1>1, <1>2, <1>5 DEF Pending
  <2>3. \A x \in 0..(len - 1) : a[x] = r[k].a[x]
    BY <2>1, <2>2 DEF Round
  <2>4. r[k].stride \div 2 = 0
    BY <1>1, <1>2, <1>5, <2>1 DEF Round
  <2>5. r[k].a \in Arrays(len) /\ a \in Arrays(len)
    BY <1>2, PassesFacts DEF Rounds, Arrays, TypeOK
  <2>6. a = r[k].a
    BY <2>3, <2>5, ArraysEqual
  <2>7. r[len].a = r[k].a
    BY <1>2, <2>4, PassesEnd
  <2> QED BY <2>6, <2>7
<1>6. Done'
  BY <1>1, <1>3, <1>4, <1>5 DEF Done
<1> QED BY <1>3, <1>6 DEF DataOK

-----------------------------------------------------------------------------
(* The results.                                                              *)

LEMMA DataInitially ==
  ASSUME ArraySumAssumption, Init
  PROVE  DataOK
<1>1. Inv /\ TypeOK
  BY Initially DEF Inv
<1>2. /\ DOMAIN tasks = {<<>>} /\ a = input /\ result = -1
      /\ tasks[<<>>] = [fn |-> method, pc |-> "entry", len |-> len, stride |-> len \div 2]
  BY DEF Init, Start
<1>3. \A p \in DOMAIN tasks : BlockDone(p)
  BY <1>1, <1>2 DEF BlockDone, TypeOK
<1>4. Round(0)
  <2>1. Passes(input)[0] = [a |-> input, stride |-> len]
    BY <1>1, PassesFacts
  <2>2. len \in Nat \ {0} /\ method \in {"sum1", "sum2"}
    BY <1>1 DEF TypeOK
  <2>3. \A p \in DOMAIN tasks : tasks[p].fn # "iteration"
    BY <1>2, <2>2
  <2>4. \A x : ~Pending(x)
    BY <2>3 DEF Pending
  <2> QED BY <1>2, <2>1, <2>2, <2>3, <2>4 DEF Round
<1>5. 0 \in 0..len
  BY <1>1 DEF TypeOK
<1> QED BY <1>2, <1>3, <1>4, <1>5 DEF DataOK, Done

LEMMA DataStep ==
  ASSUME Inv, Inv', DataOK, EP!UnrelatedDisjoint, [Next]_vars
  PROVE  DataOK'
<1>1. CASE UNCHANGED vars
  BY <1>1 DEF vars, DataOK, BlockDone, Round, Done, Pending, len, RangeSum
<1>2. ASSUME NEW p \in DOMAIN tasks,
             \/ CallSumBlock(p) \/ SumHalves(p) \/ AddHalves(p) \/ SumNothing(p)
             \/ NextStride(p) \/ CopyStride(p) \/ EndIteration(p)
             \/ ReturnSum(p)
      PROVE  DataOK'
  BY <1>2, CallSumBlockData, SumHalvesData, AddHalvesData, SumNothingData,
     NextStrideData, CopyStrideData, EndIterationData, ReturnSumData
<1> QED BY <1>1, <1>2 DEF Next

\* What sum1 has summed and sum2 has copied.
THEOREM DataInvariance ==
  ASSUME ArraySumAssumption
  PROVE  Spec => []DataOK
<1>1. Init => DataOK
  BY DataInitially
<1>2. Inv /\ Inv' /\ EP!UnrelatedDisjoint /\ DataOK /\ [Next]_vars => DataOK'
  BY DataStep
<1> QED BY <1>1, <1>2, Invariance, NoConflict, PTL DEF Spec

\* arraysum.c, "computing the sum of an array in place": what sum1 returns is the
\* sum of the array it was passed, whatever the interleaving of its blocks.
THEOREM SumIsSum ==
  ASSUME ArraySumAssumption
  PROVE  Spec => []Sum1IsSum
<1>1. DataOK => Sum1IsSum
  BY DEF DataOK, Done, Sum1IsSum
<1> QED BY <1>1, DataInvariance, PTL

\* arraysum.c: whatever the interleaving of their iterations, the passes of sum2
\* take effect one after the other.
THEOREM PassesAreInOrder ==
  ASSUME ArraySumAssumption
  PROVE  Spec => []PassesInOrder
<1>1. DataOK => PassesInOrder
  BY DEF DataOK, Done, PassesInOrder
<1> QED BY <1>1, DataInvariance, PTL
=============================================================================
