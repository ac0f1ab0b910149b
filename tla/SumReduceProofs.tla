--------------------------- MODULE SumReduceProofs ---------------------------
(*****************************************************************************)
(* For every length and every seqLen: the reduction of demo/sumreduce.c      *)
(* reads what its foreach has written, its forks pass the checks CSolve      *)
(* makes, and it returns the sum of the array.                               *)
(*****************************************************************************)
EXTENDS SumReduce, SequenceTheorems, TLAPS

EP == INSTANCE EffectsProofs WITH
        EffNames <- {"read", "write"}, Commuting <- {<<"read", "read">>}

-----------------------------------------------------------------------------
(* The inductive invariant.                                                  *)

Mains == [fn : {"main"}, pc : {"initialize", "reduce", "return"}, len : Nat]
Reduces == [fn : {"reduce"}, pc : {"entry", "join"},
            a : Nat, len : Nat, i : Nat, result : Int]
Iterations == [fn : {"iteration"}, i : Nat]

Triangle(n) == (n * (n - 1)) \div 2

\* the sum of a..(a + n - 1)
RangeSum(a, n) == n * a + Triangle(n)

Initialized == \A x \in 0..(len - 1) : arr[x] = x

\* the parts of the cobegin of a call of reduce
PartStart(f, k) == IF k = 1 THEN f.a ELSE f.a + (f.len \div 2)
PartLen(f, k) == IF k = 1 THEN f.len \div 2 ELSE f.len - (f.len \div 2)

MainOK(f, n) == f \in Mains /\ f.len = n

\* a call of reduce has summed the first i elements of its part of the array
ReduceOK(f, n) ==
  /\ f \in Reduces
  /\ f.len >= 1 /\ f.a + f.len <= n
  /\ f.pc = "join" => f.len > 1
  /\ f.i <= f.len /\ f.result = RangeSum(f.a, f.i)

ActOK(f, n) == MainOK(f, n) \/ ReduceOK(f, n) \/ (f \in Iterations /\ f.i < n)

\* g is the k-th part of what f has forked
PartOf(f, g, k, n) ==
  \/ f.fn = "main" /\ f.pc = "reduce" /\ g = AssignCall(k) /\ k \in 0..(n - 1)
  \/ f.fn = "main" /\ f.pc = "return" /\ g.fn = "reduce" /\ g.a = 0 /\ g.len = n /\ k = 1
  \/ /\ f.fn = "reduce" /\ f.pc = "join" /\ g.fn = "reduce" /\ k \in {1, 2}
     /\ g.a = PartStart(f, k) /\ g.len = PartLen(f, k)

\* once the foreach has ended
NeedsArray(f) == f.fn = "reduce" \/ (f.fn = "main" /\ f.pc = "return")

\* the k-th part of p has returned this
Returned(p, k, v) == Child(p, k) \in DOMAIN tmp /\ tmp[Child(p, k)] = v

\* the parts of p that have ended have done what they are for
PartsDone(p) ==
  LET f == tasks[p]
      Ended(k) == Child(p, k) \notin DOMAIN tasks
  IN /\ f.fn = "main" /\ f.pc = "reduce" => \A x \in 0..(len - 1) : Ended(x) => arr[x] = x
     /\ f.fn = "main" /\ f.pc = "return" => (Ended(1) => Returned(p, 1, RangeSum(0, len)))
     /\ f.fn = "reduce" /\ f.pc = "join" =>
          \A k \in {1, 2} : Ended(k) => Returned(p, k, RangeSum(PartStart(f, k), PartLen(f, k)))

TypeOK ==
  /\ len \in Nat \ {0} /\ seqLen \in Nat \ {0}
  /\ arr \in [0..(len - 1) -> Int \cup {Garbage}]

Paths == Seq(Int)

TasksOK ==
  /\ DOMAIN tasks \subseteq Paths
  /\ \A p \in DOMAIN tasks : /\ ActOK(tasks[p], len)
                             /\ tasks[p].fn = "main" <=> p = <<>>
                             /\ <<>> \in DOMAIN tasks
  /\ \A p \in DOMAIN tasks, k \in Int :
       Child(p, k) \in DOMAIN tasks => PartOf(tasks[p], tasks[Child(p, k)], k, len)

DataOK ==
  \A p \in DOMAIN tasks : PartsDone(p) /\ (NeedsArray(tasks[p]) => Initialized)

Reduced == <<1>> \in DOMAIN tmp => tmp[<<1>>] = RangeSum(0, len)

Inv == TypeOK /\ TasksOK /\ DataOK /\ Reduced

-----------------------------------------------------------------------------
(* Steps of one task, in the terms of this module.                           *)

LEMMA SameNames ==
  ASSUME NEW p, NEW i
  PROVE  Child(p, i) = EP!Child(p, i) /\ (Running(p) <=> EP!Running(p))
         /\ (Running(p) <=> Checked!Running(p))
BY DEF Running, EP!Running, Checked!Running, IsStrictPrefix, EP!IsStrictPrefix,
       Checked!IsStrictPrefix, IsPrefix, EP!IsPrefix, Checked!IsPrefix, Child, EP!Child

LEMMA SameCheck ==
  ASSUME NEW p
  PROVE  /\ EP!CheckedStep(p) <=> Checked!CheckedStep(p)
         /\ EP!CheckedReturn(p) <=> Checked!CheckedReturn(p)
BY DEF EP!CheckedStep, Checked!CheckedStep, EP!CheckedReturn, Checked!CheckedReturn,
       EP!Return, Checked!Return, EP!Running, Checked!Running, EP!IsStrictPrefix,
       Checked!IsStrictPrefix, EP!IsPrefix, Checked!IsPrefix, EP!Within, Checked!Within,
       EP!Forked, Checked!Forked, EP!Child, Checked!Child, EP!Last, Checked!Last,
       EP!SubEffects, Checked!SubEffects, EP!SiblingsDisjoint, Checked!SiblingsDisjoint,
       EP!ConflictFree, Checked!ConflictFree, EP!NonCommuting, Checked!NonCommuting

LEMMA Fork ==
  ASSUME DOMAIN tasks \subseteq Paths, NEW p, Running(p), NEW act,
         NEW calls, DOMAIN calls \subseteq Int, Cobegin(p, act, calls)
  PROVE  /\ p \in DOMAIN tasks /\ p \in Paths /\ DOMAIN tasks' \subseteq Paths
         /\ DOMAIN tasks' = DOMAIN tasks \cup {Child(p, i) : i \in DOMAIN calls}
         /\ tasks'[p] = act
         /\ \A q \in DOMAIN tasks \ {p} : tasks'[q] = tasks[q]
         /\ \A i \in DOMAIN calls : /\ Child(p, i) \in DOMAIN tasks' \ DOMAIN tasks
                                    /\ tasks'[Child(p, i)] = calls[i]
         /\ \A q \in DOMAIN tasks', k \in Int : Child(q, k) \in DOMAIN tasks' =>
              \/ q = p /\ k \in DOMAIN calls
              \/ q \in DOMAIN tasks \ {p} /\ Child(q, k) \in DOMAIN tasks
<1>1. EP!PathsOK /\ EP!Running(p) /\ EP!Cobegin(p, act, calls) /\ EP!Paths = Paths
  BY SameNames DEF EP!PathsOK, EP!Paths, Paths, EP!Cobegin, Cobegin, EP!Child, Child, EP!Last, Last
<1>2. /\ p \in DOMAIN tasks /\ p \in Paths /\ DOMAIN tasks' \subseteq Paths
      /\ DOMAIN tasks' = DOMAIN tasks \cup {EP!Child(p, i) : i \in DOMAIN calls}
      /\ tasks'[p] = act
      /\ \A q \in DOMAIN tasks \ {p} : tasks'[q] = tasks[q]
      /\ \A i \in DOMAIN calls : /\ EP!Child(p, i) \in DOMAIN tasks' \ DOMAIN tasks
                                 /\ tasks'[EP!Child(p, i)] = calls[i]
  BY <1>1, EP!ForkFacts DEF EP!PathsOK
<1>3. \A q \in DOMAIN tasks', k \in Int : EP!Child(q, k) \in DOMAIN tasks' =>
        \/ q = p /\ k \in DOMAIN calls
        \/ q \in DOMAIN tasks \ {p} /\ EP!Child(q, k) \in DOMAIN tasks
  BY <1>1, EP!ForkChildren
<1> QED BY <1>2, <1>3 DEF Child, EP!Child

LEMMA NoChild ==
  ASSUME DOMAIN tasks \subseteq Paths, NEW p, Running(p), NEW i \in Int
  PROVE  Child(p, i) \notin DOMAIN tasks
<1>1. p \in EP!Paths /\ EP!Running(p)
  BY SameNames DEF Running, Paths, EP!Paths
<1> QED BY <1>1, SameNames, EP!ChildIsNew

LEMMA SameChild ==
  ASSUME NEW p \in Paths, NEW i \in Int, NEW q \in Paths, NEW j \in Int, Child(p, i) = Child(q, j)
  PROVE  p = q /\ i = j
BY SameNames, EP!ChildInjective DEF Paths, EP!Paths

LEMMA ChildPath ==
  ASSUME NEW p \in Paths, NEW i \in Int
  PROVE  Child(p, i) \in Paths /\ Child(p, i) # p /\ Child(p, i) # <<>>
<1>1. p \in EP!Paths
  BY DEF Paths, EP!Paths
<1>2. /\ EP!Child(p, i) \in EP!Paths /\ EP!Child(p, i) # p
      /\ Len(EP!Child(p, i)) = Len(p) + 1
  BY <1>1, EP!ChildFacts
<1>3. Len(p) \in Nat
  BY DEF Paths
<1>4. EP!Child(p, i) # <<>>
  BY <1>2, <1>3
<1> QED BY <1>2, <1>4 DEF Paths, EP!Paths, Child, EP!Child

-----------------------------------------------------------------------------
(* What the steps keep of the tasks.                                         *)

LEMMA ForkKeeps ==
  ASSUME TasksOK, NEW p, Running(p), NEW act, NEW calls, DOMAIN calls \subseteq Int,
         Cobegin(p, act, calls), len' = len,
         ActOK(act, len), act.fn = tasks[p].fn,
         \A f, k : PartOf(f, tasks[p], k, len) => PartOf(f, act, k, len),
         \A i \in DOMAIN calls : /\ ActOK(calls[i], len) /\ PartOf(act, calls[i], i, len)
                                 /\ calls[i].fn # "main"
  PROVE  TasksOK'
<1>1. /\ p \in DOMAIN tasks /\ p \in Paths /\ DOMAIN tasks' \subseteq Paths
      /\ DOMAIN tasks' = DOMAIN tasks \cup {Child(p, i) : i \in DOMAIN calls}
      /\ tasks'[p] = act
      /\ \A q \in DOMAIN tasks \ {p} : tasks'[q] = tasks[q]
      /\ \A i \in DOMAIN calls : /\ Child(p, i) \in DOMAIN tasks' \ DOMAIN tasks
                                 /\ tasks'[Child(p, i)] = calls[i]
      /\ \A q \in DOMAIN tasks', k \in Int : Child(q, k) \in DOMAIN tasks' =>
           \/ q = p /\ k \in DOMAIN calls
           \/ q \in DOMAIN tasks \ {p} /\ Child(q, k) \in DOMAIN tasks
  BY Fork DEF TasksOK
<1>2. ASSUME NEW q \in DOMAIN tasks'
      PROVE  /\ ActOK(tasks'[q], len)
             /\ tasks'[q].fn = "main" <=> q = <<>>
             /\ <<>> \in DOMAIN tasks'
  <2>1. CASE q = p
    BY <1>1, <2>1 DEF TasksOK
  <2>2. CASE q \in DOMAIN tasks \ {p}
    BY <1>1, <2>2 DEF TasksOK
  <2>3. ASSUME NEW i \in DOMAIN calls, q = Child(p, i)
        PROVE  /\ ActOK(tasks'[q], len)
               /\ tasks'[q].fn = "main" <=> q = <<>>
               /\ <<>> \in DOMAIN tasks'
    <3>1. q # <<>>
      BY <1>1, <2>3, ChildPath
    <3> QED BY <1>1, <2>3, <3>1 DEF TasksOK
  <2>4. q \in DOMAIN tasks \/ \E i \in DOMAIN calls : q = Child(p, i)
    BY <1>1
  <2> QED BY <2>1, <2>2, <2>3, <2>4
<1>3. ASSUME NEW q \in DOMAIN tasks', NEW k \in Int, Child(q, k) \in DOMAIN tasks'
      PROVE  PartOf(tasks'[q], tasks'[Child(q, k)], k, len)
  <2>1. CASE q = p /\ k \in DOMAIN calls
    BY <1>1, <2>1
  <2>2. CASE q \in DOMAIN tasks \ {p} /\ Child(q, k) \in DOMAIN tasks
    <3>1. PartOf(tasks[q], tasks[Child(q, k)], k, len) /\ tasks'[q] = tasks[q]
      BY <1>1, <2>2 DEF TasksOK
    <3>2. CASE Child(q, k) = p
      BY <1>1, <3>1, <3>2
    <3>3. CASE Child(q, k) # p
      BY <1>1, <2>2, <3>1, <3>3
    <3> QED BY <3>2, <3>3
  <2> QED BY <1>1, <1>3, <2>1, <2>2
<1> QED BY <1>1, <1>2, <1>3 DEF TasksOK

LEMMA ContinueKeeps ==
  ASSUME TasksOK, NEW p, Running(p), NEW act, Continue(p, act), len' = len,
         ActOK(act, len), act.fn = tasks[p].fn,
         \A f, k : PartOf(f, tasks[p], k, len) => PartOf(f, act, k, len)
  PROVE  TasksOK'
<1>1. p \in DOMAIN tasks /\ p \in Paths /\ DOMAIN tasks' = DOMAIN tasks /\ tasks'[p] = act
  BY DEF Running, TasksOK, Continue
<1>2. \A q \in DOMAIN tasks \ {p} : tasks'[q] = tasks[q]
  BY DEF Continue
<1>3. ASSUME NEW q \in DOMAIN tasks'
      PROVE  /\ ActOK(tasks'[q], len)
             /\ tasks'[q].fn = "main" <=> q = <<>>
             /\ <<>> \in DOMAIN tasks'
  BY <1>1, <1>2 DEF TasksOK
<1>4. ASSUME NEW q \in DOMAIN tasks', NEW k \in Int, Child(q, k) \in DOMAIN tasks'
      PROVE  PartOf(tasks'[q], tasks'[Child(q, k)], k, len)
  <2>1. q # p
    BY <1>1, <1>4, NoChild DEF TasksOK
  <2>2. PartOf(tasks[q], tasks[Child(q, k)], k, len) /\ tasks'[q] = tasks[q]
    BY <1>1, <1>2, <1>4, <2>1 DEF TasksOK
  <2> QED BY <1>1, <1>2, <1>4, <2>2
<1> QED BY <1>1, <1>3, <1>4 DEF TasksOK

LEMMA ReturnKeeps ==
  ASSUME TasksOK, NEW p, Running(p), Return(p), len' = len
  PROVE  TasksOK' /\ (p = <<>> => DOMAIN tasks' = {})
<1>1. /\ p \in DOMAIN tasks /\ DOMAIN tasks' = DOMAIN tasks \ {p}
      /\ \A q \in DOMAIN tasks' : tasks'[q] = tasks[q]
  BY DEF Running, Return
<1>2. CASE p = <<>>
  <2>1. ASSUME NEW q \in DOMAIN tasks, q # <<>> PROVE FALSE
    <3>1. q \in EP!Paths /\ <<>> \in EP!Paths /\ Len(<<>>) = 0
      BY DEF TasksOK, Paths, EP!Paths
    <3>2. Len(q) \in Nat
      BY DEF TasksOK, Paths
    <3>3. EP!IsPrefix(<<>>, q)
      BY <3>1, <3>2, EP!PrefixAgrees
    <3>4. IsPrefix(<<>>, q)
      BY <3>3 DEF EP!IsPrefix, IsPrefix
    <3> QED BY <1>2, <2>1, <3>4 DEF Running, IsStrictPrefix
  <2>2. DOMAIN tasks' = {}
    BY <1>1, <1>2, <2>1
  <2> QED BY <2>2 DEF TasksOK
<1>3. CASE p # <<>>
  BY <1>1, <1>3 DEF TasksOK
<1> QED BY <1>2, <1>3

-----------------------------------------------------------------------------
(* Sums.                                                                     *)

LEMMA HalfOfEven ==
  ASSUME NEW x \in Int
  PROVE  (2 * x) \div 2 = x
OBVIOUS

LEMMA TwiceTriangle ==
  ASSUME NEW n \in Int
  PROVE  Triangle(n) \in Int /\ 2 * Triangle(n) = n * (n - 1)
<1> DEFINE k == n \div 2
<1>1. k \in Int /\ (n = 2 * k \/ n = 2 * k + 1)
  OBVIOUS
<1>2. CASE n = 2 * k
  <2>1. k * (n - 1) \in Int /\ n * (n - 1) = 2 * (k * (n - 1))
    BY <1>1, <1>2
  <2>2. Triangle(n) = k * (n - 1)
    BY <2>1, HalfOfEven DEF Triangle
  <2> QED BY <2>1, <2>2
<1>3. CASE n = 2 * k + 1
  <2>1. n * k \in Int /\ n * (n - 1) = 2 * (n * k)
    BY <1>1, <1>3
  <2>2. Triangle(n) = n * k
    BY <2>1, HalfOfEven DEF Triangle
  <2> QED BY <2>1, <2>2
<1> QED BY <1>1, <1>2, <1>3

\* The sum of two parts of a range, one behind the other.
LEMMA RangeSumAdds ==
  ASSUME NEW a \in Int, NEW n \in Int, NEW m \in Int
  PROVE  /\ RangeSum(a, n) \in Int
         /\ RangeSum(a, n) + RangeSum(a + n, m) = RangeSum(a, n + m)
<1> DEFINE s == n + m
           tn == Triangle(n)
           tm == Triangle(m)
           ts == Triangle(s)
<1>1. /\ tn \in Int /\ 2 * tn = n * (n - 1)
      /\ tm \in Int /\ 2 * tm = m * (m - 1)
      /\ ts \in Int /\ 2 * ts = s * (s - 1)
  BY TwiceTriangle
<1>2. n * a \in Int /\ m * (a + n) \in Int /\ s * a \in Int
  OBVIOUS
<1> HIDE DEF tn, tm, ts
<1>3. 2 * (n * a) + n * (n - 1) + 2 * (m * (a + n)) + m * (m - 1) = 2 * (s * a) + s * (s - 1)
  OBVIOUS
<1>4. n * a + tn + (m * (a + n) + tm) = s * a + ts
  BY <1>1, <1>2, <1>3
<1> QED BY <1>1, <1>2, <1>4 DEF RangeSum, tn, tm, ts

LEMMA RangeSumShort ==
  ASSUME NEW a \in Int
  PROVE  RangeSum(a, 0) = 0 /\ RangeSum(a, 1) = a
<1>1. Triangle(0) = 0 /\ Triangle(1) = 0
  BY DEF Triangle
<1> QED BY <1>1 DEF RangeSum

LEMMA RangeSumNext ==
  ASSUME NEW a \in Int, NEW n \in Int
  PROVE  RangeSum(a, n + 1) = RangeSum(a, n) + (a + n)
BY RangeSumAdds, RangeSumShort

LEMMA RangeSumWhole ==
  ASSUME NEW n \in Int
  PROVE  RangeSum(0, n) = (n * (n - 1)) \div 2
<1>1. Triangle(n) \in Int /\ n * 0 = 0
  BY TwiceTriangle
<1> QED BY <1>1 DEF RangeSum, Triangle

-----------------------------------------------------------------------------
(* What the steps keep of the data.                                          *)

LEMMA ForkData ==
  ASSUME TasksOK, DataOK, NEW p, Running(p), NEW act, NEW calls, DOMAIN calls \subseteq Int,
         Cobegin(p, act, calls), UNCHANGED <<len, arr, tmp>>,
         NeedsArray(act) => Initialized,
         act.fn = "main" /\ act.pc = "reduce" => DOMAIN calls = 0..(len - 1),
         act.fn = "main" /\ act.pc = "return" => 1 \in DOMAIN calls,
         act.fn = "reduce" => {1, 2} \subseteq DOMAIN calls,
         \A i \in DOMAIN calls : /\ calls[i].fn \in {"iteration", "reduce"}
                                 /\ calls[i].fn = "reduce" => calls[i].pc = "entry" /\ Initialized
  PROVE  DataOK'
<1>1. /\ p \in DOMAIN tasks /\ p \in Paths /\ DOMAIN tasks' \subseteq Paths
      /\ DOMAIN tasks' = DOMAIN tasks \cup {Child(p, i) : i \in DOMAIN calls}
      /\ tasks'[p] = act
      /\ \A q \in DOMAIN tasks \ {p} : tasks'[q] = tasks[q]
      /\ \A i \in DOMAIN calls : /\ Child(p, i) \in DOMAIN tasks' \ DOMAIN tasks
                                 /\ tasks'[Child(p, i)] = calls[i]
      /\ \A q \in DOMAIN tasks', k \in Int : Child(q, k) \in DOMAIN tasks' =>
           \/ q = p /\ k \in DOMAIN calls
           \/ q \in DOMAIN tasks \ {p} /\ Child(q, k) \in DOMAIN tasks
  BY Fork DEF TasksOK
<1>2. Initialized' <=> Initialized
  BY DEF Initialized
<1>3. ASSUME NEW q \in DOMAIN tasks'
      PROVE  PartsDone(q)' /\ (NeedsArray(tasks'[q]) => Initialized)
  <2>1. CASE q = p
    BY <1>1, <2>1 DEF PartsDone
  <2>2. CASE q \in DOMAIN tasks \ {p}
    <3>1. /\ PartsDone(q) /\ tasks'[q] = tasks[q] /\ DOMAIN tasks \subseteq DOMAIN tasks'
          /\ NeedsArray(tasks[q]) => Initialized
      BY <1>1, <2>2 DEF DataOK
    <3> QED BY <3>1 DEF PartsDone, Returned
  <2>3. ASSUME NEW i \in DOMAIN calls, q = Child(p, i)
        PROVE  PartsDone(q)' /\ (NeedsArray(tasks'[q]) => Initialized)
    <3>1. tasks'[q] = calls[i]
      BY <1>1, <2>3
    <3>2. CASE calls[i].fn = "iteration"
      BY <3>1, <3>2 DEF PartsDone, NeedsArray
    <3>3. CASE calls[i].fn = "reduce"
      <4>1. calls[i].pc = "entry" /\ Initialized
        BY <3>3
      <4> QED BY <3>1, <3>3, <4>1 DEF PartsDone, NeedsArray
    <3>4. calls[i].fn = "iteration" \/ calls[i].fn = "reduce"
      OBVIOUS
    <3> QED BY <3>2, <3>3, <3>4
  <2> QED BY <1>1, <2>1, <2>2, <2>3
<1> QED BY <1>2, <1>3 DEF DataOK, NeedsArray

LEMMA ContinueData ==
  ASSUME TasksOK, DataOK, NEW p, Running(p), NEW act, Continue(p, act), UNCHANGED <<len, arr, tmp>>,
         NeedsArray(act) => Initialized, act.fn = "reduce" /\ act.pc = "entry"
  PROVE  DataOK'
<1>1. /\ p \in DOMAIN tasks /\ DOMAIN tasks' = DOMAIN tasks /\ tasks'[p] = act
      /\ \A q \in DOMAIN tasks \ {p} : tasks'[q] = tasks[q]
  BY DEF Running, Continue
<1>2. Initialized' <=> Initialized
  BY DEF Initialized
<1>3. ASSUME NEW q \in DOMAIN tasks'
      PROVE  PartsDone(q)' /\ (NeedsArray(tasks'[q]) => Initialized)
  <2>1. CASE q = p
    BY <1>1, <2>1 DEF PartsDone
  <2>2. CASE q # p
    BY <1>1, <2>2 DEF DataOK, PartsDone, Returned
  <2> QED BY <2>1, <2>2
<1> QED BY <1>2, <1>3 DEF DataOK, NeedsArray

\* A call of reduce that returns the sum of its part.
LEMMA ReturnData ==
  ASSUME Inv, NEW p, Running(p), tasks[p].fn = "reduce",
         ReturnValue(p, RangeSum(tasks[p].a, tasks[p].len)), UNCHANGED <<len, seqLen, arr>>
  PROVE  Inv'
<1> DEFINE v == RangeSum(tasks[p].a, tasks[p].len)
<1>1. /\ p \in DOMAIN tasks /\ DOMAIN tasks' = DOMAIN tasks \ {p}
      /\ \A q \in DOMAIN tasks' : tasks'[q] = tasks[q]
      /\ DOMAIN tmp' = DOMAIN tmp \cup {p} /\ tmp'[p] = v
      /\ \A q \in DOMAIN tmp \ {p} : tmp'[q] = tmp[q]
  BY DEF Running, ReturnValue, Return
<1>2. TypeOK' /\ TasksOK' /\ (Initialized' <=> Initialized)
  BY ReturnKeeps DEF Inv, TypeOK, ReturnValue, Initialized
<1>3. ASSUME NEW q \in DOMAIN tasks', NEW k \in Int, Child(q, k) = p
      PROVE  PartOf(tasks[q], tasks[p], k, len)
  BY <1>1, <1>3 DEF Inv, TasksOK
<1>4. ASSUME NEW q \in DOMAIN tasks'
      PROVE  PartsDone(q)' /\ (NeedsArray(tasks'[q]) => Initialized)
  <2>1. /\ q \in DOMAIN tasks /\ tasks'[q] = tasks[q] /\ PartsDone(q)
        /\ NeedsArray(tasks'[q]) => Initialized
    BY <1>1 DEF Inv, DataOK
  <2>2. \A k, w : Child(q, k) # p /\ Returned(q, k, w) => Returned(q, k, w)'
    BY <1>1 DEF Returned
  <2>3. ASSUME tasks[q].fn = "main", tasks[q].pc = "reduce",
               NEW x \in 0..(len - 1), Child(q, x) \notin DOMAIN tasks'
        PROVE  arr'[x] = x
    <3>1. CASE Child(q, x) = p
      <4>1. x \in Int
        BY DEF Inv, TypeOK
      <4>2. PartOf(tasks[q], tasks[p], x, len)
        BY <1>3, <3>1, <4>1
      <4>3. tasks[p] = AssignCall(x)
        BY <2>3, <4>2 DEF PartOf
      <4> QED BY <4>3 DEF AssignCall
    <3>2. CASE Child(q, x) # p
      BY <1>1, <2>1, <2>3, <3>2 DEF PartsDone
    <3> QED BY <3>1, <3>2
  <2>4. ASSUME tasks[q].fn = "main", tasks[q].pc = "return", Child(q, 1) \notin DOMAIN tasks'
        PROVE  Returned(q, 1, RangeSum(0, len))'
    <3>1. CASE Child(q, 1) = p
      <4>1. tasks[p].a = 0 /\ tasks[p].len = len
        BY <1>3, <2>4, <3>1 DEF PartOf
      <4> QED BY <1>1, <3>1, <4>1 DEF Returned, RangeSum, Triangle
    <3>2. CASE Child(q, 1) # p
      BY <1>1, <2>1, <2>2, <2>4, <3>2 DEF PartsDone, RangeSum, Triangle, Returned
    <3> QED BY <3>1, <3>2
  <2>5. ASSUME tasks[q].fn = "reduce", tasks[q].pc = "join",
               NEW k \in {1, 2}, Child(q, k) \notin DOMAIN tasks'
        PROVE  Returned(q, k, RangeSum(PartStart(tasks[q], k), PartLen(tasks[q], k)))'
    <3>1. CASE Child(q, k) = p
      <4>1. tasks[p].a = PartStart(tasks[q], k) /\ tasks[p].len = PartLen(tasks[q], k)
        BY <1>3, <2>5, <3>1 DEF PartOf
      <4>2. tmp'[p] = RangeSum(PartStart(tasks[q], k), PartLen(tasks[q], k))
        BY <1>1, <4>1
      <4> QED BY <1>1, <2>1, <3>1, <4>2 DEF Returned
    <3>2. CASE Child(q, k) # p
      BY <1>1, <2>1, <2>2, <2>5, <3>2 DEF PartsDone, Returned
    <3> QED BY <3>1, <3>2
  <2> QED BY <2>1, <2>3, <2>4, <2>5 DEF PartsDone
<1>5. Reduced'
  <2>1. CASE p = <<1>>
    <3>1. <<>> \in DOMAIN tasks /\ Child(<<>>, 1) = p
      BY <1>1, <2>1 DEF Inv, TasksOK, Child
    <3>2. PartOf(tasks[<<>>], tasks[p], 1, len) /\ tasks[<<>>].fn = "main"
      BY <1>1, <3>1 DEF Inv, TasksOK
    <3>3. tasks[p].a = 0 /\ tasks[p].len = len
      BY <3>2 DEF PartOf, AssignCall
    <3> QED BY <1>1, <2>1, <3>3 DEF Reduced, RangeSum, Triangle
  <2>2. CASE p # <<1>>
    BY <1>1, <2>2 DEF Inv, Reduced, RangeSum, Triangle
  <2> QED BY <2>1, <2>2
<1> QED BY <1>2, <1>4, <1>5 DEF Inv, DataOK, NeedsArray

-----------------------------------------------------------------------------
(* What the steps check of the effects.                                      *)

LEMMA WithinFacts ==
  ASSUME NEW f, NEW g,
         Eff(f, "read") \subseteq Eff(g, "read"), Eff(f, "write") \subseteq Eff(g, "write")
  PROVE  Checked!Within(f, g) /\ EP!Within(f, g)
BY DEF Checked!Within, EP!Within

LEMMA MainEff ==
  ASSUME NEW f, f.fn = "main", NEW e
  PROVE  Eff(f, e) = 0..(f.len - 1)
BY DEF Eff

LEMMA IterationEff ==
  ASSUME NEW f, f.fn = "iteration"
  PROVE  Eff(f, "read") = {} /\ Eff(f, "write") = {f.i}
BY DEF Eff

LEMMA ReduceEff ==
  ASSUME NEW f, f.fn = "reduce"
  PROVE  Eff(f, "read") = f.a..(f.a + f.len - 1) /\ Eff(f, "write") = {}
BY DEF Eff

LEMMA ForkIsChecked ==
  ASSUME DOMAIN tasks \subseteq Paths, NEW p, Running(p), NEW act,
         NEW calls, DOMAIN calls \subseteq Int, Cobegin(p, act, calls), EP!Within(act, tasks[p]),
         \A i \in DOMAIN calls : EP!Within(calls[i], tasks[p]),
         \A i, j \in DOMAIN calls : i # j => EP!ConflictFree(calls[i], calls[j])
  PROVE  Checked!CheckedStep(p)
<1>1. EP!PathsOK /\ EP!Running(p) /\ EP!Cobegin(p, act, calls)
  BY SameNames DEF EP!PathsOK, EP!Paths, Paths, EP!Cobegin, Cobegin, EP!Child, Child, EP!Last, Last
<1> QED BY <1>1, EP!ForkChecked, SameCheck

LEMMA ContinueIsChecked ==
  ASSUME DOMAIN tasks \subseteq Paths, NEW p, Running(p), NEW act, Continue(p, act),
         EP!Within(act, tasks[p])
  PROVE  Checked!CheckedStep(p)
<1>1. EP!PathsOK /\ EP!Running(p) /\ EP!Continue(p, act)
  BY SameNames DEF EP!PathsOK, EP!Paths, Paths, EP!Continue, Continue
<1> QED BY <1>1, EP!ContinueFacts, SameCheck

LEMMA ReturnIsChecked ==
  ASSUME NEW p, Running(p), Return(p)
  PROVE  Checked!CheckedReturn(p)
BY SameNames DEF Checked!CheckedReturn, Checked!Return, Return

-----------------------------------------------------------------------------
(* The actions.                                                              *)

LEMMA Frame ==
  ASSUME Inv, NEW p \in DOMAIN tasks
  PROVE  /\ ActOK(tasks[p], len) /\ PartsDone(p) /\ (NeedsArray(tasks[p]) => Initialized)
         /\ tasks[p].fn = "main" => MainOK(tasks[p], len)
         /\ tasks[p].fn = "reduce" => ReduceOK(tasks[p], len)
         /\ tasks[p].fn = "iteration" => tasks[p] \in Iterations /\ tasks[p].i < len
         /\ len \in Nat \ {0}
BY DEF Inv, TypeOK, TasksOK, DataOK, ActOK, MainOK, ReduceOK, Mains, Reduces, Iterations

LEMMA InitializeStep ==
  ASSUME Inv, NEW p, Initialize(p)
  PROVE  Inv' /\ Checked!CheckedStep(p)
<1> DEFINE act == [tasks[p] EXCEPT !.pc = "reduce"]
           calls == [i \in 0..(len - 1) |-> AssignCall(i)]
<1>1. /\ Running(p) /\ p \in DOMAIN tasks /\ tasks[p].fn = "main" /\ tasks[p].pc = "initialize"
      /\ Cobegin(p, act, calls) /\ UNCHANGED <<len, seqLen, arr, tmp>>
  BY DEF Initialize, At, Running
<1>2. MainOK(tasks[p], len) /\ len \in Nat \ {0} /\ TasksOK /\ DataOK
  BY <1>1, Frame DEF Inv
<1>3. /\ act.fn = "main" /\ act.pc = "reduce" /\ act.len = tasks[p].len /\ MainOK(act, len)
      /\ tasks[p].len = len
  BY <1>1, <1>2 DEF MainOK, Mains
<1>4. DOMAIN calls = 0..(len - 1) /\ DOMAIN calls \subseteq Int
  BY <1>2
<1>5. ASSUME NEW i \in DOMAIN calls
      PROVE  /\ calls[i] = AssignCall(i) /\ calls[i].fn = "iteration" /\ calls[i].i = i
             /\ ActOK(calls[i], len) /\ PartOf(act, calls[i], i, len)
  BY <1>2, <1>3, <1>4 DEF AssignCall, ActOK, Iterations, PartOf
<1>6. \A f, k : PartOf(f, tasks[p], k, len) => PartOf(f, act, k, len)
  BY <1>1 DEF PartOf, AssignCall
<1>7. ~NeedsArray(act)
  BY <1>3 DEF NeedsArray
<1> HIDE DEF act, calls
<1>8. TasksOK'
  BY <1>1, <1>2, <1>3, <1>4, <1>5, <1>6, ForkKeeps DEF ActOK
<1>9. DataOK'
  BY <1>1, <1>2, <1>3, <1>4, <1>5, <1>7, ForkData
<1>10. Inv'
  BY <1>1, <1>8, <1>9 DEF Inv, TypeOK, Reduced, RangeSum, Triangle
<1>11. EP!Within(act, tasks[p])
  BY <1>1, <1>3, MainEff, WithinFacts
<1>12. ASSUME NEW i \in DOMAIN calls PROVE EP!Within(calls[i], tasks[p])
  <2>1. Eff(calls[i], "read") = {} /\ Eff(calls[i], "write") = {i}
    BY <1>5, IterationEff
  <2>2. Eff(tasks[p], "write") = 0..(len - 1)
    BY <1>1, <1>3, MainEff
  <2> QED BY <1>4, <2>1, <2>2, WithinFacts
<1>13. ASSUME NEW i \in DOMAIN calls, NEW j \in DOMAIN calls, i # j
       PROVE  EP!ConflictFree(calls[i], calls[j])
  <2>1. /\ Eff(calls[i], "read") = {} /\ Eff(calls[i], "write") = {i}
        /\ Eff(calls[j], "read") = {} /\ Eff(calls[j], "write") = {j}
    BY <1>5, IterationEff
  <2> QED BY <1>13, <2>1 DEF EP!ConflictFree, EP!NonCommuting
<1> QED BY <1>1, <1>2, <1>4, <1>10, <1>11, <1>12, <1>13, ForkIsChecked DEF TasksOK

LEMMA CallReduceStep ==
  ASSUME Inv, NEW p, CallReduce(p)
  PROVE  Inv' /\ Checked!CheckedStep(p)
<1> DEFINE act == [tasks[p] EXCEPT !.pc = "return"]
           calls == <<ReduceCall(0, len)>>
<1>1. /\ Running(p) /\ p \in DOMAIN tasks /\ tasks[p].fn = "main" /\ tasks[p].pc = "reduce"
      /\ Cobegin(p, act, calls) /\ UNCHANGED <<len, seqLen, arr, tmp>>
  BY DEF CallReduce, At, Running, Call
<1>2. MainOK(tasks[p], len) /\ len \in Nat \ {0} /\ TasksOK /\ DataOK /\ PartsDone(p)
  BY <1>1, Frame DEF Inv
<1>3. /\ act.fn = "main" /\ act.pc = "return" /\ act.len = tasks[p].len /\ MainOK(act, len)
      /\ tasks[p].len = len
  BY <1>1, <1>2 DEF MainOK, Mains
<1>4. DOMAIN calls = {1} /\ DOMAIN calls \subseteq Int /\ calls[1] = ReduceCall(0, len)
  OBVIOUS
<1>5. Initialized
  <2>1. \A x \in 0..(len - 1) : x \in Int /\ Child(p, x) \notin DOMAIN tasks
    BY <1>1, <1>2, NoChild DEF TasksOK
  <2> QED BY <1>1, <1>2, <2>1 DEF PartsDone, Initialized
<1>6. /\ calls[1].fn = "reduce" /\ calls[1].pc = "entry" /\ calls[1].a = 0 /\ calls[1].len = len
      /\ ActOK(calls[1], len) /\ PartOf(act, calls[1], 1, len)
  BY <1>2, <1>3, <1>4, RangeSumShort DEF ReduceCall, ActOK, ReduceOK, Reduces, PartOf
<1>7. \A f, k : PartOf(f, tasks[p], k, len) => PartOf(f, act, k, len)
  BY <1>1 DEF PartOf, AssignCall
<1> HIDE DEF act, calls
<1>8. TasksOK'
  BY <1>1, <1>2, <1>3, <1>4, <1>6, <1>7, ForkKeeps DEF ActOK
<1>9. DataOK'
  BY <1>1, <1>2, <1>3, <1>4, <1>5, <1>6, ForkData
<1>10. Inv'
  BY <1>1, <1>8, <1>9 DEF Inv, TypeOK, Reduced, RangeSum, Triangle
<1>11. EP!Within(act, tasks[p])
  BY <1>1, <1>3, MainEff, WithinFacts
<1>12. EP!Within(calls[1], tasks[p])
  <2>1. Eff(calls[1], "read") = 0..(0 + len - 1) /\ Eff(calls[1], "write") = {}
    BY <1>6, ReduceEff
  <2>2. Eff(tasks[p], "read") = 0..(len - 1)
    BY <1>1, <1>3, MainEff
  <2> QED BY <1>2, <2>1, <2>2, WithinFacts
<1> QED BY <1>1, <1>2, <1>4, <1>10, <1>11, <1>12, ForkIsChecked DEF TasksOK

\* Assign writes what the foreach promises, and nothing else.
LEMMA AssignStep ==
  ASSUME Inv, NEW p, Assign(p)
  PROVE  Inv' /\ Checked!CheckedReturn(p)
<1> DEFINE i == tasks[p].i
<1>1. /\ Running(p) /\ p \in DOMAIN tasks /\ tasks[p].fn = "iteration"
      /\ arr' = [arr EXCEPT ![i] = i] /\ Return(p) /\ UNCHANGED <<len, seqLen, tmp>>
  BY DEF Assign, Running
<1>2. tasks[p] \in Iterations /\ i < len /\ len \in Nat \ {0} /\ i \in 0..(len - 1)
  BY <1>1, Frame DEF Iterations
<1>3. TypeOK' /\ arr'[i] = i /\ \A x \in 0..(len - 1) : x # i => arr'[x] = arr[x]
  BY <1>1, <1>2 DEF Inv, TypeOK
<1>4. Initialized => Initialized'
  BY <1>1, <1>3 DEF Initialized
<1>5. TasksOK'
  BY <1>1, ReturnKeeps DEF Inv
<1>6. /\ DOMAIN tasks' = DOMAIN tasks \ {p} /\ \A q \in DOMAIN tasks' : tasks'[q] = tasks[q]
  BY <1>1 DEF Return
<1>7. ASSUME NEW q \in DOMAIN tasks', NEW k \in Int, Child(q, k) = p
      PROVE  tasks[q].fn = "main" /\ tasks[q].pc = "reduce" /\ k = i
  <2>1. PartOf(tasks[q], tasks[p], k, len)
    BY <1>1, <1>6, <1>7 DEF Inv, TasksOK
  <2>2. tasks[p].fn # "reduce"
    BY <1>1
  <2> QED BY <2>1, <2>2 DEF PartOf, AssignCall
<1>8. ASSUME NEW q \in DOMAIN tasks'
      PROVE  PartsDone(q)' /\ (NeedsArray(tasks'[q]) => Initialized')
  <2>1. /\ q \in DOMAIN tasks /\ tasks'[q] = tasks[q] /\ PartsDone(q)
        /\ NeedsArray(tasks'[q]) => Initialized
    BY <1>6 DEF Inv, DataOK
  <2>2. ASSUME tasks[q].fn = "main", tasks[q].pc = "reduce",
               NEW x \in 0..(len - 1), Child(q, x) \notin DOMAIN tasks'
        PROVE  arr'[x] = x
    <3>1. x \in Int
      BY <1>2
    <3>2. CASE Child(q, x) = p
      BY <1>3, <1>7, <3>1, <3>2
    <3>3. CASE Child(q, x) # p
      <4>1. arr[x] = x
        BY <1>6, <2>1, <2>2, <3>3 DEF PartsDone
      <4> QED BY <1>3, <4>1
    <3> QED BY <3>2, <3>3
  <2>3. ASSUME tasks[q].fn = "main", tasks[q].pc = "return", Child(q, 1) \notin DOMAIN tasks'
        PROVE  Returned(q, 1, RangeSum(0, len))
    <3>1. Child(q, 1) # p
      BY <1>7, <2>3
    <3> QED BY <1>6, <2>1, <2>3, <3>1 DEF PartsDone
  <2>4. ASSUME tasks[q].fn = "reduce", tasks[q].pc = "join",
               NEW k \in {1, 2}, Child(q, k) \notin DOMAIN tasks'
        PROVE  Returned(q, k, RangeSum(PartStart(tasks[q], k), PartLen(tasks[q], k)))
    <3>1. Child(q, k) # p
      BY <1>7, <2>4
    <3> QED BY <1>6, <2>1, <2>4, <3>1 DEF PartsDone
  <2> QED BY <1>1, <1>4, <2>1, <2>2, <2>3, <2>4 DEF PartsDone, Returned
<1>9. Reduced'
  BY <1>1 DEF Inv, Reduced, RangeSum, Triangle
<1>10. DataOK'
  BY <1>8 DEF DataOK, NeedsArray
<1> QED BY <1>1, <1>3, <1>5, <1>9, <1>10, ReturnIsChecked DEF Inv

LEMMA ReduceShortStep ==
  ASSUME Inv, NEW p, ReduceShort(p)
  PROVE  Inv' /\ Checked!CheckedReturn(p)
<1>1. /\ Running(p) /\ p \in DOMAIN tasks /\ tasks[p].fn = "reduce" /\ tasks[p].len <= 1
      /\ ReturnValue(p, IF tasks[p].len = 0 THEN 0 ELSE arr[tasks[p].a])
      /\ UNCHANGED <<len, seqLen, arr>>
  BY DEF ReduceShort, At, Running
<1>2. ReduceOK(tasks[p], len) /\ Initialized /\ len \in Nat \ {0}
  BY <1>1, Frame DEF NeedsArray
<1>3. tasks[p].len = 1 /\ tasks[p].a \in 0..(len - 1) /\ tasks[p].a \in Int
  BY <1>1, <1>2 DEF ReduceOK, Reduces
<1>4. arr[tasks[p].a] = RangeSum(tasks[p].a, tasks[p].len)
  BY <1>2, <1>3, RangeSumShort DEF Initialized
<1>5. ReturnValue(p, RangeSum(tasks[p].a, tasks[p].len))
  BY <1>1, <1>3, <1>4
<1>6. Return(p)
  BY <1>5 DEF ReturnValue
<1> QED BY <1>1, <1>5, <1>6, ReturnData, ReturnIsChecked

LEMMA HalfOf ==
  ASSUME NEW n \in Nat, n > 1
  PROVE  /\ n \div 2 \in Nat \ {0} /\ n - (n \div 2) \in Nat \ {0}
         /\ (n \div 2) + (n - (n \div 2)) = n
OBVIOUS

LEMMA HalvesOf ==
  ASSUME NEW f \in Reduces, f.len > 1
  PROVE  /\ PartStart(f, 1) = f.a /\ PartLen(f, 1) = f.len \div 2
         /\ PartStart(f, 2) = f.a + PartLen(f, 1) /\ PartLen(f, 1) + PartLen(f, 2) = f.len
         /\ PartLen(f, 1) \in Nat \ {0} /\ PartLen(f, 2) \in Nat \ {0}
         /\ PartStart(f, 1) \in Nat /\ PartStart(f, 2) \in Nat
<1> DEFINE h == f.len \div 2
           m == f.len - h
<1>1. f.a \in Nat /\ f.len \in Nat
  BY DEF Reduces
<1>2. h \in Nat \ {0} /\ m \in Nat \ {0} /\ h + m = f.len
  BY <1>1, HalfOf
<1>3. PartStart(f, 1) = f.a /\ PartStart(f, 2) = f.a + h
  BY DEF PartStart
<1>4. PartLen(f, 1) = h /\ PartLen(f, 2) = m
  BY DEF PartLen
<1>5. PartLen(f, 1) = f.len \div 2
  BY <1>4
<1> HIDE DEF h, m
<1> QED BY <1>1, <1>2, <1>3, <1>4, <1>5

\* JoinHalves adds what its two routines have returned.
LEMMA JoinHalvesStep ==
  ASSUME Inv, NEW p, JoinHalves(p)
  PROVE  Inv' /\ Checked!CheckedReturn(p)
<1> DEFINE f == tasks[p]
<1>1. /\ Running(p) /\ p \in DOMAIN tasks /\ f.fn = "reduce" /\ f.pc = "join"
      /\ ReturnValue(p, tmp[Child(p, 1)] + tmp[Child(p, 2)]) /\ UNCHANGED <<len, seqLen, arr>>
  BY DEF JoinHalves, At, Running
<1>2. ReduceOK(f, len) /\ PartsDone(p)
  BY <1>1, Frame
<1>3. f \in Reduces /\ f.len > 1
  BY <1>1, <1>2 DEF ReduceOK
<1>4. Child(p, 1) \notin DOMAIN tasks /\ Child(p, 2) \notin DOMAIN tasks
  BY <1>1, NoChild DEF Inv, TasksOK
<1>5. /\ tmp[Child(p, 1)] = RangeSum(PartStart(f, 1), PartLen(f, 1))
      /\ tmp[Child(p, 2)] = RangeSum(PartStart(f, 2), PartLen(f, 2))
  BY <1>1, <1>2, <1>4 DEF PartsDone, Returned
<1>6. RangeSum(PartStart(f, 1), PartLen(f, 1)) + RangeSum(PartStart(f, 2), PartLen(f, 2))
      = RangeSum(f.a, f.len)
  <2>1. f.a \in Int /\ PartLen(f, 1) \in Int /\ PartLen(f, 2) \in Int
    BY <1>3, HalvesOf DEF Reduces
  <2>2. RangeSum(f.a, PartLen(f, 1)) + RangeSum(f.a + PartLen(f, 1), PartLen(f, 2))
        = RangeSum(f.a, PartLen(f, 1) + PartLen(f, 2))
    BY <2>1, RangeSumAdds
  <2> QED BY <1>3, <2>2, HalvesOf
<1>7. ReturnValue(p, RangeSum(f.a, f.len))
  BY <1>1, <1>5, <1>6
<1>8. Return(p)
  BY <1>7 DEF ReturnValue
<1> QED BY <1>1, <1>7, <1>8, ReturnData, ReturnIsChecked

\* ReduceElement adds the next element to what has been added up.
LEMMA ReduceElementStep ==
  ASSUME Inv, NEW p, ReduceElement(p)
  PROVE  Inv' /\ Checked!CheckedStep(p)
<1> DEFINE f == tasks[p]
           act == [f EXCEPT !.i = @ + 1, !.result = @ + arr[f.a + f.i]]
<1>1. /\ Running(p) /\ p \in DOMAIN tasks /\ f.fn = "reduce" /\ f.pc = "entry" /\ f.i < f.len
      /\ Continue(p, act) /\ UNCHANGED <<len, seqLen, arr, tmp>>
  BY DEF ReduceElement, At, Running
<1>2. ReduceOK(f, len) /\ Initialized /\ len \in Nat \ {0} /\ TasksOK /\ DataOK
  BY <1>1, Frame DEF NeedsArray, Inv
<1>3. f.a + f.i \in 0..(len - 1) /\ arr[f.a + f.i] = f.a + f.i /\ f.a \in Int /\ f.i \in Nat
  BY <1>1, <1>2 DEF ReduceOK, Reduces, Initialized
<1>4. act = [f EXCEPT !.i = f.i + 1, !.result = RangeSum(f.a, f.i + 1)]
  <2>1. f.a \in Int /\ f.i \in Int /\ f.result = RangeSum(f.a, f.i)
    BY <1>2 DEF ReduceOK, Reduces
  <2>2. f.result + arr[f.a + f.i] = RangeSum(f.a, f.i + 1)
    BY <1>3, <2>1, RangeSumNext
  <2> QED BY <2>2
<1>5. /\ act.fn = "reduce" /\ act.pc = "entry" /\ act.a = f.a /\ act.len = f.len
      /\ act.i = f.i + 1 /\ act.result = RangeSum(act.a, act.i) /\ act \in Reduces
  <2>1. f \in Reduces /\ f.a \in Int /\ f.i + 1 \in Nat /\ RangeSum(f.a, f.i + 1) \in Int
    <3>1. f \in Reduces
      BY <1>2 DEF ReduceOK
    <3>2. f.a \in Int /\ f.i + 1 \in Nat /\ f.i + 1 \in Int
      BY <1>3
    <3> QED BY <3>1, <3>2, RangeSumAdds
  <2> QED BY <1>1, <1>4, <2>1 DEF Reduces
<1>6. ReduceOK(act, len)
  BY <1>1, <1>2, <1>5 DEF ReduceOK, Reduces
<1>7. \A g, k : PartOf(g, f, k, len) => PartOf(g, act, k, len)
  BY <1>1, <1>5 DEF PartOf, AssignCall
<1> HIDE DEF act
<1>8. TasksOK'
  BY <1>1, <1>2, <1>5, <1>6, <1>7, ContinueKeeps DEF ActOK
<1>9. DataOK'
  BY <1>1, <1>2, <1>5, ContinueData
<1>10. Inv'
  BY <1>1, <1>8, <1>9 DEF Inv, TypeOK, Reduced, RangeSum, Triangle
<1>11. EP!Within(act, f)
  BY <1>1, <1>5, ReduceEff, WithinFacts
<1> QED BY <1>1, <1>2, <1>10, <1>11, ContinueIsChecked DEF TasksOK

LEMMA ReduceEndStep ==
  ASSUME Inv, NEW p, ReduceEnd(p)
  PROVE  Inv' /\ Checked!CheckedReturn(p)
<1>1. /\ Running(p) /\ p \in DOMAIN tasks /\ tasks[p].fn = "reduce" /\ tasks[p].i >= tasks[p].len
      /\ ReturnValue(p, tasks[p].result) /\ UNCHANGED <<len, seqLen, arr>>
  BY DEF ReduceEnd, At, Running
<1>2. ReduceOK(tasks[p], len)
  BY <1>1, Frame
<1>3. tasks[p].i = tasks[p].len
  BY <1>1, <1>2 DEF ReduceOK, Reduces
<1>4. ReturnValue(p, RangeSum(tasks[p].a, tasks[p].len))
  BY <1>1, <1>2, <1>3 DEF ReduceOK
<1>5. Return(p)
  BY <1>4 DEF ReturnValue
<1> QED BY <1>1, <1>4, <1>5, ReturnData, ReturnIsChecked

\* The halves of a call of reduce partition what it reads.
LEMMA ReduceHalvesStep ==
  ASSUME Inv, NEW p, ReduceHalves(p)
  PROVE  Inv' /\ Checked!CheckedStep(p)
<1> DEFINE f == tasks[p]
           h == f.len \div 2
           act == [f EXCEPT !.pc = "join"]
           calls == <<ReduceCall(f.a, h), ReduceCall(f.a + h, f.len - h)>>
<1>1. /\ Running(p) /\ p \in DOMAIN tasks /\ f.fn = "reduce" /\ f.pc = "entry" /\ f.len > 1
      /\ Cobegin(p, act, calls) /\ UNCHANGED <<len, seqLen, arr, tmp>>
  BY DEF ReduceHalves, At, Running
<1>2. ReduceOK(f, len) /\ Initialized /\ len \in Nat \ {0} /\ TasksOK /\ DataOK /\ f \in Reduces
  BY <1>1, Frame DEF NeedsArray, Inv, ReduceOK
<1>3. /\ act.fn = "reduce" /\ act.pc = "join" /\ act.a = f.a /\ act.len = f.len
      /\ act \in Reduces /\ ReduceOK(act, len)
  BY <1>1, <1>2 DEF ReduceOK, Reduces
<1>4. DOMAIN calls = {1, 2} /\ DOMAIN calls \subseteq Int
  OBVIOUS
<1>5. ASSUME NEW k \in {1, 2}
      PROVE  /\ calls[k].fn = "reduce" /\ calls[k].pc = "entry"
             /\ calls[k].a = PartStart(act, k) /\ calls[k].len = PartLen(act, k)
             /\ calls[k] = ReduceCall(PartStart(act, k), PartLen(act, k))
  BY <1>3 DEF ReduceCall, PartStart, PartLen
<1>6. \A g, k : PartOf(g, f, k, len) => PartOf(g, act, k, len)
  BY <1>1, <1>3 DEF PartOf, AssignCall
<1> HIDE DEF act, calls
<1>7. /\ PartStart(act, 1) = f.a /\ PartStart(act, 2) = f.a + PartLen(act, 1)
      /\ PartLen(act, 1) + PartLen(act, 2) = f.len /\ f.a + f.len <= len /\ f.a \in Nat
      /\ PartLen(act, 1) \in Nat \ {0} /\ PartLen(act, 2) \in Nat \ {0}
      /\ PartStart(act, 1) \in Nat /\ PartStart(act, 2) \in Nat
  BY <1>1, <1>2, <1>3, HalvesOf DEF ReduceOK, Reduces
<1>8. ASSUME NEW k \in {1, 2}
      PROVE  ActOK(calls[k], len) /\ PartOf(act, calls[k], k, len) /\ calls[k].fn # "main"
  <2>1. /\ PartStart(act, k) \in Nat /\ PartLen(act, k) \in Nat \ {0}
        /\ PartStart(act, k) + PartLen(act, k) <= len
    BY <1>2, <1>7
  <2>2. ReduceOK(ReduceCall(PartStart(act, k), PartLen(act, k)), len)
    BY <2>1, RangeSumShort DEF ReduceOK, Reduces, ReduceCall
  <2> QED BY <1>3, <1>5, <2>2 DEF ActOK, PartOf
<1>9. TasksOK'
  BY <1>1, <1>2, <1>3, <1>4, <1>6, <1>8, ForkKeeps DEF ActOK
<1>10. DataOK'
  BY <1>1, <1>2, <1>3, <1>4, <1>5, ForkData
<1>11. Inv'
  BY <1>1, <1>9, <1>10 DEF Inv, TypeOK, Reduced, RangeSum, Triangle
<1>12. EP!Within(act, f)
  BY <1>1, <1>3, ReduceEff, WithinFacts
<1>13. ASSUME NEW k \in {1, 2} PROVE EP!Within(calls[k], f)
  <2>1. /\ Eff(calls[k], "read") = PartStart(act, k)..(PartStart(act, k) + PartLen(act, k) - 1)
        /\ Eff(calls[k], "write") = {}
    BY <1>5, ReduceEff
  <2>2. Eff(f, "read") = f.a..(f.a + f.len - 1)
    BY <1>1, ReduceEff
  <2>3. /\ f.a <= PartStart(act, k) /\ PartStart(act, k) + PartLen(act, k) <= f.a + f.len
        /\ f.a \in Int /\ f.len \in Int /\ PartStart(act, k) \in Int /\ PartLen(act, k) \in Int
    BY <1>2, <1>7 DEF Reduces
  <2>4. Eff(calls[k], "read") \subseteq Eff(f, "read")
    <3>1. \A x \in PartStart(act, k)..(PartStart(act, k) + PartLen(act, k) - 1) :
            x \in f.a..(f.a + f.len - 1)
      BY <2>3
    <3> QED BY <2>1, <2>2, <3>1
  <2> QED BY <2>1, <2>4, WithinFacts
<1>14. ASSUME NEW i \in {1, 2}, NEW j \in {1, 2}
       PROVE  EP!ConflictFree(calls[i], calls[j])
  <2>1. Eff(calls[i], "write") = {} /\ Eff(calls[j], "write") = {}
    BY <1>5, ReduceEff
  <2> QED BY <2>1 DEF EP!ConflictFree, EP!NonCommuting
<1> QED BY <1>1, <1>2, <1>4, <1>11, <1>12, <1>13, <1>14, ForkIsChecked DEF TasksOK

LEMMA MainReturnsStep ==
  ASSUME Inv, NEW p, MainReturns(p)
  PROVE  Inv' /\ Checked!CheckedReturn(p)
<1>1. /\ Running(p) /\ p \in DOMAIN tasks /\ tasks[p].fn = "main" /\ Return(p)
      /\ UNCHANGED <<len, seqLen, arr, tmp>>
  BY DEF MainReturns, At, Running
<1>2. p = <<>>
  BY <1>1 DEF Inv, TasksOK
<1>3. TasksOK' /\ DOMAIN tasks' = {}
  BY <1>1, <1>2, ReturnKeeps DEF Inv
<1>4. DataOK' /\ TypeOK' /\ Reduced'
  BY <1>1, <1>3 DEF DataOK, Inv, TypeOK, Reduced, RangeSum, Triangle
<1> QED BY <1>1, <1>3, <1>4, ReturnIsChecked DEF Inv

-----------------------------------------------------------------------------
(* The theorems.                                                             *)

LEMMA Initially ==
  ASSUME SumReduceAssumption, Init
  PROVE  Inv /\ Checked!CheckedInit
<1>1. /\ len \in Nat \ {0} /\ seqLen \in Nat \ {0} /\ arr = [i \in 0..(len - 1) |-> Garbage]
      /\ DOMAIN tmp = {} /\ DOMAIN tasks = {<<>>}
      /\ tasks[<<>>] = [fn |-> "main", pc |-> "initialize", len |-> len]
  BY DEF SumReduceAssumption, Init, Start
<1>2. TypeOK /\ Reduced
  BY <1>1 DEF TypeOK, Reduced
<1>3. <<>> \in Paths
  BY DEF Paths
<1>4. TasksOK
  <2>1. MainOK(tasks[<<>>], len) /\ tasks[<<>>].fn = "main"
    BY <1>1 DEF MainOK, Mains
  <2>2. ASSUME NEW k \in Int PROVE Child(<<>>, k) \notin DOMAIN tasks
    BY <1>1, <1>3, ChildPath
  <2> QED BY <1>1, <1>3, <2>1, <2>2 DEF TasksOK, ActOK
<1>5. DataOK
  BY <1>1 DEF DataOK, PartsDone, NeedsArray
<1> QED BY <1>1, <1>2, <1>4, <1>5 DEF Inv, Checked!CheckedInit

LEMMA StepOK ==
  ASSUME Inv, [Next]_vars
  PROVE  Inv' /\ [Checked!CheckedNext]_tasks
<1>1. CASE UNCHANGED vars
  BY <1>1 DEF vars, Inv, TypeOK, TasksOK, DataOK, Reduced, PartsDone, Returned, Initialized,
              RangeSum, Triangle
<1>2. ASSUME NEW p \in DOMAIN tasks,
             \/ Initialize(p) \/ Assign(p) \/ CallReduce(p)
             \/ ReduceShort(p) \/ ReduceHalves(p) \/ JoinHalves(p)
             \/ ReduceElement(p) \/ ReduceEnd(p) \/ MainReturns(p)
      PROVE  Inv' /\ (Checked!CheckedStep(p) \/ Checked!CheckedReturn(p))
  BY <1>2, InitializeStep, AssignStep, CallReduceStep, ReduceShortStep, ReduceHalvesStep,
     JoinHalvesStep, ReduceElementStep, ReduceEndStep, MainReturnsStep
<1> QED BY <1>1, <1>2 DEF Next, Checked!CheckedNext, vars

\* The invariant: what every call has summed, written or waits for.
THEOREM Invariance ==
  ASSUME SumReduceAssumption
  PROVE  Spec => []Inv
<1>1. Init => Inv
  BY Initially
<1>2. Inv /\ [Next]_vars => Inv'
  BY StepOK
<1> QED BY <1>1, <1>2, PTL DEF Spec

\* sumreduce.c: whatever seqLen and the interleaving, reduce returns the sum of
\* the array to main.
THEOREM ReduceIsSum ==
  ASSUME SumReduceAssumption
  PROVE  Spec => []ReducesToSum
<1>1. Inv => ReducesToSum
  BY RangeSumWhole DEF Inv, TypeOK, Reduced, ReducesToSum
<1> QED BY <1>1, Invariance, PTL

\* sumreduce.c: reduce reads within the array, and what initialize has written.
THEOREM ReadsAreInitialized ==
  ASSUME SumReduceAssumption
  PROVE  Spec => []ReadsInitialized
<1>1. ASSUME Inv, NEW p \in DOMAIN tasks, NEW i \in NextReads(tasks[p])
      PROVE  i \in DOMAIN arr /\ arr[i] # Garbage
  <2>1. tasks[p].fn = "reduce"
    BY <1>1 DEF NextReads
  <2>2. ReduceOK(tasks[p], len) /\ Initialized /\ len \in Nat \ {0}
    BY <1>1, <2>1, Frame DEF NeedsArray
  <2>3. i \in 0..(len - 1)
    BY <1>1, <2>1, <2>2 DEF NextReads, ReduceOK, Reduces
  <2>4. arr[i] = i /\ i \in Int
    BY <2>2, <2>3 DEF Initialized
  <2> QED BY <1>1, <2>3, <2>4 DEF Inv, TypeOK, SumReduceAssumption
<1>2. Inv => ReadsInitialized
  BY <1>1 DEF ReadsInitialized
<1> QED BY <1>2, Invariance, PTL

\* sumreduce.c: the iterations of initialize and the halves of reduce pass the
\* checks CSolve makes of a fork.
THEOREM ForksChecked ==
  ASSUME SumReduceAssumption
  PROVE  Spec => EffectsChecked
<1>1. Init => Checked!CheckedInit
  BY Initially
<1>2. Inv /\ [Next]_vars => [Checked!CheckedNext]_tasks
  BY StepOK
<1> QED BY <1>1, <1>2, Invariance, PTL DEF Spec, EffectsChecked, Checked!CheckedSpec
=============================================================================
