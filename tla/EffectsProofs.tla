---------------------------- MODULE EffectsProofs ----------------------------
(*****************************************************************************)
(* The checks CSolve makes of a parallel program suffice: tasks that may run  *)
(* at the same time never conflict.  Proved for every program, every set of  *)
(* effects and every declaration of commuting effects.                        *)
(*****************************************************************************)
EXTENDS Effects, SequenceTheorems, TLAPS

\* effectDecls.ml: canonize makes commuting a symmetric relation
SymmetricCommuting ==
  \A e1, e2 \in EffNames : <<e1, e2>> \in Commuting => <<e2, e1>> \in Commuting

Paths == Seq(Int)

PathsOK == DOMAIN tasks \subseteq Paths

-----------------------------------------------------------------------------
\* What precedes a path precedes its extensions.
LEMMA PrefixOfChild ==
  ASSUME NEW p \in Paths, NEW r \in Paths, NEW i \in Int, IsPrefix(r, p)
  PROVE  IsPrefix(r, Child(p, i))
<1> DEFINE c == Append(p, i)
<1>1. c \in Paths /\ Len(c) = Len(p) + 1 /\ \A k \in 1..Len(p) : c[k] = p[k]
  BY DEF Paths
<1>2. Len(r) <= Len(p) /\ SubSeq(r, 1, Len(r)) = SubSeq(p, 1, Len(r))
  BY DEF IsPrefix
<1>3. Len(r) \in Nat /\ Len(p) \in Nat
  BY DEF Paths
<1>4. SubSeq(c, 1, Len(r)) = SubSeq(p, 1, Len(r))
  <2>1. SubSeq(c, 1, Len(r)) = [k \in 1..Len(r) |-> c[k]]
    BY <1>1, <1>2, <1>3 DEF Paths
  <2>2. SubSeq(p, 1, Len(r)) = [k \in 1..Len(r) |-> p[k]]
    BY <1>2, <1>3 DEF Paths
  <2>3. \A k \in 1..Len(r) : c[k] = p[k]
    BY <1>1, <1>2, <1>3
  <2> QED BY <2>1, <2>2, <2>3
<1> QED BY <1>1, <1>2, <1>3, <1>4 DEF IsPrefix, Child

\* A path and its children are related; whatever is unrelated to a child of a
\* running task is unrelated to the task.
LEMMA UnrelatedToChild ==
  ASSUME NEW p \in Paths, NEW r \in Paths, NEW i \in Int,
         ~IsStrictPrefix(p, r), ~Related(r, Child(p, i))
  PROVE  ~Related(r, p) /\ ~Related(p, r)
<1>1. ~IsPrefix(r, p)
  BY PrefixOfChild DEF Related
<1>2. ~IsPrefix(p, r)
  <2>1. CASE p = r
    <3>1. IsPrefix(p, p)
      BY DEF IsPrefix, Paths
    <3> QED BY <1>1, <2>1, <3>1
  <2>2. CASE p # r
    BY <2>2 DEF IsStrictPrefix
  <2> QED BY <2>1, <2>2
<1> QED BY <1>1, <1>2 DEF Related

LEMMA RelatedSymmetric ==
  ASSUME NEW p, NEW q
  PROVE  Related(p, q) <=> Related(q, p)
BY DEF Related

LEMMA ConflictSymmetric ==
  ASSUME SymmetricCommuting, NEW f, NEW g, ConflictFree(f, g)
  PROVE  ConflictFree(g, f)
<1> SUFFICES ASSUME NEW e1 \in EffNames, NEW e2 \in EffNames, <<e1, e2>> \notin Commuting
             PROVE  Eff(g, e1) \cap Eff(f, e2) = {}
  BY DEF ConflictFree, NonCommuting
<1>1. <<e2, e1>> \in NonCommuting
  BY DEF SymmetricCommuting, NonCommuting
<1>2. Eff(f, <<e2, e1>>[1]) \cap Eff(g, <<e2, e1>>[2]) = {}
  BY <1>1 DEF ConflictFree
<1> QED BY <1>2

\* Less effect, less conflict.
LEMMA ConflictMonotone ==
  ASSUME NEW f, NEW g, NEW h, ConflictFree(f, g), Within(h, f)
  PROVE  ConflictFree(h, g)
<1> SUFFICES ASSUME NEW e \in NonCommuting PROVE Eff(h, e[1]) \cap Eff(g, e[2]) = {}
  BY DEF ConflictFree
<1>1. e[1] \in EffNames
  BY DEF NonCommuting
<1>2. Eff(h, e[1]) \subseteq Eff(f, e[1])
  BY <1>1 DEF Within
<1>3. Eff(f, e[1]) \cap Eff(g, e[2]) = {}
  BY DEF ConflictFree
<1> QED BY <1>2, <1>3

-----------------------------------------------------------------------------
(* Steps of a running task, for the programs that fork.                      *)

\* A prefix agrees with what it precedes, element by element.
LEMMA PrefixAgrees ==
  ASSUME NEW p \in Paths, NEW q \in Paths
  PROVE  IsPrefix(p, q) <=> Len(p) <= Len(q) /\ \A k \in 1..Len(p) : p[k] = q[k]
<1>1. Len(p) \in Nat /\ Len(q) \in Nat
  BY DEF Paths
<1>2. CASE Len(p) <= Len(q)
  <2>1. SubSeq(p, 1, Len(p)) = [k \in 1..Len(p) |-> p[k]]
    BY <1>1 DEF Paths
  <2>2. SubSeq(q, 1, Len(p)) = [k \in 1..Len(p) |-> q[k]]
    BY <1>1, <1>2 DEF Paths
  <2> QED BY <1>2, <2>1, <2>2 DEF IsPrefix
<1>3. CASE ~(Len(p) <= Len(q))
  BY <1>3 DEF IsPrefix
<1> QED BY <1>2, <1>3

LEMMA ChildFacts ==
  ASSUME NEW p \in Paths, NEW i \in Int
  PROVE  /\ Child(p, i) \in Paths /\ Len(Child(p, i)) = Len(p) + 1
         /\ \A k \in 1..Len(p) : Child(p, i)[k] = p[k]
         /\ Child(p, i)[Len(p) + 1] = i /\ Last(Child(p, i)) = i /\ Child(p, i) # p
<1>1. Child(p, i) \in Paths /\ Len(Child(p, i)) = Len(p) + 1 /\ Child(p, i)[Len(p) + 1] = i
  BY DEF Child, Paths
<1>2. \A k \in 1..Len(p) : Child(p, i)[k] = p[k]
  BY DEF Child, Paths
<1>3. Len(p) \in Nat
  BY DEF Paths
<1> QED BY <1>1, <1>2, <1>3 DEF Last

\* A path is the child of one task, and of one of its parts.
LEMMA ChildInjective ==
  ASSUME NEW p \in Paths, NEW i \in Int, NEW q \in Paths, NEW j \in Int, Child(p, i) = Child(q, j)
  PROVE  p = q /\ i = j
<1> DEFINE c == Child(p, i)
           d == Child(q, j)
<1>1. /\ Len(c) = Len(p) + 1 /\ Last(c) = i /\ \A k \in 1..Len(p) : c[k] = p[k]
      /\ Len(d) = Len(q) + 1 /\ Last(d) = j /\ \A k \in 1..Len(q) : d[k] = q[k]
  BY ChildFacts
<1>2. Len(p) \in Nat /\ Len(q) \in Nat /\ c = d
  BY DEF Paths
<1>3. Len(p) = Len(q)
  BY <1>1, <1>2
<1>4. \A k \in 1..Len(p) : p[k] = q[k]
  BY <1>1, <1>2, <1>3
<1>5. p = q
  BY <1>3, <1>4, SeqEqual DEF Paths
<1> QED BY <1>1, <1>2, <1>5

\* What precedes a child is the child or precedes its parent.
LEMMA PrefixOfChildOnly ==
  ASSUME NEW p \in Paths, NEW i \in Int, NEW r \in Paths, IsPrefix(r, Child(p, i)), r # Child(p, i)
  PROVE  IsPrefix(r, p)
<1> DEFINE c == Child(p, i)
<1>1. c \in Paths /\ Len(c) = Len(p) + 1 /\ \A k \in 1..Len(p) : c[k] = p[k]
  BY ChildFacts
<1>2. Len(r) <= Len(c) /\ \A k \in 1..Len(r) : r[k] = c[k]
  BY <1>1, PrefixAgrees
<1>3. Len(r) \in Nat /\ Len(p) \in Nat
  BY DEF Paths
<1>4. Len(r) # Len(c)
  BY <1>1, <1>2, SeqEqual DEF Paths
<1>5. Len(r) <= Len(p)
  BY <1>1, <1>2, <1>3, <1>4
<1> QED BY <1>1, <1>2, <1>3, <1>5, PrefixAgrees

\* A running task has no descendant.
LEMMA NoDescendant ==
  ASSUME NEW p \in Paths, NEW i \in Int, NEW r, Running(p), r \in Paths, IsPrefix(Child(p, i), r)
  PROVE  r \notin DOMAIN tasks
<1>1. /\ Child(p, i) \in Paths /\ Len(Child(p, i)) = Len(p) + 1
      /\ \A k \in 1..Len(p) : Child(p, i)[k] = p[k]
  BY ChildFacts
<1>2. Len(p) \in Nat /\ Len(r) \in Nat
  BY DEF Paths
<1>3. IsPrefix(p, r) /\ p # r
  BY <1>1, <1>2, PrefixAgrees
<1> QED BY <1>3 DEF IsStrictPrefix, Running

LEMMA ChildIsNew ==
  ASSUME NEW p \in Paths, NEW i \in Int, Running(p)
  PROVE  Child(p, i) \notin DOMAIN tasks
<1>1. Child(p, i) \in Paths /\ IsPrefix(Child(p, i), Child(p, i))
  BY ChildFacts DEF IsPrefix
<1> QED BY <1>1, NoDescendant

LEMMA ForkFacts ==
  ASSUME PathsOK, NEW p, Running(p), NEW act, NEW calls, DOMAIN calls \subseteq Int,
         Cobegin(p, act, calls)
  PROVE  /\ PathsOK' /\ p \in DOMAIN tasks /\ p \in Paths
         /\ DOMAIN tasks' = DOMAIN tasks \cup {Child(p, i) : i \in DOMAIN calls}
         /\ tasks'[p] = act
         /\ \A q \in DOMAIN tasks \ {p} : tasks'[q] = tasks[q]
         /\ \A i \in DOMAIN calls : /\ Child(p, i) \in DOMAIN tasks' \ DOMAIN tasks
                                    /\ tasks'[Child(p, i)] = calls[i]
         /\ Forked = {Child(p, i) : i \in DOMAIN calls}
<1>1. p \in DOMAIN tasks /\ p \in Paths
  BY DEF Running, PathsOK
<1>2. \A i \in DOMAIN calls : /\ Child(p, i) \in Paths /\ Last(Child(p, i)) = i
                              /\ Child(p, i) # p /\ Child(p, i) \notin DOMAIN tasks
  BY <1>1, ChildFacts, ChildIsNew
<1>3. DOMAIN tasks' = DOMAIN tasks \cup {Child(p, i) : i \in DOMAIN calls}
  BY DEF Cobegin
<1>4. tasks'[p] = act /\ \A q \in DOMAIN tasks \ {p} : tasks'[q] = tasks[q]
  BY <1>1 DEF Cobegin
<1>5. \A i \in DOMAIN calls : Child(p, i) \in DOMAIN tasks' /\ tasks'[Child(p, i)] = calls[i]
  BY <1>2 DEF Cobegin
<1>6. PathsOK'
  BY <1>2, <1>3 DEF PathsOK
<1> QED BY <1>1, <1>2, <1>3, <1>4, <1>5, <1>6 DEF Forked

\* After a fork the only children p has are those it has forked, they have none,
\* and other tasks have the children they had.
LEMMA ForkChildren ==
  ASSUME PathsOK, NEW p, Running(p), NEW act, NEW calls, DOMAIN calls \subseteq Int,
         Cobegin(p, act, calls),
         NEW q \in DOMAIN tasks', NEW k \in Int, Child(q, k) \in DOMAIN tasks'
  PROVE  \/ q = p /\ k \in DOMAIN calls
         \/ q \in DOMAIN tasks \ {p} /\ Child(q, k) \in DOMAIN tasks
<1>1. /\ p \in DOMAIN tasks /\ p \in Paths /\ q \in Paths
      /\ DOMAIN tasks' = DOMAIN tasks \cup {Child(p, i) : i \in DOMAIN calls}
  BY ForkFacts DEF PathsOK
<1>2. CASE Child(q, k) \in {Child(p, i) : i \in DOMAIN calls}
  BY <1>1, <1>2, ChildInjective
<1>3. CASE Child(q, k) \in DOMAIN tasks
  <2>1. ASSUME NEW i \in DOMAIN calls, q = Child(p, i) PROVE FALSE
    <3>1. IsPrefix(q, q) /\ q \in Paths
      BY <1>1 DEF IsPrefix
    <3>2. IsPrefix(Child(p, i), Child(q, k)) /\ Child(q, k) \in Paths
      BY <1>1, <2>1, <3>1, PrefixOfChild, ChildFacts
    <3> QED BY <1>1, <1>3, <3>2, NoDescendant
  <2>2. q # p
    BY <1>1, <1>3, ChildIsNew
  <2> QED BY <1>1, <1>3, <2>1, <2>2
<1> QED BY <1>1, <1>2, <1>3

\* The fork passes the checks when its routines do.
LEMMA ForkChecked ==
  ASSUME PathsOK, NEW p, Running(p), NEW act, NEW calls, DOMAIN calls \subseteq Int,
         Cobegin(p, act, calls), Within(act, tasks[p]),
         \A i \in DOMAIN calls : Within(calls[i], tasks[p]),
         \A i, j \in DOMAIN calls : i # j => ConflictFree(calls[i], calls[j])
  PROVE  CheckedStep(p)
<1>1. /\ PathsOK' /\ p \in DOMAIN tasks /\ p \in Paths
      /\ DOMAIN tasks' = DOMAIN tasks \cup {Child(p, i) : i \in DOMAIN calls}
      /\ tasks'[p] = act
      /\ \A q \in DOMAIN tasks \ {p} : tasks'[q] = tasks[q]
      /\ \A i \in DOMAIN calls : /\ Child(p, i) \in DOMAIN tasks' \ DOMAIN tasks
                                 /\ tasks'[Child(p, i)] = calls[i]
      /\ Forked = {Child(p, i) : i \in DOMAIN calls}
  BY ForkFacts
<1>2. \A q \in Forked : q = Child(p, Last(q))
  BY <1>1, ChildFacts
<1>3. SubEffects(p)
  BY <1>1 DEF SubEffects
<1>4. SiblingsDisjoint
  <2> SUFFICES ASSUME NEW i \in DOMAIN calls, NEW j \in DOMAIN calls, Child(p, i) # Child(p, j)
               PROVE  ConflictFree(tasks'[Child(p, i)], tasks'[Child(p, j)])
    BY <1>1 DEF SiblingsDisjoint
  <2> QED BY <1>1
<1> QED BY <1>1, <1>2, <1>3, <1>4 DEF CheckedStep

LEMMA ContinueFacts ==
  ASSUME PathsOK, NEW p, Running(p), NEW act, Continue(p, act)
  PROVE  /\ PathsOK' /\ p \in DOMAIN tasks /\ p \in Paths
         /\ DOMAIN tasks' = DOMAIN tasks /\ tasks'[p] = act
         /\ \A q \in DOMAIN tasks \ {p} : tasks'[q] = tasks[q]
         /\ Within(act, tasks[p]) => CheckedStep(p)
<1>1. /\ PathsOK' /\ p \in DOMAIN tasks /\ p \in Paths
      /\ DOMAIN tasks' = DOMAIN tasks /\ tasks'[p] = act
      /\ \A q \in DOMAIN tasks \ {p} : tasks'[q] = tasks[q]
  BY DEF Running, PathsOK, Continue
<1>2. Forked = {}
  BY <1>1 DEF Forked
<1> QED BY <1>1, <1>2 DEF CheckedStep, SubEffects, SiblingsDisjoint

LEMMA ReturnFacts ==
  ASSUME PathsOK, NEW p, Running(p), Return(p)
  PROVE  /\ PathsOK' /\ p \in DOMAIN tasks /\ p \in Paths
         /\ DOMAIN tasks' = DOMAIN tasks \ {p}
         /\ \A q \in DOMAIN tasks' : tasks'[q] = tasks[q]
         /\ CheckedReturn(p)
BY DEF Running, PathsOK, Return, CheckedReturn

-----------------------------------------------------------------------------
(* Ancestors: between a task and one it descends from, all tasks wait, and   *)
(* none has fewer effects than its descendants.                              *)

\* the child of q that p is or descends from
Toward(q, p) == Child(q, p[Len(q) + 1])

Nested ==
  \A q, p \in DOMAIN tasks :
    IsStrictPrefix(q, p) => Toward(q, p) \in DOMAIN tasks /\ Within(tasks[p], tasks[Toward(q, p)])

LEMMA TowardFacts ==
  ASSUME NEW q \in Paths, NEW p \in Paths, IsStrictPrefix(q, p)
  PROVE  /\ p[Len(q) + 1] \in Int /\ Toward(q, p) \in Paths
         /\ IsPrefix(Toward(q, p), p)
<1> DEFINE i == p[Len(q) + 1]
           c == Child(q, i)
<1>1. Len(q) \in Nat /\ Len(p) \in Nat
  BY DEF Paths
<1>2. Len(q) <= Len(p) /\ (\A k \in 1..Len(q) : q[k] = p[k]) /\ q # p
  BY PrefixAgrees DEF IsStrictPrefix
<1>3. Len(q) # Len(p)
  BY <1>2, SeqEqual DEF Paths
<1>4. Len(q) + 1 \in 1..Len(p)
  BY <1>1, <1>2, <1>3
<1>5. i \in Int
  BY <1>4 DEF Paths
<1>6. /\ c \in Paths /\ Len(c) = Len(q) + 1 /\ c[Len(q) + 1] = i
      /\ \A k \in 1..Len(q) : c[k] = q[k]
  BY <1>5, ChildFacts
<1>7. \A k \in 1..Len(c) : c[k] = p[k]
  BY <1>1, <1>2, <1>6
<1>8. IsPrefix(c, p)
  BY <1>1, <1>4, <1>6, <1>7, PrefixAgrees
<1> QED BY <1>5, <1>6, <1>8 DEF Toward

\* The ancestors of a child are its parent and the ancestors of its parent.
LEMMA TowardChild ==
  ASSUME NEW p \in Paths, NEW i \in Int, NEW q \in Paths, IsStrictPrefix(q, Child(p, i))
  PROVE  \/ q = p /\ Toward(q, Child(p, i)) = Child(p, i)
         \/ IsStrictPrefix(q, p) /\ Toward(q, Child(p, i)) = Toward(q, p)
<1> DEFINE c == Child(p, i)
<1>1. /\ c \in Paths /\ Len(c) = Len(p) + 1 /\ \A k \in 1..Len(p) : c[k] = p[k]
      /\ c[Len(p) + 1] = i
  BY ChildFacts
<1>2. IsPrefix(q, p)
  BY PrefixOfChildOnly DEF IsStrictPrefix
<1>3. CASE q = p
  BY <1>1, <1>3 DEF Toward
<1>4. CASE q # p
  <2>1. IsStrictPrefix(q, p)
    BY <1>2, <1>4 DEF IsStrictPrefix
  <2>2. Len(q) <= Len(p) /\ (\A k \in 1..Len(q) : q[k] = p[k])
    BY <1>2, PrefixAgrees
  <2>3. Len(q) # Len(p)
    BY <1>4, <2>2, SeqEqual DEF Paths
  <2>4. Len(q) \in Nat /\ Len(p) \in Nat /\ Len(q) + 1 \in 1..Len(p)
    BY <2>2, <2>3 DEF Paths
  <2>5. c[Len(q) + 1] = p[Len(q) + 1]
    BY <1>1, <2>4
  <2> QED BY <2>1, <2>5 DEF Toward
<1> QED BY <1>3, <1>4

\* A step that passes the checks and keeps its own effects keeps them nested.
LEMMA StepNested ==
  ASSUME PathsOK, PathsOK', Nested, NEW p \in DOMAIN tasks, CheckedStep(p),
         Within(tasks[p], tasks'[p])
  PROVE  Nested'
<1> SUFFICES ASSUME NEW q \in DOMAIN tasks', NEW r \in DOMAIN tasks', IsStrictPrefix(q, r)
             PROVE  Toward(q, r) \in DOMAIN tasks' /\ Within(tasks'[r], tasks'[Toward(q, r)])
  BY DEF Nested, IsStrictPrefix, IsPrefix, Toward, Child, Within
<1>1. p \in Paths /\ q \in Paths /\ r \in Paths
  BY DEF PathsOK
<1>2. \A s \in DOMAIN tasks \ {p} : s \in DOMAIN tasks' /\ tasks'[s] = tasks[s]
  BY DEF CheckedStep
<1>3. p \in DOMAIN tasks' /\ Running(p) /\ Within(tasks'[p], tasks[p])
  BY DEF CheckedStep
<1>4. \A f : Within(f, tasks[p]) => Within(f, tasks'[p])
  BY DEF Within
<1>5. CASE r \in DOMAIN tasks
  <2>1. q \in DOMAIN tasks
    <3> SUFFICES ASSUME q \in Forked PROVE FALSE
      BY DEF Forked
    <3>1. q = Child(p, Last(q)) /\ q \in Paths
      BY <1>1 DEF CheckedStep
    <3>2. Len(p) \in Nat /\ Len(q) = Len(p) + 1
      BY <1>1, <3>1 DEF Child, Paths
    <3>3. Last(q) \in Int
      BY <1>1, <3>2 DEF Last, Paths
    <3> QED BY <1>1, <1>3, <1>5, <3>1, <3>3, NoDescendant DEF IsStrictPrefix
  <2>2. Toward(q, r) \in DOMAIN tasks /\ Within(tasks[r], tasks[Toward(q, r)])
    BY <1>5, <2>1 DEF Nested
  <2>3. Toward(q, r) \in DOMAIN tasks'
    BY <1>2, <1>3, <2>2
  <2>4. Within(tasks'[r], tasks[r]) /\ Within(tasks[Toward(q, r)], tasks'[Toward(q, r)])
    BY <1>2, <1>3, <1>5, <2>2 DEF Within
  <2> QED BY <2>2, <2>3, <2>4 DEF Within
<1>6. CASE r \notin DOMAIN tasks
  <2>1. r = Child(p, Last(r)) /\ Within(tasks'[r], tasks[p])
    BY <1>6 DEF CheckedStep, Forked, SubEffects
  <2>2. Len(p) \in Nat /\ Len(r) = Len(p) + 1
    BY <1>1, <2>1 DEF Child, Paths
  <2>3. Last(r) \in Int
    BY <1>1, <2>2 DEF Last, Paths
  <2>4. CASE q = p /\ Toward(q, r) = r
    BY <2>4 DEF Within
  <2>5. CASE IsStrictPrefix(q, p) /\ Toward(q, r) = Toward(q, p)
    <3>1. q \in DOMAIN tasks
      <4> SUFFICES ASSUME q \in Forked PROVE FALSE
        BY DEF Forked
      <4>1. q = Child(p, Last(q))
        BY DEF CheckedStep
      <4>2. Len(q) = Len(p) + 1
        BY <1>1, <4>1 DEF Child, Paths
      <4> QED BY <1>1, <2>2, <2>5, <4>2, PrefixAgrees DEF IsStrictPrefix
    <3>2. Toward(q, p) \in DOMAIN tasks /\ Within(tasks[p], tasks[Toward(q, p)])
      BY <2>5, <3>1 DEF Nested
    <3>3. Within(tasks[Toward(q, p)], tasks'[Toward(q, p)]) /\ Toward(q, p) \in DOMAIN tasks'
      BY <1>2, <1>3, <3>2 DEF Within
    <3> QED BY <2>1, <2>5, <3>2, <3>3 DEF Within
  <2> QED BY <1>1, <2>1, <2>3, <2>4, <2>5, TowardChild
<1> QED BY <1>5, <1>6

\* A step that forks nothing may give effects up: its task has no descendant.
LEMMA ContinueNested ==
  ASSUME PathsOK, Nested, NEW p \in DOMAIN tasks, CheckedStep(p), DOMAIN tasks' = DOMAIN tasks
  PROVE  Nested'
<1> SUFFICES ASSUME NEW q \in DOMAIN tasks', NEW r \in DOMAIN tasks', IsStrictPrefix(q, r)
             PROVE  Toward(q, r) \in DOMAIN tasks' /\ Within(tasks'[r], tasks'[Toward(q, r)])
  BY DEF Nested, IsStrictPrefix, IsPrefix, Toward, Child, Within
<1>1. /\ \A s \in DOMAIN tasks \ {p} : tasks'[s] = tasks[s]
      /\ Within(tasks'[p], tasks[p]) /\ Running(p)
  BY DEF CheckedStep
<1>2. q \in Paths /\ r \in Paths
  BY DEF PathsOK
<1>3. Toward(q, r) \in DOMAIN tasks /\ Within(tasks[r], tasks[Toward(q, r)])
  BY DEF Nested
<1>4. CASE Toward(q, r) = p
  <2>1. r = p
    BY <1>1, <1>2, <1>4, TowardFacts DEF Running, IsStrictPrefix
  <2> QED BY <1>3, <1>4, <2>1 DEF Within
<1>5. CASE Toward(q, r) # p
  <2>1. Within(tasks'[r], tasks[r])
    BY <1>1 DEF Within
  <2> QED BY <1>1, <1>3, <1>5, <2>1 DEF Within
<1> QED BY <1>4, <1>5

LEMMA ReturnNested ==
  ASSUME PathsOK, Nested, NEW p \in DOMAIN tasks, CheckedReturn(p)
  PROVE  Nested'
<1> SUFFICES ASSUME NEW q \in DOMAIN tasks', NEW r \in DOMAIN tasks', IsStrictPrefix(q, r)
             PROVE  Toward(q, r) \in DOMAIN tasks' /\ Within(tasks'[r], tasks'[Toward(q, r)])
  BY DEF Nested, IsStrictPrefix, IsPrefix, Toward, Child, Within
<1>1. /\ DOMAIN tasks' = DOMAIN tasks \ {p} /\ \A s \in DOMAIN tasks' : tasks'[s] = tasks[s]
      /\ Running(p)
  BY DEF CheckedReturn, Return
<1>2. q \in Paths /\ r \in Paths
  BY <1>1 DEF PathsOK
<1>3. Toward(q, r) \in DOMAIN tasks /\ Within(tasks[r], tasks[Toward(q, r)])
  BY <1>1 DEF Nested
<1>4. Toward(q, r) # p
  BY <1>1, <1>2, TowardFacts DEF Running, IsStrictPrefix
<1> QED BY <1>1, <1>3, <1>4

-----------------------------------------------------------------------------
\* One checked step of p keeps unrelated tasks free of conflicts: a task that
\* p forks is unrelated only to what p is unrelated to and to its siblings.
LEMMA CheckedStepDisjoint ==
  ASSUME SymmetricCommuting, UnrelatedDisjoint, PathsOK, PathsOK',
         NEW p \in DOMAIN tasks, CheckedStep(p)
  PROVE  UnrelatedDisjoint'
<1> SUFFICES ASSUME NEW q \in DOMAIN tasks', NEW r \in DOMAIN tasks', ~Related(q, r)
             PROVE  ConflictFree(tasks'[q], tasks'[r])
  BY DEF UnrelatedDisjoint, Related, ConflictFree
<1>0. p \in Paths /\ q \in Paths /\ r \in Paths
  BY DEF PathsOK
<1> DEFINE Kept(s) == s \in DOMAIN tasks
           Origin(s) == IF Kept(s) THEN s ELSE p
<1>1. \A s \in DOMAIN tasks' : Within(tasks'[s], tasks[Origin(s)]) /\ Origin(s) \in DOMAIN tasks
  <2> SUFFICES ASSUME NEW s \in DOMAIN tasks'
               PROVE  Within(tasks'[s], tasks[Origin(s)]) /\ Origin(s) \in DOMAIN tasks
    OBVIOUS
  <2>1. CASE s = p
    BY <2>1 DEF CheckedStep
  <2>2. CASE Kept(s) /\ s # p
    <3>1. tasks'[s] = tasks[s]
      BY <2>2 DEF CheckedStep
    <3> QED BY <2>2, <3>1 DEF Within
  <2>3. CASE ~Kept(s)
    BY <2>3 DEF CheckedStep, SubEffects, Forked
  <2> QED BY <2>1, <2>2, <2>3
<1>2. \A s \in DOMAIN tasks' : ~Kept(s) => s = Child(p, Last(s)) /\ Last(s) \in Int
  <2> SUFFICES ASSUME NEW s \in DOMAIN tasks', ~Kept(s)
               PROVE  s = Child(p, Last(s)) /\ Last(s) \in Int
    OBVIOUS
  <2>1. s = Append(p, Last(s))
    BY DEF CheckedStep, Forked, Child
  <2>2. s \in Paths /\ Len(s) = Len(p) + 1
    BY <1>0, <2>1 DEF PathsOK, Paths
  <2> QED BY <1>0, <2>1, <2>2 DEF Paths, Last, Child
<1>3. CASE Origin(q) # Origin(r)
  <2>1. ~Related(Origin(q), Origin(r))
    <3>1. \A s \in DOMAIN tasks : ~IsStrictPrefix(p, s)
      BY DEF CheckedStep, Running
    <3>2. CASE Kept(q) /\ Kept(r)
      BY <3>2
    <3>3. CASE ~Kept(q) /\ Kept(r)
      <4>1. ~Related(r, Child(p, Last(q)))
        BY <1>2, <3>3, RelatedSymmetric
      <4> QED BY <1>0, <1>2, <3>1, <3>3, <4>1, UnrelatedToChild
    <3>4. CASE Kept(q) /\ ~Kept(r)
      <4>1. ~Related(q, Child(p, Last(r)))
        BY <1>2, <3>4
      <4> QED BY <1>0, <1>2, <3>1, <3>4, <4>1, UnrelatedToChild
    <3> QED BY <1>3, <3>2, <3>3, <3>4
  <2>2. ConflictFree(tasks[Origin(q)], tasks[Origin(r)])
    BY <1>1, <2>1 DEF UnrelatedDisjoint
  <2>3. ConflictFree(tasks'[q], tasks[Origin(r)])
    BY <1>1, <2>2, ConflictMonotone
  <2>4. ConflictFree(tasks'[r], tasks'[q])
    BY <1>1, <2>3, ConflictMonotone, ConflictSymmetric
  <2> QED BY <2>4, ConflictSymmetric
<1>4. CASE Origin(q) = Origin(r)
  <2>1. q # r
    <3>1. IsPrefix(q, q)
      BY <1>0 DEF IsPrefix, Paths
    <3> QED BY <3>1 DEF Related
  <2>2. CASE ~Kept(q) /\ ~Kept(r)
    BY <2>1, <2>2 DEF CheckedStep, SiblingsDisjoint, Forked
  <2>3. CASE ~Kept(q) /\ r = p
    <3>1. IsPrefix(p, p)
      BY <1>0 DEF IsPrefix, Paths
    <3> QED BY <1>0, <1>2, <2>3, <3>1, PrefixOfChild DEF Related
  <2>4. CASE ~Kept(r) /\ q = p
    <3>1. IsPrefix(p, p)
      BY <1>0 DEF IsPrefix, Paths
    <3> QED BY <1>0, <1>2, <2>4, <3>1, PrefixOfChild DEF Related
  <2> QED BY <1>4, <2>1, <2>2, <2>3, <2>4
<1> QED BY <1>3, <1>4

\* Effects are enough: a program all of whose forks pass the checks of
\* consVisitor.ml never has two unrelated tasks that conflict.
THEOREM EffectsSuffice ==
  ASSUME SymmetricCommuting
  PROVE  CheckedSpec /\ []PathsOK => []UnrelatedDisjoint
<1>1. CheckedInit /\ PathsOK => UnrelatedDisjoint
  <2> SUFFICES ASSUME CheckedInit, PathsOK,
                      NEW p \in DOMAIN tasks, NEW q \in DOMAIN tasks, ~Related(p, q)
               PROVE  FALSE
    BY DEF UnrelatedDisjoint
  <2>1. p = q /\ p \in Paths
    BY DEF CheckedInit, PathsOK
  <2> QED BY <2>1 DEF Related, IsPrefix, Paths
<1>2. UnrelatedDisjoint /\ PathsOK /\ PathsOK' /\ [CheckedNext]_tasks => UnrelatedDisjoint'
  <2> SUFFICES ASSUME UnrelatedDisjoint, PathsOK, PathsOK', [CheckedNext]_tasks
               PROVE  UnrelatedDisjoint'
    OBVIOUS
  <2>1. ASSUME NEW p \in DOMAIN tasks, CheckedStep(p) PROVE UnrelatedDisjoint'
    BY <2>1, CheckedStepDisjoint
  <2>2. ASSUME NEW p \in DOMAIN tasks, CheckedReturn(p) PROVE UnrelatedDisjoint'
    BY <2>2 DEF CheckedReturn, Return, UnrelatedDisjoint, Related, ConflictFree
  <2>3. CASE UNCHANGED tasks
    BY <2>3 DEF UnrelatedDisjoint, Related, ConflictFree
  <2> QED BY <2>1, <2>2, <2>3 DEF CheckedNext
<1> QED BY <1>1, <1>2, PTL DEF CheckedSpec
=============================================================================
