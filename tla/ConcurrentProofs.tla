--------------------------- MODULE ConcurrentProofs ---------------------------
(*****************************************************************************)
(* For all values of the constants: a parallel block, run in parallel,       *)
(* implements what the analysis sees of it and ends with a unique memory,    *)
(* which the code of its macros reaches too; what do_timeout returns is      *)
(* final; and what holds of each of the programs holds of Concurrent.        *)
(*****************************************************************************)
EXTENDS Concurrent, TLAPS

-----------------------------------------------------------------------------
(* The block run in parallel.                                                *)

Inputs0(r) == [y \in Reads(r) |-> mem0[y]]

ParTypeOK ==
  /\ mem0 \in [Addresses -> Values]
  /\ mem \in [Addresses -> Values]
  /\ loaded \in [Routines -> SUBSET Addresses]
  /\ stored \in [Routines -> SUBSET Addresses]
  /\ ended \subseteq Routines
  /\ left \in BOOLEAN

\* what a routine may have stored: nothing before it has read, all at its end
StoredInPhase ==
  \A r \in Routines :
    /\ stored[r] \subseteq Writes(r)
    /\ loaded[r] # Reads(r) => stored[r] = {}
    /\ r \in ended => stored[r] = Writes(r)

\* nobody has changed what a routine has read or is going to read
LocalIsOld == local = [r \in Routines |-> Inputs0(r)]

StoredIsNew == \A r \in Routines : \A x \in stored[r] : mem[x] = F(r, x, Inputs0(r))

OthersAreOld ==
  \A x \in Addresses : (\A r \in Routines : x \notin stored[r]) => mem[x] = mem0[x]

LeftAtEnd == left => Routines \subseteq ended

ParInv == ParTypeOK /\ StoredInPhase /\ LocalIsOld /\ StoredIsNew /\ OthersAreOld /\ LeftAtEnd

-----------------------------------------------------------------------------
\* Nobody else writes what a routine reads or writes.
LEMMA NoOtherWriter ==
  ASSUME NEW q \in Routines, NEW r \in Routines, q # r,
         NEW x \in Reads(r) \cup Writes(r)
  PROVE  x \notin Writes(q)
BY CobeginRunAssumption DEF ConflictFree

\* The inputs of a routine, before the block, are values.
LEMMA InputsAreValues ==
  ASSUME ParTypeOK, NEW r \in Routines
  PROVE  Inputs0(r) \in [Reads(r) -> Values]
BY CobeginRunAssumption DEF Inputs0, ParTypeOK

LEMMA ParInitially == ParInit => ParInv
BY CobeginRunAssumption
DEF ParInit, ParInv, ParTypeOK, StoredInPhase, LocalIsOld, StoredIsNew, OthersAreOld, LeftAtEnd, Inputs0

\* A routine that loads reads the memory before the block.
LEMMA LoadReadsOld ==
  ASSUME ParInv, NEW r \in Routines, NEW y \in Reads(r), loaded[r] # Reads(r)
  PROVE  mem[y] = mem0[y]
<1>1. y \in Addresses
  BY CobeginRunAssumption
<1>2. \A q \in Routines : y \notin stored[q]
  BY NoOtherWriter DEF ParInv, StoredInPhase
<1> QED
  BY <1>1, <1>2 DEF ParInv, OthersAreOld

LEMMA LoadKeeps ==
  ASSUME ParInv, NEW r \in Routines, NEW y \in Reads(r), Load(r, y)
  PROVE  ParInv'
<1>1. local' = local
  <2>1. mem[y] = mem0[y]
    BY LoadReadsOld DEF Load
  <2> QED
    BY <2>1 DEF Load, ParInv, LocalIsOld, Inputs0
<1>2. UNCHANGED <<mem0, mem, stored, ended, left>>
  BY DEF Load
<1>3. y \in Addresses
  BY CobeginRunAssumption
<1>4. ParTypeOK' /\ StoredInPhase' /\ LeftAtEnd'
  BY <1>3 DEF Load, ParInv, ParTypeOK, StoredInPhase, LeftAtEnd
<1>5. LocalIsOld' /\ StoredIsNew' /\ OthersAreOld'
  BY <1>1, <1>2 DEF ParInv, LocalIsOld, StoredIsNew, OthersAreOld, Inputs0
<1> QED
  BY <1>4, <1>5 DEF ParInv

LEMMA StoreKeeps ==
  ASSUME ParInv, NEW r \in Routines, NEW x \in Writes(r), Store(r, x)
  PROVE  ParInv'
<1> USE DEF ParInv
<1>1. local[r] = Inputs0(r)
  BY DEF LocalIsOld
<1>2. x \in Addresses /\ F(r, x, Inputs0(r)) \in Values
  BY InputsAreValues, CobeginRunAssumption
<1>3. ParTypeOK'
  BY <1>1, <1>2 DEF Store, ParTypeOK
<1>4. /\ mem' = [mem EXCEPT ![x] = F(r, x, Inputs0(r))]
      /\ stored' = [stored EXCEPT ![r] = @ \cup {x}]
      /\ UNCHANGED <<mem0, loaded, local, ended, left>>
  BY <1>1 DEF Store
<1>5. StoredInPhase'
  BY <1>4 DEF Store, ParTypeOK, StoredInPhase
<1>6. LocalIsOld'
  BY <1>4 DEF LocalIsOld, Inputs0
<1>7. StoredIsNew'
  <2>1. SUFFICES ASSUME NEW q \in Routines, NEW y \in stored'[q]
                 PROVE  mem'[y] = F(q, y, Inputs0(q))
    BY <1>4 DEF StoredIsNew, Inputs0
  <2>2. y \in Addresses /\ y \in Writes(q)
    BY <1>3, <1>5 DEF ParTypeOK, StoredInPhase
  <2>3. CASE q = r /\ y = x
    BY <1>4, <2>2, <2>3 DEF ParTypeOK
  <2>4. CASE ~(q = r /\ y = x)
    <3>1. y # x
      BY <2>2, <2>4, NoOtherWriter
    <3>2. y \in stored[q]
      BY <1>4, <3>1 DEF ParTypeOK
    <3> QED
      BY <1>4, <2>2, <3>1, <3>2 DEF ParTypeOK, StoredIsNew
  <2> QED
    BY <2>3, <2>4
<1>8. OthersAreOld'
  <2>1. SUFFICES ASSUME NEW y \in Addresses, \A q \in Routines : y \notin stored'[q]
                 PROVE  mem'[y] = mem0[y]
    BY <1>4 DEF OthersAreOld
  <2>2. x \in stored'[r] /\ \A q \in Routines : stored[q] \subseteq stored'[q]
    BY <1>4 DEF ParTypeOK
  <2>3. y # x /\ mem[y] = mem0[y]
    BY <2>1, <2>2 DEF OthersAreOld
  <2> QED
    BY <1>4, <2>3 DEF ParTypeOK
<1>9. LeftAtEnd'
  BY <1>4 DEF LeftAtEnd
<1> QED
  BY <1>3, <1>5, <1>6, <1>7, <1>8, <1>9

LEMMA EndKeeps ==
  ASSUME ParInv, NEW r \in Routines, End(r)
  PROVE  ParInv'
<1>1. ParTypeOK' /\ LocalIsOld' /\ StoredIsNew' /\ OthersAreOld'
  BY DEF End, ParInv, ParTypeOK, LocalIsOld, StoredIsNew, OthersAreOld, Inputs0
<1>2. StoredInPhase' /\ LeftAtEnd'
  BY DEF End, ParInv, ParTypeOK, StoredInPhase, LeftAtEnd
<1> QED
  BY <1>1, <1>2 DEF ParInv

LEMMA JoinKeeps == ASSUME ParInv, Join PROVE ParInv'
BY DEF Join, ParInv, ParTypeOK, StoredInPhase, LocalIsOld, StoredIsNew, OthersAreOld, LeftAtEnd, Inputs0

LEMMA ParStepKeeps == ParInv /\ [ParNext]_vars => ParInv'
<1>1. SUFFICES ASSUME ParInv, [ParNext]_vars PROVE ParInv'
  OBVIOUS
<1>2. CASE UNCHANGED vars
  BY <1>1, <1>2
  DEF vars, ParInv, ParTypeOK, StoredInPhase, LocalIsOld, StoredIsNew, OthersAreOld, LeftAtEnd, Inputs0
<1> QED
  BY <1>1, <1>2, LoadKeeps, StoreKeeps, EndKeeps, JoinKeeps DEF ParNext, Works

\* The invariant the two results rest on holds in every state.
LEMMA ParInvariance == ParSpec => []ParInv
BY ParInitially, ParStepKeeps, PTL DEF ParSpec

-----------------------------------------------------------------------------
\* When all routines have ended, each has run once on the memory before the
\* block, and nothing else has changed: the block is deterministic, whatever
\* the interleaving of its stores (what lib/cpj.h calls its constructs).
THEOREM BlockDeterministic == ParSpec => []Deterministic
<1>1. ASSUME ParInv PROVE Deterministic
  BY <1>1, CobeginRunAssumption
  DEF ParInv, Deterministic, StoredInPhase, StoredIsNew, OthersAreOld, LeftAtEnd, Inputs0
<1> QED
  BY <1>1, ParInvariance, PTL

-----------------------------------------------------------------------------
(* The refinement.                                                           *)

LEMMA InitSeen == ParInv /\ ParInit => Seen!Init
<1>1. SUFFICES ASSUME ParInv, ParInit PROVE Seen!Init
  OBVIOUS
<1>2. memBar = mem0
  BY <1>1 DEF memBar, ParInit
<1> QED
  BY <1>1, <1>2 DEF Seen!Init, ParInit

\* What a routine reads has not changed in memBar, until it ends.
LEMMA BarReadsOld ==
  ASSUME ParInv, NEW r \in Routines \ ended
  PROVE  Seen!Inputs(r, memBar) = Inputs0(r)
<1>1. SUFFICES ASSUME NEW y \in Reads(r) PROVE memBar[y] = mem0[y]
  BY DEF Seen!Inputs, Inputs0
<1>2. y \in Addresses
  BY CobeginRunAssumption
<1>3. CASE y \in Writes(r)
  BY <1>2, <1>3 DEF memBar
<1>4. CASE y \notin Writes(r)
  <2>1. \A q \in Routines : y \notin stored[q]
    BY <1>4, NoOtherWriter DEF ParInv, StoredInPhase
  <2> QED
    BY <1>2, <2>1 DEF memBar, ParInv, OthersAreOld
<1> QED
  BY <1>3, <1>4

\* A routine that ends seems to run at once.
LEMMA EndIsRun ==
  ASSUME ParInv, NEW r \in Routines, End(r), ~left
  PROVE  Seen!Run(r)
<1>1. SUFFICES memBar' = Seen!RunOf(r, memBar)
  BY DEF Seen!Run, End
<1>2. SUFFICES ASSUME NEW x \in Addresses
               PROVE  memBar'[x] = IF x \in Writes(r) THEN F(r, x, Seen!Inputs(r, memBar)) ELSE memBar[x]
  BY DEF Seen!RunOf, memBar
<1>3. /\ ended' = ended \cup {r} /\ r \notin ended
      /\ mem' = mem /\ mem0' = mem0 /\ stored[r] = Writes(r)
  BY DEF End
<1>4. CASE x \in Writes(r)
  <2>1. \A q \in Routines : x \in Writes(q) => q \in ended'
    BY <1>3, <1>4, NoOtherWriter
  <2>2. memBar'[x] = mem[x]
    BY <1>3, <2>1 DEF memBar
  <2>3. mem[x] = F(r, x, Inputs0(r))
    BY <1>3, <1>4 DEF ParInv, StoredIsNew
  <2> QED
    BY <1>3, <1>4, <2>2, <2>3, BarReadsOld
<1>5. CASE x \notin Writes(r)
  <2>1. \A q \in Routines : x \in Writes(q) => (q \in ended' <=> q \in ended)
    BY <1>3, <1>5
  <2> QED
    BY <1>3, <1>5, <2>1 DEF memBar
<1> QED
  BY <1>4, <1>5

\* A store by a routine that has not ended is not seen.
LEMMA StoreUnseen ==
  ASSUME ParInv, NEW r \in Routines, NEW x \in Writes(r), Store(r, x)
  PROVE  memBar' = memBar
<1>1. SUFFICES ASSUME NEW y \in Addresses PROVE memBar'[y] = memBar[y]
  BY DEF memBar
<1>2. ended' = ended /\ mem0' = mem0 /\ r \notin ended
  BY DEF Store, ParInv, StoredInPhase
<1>3. CASE y = x
  BY <1>2, <1>3 DEF memBar
<1>4. CASE y # x
  <2>1. mem'[y] = mem[y]
    BY <1>4 DEF Store, ParInv, ParTypeOK
  <2> QED
    BY <1>2, <2>1 DEF memBar
<1> QED
  BY <1>3, <1>4

LEMMA ParStepSeen == ParInv /\ [ParNext]_vars => [Seen!Next]_<<memBar, left>>
<1>1. SUFFICES ASSUME ParInv, [ParNext]_vars PROVE [Seen!Next]_<<memBar, left>>
  OBVIOUS
<1>2. CASE UNCHANGED vars
  BY <1>2 DEF vars, memBar
<1>3. ASSUME NEW r \in Routines, NEW y \in Reads(r), Load(r, y) PROVE UNCHANGED <<memBar, left>>
  BY <1>3 DEF Load, memBar
<1>4. ASSUME NEW r \in Routines, NEW x \in Writes(r), Store(r, x) PROVE UNCHANGED <<memBar, left>>
  BY <1>1, <1>4, StoreUnseen DEF Store
<1>5. ASSUME NEW r \in Routines, End(r) PROVE Seen!Next
  <2>1. ~left
    BY <1>1, <1>5 DEF End, ParInv, LeftAtEnd, ParTypeOK
  <2> QED
    BY <1>1, <1>5, <2>1, EndIsRun DEF Seen!Next
<1>6. ASSUME Join PROVE Seen!Next
  BY <1>6 DEF Join, memBar, Seen!Next, Seen!Leave
<1> QED
  BY <1>1, <1>2, <1>3, <1>4, <1>5, <1>6 DEF ParNext, Works

\* Routines that do not conflict, run in parallel, implement the block the
\* analysis reads (lib/cpj.h): each seems to run at once, when it ends.
THEOREM ParallelImplementsSeen == ParSpec => ParallelIsAnyOrder
<1>1. ParSpec => Seen!Init
  BY ParInitially, InitSeen DEF ParSpec
<1> QED
  BY <1>1, ParInvariance, ParStepSeen, PTL DEF ParSpec, ParallelIsAnyOrder, Seen!Spec
-----------------------------------------------------------------------------
(* The code of its macros, which follows.                                    *)

Pending == {order[k] : k \in 1..Len(order)}

\* the memory, with what the routines the code has run have stored
Replayed ==
  [x \in Addresses |-> IF \E r \in ended \ Pending : x \in Writes(r) THEN mem[x] ELSE mem0[x]]

OrderOK ==
  /\ order \in Seq(Routines)
  /\ \A j, k \in 1..Len(order) : j # k => order[j] # order[k]
  /\ Pending \subseteq ended

FollowInv ==
  /\ ParInv
  /\ OrderOK
  /\ codeMem = Replayed
  /\ codeLeft => left /\ order = <<>>

LEMMA FollowedInitially == FollowedInit => FollowInv
<1> SUFFICES ASSUME FollowedInit PROVE FollowInv
  OBVIOUS
<1>1. ParInv /\ Pending = {} /\ ended = {}
  BY ParInitially DEF FollowedInit, Pending, ParInit
<1>2. codeMem = Replayed
  BY <1>1 DEF Replayed, FollowedInit, ParInit
<1> QED
  BY <1>1, <1>2 DEF FollowInv, OrderOK, FollowedInit, Code!CodeInit, Code!Init

\* Nothing but the end of a routine changes what the code is to replay.
LEMMA WorkNotReplayed ==
  ASSUME FollowInv, NEW r \in Routines, Works(r), UNCHANGED order
  PROVE  Replayed' = Replayed /\ ended' = ended /\ left' = left
<1>1. CASE \E y \in Reads(r) : Load(r, y)
  BY <1>1 DEF Load, Replayed, Pending
<1>2. ASSUME NEW x \in Writes(r), Store(r, x) PROVE Replayed' = Replayed
  <2>1. r \notin ended
    BY <1>2 DEF Store, FollowInv, ParInv, StoredInPhase
  <2>2. UNCHANGED <<mem0, ended, Pending>> /\ mem' = [mem EXCEPT ![x] = F(r, x, local[r])]
    BY <1>2 DEF Store, Pending
  <2>3. \A q \in ended : x \notin Writes(q)
    BY <2>1, NoOtherWriter DEF FollowInv, ParInv, ParTypeOK
  <2>4. \A z \in Addresses : z # x => mem'[z] = mem[z]
    BY <2>2 DEF FollowInv, ParInv, ParTypeOK
  <2> QED
    BY <2>2, <2>3, <2>4 DEF Replayed
<1> QED
  BY <1>1, <1>2 DEF Works, Load, Store

\* A routine that ends is put in order, and not replayed yet.
LEMMA EndInOrder ==
  ASSUME FollowInv, NEW r \in Routines, End(r), order' = Append(order, r)
  PROVE  OrderOK' /\ Replayed' = Replayed
<1>1. /\ order \in Seq(Routines) /\ order' \in Seq(Routines)
      /\ Len(order') = Len(order) + 1 /\ order'[Len(order) + 1] = r
      /\ \A k \in 1..Len(order) : order'[k] = order[k]
  BY DEF FollowInv, OrderOK
<1>2. Pending' = Pending \cup {r}
  BY <1>1 DEF Pending
<1>3. r \notin ended /\ ended' = ended \cup {r} /\ UNCHANGED <<mem, mem0>>
  BY DEF End
<1>4. r \notin Pending
  BY <1>3 DEF FollowInv, OrderOK
<1>5. OrderOK'
  <2>1. \A j, k \in 1..Len(order') : j # k => order'[j] # order'[k]
    BY <1>1, <1>4 DEF FollowInv, OrderOK, Pending
  <2> QED
    BY <1>1, <1>2, <1>3, <2>1 DEF FollowInv, OrderOK
<1>6. ended' \ Pending' = ended \ Pending
  BY <1>2, <1>3, <1>4
<1> QED
  BY <1>3, <1>5, <1>6 DEF Replayed

LEMMA RunStepFollowed ==
  ASSUME FollowInv, RunStep
  PROVE  FollowInv'
<1>1. ParInv'
  BY ParStepKeeps DEF FollowInv, RunStep, ParNext
<1>2. UNCHANGED <<codeMem, codeLeft>>
  BY DEF RunStep, code
<1>3. CASE (\E r \in Routines : Works(r)) /\ UNCHANGED order
  BY <1>1, <1>2, <1>3, WorkNotReplayed DEF FollowInv, OrderOK, Pending
<1>4. ASSUME NEW r \in Routines, End(r), order' = Append(order, r) PROVE FollowInv'
  <2>1. ~codeLeft
    BY <1>4 DEF FollowInv, ParInv, LeftAtEnd, End
  <2> QED
    BY <1>1, <1>2, <1>4, <2>1, EndInOrder DEF FollowInv
<1>5. CASE Join /\ UNCHANGED order
  <2>1. Replayed' = Replayed /\ OrderOK'
    BY <1>5 DEF Join, Replayed, Pending, FollowInv, OrderOK
  <2> QED
    BY <1>1, <1>2, <1>5, <2>1 DEF FollowInv, Join
<1> QED
  BY <1>3, <1>4, <1>5 DEF RunStep

-----------------------------------------------------------------------------
\* The next routine reads in the code's memory what it has read in parallel.
LEMMA ReplayReadsOld ==
  ASSUME FollowInv, NEW r \in Pending
  PROVE  Code!Inputs(r, codeMem) = Inputs0(r)
<1>1. r \in Routines
  BY DEF FollowInv, OrderOK, ParInv, ParTypeOK
<1>2. SUFFICES ASSUME NEW y \in Reads(r) PROVE codeMem[y] = mem0[y]
  BY DEF Code!Inputs, Inputs0
<1>3. y \in Addresses
  BY <1>1, CobeginRunAssumption
<1>4. \A q \in ended \ Pending : y \notin Writes(q)
  BY <1>1, NoOtherWriter DEF FollowInv, ParInv, ParTypeOK
<1> QED
  BY <1>3, <1>4 DEF FollowInv, Replayed

\* The code runs the next routine: it then has what that routine has stored.
LEMMA ReplayOne ==
  ASSUME FollowInv, order # <<>>, order' = Tail(order), UNCHANGED vars,
         codeMem' = Code!RunOf(Head(order), codeMem)
  PROVE  OrderOK' /\ codeMem' = Replayed'
<1> DEFINE r == Head(order)
<1>1. /\ order \in Seq(Routines) /\ Len(order) >= 1 /\ r = order[1]
      /\ order' \in Seq(Routines) /\ Len(order') = Len(order) - 1
      /\ \A k \in 1..Len(order') : order'[k] = order[k + 1]
  BY DEF FollowInv, OrderOK
<1>2. r \in Pending /\ r \in ended /\ r \in Routines
  BY <1>1 DEF FollowInv, OrderOK, Pending
<1>3. UNCHANGED <<mem0, mem, stored, ended, left>>
  BY DEF vars
<1>4. Pending' = Pending \ {r}
  <2>1. Pending' \subseteq Pending \ {r}
    <3>1. SUFFICES ASSUME NEW k \in 1..Len(order') PROVE order'[k] \in Pending /\ order'[k] # r
      BY DEF Pending
    <3>2. k + 1 \in 1..Len(order) /\ k + 1 # 1 /\ 1 \in 1..Len(order)
      BY <1>1
    <3> QED
      BY <1>1, <3>2 DEF FollowInv, OrderOK, Pending
  <2>2. Pending \ {r} \subseteq Pending'
    <3>1. SUFFICES ASSUME NEW k \in 1..Len(order), order[k] # r PROVE order[k] \in Pending'
      BY DEF Pending
    <3>2. k # 1 /\ k - 1 \in 1..Len(order') /\ order'[k - 1] = order[k]
      BY <1>1, <3>1
    <3> QED
      BY <3>2 DEF Pending
  <2> QED
    BY <2>1, <2>2
<1>5. OrderOK'
  <2>1. \A j, k \in 1..Len(order') : j # k => order'[j] # order'[k]
    BY <1>1 DEF FollowInv, OrderOK
  <2> QED
    BY <1>1, <1>3, <1>4, <2>1 DEF FollowInv, OrderOK
<1>6. ended' \ Pending' = (ended \ Pending) \cup {r}
  BY <1>2, <1>3, <1>4
<1>7. SUFFICES ASSUME NEW x \in Addresses PROVE codeMem'[x] = Replayed'[x]
  BY <1>5 DEF Code!RunOf, Replayed
<1>8. CASE x \in Writes(r)
  <2>1. codeMem'[x] = F(r, x, Inputs0(r))
    BY <1>2, <1>8, ReplayReadsOld DEF Code!RunOf
  <2>2. mem[x] = F(r, x, Inputs0(r))
    BY <1>2, <1>8 DEF FollowInv, ParInv, StoredInPhase, StoredIsNew
  <2>3. Replayed'[x] = mem[x]
    BY <1>3, <1>6, <1>8 DEF Replayed
  <2> QED
    BY <2>1, <2>2, <2>3
<1>9. CASE x \notin Writes(r)
  <2>1. codeMem'[x] = codeMem[x]
    BY <1>9 DEF Code!RunOf
  <2>2. Replayed'[x] = Replayed[x]
    BY <1>3, <1>6, <1>9 DEF Replayed
  <2> QED
    BY <2>1, <2>2 DEF FollowInv
<1> QED
  BY <1>8, <1>9

LEMMA CodeStepFollowed ==
  ASSUME FollowInv, CodeStep
  PROVE  FollowInv'
<1>1. UNCHANGED vars /\ ParInv'
  BY ParStepKeeps DEF CodeStep, CodeCatchesUp, CodeLeaves, FollowInv
<1>2. CASE order' = order /\ codeMem' = codeMem /\ (codeLeft' => codeLeft \/ (left /\ order = <<>>))
  <2>1. Replayed' = Replayed /\ OrderOK'
    BY <1>1, <1>2 DEF vars, Replayed, Pending, FollowInv, OrderOK
  <2> QED
    BY <1>1, <1>2, <2>1 DEF FollowInv, vars
<1>3. CASE /\ order # <<>> /\ order' = Tail(order)
           /\ codeMem' = Code!RunOf(Head(order), codeMem) /\ ~codeLeft'
  BY <1>1, <1>3, ReplayOne DEF FollowInv
<1>4. CASE CodeCatchesUp
  <2>1. ASSUME Code!RtnTaken, at = Head(order)
        PROVE  codeMem' = Code!RunOf(Head(order), codeMem) /\ ~codeLeft'
    BY <2>1 DEF Code!RtnTaken
  <2>2. ASSUME Code!ForeachIteration(Head(order))
        PROVE  codeMem' = Code!RunOf(Head(order), codeMem) /\ ~codeLeft'
    BY <2>2 DEF Code!ForeachIteration
  <2>3. Code!RtnSkipped => codeMem' = codeMem /\ ~codeLeft'
    BY DEF Code!RtnSkipped
  <2>4. Code!CoendRepeats => codeMem' = codeMem /\ ~codeLeft'
    BY DEF Code!CoendRepeats
  <2> QED
    BY <1>2, <1>3, <1>4, <2>1, <2>2, <2>3, <2>4 DEF CodeCatchesUp
<1>5. CASE CodeLeaves
  BY <1>2, <1>5 DEF CodeLeaves, Code!RtnSkipped, Code!CoendBreaks, Code!ForeachEnd
<1> QED
  BY <1>4, <1>5 DEF CodeStep

LEMMA FollowStepKeeps == FollowInv /\ [RunStep \/ CodeStep]_followedVars => FollowInv'
<1>1. ASSUME FollowInv, UNCHANGED followedVars PROVE FollowInv'
  <2>1. ParInv'
    BY <1>1, ParStepKeeps DEF FollowInv, followedVars
  <2> QED
    BY <1>1, <2>1 DEF FollowInv, OrderOK, Pending, Replayed, followedVars, vars, code
<1> QED
  BY <1>1, RunStepFollowed, CodeStepFollowed

\* Having run what has ended, the code has the memory the analysis is to see, and
\* the program's when it leaves.
LEMMA FollowInvAgrees == FollowInv => CodeAgrees
<1> SUFFICES ASSUME FollowInv, order = <<>>
             PROVE  codeMem = memBar /\ (left => codeMem = mem)
  BY DEF FollowInv, CodeAgrees
<1>1. Pending = {}
  BY DEF Pending
<1>2. ASSUME NEW x \in Addresses PROVE Replayed[x] = memBar[x]
  <2>1. CASE \E r \in ended : x \in Writes(r)
    BY <1>1, <2>1, NoOtherWriter DEF Replayed, memBar, FollowInv, ParInv, ParTypeOK
  <2>2. CASE \E r \in Routines \ ended : x \in Writes(r)
    BY <1>1, <2>2, NoOtherWriter DEF Replayed, memBar, FollowInv, ParInv, ParTypeOK
  <2>3. CASE \A r \in Routines : x \notin Writes(r)
    <3>1. mem[x] = mem0[x]
      BY <2>3 DEF FollowInv, ParInv, StoredInPhase, OthersAreOld
    <3> QED
      BY <2>3, <3>1 DEF Replayed, memBar
  <2> QED
    BY <2>1, <2>2, <2>3 DEF FollowInv, ParInv, ParTypeOK
<1>3. codeMem = memBar
  BY <1>2 DEF FollowInv, Replayed, memBar
<1>4. left => memBar = mem
  BY DEF memBar, FollowInv, ParInv, LeftAtEnd, ParTypeOK
<1> QED
  BY <1>3, <1>4

\* The code the macros of lib/cpj.h expand to can run what a parallel run of
\* routines that do not conflict does, and ends with the same memory.
LEMMA CodeFollows == FollowedInit /\ [][RunStep \/ CodeStep]_followedVars => []CodeAgrees
BY FollowedInitially, FollowStepKeeps, FollowInvAgrees, PTL

\* What runs in parallel is not changed by the code that follows it.
LEMMA FollowedIsParallel == FollowedInit /\ [][RunStep \/ CodeStep]_followedVars => ParSpec
<1>1. FollowedInit => ParInit
  BY DEF FollowedInit
<1>2. [RunStep \/ CodeStep]_followedVars => [ParNext]_vars
  BY DEF RunStep, ParNext, CodeStep, CodeCatchesUp, CodeLeaves, followedVars
<1> QED
  BY <1>1, <1>2, PTL DEF ParSpec

-----------------------------------------------------------------------------
(* do_timeout.                                                               *)

TimeoutTypeOK ==
  /\ worker \in {"computing", "lock", "ret", "rd", "unlock", "ended", "killed"}
  /\ caller \in {"not_done", "read", "wait", "fail", "fail_ret", "fail_rd", "return",
                 "returned", "raised"}
  /\ lk \in {"worker", "caller", "free"}
  /\ rd \in BOOLEAN

Gone == worker \in {"ended", "killed"}

\* the lock protects the worker's writes and not_done's read, but not fail
MutualExclusion ==
  /\ worker \in {"ret", "rd", "unlock"} => lk = "worker"
  /\ caller = "read" => lk = "caller"

\* fail writes when the time is up, and after the worker
FailIsLate ==
  /\ caller \in {"fail", "fail_ret", "fail_rd"} => late
  /\ caller \in {"fail_ret", "fail_rd"} => Gone

\* rd says that ret holds the answer, or that there is none
RdIsTrue ==
  /\ worker = "rd" => ret = Answer
  /\ rd => \/ ret = Answer /\ (worker = "unlock" \/ Gone)
           \/ late /\ Gone

ReturnIsFinal ==
  /\ caller \in {"return", "returned"} => rd /\ Gone
  /\ caller = "returned" => answered = ret

TimeoutInv == TimeoutTypeOK /\ MutualExclusion /\ FailIsLate /\ RdIsTrue /\ ReturnIsFinal

LEMMA TimeoutInitially == T!Init => TimeoutInv
BY DEF T!Init, TimeoutInv, TimeoutTypeOK, MutualExclusion, FailIsLate, RdIsTrue, ReturnIsFinal, Gone

LEMMA TimeoutStepKeeps == TimeoutInv /\ [T!Next]_(T!vars) => TimeoutInv'
<1> SUFFICES ASSUME TimeoutInv, [T!Next]_(T!vars) PROVE TimeoutInv'
  OBVIOUS
<1> USE DEF TimeoutInv, TimeoutTypeOK, MutualExclusion, FailIsLate, RdIsTrue, ReturnIsFinal, Gone
<1>1. CASE T!TimeUp
  BY <1>1 DEF T!TimeUp
<1>2. CASE T!Compute
  BY <1>2 DEF T!Compute
<1>3. CASE T!TaskLock
  BY <1>3 DEF T!TaskLock
<1>4. CASE T!TaskRet
  BY <1>4 DEF T!TaskRet
<1>5. CASE T!TaskRd
  BY <1>5 DEF T!TaskRd
<1>6. CASE T!TaskUnlock
  BY <1>6 DEF T!TaskUnlock
<1>7. CASE T!NotDoneLock
  BY <1>7 DEF T!NotDoneLock
<1>8. CASE T!NotDoneRead
  BY <1>8 DEF T!NotDoneRead
<1>9. CASE T!Yield
  BY <1>9 DEF T!Yield
<1>10. CASE T!GiveUp
  BY <1>10 DEF T!GiveUp
<1>11. CASE T!Kill
  BY <1>11 DEF T!Kill
<1>12. CASE T!KillRaises
  BY <1>12 DEF T!KillRaises
<1>13. CASE T!FailRet
  BY <1>13 DEF T!FailRet
<1>14. CASE T!FailRd
  BY <1>14 DEF T!FailRd
<1>15. CASE T!Return
  BY <1>15 DEF T!Return
<1>16. CASE UNCHANGED T!vars
  BY <1>16 DEF T!vars
<1> QED
  BY <1>1, <1>2, <1>3, <1>4, <1>5, <1>6, <1>7, <1>8, <1>9, <1>10, <1>11, <1>12, <1>13, <1>14,
     <1>15, <1>16 DEF T!Next, T!Worker, T!WorkerLeaves, T!Caller

\* do_timeout returns the answer, or None when the time was up, and then no
\* worker is left that could change it.
LEMMA TimeoutInvariance == T!Init /\ [][T!Next]_(T!vars) => []T!AnswersAreFinal
<1>1. TimeoutInv => T!AnswersAreFinal
  BY ConcurrentAssumption
  DEF TimeoutInv, TimeoutTypeOK, RdIsTrue, ReturnIsFinal, Gone, T!AnswersAreFinal
<1> QED
  BY <1>1, TimeoutInitially, TimeoutStepKeeps, PTL

-----------------------------------------------------------------------------
(* The programs in Concurrent: a step of it is a step of one of them, and    *)
(* the others stutter.                                                       *)

AP == INSTANCE ArraySumProofs WITH Inputs <- ArrInputs

RP == INSTANCE SumReduceProofs WITH tasks <- reduceTasks

LEMMA SpecSteps == Spec => Init /\ [][Next]_allVars
BY PTL DEF Spec

LEMMA ArraySumRuns == Spec => A!Spec
<1>1. Init => A!Init
  BY DEF Init
<1>2. [Next]_allVars => [A!Next]_(A!vars)
  BY DEF Next, allVars, DemoStep, ParallelStep, TimeoutStep, A!vars, arraysum
<1> QED
  BY <1>1, <1>2, SpecSteps, PTL DEF A!Spec

LEMMA SumReduceRuns == Spec => R!Spec
<1>1. Init => R!Init
  BY DEF Init
<1>2. [Next]_allVars => [R!Next]_(R!vars)
  BY DEF Next, allVars, DemoStep, ParallelStep, TimeoutStep, R!vars, sumreduce
<1> QED
  BY <1>1, <1>2, SpecSteps, PTL DEF R!Spec

LEMMA ParallelRuns == Spec => FollowedInit /\ [][RunStep \/ CodeStep]_followedVars
<1>1. Init => FollowedInit
  BY DEF Init
<1>2. [Next]_allVars => [RunStep \/ CodeStep]_followedVars
  BY DEF Next, allVars, DemoStep, ParallelStep, TimeoutStep
<1> QED
  BY <1>1, <1>2, SpecSteps, PTL

LEMMA TimeoutRuns == Spec => T!Init /\ [][T!Next]_(T!vars)
<1>1. Init => T!Init
  BY DEF Init
<1>2. [Next]_allVars => [T!Next]_(T!vars)
  BY DEF Next, allVars, DemoStep, ParallelStep, TimeoutStep, T!vars, timeout
<1> QED
  BY <1>1, <1>2, SpecSteps, PTL

\* do_timeout's answer is final, in Concurrent.
THEOREM AnswersStayFinal == Spec => []AnswersAreFinal
BY TimeoutRuns, TimeoutInvariance, PTL DEF AnswersAreFinal

\* The code of the macros can follow what the parallel run does, in Concurrent.
THEOREM CodeStaysInAgreement == Spec => []CodeAgrees
BY ParallelRuns, CodeFollows, PTL

\* And a parallel block is what the analysis sees, with a unique memory, also when
\* the code follows it.
THEOREM BlockStaysInOrder == Spec => ParallelIsAnyOrder /\ []Deterministic
BY ParallelRuns, FollowedIsParallel, ParallelImplementsSeen, BlockDeterministic

(* The modules of the proofs have definitions of their own, and they are the same. *)

LEMMA ArraySumSameSteps == [A!Next]_(A!vars) => [AP!Next]_(AP!vars)
<1> SUFFICES ASSUME NEW p \in DOMAIN tasks
             PROVE  /\ A!CallSumBlock(p) => AP!CallSumBlock(p)
                    /\ A!SumHalves(p) => AP!SumHalves(p)
                    /\ A!AddHalves(p) => AP!AddHalves(p)
                    /\ A!SumNothing(p) => AP!SumNothing(p)
                    /\ A!NextStride(p) => AP!NextStride(p)
                    /\ A!CopyStride(p) => AP!CopyStride(p)
                    /\ A!EndIteration(p) => AP!EndIteration(p)
                    /\ A!ReturnSum(p) => AP!ReturnSum(p)
  BY DEF A!Next, AP!Next, A!vars, AP!vars
<1>1. A!CallSumBlock(p) => AP!CallSumBlock(p)
  BY DEF A!CallSumBlock, AP!CallSumBlock, A!Call, AP!Call, A!SumBlockCall, AP!SumBlockCall,
         A!len, AP!len, A!Cardinality, AP!Cardinality, A!Cobegin, AP!Cobegin, A!Child,
         AP!Child, A!Last, AP!Last, A!Running, AP!Running, A!IsStrictPrefix,
         AP!IsStrictPrefix, A!IsPrefix, AP!IsPrefix, A!At, AP!At
<1>2. A!SumHalves(p) => AP!SumHalves(p)
  BY DEF A!SumHalves, AP!SumHalves, A!SumBlockCall, AP!SumBlockCall, A!Cobegin, AP!Cobegin,
         A!Child, AP!Child, A!Last, AP!Last, A!Running, AP!Running, A!IsStrictPrefix,
         AP!IsStrictPrefix, A!IsPrefix, AP!IsPrefix, A!At, AP!At
<1>3. A!AddHalves(p) => AP!AddHalves(p)
  BY DEF A!AddHalves, AP!AddHalves, A!Return, AP!Return, A!Running, AP!Running,
         A!IsStrictPrefix, AP!IsStrictPrefix, A!IsPrefix, AP!IsPrefix, A!At, AP!At
<1>4. A!SumNothing(p) => AP!SumNothing(p)
  BY DEF A!SumNothing, AP!SumNothing, A!Return, AP!Return, A!Running, AP!Running,
         A!IsStrictPrefix, AP!IsStrictPrefix, A!IsPrefix, AP!IsPrefix, A!At, AP!At
<1>5. A!NextStride(p) => AP!NextStride(p)
  BY DEF A!NextStride, AP!NextStride, A!IterationCall, AP!IterationCall, A!Cobegin,
         AP!Cobegin, A!Child, AP!Child, A!Last, AP!Last, A!Running, AP!Running,
         A!IsStrictPrefix, AP!IsStrictPrefix, A!IsPrefix, AP!IsPrefix, A!At, AP!At
<1>6. A!CopyStride(p) => AP!CopyStride(p)
  BY DEF A!CopyStride, AP!CopyStride, A!Continue, AP!Continue, A!Running, AP!Running,
         A!IsStrictPrefix, AP!IsStrictPrefix, A!IsPrefix, AP!IsPrefix, A!At, AP!At
<1>7. A!EndIteration(p) => AP!EndIteration(p)
  BY DEF A!EndIteration, AP!EndIteration, A!Return, AP!Return, A!Running, AP!Running,
         A!IsStrictPrefix, AP!IsStrictPrefix, A!IsPrefix, AP!IsPrefix, A!At, AP!At
<1>8. A!ReturnSum(p) => AP!ReturnSum(p)
  BY DEF A!ReturnSum, AP!ReturnSum, A!Return, AP!Return, A!Running, AP!Running,
         A!IsStrictPrefix, AP!IsStrictPrefix, A!IsPrefix, AP!IsPrefix, A!At, AP!At
<1> QED
  BY <1>1, <1>2, <1>3, <1>4, <1>5, <1>6, <1>7, <1>8

LEMMA ArraySumSameInit == A!Init => AP!Init
BY DEF A!Init, AP!Init, A!Start, AP!Start, A!len, AP!len, A!Cardinality, AP!Cardinality

LEMMA ArraySumSameAssumption == AP!ArraySumAssumption
BY ConcurrentAssumption
DEF A!ArraySumAssumption, AP!ArraySumAssumption, A!Cardinality, AP!Cardinality

LEMMA ArraySumIsAP == Spec => AP!Spec
BY ArraySumRuns, ArraySumSameInit, ArraySumSameSteps, PTL DEF A!Spec, AP!Spec

LEMMA ArraySumSameProperties ==
  /\ AP!InBounds => A!InBounds
  /\ AP!RaceFree => A!RaceFree
  /\ AP!Sum1IsSum => A!Sum1IsSum
  /\ AP!PassesInOrder => A!PassesInOrder
<1>1. AP!InBounds => A!InBounds
  BY DEF A!InBounds, AP!InBounds, A!NextReads, AP!NextReads, A!NextWrites, AP!NextWrites,
         A!Running, AP!Running, A!IsStrictPrefix, AP!IsStrictPrefix, A!IsPrefix, AP!IsPrefix
<1>2. AP!RaceFree => A!RaceFree
  BY DEF A!RaceFree, AP!RaceFree, A!NextReads, AP!NextReads, A!NextWrites, AP!NextWrites,
         A!Running, AP!Running, A!IsStrictPrefix, AP!IsStrictPrefix, A!IsPrefix, AP!IsPrefix
<1>3. AP!Sum1IsSum => A!Sum1IsSum
  BY DEF A!Sum1IsSum, AP!Sum1IsSum, A!Sum, AP!Sum, A!Sums, AP!Sums, A!Cardinality,
         AP!Cardinality
<1>4. AP!PassesInOrder => A!PassesInOrder
  BY DEF A!PassesInOrder, AP!PassesInOrder, A!Passes, AP!Passes, A!AfterPass, AP!AfterPass,
         A!Pass, AP!Pass, A!len, AP!len, A!Cardinality, AP!Cardinality
<1> QED
  BY <1>1, <1>2, <1>3, <1>4

LEMMA ArraySumSameForks == AP!EffectsChecked => A!EffectsChecked
<1>1. AP!Checked!CheckedInit => A!Checked!CheckedInit
  BY DEF A!Checked!CheckedInit, AP!Checked!CheckedInit
<1>2. [AP!Checked!CheckedNext]_tasks => [A!Checked!CheckedNext]_tasks
  BY DEF A!Checked!CheckedNext, AP!Checked!CheckedNext, A!Checked!CheckedStep,
         AP!Checked!CheckedStep, A!Checked!CheckedReturn, AP!Checked!CheckedReturn,
         A!Checked!Within, AP!Checked!Within, A!Checked!Forked, AP!Checked!Forked,
         A!Checked!SubEffects, AP!Checked!SubEffects, A!Checked!SiblingsDisjoint,
         AP!Checked!SiblingsDisjoint, A!Checked!ConflictFree, AP!Checked!ConflictFree,
         A!Checked!NonCommuting, AP!Checked!NonCommuting, A!Checked!Running,
         AP!Checked!Running, A!Checked!IsStrictPrefix, AP!Checked!IsStrictPrefix,
         A!Checked!IsPrefix, AP!Checked!IsPrefix, A!Checked!Child, AP!Checked!Child,
         A!Checked!Last, AP!Checked!Last, A!Checked!Return, AP!Checked!Return, A!Eff, AP!Eff
<1> QED
  BY <1>1, <1>2, PTL
  DEF A!EffectsChecked, A!Checked!CheckedSpec, AP!EffectsChecked, AP!Checked!CheckedSpec

LEMMA SumReduceSameSteps == [R!Next]_(R!vars) => [RP!Next]_(RP!vars)
<1> SUFFICES ASSUME NEW p \in DOMAIN reduceTasks
             PROVE  /\ R!Initialize(p) => RP!Initialize(p)
                    /\ R!Assign(p) => RP!Assign(p)
                    /\ R!CallReduce(p) => RP!CallReduce(p)
                    /\ R!ReduceShort(p) => RP!ReduceShort(p)
                    /\ R!ReduceHalves(p) => RP!ReduceHalves(p)
                    /\ R!JoinHalves(p) => RP!JoinHalves(p)
                    /\ R!ReduceElement(p) => RP!ReduceElement(p)
                    /\ R!ReduceEnd(p) => RP!ReduceEnd(p)
                    /\ R!MainReturns(p) => RP!MainReturns(p)
  BY DEF R!Next, RP!Next, R!vars, RP!vars
<1>1. R!Initialize(p) => RP!Initialize(p)
  BY DEF R!Initialize, RP!Initialize, R!AssignCall, RP!AssignCall, R!Cobegin, RP!Cobegin,
         R!Child, RP!Child, R!Last, RP!Last, R!Running, RP!Running, R!IsStrictPrefix,
         RP!IsStrictPrefix, R!IsPrefix, RP!IsPrefix, R!At, RP!At
<1>2. R!Assign(p) => RP!Assign(p)
  BY DEF R!Assign, RP!Assign, R!Return, RP!Return, R!Running, RP!Running, R!IsStrictPrefix,
         RP!IsStrictPrefix, R!IsPrefix, RP!IsPrefix, R!At, RP!At
<1>3. R!CallReduce(p) => RP!CallReduce(p)
  BY DEF R!CallReduce, RP!CallReduce, R!Call, RP!Call, R!ReduceCall, RP!ReduceCall,
         R!Cobegin, RP!Cobegin, R!Child, RP!Child, R!Last, RP!Last, R!Running, RP!Running,
         R!IsStrictPrefix, RP!IsStrictPrefix, R!IsPrefix, RP!IsPrefix, R!At, RP!At
<1>4. R!ReduceShort(p) => RP!ReduceShort(p)
  BY DEF R!ReduceShort, RP!ReduceShort, R!ReturnValue, RP!ReturnValue, R!Return, RP!Return,
         R!Running, RP!Running, R!IsStrictPrefix, RP!IsStrictPrefix, R!IsPrefix, RP!IsPrefix,
         R!At, RP!At
<1>5. R!ReduceHalves(p) => RP!ReduceHalves(p)
  BY DEF R!ReduceHalves, RP!ReduceHalves, R!ReduceCall, RP!ReduceCall, R!Cobegin, RP!Cobegin,
         R!Child, RP!Child, R!Last, RP!Last, R!Running, RP!Running, R!IsStrictPrefix,
         RP!IsStrictPrefix, R!IsPrefix, RP!IsPrefix, R!At, RP!At
<1>6. R!JoinHalves(p) => RP!JoinHalves(p)
  BY DEF R!JoinHalves, RP!JoinHalves, R!ReturnValue, RP!ReturnValue, R!Return, RP!Return,
         R!Child, RP!Child, R!Running, RP!Running, R!IsStrictPrefix, RP!IsStrictPrefix,
         R!IsPrefix, RP!IsPrefix, R!At, RP!At
<1>7. R!ReduceElement(p) => RP!ReduceElement(p)
  BY DEF R!ReduceElement, RP!ReduceElement, R!Continue, RP!Continue, R!Running, RP!Running,
         R!IsStrictPrefix, RP!IsStrictPrefix, R!IsPrefix, RP!IsPrefix, R!At, RP!At
<1>8. R!ReduceEnd(p) => RP!ReduceEnd(p)
  BY DEF R!ReduceEnd, RP!ReduceEnd, R!ReturnValue, RP!ReturnValue, R!Return, RP!Return,
         R!Running, RP!Running, R!IsStrictPrefix, RP!IsStrictPrefix, R!IsPrefix, RP!IsPrefix,
         R!At, RP!At
<1>9. R!MainReturns(p) => RP!MainReturns(p)
  BY DEF R!MainReturns, RP!MainReturns, R!Return, RP!Return, R!Running, RP!Running,
         R!IsStrictPrefix, RP!IsStrictPrefix, R!IsPrefix, RP!IsPrefix, R!At, RP!At
<1> QED
  BY <1>1, <1>2, <1>3, <1>4, <1>5, <1>6, <1>7, <1>8, <1>9

LEMMA SumReduceIsRP == Spec => RP!Spec
<1>1. R!Init => RP!Init
  BY DEF R!Init, RP!Init, R!Start, RP!Start
<1> QED
  BY <1>1, SumReduceRuns, SumReduceSameSteps, PTL DEF R!Spec, RP!Spec

LEMMA SumReduceSameAssumption == RP!SumReduceAssumption
BY ConcurrentAssumption DEF R!SumReduceAssumption, RP!SumReduceAssumption

LEMMA SumReduceSameForks == RP!EffectsChecked => R!EffectsChecked
<1>1. RP!Checked!CheckedInit => R!Checked!CheckedInit
  BY DEF R!Checked!CheckedInit, RP!Checked!CheckedInit
<1>2. [RP!Checked!CheckedNext]_reduceTasks => [R!Checked!CheckedNext]_reduceTasks
  BY DEF R!Checked!CheckedNext, RP!Checked!CheckedNext, R!Checked!CheckedStep,
         RP!Checked!CheckedStep, R!Checked!CheckedReturn, RP!Checked!CheckedReturn,
         R!Checked!Within, RP!Checked!Within, R!Checked!Forked, RP!Checked!Forked,
         R!Checked!SubEffects, RP!Checked!SubEffects, R!Checked!SiblingsDisjoint,
         RP!Checked!SiblingsDisjoint, R!Checked!ConflictFree, RP!Checked!ConflictFree,
         R!Checked!NonCommuting, RP!Checked!NonCommuting, R!Checked!Running,
         RP!Checked!Running, R!Checked!IsStrictPrefix, RP!Checked!IsStrictPrefix,
         R!Checked!IsPrefix, RP!Checked!IsPrefix, R!Checked!Child, RP!Checked!Child,
         R!Checked!Last, RP!Checked!Last, R!Checked!Return, RP!Checked!Return, R!Eff, RP!Eff
<1> QED
  BY <1>1, <1>2, PTL
  DEF R!EffectsChecked, R!Checked!CheckedSpec, RP!EffectsChecked, RP!Checked!CheckedSpec

-----------------------------------------------------------------------------
\* Every fork of arraysum.c and sumreduce.c, of any arrays, passes the checks
\* CSolve makes of it: its routines stay within the effects of the block they
\* stand in and do not conflict.
THEOREM ForksApart == Spec => RoutinesApart
<1>1. AP!Spec => AP!EffectsChecked
  BY ArraySumSameAssumption, AP!ForksChecked
<1>2. RP!Spec => RP!EffectsChecked
  BY SumReduceSameAssumption, RP!ForksChecked
<1> QED
  BY <1>1, <1>2, ArraySumIsAP, SumReduceIsRP, ArraySumSameForks, SumReduceSameForks
  DEF RoutinesApart

\* The demos read and write within their arrays, and reduce reads only what
\* initialize has written, for any lengths, numbers of threads and seqLen.
THEOREM MemorySafe == Spec => []InBounds
<1>1. AP!Spec => []AP!InBounds
  BY ArraySumSameAssumption, AP!MemorySafe
<1>2. RP!Spec => []RP!ReadsInitialized
  BY SumReduceSameAssumption, RP!ReadsAreInitialized
<1>3. AP!InBounds => A!InBounds
  BY ArraySumSameProperties
<1>4. RP!ReadsInitialized => R!ReadsInitialized
  BY DEF R!ReadsInitialized, RP!ReadsInitialized, R!NextReads, RP!NextReads, R!Running,
         RP!Running, R!IsStrictPrefix, RP!IsStrictPrefix, R!IsPrefix, RP!IsPrefix
<1> QED
  BY <1>1, <1>2, <1>3, <1>4, ArraySumIsAP, SumReduceIsRP, PTL DEF InBounds

\* The demos compute what they would one routine after the other, whatever the
\* interleaving: no two tasks of arraysum.c race, sum1 and reduce return the sum
\* of the array, and sum2 leaves the array its passes lead to in turn.
THEOREM SameAsSequential == Spec => []AsIfSequential
<1>1. AP!Spec => []AP!RaceFree
  BY ArraySumSameAssumption, AP!NoRace
<1>2. AP!Spec => []AP!Sum1IsSum
  BY ArraySumSameAssumption, AP!SumIsSum
<1>3. AP!Spec => []AP!PassesInOrder
  BY ArraySumSameAssumption, AP!PassesAreInOrder
<1>4. RP!Spec => []RP!ReducesToSum
  BY SumReduceSameAssumption, RP!ReduceIsSum
<1>5. RP!ReducesToSum => R!ReducesToSum
  BY DEF R!ReducesToSum, RP!ReducesToSum
<1>6. /\ AP!RaceFree => A!RaceFree
      /\ AP!Sum1IsSum => A!Sum1IsSum
      /\ AP!PassesInOrder => A!PassesInOrder
  BY ArraySumSameProperties
<1> QED
  BY <1>1, <1>2, <1>3, <1>4, <1>5, <1>6, ArraySumIsAP, SumReduceIsRP, PTL DEF AsIfSequential
=============================================================================
