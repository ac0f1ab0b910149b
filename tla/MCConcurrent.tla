----------------------------- MODULE MCConcurrent -----------------------------
(* Values for the constants of Concurrent, and fewer initial states.         *)
EXTENDS Concurrent, FiniteSets

\* lengths up to 9: powers of two and others, one with more elements than
\* 2 * THREADS; two values whose sums exceed a char
MCInputs == UNION {[0..(n - 1) -> {1, 2}] : n \in {1, 2, 3, 5, 6}}
            \cup {[i \in 0..(n - 1) |-> i % 4] : n \in {7, 8, 9}}

\* Of the routines of the block one reads what it writes and stores twice, three
\* read the same address, one reads nothing and one stores nothing.
MCAddresses == 1..5

MCReads(r) == CASE r = 1 -> {1, 5} [] r = 2 -> {3, 5} [] r = 3 -> {} [] OTHER -> {5}

MCWrites(r) == CASE r = 1 -> {1, 2} [] r = 2 -> {3} [] r = 3 -> {4} [] OTHER -> {}

MCF(r, x, m) == (r + x + Cardinality({y \in DOMAIN m : m[y] = 1})) % 2

MCNondetValues == {-1, 0, 1}

-----------------------------------------------------------------------------
Zero == [x \in Addresses |-> 0]

\* Init, but that a program that does not move is left in one initial state
MCInit ==
  /\ program \in {"arraysum", "sumreduce", "parallel", "timeout"}
  /\ A!Init /\ (program # "arraysum" => A!len = 1 /\ a[0] = 1 /\ method = "sum1")
  /\ R!Init /\ (program # "sumreduce" => len = 1 /\ seqLen = 1)
  /\ FollowedInit /\ (program # "parallel" => mem0 = Zero /\ construct = "cobegin")
  /\ T!Init

MCSpec == MCInit /\ [][Next]_allVars /\ Fairness
===============================================================================
