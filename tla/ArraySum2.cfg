CONSTANTS
  THREADS = 2
  CharValues = 4
  ArrInputs <- MCInputs
  \* seqLen below, at, between and above the lengths the halves have
  Lens = {1, 2, 3, 5, 6, 7}
  SeqLens = {1, 2, 3, 8}
  INT_MAX = 21
  N = 4
  NondetValues <- MCNondetValues
  Garbage = Garbage
  None = None
  Answer = Answer
  Routines = {1, 2, 3, 4}
  Addresses <- MCAddresses
  Values = {0, 1}
  Reads <- MCReads
  Writes <- MCWrites
  F <- MCF
SPECIFICATION MCSpec
INVARIANT Sum2IsSum
CHECK_DEADLOCK FALSE
