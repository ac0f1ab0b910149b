-------------------------------- MODULE MCSolve --------------------------------
(***************************************************************************)
(* Two solvers over predicate abstraction, of which `prover` says which    *)
(* one runs.  The first has a prover that proves every valid query.  The   *)
(* second, whose variables begin with g, has one that may give up on any,  *)
(* assumptions on k1, a cut kvar, and tag dependencies of the user.        *)
(***************************************************************************)
EXTENDS MCSolvePred

VARIABLES
    prover,     \* "complete" or "gives up"
    gPc, gCs, gCnst, gDepm, gRnkm, gPend, gTimestamp, gWkl, gSoln, gCfreqt, gUnsats

Lossy == INSTANCE PredAbs WITH Assm <- SomeAssm, ProverComplete <- FALSE

LossyRefine(s, c) == Lossy!Refine(s, c)
LossyTop(s, ks) == Lossy!Top(s, ks)
LossyUnsat(s, c) == Lossy!Unsat(s, c)
LossyReadsTrue(s, k) == Lossy!ReadsTrue(s, k)
LossySatisfies(s, c) == Lossy!Satisfies(s, c)

G == INSTANCE Solve WITH
       pc <- gPc, cs <- gCs, cnst <- gCnst, depm <- gDepm, rnkm <- gRnkm,
       pend <- gPend, timestamp <- gTimestamp, wkl <- gWkl, soln <- gSoln,
       cfreqt <- gCfreqt, unsats <- gUnsats,
       Kuts <- MCKuts, AddDeps <- MCAddDeps, DelDeps <- MCDelDeps,
       DelSrc <- {}, DelTgt <- {}, Systems <- MCSmallSystems,
       DomRefine <- LossyRefine, DomTop <- LossyTop, DomUnsat <- LossyUnsat,
       DomReadsTrue <- LossyReadsTrue, DomSat <- LossySatisfies

ASSUME Lossy!PredAbsAssumption /\ G!SolveAssumption /\ G!DomainContract

\* The solver that does not run stays at the beginning.
MCInit ==
    /\ \/ /\ prover = "complete"
          /\ gCs = CHOOSE cm \in MCSmallSystems : TRUE
          /\ gSoln = CHOOSE s \in MCStarts : TRUE
       \/ /\ prover = "gives up"
          /\ cs = CHOOSE cm \in MCSystems : TRUE
          /\ soln = CHOOSE s \in MCStarts : TRUE
    /\ Init /\ G!Init

gVars == <<gPc, gCs, gCnst, gDepm, gRnkm, gPend, gTimestamp, gWkl, gSoln, gCfreqt, gUnsats>>

WithComplete == prover = "complete" /\ Next /\ UNCHANGED <<prover, gVars>>

WithLossy == prover = "gives up" /\ G!Next /\ UNCHANGED <<prover, vars>>

mcVars == <<prover, vars, gVars>>

MCSpec == MCInit /\ [][WithComplete \/ WithLossy]_mcVars /\ WF_mcVars(WithLossy)

------------------------------------------------------------------------------
\* What is settled stays satisfied if proofs get lost, a different one each
\* time, and the ranks are not those of the dependencies solved along.
SettledThoughLost == G!SettledSatisfied

\* solve returns though proofs get lost.
ReturnsThoughLost == prover = "gives up" => G!Termination
===============================================================================
