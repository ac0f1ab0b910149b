SPECIFICATION Spec
CONSTANTS
    k1 = k1
    k2 = k2
    KVar <- MCKVar
    Pred <- MCPred
    Subst <- MCSubst
    NoSubst = "id"
    SubstPred <- MCSubstPred
    Tags <- MCTags
    Kuts = {}
    AddDeps = {}
    DelDeps = {}
    DelSrc = {}
    DelTgt = {}
    Constraints <- MCConstraints
    CIds = {1, 2, 3, 4}
    Systems <- MCSystems
    Sliced = TRUE
    TrueUnconstrained = TRUE
    Bind <- Binding
    Starts <- MCStarts
    DomRefine <- Refine
    DomTop <- Top
    DomUnsat <- Unsat
    DomReadsTrue <- ReadsTrue
    DomSat <- Satisfies
    BindLeq <- Weaker
    Env <- MCEnv
    Qual <- MCQual
    Holds <- MCHolds
    Contra <- MCContra
    Assm <- NoAssm
    ProverComplete = TRUE
INVARIANT
    FinishedIsFixpoint
