SPECIFICATION MCSpec
CONSTANTS
    None = None
    Args <- MCNaturals
    Win <- MCWin
    Wide <- MCWide
    MaxOps = 2
    k1 = k1
    k2 = k2
    KVar <- MCKVar
    Pred <- MCPred
    Subst = {"id"}
    NoSubst = "id"
    SubstPred <- MCSubstPred
    Tags <- MCTags
    Kuts = {}
    AddDeps = {}
    DelDeps = {}
    DelSrc = {}
    DelTgt = {}
    Constraints <- MCConstraints
    CIds = {1, 2, 3}
    Systems <- MCSystems
    Sliced = FALSE
    TrueUnconstrained = TRUE
    Bind <- History
    Starts <- MCStarts
    DomRefine <- IxRefine
    DomTop <- IxTop
    DomUnsat <- IxUnsat
    DomReadsTrue <- IxReadsTrue
    DomSat <- IxSatisfies
    BindLeq <- IxLeq
    PredIndex <- MCPredIndex
    HistoryLen = 5
INVARIANTS
    LubUpper
    SubindexIsInclusion
    SettledCovers
    GrowthIsWidened
    UnsatsAreReal
PROPERTIES
    CoversStepwise
    KeepsForm
    IterationEnds
