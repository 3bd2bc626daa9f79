INIT Init
NEXT Next
CHECK_DEADLOCK FALSE
CONSTANTS
    ControlSizes = {1, 2}
    TreatmentSizes = {2, 3}
    Outcomes2 = {0, 1}
    Covariates = {0, 1}
    ClusterRows <- MCRows
    ClusteredSizes = {2, 4}
    Probabilities = {0, 1, 8, 16}
    ProbabilityUnit = 16
    Margins = {0, 1, 2, 3}
    Alphas = {1, 4, 5, 8}
    PValues = {0, 1, 2, 5, 10, 20, 21}
    PUnit = 20
    MaxPValues = 3
    Subgroups <- MCSubgroups
    SrmCounts = {0, 1, 2, 3, 5}
    MaxVariants = 3
    Bets = {0, 1, 3}
    MaxBets = 4
    Spendings <- MCSpendings
    Grid = 16
    MaxSize = 5
    NameOrder <- MCNameOrder
    Tables <- MCTables
    Growth <- MCGrowth
    Analyses <- MCAnalyses
    Callers = {c1, c2}
    MaxAnalyses = 3
    NoValue = NoValue
    PanelRows <- MCPanelRows
    EffectRows <- MCEffectRows
    ScoreSheets <- MCSheets
    WatchTables <- MCWatchTables
    Retrainings <- MCRetrainings
    Projections <- MCProjections
    DailyEffects <- MCDailyEffects
    Simulations = 4
    MaxArms = 3
    BanditArms <- MCBanditArms
    Features <- MCBanditFeatures
    BanditContexts <- MCBanditContexts
    BanditRewards <- MCBanditRewards
    Floors = {0, 50}
    UcbAlpha <- MCUcbAlpha
    MaxBanditCalls = 3
    Coins = 4
    Differences <- MCDifferences
    MaxDifferences = 4
    SigmaSquared <- MCSigmaSquared
    MetricValues <- MCMetricValues
    MaxCompositions = 3
    EmaWeight = 2
    SlateArms = {"x", "y"}
    SlateSlots = 2
    CandidateLists <- MCCandidateLists
    ShownSlates <- MCShownSlates
    SlateRewards <- MCSlateRewards
    Biases <- MCBiases
    MaxSlates = 2
    RawWeights = {0, 1, 3}
    ArmBounds <- MCArmBounds
    TrackedArms = {"x", "y", "z"}
    MaxImpressions = 3
    NoClick = NoClick
    BlockPlans <- MCBlockPlans
    BlockValues <- MCBlockValues
    ArmPairs <- MCArmPairs
    DrawCounts = {4}
    PosteriorGrid = {0, 1, 2}
    TailLevels = {0, 1, 3, 4}
    TailUnit = 4
    Instruments <- MCInstruments
    SurrogateValues = {0, 3}
    LongOutcomes = {0, 2}
    Folds = {1, 2}
    QWeightChoices <- MCQWeights
    FirstRewards <- MCFirstRewards
    SecondRewards <- MCSecondRewards
    Discounts <- MCDiscounts
    TargetShares <- MCTargetShares
    LoggedShares <- MCLoggedShares
    MaxDensityRatio <- MCMaxDensityRatio
    Panels <- MCPanels
    Iterations = 4
    LinearSystems <- MCLinearSystems
    Shares <- MCShares
    PowerSpecs <- MCPowerSpecs
INVARIANTS
    EstimatesAreSound
    DecisionsAreSound
    AnalysisIsSound
    BanditsAreSound
    ResamplingIsSound
    CausalEstimatesAreSound
