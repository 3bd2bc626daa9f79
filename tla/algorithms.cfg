INIT Init
NEXT Next
CHECK_DEADLOCK FALSE
CONSTANTS
    Day = 2
    NaN = NaN
    Absent = Absent
    NegativeNanos = NegativeNanos
    Unrepresentable = Unrepresentable
    Limit <- MCLimit
    SessionKeys = {k1}
    Heartbeats <- MCHeartbeats
    Gap = 1
    MaxClock = 3
    MaxHeartbeats = 4
    Scale = 4
    NoSession = NoSession
    Rankings <- MCRankings
    ListSizes = {0, 3, 5}
    MaxLists = 3
    NumberOf <- MCNumberOf
    Substrings <- MCSubstrings
    NotANumber = NotANumber
    Configs <- MCConfigs
    Users = {"u"}
    Sessions = {"", "s1", "s2"}
    Buckets = 2
    Salts = {1, 2}
    PolicyArms = {"x", "z"}
    PolicySlates <- MCSlates
    Whole = 4
    MaxUpdates = 1
    MaxVariants = 3
    MaxRange = 7
    MaxCandidates = 4
    None = None
    Streams = {s1, s2}
    Capacity = 2
    MaxPushes = 4
    MetricIds = {"a", "b", "c", "d"}
    MetricRequests <- MCMetricRequests
    Handlers = {h1, h2}
    ShadowRuns = {"s"}
    Identifiers = {"i"}
    CleanFilters = {"f"}
    DepthCap = 2
    MaxHours = 2
    MaxCalls = 5
    NoMetric = NoMetric
    NoConfig = NoConfig
    Infinite = Infinite
    Allocatees = {"x", "y"}
    Ranges <- MCRanges
    TotalBuckets = 2
    Cooldown = 2
    MaxHour = 3
    MaxRows = 2
    TypedExperiments <- MCTyped
    MaxInstant = 7
    NanosPerSecond = 3
    ListedIds = {1, 2, 3, 4}
    ListedStates = {"DRAFT", "RUNNING"}
    PageSizes = {0, 1, 2, 5}
    DefaultPage = 3
    LargestPage = 4
    Portfolios <- MCPortfolios
    Overrides <- MCOverrides
    Outcomes <- MCOutcomes
    Intervals <- MCIntervals
    Hundred = 100
    NoAllocation = NoAllocation
    Sources <- MCSources
    Sentences <- MCSentences
    Filters <- MCFilters
    MaxFilterLen = 4
    FlagIds = {"f", "g"}
    FlagRequests <- MCFlagRequests
    FlagTables <- MCFlagTables
    CustomMetrics <- MCCustomMetrics
    LateMetrics = {"c"}
    ShapeOf <- MCShapeOf
    OperandsOf <- MCOperandsOf
    LowerIsBetter = {"a"}
    PollBudgets = {3}
    PollInterval = 2
    CallTimes = {0, 2}
    MaxDuration = 65535
    CommandBudget = 6
    FaultBudget = 1
    RunBudget = 3
    NoFile = NoFile
    Statements <- MCStatements
    MaxWindow = 2
    Total = 5
    MaxRanges = 3
    FlagSplits <- MCFlagSplits
    FlagBuckets = 4
    MaxPromotions = 2
    MaxLosses = 1
    NoFlag = NoFlag
    MockId = MockId
INVARIANTS
    IngestionIsSound
    ExperimentsAreServed
    InterleavingIsFair
    DefinitionsAreSound
    LanguageIsExact
    LayersAreAccounted
    ReadersSeeEverything
    FlagsAreSound
    MigrationIsSound
    TranslationIsFaithful
