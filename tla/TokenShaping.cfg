CONSTANTS
    LabelTokens = 4
    NameTokens = 4
    Sources <- MCSources
SPECIFICATION FragmentSpec
INVARIANTS
    RunsAreSound
    ReservedPipeSurvives
    LegacyLabelsConsistent
    ContextsRespected
    ReportsFarthestSplit
    SplitsAreSound
