SPECIFICATION Spec
CONSTANTS
    Corpora <- MCCorpora
    Ledgers <- MCLedgers
    Sources <- MCSources
    UnknownId <- NoId
    MaxExclusions = 1
INVARIANTS ReviewsTellTheSame ProjectionConsistent ReportIsHonest
CHECK_DEADLOCK FALSE
