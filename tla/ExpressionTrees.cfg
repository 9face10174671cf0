SPECIFICATION TreeSpec
CONSTANTS
    Sentences <- MCSentences
INVARIANTS TreesCoverTokens GroupedAsRead
CHECK_DEADLOCK FALSE
