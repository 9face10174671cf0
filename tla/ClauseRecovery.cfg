CONSTANTS
    Alphabet = {"Clause", "Return", "Call", "Union", "All", "NameMarker", "Open", "Close", "Semicolon", "Word"}
    CoreAlphabet = {"Clause", "Return", "Union", "All", "Word"}
    MaxTokens = 5
    WideTokens = 4
    Budget = 4
    MaxInsertions = 2
    StartOf <- MCStartOf
    EndOf <- MCEndOf
SPECIFICATION MCSpec
INVARIANTS
    TypeOK
    TreeFollowsSource
    ReturnClosesBranch
    ErrorRegionsMaximal
    LongestValidClauseWins
    NothingKeptIsLost
    ExhaustedSuffix
PROPERTIES
    ImplementsPartition
    Terminates
