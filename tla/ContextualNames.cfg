CONSTANTS
    Alphabet = {"As", "Return", "SetAll", "Literal", "Keyword", "Dot"}
    MaxTokens = 4
    StartOf <- MCStartOf
    EndOf <- MCEndOf
SPECIFICATION FairSpec
INVARIANTS
    NamesFollowContext
    PassesBounded
    ReportsLastProgress
PROPERTIES
    BestErrorAdvances
    Terminates
