CONSTANTS
    Alphabet = {"Call", "Return", "Union", "All", "Word"}
    MaxTokens = 4
    StartOf <- MCStartOf
    EndOf <- MCEndOf
SPECIFICATION Spec
INVARIANTS
    PruningPreservesResult
    AcceptedInWhole
