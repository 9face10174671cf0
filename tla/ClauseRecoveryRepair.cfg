CONSTANTS
    Alphabet = {"Clause", "Word"}
    CoreAlphabet = {"Clause", "Word"}
    WideTokens = 3
    MaxTokens = 3
    Budget = 3
    MaxInsertions = 1
    StartOf <- MCStartOf
    EndOf <- MCEndOf
SPECIFICATION Spec
INVARIANTS
    ExpressionsNotRepaired
