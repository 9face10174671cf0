CONSTANTS
    Alphabet = {"(", ")", "[", "]", "Invalid", "Trivia"}
    MaxTokens = 5
    MaxDiagnostics = 3
SPECIFICATION Spec
INVARIANTS
    DelimiterErrorsRight
    ReportOrderedAndCapped
    EntryPointsAgree
PROPERTIES
    EarliestKept
