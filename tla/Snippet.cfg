CONSTANTS
    MaxBytes = 5
    Beyond = 2
    TabWidth = 4
SPECIFICATION SnippetSpec
INVARIANTS
    ShowsTheSpan
