CONSTANTS
    Digits = 2
    QuotedLength = 5
    CommentLength = 6
    Texts <- AllTexts
SPECIFICATION SplitSpec
INVARIANTS
    LexesFaithfully
    DecoderAgrees
    StatementsAsLexed
