\* Texts of up to four characters; two levels of nesting; integers of four bits, of
\* which those beyond four are rounded as Floats.
CONSTANTS
    MaxText = 4
    Letters <- SomeLetters
    KeywordOf <- SomeKeywords
    MaxLiteral = 111
    MaxExprDepth = 2
    MaxInt = 7
    MaxExact = 4
    OverflowChecks = TRUE
    Texts <- SomeTexts
    Programs <- SomePrograms
    FreshIds <- SomeFreshIds
    ChunkRows = 2
SPECIFICATION Spec
INVARIANTS TokensExact ParseInverts ExpressionsExact RowsAgree WritesExact ChunksExact
CHECK_DEADLOCK FALSE
