\* Every text of up to three characters behind the prefix, and longer ones.
SPECIFICATION TokenizerSpec
CONSTANTS
    None = None
    MaxTokens = 12
    MaxText = 3
    Message <- MCMessage
INVARIANTS
    TokenizerTypeOK
    LettersAreKept
PROPERTIES
    ClosedQuotesAreStrings
    TokenizingEnds
\* A message may have been tokenized.
CHECK_DEADLOCK FALSE
