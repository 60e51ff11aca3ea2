\* Every list of up to four tokens behind the prefix.
SPECIFICATION Spec
CONSTANTS
    Null = Null
    MaxTokens = 4
    Text <- MCText
    Lower <- MCLower
    Route <- MCRoute
    Container <- MCContainer
    Children <- MCChildren
    CaseSensitive = {"helpUser"}
    NamesOf <- MCNamesOf
    Params <- MCParams
    Input <- MCInput
INVARIANTS
    TypeOK
    DeepestCommand
    ArgumentsMatchTokens
PROPERTY
    ParsingEnds
\* A message may have been parsed.
CHECK_DEADLOCK FALSE
