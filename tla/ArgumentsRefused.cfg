\* Every list of up to four tokens behind the prefix.
SPECIFICATION Spec
CONSTANTS
    Null = Null
    MaxTokens = 4
    Text <- MCText
    Lower <- MCLower
    Route <- MCRoute
    Container <- MCContainer
    Children <- MCChildren
    CaseSensitive = {"helpUser"}
    NamesOf <- MCNamesOf
    Params <- MCParams
    Input <- MCInput
INVARIANT AcceptedKindsAreAccepted
CHECK_DEADLOCK FALSE
