\* A parameter that is pushed twice stands for one that is missing.
SPECIFICATION Spec
CONSTANTS
    Null = Null
    MaxTokens = 4
    Text <- MCText
    Lower <- MCLower
    Route <- MCRoute
    Container <- MCContainer
    Children <- MCChildren
    CaseSensitive = {"helpUser"}
    NamesOf <- MCNamesOf
    Params <- MCParams
    Input <- MCInput
INVARIANT RequiredAreGiven
CHECK_DEADLOCK FALSE
