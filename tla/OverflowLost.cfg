\* Tokens at the end are dropped or ignored behind one that is no text.
SPECIFICATION Spec
CONSTANTS
    Null = Null
    MaxTokens = 4
    Text <- MCText
    Lower <- MCLower
    Route <- MCRoute
    Container <- MCContainer
    Children <- MCChildren
    CaseSensitive = {"helpUser"}
    NamesOf <- MCNamesOf
    Params <- MCParams
    Input <- MCInput
INVARIANT OverflowIsAdded
CHECK_DEADLOCK FALSE
