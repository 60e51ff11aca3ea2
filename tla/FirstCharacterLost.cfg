\* The character behind the prefix is passed over, and others are joined by commas.
SPECIFICATION TokenizerSpec
CONSTANTS
    None = None
    MaxTokens = 12
    MaxText = 3
    Message <- MCMessage
INVARIANT
    EveryWordIsAToken
CHECK_DEADLOCK FALSE
