\* Two terminals share the credential store; Beatport rotates or does not.
SPECIFICATION Spec
CONSTANTS
    Procs <- TwoTerminals
    MaxRetries = 1
    MaxTokens = 3
INVARIANTS
    RefusedTokenNotResent
    StoredRefreshLives
    PostTakesEffectOnce
    SendsBounded
PROPERTIES
    RequestReturns
CHECK_DEADLOCK FALSE
