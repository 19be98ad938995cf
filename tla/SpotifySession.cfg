\* One terminal: authorize, import, log out, crash.
SPECIFICATION Spec
CONSTANTS
    MaxTokens <- FourTokens
    MaxAttempts <- TwoAttempts
    MaxPages <- TwoPages
    MaxRetries = 1
INVARIANTS
    StoredRefreshLives
    OnlyThisAttempt
PROPERTIES
    CommandEnds
CHECK_DEADLOCK FALSE
