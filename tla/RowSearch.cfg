\* A row in every mode, with and without the cache.
SPECIFICATION Spec
CONSTANTS
    IDs <- SomeIDs
    Extended <- TheSecond
    ScoreTables <- SomeTables
    Results <- SomeResults
    High = 4
    Plausible = 2
    Margin = 2
    Passes <- TwoPasses
    Typed = {"title"}
    Page = 1
INVARIANTS
    NotFoundIsHonest
    CacheHoldsAnswers
    NoRivalWithinMargin
    VerdictIsAdmissible
PROPERTIES
    SearchEnds
CHECK_DEADLOCK FALSE
