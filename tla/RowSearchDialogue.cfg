\* No sequence of answers ends the program.
SPECIFICATION Spec
CONSTANTS
    IDs <- SomeIDs
    Extended <- TheSecond
    ScoreTables <- SomeTables
    Results <- SomeResults
    High = 4
    Plausible = 2
    Margin = 2
    Passes <- TwoPasses
    Typed = {"title"}
    Page = 1
INVARIANT
    DialogueSurvives
CHECK_DEADLOCK FALSE
