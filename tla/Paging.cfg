\* Every set of hints, none included, appends and removals between the pages.
SPECIFICATION PagingSpec
CONSTANTS
    PerPage <- SmallPages
    MaxEntries <- ThreePages
    MaxPages <- OutOfReach
    LocalSets <- SomeLocal
INVARIANTS
    InOrderOnce
PROPERTIES
    ReadsAtOnce
    RemovalsHideTheirNumber
    ReadEnds
CHECK_DEADLOCK FALSE
