\* A page that tells nothing of what follows ends the read.
SPECIFICATION PagingSpec
CONSTANTS
    PerPage <- SmallPages
    MaxEntries <- ThreePages
    MaxPages <- OutOfReach
    LocalSets <- SomeLocal
PROPERTIES
    EveryPageIsRead
CHECK_DEADLOCK FALSE
