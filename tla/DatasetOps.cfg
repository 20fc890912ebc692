\* One delete in place beside a split and a merge that read its dataset.
CONSTANTS
    Paths <- MCPaths
    Original <- MCOriginal
    Request <- MixedRequests
    NoMeta = NoMeta
SPECIFICATION Spec
INVARIANTS
    TypeOK
    InPlaceBuildIsExact
    UndisturbedIsWhole
    OnlyChosenGo
CHECK_DEADLOCK FALSE
