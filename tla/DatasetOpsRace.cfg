\* A delete in place takes files from under a split that is reading them.
CONSTANTS
    Paths <- MCPaths
    Original <- MCOriginal
    Request <- RaceRequests
    NoMeta = NoMeta
SPECIFICATION Spec
INVARIANT
    CompleteIsWhole
CHECK_DEADLOCK FALSE
