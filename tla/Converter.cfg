SPECIFICATION FairSpec
CONSTANTS
    r1 = r1
    r2 = r2
    r3 = r3
    None = None
    Reqs <- MCReqs
    Asks <- MCAsks
    MaxCrashes = 1
INVARIANTS TypeOK OneBuild AcceptedIsReported StoppedIsGone StartedIsThere
PROPERTIES StartSparesTheRunning RequestsEnd LockIsReleased
CHECK_DEADLOCK FALSE
