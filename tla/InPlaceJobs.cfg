\* Three jobs on one or two datasets, crashes and every failure of a step.
CONSTANTS
    d1 = d1
    d2 = d2
    j1 = j1
    j2 = j2
    j3 = j3
    Datasets = {d1, d2}
    Jobs = {j1, j2, j3}
    StampJobs = {j2}
    Values <- MCValues
    Effect <- MCEffect
    Absent = Absent
    Partial = Partial
    Emptied = Emptied
    Rejected = Rejected
    RmtreeTears = FALSE
SPECIFICATION MCFairSpec
INVARIANTS
    TypeOK
    ACopySurvives
    OneOwner
PROPERTIES
    JobsAreAtomic
    OrphanIsKept
    JobsFinish
CHECK_DEADLOCK FALSE
