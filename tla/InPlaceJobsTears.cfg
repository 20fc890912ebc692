\* Three jobs on one dataset, without either assumption on the removal of a backup.
CONSTANTS
    d1 = d1
    d2 = d2
    j1 = j1
    j2 = j2
    j3 = j3
    Datasets = {d1}
    Jobs = {j1, j2, j3}
    StampJobs = {j2}
    Values <- MCValues
    Effect <- MCEffect
    Absent = Absent
    Partial = Partial
    Emptied = Emptied
    Rejected = Rejected
    RmtreeTears = TRUE
SPECIFICATION MCSpec
INVARIANT
    ACopySurvives
CHECK_DEADLOCK FALSE
