SPECIFICATION MCFairSpec
CONSTANTS
    Datasets <- MCDatasets
    FileOf <- MCFileOf
    Severe <- MCSevere
    Sidecar <- MCSidecar
    Reqs = {1, 2, 3}
    Tags <- MCTags
    None = None
    Torn = Torn
INVARIANTS TypeOK CalmOkIsStored StampMeansGraded  RowsOfTheRightDataset LegacyIsMigrated
PROPERTIES GradesAreKept RequestsEnd
CHECK_DEADLOCK FALSE
