SPECIFICATION StaleSpec
CONSTANTS
    Datasets <- MCDatasets
    FileOf <- MCFileOf
    Severe <- MCSevere
    Sidecar <- MCSidecar
    Reqs = {1, 2, 3}
    Tags <- MCTags
    None = None
    Torn = Torn
INVARIANT AnsweredIsCached
CHECK_DEADLOCK FALSE
