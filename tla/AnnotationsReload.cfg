SPECIFICATION ReloadSpec
CONSTANTS
    Datasets <- MCDatasets
    FileOf <- MCFileOf
    Severe <- MCSevere
    Sidecar <- MCSidecar
    Reqs = {1, 2, 3}
    Tags <- MCTags
    None = None
    Torn = Torn
INVARIANT OkIsStored
CHECK_DEADLOCK FALSE
