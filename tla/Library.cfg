SPECIFICATION MCSpec
CONSTANTS
    Datasets <- MCDatasets
    FileOf <- MCFileOf
    Severe <- MCSevere
    Sidecar <- MCSidecar
    Reqs = {1, 2}
    Visitors = {11, 12}
    Cell <- MCCell
    Tags = {}
    None = None
    Torn = Torn
INVARIANTS LibTypeOK ChartIsCurrent StatsAreExact ColumnStays TextIsShown OldAreNotGraded VersionIsHonest OnlyCutMigrationsFail
PROPERTIES ExportObeys
CHECK_DEADLOCK FALSE
