SPECIFICATION Spec
CONSTANTS
    a = a
    b = b
    c = c
    Bak = Bak
    Absent = Absent
    ChunksSize = 2
    MinSevereRun = 3
    MaxSteps = 2
    MaxTrace = 6
    Names <- MCNames
    Shelves <- MCShelves
    Drafts <- MCDrafts
    SomeLoaders <- MCLoaders
    Length <- MCLength
    Text <- MCText
    Footage <- MCFootage
    Packed <- MCPacked
    Samples <- MCSamples
    Gripper <- MCGripper
INVARIANTS
    QuickIsExact
    TidyStaysTidy
    StampsAreRight
    BandsAreMaximal
PROPERTIES
    VerdictsAreExact
CHECK_DEADLOCK FALSE
