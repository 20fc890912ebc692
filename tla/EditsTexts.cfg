SPECIFICATION Spec
CONSTANTS
    a = a
    b = b
    c = c
    Bak = Bak
    Absent = Absent
    ChunksSize = 2
    MinSevereRun = 3
    MaxSteps = 2
    MaxTrace = 6
    Names <- MCNames
    Shelves <- OtherShelves
    Drafts <- MCDrafts
    SomeLoaders <- MCLoaders
    Length <- MCLength
    Text <- OtherText
    Footage <- MCFootage
    Packed <- MCPacked
    Samples <- MCSamples
    Gripper <- MCGripper
INVARIANT TextsAreKept
CHECK_DEADLOCK FALSE
