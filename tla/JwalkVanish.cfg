CONSTANTS
    Checks <- MCChecks
    Parent <- MCParent
    Kind <- MCKind
    Target <- MCTarget
    Unreadable <- MCUnreadable
    Wanted <- MCWanted
    RootLists <- MCRootLists
    Where <- MCWhere
    WalkOrder <- MCWalkOrder
    Content <- MCContent
    Executable <- MCExecutable
    GateLines <- MCGateLines
    Above <- MCAbove
    Written <- MCWritten
    Valid <- MCValid
    Limit = 8
    RecordLimit = 5
    StateFile = "s"
    StateDir = "n"
    Names = {"a", "b"}
    Contents = {0, 1, 2}
    CheckCount = 1
    MaxVanish = 1
    Pids = {1}
    Commands = {"ls"}
    MaxSamples = 1
    MaxTurnover = 0
    Runs = {r1}
SPECIFICATION Spec
INVARIANTS OnlyRootsAreRefused
