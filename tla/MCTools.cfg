CONSTANTS
    Checks <- MCChecks
    Parent <- MCParent
    Kind <- MCKind
    Target <- MCTarget
    Unreadable <- MCUnreadable
    Wanted <- MCWanted
    RootLists <- MCRootLists
    Where <- MCWhere
    WalkOrder <- MCWalkOrder
    Content <- MCContent
    Executable <- MCExecutable
    GateLines <- MCGateLines
    Above <- MCAbove
    Written <- MCWritten
    Valid <- MCValid
    Limit = 8
    RecordLimit = 5
    StateFile = "s"
    StateDir = "n"
    Names = {"a", "b"}
    Contents = {0, 1, 2}
    CheckCount = 2
    MaxVanish = 1
    Pids = {1, 2}
    Commands = {"ls", "sh"}
    MaxSamples = 4
    MaxTurnover = 2
    Runs = {r1, r2}
SPECIFICATION Spec
INVARIANTS
    VerdictIsEarned
    JobsAreIntervals
    QuarantineKeepsAll
    WalkIsComplete
    SourcesDecide
    ChangesExplainTrees
    VerifyTellsChanges
    DecisionIsTheWorst
    NoChangePassesUnseen
    ChangesExplainDocuments
    PassMeansEverything
    TextSurvives
    EvidenceIsRead
PROPERTIES
    Terminates
