\* Every family of worlds, with failing providers and an abort.
SPECIFICATION Spec
CONSTANTS
    MaxSafeInteger = 9
    InternalProtocol <- MCWorkspaceProtocol
    Advisory <- MCAdvisory  Withdrawn <- MCWithdrawn  Aliases <- MCAliases
    BaseScore <- MCBaseScore  Affected <- MCAffected
    ToolPackage <- MCToolPackage  ToolPurpose <- MCToolPurpose  MaxScriptDepth = 2
    LintTool <- MCLintTool  Overlap <- MCOverlap
    Executable <- MCExecutable  Directory <- MCDirectory
    MaxPaginationRounds = 3  MaxAdvisoryDetails = 3
    World <- MCWorld
    Families = {"dependencies", "several", "workspace", "roots", "links", "unnamed", "setup", "others"}
    MaxPackages = 3  MaxQueries = 2  BatchSize = 2
CHECK_DEADLOCK FALSE
INVARIANTS
    NoSilentGap
    PerfectScoreIsEarned
    MissingEvidenceNeverRaises
    ScoreIsExplained
    UnusedIsUnused
    QuietAfterEnd
    OsvNeverOverstates
PROPERTIES
    FlowEnds
