\* A repository whose lockfile is too large to be read, among healthy ones.
SPECIFICATION Spec
CONSTANTS
    MaxSafeInteger = 9
    InternalProtocol <- MCWorkspaceProtocol
    Advisory <- MCAdvisory  Withdrawn <- MCWithdrawn  Aliases <- MCAliases
    BaseScore <- MCBaseScore  Affected <- MCAffected
    ToolPackage <- MCToolPackage  ToolPurpose <- MCToolPurpose  MaxScriptDepth = 2
    LintTool <- MCLintTool  Overlap <- MCOverlap
    Executable <- MCExecutable  Directory <- MCDirectory
    MaxPaginationRounds = 3  MaxAdvisoryDetails = 3
    World <- MCWorld
    Families = {"setup"}
    MaxPackages = 3  MaxQueries = 2  BatchSize = 2
CHECK_DEADLOCK FALSE
INVARIANT NoPenaltyForMissingEvidence
