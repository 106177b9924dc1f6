\* Two fact rules, two finding rules, one recommendation rule, every kind of bad output.
SPECIFICATION Spec
CONSTANTS
    FactRule = {1, 2}
    FindingRule = {3, 4}
    RecommendationRule = {5}
    Prioritizer = 9
    Id <- MCIds
    Name <- MCNames
    Truncate <- MCTruncate
    Evidence = {"ev"}
    Source = {"src"}
    ContextLimitations <- MCContextLimitations
    ContextFailures <- MCContextFailures
    FactOutput <- MCFactOutputs
    FindingOutput <- MCFindingOutputs
    RecommendationOutput <- MCRecommendationOutputs
    Priority <- MCPriorities
    Scores <- MCScores
    SchemaVersion = 2
CHECK_DEADLOCK FALSE
INVARIANTS
    PipelineInv
    FailedRuleLeavesNothing
    NothingDroppedSilently
    RejectedOnlyByUnchecked
