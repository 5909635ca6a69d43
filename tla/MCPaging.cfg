SPECIFICATION Spec
CONSTANTS
    Process = {s1, s2}
    Server = s1
    Facts <- MCFacts
    Semantic <- MCSemantic
    Size <- MCSize
    Scope <- MCScope
    Limit = {0, 2, 9}
    MaxLimit = 3
    Budget = 3
    None = None
    MaxEdits = 2
    MaxFaults = 1
INVARIANTS
    ExcerptIsDefinition
    OneSnapshotUnlessOvertaken
    NothingMissingOrTwice
    RefusedOnlyIfOversized
PROPERTIES
    Answered
