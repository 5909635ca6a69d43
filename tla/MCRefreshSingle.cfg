SPECIFICATION Spec
CONSTANTS
    File = {1, 2}
    Content <- MCContent
    Name <- MCName
    Defs <- MCDefs
    Calls <- MCCalls
    Imports <- MCImports
    MaxTargets = 1
    None = None
    Wildcard = Wildcard
    Version = {"earlier", "current"}
    VersionOf <- MCVersionOf
    OldProcess = None
    Absent = Absent
    Gap = Gap
    Process = {p1}
    MaxEdits = 2
INVARIANTS
    TypeOK
    CallsCurrent
    AnswerIsFresh
    GapContract
    CurrentExtraction
PROPERTIES
    RefreshesPublishColdIndexes
    QuietRefreshKeepsGeneration
