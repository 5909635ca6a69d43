SPECIFICATION SharedSpec
CONSTANTS
    File = {1, 2}
    Content <- MCContent
    Name <- MCName
    Defs <- MCDefs
    Calls <- MCCalls
    Imports <- MCImports
    MaxTargets = 1
    None = None
    Wildcard = Wildcard
    Version = {"earlier", "current"}
    VersionOf <- MCVersionOf
    OldProcess = p1
    Absent = Absent
    Gap = Gap
    Process = {p1, p2}
    MaxEdits = 0
INVARIANT
    CurrentExtraction
