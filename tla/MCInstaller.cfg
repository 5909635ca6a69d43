SPECIFICATION Spec
CHECK_DEADLOCK FALSE
CONSTANTS
    FileAgents = {codex, cursor}
    CommandAgents = {claude}
    Settings = {s1, s2}
    MaxEdits = 2
    MaxRuns = 1
INVARIANTS
    OthersUnlessEdited
    SuccessIsConfigured
    NothingUnverified
    CommandsFirst
