SPECIFICATION ServingSpec
CONSTANTS
    Provider = {"rust-analyzer", "clangd", "other"}
    Docs = 2
    Pipe = 1
    Inbox = 2
    MaxDrain = 1
    Faults = {}
    Deadline = FALSE
    MaxNoise = 3
CHECK_DEADLOCK FALSE
INVARIANTS
    FailsOnlyInTime
PROPERTIES
    Answered
