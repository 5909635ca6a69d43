SPECIFICATION Spec
CONSTANTS
    Provider = {"rust-analyzer", "clangd", "other"}
    Docs = 1
    Pipe = 1
    Inbox = 1
    MaxDrain = 1
    Faults = {"absent", "exit", "garbage", "error", "unsupported", "unhealthy", "orphan"}
    Deadline = TRUE
    MaxNoise = 2
CHECK_DEADLOCK FALSE
INVARIANTS
    TypeOK
    CleanUnlessReported
PROPERTIES
    Ends
    ThreadsEnd
