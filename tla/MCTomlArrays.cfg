SPECIFICATION Spec
CHECK_DEADLOCK FALSE
CONSTANTS
    MaxLines = 3
    Kinds = {"ours", "child", "table", "array", "key"}
    Installs = 2
INVARIANTS
    OthersKept
