SPECIFICATION Spec
CHECK_DEADLOCK FALSE
CONSTANTS
    MaxLines = 5
    Kinds = {"ours", "child", "table", "key", "comment"}
    Installs = 2
INVARIANTS
    OthersKept
    EntryIsNew
PROPERTIES
    Settles
