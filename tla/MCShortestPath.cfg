SPECIFICATION Spec
CHECK_DEADLOCK FALSE
CONSTANTS
    Node <- MCNode
    Container = {1}
    Repositories <- MCRepositories
    Requests <- MCRequests
INVARIANT
    ShortestPath
