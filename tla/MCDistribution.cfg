SPECIFICATION DistSpec
CONSTANTS
    linux = linux
    darwin = darwin
    main = main
    first = first
    second = second
    oldPins = oldPins
    oldCargo = oldCargo
    Jobs = {j1}
    Builds = {first, second, oldPins, oldCargo}
    Platforms = {linux, darwin}
    Main = main
    Archive <- StagedArchive
    Staged <- MCStaged
    None = None
    MaxFaults = 0
    Source <- MCSource
    Tag <- MCTag
    Previous <- MCPrevious
    Here = linux
    MaxLosses = 1
    Elsewhere = windows
    Torn = Torn
INVARIANTS
    ReleasedIsSynchronized
    RunsItsRelease
    LaunchesIfInstalled
