SPECIFICATION Spec
CHECK_DEADLOCK FALSE
CONSTANTS
    linux = linux
    darwin = darwin
    main = main
    first = first
    second = second
    Jobs = {j1, j2}
    Builds = {first, second}
    Platforms = {linux, darwin}
    Main = main
    Archive <- MCArchive
    Staged <- MCStaged
    None = None
    MaxFaults = 2
INVARIANTS
    TypeOK
    OneBuild
    PlatformsFirst
    SuccessIsRelease
PROPERTIES
    Resumes
