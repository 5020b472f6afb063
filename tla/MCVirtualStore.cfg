CONSTANTS
    Project = {i1, i2}
    A = A
    B1 = B1
    B2 = B2
    C = C
    b = b
    c = c
    META = META
    main = main
    g1 = g1
    g2 = g2
    NONE = NONE
    Package <- MCPackage
    Name <- MCName
    File <- MCFile
    Graph <- MCGraph
    Packages <- MCPackages
    Deps <- MCDeps
    Peers <- MCPeers
    Slot <- MCSlot
    Content <- MCContent
    HasBin = {B1}
    Scoped = {C, c}
    Unsafe <- MCUnsafe
    MaxInstalls = 2
    MaxFaults = 1
SPECIFICATION Spec
INVARIANTS EntriesHold 
SYMMETRY Symmetry
CHECK_DEADLOCK FALSE
