CONSTANTS
    Process = {p, q}
    Node = {1, 2}
    Snpm = {11}
    Lts = {1}
    Spec <- MCSpec
    Typed <- MCTyped
    Named <- MCNamed
    Tree <- MCTree
    SystemNode = 1
    Bundled = TRUE
    NONE = NONE
    MaxCommands = 2
    MaxFaults = 1
SPECIFICATION ToolchainSpec
INVARIANTS VersionsWhole  CurrentHolds
SYMMETRY Symmetry
