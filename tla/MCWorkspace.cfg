SPECIFICATION WorkspaceSpec
CONSTANTS
    a = a  b = b  x = x
    Order <- MCOrder
    External = {x}
    Version = {10, 11, 20}
    InitManifest <- MCManifest
    InitVersion <- MCVersion
    Edit <- MCEdit
    Catalog <- MCCatalog
    Command <- MCCommand
    MaxRuns = 3
    MaxEdits = 2
    MaxFaults = 1
INVARIANTS SkipsSound AllSatisfied Settles
PROPERTY PinsKept
\* Runs and edits are bounded.
CHECK_DEADLOCK FALSE
