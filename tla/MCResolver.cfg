SPECIFICATION Spec
CONSTANTS
    a = a  b = b  c = c  d = d  e = e  f = f
    A = A  B = B  B2 = B2  C = C  D = D  E = E  F = F
    ROOT = ROOT
    NONE = NONE
    Name <- AllName
    Package <- AllPackage
    Required <- AllRequired
    Optional <- AllOptional
    Pick <- AllPick
    Flaky = {F}
    Seed <- AllSeed
    SeedDeps <- AllSeedDeps
    Stale = {}
    MaxNotified = 3
INVARIANTS GraphComplete EdgesHold OneTask NoOrphans
PROPERTY Ends
\* Resolution is a computation: it ends with a result.
CHECK_DEADLOCK FALSE
