SPECIFICATION Spec
CONSTANTS
    i1 = i1  i2 = i2  p = p  r = r  s = s
    NONE = NONE  BROKEN = BROKEN
    Project = {i1, i2}
    Package = {p, r, s}
    NameOf <- MCNameOf
    DepNames <- MCDepNames
    Scripted = {p, r, s}
    Versioned = {p}
    Patched <- MCPatched
    Policy <- MCPolicy
    Node = {18, 20}
    Threads = 2
    MaxRuns = 3
    MaxFaults = 1
INVARIANTS  ProducersFirst EachBuilt
PROPERTY Ends
\* Installs come to an end, and so does the bound on them.
CHECK_DEADLOCK FALSE
