SPECIFICATION Spec
CONSTANTS
    x = x  y = y
    Name = {x, y}
    MaxVersion = 2
    Command <- AllCommand
    InitSpec <- CrashSpec
    InitSection <- AllSection
    EditSpec <- CrashEdit
    MaxFaults = 1
INVARIANTS Installed FrozenHolds PinsHold Recovers LockfileFits
