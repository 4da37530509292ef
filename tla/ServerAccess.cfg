CONSTANTS
    Server = {s1, s2}
    Conn = {c1}
    MaxGeneration = 3
    MaxCrashes = 1
    Inode = {i1, i2, i3}
SYMMETRY Interchangeable
SPECIFICATION Spec
INVARIANTS TypeOK PersistedFirst NoOldConnections BoardIsCurrent RotationHolds
CONSTRAINT UntilRaced
