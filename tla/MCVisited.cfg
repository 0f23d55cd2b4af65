CONSTANTS
    Refs = {r1, r2, r3}
    Garbage = Garbage
    InitialCapacity = 1
    MaxCount = 4
SPECIFICATION Spec
INVARIANT TypeOK
PROPERTY ImplementsSet
