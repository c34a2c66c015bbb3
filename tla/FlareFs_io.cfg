SPECIFICATION Spec
CONSTANTS
    a = a
    b = b
    bad = bad
    NoName = NoName
    ValidNames = {a, b}
    BadNames = {}
    Byte = {0, 1}
    Writes <- MCOneOrTwo
    SectorSize = 1
    DirEntries = 2
    DirSectors = 2
    TotalSectors = 6
    SourceNames <- MCNoSource
    SourceData <- MCNoSource
    Faults = {"io", "powerloss"}
INVARIANT
    ExtentsDisjoint
PROPERTY
    NoClobber
SYMMETRY NameSymmetry
CONSTRAINT NotStale
