SPECIFICATION Spec
CONSTANTS
    a = a
    b = b
    bad = bad
    NoName = NoName
    ValidNames = {a, b}
    BadNames = {bad}
    Byte = {0, 1, 2}
    Writes <- MCEmptyOrLong
    SectorSize = 2
    DirEntries = 2
    DirSectors = 2
    TotalSectors = 6
    SourceNames <- MCSourceNames
    SourceData <- MCSourceData
    Faults = {"io"}
INVARIANT
    WrittenIsKept
