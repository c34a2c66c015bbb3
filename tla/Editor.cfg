SPECIFICATION Spec
CONSTANTS
    x = x
    End = End
    Char = {x}
    Blank = x
    MaxLines = 3
    MaxLine = 5
    Rows = 2
    Cols = 4
    SaveSize = 5
    MaxChars = 5
    MaxSaved = 1
    Files <- MCFiles
CONSTRAINT FewChars
INVARIANTS
    TypeOK
    RowsAreTerminated
    CursorIsShown
    UnmodifiedIsSaved
