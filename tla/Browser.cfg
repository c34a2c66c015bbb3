SPECIFICATION Spec
CONSTANTS
    MaxLines = 4
    MaxLine = 3
    MaxLinks = 2
    StackSize = 2
    MaxDepth = 3
    Rows = 3
    Cols = 2
INVARIANTS
    TypeOK
    ViewIsInPage
    LinkIsOnItsText
    TextIsKept
PROPERTIES
    ColoursEnd
