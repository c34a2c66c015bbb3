SPECIFICATION Spec
CONSTANTS
    Cols = 6
    Rows = 2
    StartDiv = 2
    MinDiv = 1
    Faster = 2
INVARIANTS
    TypeOK
    SnakeIsWhole
    FoodIsFree
    ScreenIsCurrent
PROPERTY NeverTurnsBack
