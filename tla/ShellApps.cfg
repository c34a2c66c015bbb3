SPECIFICATION FairSpec
CHECK_DEADLOCK FALSE
CONSTANTS
    Session = {0, 1}
    File = {f1}
    BootFile = f1
    Text = {t1}
    Packet = Packet
    Unset = Unset
    HeapSize = 2
INVARIANTS
    OneAppPerSession
    ScoreGoesHome
PROPERTIES
    SnakeIsNotStolen
    ExitedAppIsReleased
