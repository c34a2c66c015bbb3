SPECIFICATION Spec
CHECK_DEADLOCK FALSE
CONSTANTS
    Session = {0, 1}
    File = {f1, f2}
    BootFile = f1
    Text = {t1, t2}
    Packet = Packet
    Unset = Unset
    HeapSize = 3
INVARIANTS
    SavedTextIsKept
