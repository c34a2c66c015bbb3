SPECIFICATION FairDriverSpec
CONSTANTS
    Key <- MCKey
    NoKey = NoKey
    QueueSize = 3
    PhysKeys <- MCOneOfEach
    PlainMap <- MCPlainMap
    ExtMap <- MCExtMap
    MaxPresses = 3
INVARIANTS
    DecodesWhatIsTyped
    ModifiersAreReleased
    HandlesWhatIsTyped
PROPERTIES
    ImplementsFifo
    KeysGetHandled
CHECK_DEADLOCK FALSE
