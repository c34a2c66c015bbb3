SPECIFICATION RingFairSpec
CONSTANTS
    RingSize = 8
    Slack = 3
    BufPad = 1
    PacketSizes = {2, 3}
    MaxPackets = 6
    MaxNest = 2
INVARIANTS
    RingTypeOK
    PacketIsInBuffer
    InOrderUntilWrap
PROPERTY PacketIsTaken
CHECK_DEADLOCK FALSE
