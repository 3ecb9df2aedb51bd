SPECIFICATION ChannelSpec
CONSTANTS
    Frames <- MCFrames
    MaxFrame = 2
    MaxSent = 3
CHECK_DEADLOCK FALSE
INVARIANTS
    DeliveredIsPrefix
PROPERTY
    ShutdownUnblocks
