SPECIFICATION FairSpec
CONSTANTS
    SeqMod = 1
    None = None
    ForwardCap = 2
    ResultCap = 4
    ForeignFrames <- MCForeignFrames
PROPERTIES
    QueueServed
