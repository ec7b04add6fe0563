\* Three sequence numbers: a request in flight and two queued use all of them,
\* and they wrap all the time.
SPECIFICATION Spec
CONSTANTS
    SeqMod = 3
    None = None
    ForwardCap = 2
    ResultCap = 2
    ForeignFrames <- MCForeignFrames
INVARIANTS
    QueueInOrder
PROPERTIES
    ImplementsBoard
