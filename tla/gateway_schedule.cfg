\* One sequence number: the schedule does not depend on their values.  The
\* channels are shorter than in the code (8 and 8), so that they fill up.
SPECIFICATION FairSpec
CONSTANTS
    SeqMod = 1
    None = None
    ForwardCap = 2
    ResultCap = 5
    ForeignFrames <- MCForeignFrames
INVARIANTS
    TypeOK
    HoldBacklog
    NoCircularWait
PROPERTIES
    LoraKeepsListening
