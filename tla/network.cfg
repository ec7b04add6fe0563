\* Two requests on each side: a late Ack of the first meets the second.  One
\* of them restarts, once: the other meets what it has forgotten.
SPECIFICATION FairSpec
CONSTANTS
    SeqMod = 3
    None = None
    ForwardCap = 2
    ResultCap = 1
    MaxRequests = 2
    MaxRestarts = 1
INVARIANTS
    AckMeansOpened
    AckEndsRequest
PROPERTIES
    RequestAnswered
    ImplementsService
