\* The smallest case: one request at a time, and one board restarts once.
SPECIFICATION Spec
CONSTANTS
    SeqMod = 3
    None = None
    ForwardCap = 1
    ResultCap = 1
    MaxRequests = 1
    MaxRestarts = 1
INVARIANTS
    AckIsForThisRequest
