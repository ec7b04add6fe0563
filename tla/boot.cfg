\* The programs that get to their tasks, the link lost up to three times, every driver free to fail.
\* A panic stops the board, and two of them use no network: the system may stop.
SPECIFICATION Spec
CONSTANTS
    Programs = {"gateway", "wifi", "tester", "display"}
    MaxDrops = 3
INVARIANTS
    OnlyDriversPanic
PROPERTIES
    BootCompletes
    Reconnects
CHECK_DEADLOCK FALSE
