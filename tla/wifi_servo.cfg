\* The watcher at its fastest fills the channel of four, then one command more.
SPECIFICATION Spec
CONSTANTS
    MaxDutyCycle = 4096
    MaxCommands = 8
INVARIANTS
    TypeOK
    PulseInRange
PROPERTIES
    BurstAccepted
    CommandsObeyed
    ServoIsClosedAgain
    KeepAlive
    PingStarved
