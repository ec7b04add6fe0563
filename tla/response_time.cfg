SPECIFICATION Spec
CONSTANTS
    None = None
INVARIANTS
    Rendezvous
    RadioUncontended
    TypeOK
PROPERTIES
    KeepsListening
    KeepsShowing
\* The program stops when a reply cannot be transmitted.
CHECK_DEADLOCK FALSE
