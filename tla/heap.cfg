\* lora-display on its own.
SPECIFICATION Spec
CONSTANTS
    Programs = {"lora-display"}
    MaxDrops = 0
INVARIANTS
    HeapBeforeUse
CHECK_DEADLOCK FALSE
