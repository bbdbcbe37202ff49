CONSTANTS
    Tasks = {t1, t2}
    Names = {x}
    Threads = 2
SPECIFICATION Spec
CHECK_DEADLOCK FALSE
INVARIANT
    MutationsAreReverted
