CONSTANTS
    Tasks = {t1, t2, t3}
    Names = {x, y, z}
    Threads = 1
SPECIFICATION Spec
CHECK_DEADLOCK FALSE
INVARIANTS
    MutationsAreReverted
    RestoreSucceeds
