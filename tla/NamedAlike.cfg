CONSTANTS
    Cyclic = Cyclic
    Registries <- AlikeRegistries
    Edits <- BaseEdits
    Members = {}
SPECIFICATION LoadSpec
CHECK_DEADLOCK FALSE
INVARIANTS
    CompiledGraphsAreAccepted
