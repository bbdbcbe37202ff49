CONSTANTS
    Cyclic = Cyclic
    Registries <- HandleRegistries
    Edits <- BaseEdits
    Members = {}
SPECIFICATION LoadSpec
CHECK_DEADLOCK FALSE
INVARIANTS
    AcceptedAssembles
