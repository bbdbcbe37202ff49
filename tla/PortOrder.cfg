CONSTANTS
    Cyclic = Cyclic
    Registries <- PortRegistries
    Edits <- PortEdits
    Members = {}
SPECIFICATION LoadSpec
CHECK_DEADLOCK FALSE
INVARIANTS
    HashTellsMeaning
