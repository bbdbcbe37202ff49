CONSTANTS
    Cyclic = Cyclic
    Registries <- AllRegistries
    Edits <- BaseEdits
    Members = {"'x'", "'y'"}
SPECIFICATION LoadSpec
CHECK_DEADLOCK FALSE
INVARIANTS
    NoCycleCompiles
    CompiledGraphsAreAccepted
    MergesStayInScope
    StackIsSimple
    AcceptedAssembles
    SharedAdapterAgrees
    DeliveredTransportFits
    HashTellsMeaning
    FilesResolvedAtHome
    AdmittedAtItsPosition
    TokensRoundTrip
    NullsAreSpelled
PROPERTIES
    LoadEnds
