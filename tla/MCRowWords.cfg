CONSTANTS
    Bodies <- MCBodies
    Accesses <- MCAccesses
    Emitted <- MCEmitted
    Fuel = 6
    RowShapes = {"s", "t"}
    PurgeInRun = TRUE
    W = 3
    Rung1 = 3
    Rung2 = 4
    Lim = 5
    Units <- MCUnits
    MulBits = 4
    SlotFacts <- MCSlots
    SlotVals <- MCSlotVals
    Scripts <- MCScripts
    MaxRounds <- MCMaxRounds
    VERSIONS_PER_ROUND = 100
    STRIP_MAX_ROUNDS = 4
    CLOSURE_MAX_TRIES = 3
    BYTES_PER_GUARD = 2
    Sizes <- MCSizes
    ArgVals <- MCArgVals
    Steps = 14
SPECIFICATION Spec
INVARIANT
    StaleRowsMiss
