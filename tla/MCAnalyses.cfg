CONSTANTS
    v0 = v0
    v1 = v1
    v2 = v2
    arg = arg
    view = view
    ret = ret
    str = str
    fn = fn
    wide = wide
    num = num
    seed = seed
    loop = loop
    back = back
    call = call
    body = body
    concat = concat
    Cell <- MCCell
    Task <- MCTask
    Row <- MCRow
    Evidence <- MCEvidence
    Shadow <- MCShadow
    ReadCells <- MCReadCells
    DstCell <- MCDstCell
    TasksOf <- MCTasksOf
    Roots <- MCRoots
    SeedOf <- MCSeedOf
    Transfer <- MCTransfer
    Enters <- MCEnters
    Installs <- MCInstalls
    Programs <- MCPrograms
    RangeOf <- MCRangeOf
    FieldCap = 3
    GnameCap = 1
    W = 5
    Rung1 = 6
    Rung2 = 7
    Lim = 8
    FactOps <- MCFactOps
    CellOps <- MCCellOps
    Bounds <- MCBounds
    Far = 40
    EvidenceA <- MCEvidenceA
    EvidenceB <- MCEvidenceB
    Literals <- MCLiterals
    Calls <- MCMatches
    Radix = 256
    CaseEq <- MCCaseEq
    Wide = FALSE
    BT_BUDGET = 6
    MAX_BT_LABELS = 3
    MAX_REGISTERS = 4
SPECIFICATION Spec
INVARIANTS
    Solved
    NoMissedWakeup
    SummariesExact
    ClaimsSound
    BufferSafe
PROPERTIES
    CellsGrow
    Drains
    SummariesSettle
    ClaimsMonotone
    Matches
    MatchEnds
CHECK_DEADLOCK FALSE
