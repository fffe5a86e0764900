CONSTANTS
    fa = fa
    fb = fb
    fc = fc
    fz = fz
    ctorP = ctorP
    ctorF = ctorF
    ctorG = ctorG
    ctorQ = ctorQ
    initQ = initQ
    newP = newP
    newF = newF
    newG = newG
    newQ = newQ
    anyG = anyG
    Own <- MCOwn
    IsRestamp <- MCIsRestamp
    Writes <- MCWrites
    SiteLayout <- MCSiteLayout
    Runs <- MCRuns
    EarlyKeyMax = 4
    PairCap = 2
    KeylessSlots = 16
    NoFact = NoFact
    Names = {fa, fb, fc, fz}
    Values = {"in", "out", "object"}
    Layouts = {1, 2, 3, 4, 5}
    Fields <- MCFields
    Mask <- MCMask
    Ranged <- MCRanged
    Bodies = {ctorP, ctorF, ctorG, ctorQ, initQ}
    Literals = {5}
    Functions = {ctorP, ctorG, ctorQ, initQ}
    News = {newP, newQ, newG, newF, anyG}
    FixedCounts = {2}
    MaxSlots = 3
    MaxFrames = 2
SPECIFICATION Spec
INVARIANTS
    SlotsHold
    StampedValuesHold
    FactHolds
