CONSTANTS
    Ids <- MCIds
    Kind <- MCKind
    ScriptOf <- MCScriptOf
    Script <- MCScript
    FunApply = "apply"
    FunCall = "call"
    HasOwn = "hasOwn"
    ArrayCtor = "Array"
    ObjectProto = "OP"
    NurseryAddrs = {2, 3, 4}
    TenuredAddrs = {5, 6, 7, 8, 9, 10, 11, 12, 13, 14}
    Sites <- MCSites
    Numbers = {"zero"}
    MaxActuals = 3
    MaxCollections = 2
    YoungProtos = FALSE
    Retarget = TRUE
    SuperArray = FALSE
    Old = {"o1", "o2"}
    New = {"n1"}
    Class <- MCClass
    Row <- MCRow
    Names = {"p", "q"}
    Bodies <- MCBodies
    Outermost <- MCOutermost
    CallSites <- MCCallSites
    MaxFrames = 3
    MaxEvents = 4
    ClassSurprise = FALSE
    CtorSurprise = FALSE
    Scripts <- MCScripts
    Code <- MCCode
    Edges <- MCEdges
    VLimit = 45
    Headroom = 29
    MaxSplices = 2
    MaxActs = 3
    MaxVops = 5
    RawSurplus = FALSE
SPECIFICATION Spec
INVARIANTS
    ForwardAgrees
