CONSTANTS
    Recv = {"a"}
    P = "p"
    Q = "q"
    This = "a"
    OwnNames <- MCOwnNames
    OtherName = "y"
    NFixed = 2
    Ways = 2
    InlineHops = 1
    RowHops = 2
    NAddrs = 6
    MaxHeapOps = 2
    StartKinds <- MCStartKinds
    ProtoKinds <- MCProtoKinds
    MaxCycles = 1
    GcInSet = FALSE
    SelfRedefine = FALSE
    Reshadow = FALSE
    Sites <- MCSites
    Pairs <- MCPairs
    W = 3
    B = 2
    StoreNumbers <- MCNumbers
    MaxEls = 2
    MaxElemOps = 2
    StaticStores = FALSE
SPECIFICATION Spec
INVARIANTS
    PropAgrees
    ElemAgrees
    NurseryEdgesRemembered
CHECK_DEADLOCK FALSE
