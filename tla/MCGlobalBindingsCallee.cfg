CONSTANTS
    x = x
    f = f
    one = one
    o1 = o1
    body1 = body1
    body2 = body2
    Names = {f}
    Prims = {one}
    Objs = {o1, o2}
    Bodies = {body1, body2}
    Shapes = {s1, s2, s3}
    Literal <- MCLiteral
    Expected <- MCExpected
    Target <- MCTarget
    FlipLimit = 1
    EpochMod = 4
    MaxFrames = 1
    NoLiteral = NoLiteral
    NoBody = NoBody
    NoValue = NoValue
    NoShape = NoShape
    Accessor = Accessor
    Dangling = Dangling
SYMMETRY ShapeSymmetry
SPECIFICATION Spec
INVARIANTS
    ArmedCells
    ArmedObjectIsPredicted
