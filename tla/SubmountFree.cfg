\* The same walk while submounts b and g exit and free their autofs_points.
CONSTANTS
    r = r
    a = a
    b = b
    g = g
    c = c
    d = d
    o = o
    Root = r
    Others = {o}
    Subs = {a, b, g, c, d}
    Tree0 <- MCTree0
    Joins <- MCJoins
    Frees = {b, g}
    ListHead = ListHead
    NoOwner = NoOwner
SPECIFICATION Spec
CHECK_DEADLOCK FALSE
INVARIANT SubmountWalkSafe
