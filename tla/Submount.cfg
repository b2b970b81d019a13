\* A SIGTERM walk of a two-level submount tree while a new submount is
\* mounted under the root or under a, and a submount of another entry is
\* mounted and exits; no submount of the walked tree exits.
CONSTANTS
    r = r
    a = a
    b = b
    g = g
    c = c
    d = d
    o = o
    Root = r
    Others = {o}
    Subs = {a, b, g, c, d}
    Tree0 <- MCTree0
    Joins <- MCJoinsOther
    Frees = {d}
    ListHead = ListHead
    NoOwner = NoOwner
SPECIFICATION Spec
INVARIANT NotifiedOnce
INVARIANT ChildrenBeforeParent
CHECK_DEADLOCK FALSE
