SPECIFICATION Spec
CONSTANTS
    c1 = c1
    c2 = c2
    Conn = {c1, c2}
    MaxId = 4
    Strays = FALSE
SYMMETRY Perms
CHECK_DEADLOCK FALSE
INVARIANTS Established NoGhosts AbortOnce
