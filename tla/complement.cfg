CONSTANTS
    Areas = {a1, a2, a3}
    Objects = {w1, w2}
    CallIds = {c1, c2, c3}
    NULL = NULL
SYMMETRY Symmetry
SPECIFICATION Spec
INVARIANT ListedWhereStored
