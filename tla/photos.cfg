CONSTANTS
    Users = {u1, u2}
    Keys = {k1}
    CallIds = {c1, c2, c3}
    NULL = NULL
SYMMETRY Symmetry
SPECIFICATION Spec
INVARIANT NoGhosts
PROPERTY AlbumLife
