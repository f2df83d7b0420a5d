CONSTANTS
    Users = {u1, u2}
    Pictures = {FALSE}
    CallIds = {c1, c2}
    NULL = NULL
SYMMETRY Symmetry
SPECIFICATION Spec
INVARIANT Ownership
