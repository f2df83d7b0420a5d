CONSTANTS
    Users = {u1, u2}
    Pictures = {TRUE, FALSE}
    CallIds = {c1}
    NULL = NULL
SYMMETRY Symmetry
SPECIFICATION Spec
INVARIANTS AccountFirst PictureStored
PROPERTIES ProfileKept AccountLife
