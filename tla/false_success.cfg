CONSTANTS
    Users = {u1}
    Pictures = {FALSE}
    CallIds = {c1}
    NULL = NULL
SPECIFICATION Spec
INVARIANT SuccessMeansStored
