CONSTANTS
    Users = {u1}
    Pictures = {TRUE}
    CallIds = {c1}
    NULL = NULL
SPECIFICATION Spec
INVARIANT ComplementHasWorker
