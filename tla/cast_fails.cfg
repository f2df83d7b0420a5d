CONSTANTS
    Users = {u1}
    Pictures = {TRUE}
    CallIds = {c1, c2}
    NULL = NULL
SPECIFICATION Spec
INVARIANT CastsSucceed
