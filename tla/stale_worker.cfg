CONSTANTS
    Users = {u1, u2}
    Pictures = {TRUE, FALSE}
    CallIds = {c1}
    NULL = NULL
SPECIFICATION Spec
PROPERTY CompletesOwnProfile
