CONSTANTS
    Users = {u1}
    Pictures = {TRUE}
    CallIds = {c1, c2}
    NULL = NULL
SPECIFICATION FairSpec
INVARIANTS TypeOK StackShape OneSubmission LoginProgress CompletedIsStored
PROPERTY LoginAnswered
