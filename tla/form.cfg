CONSTANTS
    Places <- SomePlaces
    NULL = NULL
SPECIFICATION Spec
INVARIANTS PlaceExists SentIsChecked
