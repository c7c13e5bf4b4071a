\* Two deliveries of one request, handled at once.
CONSTANTS
    DEFAULT_EXPIRE_TIME = 1
    Handlers = {h1, h2}
    Users = {u1}
    Global = global
    Codes = {c1}
    Ids = {i1}
    Fields <- MCFields
    MaxClock = 3
    MaxReceived = 2
    MaxStarts = 2
    Nil = Nil
SPECIFICATION Spec
INVARIANTS
    IdServedOnce
CHECK_DEADLOCK FALSE
