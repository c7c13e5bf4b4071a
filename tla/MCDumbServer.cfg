\* Two handlers at once, two request ids, up to three deliveries.
CONSTANTS
    DEFAULT_EXPIRE_TIME = 1
    Handlers = {h1, h2}
    Users = {u1}
    Global = global
    Codes = {c1}
    Ids = {i1, i2}
    Fields <- MCFields
    MaxClock = 3
    MaxReceived = 3
    MaxStarts = 2
    Nil = Nil
SYMMETRY Symmetry
SPECIFICATION Spec
INVARIANTS
    DuplicateOnlyIfConcurrent
    AuditBeforeGrant
PROPERTIES
    EventsKept
CHECK_DEADLOCK FALSE
