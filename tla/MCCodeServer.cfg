\* One user, one code with a personal and a global file.
CONSTANTS
    DEFAULT_EXPIRE_TIME = 1
    Users = {u1}
    Global = global
    Codes = {c1}
    Ids = {i1, i2}
    Fields <- MCFields
    MaxClock = 3
    MaxEdition = 2
    Nil = Nil
SYMMETRY Symmetry
SPECIFICATION Spec
INVARIANTS
    TypeOK
    IdServedOnce
    OneWindowPerEdition
    DeadlineOnDisk
    IInv
PROPERTIES
    LedgerSpec
CHECK_DEADLOCK FALSE
