\* Statuses at both ends of their range, two errors of execv, two signals.
CONSTANTS
    Statuses = {0, 1, 127, 255}
    Errnos = {2, 13}
    Signals = {9, 13}
    Nil = Nil
SPECIFICATION WrapperSpec
INVARIANTS
    ResultIsPrograms
    ExecErrorReported
    NoZombie
PROPERTIES
    WrapperEnds
CHECK_DEADLOCK FALSE
