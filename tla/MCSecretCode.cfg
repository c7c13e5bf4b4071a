\* Two handlers at once, one code of each make.
CONSTANTS
    DEFAULT_EXPIRE_TIME = 2
    Sessions = {s1, s2}
    Codes = {c1}
    Files <- CodeFiles
    Parts <- CodeParts
    MaxLive = 2
    MaxClock = 3
    NotFound = NotFound
    Nil = Nil
    a1 = a1
    a2 = a2
SPECIFICATION Spec
INVARIANTS
    GrantedCodeAccepted
    CodeRunsInOrder
    AdbNeedsDev
    InstallsGivenApk
PROPERTIES
    HandlerEnds
CHECK_DEADLOCK FALSE
