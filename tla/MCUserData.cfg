\* Two handlers at once, before and after the boot is complete.
CONSTANTS
    Users = {u1, u2}
    Junk = Junk
    Sessions = {s1, s2}
    Nil = Nil
SPECIFICATION Spec
INVARIANTS
    UserSurvives
PROPERTIES
    ReplacedOnlyByRace
    UserTakesEffect
