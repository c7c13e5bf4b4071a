SPECIFICATION Spec
CONSTANTS
    a = a
    b = b
    s = s
    Nil = Nil
    Domains = {a, b}
    System = {s}
    Runs = {r1, r2}
    Edits <- MCEdits
    MaxEdits = 3
    MaxFaults = 1
INVARIANTS
    EditsAtomic
PROPERTIES
    DelRemoves
    InEffectAtLast
CHECK_DEADLOCK FALSE
