SPECIFICATION Spec
CONSTANTS
    x = x
    y = y
    fw = fw
    ok = ok
    Nil = Nil
    DEFAULT_EXPIRE_TIME = 2
    Commands = {fw, ok}
    Blocks = {x, y}
    CommandLines <- MCCommandLines
    Times = {1, 2}
    MaxRuns = 4
    MaxServed = 2
INVARIANTS
    WholeOrCut
    SignedStaysGood
    AcceptedIsWhole
CHECK_DEADLOCK FALSE
