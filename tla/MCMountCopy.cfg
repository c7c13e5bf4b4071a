\* Two files, three names of a drive, one change by the user.
CONSTANTS
    Files = {f1, f2}
    Devices <- MCDevices
    MaxChanges = 1
    Nil = Nil
SPECIFICATION CopySpec
INVARIANTS
    DoneMeansCopied
    ReleasedOnReturn
    ErrnoIsTheCause
PROPERTIES
    CommandEnds
CHECK_DEADLOCK FALSE
