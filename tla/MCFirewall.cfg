\* The script at boot and one handler after the other, beside it or not.
CONSTANTS
    a1 = a1
    a2 = a2
    Apps = {a1, a2}
    Uids = {u1, u2}
    Root = Root
    Default = {}
    Removable = {a1}
    Runs = {boot, r1}
    Boot = boot
    Requests <- FewRequests
    MaxRules = 4
    MaxFaults = 1
    SboxOutcomes <- WithoutOne
    Nil = Nil
SYMMETRY Symmetry
SPECIFICATION Spec
INVARIANTS
    
    ListedPass
    OnlyRootAndTempsAround
