SPECIFICATION Spec
CONSTANTS
    p1 = p1  p2 = p2  p3 = p3
    k1 = k1  k2 = k2
    n1 = n1  n2 = n2
    Procs <- MCProcs
    Keys <- MCKeys
    NoKey = NoKey
    Names <- MCNames
    NoName = NoName
    NoFile = NoFile
    MaxTries = 2
    MaxGen = 1
SYMMETRY Symmetry
INVARIANTS NeverTorn Agreement
PROPERTIES InstallerDurable ImplementsStore
