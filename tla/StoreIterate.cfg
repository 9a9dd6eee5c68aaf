CONSTANTS
    k1 = k1
    k2 = k2
    k3 = k3
    Keys <- MCKeys
    NB = 2
    Bucket <- MCBucket
    CtxKinds = {"nil", "ctx"}
SPECIFICATION Spec
PROPERTY IterateVisitsAll
