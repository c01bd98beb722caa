CONSTANTS
    k1 = k1
    k2 = k2
    f1 = f1
    f2 = f2
    Keys <- MCKeys
    Fns <- MCFns
    MaxPublishes = 3

SPECIFICATION PSpec

PROPERTY PublishReachesAll


CHECK_DEADLOCK FALSE
