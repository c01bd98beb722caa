CONSTANTS
    a1 = a1
    a2 = a2
    a3 = a3
    a4 = a4
    p1 = p1
    p2 = p2
    EmptyPassword = EmptyPassword
    None = None
    Addresses <- MCAddresses
    Passwords <- MCPasswords
    KeyBatch = 2
    MaxRestarts = 2

SPECIFICATION WSpec

INVARIANT HandedOutPersisted

CHECK_DEADLOCK FALSE
