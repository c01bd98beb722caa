CONSTANTS
    n1 = n1
    n2 = n2
    n3 = n3
    Unknown = Unknown
    Block = Block
    Token = Token
    Transaction = Transaction
    HTR = HTR
    Blank = Blank
    None = None
    Names <- MCNames
    Kinds = {Block, Token, Transaction}
    Slots <- MCSlots
    Chains <- MCChains
    MaxOps = 3
SPECIFICATION RegSpec
PROPERTIES
    KindImmutable
CHECK_DEADLOCK FALSE
