SPECIFICATION OwnerReads
CONSTANTS
    Msg <- ThreeMessages
    Size <- HalfPage
    PageLimit = 2
    Handler = {h1}
    Client = {c1}
    Nobody = none
    MaxGen = 2
    MaxLoss = 1
INVARIANTS
    NothingVanishes
    ReadAllOnSuccess
PROPERTIES
    StoredIsRead
