SPECIFICATION ClientSpec
CONSTANTS
    Rec <- Records
    Owner <- Owners
    Service <- Services
    None = none
    Node = {n1, n2}
    Local = {n1}
    MaxWrites = 2
    Self = n1
    Own <- OwnRecords
    Call = {g1}
INVARIANTS
    NewestIsKept
    ReadsGoOn
    ProvidersHaveIt
PROPERTIES
    HandedOver
    GetsReturn
CHECK_DEADLOCK FALSE
