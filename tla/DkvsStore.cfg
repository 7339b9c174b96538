SPECIFICATION FairSpec
CONSTANTS
    Rec <- FirstAndLent
    Owner <- Owners
    Service = {}
    None = none
    Writer = {w1, w2}
    Sync = sync
    Peer = {p1}
    MaxTime = 1
    MaxTries = 2
INVARIANTS PutIsAccountedFor
PROPERTIES
    NewerReplaces
    ListedIsSettled
