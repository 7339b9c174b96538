SPECIFICATION FairSpec
CONSTANTS
  Comps = {msg, mailbox}
  Quiet = {msg}
  Listing = {msg}
  Keys = {k1}
  Threads = {t1, t2}
  Buffer = 2
  MaxGens = 2
  MaxLog = 2
  MaxConsumers = 2
INVARIANTS RefsMatchHolds HolderIsFed
PROPERTIES MessagesAreHeard
CHECK_DEADLOCK FALSE
