SPECIFICATION FairClientSpec
CONSTANTS
  Servers = {s1, s2}
  Msgs = {m1, m2}
  NoPeer = NoPeer
  Timeouts = {3, 10}
  MaxCalls = 2
INVARIANTS KnownHadMailbox ReleasedWereRead
PROPERTIES CallsReturn
CHECK_DEADLOCK FALSE
