SPECIFICATION FairSpec
CONSTANTS
  c1 = c1
  c2 = c2
  k1 = k1
  k2 = k2
  Clients = {c1, c2}
  Servers = {s1, s2}
  MsgServers = {s1}
  Keys = {k1, k2}
  MaxPubsubCount = 1
  KeepPubsubDay = 1
  Absent = Absent
  MaxCalls = 2
  MaxDay = 1
  MaxCrashes = 1
  Wants <- MCWants
  Own <- MCOwn
  MsgClients = {c1}
  MaxMsgs = 1
INVARIANTS ListedIsJoined SubscribedIsBacked RespondedWasReceived
PROPERTIES StaleProxiesGo
CHECK_DEADLOCK FALSE
