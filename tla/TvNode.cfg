SPECIFICATION FairNodeSpec
CONSTANTS
  Peer = {p1}
  Boot = {p1}
  Light = {}
  Loop = {d1, d2}
  MaxEvents = 2
  Config <- Settings
INVARIANTS ConnectedIsNoticed PanicsAreEarly
PROPERTIES  SignalStops
CHECK_DEADLOCK FALSE
