\* A TLS and an SSH client that come and go, under fair scheduling.
SPECIFICATION LiveSpec
CONSTANTS
  c1 = c1
  c2 = c2
  p = p
  Conns = {c1, c2}
  Peers = {}
  SSHConns = {c2}
  Users = {"ann", "bob"}
  UserOf <- MCUserOf
  Admins = {"ann"}
  Rooms = {"general", "dev"}
  General = "general"
  SendCap = 1
  HistoryLen = 0
  ConnLimit = 1
  Inputs <- LiveInputs
  Relays <- NoRelays
  MaxInputs = 1
  MaxHeard = 0
  Leavers = {c1, c2}
INVARIANT NoPanic
PROPERTIES
  GoneIsUnregistered
  PublishedIsStored
CHECK_DEADLOCK FALSE
