\* An SSH session that ends while its command is being answered.
SPECIFICATION Spec
CONSTANTS
  c1 = c1
  c2 = c2
  p = p
  Conns = {c1, c2}
  Peers = {}
  SSHConns = {c2}
  Users = {"ann", "bob"}
  UserOf <- MCUserOf
  Admins = {"ann"}
  Rooms = {"general", "dev"}
  General = "general"
  SendCap = 1
  HistoryLen = 0
  ConnLimit = 2
  Inputs <- InfoInputs
  Relays <- NoRelays
  MaxInputs = 1
  MaxHeard = 0
  Leavers = {c2}
INVARIANT NoPanic
CHECK_DEADLOCK FALSE
