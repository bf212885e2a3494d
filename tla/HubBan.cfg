\* ann bans bob while bob is online.
SPECIFICATION FairSpec
CONSTANTS
  c1 = c1
  c2 = c2
  p = p
  Conns = {c1, c2}
  Peers = {}
  SSHConns = {}
  Users = {"ann", "bob"}
  UserOf <- MCUserOf
  Admins = {"ann"}
  Rooms = {"general", "dev"}
  General = "general"
  SendCap = 1
  HistoryLen = 0
  ConnLimit = 2
  Inputs <- BanInputs
  Relays <- NoRelays
  MaxInputs = 1
  MaxHeard = 0
  Leavers = {c2}
PROPERTY BannedIsDisconnected
CHECK_DEADLOCK FALSE
