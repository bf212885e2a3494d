\* Two TLS clients chatting, moving between rooms and moderating, and a peer's messages beside them.
SPECIFICATION TalkSpec
CONSTANTS
  c1 = c1
  c2 = c2
  p = p
  Conns = {c1, c2}
  Peers = {p}
  SSHConns = {}
  Users = {"ann", "bob"}
  UserOf <- MCUserOf
  Admins = {"ann"}
  Rooms = {"general", "dev"}
  General = "general"
  SendCap = 2
  HistoryLen = 4
  ConnLimit = 3
  Inputs <- TalkInputs
  Relays <- OnePeer
  MaxInputs = 1
  MaxHeard = 2
  Leavers = {c1}
INVARIANTS
  TypeOK
  EntriesAreLive
  NoGap
  SavedBeforeShown
  DMStaysPrivate
  DeliveredInOrder
CHECK_DEADLOCK FALSE
