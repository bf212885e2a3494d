\* Five messages in two channels, one too long to be read back; disk errors, a deletion, an edit and restarts.
SPECIFICATION MCSpec
CONSTANTS
  m1 = m1
  m2 = m2
  m3 = m3
  m4 = m4
  m5 = m5
  Ids = {m1, m2, m3, m4, m5}
  Rooms = {"general", "dev"}
  RoomOf <- MCRoomOf
  Users = {"ann"}
  Long = {m3}
  Capacity = 3
  Faults = {"save", "torn", "create", "rename", "reopen"}
  MaxChanges = 1
  MaxDeletes = 1
  MaxRestarts = 1
  Limits <- MCLimits
  Offsets <- MCOffsets
  MaxPage = 2
SYMMETRY MCSymmetry
INVARIANTS
  TypeOK
  ListsAgree
  AckedIsOnDisk
  SameOrder
  PageIsWindow
  PagesMissNothing
PROPERTIES
  AckedSurvivesUndeleted
  ShutdownKeepsMessages
CHECK_DEADLOCK FALSE
