\* Two rooms, one pseudo-channel; a chat in each kind.
SPECIFICATION MCSpec
CONSTANTS
  Rooms = {"general", "dev"}
  General = "general"
  DmPanes = {"dm:bob"}
  Ids = {"chat", "dm", "typed", "join", "help", "stray"}
  KindOf <- MCKindOf
  PaneOf <- MCPaneOf
  Users = {"ann", "bob"}
  MaxChanges = 2
INVARIANTS
  TypeOK
  ScreenAgrees
  BadgesReachable
PROPERTY CursorStays
CHECK_DEADLOCK FALSE
