\* One process alone, or two in one directory, with an old file or none.
SPECIFICATION MCSpec
CONSTANTS
  n1 = n1
  n2 = n2
  Nodes <- MCNodes
  Users = {"admin", "bob"}
  AdminName = "admin"
  Legacy = {"admin"}
  Choices = {"online", "away", "offline"}
  Verdicts = {"banned", "muted", "online"}
  MaxFaults = 2
SYMMETRY Symmetry
INVARIANTS
  OneAdmin
  FileIsWhole
  CleanIsSaved
  AckedIsOnFile
PROPERTY BanHolds
CHECK_DEADLOCK FALSE
