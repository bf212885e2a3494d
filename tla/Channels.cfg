\* Two sessions of one user at a node, another user at a second node of the directory.
SPECIFICATION MCSpec
CONSTANTS
  Nodes = {8080, 8081}
  Users = {"ann", "bob"}
  Rooms = {"general", "dev"}
  General = "general"
  Sessions = {"ann@1", "ann2@1", "bob@2"}
  NodeOf <- MCNodeOf
  UserOf <- MCUserOf
  Topics = {"plans"}
  MaxFaults = 1
INVARIANTS
  ChannelsSurvive
  ResignedForGood
  HearsWhereItPosts
CHECK_DEADLOCK FALSE
