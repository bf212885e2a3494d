\* Three nodes, two of which may have dialed each other, a chat, a direct message and a join; one command per session.
SPECIFICATION MCSpec
CONSTANTS
  Nodes = {"a", "b", "c"}
  Conns = {"ab", "ba", "ac", "bc"}
  Ends <- MCEnds
  Ids = {"chat", "dm", "join"}
  KindOf <- MCKindOf
  PostedAt <- MCPostedAt
  AuthorOf <- MCAuthorOf
  Sessions = {"ann@a", "ann@b", "root@c"}
  NodeOf <- MCNodeOf
  UserOf <- MCUserOf
  Users = {"ann", "root", "Server"}
  Admins = {"root"}
  MaxCuts = 2
INVARIANTS
  StoredOnce
  QuietNodesAgree
PROPERTY AllArrive
CHECK_DEADLOCK FALSE
