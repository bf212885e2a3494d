\* Two nodes stop, return or time out; or the highest of three stops.
SPECIFICATION MCSpec
CONSTANTS
  Nodes = {8080, 8081, 8082}
  Dials <- MCDials
  Mortals = {8080, 8081, 8082}
  Returning = {8080, 8081}
  MaxStarts = 2
  Hearing = {8080, 8081}
  Crowded = {8080}
  MaxSpurious = 1
INVARIANTS
  PeersTrackReaders
  LeaderNamesItself
PROPERTIES
  ClaimsWhenAlone
  HighestLeads
CHECK_DEADLOCK FALSE
