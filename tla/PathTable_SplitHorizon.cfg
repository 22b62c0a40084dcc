SPECIFICATION Spec
CONSTANTS
  Dests = {d1}
  Interfaces = {lan, wan}
  lan = lan
  wan = wan
  n1 = n1
  n2 = n2
  n3 = n3
  NextHops = {n1, n2, n3}
  Neighbours <- MCNeighbours
  AccessPoint = {lan}
  Bitrate <- MCBitrate
  MaxHops = 2
  MaxPaths = 2
  MaxBlobs = 2
  Lifetime = 2
  ApLifetime = 1
  StaleThreshold = 0
  MaxTime = 2
  MaxEmission = 2
  MaxAnnounces = 3
  MaxEvents = 2
INVARIANTS SplitHorizon
CHECK_DEADLOCK FALSE
