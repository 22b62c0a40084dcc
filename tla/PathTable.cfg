SPECIFICATION Spec
CONSTANTS
  Dests = {d1}
  Interfaces = {lan, wan}
  lan = lan
  wan = wan
  n1 = n1
  n2 = n2
  n3 = n3
  NextHops = {n1, n2, n3}
  Neighbours <- MCNeighbours
  AccessPoint = {lan}
  Bitrate <- MCBitrate
  MaxHops = 2
  MaxPaths = 2
  MaxBlobs = 1
  Lifetime = 1
  ApLifetime = 1
  StaleThreshold = 0
  MaxTime = 2
  MaxEmission = 2
  MaxAnnounces = 3
  MaxEvents = 2
SYMMETRY Symmetry
INVARIANTS TypeOK  BlobsDieWithRoutes SelectsBest
PROPERTIES ShortRouteKept AdmissionKeepsReachable
CHECK_DEADLOCK FALSE
