SPECIFICATION ServiceSpec
CONSTANTS
  Dests = {d1, d2}
  Interfaces = {lan, wan}
  lan = lan
  wan = wan
  n1 = n1
  NextHops = {n1}
  Neighbours <- MCNeighbours
  AccessPoint = {}
  Bitrate <- MCBitrate
  MaxHops = 2
  MaxPaths = 2
  MaxBlobs = 1
  Lifetime = 1
  ApLifetime = 1
  StaleThreshold = 0
  MaxTime = 1
  MaxEmission = 1
  MaxAnnounces = 1
  MaxEvents = 2
SYMMETRY Symmetry
INVARIANTS ServiceTypeOK CleanIsOnDisk NoLostWakeup
CHECK_DEADLOCK FALSE
