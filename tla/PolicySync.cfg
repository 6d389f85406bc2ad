CONSTANTS
  v1 = v1  v2 = v2  v3 = v3
  Bootstrap = Bootstrap  Resumed = Resumed  NoReply = NoReply
  Version = {v1, v2, v3}
  Unusable = {v3}
  WithSection = {v1, v3}
  Slots = 2
  Modes = {"idle", "off", "locked", "broken"}
  Interval = 2
  Timeout = 1
  TTL = 3
  Window = 3
  Skew = 1
  MaxBackoff = 3
  StaleAfter = 3
  Offsets <- MCOffsets
  MaxCrashes = 1
  MaxFailures = 1
SPECIFICATION FairSpec
INVARIANTS
  TypeOK
  ExceptionsExpire
  StaleSignalled
  DenyMatchesVersion
PROPERTIES
  PolicyConverges
