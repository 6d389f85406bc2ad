CONSTANTS
  ArgSlots = 2
  EnvScan = 3
  Task = {1}
  RingCapacity = 2
  ProcCapacity = 1
  DetCapacity = 1
  MaxTokens = 1
  DenyDirs = {"/tmp/", "/dev/shm/"}
  Window = 2
  BurstThreshold = 2
  BatchLimit = 2
  ChannelCapacity = 3
  ThresholdPct = 90
  UsizeModulus = 8
  MaxTampers = 2
  Plans <- MCEnvPlans
SPECIFICATION Spec
INVARIANT NoSilentEnvLoss
CHECK_DEADLOCK FALSE
