CONSTANTS
  MaxAttempts = 2
  MaxEntries = 2
  Configs <- ReliableConfigs
SPECIFICATION Spec
INVARIANT NoStaleDevicetree
CHECK_DEADLOCK FALSE
