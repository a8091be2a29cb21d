\* Firmwares that refuse nothing or anything, with and without somebody at the
\* keyboard.
CONSTANTS
  MaxAttempts = 3
  MaxEntries = 2
  Configs <- AllConfigs
SPECIFICATION FairSpec
INVARIANTS
  TypeOK
  NothingMisfreed
  HandedOverLive
  RejectedLeavesNothing
  StartsItsImage
  InitrdWhole
  EnvironmentComplete
  IInv
PROPERTIES
  ImplementsBootMenu
  UnattendedBoots
CHECK_DEADLOCK FALSE
