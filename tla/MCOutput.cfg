\* Every machine.
CONSTANT Machines <- MachineSet
SPECIFICATION FairSpec
INVARIANTS OutputComplete FrameBuffersFit
PROPERTY MessagesEnd
CHECK_DEADLOCK FALSE
