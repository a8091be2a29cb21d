\* Files of none to three bytes, a page of two, a devicetree's header of two.
CONSTANTS
  Paths <- PathSet
  MaxSize = 3
  PageSize = 2
  FdtHeaderSize = 2
  FdtPadding = 1
SPECIFICATION Spec
INVARIANTS HandlesClosed PathMeant ContentsAreFiles KernelGetsInitrd
CHECK_DEADLOCK FALSE
