\* Every shape of a line, three at a time.
CONSTANTS
  Word <- Words
  Confs <- SomeConfs
  MaxLines = 3
  ShapeNames = {"empty", "blank", "label", "longer", "trailing", "doubled", "labelGlued", "noValue", "glued", "default", "defaultTail", "defaultTwo", "title", "noTitle", "kernel"}
SPECIFICATION Spec
INVARIANTS MenuIsComplete NumberMeansWhatIsShown EntryReadsItsOwn DefaultResolved
CHECK_DEADLOCK FALSE
