\* Blanks behind a default or a label.
CONSTANTS
  Word <- Words
  Confs <- DefaultFirst
  MaxLines = 3
  ShapeNames = {"empty", "blank", "label", "longer", "trailing", "doubled", "labelGlued", "noValue", "glued", "default", "defaultTail", "defaultTwo", "title", "noTitle", "kernel"}
SPECIFICATION Spec
INVARIANT DefaultIsItsLabel
CHECK_DEADLOCK FALSE
