\* A firmware that may refuse to copy.
CONSTANTS
  CONSOLE_WIDTH = 2
  CONSOLE_HEIGHT = 2
  GLYPH_WIDTH = 2
  GLYPH_HEIGHT = 2
  Glyphs = {"a"}
  Texts <- ShortTexts
  MaxText = 2
  Faults = TRUE
SPECIFICATION Spec
INVARIANTS BlitInside VideoFollows ShownWhenWritten
