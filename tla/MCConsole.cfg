\* A firmware that copies what it is told to; lines that fill the row and leave it.
CONSTANTS
  CONSOLE_WIDTH = 4
  CONSOLE_HEIGHT = 2
  GLYPH_WIDTH = 2
  GLYPH_HEIGHT = 1
  Glyphs = {"a", "b"}
  Texts <- Messages
  Prompt <- ShortPrompt
  MaxLine = 3
  Faults = FALSE
SPECIFICATION ConsoleSpec
INVARIANT EchoShowsLine
PROPERTY ImplementsTerminal
