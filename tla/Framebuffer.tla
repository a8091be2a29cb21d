----------------------------- MODULE Framebuffer -----------------------------
(***************************************************************************)
(* The graphical console: puts_internal() and graphics_write() on one      *)
(* frame buffer.  Text is drawn in memory, and what has been drawn is      *)
(* copied to the screen once per string, as one rectangle.                 *)
(*                                                                         *)
(* Memory and screen are grids of cells, each holding a glyph; the         *)
(* rectangle is kept in pixels, as in the code, and copies the cells that  *)
(* lie in it as a whole.                                                   *)
(***************************************************************************)
EXTENDS Integers, Sequences, SequencesExt

CONSTANTS
  CONSOLE_WIDTH, CONSOLE_HEIGHT,   \* in cells: 80, 24
  GLYPH_WIDTH, GLYPH_HEIGHT,       \* of a cell, in pixels: 8, 16
  Glyphs,                          \* characters with a glyph of their own
  Texts,                           \* what printf() may be given
  Faults                           \* may the firmware refuse to copy?

Blank == "blank"
Controls == {"cr", "lf", "bs"}

\* "high" is any character outside ASCII.
Chars == Glyphs \cup Controls \cup {Blank, "high"}

ASSUME ConsoleAssumption ==
  /\ CONSOLE_WIDTH \in Nat \ {0} /\ CONSOLE_HEIGHT \in Nat \ {0}
  /\ GLYPH_WIDTH \in Nat \ {0} /\ GLYPH_HEIGHT \in Nat \ {0}
  /\ Glyphs \cap (Controls \cup {Blank, "high"}) = {}
  /\ Texts \subseteq Seq(Chars)
  /\ Faults \in BOOLEAN

Columns == 0 .. CONSOLE_WIDTH - 1
Rows == 0 .. CONSOLE_HEIGHT - 1
LastRow == CONSOLE_HEIGHT - 1
Width == CONSOLE_WIDTH * GLYPH_WIDTH
Height == CONSOLE_HEIGHT * GLYPH_HEIGHT

\* A grid maps <<column, row>> to a glyph.
Cells == Columns \X Rows
Empty == [cell \in Cells |-> Blank]

VARIABLES
  text,      \* what is left of the string being written
  writing,   \* is one being written?
  buf,       \* the picture in memory
  cursorX,   \* the column the next character goes to
  damage,    \* the rectangle drawn since the last copy
  video,     \* the screen
  lost       \* cells whose last copy was refused

vars == <<text, writing, buf, cursorX, damage, video, lost>>

-----------------------------------------------------------------------------
\* Every "\n" becomes "\r\n".
Convert(out, c) == out \o (IF c = "lf" THEN <<"cr", "lf">> ELSE <<c>>)

Bug_NoReturn(s) == s
LineEndsConverted(s) == FoldLeft(Convert, <<>>, s)

\* graphics_write()'s and gFont's view of a character.
Glyph(c) == IF c \in Glyphs THEN c ELSE Blank

\* memmove() and memset(), on lines of cells.
Scrolled(grid) ==
  [cell \in Cells |-> IF cell[2] = LastRow THEN Blank ELSE grid[<<cell[1], cell[2] + 1>>]]

-----------------------------------------------------------------------------
(***************************************************************************)
(* The damaged rectangle, both ends included.                              *)
(***************************************************************************)
NoDamage == [left |-> Width, up |-> Height, right |-> 0, down |-> 0]

WholeScreen == [left |-> 0, up |-> 0, right |-> Width - 1, down |-> Height - 1]

\* update_damaged_region()
Bug_OnlyTheLast(d, x, y, width, height) ==
  [left |-> x, up |-> y, right |-> x + width - 1, down |-> y + height - 1]
Extended(d, x, y, width, height) ==
  [left  |-> Min({d.left, x}),
   up    |-> Min({d.up, y}),
   right |-> Max({d.right, x + width - 1}),
   down  |-> Max({d.down, y + height - 1})]

Damaged(d) == d.left < Width

\* The cells that lie in the rectangle blit_buffer() copies.
Copied(d) ==
  {cell \in Cells : /\ d.left <= cell[1] * GLYPH_WIDTH
                    /\ (cell[1] + 1) * GLYPH_WIDTH - 1 <= d.right
                    /\ d.up <= cell[2] * GLYPH_HEIGHT
                    /\ (cell[2] + 1) * GLYPH_HEIGHT - 1 <= d.down}

-----------------------------------------------------------------------------
(***************************************************************************)
(* draw_char().                                                            *)
(***************************************************************************)
CarriageReturn ==
  /\ Head(text) = "cr"
  /\ cursorX' = 0
  /\ UNCHANGED <<buf, damage>>

ScrollUp ==
  /\ Head(text) = "lf"
  /\ buf' = Scrolled(buf)
  /\ damage' = WholeScreen
  /\ UNCHANGED cursorX

\* A backspace at the left edge does nothing.
StayAtEdge ==
  /\ Head(text) = "bs"
  /\ cursorX = 0
  /\ UNCHANGED <<buf, cursorX, damage>>

\* A backspace wipes the column it goes back to.
Wipe ==
  /\ Head(text) = "bs"
  /\ cursorX > 0
  /\ cursorX' = cursorX - 1
  /\ buf' = [buf EXCEPT ![<<cursorX', LastRow>>] = Blank]
  /\ damage' = Extended(damage, cursorX' * GLYPH_WIDTH, LastRow * GLYPH_HEIGHT,
                        GLYPH_WIDTH, GLYPH_HEIGHT)

\* A row is left when a character no longer fits, not as soon as it is full.
Bug_WrapsEarly == cursorX = CONSOLE_WIDTH - 1
Bug_WrapsLate == cursorX > CONSOLE_WIDTH
RowIsFull == cursorX = CONSOLE_WIDTH

Draw ==
  /\ Head(text) \notin Controls
  /\ LET column == IF RowIsFull THEN 0 ELSE cursorX
         grid == IF RowIsFull THEN Scrolled(buf) ELSE buf
         before == IF RowIsFull THEN WholeScreen ELSE damage
     IN  /\ cursorX' = column + 1
         /\ buf' = [grid EXCEPT ![<<column, LastRow>>] = Glyph(Head(text))]
         /\ damage' = Extended(before, column * GLYPH_WIDTH, LastRow * GLYPH_HEIGHT,
                               GLYPH_WIDTH, GLYPH_HEIGHT)

DrawChar ==
  /\ writing
  /\ text # <<>>
  /\ CarriageReturn \/ ScrollUp \/ StayAtEdge \/ Wipe \/ Draw
  /\ text' = Tail(text)
  /\ UNCHANGED <<writing, video, lost>>

-----------------------------------------------------------------------------
Write(s) ==
  /\ ~writing
  /\ writing' = TRUE
  /\ text' = LineEndsConverted(s)
  /\ UNCHANGED <<buf, cursorX, damage, video, lost>>

Puts == \E s \in Texts : Write(s)

\* What blt() copied; a refusal is not noticed.
Shown(cells) == [cell \in Cells |-> IF cell \in cells THEN buf[cell] ELSE video[cell]]

Bug_KeepsDamage == damage
DamageAfterBlit == NoDamage

BlitBuffer ==
  /\ writing
  /\ text = <<>>
  /\ writing' = FALSE
  /\ IF Damaged(damage)
       THEN /\ \/ video' = Shown(Copied(damage)) /\ lost' = lost \ Copied(damage)
               \/ Faults /\ lost' = lost \cup Copied(damage) /\ UNCHANGED video
            /\ damage' = DamageAfterBlit
       ELSE UNCHANGED <<video, lost, damage>>
  /\ UNCHANGED <<text, buf, cursorX>>

Init ==
  /\ text = <<>>
  /\ writing = FALSE
  /\ buf = Empty
  /\ cursorX = 0
  /\ damage = NoDamage
  /\ video = Empty
  /\ lost = {}

Next == Puts \/ DrawChar \/ BlitBuffer

Spec == Init /\ [][Next]_vars

-----------------------------------------------------------------------------
(***************************************************************************)
(* Properties.                                                             *)
(***************************************************************************)
TypeOK ==
  /\ text \in Seq(Chars)
  /\ writing \in BOOLEAN
  /\ buf \in [Cells -> Glyphs \cup {Blank}]
  /\ cursorX \in 0 .. CONSOLE_WIDTH
  /\ damage \in [left : Int, up : Int, right : Int, down : Int]
  /\ video \in [Cells -> Glyphs \cup {Blank}]
  /\ lost \subseteq Cells

\* The rectangle handed to blt() is not empty and lies in the picture: nothing is
\* copied from behind the buffer.
BlitInside ==
  Damaged(damage) => /\ 0 <= damage.left /\ damage.left <= damage.right
                     /\ 0 <= damage.up /\ damage.up <= damage.down
                     /\ damage.right < Width /\ damage.down < Height

\* The screen differs from the picture only where something was drawn since the
\* last copy, or where the firmware refused it.
VideoFollows ==
  \A cell \in Cells :
    video[cell] # buf[cell] => cell \in Copied(damage) \cup lost

\* Between two strings there is no damage left: once a string is written, and if
\* no copy was refused, the screen shows the picture.
ShownWhenWritten ==
  ~writing => /\ ~Damaged(damage)
              /\ lost = {} => video = buf
=============================================================================
