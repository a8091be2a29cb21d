-------------------------- MODULE FramebufferProofs --------------------------
(***************************************************************************)
(* Proofs about Framebuffer, for consoles and glyphs of every size and     *)
(* every set of texts: the damaged rectangle is empty or lies in the       *)
(* picture, and it covers whatever the screen does not show yet.  And      *)
(* about a session on it, Console: what is written appears as on a         *)
(* Terminal, and the last row shows the line that is edited.               *)
(***************************************************************************)
EXTENDS Console, TLAPS

Grid == [Cells -> Glyphs \cup {Blank}]

\* A rectangle that is not empty and lies in the picture.
Inside(d) ==
  /\ d \in [left : Int, up : Int, right : Int, down : Int]
  /\ 0 <= d.left /\ d.left <= d.right /\ d.right < Width
  /\ 0 <= d.up /\ d.up <= d.down /\ d.down < Height

PictureOK == buf \in Grid /\ video \in Grid /\ lost \subseteq Cells
CursorOK == cursorX \in 0 .. CONSOLE_WIDTH
DamageOK == damage = NoDamage \/ Inside(damage)
CleanBetween == writing \in BOOLEAN /\ (~writing => damage = NoDamage)

ScreenInv == PictureOK /\ CursorOK /\ DamageOK /\ CleanBetween /\ VideoFollows

-----------------------------------------------------------------------------
(* Arithmetic of cells and pixels.                                         *)

LEMMA Scaled ==
  ASSUME NEW a \in Int, NEW b \in Int, NEW g \in Nat, a <= b
  PROVE  a * g <= b * g
<1>1. (b - a) * g >= 0
  OBVIOUS
<1> QED BY <1>1

LEMMA MinOfTwo ==
  ASSUME NEW a \in Int, NEW b \in Int
  PROVE  Min({a, b}) = IF a <= b THEN a ELSE b
BY DEF Min

LEMMA MaxOfTwo ==
  ASSUME NEW a \in Int, NEW b \in Int
  PROVE  Max({a, b}) = IF a <= b THEN b ELSE a
BY DEF Max

\* The pixels of a cell lie in the picture.
LEMMA CellInPicture ==
  ASSUME NEW c \in Columns, NEW r \in Rows
  PROVE  /\ c * GLYPH_WIDTH \in Nat /\ r * GLYPH_HEIGHT \in Nat
         /\ (c + 1) * GLYPH_WIDTH = c * GLYPH_WIDTH + GLYPH_WIDTH
         /\ (r + 1) * GLYPH_HEIGHT = r * GLYPH_HEIGHT + GLYPH_HEIGHT
         /\ c * GLYPH_WIDTH + GLYPH_WIDTH <= Width
         /\ r * GLYPH_HEIGHT + GLYPH_HEIGHT <= Height
         /\ Width \in Nat /\ Height \in Nat
<1>1. /\ GLYPH_WIDTH \in Nat /\ GLYPH_HEIGHT \in Nat
      /\ CONSOLE_WIDTH \in Nat /\ CONSOLE_HEIGHT \in Nat
      /\ c \in Nat /\ r \in Nat /\ c + 1 <= CONSOLE_WIDTH /\ r + 1 <= CONSOLE_HEIGHT
  BY ConsoleAssumption DEF Columns, Rows
<1>2. /\ (c + 1) * GLYPH_WIDTH <= CONSOLE_WIDTH * GLYPH_WIDTH
      /\ (r + 1) * GLYPH_HEIGHT <= CONSOLE_HEIGHT * GLYPH_HEIGHT
  BY <1>1, Scaled
<1>3. /\ (c + 1) * GLYPH_WIDTH = c * GLYPH_WIDTH + GLYPH_WIDTH
      /\ (r + 1) * GLYPH_HEIGHT = r * GLYPH_HEIGHT + GLYPH_HEIGHT
  BY <1>1
<1>4. c * GLYPH_WIDTH \in Nat /\ r * GLYPH_HEIGHT \in Nat
  BY <1>1
<1> QED BY <1>1, <1>2, <1>3, <1>4 DEF Width, Height

LEMMA Sizes ==
  /\ GLYPH_WIDTH \in Nat \ {0} /\ GLYPH_HEIGHT \in Nat \ {0}
  /\ CONSOLE_WIDTH \in Nat \ {0} /\ CONSOLE_HEIGHT \in Nat \ {0}
  /\ LastRow \in Rows
  /\ 0 \in Columns
  /\ Width \in Nat \ {0} /\ Height \in Nat \ {0}
<1>1. /\ GLYPH_WIDTH \in Nat \ {0} /\ GLYPH_HEIGHT \in Nat \ {0}
      /\ CONSOLE_WIDTH \in Nat \ {0} /\ CONSOLE_HEIGHT \in Nat \ {0}
  BY ConsoleAssumption
<1>2. LastRow \in Rows /\ 0 \in Columns
  BY <1>1 DEF LastRow, Rows, Columns
<1>3. Width \in Nat \ {0} /\ Height \in Nat \ {0}
  <2>1. /\ 0 * GLYPH_WIDTH + GLYPH_WIDTH <= Width
        /\ LastRow * GLYPH_HEIGHT + GLYPH_HEIGHT <= Height
        /\ LastRow * GLYPH_HEIGHT \in Nat /\ Width \in Nat /\ Height \in Nat
    BY <1>2, CellInPicture
  <2> QED BY <1>1, <2>1
<1> QED BY <1>1, <1>2, <1>3

\* The whole screen is a rectangle inside the picture, and copies every cell.
LEMMA WholeScreenCopied == Inside(WholeScreen) /\ Copied(WholeScreen) = Cells
<1>1. Inside(WholeScreen)
  BY Sizes DEF Inside, WholeScreen
<1>2. ASSUME NEW cell \in Cells PROVE cell \in Copied(WholeScreen)
  <2>1. cell[1] \in Columns /\ cell[2] \in Rows
    BY DEF Cells
  <2>2. /\ 0 <= cell[1] * GLYPH_WIDTH /\ (cell[1] + 1) * GLYPH_WIDTH - 1 <= Width - 1
        /\ 0 <= cell[2] * GLYPH_HEIGHT /\ (cell[2] + 1) * GLYPH_HEIGHT - 1 <= Height - 1
    <3>1. /\ cell[1] * GLYPH_WIDTH \in Nat /\ cell[2] * GLYPH_HEIGHT \in Nat
          /\ (cell[1] + 1) * GLYPH_WIDTH = cell[1] * GLYPH_WIDTH + GLYPH_WIDTH
          /\ (cell[2] + 1) * GLYPH_HEIGHT = cell[2] * GLYPH_HEIGHT + GLYPH_HEIGHT
          /\ cell[1] * GLYPH_WIDTH + GLYPH_WIDTH <= Width
          /\ cell[2] * GLYPH_HEIGHT + GLYPH_HEIGHT <= Height
      BY <2>1, CellInPicture
    <3> QED BY <3>1, Sizes
  <2> QED BY <2>2 DEF Copied, WholeScreen
<1> QED BY <1>1, <1>2 DEF Copied

LEMMA NothingCopied == Copied(NoDamage) = {}
<1>1. ASSUME NEW cell \in Cells PROVE cell \notin Copied(NoDamage)
  <2>1. cell[1] \in Columns /\ cell[2] \in Rows
    BY DEF Cells
  <2>2. /\ cell[1] * GLYPH_WIDTH \in Nat
        /\ cell[1] * GLYPH_WIDTH + GLYPH_WIDTH <= Width
    BY <2>1, CellInPicture
  <2>3. ~(Width <= cell[1] * GLYPH_WIDTH)
    BY <2>2, Sizes
  <2> QED BY <2>3 DEF Copied, NoDamage
<1> QED BY <1>1 DEF Copied

\* Drawing in a column of the last row extends the rectangle by that cell.
LEMMA ExtendedByCell ==
  ASSUME NEW d, d = NoDamage \/ Inside(d), NEW c \in Columns
  PROVE  LET e == Extended(d, c * GLYPH_WIDTH, LastRow * GLYPH_HEIGHT,
                           GLYPH_WIDTH, GLYPH_HEIGHT)
         IN  Inside(e) /\ Copied(d) \cup {<<c, LastRow>>} \subseteq Copied(e)
<1> DEFINE x == c * GLYPH_WIDTH
           y == LastRow * GLYPH_HEIGHT
           e == Extended(d, x, y, GLYPH_WIDTH, GLYPH_HEIGHT)
<1>1. /\ x \in Nat /\ y \in Nat /\ Width \in Nat \ {0} /\ Height \in Nat \ {0}
      /\ GLYPH_WIDTH \in Nat \ {0} /\ GLYPH_HEIGHT \in Nat \ {0}
      /\ x + GLYPH_WIDTH <= Width /\ y + GLYPH_HEIGHT <= Height
      /\ (c + 1) * GLYPH_WIDTH = x + GLYPH_WIDTH
      /\ (LastRow + 1) * GLYPH_HEIGHT = y + GLYPH_HEIGHT
  BY CellInPicture, Sizes
<1>2. /\ d.left \in Int /\ d.up \in Int /\ d.right \in Int /\ d.down \in Int
      /\ 0 <= d.left /\ 0 <= d.up /\ d.right < Width /\ d.down < Height
  BY <1>1 DEF NoDamage, Inside
<1> HIDE DEF x, y
<1>3. /\ e.left = IF d.left <= x THEN d.left ELSE x
      /\ e.up = IF d.up <= y THEN d.up ELSE y
      /\ e.right = IF d.right <= x + GLYPH_WIDTH - 1 THEN x + GLYPH_WIDTH - 1 ELSE d.right
      /\ e.down = IF d.down <= y + GLYPH_HEIGHT - 1 THEN y + GLYPH_HEIGHT - 1 ELSE d.down
      /\ e = [left |-> e.left, up |-> e.up, right |-> e.right, down |-> e.down]
  BY <1>1, <1>2, MinOfTwo, MaxOfTwo DEF Extended
<1> HIDE DEF e
<1>4. /\ e.left \in Int /\ e.up \in Int /\ e.right \in Int /\ e.down \in Int
      /\ e.left <= d.left /\ e.up <= d.up /\ d.right <= e.right /\ d.down <= e.down
      /\ e.left <= x /\ e.up <= y
      /\ x + GLYPH_WIDTH - 1 <= e.right /\ y + GLYPH_HEIGHT - 1 <= e.down
      /\ 0 <= e.left /\ 0 <= e.up /\ e.right < Width /\ e.down < Height
  BY <1>1, <1>2, <1>3
<1>5. Inside(e)
  <2>1. e \in [left : Int, up : Int, right : Int, down : Int]
    BY <1>3, <1>4
  <2>2. e.left <= e.right /\ e.up <= e.down
    BY <1>1, <1>4
  <2> QED BY <2>1, <2>2, <1>4 DEF Inside
<1>6. ASSUME NEW cell \in Copied(d) PROVE cell \in Copied(e)
  <2>1. cell \in Cells /\ cell[1] \in Columns /\ cell[2] \in Rows
    BY DEF Copied, Cells
  <2>2. /\ cell[1] * GLYPH_WIDTH \in Int /\ (cell[1] + 1) * GLYPH_WIDTH \in Int
        /\ cell[2] * GLYPH_HEIGHT \in Int /\ (cell[2] + 1) * GLYPH_HEIGHT \in Int
    <3>1. /\ cell[1] * GLYPH_WIDTH \in Nat /\ cell[2] * GLYPH_HEIGHT \in Nat
          /\ (cell[1] + 1) * GLYPH_WIDTH = cell[1] * GLYPH_WIDTH + GLYPH_WIDTH
          /\ (cell[2] + 1) * GLYPH_HEIGHT = cell[2] * GLYPH_HEIGHT + GLYPH_HEIGHT
      BY <2>1, CellInPicture
    <3> QED BY <3>1, Sizes
  <2> QED BY <2>1, <2>2, <1>2, <1>4 DEF Copied
<1>7. <<c, LastRow>> \in Copied(e)
  <2>1. <<c, LastRow>> \in Cells
    BY Sizes DEF Cells
  <2> QED BY <2>1, <1>1, <1>4 DEF Copied, x, y
<1> QED BY <1>5, <1>6, <1>7 DEF e, x, y

-----------------------------------------------------------------------------
(* The steps.                                                              *)

LEMMA ScrolledIsGrid == ASSUME NEW grid \in Grid PROVE Scrolled(grid) \in Grid
<1>1. ASSUME NEW cell \in Cells, cell[2] # LastRow
      PROVE  <<cell[1], cell[2] + 1>> \in Cells
  <2>1. cell[1] \in Columns /\ cell[2] \in Rows
    BY DEF Cells
  <2>2. cell[2] + 1 \in Rows
    BY <1>1, <2>1, Sizes DEF Rows, LastRow
  <2> QED BY <2>1, <2>2 DEF Cells
<1> QED BY <1>1 DEF Scrolled, Grid

\* A character is drawn in a column: what the screen does not show of it is in the
\* extended rectangle.
LEMMA DrawnInColumn ==
  ASSUME ScreenInv, NEW c \in Columns, NEW g \in Glyphs \cup {Blank},
         buf' = [buf EXCEPT ![<<c, LastRow>>] = g],
         damage' = Extended(damage, c * GLYPH_WIDTH, LastRow * GLYPH_HEIGHT,
                            GLYPH_WIDTH, GLYPH_HEIGHT),
         UNCHANGED <<video, lost>>
  PROVE  PictureOK' /\ DamageOK' /\ VideoFollows'
<1>1. Inside(damage') /\ Copied(damage) \cup {<<c, LastRow>>} \subseteq Copied(damage')
  BY ExtendedByCell DEF ScreenInv, DamageOK
<1>2. PictureOK'
  BY DEF ScreenInv, PictureOK, Grid
<1>3. ASSUME NEW cell \in Cells, video'[cell] # buf'[cell]
      PROVE  cell \in Copied(damage') \cup lost'
  <2>1. CASE cell = <<c, LastRow>>
    BY <2>1, <1>1
  <2>2. CASE cell # <<c, LastRow>>
    <3>1. buf'[cell] = buf[cell] /\ video'[cell] = video[cell]
      BY <2>2 DEF ScreenInv, PictureOK, Grid
    <3> QED BY <3>1, <1>1, <1>3 DEF ScreenInv, VideoFollows
  <2> QED BY <2>1, <2>2
<1> QED BY <1>1, <1>2, <1>3 DEF DamageOK, VideoFollows

LEMMA DrawCharKeeps == ASSUME ScreenInv, DrawChar PROVE ScreenInv'
<1>1. writing /\ writing' = writing /\ video' = video /\ lost' = lost
  BY DEF DrawChar
<1>2. CleanBetween'
  BY <1>1 DEF ScreenInv, CleanBetween
<1>3. CASE CarriageReturn \/ StayAtEdge
  <2>1. cursorX' \in {0, cursorX} /\ buf' = buf /\ damage' = damage
    BY <1>3 DEF CarriageReturn, StayAtEdge
  <2>2. CursorOK'
    BY <2>1, Sizes DEF ScreenInv, CursorOK
  <2> QED BY <1>1, <1>2, <2>1, <2>2
          DEF ScreenInv, PictureOK, DamageOK, VideoFollows
<1>4. CASE ScrollUp
  <2>1. buf' = Scrolled(buf) /\ damage' = WholeScreen /\ cursorX' = cursorX
    BY <1>4 DEF ScrollUp
  <2>2. PictureOK'
    BY <1>1, <2>1, ScrolledIsGrid DEF ScreenInv, PictureOK
  <2> QED BY <1>1, <1>2, <2>1, <2>2, WholeScreenCopied
          DEF ScreenInv, CursorOK, DamageOK, VideoFollows
<1>5. CASE Wipe
  <2>1. cursorX' = cursorX - 1 /\ cursorX' \in Columns /\ CursorOK'
    BY <1>5, Sizes DEF Wipe, ScreenInv, CursorOK, Columns
  <2>2. PictureOK' /\ DamageOK' /\ VideoFollows'
    BY <1>1, <1>5, <2>1, DrawnInColumn DEF Wipe
  <2> QED BY <1>2, <2>1, <2>2 DEF ScreenInv
<1>6. CASE Draw /\ ~RowIsFull
  <2>1. cursorX \in Columns /\ cursorX' = cursorX + 1 /\ CursorOK'
    BY <1>6, Sizes DEF Draw, RowIsFull, ScreenInv, CursorOK, Columns
  <2>2. Glyph(Head(text)) \in Glyphs \cup {Blank}
    BY DEF Glyph
  <2>3. PictureOK' /\ DamageOK' /\ VideoFollows'
    BY <1>1, <1>6, <2>1, <2>2, DrawnInColumn DEF Draw
  <2> QED BY <1>2, <2>1, <2>3 DEF ScreenInv
<1>7. CASE Draw /\ RowIsFull
  <2>1. /\ cursorX' = 1
        /\ buf' = [Scrolled(buf) EXCEPT ![<<0, LastRow>>] = Glyph(Head(text))]
        /\ damage' = Extended(WholeScreen, 0 * GLYPH_WIDTH, LastRow * GLYPH_HEIGHT,
                              GLYPH_WIDTH, GLYPH_HEIGHT)
    BY <1>7 DEF Draw
  <2>2. Inside(damage') /\ Copied(damage') = Cells
    <3>1. Inside(damage') /\ Copied(WholeScreen) \subseteq Copied(damage')
      BY <2>1, Sizes, WholeScreenCopied, ExtendedByCell
    <3> QED BY <3>1, WholeScreenCopied DEF Copied
  <2>3. PictureOK'
    BY <1>1, <2>1, ScrolledIsGrid DEF ScreenInv, PictureOK, Grid, Glyph
  <2>4. CursorOK'
    BY <2>1, Sizes DEF CursorOK
  <2> QED BY <1>2, <2>2, <2>3, <2>4 DEF ScreenInv, DamageOK, VideoFollows
<1> QED BY <1>3, <1>4, <1>5, <1>6, <1>7 DEF DrawChar

\* A copy is the whole rectangle, so none of it is stale once it is made, and all of
\* it is lost when it is refused.
LEMMA BlitBufferKeeps == ASSUME ScreenInv, BlitBuffer PROVE ScreenInv'
<1>1. writing' = FALSE /\ buf' = buf /\ cursorX' = cursorX
  BY DEF BlitBuffer
<1>2. CASE ~Damaged(damage)
  <2>1. damage = NoDamage
    <3>1. ~Inside(damage)
      BY <1>2, Sizes DEF Damaged, Inside
    <3> QED BY <3>1 DEF ScreenInv, DamageOK
  <2>2. video' = video /\ lost' = lost /\ damage' = damage
    BY <1>2 DEF BlitBuffer
  <2> QED BY <1>1, <2>1, <2>2
          DEF ScreenInv, PictureOK, CursorOK, DamageOK, CleanBetween, VideoFollows
<1>3. CASE Damaged(damage)
  <2>1. damage' = NoDamage
    BY <1>3 DEF BlitBuffer, DamageAfterBlit
  <2>2. Copied(damage) \subseteq Cells
    BY DEF Copied
  <2>3. CASE video' = Shown(Copied(damage)) /\ lost' = lost \ Copied(damage)
    <3>1. PictureOK'
      BY <1>1, <2>2, <2>3 DEF ScreenInv, PictureOK, Grid, Shown
    <3>2. VideoFollows'
      BY <1>1, <2>3 DEF ScreenInv, VideoFollows, Shown
    <3> QED BY <1>1, <2>1, <3>1, <3>2 DEF ScreenInv, CursorOK, DamageOK, CleanBetween
  <2>4. CASE lost' = lost \cup Copied(damage) /\ video' = video
    <3>1. PictureOK'
      BY <1>1, <2>2, <2>4 DEF ScreenInv, PictureOK
    <3>2. VideoFollows'
      BY <1>1, <2>4 DEF ScreenInv, VideoFollows
    <3> QED BY <1>1, <2>1, <3>1, <3>2 DEF ScreenInv, CursorOK, DamageOK, CleanBetween
  <2> QED BY <1>3, <2>3, <2>4 DEF BlitBuffer
<1> QED BY <1>2, <1>3

LEMMA InitHolds == Init => ScreenInv
<1> SUFFICES ASSUME Init PROVE ScreenInv
  OBVIOUS
<1>1. Empty \in Grid
  BY DEF Empty, Grid
<1>2. PictureOK /\ VideoFollows
  BY <1>1 DEF Init, PictureOK, VideoFollows
<1>3. CursorOK
  BY Sizes DEF Init, CursorOK
<1> QED BY <1>2, <1>3 DEF Init, ScreenInv, DamageOK, CleanBetween

LEMMA StepKeeps == ScreenInv /\ [Next]_vars => ScreenInv'
<1> SUFFICES ASSUME ScreenInv, [Next]_vars PROVE ScreenInv'
  OBVIOUS
<1>1. CASE Puts
  <2>1. writing' = TRUE /\ UNCHANGED <<buf, cursorX, damage, video, lost>>
    BY <1>1 DEF Puts, Write
  <2> QED BY <2>1 DEF ScreenInv, PictureOK, CursorOK, DamageOK, CleanBetween, VideoFollows
<1>2. CASE DrawChar
  BY <1>2, DrawCharKeeps
<1>3. CASE BlitBuffer
  BY <1>3, BlitBufferKeeps
<1>4. CASE UNCHANGED vars
  BY <1>4 DEF vars, ScreenInv, PictureOK, CursorOK, DamageOK, CleanBetween, VideoFollows
<1> QED BY <1>1, <1>2, <1>3, <1>4 DEF Next

-----------------------------------------------------------------------------
\* On a console of any size, whatever is printed and whichever copies are refused,
\* the cursor, the picture and the damaged rectangle stay in step.
THEOREM ScreenInvariant == Spec => []ScreenInv
BY InitHolds, StepKeeps, PTL DEF Spec

\* blt() is only ever given a rectangle that is not empty and lies in the picture:
\* blit_buffer() copies nothing from behind the buffer.
THEOREM BlitStaysInside == Spec => []BlitInside
<1>1. ScreenInv => BlitInside
  <2> SUFFICES ASSUME ScreenInv, Damaged(damage) PROVE Inside(damage)
    BY DEF BlitInside, Inside
  <2>1. damage # NoDamage
    BY Sizes DEF Damaged, NoDamage
  <2> QED BY <2>1 DEF ScreenInv, DamageOK
<1> QED BY <1>1, ScreenInvariant, PTL

\* One rectangle per string is enough: the screen is stale only where something has
\* been drawn since the last copy, or where a copy was refused.
THEOREM VideoIsFollowed == Spec => []VideoFollows
<1>1. ScreenInv => VideoFollows
  BY DEF ScreenInv
<1> QED BY <1>1, ScreenInvariant, PTL

\* When a string has been written and no copy of it was refused, the screen shows
\* the picture in memory.
THEOREM WrittenIsShown == Spec => []ShownWhenWritten
<1>1. ScreenInv => ShownWhenWritten
  <2> SUFFICES ASSUME ScreenInv, ~writing
               PROVE  ~Damaged(damage) /\ (lost = {} => video = buf)
    BY DEF ShownWhenWritten
  <2>1. damage = NoDamage
    BY DEF ScreenInv, CleanBetween
  <2>2. ~Damaged(damage)
    BY <2>1, Sizes DEF Damaged, NoDamage
  <2>3. ASSUME lost = {} PROVE video = buf
    <3>1. \A cell \in Cells : video[cell] = buf[cell]
      BY <2>1, <2>3, NothingCopied DEF ScreenInv, VideoFollows
    <3> QED BY <3>1 DEF ScreenInv, PictureOK, Grid
  <2> QED BY <2>2, <2>3
<1> QED BY <1>1, ScreenInvariant, PTL
-----------------------------------------------------------------------------
(***************************************************************************)
(* What a string makes of a terminal.                                      *)
(***************************************************************************)
Put(state, c) == Promised!Put(state, c)

Typing == INSTANCE Folding WITH Op <- Put
Converting == INSTANCE Folding WITH Op <- Convert

\* A string on a terminal in a state.
Typed(state, s) == Typing!Fold(state, s)

LEMMA TypingFolds ==
  \A base, s : Typed(base, s) = Promised!FoldLeft(Promised!Put, base, s)
BY DEF Typed, Put, Typing!Fold, Typing!FoldLeft, Typing!MapThenFoldSet, Typing!Max,
       Promised!FoldLeft, Promised!MapThenFoldSet, Promised!Max

LEMMA ConvertingFolds == \A base, s : Converting!Fold(base, s) = FoldLeft(Convert, base, s)
BY DEF Converting!Fold, FoldLeft, Converting!FoldLeft, MapThenFoldSet,
       Converting!MapThenFoldSet, Max, Converting!Max

\* A carriage return before a line feed is of no consequence on a terminal, where a
\* line feed is one, too.
LEMMA ReturnThenFeed == \A state : Put(Put(state, "cr"), "lf") = Put(state, "lf")
<1> SUFFICES ASSUME NEW state PROVE Put(Put(state, "cr"), "lf") = Put(state, "lf")
  OBVIOUS
<1>1. Put(state, "cr") = <<state[1], 0>>
  BY DEF Put, Promised!Put
<1>2. Put(state, "lf") = <<Promised!ScrolledUp(state[1]), 0>>
  BY DEF Put, Promised!Put
<1>3. Put(<<state[1], 0>>, "lf") = <<Promised!ScrolledUp(state[1]), 0>>
  BY DEF Put, Promised!Put
<1> QED BY <1>1, <1>2, <1>3

\* So what puts_internal() makes of a string shows as the string does.
LEMMA ConvertedShowsTheSame ==
  ASSUME NEW s \in Seq(Chars), NEW state
  PROVE  /\ LineEndsConverted(s) \in Seq(Chars)
         /\ Typed(state, LineEndsConverted(s)) = Typed(state, s)
<1> DEFINE n == Len(s)
<1>1. n \in Nat /\ "cr" \in Chars /\ "lf" \in Chars /\ << >> \in Seq(Chars)
  BY DEF Chars, Controls
<1>2. PICK h : Converting!Steps(h, << >>, s) /\ LineEndsConverted(s) = h[n]
  BY Converting!FoldSteps, ConvertingFolds DEF LineEndsConverted
<1>3. PICK g : Typing!Steps(g, state, s) /\ Typed(state, s) = g[n]
  BY Typing!FoldSteps DEF Typed
<1> DEFINE T == {k \in 0 .. n : h[k] \in Seq(Chars) /\ Typed(state, h[k]) = g[k]}
<1>4. 0 \in T
  <2>1. h[0] = << >> /\ g[0] = state
    BY <1>2, <1>3 DEF Converting!Steps, Typing!Steps
  <2>2. Typed(state, << >>) = state
    BY Typing!FoldEmpty DEF Typed
  <2>3. 0 \in 0 .. n /\ h[0] \in Seq(Chars) /\ Typed(state, h[0]) = g[0]
    BY <1>1, <2>1, <2>2
  <2> QED BY <2>3
<1>5. ASSUME NEW k \in 0 .. n - 1, k \in T PROVE k + 1 \in T
  <2>1. k + 1 \in 1 .. n /\ (k + 1) - 1 = k /\ k + 1 \in 0 .. n
    BY <1>1
  <2> DEFINE c == s[k + 1]
             t == h[k]
  <2>2. c \in Chars /\ t \in Seq(Chars) /\ Typed(state, t) = g[k]
    BY <1>5, <2>1
  <2>3. h[k + 1] = Convert(t, c) /\ g[k + 1] = Put(g[k], c)
    BY <1>2, <1>3, <2>1 DEF Converting!Steps, Typing!Steps
  <2> HIDE DEF c, t
  <2>4. Typed(state, Append(t, c)) = Put(g[k], c) /\ Append(t, c) \in Seq(Chars)
    BY <2>2, Typing!FoldAppend DEF Typed
  <2>5. CASE c = "lf"
    <3>1. Append(t, "cr") \in Seq(Chars) /\ Append(Append(t, "cr"), "lf") \in Seq(Chars)
          /\ t \o <<"cr", "lf">> = Append(Append(t, "cr"), "lf")
      BY <1>1, <2>2
    <3>2. Typed(state, Append(t, "cr")) = Put(g[k], "cr")
      BY <1>1, <2>2, Typing!FoldAppend DEF Typed
    <3>3. Typed(state, Append(Append(t, "cr"), "lf")) = Put(Put(g[k], "cr"), "lf")
      BY <1>1, <3>1, <3>2, Typing!FoldAppend DEF Typed
    <3>4. h[k + 1] = Append(Append(t, "cr"), "lf")
      BY <2>3, <2>5, <3>1 DEF Convert
    <3> QED BY <2>1, <2>3, <2>5, <3>1, <3>3, <3>4, ReturnThenFeed
  <2>6. CASE c # "lf"
    <3>1. t \o <<c>> = Append(t, c)
      BY <2>2
    <3>2. h[k + 1] = Append(t, c)
      BY <2>3, <2>6, <3>1 DEF Convert
    <3> QED BY <2>1, <2>3, <2>4, <3>2
  <2> QED BY <2>5, <2>6
<1> HIDE DEF T
<1>6. \A k \in 0 .. n : k \in T
  BY <1>1, <1>4, <1>5, Typing!BoundedInduction
<1>7. n \in T
  BY <1>1, <1>6
<1> QED BY <1>2, <1>3, <1>7 DEF T

\* And a carriage return goes before each of its line feeds.
ReturnsBefore(t) == \A i \in 1 .. Len(t) : t[i] = "lf" => i > 1 /\ t[i - 1] = "cr"

LEMMA ConvertedHasReturns ==
  ASSUME NEW s \in Seq(Chars) PROVE ReturnsBefore(LineEndsConverted(s))
<1> DEFINE T == {t \in Seq(Chars) : ReturnsBefore(t)}
<1>1. "cr" \in Chars /\ "lf" \in Chars /\ << >> \in T
  BY DEF Chars, Controls, ReturnsBefore
<1>2. ASSUME NEW t \in T, NEW c \in Chars PROVE Convert(t, c) \in T
  <2>1. t \in Seq(Chars) /\ Len(t) \in Nat
    OBVIOUS
  <2>2. CASE c = "lf"
    <3> DEFINE u == t \o <<"cr", "lf">>
    <3>1. u \in Seq(Chars) /\ Len(u) = Len(t) + 2 /\ u[Len(t) + 1] = "cr"
          /\ \A i \in 1 .. Len(t) : u[i] = t[i]
      BY <1>1, <2>1
    <3>2. Convert(t, c) = u
      BY <2>2 DEF Convert
    <3> HIDE DEF u
    <3>3. ASSUME NEW i \in 1 .. Len(u), u[i] = "lf" PROVE i > 1 /\ u[i - 1] = "cr"
      <4>1. CASE i \in 1 .. Len(t)
        <5>1. t[i] = "lf" /\ i > 1 /\ t[i - 1] = "cr"
          BY <3>1, <3>3, <4>1 DEF ReturnsBefore
        <5>2. i - 1 \in 1 .. Len(t)
          BY <2>1, <4>1, <5>1
        <5> QED BY <3>1, <5>1, <5>2
      <4>2. CASE i = Len(t) + 1
        BY <3>1, <3>3, <4>2
      <4>3. CASE i = Len(t) + 2
        <5>1. i - 1 = Len(t) + 1 /\ i > 1
          BY <2>1, <4>3
        <5> QED BY <3>1, <5>1
      <4>4. i \in 1 .. Len(t) + 2
        BY <3>1
      <4>5. i \in 1 .. Len(t) \/ i = Len(t) + 1 \/ i = Len(t) + 2
        BY <2>1, <4>4
      <4> QED BY <4>1, <4>2, <4>3, <4>5
    <3> QED BY <3>1, <3>2, <3>3 DEF ReturnsBefore
  <2>3. CASE c # "lf"
    <3> DEFINE u == t \o <<c>>
    <3>1. u \in Seq(Chars) /\ Len(u) = Len(t) + 1 /\ u[Len(t) + 1] = c
          /\ \A i \in 1 .. Len(t) : u[i] = t[i]
      BY <2>1
    <3>2. Convert(t, c) = u
      BY <2>3 DEF Convert
    <3> HIDE DEF u
    <3>3. ASSUME NEW i \in 1 .. Len(u), u[i] = "lf" PROVE i > 1 /\ u[i - 1] = "cr"
      <4>1. i \in 1 .. Len(t)
        BY <2>1, <2>3, <3>1, <3>3
      <4>2. t[i] = "lf" /\ i > 1 /\ t[i - 1] = "cr"
        BY <3>1, <3>3, <4>1 DEF ReturnsBefore
      <4>3. i - 1 \in 1 .. Len(t)
        BY <2>1, <4>1, <4>2
      <4> QED BY <3>1, <4>2, <4>3
    <3> QED BY <3>1, <3>2, <3>3 DEF ReturnsBefore
  <2> QED BY <2>2, <2>3
<1> HIDE DEF T
<1>3. LineEndsConverted(s) \in T
  BY <1>1, <1>2, Converting!FoldKeeps, ConvertingFolds DEF LineEndsConverted
<1> QED BY <1>3 DEF T

\* One character of a string at a time.
LEMMA TypedHeadFirst ==
  ASSUME NEW s \in Seq(Chars), s # << >>, NEW state
  PROVE  Typed(state, s) = Typed(Put(state, Head(s)), Tail(s))
<1>1. s = <<Head(s)>> \o Tail(s) /\ Head(s) \in Chars /\ Tail(s) \in Seq(Chars)
  OBVIOUS
<1>2. Typed(state, <<Head(s)>> \o Tail(s)) = Typed(Put(state, Head(s)), Tail(s))
  BY <1>1, Typing!FoldCons DEF Typed
<1> QED BY <1>1, <1>2

-----------------------------------------------------------------------------
(***************************************************************************)
(* A picture as a terminal's rows, and drawing as typing.                  *)
(***************************************************************************)
Pic(grid) ==
  [i \in 1 .. CONSOLE_HEIGHT |-> [j \in 1 .. CONSOLE_WIDTH |-> grid[<<j - 1, i - 1>>]]]

LEMMA CellOfRow ==
  ASSUME NEW i \in 1 .. CONSOLE_HEIGHT, NEW j \in 1 .. CONSOLE_WIDTH
  PROVE  <<j - 1, i - 1>> \in Cells /\ (i - 1 = LastRow <=> i = CONSOLE_HEIGHT)
<1>1. CONSOLE_WIDTH \in Nat \ {0} /\ CONSOLE_HEIGHT \in Nat \ {0}
  BY Sizes
<1>2. j - 1 \in Columns /\ i - 1 \in Rows
  BY <1>1 DEF Columns, Rows
<1>3. i - 1 = LastRow <=> i = CONSOLE_HEIGHT
  BY <1>1 DEF LastRow
<1> QED BY <1>2, <1>3 DEF Cells

LEMMA PicScrolled ==
  ASSUME NEW grid PROVE Pic(Scrolled(grid)) = Promised!ScrolledUp(Pic(grid))
<1> DEFINE a == Pic(Scrolled(grid))
           b == Pic(grid)
           blank == Promised!BlankRow
           c == Append(Tail(b), blank)
           H == CONSOLE_HEIGHT
           W == CONSOLE_WIDTH
<1>1. W \in Nat \ {0} /\ H \in Nat \ {0}
  BY Sizes
<1>2. b = [i \in 1 .. H |-> b[i]] /\ a = [i \in 1 .. H |-> a[i]]
  BY DEF Pic
<1>3. blank = [j \in 1 .. W |-> Blank]
  BY DEF Promised!BlankRow, Promised!Space, Blank
<1>4. ASSUME NEW i \in 1 .. H PROVE a[i] = IF i = H THEN blank ELSE b[i + 1]
  <2>1. a[i] = [j \in 1 .. W |-> Scrolled(grid)[<<j - 1, i - 1>>]]
    BY DEF Pic
  <2>2. CASE i = H
    <3>1. ASSUME NEW j \in 1 .. W PROVE Scrolled(grid)[<<j - 1, i - 1>>] = Blank
      <4>1. <<j - 1, i - 1>> \in Cells /\ i - 1 = LastRow
        BY <2>2, CellOfRow
      <4> QED BY <4>1 DEF Scrolled
    <3> HIDE DEF blank
    <3> QED BY <1>3, <2>1, <2>2, <3>1
  <2>3. CASE i # H
    <3>1. i + 1 \in 1 .. H /\ (i + 1) - 1 = (i - 1) + 1
      BY <1>1, <2>3
    <3>2. b[i + 1] = [j \in 1 .. W |-> grid[<<j - 1, (i + 1) - 1>>]]
      BY <3>1 DEF Pic
    <3>3. ASSUME NEW j \in 1 .. W
          PROVE  Scrolled(grid)[<<j - 1, i - 1>>] = grid[<<j - 1, (i + 1) - 1>>]
      <4>1. <<j - 1, i - 1>> \in Cells /\ i - 1 # LastRow
        BY <2>3, CellOfRow
      <4> QED BY <3>1, <4>1 DEF Scrolled
    <3> QED BY <2>1, <2>3, <3>2, <3>3
  <2> QED BY <2>2, <2>3
<1> DEFINE S == {b[i] : i \in 1 .. H} \cup {blank}
<1>5. b \in Seq(S) /\ Len(b) = H
  <2> HIDE DEF b
  <2> QED BY <1>1, <1>2
<1> HIDE DEF a, b, blank, S
<1>6. Tail(b) \in Seq(S) /\ Len(Tail(b)) = H - 1 /\ \A i \in 1 .. H - 1 : Tail(b)[i] = b[i + 1]
  BY <1>1, <1>5
<1>7. blank \in S
  BY DEF S
<1>8. c \in Seq(S) /\ Len(c) = H /\ \A i \in 1 .. H - 1 : c[i] = b[i + 1]
  <2> DEFINE t == Tail(b)
  <2>1. t \in Seq(S) /\ Len(t) = H - 1 /\ \A i \in 1 .. H - 1 : t[i] = b[i + 1]
    BY <1>6
  <2> HIDE DEF t
  <2>2. Append(t, blank) \in Seq(S) /\ Len(Append(t, blank)) = H
        /\ \A i \in 1 .. H - 1 : Append(t, blank)[i] = t[i]
    BY <1>1, <1>7, <2>1
  <2> QED BY <2>1, <2>2 DEF t
<1>9. c[H] = blank
  BY <1>1, <1>6, <1>7
<1> HIDE DEF c
<1>10. \A i \in 1 .. H : a[i] = c[i]
  BY <1>1, <1>4, <1>8, <1>9
<1>11. c = [i \in 1 .. H |-> c[i]]
  BY <1>8
<1>12. a = c
  BY <1>2, <1>10, <1>11
<1> QED BY <1>12 DEF a, b, c, blank, Promised!ScrolledUp

LEMMA PicWithChar ==
  ASSUME NEW grid \in Grid, NEW c \in Columns, NEW g
  PROVE  Pic([grid EXCEPT ![<<c, LastRow>>] = g]) = Promised!WithChar(Pic(grid), c, g)
<1> DEFINE new == [grid EXCEPT ![<<c, LastRow>>] = g]
           p == Pic(grid)
           H == CONSOLE_HEIGHT
           W == CONSOLE_WIDTH
<1>1. W \in Nat \ {0} /\ H \in Nat \ {0} /\ H \in 1 .. H /\ DOMAIN grid = Cells /\ c \in Int
  BY Sizes DEF Grid, Columns
<1>2. ASSUME NEW i \in 1 .. H, NEW j \in 1 .. W
      PROVE  new[<<j - 1, i - 1>>] = IF i = H /\ j = c + 1 THEN g ELSE grid[<<j - 1, i - 1>>]
  <2>1. <<j - 1, i - 1>> \in Cells /\ (i - 1 = LastRow <=> i = H)
    BY CellOfRow
  <2>2. j - 1 = c <=> j = c + 1
    BY <1>1
  <2>3. <<j - 1, i - 1>> = <<c, LastRow>> <=> i = H /\ j = c + 1
    BY <2>1, <2>2
  <2> QED BY <1>1, <2>1, <2>3
<1>3. Promised!WithChar(p, c, g)
        = [i \in 1 .. H |-> IF i = H THEN [p[H] EXCEPT ![c + 1] = g] ELSE p[i]]
  BY DEF Promised!WithChar, Pic
<1>4. ASSUME NEW i \in 1 .. H
      PROVE  Pic(new)[i] = IF i = H THEN [p[H] EXCEPT ![c + 1] = g] ELSE p[i]
  <2>1. Pic(new)[i] = [j \in 1 .. W |-> new[<<j - 1, i - 1>>]]
        /\ p[i] = [j \in 1 .. W |-> grid[<<j - 1, i - 1>>]]
    BY DEF Pic
  <2> HIDE DEF new, p
  <2>2. CASE i = H
    <3>1. [p[H] EXCEPT ![c + 1] = g] = [j \in 1 .. W |-> IF j = c + 1 THEN g ELSE p[H][j]]
      BY <2>1, <2>2
    <3> DEFINE row == p[H]
    <3>2. ASSUME NEW j \in 1 .. W
          PROVE  new[<<j - 1, i - 1>>] = IF j = c + 1 THEN g ELSE row[j]
      <4>1. new[<<j - 1, i - 1>>] = IF j = c + 1 THEN g ELSE grid[<<j - 1, i - 1>>]
        BY <1>2, <2>2
      <4>2. row[j] = grid[<<j - 1, i - 1>>]
        BY <2>1, <2>2
      <4> QED BY <4>1, <4>2
    <3> HIDE DEF row
    <3>3. Pic(new)[i] = [j \in 1 .. W |-> IF j = c + 1 THEN g ELSE row[j]]
      BY <2>1, <3>2, Zenon
    <3>4. Pic(new)[i] = [p[H] EXCEPT ![c + 1] = g]
      BY <3>1, <3>3, Zenon DEF row
    <3> QED BY <2>2, <3>4
  <2>3. CASE i # H
    BY <1>2, <2>1, <2>3
  <2> QED BY <2>2, <2>3
<1>5. Pic(new) = [i \in 1 .. H |-> Pic(new)[i]]
  BY DEF Pic
<1> HIDE DEF new, p
<1>6. Pic(new) = Promised!WithChar(p, c, g)
  BY <1>3, <1>4, <1>5
<1> QED BY <1>6 DEF new, p

\* draw_char() draws what the terminal shows; of a line feed that holds in the first
\* column, where the carriage return before it has put the cursor.
LEMMA DrawingIsTyping ==
  ASSUME ScreenInv, DrawChar, text \in Seq(Chars), Head(text) = "lf" => cursorX = 0
  PROVE  <<Pic(buf'), cursorX'>> = Put(<<Pic(buf), cursorX>>, Head(text))
<1> DEFINE c == Head(text)
           p == Pic(buf)
<1>1. /\ buf \in Grid /\ cursorX \in 0 .. CONSOLE_WIDTH
      /\ CONSOLE_WIDTH \in Nat \ {0} /\ 0 \in Columns
      /\ c \in Chars
      /\ CarriageReturn \/ ScrollUp \/ StayAtEdge \/ Wipe \/ Draw
  BY Sizes DEF ScreenInv, PictureOK, CursorOK, DrawChar
<1>2. ASSUME NEW x PROVE <<p, cursorX>>[1] = p /\ <<p, cursorX>>[2] = cursorX
  OBVIOUS
<1>3. Promised!Space = Blank
  BY DEF Promised!Space, Blank
<1>4. CASE CarriageReturn
  <2>1. c = "cr" /\ cursorX' = 0 /\ buf' = buf
    BY <1>4 DEF CarriageReturn
  <2>2. Put(<<p, cursorX>>, "cr") = <<p, 0>>
    BY DEF Put, Promised!Put
  <2> QED BY <2>1, <2>2
<1>5. CASE ScrollUp
  <2>1. c = "lf" /\ cursorX' = 0 /\ buf' = Scrolled(buf)
    BY <1>5 DEF ScrollUp
  <2>2. Put(<<p, cursorX>>, "lf") = <<Promised!ScrolledUp(p), 0>>
    BY DEF Put, Promised!Put
  <2> QED BY <2>1, <2>2, PicScrolled
<1>6. CASE StayAtEdge
  <2>1. c = "bs" /\ cursorX = 0 /\ cursorX' = 0 /\ buf' = buf
    BY <1>6 DEF StayAtEdge
  <2>2. Put(<<p, 0>>, "bs") = <<p, 0>>
    BY DEF Put, Promised!Put
  <2> QED BY <2>1, <2>2
<1>7. CASE Wipe
  <2>1. c = "bs" /\ cursorX > 0 /\ cursorX' = cursorX - 1 /\ cursorX' \in Columns
        /\ buf' = [buf EXCEPT ![<<cursorX', LastRow>>] = Blank]
    BY <1>1, <1>7 DEF Wipe, Columns
  <2>2. Put(<<p, cursorX>>, "bs")
          = <<Promised!WithChar(p, cursorX - 1, Blank), cursorX - 1>>
    <3>1. cursorX # 0 /\ cursorX > 0
      BY <1>1, <2>1
    <3> QED BY <1>3, <3>1 DEF Put, Promised!Put
  <2> QED BY <1>1, <2>1, <2>2, PicWithChar
<1>8. CASE Draw
  <2>1. c \notin {"cr", "lf", "bs"}
    BY <1>8 DEF Draw, Controls
  <2>2. Glyph(c) = IF c \in Glyphs THEN c ELSE Promised!Space
    BY <1>3 DEF Glyph
  <2>3. CASE ~RowIsFull
    <3>1. cursorX \in Columns /\ cursorX < CONSOLE_WIDTH /\ cursorX' = cursorX + 1
          /\ buf' = [buf EXCEPT ![<<cursorX, LastRow>>] = Glyph(c)]
      BY <1>1, <1>8, <2>3 DEF Draw, RowIsFull, Columns
    <3>2. Put(<<p, cursorX>>, c) = <<Promised!WithChar(p, cursorX, Glyph(c)), cursorX + 1>>
      <4> HIDE DEF c
      <4> QED BY <2>1, <2>2, <3>1 DEF Put, Promised!Put
    <3> QED BY <1>1, <3>1, <3>2, PicWithChar
  <2>4. CASE RowIsFull
    <3>1. cursorX' = 1 /\ buf' = [Scrolled(buf) EXCEPT ![<<0, LastRow>>] = Glyph(c)]
      BY <1>8, <2>4 DEF Draw
    <3>2. ~(cursorX < CONSOLE_WIDTH)
      BY <1>1, <2>4 DEF RowIsFull
    <3>3. Put(<<p, cursorX>>, c)
            = <<Promised!WithChar(Promised!ScrolledUp(p), 0, Glyph(c)), 1>>
      <4> HIDE DEF c
      <4> QED BY <2>1, <2>2, <3>2 DEF Put, Promised!Put
    <3>4. Scrolled(buf) \in Grid
      BY <1>1, ScrolledIsGrid
    <3> QED BY <1>1, <3>1, <3>3, <3>4, PicScrolled, PicWithChar
  <2> QED BY <2>3, <2>4
<1> QED BY <1>1, <1>4, <1>5, <1>6, <1>7, <1>8

-----------------------------------------------------------------------------
(***************************************************************************)
(* A session.                                                              *)
(***************************************************************************)

\* What the string being written will have made of the picture.
Outcome == Typed(<<Pic(buf), cursorX>>, text)

\* Rows of characters, of a terminal's size.
IsScreen(screen) ==
  /\ screen = [i \in 1 .. CONSOLE_HEIGHT |-> screen[i]]
  /\ \A i \in 1 .. CONSOLE_HEIGHT :
       screen[i] = [j \in 1 .. CONSOLE_WIDTH |-> screen[i][j]]

\* The last row shows the characters and is blank to the right of them, and the
\* cursor is behind them.
RowShows(state, chars) ==
  /\ state = <<state[1], state[2]>>
  /\ IsScreen(state[1])
  /\ state[2] = Len(chars)
  /\ \A j \in 1 .. CONSOLE_WIDTH :
       state[1][CONSOLE_HEIGHT][j] = IF j \in 1 .. Len(chars) THEN chars[j] ELSE Blank

Fits == Len(Prompt) + longest <= CONSOLE_WIDTH

\* What is left to draw of a string: a line feed comes after a carriage return, which
\* has put the cursor into the first column if it is no longer there.
StringInv ==
  /\ text \in Seq(Chars)
  /\ ~writing => text = <<>>
  /\ \A i \in 1 .. Len(text) :
       text[i] = "lf" => IF i = 1 THEN cursorX = 0 ELSE text[i - 1] = "cr"

\* Between strings the terminal is where the picture is; during one it is where the
\* picture was before it.
TerminalInv ==
  /\ ~writing => column = cursorX
  /\ writing => \E s \in Strings : Outcome = Typed(<<Screen, column>>, s)

\* What is on the last row once the string is written.
LineInv ==
  /\ mode \in {"print", "edit"}
  /\ line \in Seq(Glyphs) /\ longest \in Nat /\ Len(line) <= longest
  /\ mode = "edit" /\ Fits => RowShows(Outcome, Prompt \o line)
  /\ mode = "print" /\ fresh => RowShows(Outcome, <<>>)

ConsoleInv == ScreenInv /\ lost = {} /\ StringInv /\ TerminalInv /\ LineInv

-----------------------------------------------------------------------------
LEMMA ScreenIsPic == Screen = Pic(video)
BY DEF Screen, Pic

LEMMA PicIsScreen == \A grid : IsScreen(Pic(grid))
BY DEF Pic, IsScreen

LEMMA StringsAreText == \A s \in Strings : s \in Seq(Chars)
<1> SUFFICES ASSUME NEW s \in Strings PROVE s \in Seq(Chars)
  OBVIOUS
<1>1. Glyphs \cup {Blank} \subseteq Chars /\ "bs" \in Chars /\ "lf" \in Chars
  BY DEF Chars, Controls
<1>2. CASE s \in Texts
  BY <1>2, ConsoleAssumption
<1>3. CASE s = Prompt
  BY <1>1, <1>3, SessionAssumption
<1>4. CASE s \in {<<"bs", Blank, "bs">>, <<"lf">>}
  <2>1. "bs" \in Chars /\ Blank \in Chars /\ "lf" \in Chars
    BY <1>1
  <2> HIDE DEF Blank
  <2>2. <<"bs", Blank, "bs">> \in Seq(Chars)
    BY <2>1
  <2>3. <<"lf">> \in Seq(Chars)
    BY <2>1
  <2> QED BY <1>4, <2>2, <2>3
<1>5. CASE \E c \in Glyphs : s = <<c>>
  BY <1>1, <1>5
<1> QED BY <1>2, <1>3, <1>4, <1>5 DEF Strings

\* One more character that has a place in the row.
LEMMA RowGrows ==
  ASSUME NEW chars, NEW S, chars \in Seq(S), Len(chars) < CONSOLE_WIDTH,
         NEW state, RowShows(state, chars), NEW c \in Glyphs \cup {Blank}
  PROVE  RowShows(Put(state, c), Append(chars, c))
<1> DEFINE screen == state[1]
           at == state[2]
           H == CONSOLE_HEIGHT
           W == CONSOLE_WIDTH
           new == Promised!WithChar(screen, at, c)
<1>1. W \in Nat \ {0} /\ H \in Nat \ {0} /\ H \in 1 .. H
  BY Sizes
<1>2. IsScreen(screen) /\ at = Len(chars) /\ Len(chars) \in Nat /\ at < W
  BY DEF RowShows
<1>3. c \notin {"cr", "lf", "bs"}
  BY ConsoleAssumption DEF Controls, Blank
<1>4. (IF c \in Glyphs THEN c ELSE Promised!Space) = c
  BY DEF Promised!Space, Blank
<1>5. Put(state, c) = <<new, at + 1>>
  <2> HIDE DEF screen, at
  <2>1. Put(state, c) = <<Promised!WithChar(screen, at, c), at + 1>>
    BY <1>2, <1>3, <1>4 DEF Put, Promised!Put, screen, at
  <2> QED BY <2>1
<1> DEFINE longer == Append(chars, c)
<1>6. Len(longer) = Len(chars) + 1 /\ longer[Len(chars) + 1] = c
      /\ \A j \in 1 .. Len(chars) : longer[j] = chars[j]
  <2> DEFINE T == S \cup {c}
  <2>1. chars \in Seq(T) /\ c \in T
    OBVIOUS
  <2> QED BY <2>1
<1> HIDE DEF longer
<1>7. new = [i \in 1 .. H |-> IF i = H THEN [screen[H] EXCEPT ![at + 1] = c] ELSE screen[i]]
  BY <1>1, <1>2 DEF IsScreen, Promised!WithChar
<1>8. screen[H] = [j \in 1 .. W |-> screen[H][j]]
  BY <1>1, <1>2 DEF IsScreen
<1>9. new[H] = [j \in 1 .. W |-> IF j = at + 1 THEN c ELSE screen[H][j]]
  BY <1>1, <1>2, <1>7, <1>8
<1> HIDE DEF new
<1>10. IsScreen(new)
  <2>1. ASSUME NEW i \in 1 .. H PROVE new[i] = [j \in 1 .. W |-> new[i][j]]
    <3>1. CASE i = H
      BY <1>9, <3>1
    <3>2. CASE i # H
      BY <1>2, <1>7, <3>2 DEF IsScreen
    <3> QED BY <3>1, <3>2
  <2> QED BY <1>7, <2>1 DEF IsScreen
<1>11. ASSUME NEW j \in 1 .. W
       PROVE  new[H][j] = IF j \in 1 .. Len(longer) THEN longer[j] ELSE Blank
  <2>1. screen[H][j] = IF j \in 1 .. Len(chars) THEN chars[j] ELSE Blank
    BY DEF RowShows
  <2>2. CASE j = at + 1
    BY <1>1, <1>2, <1>6, <1>9, <2>2
  <2>3. CASE j # at + 1
    <3>1. j \in 1 .. Len(longer) <=> j \in 1 .. Len(chars)
      BY <1>1, <1>2, <1>6, <2>3
    <3> QED BY <1>6, <1>9, <2>1, <2>3, <3>1
  <2> QED BY <2>2, <2>3
<1> QED BY <1>2, <1>5, <1>6, <1>10, <1>11 DEF RowShows, longer

\* Backspace, blank, backspace: the last character of the row is gone.
LEMMA RowShrinks ==
  ASSUME NEW S, NEW chars \in Seq(S), chars # <<>>, Len(chars) <= CONSOLE_WIDTH,
         NEW state, RowShows(state, chars)
  PROVE  RowShows(Typed(state, <<"bs", Blank, "bs">>), Front(chars))
<1> DEFINE H == CONSOLE_HEIGHT
           W == CONSOLE_WIDTH
           n == Len(chars) - 1
           Wiped(screen) == Promised!WithChar(screen, n, Blank)
<1>1. W \in Nat \ {0} /\ H \in Nat \ {0} /\ H \in 1 .. H /\ n \in Nat /\ n < W
  BY Sizes
<1>2. IsScreen(state[1]) /\ state[2] = n + 1
  BY <1>1 DEF RowShows
<1>3. Front(chars) \in Seq(S) /\ Len(Front(chars)) = n
      /\ \A j \in 1 .. n : Front(chars)[j] = chars[j]
  BY DEF Front
<1> HIDE DEF n
<1>4. Promised!Space = Blank
  BY DEF Promised!Space, Blank
<1>5. Put(state, "bs") = <<Wiped(state[1]), n>>
  <2>1. state[2] # 0 /\ state[2] > 0 /\ state[2] - 1 = n
    BY <1>1, <1>2
  <2> QED BY <1>4, <2>1 DEF Put, Promised!Put
<1>6. \A screen : Put(<<screen, n>>, Blank) = <<Wiped(screen), n + 1>>
  <2>1. Blank \notin {"cr", "lf", "bs"} /\ Blank \notin Glyphs
    BY ConsoleAssumption DEF Blank
  <2> QED BY <1>1, <1>4, <2>1 DEF Put, Promised!Put
<1>7. \A screen : Put(<<screen, n + 1>>, "bs") = <<Wiped(screen), n>>
  <2>1. n + 1 # 0 /\ n + 1 > 0 /\ (n + 1) - 1 = n
    BY <1>1
  <2> QED BY <1>4, <2>1 DEF Put, Promised!Put
<1>8. Typed(state, <<"bs", Blank, "bs">>) = <<Wiped(Wiped(Wiped(state[1]))), n>>
  <2> DEFINE chs == {"bs", Blank}
  <2>1. <<"bs", Blank, "bs">> = <<"bs">> \o <<Blank, "bs">>
        /\ <<Blank, "bs">> = <<Blank>> \o <<"bs">> /\ <<"bs">> = <<"bs">> \o << >>
    OBVIOUS
  <2>2. <<Blank, "bs">> \in Seq(chs) /\ <<"bs">> \in Seq(chs) /\ << >> \in Seq(chs)
        /\ "bs" \in chs /\ Blank \in chs
    OBVIOUS
  <2> HIDE DEF chs
  <2>3. \A st : /\ Typed(st, <<"bs", Blank, "bs">>) = Typed(Put(st, "bs"), <<Blank, "bs">>)
                /\ Typed(st, <<Blank, "bs">>) = Typed(Put(st, Blank), <<"bs">>)
                /\ Typed(st, <<"bs">>) = Typed(Put(st, "bs"), << >>)
                /\ Typed(st, << >>) = st
    BY <2>1, <2>2, Typing!FoldCons, Typing!FoldEmpty DEF Typed
  <2> DEFINE a == Wiped(state[1])
             b == Wiped(a)
  <2>4. Typed(state, <<"bs", Blank, "bs">>) = Typed(<<a, n>>, <<Blank, "bs">>)
    BY <1>5, <2>3
  <2>5. Typed(<<a, n>>, <<Blank, "bs">>) = Typed(<<b, n + 1>>, <<"bs">>)
    <3>1. Put(<<a, n>>, Blank) = <<b, n + 1>>
      BY <1>6
    <3> HIDE DEF a, b
    <3> QED BY <2>3, <3>1
  <2>6. Typed(<<b, n + 1>>, <<"bs">>) = <<Wiped(b), n>>
    <3>1. Put(<<b, n + 1>>, "bs") = <<Wiped(b), n>>
      BY <1>7
    <3> HIDE DEF b
    <3> QED BY <2>3, <3>1
  <2> HIDE DEF Wiped
  <2> QED BY <2>4, <2>5, <2>6
<1>9. ASSUME NEW screen, IsScreen(screen)
      PROVE  /\ IsScreen(Wiped(screen))
             /\ Wiped(screen)[H] = [j \in 1 .. W |-> IF j = n + 1 THEN Blank ELSE screen[H][j]]
  <2> DEFINE new == Wiped(screen)
  <2>1. new = [i \in 1 .. H |-> IF i = H THEN [screen[H] EXCEPT ![n + 1] = Blank] ELSE screen[i]]
    BY <1>1, <1>9 DEF IsScreen, Promised!WithChar
  <2>2. screen[H] = [j \in 1 .. W |-> screen[H][j]]
    BY <1>1, <1>9 DEF IsScreen
  <2> HIDE DEF new
  <2>3. new[H] = [j \in 1 .. W |-> IF j = n + 1 THEN Blank ELSE screen[H][j]]
    BY <1>1, <2>1, <2>2
  <2>4. ASSUME NEW i \in 1 .. H PROVE new[i] = [j \in 1 .. W |-> new[i][j]]
    <3>1. CASE i = H
      BY <2>3, <3>1
    <3>2. CASE i # H
      BY <1>9, <2>1, <3>2 DEF IsScreen
    <3> QED BY <3>1, <3>2
  <2> QED BY <2>1, <2>3, <2>4 DEF IsScreen, new
<1> DEFINE final == Wiped(Wiped(Wiped(state[1])))
<1>10. IsScreen(final)
       /\ \A j \in 1 .. W : final[H][j] = IF j = n + 1 THEN Blank ELSE state[1][H][j]
  <2> DEFINE a == Wiped(state[1])
             b == Wiped(a)
  <2>1. IsScreen(a) /\ a[H] = [j \in 1 .. W |-> IF j = n + 1 THEN Blank ELSE state[1][H][j]]
    BY <1>2, <1>9
  <2> HIDE DEF a
  <2>2. IsScreen(b) /\ b[H] = [j \in 1 .. W |-> IF j = n + 1 THEN Blank ELSE a[H][j]]
    BY <1>9, <2>1
  <2> HIDE DEF b
  <2>3. IsScreen(Wiped(b))
        /\ Wiped(b)[H] = [j \in 1 .. W |-> IF j = n + 1 THEN Blank ELSE b[H][j]]
    BY <1>9, <2>2
  <2> HIDE DEF Wiped
  <2>4. \A j \in 1 .. W : Wiped(b)[H][j] = IF j = n + 1 THEN Blank ELSE state[1][H][j]
    BY <2>1, <2>2, <2>3
  <2> QED BY <2>3, <2>4 DEF a, b
<1> HIDE DEF final, Wiped
<1>11. ASSUME NEW j \in 1 .. W
       PROVE  final[H][j] = IF j \in 1 .. n THEN Front(chars)[j] ELSE Blank
  <2>1. state[1][H][j] = IF j \in 1 .. Len(chars) THEN chars[j] ELSE Blank
    BY DEF RowShows
  <2>2. Len(chars) = n + 1
    BY DEF n
  <2> QED BY <1>1, <1>3, <1>10, <2>1, <2>2
<1> DEFINE after == <<final, n>>
<1>12. Typed(state, <<"bs", Blank, "bs">>) = after /\ after[1] = final /\ after[2] = n
  BY <1>8 DEF final
<1>13. RowShows(after, Front(chars))
  <2> HIDE DEF after
  <2>1. after = <<after[1], after[2]>>
    BY DEF after
  <2>2. \A j \in 1 .. W : after[1][H][j] = IF j \in 1 .. Len(Front(chars)) THEN Front(chars)[j] ELSE Blank
    BY <1>3, <1>11, <1>12
  <2> QED BY <1>3, <1>10, <1>12, <2>1, <2>2 DEF RowShows
<1> HIDE DEF after
<1> QED BY <1>12, <1>13

\* A line feed leaves an empty row.
LEMMA RowClears ==
  ASSUME NEW state, IsScreen(state[1]) PROVE RowShows(Put(state, "lf"), <<>>)
<1> DEFINE H == CONSOLE_HEIGHT
           W == CONSOLE_WIDTH
           blank == Promised!BlankRow
           screen == state[1]
           new == Append(Tail(screen), blank)
<1>1. W \in Nat \ {0} /\ H \in Nat \ {0} /\ H \in 1 .. H
  BY Sizes
<1>2. Put(state, "lf") = <<new, 0>>
  BY DEF Put, Promised!Put, Promised!ScrolledUp
<1>3. blank = [j \in 1 .. W |-> Blank]
  BY DEF Promised!BlankRow, Promised!Space, Blank
<1> DEFINE Screens == {[j \in 1 .. W |-> screen[i][j]] : i \in 1 .. H} \cup {blank}
<1>4. screen \in Seq(Screens) /\ Len(screen) = H
  <2>1. screen = [i \in 1 .. H |-> screen[i]] /\ \A i \in 1 .. H : screen[i] \in Screens
    BY DEF IsScreen
  <2> HIDE DEF Screens, screen
  <2> QED BY <1>1, <2>1
<1>5. blank \in Screens
  OBVIOUS
<1>6. \A row \in Screens : row = [j \in 1 .. W |-> row[j]]
  BY <1>3
<1> HIDE DEF Screens, screen, blank
<1> DEFINE t == Tail(screen)
<1>7. t \in Seq(Screens) /\ Len(t) = H - 1
  BY <1>1, <1>4
<1> HIDE DEF t
<1>8. Append(t, blank) \in Seq(Screens) /\ Len(Append(t, blank)) = H
      /\ Append(t, blank)[H] = blank
  BY <1>1, <1>5, <1>7
<1>9. new \in Seq(Screens) /\ Len(new) = H /\ new[H] = blank
  BY <1>8 DEF t
<1> HIDE DEF new
<1>10. new = [i \in 1 .. H |-> new[i]] /\ \A i \in 1 .. H : new[i] \in Screens
  BY <1>9
<1>11. IsScreen(new)
  BY <1>6, <1>10 DEF IsScreen
<1> QED BY <1>1, <1>2, <1>3, <1>9, <1>11 DEF RowShows


\* A string that has a place in an empty row.
LEMMA RowHolds ==
  ASSUME NEW p, p \in Seq(Glyphs \cup {Blank}), Len(p) <= CONSOLE_WIDTH,
         NEW state, RowShows(state, <<>>)
  PROVE  RowShows(Typed(state, p), p)
<1> DEFINE S == Glyphs \cup {Blank}
           n == Len(p)
           Part(k) == SubSeq(p, 1, k)
<1>1. n \in Nat /\ CONSOLE_WIDTH \in Nat
  BY Sizes
<1>2. PICK h : Typing!Steps(h, state, p) /\ Typed(state, p) = h[n]
  BY Typing!FoldSteps DEF Typed
<1>3. Part(0) = <<>> /\ Part(n) = p
  OBVIOUS
<1>4. ASSUME NEW k \in 0 .. n - 1
      PROVE  /\ Part(k) \in Seq(S) /\ Len(Part(k)) = k /\ p[k + 1] \in S
             /\ Part(k + 1) = Append(Part(k), p[k + 1])
  <2>1. k + 1 \in 1 .. n
    BY <1>1
  <2>2. p \in Seq(S) /\ p[k + 1] \in S
    BY <2>1
  <2> HIDE DEF S
  <2>3. Part(k) \in Seq(S) /\ Len(Part(k)) = k
    BY <1>1, <2>2
  <2>4. Part(k + 1) \in Seq(S) /\ Len(Part(k + 1)) = k + 1
    BY <1>1, <2>1, <2>2
  <2>5. Part(k + 1) = Append(Part(k), p[k + 1])
    BY <1>1, <2>1, <2>2, <2>3, <2>4
  <2> QED BY <2>2, <2>3, <2>5
<1> DEFINE T == {k \in 0 .. n : RowShows(h[k], Part(k))}
<1>5. 0 \in T
  <2>1. h[0] = state /\ 0 \in 0 .. n
    BY <1>1, <1>2 DEF Typing!Steps
  <2> HIDE DEF Part
  <2> QED BY <1>3, <2>1
<1>6. ASSUME NEW k \in 0 .. n - 1, k \in T PROVE k + 1 \in T
  <2>1. k + 1 \in 1 .. n /\ (k + 1) - 1 = k /\ k + 1 \in 0 .. n
    BY <1>1
  <2>2. h[k + 1] = Put(h[k], p[k + 1])
    BY <1>2, <2>1 DEF Typing!Steps
  <2>3. RowShows(h[k], Part(k)) /\ Len(Part(k)) < CONSOLE_WIDTH
    BY <1>1, <1>4, <1>6
  <2> HIDE DEF Part
  <2>4. RowShows(h[k + 1], Append(Part(k), p[k + 1]))
    BY <1>4, <2>2, <2>3, RowGrows
  <2> QED BY <1>4, <2>1, <2>4
<1> HIDE DEF T
<1>7. \A k \in 0 .. n : k \in T
  BY <1>1, <1>5, <1>6, Typing!BoundedInduction
<1>8. n \in T
  BY <1>1, <1>7
<1> QED BY <1>2, <1>3, <1>8 DEF T

-----------------------------------------------------------------------------
\* A terminal's screens and columns, which no character leaves.
Screens == [1 .. CONSOLE_HEIGHT -> [1 .. CONSOLE_WIDTH -> Glyphs \cup {Blank}]]
States == Screens \X (0 .. CONSOLE_WIDTH)

LEMMA PicInScreens == \A grid \in Grid : Pic(grid) \in Screens
<1> SUFFICES ASSUME NEW grid \in Grid PROVE Pic(grid) \in Screens
  OBVIOUS
<1>1. ASSUME NEW i \in 1 .. CONSOLE_HEIGHT, NEW j \in 1 .. CONSOLE_WIDTH
      PROVE  grid[<<j - 1, i - 1>>] \in Glyphs \cup {Blank}
  BY CellOfRow DEF Grid
<1> QED BY <1>1 DEF Pic, Screens

LEMMA CharKept ==
  ASSUME NEW screen \in Screens, NEW at \in 0 .. CONSOLE_WIDTH - 1, NEW c \in Glyphs \cup {Blank}
  PROVE  Promised!WithChar(screen, at, c) \in Screens
<1>1. CONSOLE_HEIGHT \in 1 .. CONSOLE_HEIGHT /\ at + 1 \in 1 .. CONSOLE_WIDTH
  BY Sizes
<1> QED BY <1>1 DEF Promised!WithChar, Screens

LEMMA ScrollKept ==
  ASSUME NEW screen \in Screens PROVE Promised!ScrolledUp(screen) \in Screens
<1> DEFINE H == CONSOLE_HEIGHT
           R == [1 .. CONSOLE_WIDTH -> Glyphs \cup {Blank}]
           blank == Promised!BlankRow
<1>1. H \in Nat \ {0}
  BY Sizes
<1>2. blank \in R
  BY DEF Promised!BlankRow, Promised!Space, Blank
<1>3. screen \in [1 .. H -> R]
  BY DEF Screens
<1> HIDE DEF R, blank
<1>4. screen \in Seq(R) /\ Len(screen) = H
  BY <1>1, <1>3
<1> DEFINE t == Tail(screen)
<1>5. t \in Seq(R) /\ Len(t) = H - 1
  BY <1>1, <1>4
<1> HIDE DEF t
<1>6. Append(t, blank) \in Seq(R) /\ Len(Append(t, blank)) = H
  BY <1>1, <1>2, <1>5
<1> DEFINE new == Append(t, blank)
<1>7. new \in [1 .. H -> R]
  <2> HIDE DEF new
  <2>1. new \in Seq(R) /\ Len(new) = H
    BY <1>6 DEF new
  <2>2. new = [i \in 1 .. H |-> new[i]] /\ \A i \in 1 .. H : new[i] \in R
    BY <1>1, <2>1
  <2> QED BY <2>2
<1> QED BY <1>7 DEF t, R, blank, Promised!ScrolledUp, Screens

LEMMA PutKept ==
  ASSUME NEW state \in States, NEW c \in Chars PROVE Put(state, c) \in States
<1> DEFINE screen == state[1]
           at == state[2]
           W == CONSOLE_WIDTH
           g == IF c \in Glyphs THEN c ELSE Promised!Space
<1>1. screen \in Screens /\ at \in 0 .. W /\ W \in Nat \ {0} /\ 0 \in 0 .. W /\ 1 \in 0 .. W
      /\ 0 \in 0 .. W - 1
  BY Sizes DEF States
<1>2. g \in Glyphs \cup {Blank} /\ Promised!Space \in Glyphs \cup {Blank}
  BY DEF Promised!Space, Blank
<1>3. CASE c = "cr"
  <2>1. Put(state, c) = <<screen, 0>>
    BY <1>3 DEF Put, Promised!Put
  <2> QED BY <1>1, <2>1 DEF States
<1>4. CASE c = "lf"
  <2>1. Put(state, c) = <<Promised!ScrolledUp(screen), 0>>
    BY <1>4 DEF Put, Promised!Put
  <2> QED BY <1>1, <2>1, ScrollKept DEF States
<1>5. CASE c = "bs" /\ at = 0
  <2>1. Put(state, c) = state
    BY <1>5 DEF Put, Promised!Put
  <2> QED BY <2>1
<1>6. CASE c = "bs" /\ at # 0
  <2>1. at > 0 /\ at - 1 \in 0 .. W - 1 /\ at - 1 \in 0 .. W
    BY <1>1, <1>6
  <2>2. Put(state, c) = <<Promised!WithChar(screen, at - 1, Promised!Space), at - 1>>
    BY <1>6, <2>1 DEF Put, Promised!Put
  <2> QED BY <1>1, <1>2, <2>1, <2>2, CharKept DEF States
<1>7. CASE c \notin {"cr", "lf", "bs"} /\ at < W
  <2>1. at \in 0 .. W - 1 /\ at + 1 \in 0 .. W
    BY <1>1, <1>7
  <2>2. Put(state, c) = <<Promised!WithChar(screen, at, g), at + 1>>
    BY <1>7 DEF Put, Promised!Put
  <2> QED BY <1>1, <1>2, <2>1, <2>2, CharKept DEF States
<1>8. CASE c \notin {"cr", "lf", "bs"} /\ ~(at < W)
  <2>1. Put(state, c) = <<Promised!WithChar(Promised!ScrolledUp(screen), 0, g), 1>>
    BY <1>8 DEF Put, Promised!Put
  <2> QED BY <1>1, <1>2, <2>1, ScrollKept, CharKept DEF States
<1> QED BY <1>3, <1>4, <1>5, <1>6, <1>7, <1>8

\* After a string that ends its line, the last row is empty.
LEMMA LineEndClears ==
  ASSUME NEW s \in Seq(Chars), s # <<>>, Last(s) = "lf", NEW state \in States
  PROVE  RowShows(Typed(state, s), <<>>)
<1> DEFINE front == Front(s)
<1>1. front \in Seq(Chars) /\ s = Append(front, "lf") /\ "lf" \in Chars
  BY DEF Front, Last, Chars, Controls
<1> HIDE DEF front
<1>2. Typed(state, s) = Put(Typed(state, front), "lf")
  BY <1>1, Typing!FoldAppend DEF Typed
<1>3. Typed(state, front) \in States
  BY <1>1, PutKept, Typing!FoldKeeps DEF Typed
<1>4. IsScreen(Typed(state, front)[1])
  <2> DEFINE screen == Typed(state, front)[1]
  <2>1. screen \in Screens
    BY <1>3 DEF States
  <2> HIDE DEF screen
  <2> QED BY <2>1 DEF IsScreen, Screens, screen
<1> QED BY <1>2, <1>4, RowClears

-----------------------------------------------------------------------------
(***************************************************************************)
(* The steps of a session, on a firmware that refuses no copy.             *)
(***************************************************************************)

LEMMA FrontOf ==
  ASSUME NEW S, NEW s \in Seq(S), s # <<>>
  PROVE  /\ Len(s) \in Nat /\ Len(s) > 0
         /\ Front(s) \in Seq(S) /\ Len(Front(s)) = Len(s) - 1
         /\ \A j \in 1 .. Len(s) - 1 : Front(s)[j] = s[j]
<1>1. Len(s) \in Nat /\ Len(s) # 0
  OBVIOUS
<1>2. Len(s) > 0
  BY <1>1
<1>3. Len(s) - 1 \in Nat /\ Front(s) = SubSeq(s, 1, Len(s) - 1)
  BY <1>1 DEF Front
<1> DEFINE n == Len(s) - 1
<1>4. SubSeq(s, 1, n) \in Seq(S) /\ Len(SubSeq(s, 1, n)) = n
  <2>1. n \in Nat /\ \A j \in 1 .. n : j \in 1 .. Len(s)
    BY <1>1, <1>3
  <2> HIDE DEF n
  <2>2. \A j \in 1 .. n : s[j] \in S
    BY <2>1
  <2>3. SubSeq(s, 1, n) \in Seq(S)
    BY <2>1, <2>2
  <2>4. Len(SubSeq(s, 1, n)) = n
    BY <2>1
  <2> QED BY <2>3, <2>4
<1>5. \A j \in 1 .. n : SubSeq(s, 1, n)[j] = s[j]
  BY <1>3
<1> QED BY <1>1, <1>2, <1>3, <1>4, <1>5

LEMMA FrontOfBoth ==
  ASSUME NEW S, NEW s \in Seq(S), NEW t \in Seq(S), t # <<>>
  PROVE  s \o t # <<>> /\ Front(s \o t) = s \o Front(t)
<1> DEFINE both == s \o t
           u == Front(t)
<1>1. /\ Len(t) \in Nat /\ Len(t) > 0 /\ Len(s) \in Nat
      /\ u \in Seq(S) /\ Len(u) = Len(t) - 1 /\ \A j \in 1 .. Len(t) - 1 : u[j] = t[j]
  BY FrontOf
<1>2. both \in Seq(S) /\ Len(both) = Len(s) + Len(t)
      /\ \A j \in 1 .. Len(s) + Len(t) : both[j] = IF j <= Len(s) THEN s[j] ELSE t[j - Len(s)]
  OBVIOUS
<1> HIDE DEF both, u
<1>3. both # <<>>
  BY <1>1, <1>2
<1> DEFINE front == Front(both)
           short == s \o u
           n == Len(s) + Len(t) - 1
<1>4. n \in Nat /\ Len(both) - 1 = n
  BY <1>1, <1>2
<1>5. front \in Seq(S) /\ Len(front) = n /\ \A j \in 1 .. n : front[j] = both[j]
  <2>1. /\ Front(both) \in Seq(S) /\ Len(Front(both)) = Len(both) - 1
        /\ \A j \in 1 .. Len(both) - 1 : Front(both)[j] = both[j]
    BY <1>2, <1>3, FrontOf
  <2> HIDE DEF n
  <2> QED BY <1>4, <2>1
<1>6. short \in Seq(S) /\ Len(short) = n
      /\ \A j \in 1 .. n : short[j] = IF j <= Len(s) THEN s[j] ELSE u[j - Len(s)]
  <2>1. Len(s) + Len(u) = n
    BY <1>1
  <2>2. short \in Seq(S) /\ Len(short) = Len(s) + Len(u)
        /\ \A j \in 1 .. Len(s) + Len(u) :
             short[j] = IF j <= Len(s) THEN s[j] ELSE u[j - Len(s)]
    <3>1. u \in Seq(S)
      BY <1>1
    <3> HIDE DEF n
    <3> QED BY <3>1
  <2> HIDE DEF n, short
  <2> QED BY <2>1, <2>2
<1> HIDE DEF front, short
<1>7. ASSUME NEW j \in 1 .. n PROVE front[j] = short[j]
  <2>1. j \in 1 .. Len(s) + Len(t) /\ j \in Int /\ Len(s) \in Int
    BY <1>1
  <2>2. CASE j <= Len(s)
    BY <1>2, <1>5, <1>6, <2>1, <2>2
  <2>3. CASE ~(j <= Len(s))
    <3>1. j - Len(s) \in 1 .. Len(t) - 1
      BY <1>1, <2>1, <2>3
    <3>2. u[j - Len(s)] = t[j - Len(s)]
      BY <1>1, <3>1
    <3> HIDE DEF n
    <3>3. front[j] = t[j - Len(s)] /\ short[j] = u[j - Len(s)]
      BY <1>2, <1>5, <1>6, <2>1, <2>3
    <3> QED BY <3>2, <3>3
  <2> QED BY <2>2, <2>3
<1> HIDE DEF n
<1>8. front = [j \in 1 .. n |-> front[j]] /\ short = [j \in 1 .. n |-> short[j]]
  BY <1>5, <1>6
<1>9. front = short
  BY <1>7, <1>8
<1> QED BY <1>3, <1>9 DEF both, front, short, u

\* Between strings the screen, the picture and the terminal agree.
LEMMA AgreeBetween ==
  ASSUME ConsoleInv, ~writing
  PROVE  /\ video = buf /\ column = cursorX
         /\ Outcome = <<Pic(buf), cursorX>> /\ Outcome = <<Screen, column>>
         /\ Outcome \in States
<1>1. text = <<>> /\ column = cursorX /\ lost = {} /\ ScreenInv
  BY DEF ConsoleInv, StringInv, TerminalInv
<1>2. video = buf
  <2>1. damage = NoDamage
    BY <1>1 DEF ScreenInv, CleanBetween
  <2>2. \A cell \in Cells : video[cell] = buf[cell]
    BY <1>1, <2>1, NothingCopied DEF ScreenInv, VideoFollows
  <2> QED BY <1>1, <2>2 DEF ScreenInv, PictureOK, Grid
<1>3. Outcome = <<Pic(buf), cursorX>>
  BY <1>1, Typing!FoldEmpty DEF Outcome, Typed
<1>4. Pic(buf) \in Screens /\ cursorX \in 0 .. CONSOLE_WIDTH
  BY <1>1, PicInScreens DEF ScreenInv, PictureOK, CursorOK
<1> QED BY <1>1, <1>2, <1>3, <1>4, ScreenIsPic DEF States

\* A string to write: its outcome is what it makes of the terminal.
LEMMA WriteKeeps ==
  ASSUME ConsoleInv, NEW s \in Strings, Write(s), UNCHANGED column
  PROVE  /\ ~writing /\ s \in Seq(Chars)
         /\ ScreenInv' /\ lost' = {} /\ StringInv' /\ TerminalInv'
         /\ Outcome' = Typed(Outcome, s)
<1>1. /\ ~writing /\ writing' = TRUE /\ text' = LineEndsConverted(s)
      /\ UNCHANGED <<buf, cursorX, damage, video, lost>>
      /\ ScreenInv /\ lost = {}
  BY DEF Write, ConsoleInv
<1>2. s \in Seq(Chars)
  BY StringsAreText
<1>3. ScreenInv'
  BY <1>1 DEF ScreenInv, PictureOK, CursorOK, DamageOK, CleanBetween, VideoFollows
<1>4. StringInv'
  <2> DEFINE t == LineEndsConverted(s)
  <2>1. t \in Seq(Chars) /\ ReturnsBefore(t)
    BY <1>2, ConvertedShowsTheSame, ConvertedHasReturns
  <2> HIDE DEF t
  <2>2. text' = t /\ writing'
    BY <1>1 DEF t
  <2>3. \A i \in 1 .. Len(t) : t[i] = "lf" => i # 1 /\ t[i - 1] = "cr"
    BY <2>1 DEF ReturnsBefore
  <2> QED BY <2>1, <2>2, <2>3 DEF StringInv
<1>5. Outcome' = Typed(Outcome, s)
  <2>1. Outcome = <<Pic(buf), cursorX>>
    BY <1>1, AgreeBetween
  <2>2. Outcome' = Typed(<<Pic(buf), cursorX>>, LineEndsConverted(s))
    BY <1>1 DEF Outcome, Pic
  <2> QED BY <1>2, <2>1, <2>2, ConvertedShowsTheSame
<1>6. TerminalInv'
  <2>1. Outcome = <<Screen, column>> /\ Screen' = Screen
    BY <1>1, AgreeBetween DEF Screen
  <2>2. Outcome' = Typed(<<Screen', column'>>, s)
    BY <1>5, <2>1
  <2> QED BY <1>1, <2>2 DEF TerminalInv
<1> QED BY <1>1, <1>2, <1>3, <1>4, <1>5, <1>6

LEMMA MessageKeeps == ASSUME ConsoleInv, Message PROVE ConsoleInv'
<1>1. PICK s \in Texts : Write(s) /\ fresh' = IF s = <<>> THEN fresh ELSE Last(s) = "lf"
  BY DEF Message
<1>2. mode = "print" /\ UNCHANGED <<mode, line, longest, column>>
  BY DEF Message, lineVars
<1>3. s \in Strings
  BY DEF Strings
<1>4. /\ ~writing /\ s \in Seq(Chars)
      /\ ScreenInv' /\ lost' = {} /\ StringInv' /\ TerminalInv'
      /\ Outcome' = Typed(Outcome, s)
  BY <1>1, <1>2, <1>3, WriteKeeps
<1>5. ASSUME fresh' PROVE RowShows(Outcome, <<>>)'
  <2>1. CASE s = <<>>
    <3>1. Outcome' = Outcome
      BY <1>4, <2>1, Typing!FoldEmpty DEF Typed
    <3> QED BY <1>1, <1>2, <1>5, <2>1, <3>1 DEF ConsoleInv, LineInv
  <2>2. CASE s # <<>>
    <3>1. Last(s) = "lf" /\ Outcome \in States
      BY <1>1, <1>4, <1>5, <2>2, AgreeBetween
    <3>2. RowShows(Typed(Outcome, s), <<>>)
      BY <1>4, <2>2, <3>1, LineEndClears
    <3> QED BY <1>4, <3>2
  <2> QED BY <2>1, <2>2
<1>6. LineInv'
  BY <1>2, <1>5 DEF ConsoleInv, LineInv
<1> QED BY <1>4, <1>6 DEF ConsoleInv

LEMMA AskKeeps == ASSUME ConsoleInv, Ask PROVE ConsoleInv'
<1>1. /\ mode = "print" /\ fresh /\ Write(Prompt) /\ mode' = "edit"
      /\ line' = <<>> /\ longest' = 0 /\ column' = column
  BY DEF Ask
<1>2. Prompt \in Strings /\ Prompt \in Seq(Glyphs \cup {Blank})
  BY SessionAssumption DEF Strings
<1>3. /\ ScreenInv' /\ lost' = {} /\ StringInv' /\ TerminalInv'
      /\ Outcome' = Typed(Outcome, Prompt)
  BY <1>1, <1>2, WriteKeeps
<1>4. ASSUME Fits' PROVE RowShows(Outcome, Prompt \o line)'
  <2>1. Len(Prompt) <= CONSOLE_WIDTH
    BY <1>1, <1>2, <1>4 DEF Fits
  <2>2. RowShows(Outcome, <<>>)
    BY <1>1 DEF ConsoleInv, LineInv
  <2>3. RowShows(Typed(Outcome, Prompt), Prompt)
    BY <1>2, <2>1, <2>2, RowHolds
  <2>4. Prompt \o line' = Prompt
    BY <1>1, <1>2
  <2> QED BY <1>3, <2>3, <2>4
<1>5. LineInv'
  <2>1. line' \in Seq(Glyphs) /\ longest' \in Nat /\ Len(line') <= longest'
    BY <1>1
  <2> QED BY <1>1, <1>4, <2>1 DEF LineInv
<1> QED BY <1>3, <1>5 DEF ConsoleInv

LEMMA EchoLetterKeeps == ASSUME ConsoleInv, EchoLetter PROVE ConsoleInv'
<1>1. PICK c \in Glyphs : Write(<<c>>) /\ line' = Append(line, c)
  BY DEF EchoLetter
<1>2. /\ mode = "edit" /\ mode' = "edit" /\ column' = column
      /\ longest' = Max({longest, Len(line')})
  BY DEF EchoLetter
<1>3. <<c>> \in Strings
  BY DEF Strings
<1>4. /\ ~writing /\ ScreenInv' /\ lost' = {} /\ StringInv' /\ TerminalInv'
      /\ Outcome' = Typed(Outcome, <<c>>)
  BY <1>1, <1>2, <1>3, WriteKeeps
<1>5. line \in Seq(Glyphs) /\ longest \in Nat /\ Len(line) \in Nat
  BY DEF ConsoleInv, LineInv
<1>6. line' \in Seq(Glyphs) /\ Len(line') = Len(line) + 1
  BY <1>1, <1>5
<1>7. longest' \in Nat /\ Len(line') <= longest' /\ longest <= longest'
  BY <1>2, <1>5, <1>6, MaxOfTwo
<1>8. ASSUME Fits' PROVE RowShows(Outcome, Prompt \o line)'
  <2> DEFINE S == Glyphs \cup {Blank}
             all == Prompt \o line
  <2>1. Prompt \in Seq(S) /\ line \in Seq(S) /\ c \in S /\ CONSOLE_WIDTH \in Nat
    BY <1>5, SessionAssumption, Sizes
  <2>2. Fits /\ Len(Prompt) + Len(line) < CONSOLE_WIDTH
    BY <1>5, <1>6, <1>7, <1>8, <2>1 DEF Fits
  <2>3. RowShows(Outcome, all)
    BY <1>2, <2>2 DEF ConsoleInv, LineInv
  <2>4. all \in Seq(S) /\ Len(all) < CONSOLE_WIDTH /\ Prompt \o line' = Append(all, c)
    <3> HIDE DEF S
    <3> QED BY <1>1, <2>1, <2>2
  <2>5. Outcome' = Put(Outcome, c)
    <3>1. <<c>> = Append(<<>>, c) /\ <<>> \in Seq(S)
      OBVIOUS
    <3> HIDE DEF S
    <3>2. Typed(Outcome, <<c>>) = Put(Typed(Outcome, <<>>), c)
      BY <2>1, <3>1, Typing!FoldAppend DEF Typed
    <3> QED BY <1>4, <3>2, Typing!FoldEmpty DEF Typed
  <2> HIDE DEF all
  <2>6. RowShows(Put(Outcome, c), Append(all, c))
    BY <2>3, <2>4, RowGrows
  <2> QED BY <2>4, <2>5, <2>6
<1>9. LineInv'
  BY <1>2, <1>6, <1>7, <1>8 DEF LineInv
<1> QED BY <1>4, <1>9 DEF ConsoleInv

LEMMA EchoEraseKeeps == ASSUME ConsoleInv, EchoErase PROVE ConsoleInv'
<1>1. /\ mode = "edit" /\ line # <<>> /\ Write(<<"bs", Blank, "bs">>) /\ line' = Front(line)
      /\ mode' = "edit" /\ longest' = longest /\ column' = column
  BY DEF EchoErase
<1>2. <<"bs", Blank, "bs">> \in Strings
  BY DEF Strings
<1>3. /\ ScreenInv' /\ lost' = {} /\ StringInv' /\ TerminalInv'
      /\ Outcome' = Typed(Outcome, <<"bs", Blank, "bs">>)
  BY <1>1, <1>2, WriteKeeps
<1>4. line \in Seq(Glyphs) /\ longest \in Nat /\ Len(line) <= longest
  BY DEF ConsoleInv, LineInv
<1>5. line' \in Seq(Glyphs) /\ Len(line') = Len(line) - 1 /\ Len(line) \in Nat
  BY <1>1, <1>4, FrontOf
<1>6. ASSUME Fits' PROVE RowShows(Outcome, Prompt \o line)'
  <2> DEFINE S == Glyphs \cup {Blank}
             all == Prompt \o line
  <2>1. Prompt \in Seq(S) /\ line \in Seq(S) /\ line' \in Seq(S) /\ CONSOLE_WIDTH \in Nat
    BY <1>4, <1>5, SessionAssumption, Sizes
  <2>2. Fits
    BY <1>1, <1>6 DEF Fits
  <2>3. RowShows(Outcome, all)
    BY <1>1, <2>2 DEF ConsoleInv, LineInv
  <2>4. all \in Seq(S) /\ Len(all) <= CONSOLE_WIDTH /\ all # <<>>
    <3>1. Len(line) \in Nat /\ Len(line) # 0 /\ Len(Prompt) \in Nat
      BY <1>1, <1>4, <2>1
    <3>2. all \in Seq(S) /\ Len(all) = Len(Prompt) + Len(line)
      <4> HIDE DEF S
      <4> QED BY <2>1
    <3> HIDE DEF all
    <3> QED BY <1>4, <2>1, <2>2, <3>1, <3>2 DEF Fits
  <2>5. Front(all) = Prompt \o line'
    <3> HIDE DEF S
    <3> QED BY <1>1, <2>1, FrontOfBoth
  <2> HIDE DEF all, S
  <2>6. RowShows(Typed(Outcome, <<"bs", Blank, "bs">>), Front(all))
    BY <2>3, <2>4, RowShrinks
  <2> QED BY <1>3, <2>5, <2>6
<1>7. LineInv'
  <2>1. Len(line') <= longest'
    BY <1>1, <1>4, <1>5
  <2> QED BY <1>1, <1>4, <1>5, <1>6, <2>1 DEF LineInv
<1> QED BY <1>3, <1>7 DEF ConsoleInv

LEMMA EchoEnterKeeps == ASSUME ConsoleInv, EchoEnter PROVE ConsoleInv'
<1>1. /\ Write(<<"lf">>) /\ mode' = "print" /\ UNCHANGED <<line, longest, column>>
  BY DEF EchoEnter, lineVars
<1>2. <<"lf">> \in Strings
  BY DEF Strings
<1>3. /\ ~writing /\ <<"lf">> \in Seq(Chars)
      /\ ScreenInv' /\ lost' = {} /\ StringInv' /\ TerminalInv'
      /\ Outcome' = Typed(Outcome, <<"lf">>)
  BY <1>1, <1>2, WriteKeeps
<1>4. RowShows(Typed(Outcome, <<"lf">>), <<>>)
  <2>1. <<"lf">> # <<>> /\ Last(<<"lf">>) = "lf"
    BY DEF Last
  <2> QED BY <1>3, <2>1, AgreeBetween, LineEndClears
<1>5. LineInv'
  BY <1>1, <1>3, <1>4 DEF ConsoleInv, LineInv
<1> QED BY <1>3, <1>5 DEF ConsoleInv

\* Drawing a character takes it from what is left of the string, and puts it on the
\* picture: the outcome stays what it was.
LEMMA DrawCharGoesOn ==
  ASSUME ConsoleInv, DrawChar, column' = column, UNCHANGED <<mode, fresh, line, longest>>
  PROVE  ConsoleInv'
<1> DEFINE c == Head(text)
<1>1. /\ writing /\ writing' = writing /\ text # <<>> /\ text' = Tail(text)
      /\ video' = video /\ lost' = lost
      /\ CarriageReturn \/ ScrollUp \/ StayAtEdge \/ Wipe \/ Draw
  BY DEF DrawChar
<1>2. ScreenInv /\ lost = {} /\ text \in Seq(Chars)
  BY DEF ConsoleInv, StringInv
<1>3. /\ c = text[1] /\ Tail(text) \in Seq(Chars) /\ Len(text) \in Nat
      /\ Len(Tail(text)) = Len(text) - 1
      /\ \A i \in 1 .. Len(text) - 1 : Tail(text)[i] = text[i + 1]
      /\ 1 \in 1 .. Len(text)
  BY <1>1, <1>2
<1>4. c = "lf" => cursorX = 0
  BY <1>3 DEF ConsoleInv, StringInv
<1>5. Outcome' = Outcome
  <2>1. <<Pic(buf'), cursorX'>> = Put(<<Pic(buf), cursorX>>, c)
    BY <1>2, <1>4, DrawingIsTyping
  <2>2. Outcome = Typed(Put(<<Pic(buf), cursorX>>, c), Tail(text))
    BY <1>1, <1>2, TypedHeadFirst DEF Outcome
  <2>3. Outcome' = Typed(<<Pic(buf'), cursorX'>>, Tail(text))
    BY <1>1 DEF Outcome, Pic
  <2> QED BY <2>1, <2>2, <2>3
<1>6. StringInv'
  <2>1. ASSUME NEW i \in 1 .. Len(text'), text'[i] = "lf"
        PROVE  IF i = 1 THEN cursorX' = 0 ELSE text'[i - 1] = "cr"
    <3>1. i \in 1 .. Len(text) - 1 /\ i + 1 \in 1 .. Len(text) /\ i + 1 # 1 /\ (i + 1) - 1 = i
      BY <1>1, <1>3
    <3>2. text[i + 1] = "lf"
      BY <1>1, <1>3, <2>1, <3>1
    <3>3. text[i] = "cr"
      BY <3>1, <3>2 DEF ConsoleInv, StringInv
    <3>4. CASE i = 1
      <4>1. c = "cr"
        BY <1>3, <3>3, <3>4
      <4>2. CarriageReturn
        BY <1>1, <4>1 DEF ScrollUp, StayAtEdge, Wipe, Draw, Controls
      <4> QED BY <3>4, <4>2 DEF CarriageReturn
    <3>5. CASE i # 1
      <4>1. i - 1 \in 1 .. Len(text) - 1 /\ (i - 1) + 1 = i
        BY <1>3, <3>1, <3>5
      <4>2. text'[i - 1] = text[i]
        BY <1>1, <1>3, <4>1
      <4> QED BY <3>3, <3>5, <4>2
    <3> QED BY <3>4, <3>5
  <2> QED BY <1>1, <1>3, <2>1 DEF StringInv
<1>7. TerminalInv'
  <2>1. Screen' = Screen
    BY <1>1 DEF Screen
  <2> QED BY <1>1, <1>5, <2>1 DEF ConsoleInv, TerminalInv
<1>8. LineInv'
  BY <1>5 DEF ConsoleInv, LineInv, Fits
<1> QED BY <1>1, <1>2, <1>6, <1>7, <1>8, DrawCharKeeps DEF ConsoleInv

\* At the end of a string the screen and the column become its outcome.
LEMMA BlitBufferShows ==
  ASSUME ~Faults, ConsoleInv, BlitBuffer, column' = cursorX',
         UNCHANGED <<mode, fresh, line, longest>>
  PROVE  /\ ConsoleInv'
         /\ <<Screen', column'>> = Outcome
<1>1. /\ writing /\ writing' = FALSE /\ text = <<>> /\ text' = <<>>
      /\ buf' = buf /\ cursorX' = cursorX
  BY DEF BlitBuffer
<1>2. lost' = {}
  BY DEF ConsoleInv, BlitBuffer
<1>3. ScreenInv'
  BY BlitBufferKeeps DEF ConsoleInv
<1>4. Outcome' = Outcome /\ Outcome = <<Pic(buf), cursorX>>
  BY <1>1, Typing!FoldEmpty DEF Outcome, Pic, Typed
<1>5. StringInv' /\ TerminalInv'
  BY <1>1 DEF StringInv, TerminalInv
<1>6. LineInv'
  BY <1>4 DEF ConsoleInv, LineInv, Fits
<1>7. ConsoleInv'
  BY <1>2, <1>3, <1>5, <1>6 DEF ConsoleInv
<1>8. video' = buf'
  <2>1. damage' = NoDamage
    BY <1>1, <1>3 DEF ScreenInv, CleanBetween
  <2>2. \A cell \in Cells : video'[cell] = buf'[cell]
    BY <1>2, <1>3, <2>1, NothingCopied DEF ScreenInv, VideoFollows
  <2> QED BY <1>3, <2>2 DEF ScreenInv, PictureOK, Grid
<1>9. Screen' = Pic(buf)
  BY <1>1, <1>8 DEF Screen, Pic
<1> QED BY <1>1, <1>4, <1>7, <1>9

LEMMA ConsoleStep ==
  ASSUME ~Faults, ConsoleInv, [ConsoleNext]_consoleVars
  PROVE  /\ ConsoleInv'
         /\ [Promised!Write]_(<<Screen, column>>)
<1>1. CASE Message \/ Ask \/ EchoLetter \/ EchoErase \/ EchoEnter
  <2>1. ConsoleInv'
    BY <1>1, MessageKeeps, AskKeeps, EchoLetterKeeps, EchoEraseKeeps, EchoEnterKeeps
  <2>2. video' = video /\ column' = column
    BY <1>1 DEF Message, Ask, EchoLetter, EchoErase, EchoEnter, Write
  <2>3. Screen' = Screen
    BY <2>2 DEF Screen
  <2> QED BY <2>1, <2>2, <2>3
<1>2. CASE Output /\ DrawChar
  <2>1. writing' /\ video' = video
    BY <1>2 DEF DrawChar
  <2>2. column' = column /\ UNCHANGED <<mode, fresh, line, longest>>
    BY <1>2, <2>1 DEF Output, lineVars
  <2>3. ConsoleInv'
    BY <1>2, <2>2, DrawCharGoesOn
  <2>4. Screen' = Screen
    BY <2>1 DEF Screen
  <2> QED BY <2>2, <2>3, <2>4
<1>3. CASE Output /\ BlitBuffer
  <2>1. writing /\ ~writing'
    BY <1>3 DEF BlitBuffer
  <2>2. column' = cursorX' /\ UNCHANGED <<mode, fresh, line, longest>>
    BY <1>3, <2>1 DEF Output, lineVars
  <2>3. ConsoleInv' /\ <<Screen', column'>> = Outcome
    BY <1>3, <2>2, BlitBufferShows
  <2>4. PICK s \in Strings : Outcome = Typed(<<Screen, column>>, s)
    BY <2>1 DEF ConsoleInv, TerminalInv
  <2>5. <<Screen', column'>> = Promised!FoldLeft(Promised!Put, <<Screen, column>>, s)
    BY <2>3, <2>4, TypingFolds
  <2>6. Promised!Write
    BY <2>5 DEF Promised!Write
  <2> QED BY <2>3, <2>6
<1>4. CASE UNCHANGED consoleVars
  <2>1. UNCHANGED <<text, writing, buf, cursorX, damage, video, lost,
                    mode, fresh, line, longest, column>>
    BY <1>4 DEF consoleVars, vars, lineVars
  <2>2. Screen' = Screen /\ Outcome' = Outcome
    BY <2>1 DEF Screen, Outcome, Pic
  <2>3. ScreenInv'
    BY <2>1 DEF ConsoleInv, ScreenInv, PictureOK, CursorOK, DamageOK, CleanBetween,
                VideoFollows
  <2>4. StringInv' /\ TerminalInv' /\ LineInv'
    BY <2>1, <2>2 DEF ConsoleInv, StringInv, TerminalInv, LineInv, Fits
  <2> QED BY <2>1, <2>2, <2>3, <2>4 DEF ConsoleInv
<1> QED BY <1>1, <1>2, <1>3, <1>4 DEF ConsoleNext, Output

LEMMA ConsoleBegins ==
  ConsoleInit => ConsoleInv /\ Promised!Init
<1> SUFFICES ASSUME ConsoleInit PROVE ConsoleInv /\ Promised!Init
  OBVIOUS
<1>1. /\ Init /\ mode = "print" /\ fresh /\ line = <<>> /\ longest = 0 /\ column = 0
      /\ text = <<>> /\ ~writing /\ buf = Empty /\ cursorX = 0 /\ video = Empty /\ lost = {}
  BY DEF ConsoleInit, Init
<1> DEFINE H == CONSOLE_HEIGHT
           W == CONSOLE_WIDTH
<1>2. Pic(Empty) = [i \in 1 .. H |-> [j \in 1 .. W |-> Blank]]
  <2>1. ASSUME NEW i \in 1 .. H, NEW j \in 1 .. W PROVE Empty[<<j - 1, i - 1>>] = Blank
    BY CellOfRow DEF Empty
  <2> QED BY <2>1 DEF Pic
<1>3. Promised!Init
  BY <1>1, <1>2, ScreenIsPic DEF Promised!Init, Promised!BlankRow, Promised!Space, Blank
<1>4. ScreenInv
  BY <1>1, InitHolds
<1>5. StringInv /\ TerminalInv
  <2>1. text \in Seq(Chars) /\ Len(text) = 0
    BY <1>1
  <2> QED BY <1>1, <2>1 DEF StringInv, TerminalInv
<1>6. RowShows(Outcome, <<>>)
  <2> DEFINE state == <<Pic(Empty), 0>>
  <2>1. Outcome = state
    BY <1>1, Typing!FoldEmpty DEF Outcome, Typed
  <2>2. state[1] = Pic(Empty) /\ state[2] = 0 /\ state = <<state[1], state[2]>>
    OBVIOUS
  <2>3. H \in 1 .. H
    BY Sizes
  <2>4. IsScreen(Pic(Empty)) /\ \A j \in 1 .. W : Pic(Empty)[H][j] = Blank
    BY <1>2, <2>3, PicIsScreen
  <2>5. Len(<<>>) = 0 /\ \A j \in 1 .. W : ~(j \in 1 .. Len(<<>>))
    OBVIOUS
  <2> HIDE DEF state
  <2>6. RowShows(state, <<>>)
    BY <2>2, <2>4, <2>5 DEF RowShows
  <2> QED BY <2>1, <2>6
<1>7. LineInv
  <2>1. line \in Seq(Glyphs) /\ longest \in Nat /\ Len(line) <= longest
    BY <1>1
  <2> QED BY <1>1, <1>6, <2>1 DEF LineInv
<1> QED BY <1>1, <1>3, <1>4, <1>5, <1>7 DEF ConsoleInv

\* On a firmware that refuses no copy: the string being written, the picture and
\* the screen stay in step, and what the row will show when it is written is known.
THEOREM ConsoleInvariant == ASSUME ~Faults PROVE ConsoleSpec => []ConsoleInv
<1>1. ConsoleInit => ConsoleInv
  BY ConsoleBegins
<1>2. ConsoleInv /\ [ConsoleNext]_consoleVars => ConsoleInv'
  BY ConsoleStep
<1> QED BY <1>1, <1>2, PTL DEF ConsoleSpec

\* The last row shows the prompt and the line typed so far, and nothing else,
\* whatever is typed and erased, while they fit in it.
THEOREM EchoIsTheLine == ASSUME ~Faults PROVE ConsoleSpec => []EchoShowsLine
<1>1. ConsoleInv => EchoShowsLine
  <2> DEFINE all == Prompt \o line
             S == Glyphs \cup {Blank}
             H == CONSOLE_HEIGHT
  <2> SUFFICES ASSUME ConsoleInv, mode = "edit", ~writing, Fits,
                      NEW i \in 1 .. CONSOLE_WIDTH
               PROVE  video[<<i - 1, LastRow>>] = IF i \in DOMAIN all THEN all[i] ELSE Blank
    BY DEF EchoShowsLine, Fits
  <2>1. RowShows(<<Screen, column>>, all)
    BY AgreeBetween DEF ConsoleInv, LineInv
  <2>2. H \in 1 .. H /\ LastRow = H - 1
    BY Sizes DEF LastRow
  <2>3. Screen[H][i] = video[<<i - 1, LastRow>>]
    BY <2>2 DEF Screen
  <2>4. Screen[H][i] = IF i \in 1 .. Len(all) THEN all[i] ELSE Blank
    <3> HIDE DEF all
    <3> QED BY <2>1 DEF RowShows
  <2>5. DOMAIN all = 1 .. Len(all)
    <3>1. Prompt \in Seq(S) /\ line \in Seq(S)
      BY SessionAssumption DEF ConsoleInv, LineInv
    <3> HIDE DEF S
    <3> QED BY <3>1
  <2> QED BY <2>3, <2>4, <2>5
<1> QED BY <1>1, ConsoleInvariant, PTL

\* The console is a terminal on which strings appear at once: every step of a
\* session but the last of a string leaves the terminal alone, and that one types
\* the string, as it was given, on it.
THEOREM ConsoleImplementsTerminal == ASSUME ~Faults PROVE ConsoleSpec => ImplementsTerminal
<1>1. ConsoleInit => Promised!Init
  BY ConsoleBegins
<1>2. ConsoleInv /\ [ConsoleNext]_consoleVars => [Promised!Write]_(<<Screen, column>>)
  BY ConsoleStep
<1> QED BY <1>1, <1>2, ConsoleInvariant, PTL
        DEF ConsoleSpec, ImplementsTerminal, Promised!Spec
=============================================================================
