------------------------------- MODULE Console -------------------------------
(***************************************************************************)
(* A session on the graphical console: the messages and the menu the       *)
(* program prints, the prompt, and what getline_timeout() prints for each  *)
(* key of the line edited behind it.                                       *)
(***************************************************************************)
EXTENDS Framebuffer

CONSTANTS
  Prompt,     \* what wait_for_boot_entry() prints first
  MaxLine     \* bound on the length of a line

ASSUME SessionAssumption ==
  /\ Prompt \in Seq(Glyphs \cup {Blank})
  /\ MaxLine \in Nat

VARIABLES
  mode,       \* "print", or "edit" behind the prompt
  fresh,      \* has the last string ended its line?
  line,       \* the line edited
  longest,    \* the longest it has been
  column      \* the cursor as the last string has left it

lineVars == <<line, longest>>
consoleVars == <<vars, mode, fresh, lineVars, column>>

Message ==
  /\ mode = "print"
  /\ \E s \in Texts :
       /\ Write(s)
       /\ fresh' = IF s = <<>> THEN fresh ELSE Last(s) = "lf"
  /\ UNCHANGED <<mode, lineVars, column>>

\* All that is printed before the prompt ends its line.
Ask ==
  /\ mode = "print"
  /\ fresh
  /\ Write(Prompt)
  /\ mode' = "edit"
  /\ line' = <<>>
  /\ longest' = 0
  /\ UNCHANGED <<fresh, column>>

EchoLetter ==
  /\ mode = "edit"
  /\ Len(line) < MaxLine
  /\ \E c \in Glyphs : Write(<<c>>) /\ line' = Append(line, c)
  /\ longest' = Max({longest, Len(line')})
  /\ UNCHANGED <<mode, fresh, column>>

\* Nothing is erased when the line is empty.
EchoErase ==
  /\ mode = "edit"
  /\ line # <<>>
  /\ Write(<<"bs", Blank, "bs">>)
  /\ line' = Front(line)
  /\ UNCHANGED <<mode, fresh, longest, column>>

EchoEnter ==
  /\ mode = "edit"
  /\ Write(<<"lf">>)
  /\ mode' = "print"
  /\ fresh' = TRUE
  /\ UNCHANGED <<lineVars, column>>

Output ==
  /\ DrawChar \/ BlitBuffer
  /\ column' = IF writing' THEN column ELSE cursorX'
  /\ UNCHANGED <<mode, fresh, lineVars>>

ConsoleInit ==
  /\ Init
  /\ mode = "print"
  /\ fresh = TRUE
  /\ line = <<>>
  /\ longest = 0
  /\ column = 0

ConsoleNext == Message \/ Ask \/ EchoLetter \/ EchoErase \/ EchoEnter \/ Output

ConsoleSpec == ConsoleInit /\ [][ConsoleNext]_consoleVars

-----------------------------------------------------------------------------
\* As long as prompt and line fit in the row, also when they fill it, the last
\* row shows them and nothing behind them: erasing wipes what typing has drawn,
\* and no more.
EchoShowsLine ==
  LET all == Prompt \o line
  IN  mode = "edit" /\ ~writing /\ Len(Prompt) + longest <= CONSOLE_WIDTH =>
        \A i \in 1 .. CONSOLE_WIDTH :
          video[<<i - 1, LastRow>>] = IF i \in DOMAIN all THEN all[i] ELSE Blank

\* The strings a session is made of.
Strings ==
  Texts \cup {Prompt, <<"bs", Blank, "bs">>, <<"lf">>} \cup {<<c>> : c \in Glyphs}

Screen ==
  [i \in 1 .. CONSOLE_HEIGHT |->
     [j \in 1 .. CONSOLE_WIDTH |-> video[<<j - 1, i - 1>>]]]

Promised ==
  INSTANCE Terminal WITH Wide <- CONSOLE_WIDTH, High <- CONSOLE_HEIGHT,
    Visible <- Glyphs, rows <- Screen

\* Whatever is written, the screen goes from one string to the next as a terminal
\* does: the copies are neither too small nor too late, and a string never
\* appears in parts.  (On a firmware that refuses no copy.)
ImplementsTerminal == Promised!Spec
=============================================================================
