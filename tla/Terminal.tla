------------------------------ MODULE Terminal ------------------------------
(***************************************************************************)
(* What the console promises its callers: a string appears at once, as on  *)
(* a terminal whose cursor is always in the last row.                      *)
(***************************************************************************)
EXTENDS Integers, Sequences, SequencesExt

CONSTANTS Wide, High, Visible, Strings

VARIABLES
  rows,      \* the rows of the screen, from the top; each Wide characters
  column     \* where the next character goes: Wide if the row is full

Space == "blank"
BlankRow == [i \in 1 .. Wide |-> Space]

ScrolledUp(screen) == Append(Tail(screen), BlankRow)
WithChar(screen, at, c) == [screen EXCEPT ![High][at + 1] = c]

\* The screen and the column, after one character.
Put(state, c) ==
  LET screen == state[1]
      at == state[2]
  IN  CASE c = "cr" -> <<screen, 0>>
        [] c = "lf" -> <<ScrolledUp(screen), 0>>
        [] c = "bs" /\ at = 0 -> state
        [] c = "bs" /\ at > 0 -> <<WithChar(screen, at - 1, Space), at - 1>>
        [] c \notin {"cr", "lf", "bs"} /\ at < Wide ->
             <<WithChar(screen, at, IF c \in Visible THEN c ELSE Space), at + 1>>
        [] OTHER ->
             <<WithChar(ScrolledUp(screen), 0, IF c \in Visible THEN c ELSE Space), 1>>

Write ==
  \E s \in Strings : <<rows', column'>> = FoldLeft(Put, <<rows, column>>, s)

Init ==
  /\ rows = [i \in 1 .. High |-> BlankRow]
  /\ column = 0

Spec == Init /\ [][Write]_<<rows, column>>
=============================================================================
