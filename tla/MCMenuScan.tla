----------------------------- MODULE MCMenuScan -----------------------------
(***************************************************************************)
(* MenuScan on every configuration of up to MaxLines lines of some shapes, *)
(* the last one with or without its end of line.                           *)
(***************************************************************************)
EXTENDS MenuScan

CONSTANTS MaxLines, ShapeNames

Words == {"label", "default", "menu", "title", "kernel", "a", "b"}

\* What a line may look like, and what it is an example of.
Shape ==
  [empty       |-> <<>>,
   blank       |-> <<Blank>>,
   label       |-> <<"label", Blank, "a">>,
   longer      |-> <<"label", Blank, "a", Blank, "b">>,
   trailing    |-> <<Blank, "label", Blank, Blank, "a", Blank>>,
   doubled     |-> <<"label", Blank, "label", Blank, "b">>,
   noValue     |-> <<"label", Blank>>,
   labelGlued  |-> <<"label", Blank, "a", "b">>,
   glued       |-> <<"label", "a", Blank, "b">>,
   default     |-> <<"default", Blank, "a">>,
   defaultTail |-> <<"default", Blank, "a", Blank>>,
   defaultTwo  |-> <<"default", Blank, "a", Blank, "b">>,
   title       |-> <<"menu", Blank, Blank, "title", Blank, "b">>,
   noTitle     |-> <<"menu", Blank, "title", Blank>>,
   kernel      |-> <<Blank, "kernel", Blank, "label", Blank, "a">>]

Joined(lines) == FoldLeft(LAMBDA t, l : t \o Shape[l] \o <<EOL>>, <<>>, lines)

SomeConfs ==
  UNION {{Joined(lines), Front(Joined(lines))} :
            lines \in UNION {[1 .. n -> ShapeNames] : n \in 1 .. MaxLines}}

\* The default in front of every entry, and no line without its end.
DefaultFirst ==
  {t \in SomeConfs : Len(t) > 1 /\ t[1] = "default" /\ Last(t) = EOL}
=============================================================================
