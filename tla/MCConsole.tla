------------------------------ MODULE MCConsole ------------------------------
(***************************************************************************)
(* Console with a prompt of two characters in a row of four, and short     *)
(* messages with and without an end of line.                               *)
(***************************************************************************)
EXTENDS Console

ShortPrompt == <<"a", Blank>>

Messages ==
  {<<>>, <<"b">>, <<"lf">>, <<"a", "lf">>, <<"b", "cr", "a">>, <<"high", "bs", "bs">>,
   <<"a", "b", "a", "b", "a">>}
=============================================================================
