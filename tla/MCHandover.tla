----------------------------- MODULE MCHandover -----------------------------
\* Paths with slashes of either kind, in all places, and one outside of ASCII.
EXTENDS Handover

PathSet ==
  {<<"a">>, <<"a", "/", "b">>, <<"/", "/", "a">>, <<"a", "\\", "/", "b", "/">>,
   <<"/", "\\", "/", "a", "/", "/", "b">>, <<"\\", "a">>, <<"a", "latin">>}
=============================================================================
