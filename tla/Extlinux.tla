------------------------------ MODULE Extlinux ------------------------------
(***************************************************************************)
(* The parser of extlinux-like configurations.  A configuration t is a     *)
(* sequence of symbols: a blank, the end of a line, or a word.  What the   *)
(* parser tells apart is kept, a character more or less in a word is not:  *)
(* a word either is the one looked for or is another.  A pointer is a      *)
(* position in t, the null pointer is 0.                                   *)
(***************************************************************************)
EXTENDS Naturals, Sequences, SequencesExt

CONSTANT Word

NULL == 0
Blank == "blank"
EOL == "eol"
NUL == "nul"

ASSUME WordsAreNotMarks == Word \cap {Blank, EOL, NUL} = {}

Pointer(t) == 0 .. Len(t) + 1

At(t, p) == IF p \in DOMAIN t THEN t[p] ELSE NUL

\* Keys are sequences of words: "menu title" has two.
LabelKey == <<"label">>

Bug_KeepsIndentation(t, p) == p
skip_space(t, p) ==
  Min({q \in p .. Len(t) + 1 : At(t, q) # Blank})

\* Each word of the key has to be followed by a blank, and the last one by a
\* value on the same line.
after_word(t, p, word) ==
  IF p # NULL /\ At(t, p) = word /\ At(t, p + 1) = Blank
    THEN skip_space(t, p + 1)
    ELSE NULL

match_key(t, p, key) ==
  LET after[n \in 0 .. Len(key)] ==
        IF n = 0 THEN p ELSE after_word(t, after[n - 1], key[n])
      value == after[Len(key)]
  IN  IF At(t, value) \in Word THEN value ELSE NULL

\* The end of the line p is in.
line_end(t, p) == Min({q \in p .. Len(t) + 1 : At(t, q) \in {EOL, NUL}})

next_line(t, p) ==
  IF p # NULL /\ At(t, line_end(t, p) + 1) # NUL THEN line_end(t, p) + 1 ELSE NULL

extlinux_next_entry(t, start, last) ==
  LET entry[p \in Pointer(t)] ==
        IF p = NULL THEN NULL
        ELSE IF match_key(t, skip_space(t, p), LabelKey) # NULL THEN skip_space(t, p)
        ELSE entry[next_line(t, p)]
  IN  entry[IF last # NULL THEN next_line(t, last) ELSE start]

\* A label ends an entry, unless labels are what is looked for.
Bug_NoEnd(t, p, key) == FALSE
ends_entry(t, p, key) == key # LabelKey /\ match_key(t, p, LabelKey) # NULL

\* Where the value of extlinux_get_value() starts.
value_of(t, start, key) ==
  LET value[p \in Pointer(t)] ==
        LET q == skip_space(t, p)
        IN  IF p = NULL \/ At(t, q) = NUL \/ ends_entry(t, q, key) THEN NULL
            ELSE IF match_key(t, q, key) # NULL THEN match_key(t, q, key)
            ELSE value[next_line(t, q)]
      atEntry == key # LabelKey /\ match_key(t, start, LabelKey) # NULL
  IN  value[IF atEntry THEN next_line(t, start) ELSE start]

\* Its length, without the blanks behind it.
value_len(t, v) ==
  Max({q \in v .. line_end(t, v) - 1 : At(t, q) # Blank}) - v + 1

\* The value itself, as a caller copies it.
extlinux_get_value(t, start, key) ==
  LET v == value_of(t, start, key)
  IN  IF v = NULL THEN <<>> ELSE SubSeq(t, v, v + value_len(t, v) - 1)
=============================================================================
