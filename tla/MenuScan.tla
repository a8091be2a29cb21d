------------------------------ MODULE MenuScan ------------------------------
(***************************************************************************)
(* What cmdline_loop() makes of a configuration: the menu it shows, the    *)
(* default it settles on, and the entry menu_get_nth_entry() finds for a   *)
(* number, which is looked up by a second scan.                            *)
(***************************************************************************)
EXTENDS Integers, FiniteSets, Extlinux

CONSTANT Confs     \* the configurations that may be found

\* A text ends with its first NUL.
Texts == Seq(Word \cup {Blank, EOL})
ASSUME ConfsAreTexts == Confs \subseteq Texts

VARIABLES
  conf,            \* the configuration in memory
  pc,              \* "scan", "prompt", "seek" or "found"
  p,               \* the entry the scan has reached
  shown,           \* what the menu says: one record per number
  defaultEntry,
  selected,        \* the number asked for
  index,           \* entries menu_get_nth_entry() has still to skip
  entry            \* the one it has reached

vars == <<conf, pc, p, shown, defaultEntry, selected, index, entry>>

DefaultKey == <<"default">>
TitleKey == <<"menu", "title">>
KernelKey == <<"kernel">>

-----------------------------------------------------------------------------
\* strncmp() stops at a difference, at the end of either string or after n
\* characters, and then compares the characters it has stopped at.
Bug_StandardStrncmp(s1, s2, n) ==
  \A k \in 0 .. n - 1 : At(conf, s1 + k) = At(conf, s2 + k)
strncmp_is_zero(s1, s2, n) ==
  LET stop == Min({k \in 0 .. n : \/ k = n
                                  \/ At(conf, s1 + k) # At(conf, s2 + k)
                                  \/ At(conf, s1 + k) = NUL})
  IN  At(conf, s1 + stop) = At(conf, s2 + stop)

IsDefault(e) ==
  LET name == value_of(conf, 1, DefaultKey)
  IN  /\ name # NULL
      /\ strncmp_is_zero(name, value_of(conf, e, LabelKey), value_len(conf, name))

Title(e) ==
  IF value_of(conf, e, TitleKey) = NULL
    THEN extlinux_get_value(conf, e, LabelKey)
    ELSE extlinux_get_value(conf, e, TitleKey)

\* One turn of the loop that shows the menu.
ShowEntry ==
  /\ pc = "scan"
  /\ p # NULL
  /\ shown' = Append(shown, [at |-> p, title |-> Title(p)])
  /\ defaultEntry' = IF IsDefault(p) THEN Len(shown) ELSE defaultEntry
  /\ p' = extlinux_next_entry(conf, NULL, p)
  /\ UNCHANGED <<conf, pc, selected, index, entry>>

\* No entry matches: entry 0.
Bug_UncheckedDefault == defaultEntry
SettledDefault == IF defaultEntry < 0 THEN 0 ELSE defaultEntry

EndOfMenu ==
  /\ pc = "scan"
  /\ p = NULL
  /\ pc' = "prompt"
  /\ defaultEntry' = SettledDefault
  /\ UNCHANGED <<conf, p, shown, selected, index, entry>>

\* A number of the menu, typed or by default: menu_get_nth_entry() starts.
Select ==
  /\ pc \in {"prompt", "found"}
  /\ \E n \in 0 .. Len(shown) - 1 :
       /\ selected' = n
       /\ index' = n
  /\ entry' = extlinux_next_entry(conf, 1, NULL)
  /\ pc' = "seek"
  /\ UNCHANGED <<conf, p, shown, defaultEntry>>

\* while (index--)
Bug_StopsEarly == index > 1
MoreToSkip == index > 0

Skip ==
  /\ pc = "seek"
  /\ MoreToSkip
  /\ index' = index - 1
  /\ entry' = extlinux_next_entry(conf, NULL, entry)
  /\ UNCHANGED <<conf, pc, p, shown, defaultEntry, selected>>

Found ==
  /\ pc = "seek"
  /\ ~MoreToSkip
  /\ pc' = "found"
  /\ UNCHANGED <<conf, p, shown, defaultEntry, selected, index, entry>>

-----------------------------------------------------------------------------
Init ==
  /\ conf \in Confs
  /\ pc = "scan"
  /\ p = extlinux_next_entry(conf, 1, NULL)
  /\ shown = <<>>
  /\ defaultEntry = IF value_of(conf, 1, DefaultKey) = NULL THEN 0 ELSE -1
  /\ selected = 0
  /\ index = 0
  /\ entry = NULL

Next == ShowEntry \/ EndOfMenu \/ Select \/ Skip \/ Found

Spec == Init /\ [][Next]_vars

-----------------------------------------------------------------------------
(***************************************************************************)
(* What a configuration says, line by line.                                *)
(***************************************************************************)
Lines == {i \in DOMAIN conf : i = 1 \/ conf[i - 1] = EOL}

\* The symbols from i to j without the blanks.
Unblanked(s, c) == IF c = Blank THEN s ELSE Append(s, c)
Blanked(i, j) == FoldLeft(Unblanked, <<>>, SubSeq(conf, i, j))

\* The line starting at i gives key the value that starts at v.
Gives(i, key, v) ==
  /\ At(conf, v) \in Word
  /\ Blanked(i, v - 1) = key
  /\ \A q \in i .. v - 1 : At(conf, q) # Blank => At(conf, q + 1) = Blank

Pair(i, key) == \E v \in i .. Len(conf) : Gives(i, key, v)

\* The text from v to the end of its line, without the blanks behind it.
Text(v) ==
  LET rest == CHOOSE n \in 0 .. Len(conf) :
                /\ At(conf, v + n) \in {EOL, NUL}
                /\ \A k \in 0 .. n - 1 : At(conf, v + k) \notin {EOL, NUL}
      last == CHOOSE n \in 0 .. rest :
                /\ \A k \in n .. rest - 1 : At(conf, v + k) = Blank
                /\ n = 0 \/ At(conf, v + n - 1) # Blank
  IN  SubSeq(conf, v, v + last - 1)

\* The value of key among some lines: that of the first that gives one.
Meant(lines, key) ==
  LET pairs == {i \in lines : Pair(i, key)}
      i == Min(pairs)
  IN  IF pairs = {} THEN <<>>
      ELSE Text(CHOOSE v \in i .. Len(conf) : Gives(i, key, v))

Labels == {i \in Lines : Pair(i, LabelKey)}
Entries ==
  CHOOSE s \in [1 .. Cardinality(Labels) -> Labels] :
    \A j, k \in DOMAIN s : j < k => s[j] < s[k]

\* The lines of an entry.
Block(i) == {j \in Lines : j >= i /\ \A k \in Labels : k > i => j < k}

Label(i) == Meant({i}, LabelKey)

-----------------------------------------------------------------------------
(***************************************************************************)
(* Properties.                                                             *)
(***************************************************************************)
TypeOK ==
  /\ pc \in {"scan", "prompt", "seek", "found"}
  /\ p \in Pointer(conf)
  /\ \A k \in DOMAIN shown : shown[k].at \in Pointer(conf) \ {NULL}
  /\ defaultEntry \in -1 .. Len(shown)
  /\ pc # "scan" => defaultEntry >= 0
  /\ selected \in 0 .. Len(shown)
  /\ index \in 0 .. Len(shown)
  /\ entry \in Pointer(conf)

\* The menu lists every entry of the configuration, in its order, under its
\* title or its label, with the blanks around them gone.
MenuIsComplete ==
  pc = "prompt" =>
    /\ Len(shown) = Len(Entries)
    /\ \A k \in DOMAIN shown :
         LET i == Entries[k]
             title == Meant(Block(i), TitleKey)
         IN  /\ shown[k].at = skip_space(conf, i)
             /\ shown[k].title = IF title = <<>> THEN Label(i) ELSE title

\* The entry a number leads to is the one the menu shows under that number.
NumberMeansWhatIsShown ==
  pc = "found" => entry = shown[selected + 1].at

\* What is read of the entry found is what its own lines say, not what
\* a global line or another entry says.
EntryReadsItsOwn ==
  pc = "found" =>
    LET lines == Block(Entries[selected + 1])
    IN  /\ extlinux_get_value(conf, entry, KernelKey) = Meant(lines, KernelKey)
        /\ extlinux_get_value(conf, entry, LabelKey) = Meant(lines, LabelKey)

\* Is the value of default, and is every label, followed by the end of its line?
Clean ==
  \A i \in Lines : Pair(i, DefaultKey) \/ Pair(i, LabelKey) =>
    /\ At(conf, line_end(conf, i)) = EOL
    /\ At(conf, line_end(conf, i) - 1) # Blank

\* A default that is the label of an entry picks an entry with that label, and
\* one that is no label, or none, picks the first.
Resolved ==
  LET default == extlinux_get_value(conf, 1, DefaultKey)
      named == {k \in DOMAIN Entries : Label(Entries[k]) = default}
  IN  IF default = <<>> \/ named = {}
        THEN defaultEntry = 0
        ELSE defaultEntry + 1 \in named

DefaultResolved == pc = "prompt" /\ Clean => Resolved

\* "default: Specify the default entry to boot. Its value should be the label of
\* the default entry." (README.md:56-57)
DefaultIsItsLabel == pc = "prompt" => Resolved
=============================================================================
