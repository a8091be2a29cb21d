--------------------------- MODULE MenuScanProofs ---------------------------
(***************************************************************************)
(* Proofs about MenuScan, for every text a configuration may be: the menu  *)
(* lists the entries its lines make, whatever is read of an entry is what  *)
(* its own lines say, the default is the entry it names, and the second    *)
(* scan finds the entry the first has shown under the same number.         *)
(***************************************************************************)
EXTENDS MenuScan, SequenceTheorems, FiniteSetTheorems, TLAPS

Reading == INSTANCE Folding WITH Op <- Unblanked

-----------------------------------------------------------------------------
(***************************************************************************)
(* The second scan, whatever extlinux_next_entry() makes of a text.        *)
(***************************************************************************)
First == extlinux_next_entry(conf, 1, NULL)
After(e) == extlinux_next_entry(conf, NULL, e)

\* The menu is the chain of entries the parser steps through...
MenuIsSeq == \E S : shown \in Seq(S)

Chained ==
  /\ shown # <<>> => shown[1].at = First
  /\ \A k \in 1 .. Len(shown) - 1 : shown[k + 1].at = After(shown[k].at)

\* ... with the scan at its end ...
ScanAtEnd ==
  p = IF shown = <<>> THEN First ELSE After(shown[Len(shown)].at)

\* ... and the second scan index entries in front of the one selected.
SeekOnTheWay ==
  pc \in {"seek", "found"} =>
    /\ selected \in 0 .. Len(shown) - 1
    /\ index \in 0 .. selected
    /\ pc = "found" => index = 0
    /\ entry = shown[selected - index + 1].at

SeekInv == MenuIsSeq /\ Chained /\ ScanAtEnd /\ SeekOnTheWay

\* What Append() does to a sequence of anything.
LEMMA Appended ==
  ASSUME NEW S, NEW s \in Seq(S), NEW e
  PROVE  /\ Append(s, e) \in Seq(S \cup {e})
         /\ Len(s) \in Nat
         /\ Len(Append(s, e)) = Len(s) + 1
         /\ \A k \in 1 .. Len(s) : Append(s, e)[k] = s[k]
         /\ Append(s, e)[Len(s) + 1] = e
         /\ s = <<>> <=> Len(s) = 0
<1>1. s \in Seq(S \cup {e}) /\ e \in S \cup {e}
  OBVIOUS
<1> QED BY <1>1

\* The scan that shows the menu appends the entry it has reached and goes on to
\* the next.
LEMMA ShowEntryKeeps == ASSUME SeekInv, ShowEntry PROVE SeekInv'
<1> DEFINE item == [at |-> p, title |-> Title(p)]
<1>1. /\ shown' = Append(shown, item) /\ item.at = p
      /\ p' = After(p) /\ pc' = pc /\ pc = "scan" /\ conf' = conf
  BY DEF ShowEntry, After
<1>2. PICK S : shown \in Seq(S)
  BY DEF SeekInv, MenuIsSeq
<1>3. /\ shown' \in Seq(S \cup {item})
      /\ Len(shown) \in Nat /\ Len(shown') = Len(shown) + 1
      /\ \A k \in 1 .. Len(shown) : shown'[k] = shown[k]
      /\ shown'[Len(shown) + 1].at = p
      /\ shown' # <<>>
      /\ shown = <<>> <=> Len(shown) = 0
  <2> HIDE DEF item
  <2>1. /\ Append(shown, item) \in Seq(S \cup {item})
        /\ Len(shown) \in Nat
        /\ Len(Append(shown, item)) = Len(shown) + 1
        /\ \A k \in 1 .. Len(shown) : Append(shown, item)[k] = shown[k]
        /\ Append(shown, item)[Len(shown) + 1] = item
        /\ shown = <<>> <=> Len(shown) = 0
    BY <1>2, Appended
  <2>2. Append(shown, item) # <<>>
    BY <2>1
  <2> QED BY <1>1, <2>1, <2>2
<1>4. MenuIsSeq'
  BY <1>3 DEF MenuIsSeq
<1>5. First' = First /\ \A e : After(e)' = After(e)
  BY <1>1 DEF First, After
<1>6. Chained'
  <2>1. shown'[1].at = First
    BY <1>3 DEF SeekInv, Chained, ScanAtEnd
  <2>2. ASSUME NEW k \in 1 .. Len(shown') - 1
        PROVE  shown'[k + 1].at = After(shown'[k].at)
    <3>1. CASE k = Len(shown)
      BY <1>3, <3>1 DEF SeekInv, ScanAtEnd
    <3>2. CASE k \in 1 .. Len(shown) - 1
      BY <1>3, <3>2 DEF SeekInv, Chained
    <3> QED BY <1>3, <2>2, <3>1, <3>2
  <2> QED BY <1>5, <2>1, <2>2 DEF Chained
<1>7. ScanAtEnd'
  BY <1>1, <1>3, <1>5 DEF ScanAtEnd
<1>8. SeekOnTheWay'
  BY <1>1 DEF SeekOnTheWay
<1> QED BY <1>4, <1>6, <1>7, <1>8 DEF SeekInv

\* The other steps leave the menu alone.
LEMMA MenuKept ==
  ASSUME SeekInv, UNCHANGED <<conf, p, shown>>
  PROVE  (MenuIsSeq /\ Chained /\ ScanAtEnd)'
<1>1. First' = First /\ \A e : After(e)' = After(e)
  BY DEF First, After
<1> QED BY <1>1 DEF SeekInv, MenuIsSeq, Chained, ScanAtEnd

\* The entry found is an inductive consequence of the chain (menu.c:49-58).
THEOREM SeekInvariance == Spec => []SeekInv
<1>1. Init => SeekInv
  <2> SUFFICES ASSUME Init PROVE SeekInv
    OBVIOUS
  <2>1. shown = <<>> /\ pc = "scan" /\ p = First /\ Len(shown) = 0
    BY DEF Init, First
  <2>2. shown \in Seq({})
    BY <2>1
  <2> QED BY <2>1, <2>2 DEF SeekInv, MenuIsSeq, Chained, ScanAtEnd, SeekOnTheWay
<1>2. SeekInv /\ [Next]_vars => SeekInv'
  <2> SUFFICES ASSUME SeekInv, [Next]_vars PROVE SeekInv'
    OBVIOUS
  <2> USE DEF SeekInv
  <2>0. Len(shown) \in Nat
    BY DEF MenuIsSeq
  <2>1. CASE ShowEntry
    BY <2>1, ShowEntryKeeps
  <2>2. CASE EndOfMenu
    BY <2>2, MenuKept DEF EndOfMenu, SeekOnTheWay
  <2>3. CASE Select
    <3>1. PICK n \in 0 .. Len(shown) - 1 : selected' = n /\ index' = n
      BY <2>3 DEF Select
    <3>2. entry' = shown[1].at
      BY <2>0, <2>3, <3>1 DEF Select, Chained, First
    <3> QED BY <2>0, <2>3, <3>1, <3>2, MenuKept DEF Select, SeekOnTheWay
  <2>4. CASE Skip
    <3>1. /\ selected \in 0 .. Len(shown) - 1 /\ index \in 1 .. selected
          /\ entry = shown[selected - index + 1].at
      BY <2>0, <2>4 DEF Skip, MoreToSkip, SeekOnTheWay
    <3>2. entry' = shown[selected - index + 2].at
      <4> DEFINE k == selected - index + 1
      <4>1. k \in 1 .. Len(shown) - 1 /\ k + 1 = selected - index + 2
        BY <2>0, <3>1
      <4>2. entry' = After(shown[k].at)
        BY <2>4, <3>1 DEF Skip, After
      <4> QED BY <4>1, <4>2 DEF Chained
    <3>3. /\ UNCHANGED <<conf, p, shown, selected>> /\ pc' = "seek"
          /\ index' = index - 1 /\ selected' - index' + 1 = selected - index + 2
      BY <2>0, <2>4, <3>1 DEF Skip
    <3> QED BY <2>0, <3>1, <3>2, <3>3, MenuKept DEF SeekOnTheWay
  <2>5. CASE Found
    BY <2>0, <2>5, MenuKept DEF Found, MoreToSkip, SeekOnTheWay
  <2>6. CASE UNCHANGED vars
    BY <2>6, MenuKept DEF vars, SeekOnTheWay
  <2> QED BY <2>1, <2>2, <2>3, <2>4, <2>5, <2>6 DEF Next
<1> QED BY <1>1, <1>2, PTL DEF Spec

\* Whatever the text, the number typed at the prompt leads to the entry the menu
\* shows under it, though the entry is looked up by a second scan.
THEOREM NumberLeadsToShown == Spec => []NumberMeansWhatIsShown
<1>1. SeekInv => NumberMeansWhatIsShown
  <2> SUFFICES ASSUME SeekInv, pc = "found" PROVE entry = shown[selected + 1].at
    BY DEF NumberMeansWhatIsShown
  <2>1. /\ Len(shown) \in Nat /\ selected \in 0 .. Len(shown) - 1 /\ index = 0
        /\ entry = shown[selected - index + 1].at
    BY DEF SeekInv, SeekOnTheWay, MenuIsSeq
  <2> QED BY <2>1
<1> QED BY <1>1, SeekInvariance, PTL

-----------------------------------------------------------------------------
(***************************************************************************)
(* Places in the text, and what stands between two of them.                *)
(***************************************************************************)
\* Where a pointer into the text may point.
Places == 1 .. Len(conf) + 1
Symbols == Word \cup {Blank, EOL}

\* Before its end a text holds words, blanks and ends of lines, from there on NUL.
LEMMA TextIs ==
  ASSUME conf \in Texts
  PROVE  /\ Len(conf) \in Nat /\ DOMAIN conf = 1 .. Len(conf)
         /\ conf \in Seq(Symbols)
         /\ \A q \in 1 .. Len(conf) : At(conf, q) = conf[q] /\ At(conf, q) \in Symbols
         /\ \A q : At(conf, q) = NUL <=> q \notin 1 .. Len(conf)
<1>1. conf \in Seq(Symbols) /\ Len(conf) \in Nat /\ DOMAIN conf = 1 .. Len(conf)
  BY DEF Texts, Symbols
<1>2. NUL \notin Symbols
  BY WordsAreNotMarks DEF Symbols, NUL, Blank, EOL
<1>3. ASSUME NEW q \in 1 .. Len(conf) PROVE conf[q] \in Symbols
  <2> HIDE DEF Symbols
  <2> QED BY <1>1
<1> QED BY <1>1, <1>2, <1>3 DEF At

\* The smallest number of a set is in it...
LEMMA LeastOf ==
  ASSUME NEW S \in SUBSET Nat, S # {}
  PROVE  Min(S) \in S /\ \A y \in S : Min(S) <= y
<1>1. \E m \in S : \A y \in S : m <= y
  BY Reading!LeastNumber
<1> QED BY <1>1 DEF Min

\* ... and is the only one not above any other.
LEMMA LeastIs ==
  ASSUME NEW S \in SUBSET Nat, NEW m \in S, \A y \in S : m <= y
  PROVE  Min(S) = m
<1>1. Min(S) \in S /\ Min(S) <= m
  BY LeastOf
<1>2. Min(S) \in Nat /\ m \in Nat /\ m <= Min(S)
  BY <1>1
<1> QED BY <1>1, <1>2

\* The largest number of a set.
LEMMA LargestIs ==
  ASSUME NEW S \in SUBSET Nat, NEW m \in S, \A y \in S : y <= m
  PROVE  Max(S) = m
<1>1. \E x \in S : \A y \in S : x >= y
  OBVIOUS
<1>2. Max(S) \in S /\ Max(S) >= m
  BY <1>1 DEF Max
<1>3. Max(S) \in Nat /\ m \in Nat /\ Max(S) <= m
  BY <1>2
<1> QED BY <1>2, <1>3

\* skip_space() stops at the first symbol that is no blank.
LEMMA SkipSpace ==
  ASSUME conf \in Texts, NEW a \in Places
  PROVE  /\ skip_space(conf, a) \in a .. Len(conf) + 1
         /\ skip_space(conf, a) \in Places
         /\ At(conf, skip_space(conf, a)) # Blank
         /\ \A q \in a .. skip_space(conf, a) - 1 : At(conf, q) = Blank
<1> DEFINE N == Len(conf) + 1
           S == {q \in a .. N : At(conf, q) # Blank}
<1>1. Len(conf) \in Nat /\ N \in Nat /\ a \in 1 .. N /\ At(conf, N) = NUL
  <2>1. Len(conf) \in Nat /\ (Len(conf) + 1) \notin 1 .. Len(conf)
    BY TextIs
  <2> QED BY <2>1, TextIs DEF Places
<1>2. S \in SUBSET Nat /\ N \in S
  BY <1>1 DEF NUL, Blank
<1>3. skip_space(conf, a) = Min(S)
  BY DEF skip_space
<1>4. Min(S) \in S /\ \A y \in S : Min(S) <= y
  <2> HIDE DEF S
  <2> QED BY <1>2, LeastOf
<1> DEFINE m == Min(S)
<1>5. m \in a .. N /\ At(conf, m) # Blank /\ \A y \in S : m <= y
  BY <1>4
<1> HIDE DEF m
<1>6. ASSUME NEW q \in a .. m - 1, At(conf, q) # Blank PROVE FALSE
  <2>1. q \in S
    BY <1>1, <1>5, <1>6
  <2>2. m <= q
    BY <1>5, <2>1
  <2> QED BY <1>1, <1>5, <2>2
<1> HIDE DEF N
<1>7. m \in 1 .. N
  BY <1>1, <1>5
<1> QED BY <1>3, <1>5, <1>6, <1>7 DEF m, N, Places

\* The end of a line.
LEMMA LineEnd ==
  ASSUME conf \in Texts, NEW a \in Places
  PROVE  /\ line_end(conf, a) \in a .. Len(conf) + 1
         /\ At(conf, line_end(conf, a)) \in {EOL, NUL}
         /\ \A q \in a .. line_end(conf, a) - 1 : At(conf, q) \notin {EOL, NUL}
<1> DEFINE N == Len(conf) + 1
           S == {q \in a .. N : At(conf, q) \in {EOL, NUL}}
<1>1. Len(conf) \in Nat /\ N \in Nat /\ a \in 1 .. N /\ At(conf, N) = NUL
  <2>1. Len(conf) \in Nat /\ (Len(conf) + 1) \notin 1 .. Len(conf)
    BY TextIs
  <2> QED BY <2>1, TextIs DEF Places
<1>2. S \in SUBSET Nat /\ N \in S
  BY <1>1
<1>3. line_end(conf, a) = Min(S)
  BY DEF line_end
<1>4. Min(S) \in S /\ \A y \in S : Min(S) <= y
  <2> HIDE DEF S
  <2> QED BY <1>2, LeastOf
<1> DEFINE m == Min(S)
<1>5. m \in a .. N /\ At(conf, m) \in {EOL, NUL} /\ \A y \in S : m <= y
  BY <1>4
<1> HIDE DEF m
<1>6. ASSUME NEW q \in a .. m - 1, At(conf, q) \in {EOL, NUL} PROVE FALSE
  <2>1. q \in S
    BY <1>1, <1>5, <1>6
  <2>2. m <= q
    BY <1>5, <2>1
  <2> QED BY <1>1, <1>5, <2>2
<1> QED BY <1>3, <1>5, <1>6 DEF m

\* next_line() goes to the next line, if there is one.
LEMMA NextLine ==
  ASSUME conf \in Texts, NEW a \in Places
  PROVE  /\ next_line(conf, a) # NULL =>
              /\ next_line(conf, a) \in Lines
              /\ a < next_line(conf, a)
         /\ next_line(conf, a) \in Lines \cup {NULL}
         /\ \A j \in Lines : j > a =>
              next_line(conf, a) # NULL /\ next_line(conf, a) <= j
<1> DEFINE e == line_end(conf, a)
<1>1. /\ e \in a .. Len(conf) + 1 /\ At(conf, e) \in {EOL, NUL}
      /\ \A q \in a .. e - 1 : At(conf, q) \notin {EOL, NUL}
  BY LineEnd
<1>2. /\ Len(conf) \in Nat /\ DOMAIN conf = 1 .. Len(conf) /\ a \in 1 .. Len(conf) + 1 /\ a # NULL
      /\ \A q \in 1 .. Len(conf) : At(conf, q) = conf[q]
      /\ \A q : At(conf, q) = NUL <=> q \notin 1 .. Len(conf)
  BY TextIs DEF Places, NULL
<1>3. next_line(conf, a) = IF At(conf, e + 1) # NUL THEN e + 1 ELSE NULL
  BY <1>2 DEF next_line
<1> HIDE DEF e
<1>4. CASE e + 1 \in 1 .. Len(conf)
  <2>1. next_line(conf, a) = e + 1 /\ e \in 1 .. Len(conf) /\ a < e + 1 /\ e + 1 # NULL
    BY <1>1, <1>2, <1>3, <1>4 DEF NULL
  <2>2. At(conf, e) = EOL /\ conf[e] = EOL /\ (e + 1) - 1 = e
    BY <1>1, <1>2, <2>1
  <2>3. e + 1 \in Lines
    BY <1>2, <1>4, <2>2 DEF Lines
  <2>4. ASSUME NEW j \in Lines, j > a PROVE e + 1 <= j
    <3>1. j \in 1 .. Len(conf) /\ j # 1 /\ conf[j - 1] = EOL /\ j - 1 \in 1 .. Len(conf)
      BY <1>2, <2>4 DEF Lines
    <3>2. At(conf, j - 1) = EOL
      BY <1>2, <3>1
    <3>3. ~(j - 1 \in a .. e - 1)
      BY <1>1, <3>2
    <3> QED BY <1>1, <1>2, <2>4, <3>1, <3>3
  <2> QED BY <2>1, <2>3, <2>4
<1>5. CASE e + 1 \notin 1 .. Len(conf)
  <2>1. next_line(conf, a) = NULL
    BY <1>2, <1>3, <1>5
  <2>2. ASSUME NEW j \in Lines, j > a PROVE FALSE
    <3>1. j \in 1 .. Len(conf) /\ j # 1 /\ conf[j - 1] = EOL /\ j - 1 \in 1 .. Len(conf)
      BY <1>2, <2>2 DEF Lines
    <3>2. At(conf, j - 1) = EOL
      BY <1>2, <3>1
    <3>3. ~(j - 1 \in a .. e - 1)
      BY <1>1, <3>2
    <3> QED BY <1>1, <1>2, <1>5, <2>2, <3>1, <3>3
  <2> QED BY <2>1, <2>2
<1> QED BY <1>4, <1>5

\* Taking the blanks out is a fold.
LEMMA ReadingFolds ==
  \A i, j : Blanked(i, j) = Reading!Fold(<<>>, SubSeq(conf, i, j))
BY DEF Blanked, Unblanked, Reading!Fold, FoldLeft, Reading!FoldLeft, MapThenFoldSet,
       Reading!MapThenFoldSet, Max, Reading!Max

\* The words between two places, without their blanks.
LEMMA BlankedNone ==
  ASSUME NEW i \in Int, NEW j \in Int, j < i
  PROVE  Blanked(i, j) = <<>>
<1>1. SubSeq(conf, i, j) = <<>>
  BY SubSeqEmpty
<1>2. Reading!Fold(<<>>, <<>>) = <<>>
  BY Reading!FoldEmpty
<1> QED BY <1>1, <1>2, ReadingFolds

\* One more symbol at the end is a blank left out, or one more word.
LEMMA BlankedStep ==
  ASSUME conf \in Texts, NEW i \in Places, NEW j \in i .. Len(conf)
  PROVE  Blanked(i, j) = Unblanked(Blanked(i, j - 1), conf[j])
<1> DEFINE s == SubSeq(conf, i, j - 1)
           t == SubSeq(conf, i, j)
<1>1. /\ Len(conf) \in Nat /\ i \in 1 .. Len(conf) /\ j \in Int /\ j - 1 \in Int /\ i \in Int
      /\ i <= j /\ j <= Len(conf)
  BY TextIs DEF Places
<1>2. \A q \in 1 .. Len(conf) : conf[q] \in Symbols
  BY TextIs
<1>3. /\ s \in Seq(Symbols) /\ Len(s) = IF i <= j - 1 THEN (j - 1) - i + 1 ELSE 0
      /\ \A k \in 1 .. (j - 1) - i + 1 : s[k] = conf[i + k - 1]
  <2> DEFINE m == j - 1
  <2>1. m \in Int /\ i \in Int /\ \A q \in i .. m : conf[q] \in Symbols
    BY <1>1, <1>2
  <2> HIDE DEF Symbols, m
  <2>2. /\ SubSeq(conf, i, m) \in Seq(Symbols)
        /\ Len(SubSeq(conf, i, m)) = IF i <= m THEN m - i + 1 ELSE 0
        /\ \A k \in 1 .. m - i + 1 : SubSeq(conf, i, m)[k] = conf[i + k - 1]
    BY <2>1, SubSeqProperties
  <2> QED BY <2>2 DEF m
<1>4. /\ t \in Seq(Symbols) /\ Len(t) = IF i <= j THEN j - i + 1 ELSE 0
      /\ \A k \in 1 .. j - i + 1 : t[k] = conf[i + k - 1]
  <2>1. \A q \in i .. j : conf[q] \in Symbols
    BY <1>1, <1>2
  <2> HIDE DEF Symbols
  <2> QED BY <1>1, <2>1, SubSeqProperties
<1>5. t = Append(s, conf[j])
  <2>1. conf[j] \in Symbols
    BY <1>1, <1>2
  <2> DEFINE m == j - i
             c == conf[j]
  <2>2. /\ m \in Nat /\ Len(s) = m /\ Len(t) = m + 1 /\ i + (m + 1) - 1 = j
        /\ \A k \in 1 .. m : s[k] = conf[i + k - 1]
        /\ \A k \in 1 .. m + 1 : t[k] = conf[i + k - 1]
    BY <1>1, <1>3, <1>4
  <2> HIDE DEF s, t, m, Symbols
  <2>3. t[m + 1] = c /\ \A k \in 1 .. m : t[k] = s[k]
    <3>1. m + 1 \in 1 .. m + 1 /\ \A k \in 1 .. m : k \in 1 .. m + 1
      BY <2>2
    <3>2. t[m + 1] = conf[i + (m + 1) - 1]
      BY <2>2, <3>1
    <3>3. i + (m + 1) - 1 = j
      BY <2>2
    <3>4. t[m + 1] = conf[j]
      BY <3>2, <3>3
    <3> QED BY <2>2, <3>1, <3>4
  <2> HIDE DEF c
  <2>4. /\ Append(s, c) \in Seq(Symbols) /\ Len(Append(s, c)) = m + 1
        /\ Append(s, c)[m + 1] = c /\ \A k \in 1 .. m : Append(s, c)[k] = s[k]
    BY <1>3, <2>1, <2>2 DEF c
  <2>5. \A k \in 1 .. m + 1 : Append(s, c)[k] = t[k]
    BY <2>2, <2>3, <2>4
  <2>6. t = Append(s, c)
    BY <1>4, <2>2, <2>4, <2>5, SeqEqual
  <2> QED BY <2>6 DEF c
<1>6. Reading!Fold(<<>>, Append(s, conf[j])) = Unblanked(Reading!Fold(<<>>, s), conf[j])
  <2>1. conf[j] \in Symbols
    BY <1>1, <1>2
  <2> HIDE DEF Symbols, s
  <2> QED BY <1>3, <2>1, Reading!FoldAppend
<1> QED BY <1>5, <1>6, ReadingFolds

\* They are a sequence.
LEMMA BlankedType ==
  ASSUME conf \in Texts, NEW i \in Places, NEW j \in i - 1 .. Len(conf)
  PROVE  Blanked(i, j) \in Seq(Symbols)
<1>1. /\ Len(conf) \in Nat /\ i \in 1 .. Len(conf) + 1 /\ j \in Int
      /\ \A q \in 1 .. Len(conf) : conf[q] \in Symbols
  BY TextIs DEF Places
<1> DEFINE s == SubSeq(conf, i, j)
<1>2. s \in Seq(Symbols)
  <2>1. \A q \in i .. j : conf[q] \in Symbols
    BY <1>1
  <2> HIDE DEF Symbols
  <2> QED BY <1>1, <2>1, SubSeqProperties
<1> HIDE DEF s, Symbols
<1>3. \A a \in Seq(Symbols), e \in Symbols : Unblanked(a, e) \in Seq(Symbols)
  BY DEF Unblanked
<1>4. <<>> \in Seq(Symbols)
  OBVIOUS
<1>5. Reading!Fold(<<>>, s) \in Seq(Symbols)
  BY <1>2, <1>3, <1>4, Reading!FoldKeeps
<1> QED BY <1>5, ReadingFolds DEF s

\* A place that holds no blank adds what it holds.
LEMMA BlankedWord ==
  ASSUME conf \in Texts, NEW i \in Places, NEW j \in i .. Len(conf), At(conf, j) # Blank
  PROVE  /\ Len(Blanked(i, j - 1)) \in Nat
         /\ Len(Blanked(i, j)) = Len(Blanked(i, j - 1)) + 1
         /\ Blanked(i, j)[Len(Blanked(i, j))] = At(conf, j)
         /\ \A k \in 1 .. Len(Blanked(i, j - 1)) : Blanked(i, j)[k] = Blanked(i, j - 1)[k]
<1>1. At(conf, j) = conf[j] /\ conf[j] \in Symbols /\ j - 1 \in i - 1 .. Len(conf)
  BY TextIs DEF Places
<1>2. Blanked(i, j) = Append(Blanked(i, j - 1), conf[j])
  BY <1>1, BlankedStep DEF Unblanked
<1>3. Blanked(i, j - 1) \in Seq(Symbols)
  BY <1>1, BlankedType
<1> DEFINE s == Blanked(i, j - 1)
<1> HIDE DEF Symbols, s
<1> QED BY <1>1, <1>2, <1>3 DEF s

\* Blanks add nothing.
LEMMA BlankedSame ==
  ASSUME conf \in Texts, NEW i \in Places, NEW a \in i - 1 .. Len(conf),
         NEW b \in a .. Len(conf), \A q \in a + 1 .. b : At(conf, q) = Blank
  PROVE  Blanked(i, b) = Blanked(i, a)
<1>1. Len(conf) \in Nat /\ i \in 1 .. Len(conf) + 1 /\ a \in Int /\ b \in Int /\ a <= b
  BY TextIs DEF Places
<1> DEFINE T == {n \in 0 .. b - a : Blanked(i, a + n) = Blanked(i, a)}
<1>2. 0 \in T
  BY <1>1
<1>3. ASSUME NEW n \in 0 .. (b - a) - 1, n \in T PROVE n + 1 \in T
  <2> DEFINE j == a + n + 1
  <2>1. j \in i .. Len(conf) /\ j \in a + 1 .. b /\ j - 1 = a + n /\ n + 1 \in 0 .. b - a
        /\ a + (n + 1) = j
    BY <1>1
  <2>2. At(conf, j) = Blank /\ conf[j] = Blank
    BY <1>1, <2>1, TextIs
  <2> HIDE DEF j
  <2>3. Blanked(i, j) = Blanked(i, j - 1)
    BY <2>1, <2>2, BlankedStep DEF Unblanked
  <2> QED BY <1>3, <2>1, <2>3
<1> HIDE DEF T
<1>4. b - a \in Nat /\ b - a \in 0 .. b - a
  BY <1>1
<1>5. \A n \in 0 .. b - a : n \in T
  BY <1>2, <1>3, <1>4, Reading!BoundedInduction
<1>6. Blanked(i, a + (b - a)) = Blanked(i, a)
  BY <1>4, <1>5 DEF T
<1> QED BY <1>1, <1>6

\* What follows changes none of the words before it.
LEMMA BlankedGrows ==
  ASSUME conf \in Texts, NEW i \in Places, NEW a \in i - 1 .. Len(conf), NEW b \in a .. Len(conf)
  PROVE  /\ Len(Blanked(i, a)) \in Nat /\ Len(Blanked(i, b)) \in Nat
         /\ Len(Blanked(i, a)) <= Len(Blanked(i, b))
         /\ \A k \in 1 .. Len(Blanked(i, a)) : Blanked(i, b)[k] = Blanked(i, a)[k]
<1>1. Len(conf) \in Nat /\ i \in 1 .. Len(conf) + 1 /\ a \in Int /\ b \in Int /\ a <= b
  BY TextIs DEF Places
<1> DEFINE Starts(c) == /\ Len(Blanked(i, c)) \in Nat
                        /\ Len(Blanked(i, a)) <= Len(Blanked(i, c))
                        /\ \A k \in 1 .. Len(Blanked(i, a)) : Blanked(i, c)[k] = Blanked(i, a)[k]
           T == {n \in 0 .. b - a : Starts(a + n)}
<1>0. Len(Blanked(i, a)) \in Nat
  BY BlankedType
<1>2. 0 \in T
  <2>1. a + 0 = a
    BY <1>1
  <2> QED BY <1>0, <1>1, <2>1
<1>3. ASSUME NEW n \in 0 .. (b - a) - 1, n \in T PROVE n + 1 \in T
  <2> DEFINE j == a + n + 1
  <2>1. j \in i .. Len(conf) /\ j - 1 = a + n /\ n + 1 \in 0 .. b - a /\ a + (n + 1) = j
    BY <1>1
  <2>2. At(conf, j) = conf[j] /\ Starts(j - 1)
    BY <1>1, <1>3, <2>1, TextIs
  <2> HIDE DEF j
  <2>3. Starts(j)
    <3>1. CASE At(conf, j) = Blank
      BY <2>1, <2>2, <3>1, BlankedStep DEF Unblanked
    <3>2. CASE At(conf, j) # Blank
      <4>1. /\ Len(Blanked(i, j)) = Len(Blanked(i, j - 1)) + 1
            /\ \A k \in 1 .. Len(Blanked(i, j - 1)) : Blanked(i, j)[k] = Blanked(i, j - 1)[k]
        BY <2>1, <3>2, BlankedWord
      <4> QED BY <1>0, <2>2, <4>1
    <3> QED BY <3>1, <3>2
  <2> QED BY <1>3, <2>1, <2>3
<1> HIDE DEF T
<1>4. b - a \in Nat /\ b - a \in 0 .. b - a
  BY <1>1
<1>5. \A n \in 0 .. b - a : n \in T
  BY <1>2, <1>3, <1>4, Reading!BoundedInduction
<1>6. Starts(a + (b - a))
  BY <1>4, <1>5 DEF T
<1>7. a + (b - a) = b
  BY <1>1
<1> QED BY <1>0, <1>6, <1>7

-----------------------------------------------------------------------------
(***************************************************************************)
(* match_key() reads a line as the words and the blanks between them say.  *)
(***************************************************************************)
\* What a key is: some words, none of which is a blank or an end.
KeyWords == {"label", "default", "menu", "title", "kernel"}
Keys == Seq(KeyWords) \ {<<>>}

\* The keys the menu looks for are keys.
LEMMA TheKeys ==
  /\ LabelKey \in Keys /\ DefaultKey \in Keys /\ TitleKey \in Keys /\ KernelKey \in Keys
  /\ \A w \in KeyWords : w \notin {Blank, EOL, NUL}
  /\ LabelKey # DefaultKey /\ LabelKey # TitleKey /\ LabelKey # KernelKey
  /\ \A key \in Keys : Len(key) \in Nat /\ \A n \in 1 .. Len(key) : key[n] \in KeyWords
<1>1. \A w \in KeyWords : w \notin {Blank, EOL, NUL}
  BY DEF KeyWords, Blank, EOL, NUL
<1>2. LabelKey \in Keys /\ DefaultKey \in Keys /\ TitleKey \in Keys /\ KernelKey \in Keys
  BY DEF Keys, KeyWords, LabelKey, DefaultKey, TitleKey, KernelKey
<1>3. LabelKey # DefaultKey /\ LabelKey # TitleKey /\ LabelKey # KernelKey
  <2>1. LabelKey[1] = "label" /\ DefaultKey[1] = "default" /\ TitleKey[1] = "menu"
        /\ KernelKey[1] = "kernel"
    BY DEF LabelKey, DefaultKey, TitleKey, KernelKey
  <2> QED BY <2>1
<1>4. \A key \in Keys : Len(key) \in Nat /\ \A n \in 1 .. Len(key) : key[n] \in KeyWords
  <2> HIDE DEF KeyWords
  <2> QED BY DEF Keys
<1> QED BY <1>1, <1>2, <1>3, <1>4

\* The places match_key() goes through, one for each word of the key.
Chain(f, a, key, n) ==
  f = [m \in 0 .. n |-> IF m = 0 THEN a ELSE after_word(conf, f[m - 1], key[m])]

\* match_key() is defined for every key, however many words it has.
LEMMA ChainExists ==
  ASSUME NEW a, NEW key, NEW N \in Nat
  PROVE  \E f : Chain(f, a, key, N)
<1> DEFINE T == {n \in Nat : \E f : Chain(f, a, key, n)}
<1>1. 0 \in T
  <2> DEFINE f == [m \in 0 .. 0 |-> a]
  <2>1. Chain(f, a, key, 0)
    BY DEF Chain
  <2> QED BY <2>1
<1>2. ASSUME NEW n \in Nat, n \in T PROVE n + 1 \in T
  <2>1. PICK f : Chain(f, a, key, n)
    BY <1>2
  <2> DEFINE g == [m \in 0 .. n + 1 |->
                     IF m = n + 1 THEN after_word(conf, f[n], key[n + 1]) ELSE f[m]]
  <2>2. ASSUME NEW m \in 0 .. n + 1
        PROVE  g[m] = IF m = 0 THEN a ELSE after_word(conf, g[m - 1], key[m])
    <3>1. CASE m = 0
      <4>1. f[0] = a /\ 0 \in 0 .. n /\ 0 # n + 1
        BY <2>1 DEF Chain
      <4> QED BY <3>1, <4>1
    <3>2. CASE m = n + 1
      <4>1. m - 1 = n /\ n \in 0 .. n + 1 /\ n # n + 1 /\ m # 0
        BY <3>2
      <4> QED BY <3>2, <4>1
    <3>3. CASE m \in 1 .. n
      <4>1. m - 1 \in 0 .. n + 1 /\ m - 1 # n + 1 /\ m # n + 1 /\ m \in 0 .. n /\ m # 0
        BY <3>3
      <4>2. f[m] = after_word(conf, f[m - 1], key[m])
        BY <2>1, <4>1 DEF Chain
      <4> QED BY <4>1, <4>2
    <3> QED BY <3>1, <3>2, <3>3
  <2> HIDE DEF g
  <2>3. g = [m \in 0 .. n + 1 |-> g[m]]
    BY DEF g
  <2>4. Chain(g, a, key, n + 1)
    BY <2>2, <2>3 DEF Chain
  <2> QED BY <2>4
<1> HIDE DEF T
<1>3. N \in T
  BY <1>1, <1>2, Reading!SetInduction
<1> QED BY <1>3 DEF T

\* It goes through the key's words one by one.
LEMMA MatchIs ==
  ASSUME NEW a, NEW key \in Keys
  PROVE  \E f : /\ f[0] = a
                /\ \A n \in 1 .. Len(key) : f[n] = after_word(conf, f[n - 1], key[n])
                /\ match_key(conf, a, key) =
                     IF At(conf, f[Len(key)]) \in Word THEN f[Len(key)] ELSE NULL
<1> DEFINE f == CHOOSE f : Chain(f, a, key, Len(key))
<1>0. Len(key) \in Nat
  BY TheKeys
<1>1. Chain(f, a, key, Len(key))
  BY <1>0, ChainExists
<1>2. match_key(conf, a, key) = IF At(conf, f[Len(key)]) \in Word THEN f[Len(key)] ELSE NULL
  BY DEF match_key, Chain
<1> HIDE DEF f
<1>3. f[0] = a /\ \A n \in 1 .. Len(key) : f[n] = after_word(conf, f[n - 1], key[n])
  BY <1>0, <1>1 DEF Chain
<1> QED BY <1>2, <1>3

\* It has gone through n words of the key, each with a blank behind it.
Reached(i, key, n, q) ==
  /\ q \in Places /\ i <= q
  /\ At(conf, q) # Blank
  /\ Len(Blanked(i, q - 1)) = n
  /\ \A k \in 1 .. n : Blanked(i, q - 1)[k] = key[k]
  /\ \A r \in i .. q - 1 : At(conf, r) # Blank => At(conf, r + 1) = Blank

\* At the start it has gone through none, and only through blanks.
LEMMA StartsReached ==
  ASSUME conf \in Texts, NEW i \in Places, NEW key
  PROVE  Reached(i, key, 0, skip_space(conf, i))
<1> DEFINE q == skip_space(conf, i)
<1>1. /\ q \in Places /\ q \in i .. Len(conf) + 1 /\ At(conf, q) # Blank
      /\ \A r \in i .. q - 1 : At(conf, r) = Blank
  BY SkipSpace
<1> HIDE DEF q
<1>2. Len(conf) \in Nat /\ i \in 1 .. Len(conf) + 1 /\ (i - 1) + 1 = i
  BY TextIs DEF Places
<1>3. i - 1 \in i - 1 .. Len(conf) /\ q - 1 \in i - 1 .. Len(conf)
  BY <1>1, <1>2
<1>4. Blanked(i, q - 1) = Blanked(i, i - 1)
  BY <1>1, <1>2, <1>3, BlankedSame
<1>5. Blanked(i, i - 1) = <<>>
  BY <1>2, BlankedNone
<1>6. Len(Blanked(i, q - 1)) = 0
  BY <1>4, <1>5
<1>7. i <= q
  BY <1>1, <1>2
<1> QED BY <1>1, <1>6, <1>7 DEF Reached, q

\* Where it goes on, it has gone through one more.
LEMMA ReachesOn ==
  ASSUME conf \in Texts, NEW i \in Places, NEW key \in Keys, NEW n \in 0 .. Len(key) - 1,
         NEW q, Reached(i, key, n, q), after_word(conf, q, key[n + 1]) # NULL
  PROVE  Reached(i, key, n + 1, after_word(conf, q, key[n + 1]))
<1> DEFINE r == skip_space(conf, q + 1)
<1>1. /\ after_word(conf, q, key[n + 1]) = r
      /\ At(conf, q) = key[n + 1] /\ At(conf, q + 1) = Blank
  BY DEF after_word
<1>2. /\ Len(conf) \in Nat /\ i \in 1 .. Len(conf) + 1
      /\ \A x : At(conf, x) = NUL <=> x \notin 1 .. Len(conf)
  BY TextIs DEF Places
<1>3. At(conf, q) # Blank /\ i <= q /\ q \in 1 .. Len(conf) + 1
  BY DEF Reached, Places
<1>4. q + 1 \in 1 .. Len(conf) /\ q \in 1 .. Len(conf)
  BY <1>1, <1>2, <1>3 DEF NUL, Blank
<1>5. q + 1 \in Places
  BY <1>2, <1>4 DEF Places
<1>6. /\ r \in Places /\ r \in q + 1 .. Len(conf) + 1 /\ At(conf, r) # Blank
      /\ \A x \in q + 1 .. r - 1 : At(conf, x) = Blank
  BY <1>5, SkipSpace
<1> HIDE DEF r
<1>7. q \in i - 1 .. Len(conf) /\ r - 1 \in q .. Len(conf) /\ q \in i .. Len(conf)
  BY <1>2, <1>3, <1>4, <1>6
<1>8. Blanked(i, r - 1) = Blanked(i, q)
  BY <1>6, <1>7, BlankedSame
<1>9. /\ Len(Blanked(i, q)) = Len(Blanked(i, q - 1)) + 1
      /\ Blanked(i, q)[Len(Blanked(i, q))] = At(conf, q)
      /\ \A k \in 1 .. Len(Blanked(i, q - 1)) : Blanked(i, q)[k] = Blanked(i, q - 1)[k]
  BY <1>3, <1>7, BlankedWord
<1>10. Len(Blanked(i, q - 1)) = n /\ \A k \in 1 .. n : Blanked(i, q - 1)[k] = key[k]
  BY DEF Reached
<1>11. n \in Nat
  BY TheKeys
<1>12. Len(Blanked(i, r - 1)) = n + 1 /\ \A k \in 1 .. n + 1 : Blanked(i, r - 1)[k] = key[k]
  <2>1. Blanked(i, q)[n + 1] = key[n + 1] /\ Len(Blanked(i, q)) = n + 1
    BY <1>1, <1>9, <1>10
  <2>2. \A k \in 1 .. n : Blanked(i, q)[k] = key[k]
    BY <1>9, <1>10
  <2>3. \A k \in 1 .. n + 1 : k \in 1 .. n \/ k = n + 1
    BY <1>11
  <2> QED BY <1>8, <2>1, <2>2, <2>3
<1>13. \A x \in i .. r - 1 : At(conf, x) # Blank => At(conf, x + 1) = Blank
  <2> SUFFICES ASSUME NEW x \in i .. r - 1, At(conf, x) # Blank PROVE At(conf, x + 1) = Blank
    OBVIOUS
  <2>1. x \in i .. q - 1 \/ x = q
    BY <1>2, <1>3, <1>4, <1>6
  <2> QED BY <1>1, <2>1 DEF Reached
<1>14. i <= r
  BY <1>2, <1>3, <1>6
<1> QED BY <1>1, <1>6, <1>12, <1>13, <1>14 DEF Reached

\* A value the line gives the key lies behind all the words.
LEMMA ReachesValue ==
  ASSUME conf \in Texts, NEW i \in Places, NEW key \in Keys, NEW v \in i .. Len(conf),
         Gives(i, key, v), NEW n \in 0 .. Len(key) - 1, NEW q, Reached(i, key, n, q), q <= v
  PROVE  /\ after_word(conf, q, key[n + 1]) # NULL
         /\ after_word(conf, q, key[n + 1]) <= v
<1>1. /\ Len(conf) \in Nat /\ i \in 1 .. Len(conf) + 1 /\ Len(key) \in Nat /\ n \in Nat
      /\ \A x : At(conf, x) = NUL <=> x \notin 1 .. Len(conf)
  BY TextIs, TheKeys DEF Places
<1>2. /\ At(conf, q) # Blank /\ i <= q /\ q \in 1 .. Len(conf) + 1
      /\ Len(Blanked(i, q - 1)) = n
  BY DEF Reached, Places
<1>3. Len(Blanked(i, v - 1)) = Len(key) /\ At(conf, v) # Blank
  BY WordsAreNotMarks DEF Gives
<1>4. q # v /\ q < v /\ q \in 1 .. Len(conf) /\ q \in i .. Len(conf) /\ q \in i .. v - 1
  <2>1. q # v
    BY <1>1, <1>2, <1>3
  <2> QED BY <1>1, <1>2, <2>1
<1>5. /\ Len(Blanked(i, q)) = n + 1 /\ Blanked(i, q)[n + 1] = At(conf, q)
  <2>1. /\ Len(Blanked(i, q)) = Len(Blanked(i, q - 1)) + 1
        /\ Blanked(i, q)[Len(Blanked(i, q))] = At(conf, q)
    BY <1>2, <1>4, BlankedWord
  <2> QED BY <1>2, <2>1
<1>6. key[n + 1] = At(conf, q)
  <2>1. q \in i - 1 .. Len(conf) /\ v - 1 \in q .. Len(conf)
    BY <1>1, <1>4
  <2>2. \A k \in 1 .. Len(Blanked(i, q)) : Blanked(i, v - 1)[k] = Blanked(i, q)[k]
    BY <2>1, BlankedGrows
  <2>3. n + 1 \in 1 .. Len(Blanked(i, q))
    BY <1>1, <1>5
  <2>4. Blanked(i, v - 1)[n + 1] = At(conf, q)
    BY <1>5, <2>2, <2>3
  <2> QED BY <2>4 DEF Gives
<1>7. At(conf, q + 1) = Blank
  BY <1>2, <1>4 DEF Gives
<1> DEFINE r == skip_space(conf, q + 1)
<1>8. after_word(conf, q, key[n + 1]) = r
  <2>1. q # NULL
    BY <1>4 DEF NULL
  <2> QED BY <1>6, <1>7, <2>1 DEF after_word
<1>9. q + 1 \in Places
  BY <1>1, <1>4 DEF Places
<1>10. r \in q + 1 .. Len(conf) + 1 /\ \A x \in q + 1 .. r - 1 : At(conf, x) = Blank
  BY <1>9, SkipSpace
<1> HIDE DEF r
<1>11. ~(v \in q + 1 .. r - 1)
  BY <1>3, <1>10
<1>12. r # NULL /\ r <= v
  BY <1>1, <1>4, <1>10, <1>11 DEF NULL
<1> QED BY <1>8, <1>12

\* match_key() finds the value a line gives, and only that (extlinux.c:39-98).
THEOREM MatchGives ==
  ASSUME conf \in Texts, NEW i \in Places, NEW key \in Keys
  PROVE  LET m == match_key(conf, skip_space(conf, i), key)
         IN  /\ m # NULL => m \in i .. Len(conf) /\ Gives(i, key, m)
             /\ \A v \in i .. Len(conf) : Gives(i, key, v) => m # NULL /\ v = m
<1> DEFINE a == skip_space(conf, i)
           m == match_key(conf, a, key)
           L == Len(key)
<1>1. PICK f : /\ f[0] = a
               /\ \A n \in 1 .. L : f[n] = after_word(conf, f[n - 1], key[n])
               /\ m = IF At(conf, f[L]) \in Word THEN f[L] ELSE NULL
  BY MatchIs
<1>2. /\ Len(conf) \in Nat /\ i \in 1 .. Len(conf) + 1 /\ L \in Nat
      /\ \A x : At(conf, x) = NUL <=> x \notin 1 .. Len(conf)
      /\ key \in Seq(KeyWords)
  BY TextIs, TheKeys DEF Places, Keys
<1>3. Reached(i, key, 0, a)
  BY StartsReached
<1> HIDE DEF a, m, L
<1>4. \A n \in 0 .. L : f[n] # NULL => Reached(i, key, n, f[n])
  <2> DEFINE T == {n \in 0 .. L : f[n] # NULL => Reached(i, key, n, f[n])}
  <2>1. 0 \in T
    BY <1>1, <1>2, <1>3
  <2>2. ASSUME NEW n \in 0 .. L - 1, n \in T PROVE n + 1 \in T
    <3>1. n + 1 \in 1 .. L /\ (n + 1) - 1 = n /\ n + 1 \in 0 .. L
      BY <1>2
    <3>2. f[n + 1] = after_word(conf, f[n], key[n + 1])
      BY <1>1, <3>1
    <3>3. ASSUME f[n + 1] # NULL PROVE Reached(i, key, n + 1, f[n + 1])
      <4>1. f[n] # NULL
        BY <3>2, <3>3 DEF after_word
      <4>2. Reached(i, key, n, f[n])
        BY <2>2, <4>1
      <4>3. n \in 0 .. Len(key) - 1
        BY DEF L
      <4> HIDE DEF T
      <4> QED BY <3>2, <3>3, <4>2, <4>3, ReachesOn
    <3> QED BY <3>1, <3>3
  <2> HIDE DEF T
  <2>3. \A n \in 0 .. L : n \in T
    BY <1>2, <2>1, <2>2, Reading!BoundedInduction
  <2> QED BY <2>3 DEF T
<1>5. ASSUME m # NULL PROVE m \in i .. Len(conf) /\ Gives(i, key, m)
  <2>1. m = f[L] /\ At(conf, m) \in Word /\ L \in 0 .. L
    BY <1>1, <1>2, <1>5
  <2>2. Reached(i, key, L, m)
    BY <1>4, <1>5, <2>1
  <2>3. m \in 1 .. Len(conf) /\ i <= m
    BY <1>2, <2>1, <2>2, WordsAreNotMarks DEF Reached
  <2>4. m - 1 \in i - 1 .. Len(conf)
    BY <1>2, <2>3
  <2>5. Blanked(i, m - 1) = key
    <3> DEFINE s == Blanked(i, m - 1)
    <3>1. s \in Seq(Symbols)
      BY <2>4, BlankedType
    <3>2. Len(s) = Len(key) /\ \A k \in 1 .. Len(s) : s[k] = key[k]
      BY <2>2 DEF Reached, L
    <3> HIDE DEF s, Symbols, KeyWords
    <3>3. s \in Seq(Symbols \cup KeyWords) /\ key \in Seq(Symbols \cup KeyWords)
      BY <1>2, <3>1
    <3>4. s = key
      BY <3>2, <3>3, SeqEqual
    <3> QED BY <3>4 DEF s
  <2> QED BY <1>2, <2>1, <2>2, <2>3, <2>5 DEF Gives, Reached
<1>6. ASSUME NEW v \in i .. Len(conf), Gives(i, key, v) PROVE m # NULL /\ v = m
  <2>0. At(conf, v) \in Word /\ At(conf, v) # Blank /\ Len(Blanked(i, v - 1)) = L
    BY <1>6, WordsAreNotMarks DEF Gives, L
  <2> DEFINE T == {n \in 0 .. L : f[n] # NULL /\ f[n] <= v}
  <2>1. 0 \in T
    <3>1. a \in i .. Len(conf) + 1 /\ \A q \in i .. a - 1 : At(conf, q) = Blank
      BY SkipSpace DEF a
    <3>2. ~(v \in i .. a - 1)
      BY <2>0, <3>1
    <3>3. a # NULL /\ a <= v
      BY <1>2, <1>6, <3>1, <3>2 DEF NULL
    <3> QED BY <1>1, <1>2, <3>3
  <2>2. ASSUME NEW n \in 0 .. L - 1, n \in T PROVE n + 1 \in T
    <3>1. n + 1 \in 1 .. L /\ (n + 1) - 1 = n /\ n + 1 \in 0 .. L /\ n \in 0 .. L
      BY <1>2
    <3>2. f[n + 1] = after_word(conf, f[n], key[n + 1])
      BY <1>1, <3>1
    <3>3. Reached(i, key, n, f[n]) /\ f[n] <= v
      BY <1>4, <2>2, <3>1
    <3>4. n \in 0 .. Len(key) - 1
      BY DEF L
    <3> HIDE DEF T
    <3>5. f[n + 1] # NULL /\ f[n + 1] <= v
      BY <1>6, <3>2, <3>3, <3>4, ReachesValue
    <3> QED BY <3>1, <3>5 DEF T
  <2> HIDE DEF T
  <2>3. \A n \in 0 .. L : n \in T
    BY <1>2, <2>1, <2>2, Reading!BoundedInduction
  <2> DEFINE q == f[L]
  <2>4. q # NULL /\ q <= v /\ Reached(i, key, L, q)
    <3>1. L \in 0 .. L
      BY <1>2
    <3>2. L \in T
      BY <2>3, <3>1
    <3> QED BY <1>4, <3>1, <3>2 DEF T
  <2> HIDE DEF q
  <2>5. q = v
    <3> SUFFICES ASSUME q # v PROVE FALSE
      OBVIOUS
    <3>1. q \in 1 .. Len(conf) + 1 /\ i <= q /\ At(conf, q) # Blank
          /\ Len(Blanked(i, q - 1)) = L
      BY <2>4 DEF Reached, Places
    <3>2. /\ q \in i .. Len(conf) /\ q \in i - 1 .. Len(conf) /\ v - 1 \in q .. Len(conf)
      BY <1>2, <2>4, <3>1
    <3>3. Len(Blanked(i, q)) = L + 1
      BY <3>1, <3>2, BlankedWord
    <3>4. Len(Blanked(i, q)) <= Len(Blanked(i, v - 1))
      BY <3>2, BlankedGrows
    <3> QED BY <1>2, <2>0, <3>3, <3>4
  <2> QED BY <1>1, <2>0, <2>4, <2>5 DEF q
<1> QED BY <1>5, <1>6 DEF m, a

\* So a line gives a key a value if match_key() says so.
LEMMA PairMatch ==
  ASSUME conf \in Texts, NEW i \in Places, NEW key \in Keys
  PROVE  LET m == match_key(conf, skip_space(conf, i), key)
         IN  /\ Pair(i, key) <=> m # NULL
             /\ m # NULL => /\ m \in i .. Len(conf) /\ At(conf, m) \in Word
                            /\ (CHOOSE v \in i .. Len(conf) : Gives(i, key, v)) = m
<1> DEFINE m == match_key(conf, skip_space(conf, i), key)
<1>1. /\ m # NULL => m \in i .. Len(conf) /\ Gives(i, key, m)
      /\ \A v \in i .. Len(conf) : Gives(i, key, v) => m # NULL /\ v = m
  BY MatchGives
<1> HIDE DEF m
<1>2. Pair(i, key) <=> m # NULL
  BY <1>1 DEF Pair
<1>3. ASSUME m # NULL PROVE (CHOOSE v \in i .. Len(conf) : Gives(i, key, v)) = m
  BY <1>1, <1>3
<1> QED BY <1>1, <1>2, <1>3 DEF m, Gives

-----------------------------------------------------------------------------
(***************************************************************************)
(* The loops that go from line to line, as functions that are defined by   *)
(* themselves: the first line of some set is where they stop.              *)
(***************************************************************************)
\* The loops over lines stop at the first place of a set, with its result.
WalkFrom(a) == {a} \cup {j \in Lines : j > a}

\* What a loop started at a ends with.
Stops(a, Stop, Res) ==
  IF WalkFrom(a) \cap Stop = {} THEN NULL ELSE Res[Min(WalkFrom(a) \cap Stop)]

\* What the recursive definition of a loop says of it.
Walks(f, Stop, Res) ==
  /\ f[NULL] = NULL
  /\ \A a \in Places : f[a] = IF a \in Stop THEN Res[a] ELSE f[next_line(conf, a)]

\* Lines begin in the text, and a pointer is NULL or a place.
LEMMA LinesArePlaces ==
  ASSUME conf \in Texts
  PROVE  /\ Lines \subseteq Places /\ Lines \subseteq 1 .. Len(conf) /\ Places \subseteq Nat
         /\ Pointer(conf) = {NULL} \cup Places /\ NULL \notin Places
         /\ 1 \in Places
         /\ \A a \in Places : WalkFrom(a) \subseteq Places
<1>1. Len(conf) \in Nat /\ DOMAIN conf = 1 .. Len(conf)
  BY TextIs
<1>2. Lines \subseteq 1 .. Len(conf)
  BY <1>1 DEF Lines
<1>3. 1 .. Len(conf) \subseteq Places /\ Places \subseteq Nat /\ NULL \notin Places
      /\ 1 \in Places /\ Pointer(conf) = {NULL} \cup Places
  BY <1>1 DEF Places, NULL, Pointer
<1> QED BY <1>2, <1>3 DEF WalkFrom

\* Where a loop stops, from one line to the next.
LEMMA StopsStep ==
  ASSUME conf \in Texts, NEW a \in Places, NEW Stop, NEW Res
  PROVE  Stops(a, Stop, Res) =
           IF a \in Stop THEN Res[a]
           ELSE IF next_line(conf, a) = NULL THEN NULL
           ELSE Stops(next_line(conf, a), Stop, Res)
<1> DEFINE n == next_line(conf, a)
           S == WalkFrom(a) \cap Stop
<1>1. /\ n # NULL => n \in Lines /\ a < n
      /\ \A j \in Lines : j > a => n # NULL /\ n <= j
  BY NextLine
<1>2. a \in Nat /\ Lines \subseteq Nat /\ WalkFrom(a) \in SUBSET Nat
      /\ \A j \in Lines : j \in Nat
  BY LinesArePlaces
<1> HIDE DEF n
<1>3. CASE a \in Stop
  <2>1. a \in S /\ S \in SUBSET Nat /\ \A j \in S : a <= j
    BY <1>2, <1>3 DEF WalkFrom
  <2>2. Min(S) = a
    <3> HIDE DEF S
    <3> QED BY <2>1, LeastIs
  <2> QED BY <1>3, <2>1, <2>2 DEF Stops
<1>4. CASE a \notin Stop /\ n = NULL
  <2>1. S = {}
    BY <1>1, <1>4 DEF WalkFrom
  <2> QED BY <1>4, <2>1 DEF Stops, n
<1>5. CASE a \notin Stop /\ n # NULL
  <2>0. n \in Lines /\ a < n /\ n \in Nat /\ a \in Nat
    BY <1>1, <1>2, <1>5
  <2>1. \A j \in Lines : j > a <=> (j = n \/ j > n)
    BY <1>1, <1>2, <2>0
  <2>2. S = WalkFrom(n) \cap Stop
    BY <1>1, <1>2, <1>5, <2>1 DEF WalkFrom
  <2> QED BY <1>5, <2>2 DEF Stops, n
<1> QED BY <1>3, <1>4, <1>5

\* There is a loop...
LEMMA WalkExists ==
  ASSUME conf \in Texts, NEW Stop, NEW Res
  PROVE  \E f : /\ f = [a \in Pointer(conf) |-> f[a]]
                /\ Walks(f, Stop, Res)
<1> DEFINE f == [a \in Pointer(conf) |-> IF a = NULL THEN NULL ELSE Stops(a, Stop, Res)]
<1>1. /\ Pointer(conf) = {NULL} \cup Places /\ NULL \notin Places
      /\ Lines \subseteq Places
  BY LinesArePlaces
<1>2. f = [a \in Pointer(conf) |-> f[a]] /\ f[NULL] = NULL
      /\ \A a \in Places : f[a] = Stops(a, Stop, Res)
  BY <1>1
<1> HIDE DEF f
<1>3. ASSUME NEW a \in Places
      PROVE  f[a] = IF a \in Stop THEN Res[a] ELSE f[next_line(conf, a)]
  <2>1. next_line(conf, a) \in Lines \cup {NULL}
    BY NextLine
  <2> QED BY <1>1, <1>2, <2>1, StopsStep
<1> QED BY <1>2, <1>3 DEF Walks

\* ... and it is the only one.
LEMMA WalkStops ==
  ASSUME conf \in Texts, NEW Stop, NEW Res, NEW f, Walks(f, Stop, Res)
  PROVE  \A a \in Places : f[a] = Stops(a, Stop, Res)
<1>1. Len(conf) \in Nat /\ Places = 1 .. Len(conf) + 1
  BY TextIs DEF Places
<1> DEFINE N == Len(conf) + 1
           T == {n \in 0 .. N : \A a \in Places : N - a <= n => f[a] = Stops(a, Stop, Res)}
<1>2. ASSUME NEW a \in Places,
             \A b \in Places : b > a => f[b] = Stops(b, Stop, Res)
      PROVE  f[a] = Stops(a, Stop, Res)
  <2>1. /\ next_line(conf, a) # NULL => next_line(conf, a) \in Places /\ a < next_line(conf, a)
    BY NextLine, LinesArePlaces
  <2>2. CASE a \in Stop
    BY <2>2, StopsStep DEF Walks
  <2>3. CASE a \notin Stop /\ next_line(conf, a) = NULL
    BY <2>3, StopsStep DEF Walks
  <2>4. CASE a \notin Stop /\ next_line(conf, a) # NULL
    <3> DEFINE n == next_line(conf, a)
    <3>1. f[a] = f[n]
      BY <2>4 DEF Walks
    <3>2. f[n] = Stops(n, Stop, Res)
      <4>1. n \in Places /\ n > a
        BY <1>1, <2>1, <2>4
      <4> QED BY <1>2, <4>1
    <3>3. Stops(a, Stop, Res) = Stops(n, Stop, Res)
      BY <2>4, StopsStep
    <3> QED BY <3>1, <3>2, <3>3
  <2> QED BY <2>2, <2>3, <2>4
<1>3. 0 \in T
  <2>1. ASSUME NEW a \in Places, N - a <= 0 PROVE f[a] = Stops(a, Stop, Res)
    <3>1. \A b \in Places : ~(b > a)
      BY <1>1, <2>1
    <3> QED BY <1>2, <3>1
  <2>2. 0 \in 0 .. N
    BY <1>1
  <2> QED BY <2>1, <2>2
<1>4. ASSUME NEW n \in 0 .. N - 1, n \in T PROVE n + 1 \in T
  <2>1. ASSUME NEW a \in Places, N - a <= n + 1 PROVE f[a] = Stops(a, Stop, Res)
    <3>1. ASSUME NEW b \in Places, b > a PROVE f[b] = Stops(b, Stop, Res)
      <4>1. N - b <= n
        BY <1>1, <2>1, <3>1
      <4> QED BY <1>4, <4>1
    <3> QED BY <1>2, <3>1
  <2>2. n + 1 \in 0 .. N
    BY <1>1
  <2> QED BY <2>1, <2>2
<1>5. N \in Nat /\ N \in 0 .. N /\ \A a \in Places : N - a <= N
  BY <1>1
<1> HIDE DEF T, N
<1>6. \A n \in 0 .. N : n \in T
  BY <1>3, <1>4, <1>5, Reading!BoundedInduction
<1>7. N \in T
  BY <1>5, <1>6
<1> QED BY <1>5, <1>7 DEF T

\* A line and the words in it end at the same place.
LEMMA NextLineSkip ==
  ASSUME conf \in Texts, NEW a \in Places
  PROVE  /\ next_line(conf, skip_space(conf, a)) = next_line(conf, a)
         /\ skip_space(conf, skip_space(conf, a)) = skip_space(conf, a)
<1> DEFINE b == skip_space(conf, a)
<1>1. /\ b \in a .. Len(conf) + 1 /\ b \in Places /\ At(conf, b) # Blank
      /\ \A q \in a .. b - 1 : At(conf, q) = Blank
  BY SkipSpace
<1>2. Len(conf) \in Nat /\ a \in 1 .. Len(conf) + 1 /\ b \in 1 .. Len(conf) + 1
  BY <1>1, TextIs DEF Places
<1> HIDE DEF b
<1>3. /\ line_end(conf, a) \in a .. Len(conf) + 1 /\ At(conf, line_end(conf, a)) \in {EOL, NUL}
      /\ \A q \in a .. line_end(conf, a) - 1 : At(conf, q) \notin {EOL, NUL}
  BY LineEnd
<1>4. /\ line_end(conf, b) \in b .. Len(conf) + 1 /\ At(conf, line_end(conf, b)) \in {EOL, NUL}
      /\ \A q \in b .. line_end(conf, b) - 1 : At(conf, q) \notin {EOL, NUL}
  BY <1>1, LineEnd
<1> DEFINE x == line_end(conf, a)
           y == line_end(conf, b)
<1> HIDE DEF x, y
<1>5. x = y
  <2>1. Blank \notin {EOL, NUL}
    BY DEF Blank, EOL, NUL
  <2>2. ~(x \in a .. b - 1)
    BY <1>1, <1>3, <2>1 DEF x
  <2>3. ~(y \in a .. x - 1)
    BY <1>3, <1>4 DEF x, y
  <2>4. ~(x \in b .. y - 1)
    BY <1>3, <1>4 DEF x, y
  <2>5. a \in Int /\ b \in Int /\ x \in a .. Len(conf) + 1 /\ y \in b .. Len(conf) + 1 /\ a <= b
    BY <1>1, <1>2, <1>3, <1>4 DEF x, y
  <2> QED BY <1>2, <2>2, <2>3, <2>4, <2>5
<1>6. next_line(conf, b) = next_line(conf, a)
  <2>1. a # NULL /\ b # NULL
    BY <1>2 DEF NULL
  <2> QED BY <1>5, <2>1 DEF next_line, x, y
<1>7. skip_space(conf, b) = b
  <2>1. /\ skip_space(conf, b) \in b .. Len(conf) + 1
        /\ \A q \in b .. skip_space(conf, b) - 1 : At(conf, q) = Blank
    BY <1>1, SkipSpace
  <2>2. ~(b \in b .. skip_space(conf, b) - 1)
    BY <1>1, <2>1
  <2> QED BY <1>2, <2>1, <2>2
<1> QED BY <1>6, <1>7 DEF b

\* The lines behind one are those the loop goes through from the next.
LEMMA LinesBehind ==
  ASSUME conf \in Texts, NEW i \in Lines
  PROVE  /\ next_line(conf, i) = NULL => {j \in Lines : j > i} = {}
         /\ next_line(conf, i) # NULL =>
              /\ next_line(conf, i) \in Places
              /\ WalkFrom(next_line(conf, i)) = {j \in Lines : j > i}
<1> DEFINE n == next_line(conf, i)
<1>1. i \in Places /\ \A j \in Lines : j \in Nat /\ j \in Places
  BY LinesArePlaces
<1>2. /\ n # NULL => n \in Lines /\ i < n
      /\ \A j \in Lines : j > i => n # NULL /\ n <= j
  BY <1>1, NextLine
<1> HIDE DEF n
<1>3. ASSUME n # NULL PROVE n \in Places /\ WalkFrom(n) = {j \in Lines : j > i}
  <2>1. n \in Lines /\ i < n /\ n \in Nat /\ i \in Nat /\ n \in Places
    BY <1>1, <1>2, <1>3
  <2>2. \A j \in Lines : j > i <=> (j = n \/ j > n)
    BY <1>1, <1>2, <2>1
  <2> QED BY <2>1, <2>2 DEF WalkFrom
<1> QED BY <1>2, <1>3 DEF n

-----------------------------------------------------------------------------
(***************************************************************************)
(* extlinux_next_entry() goes from label to label.                         *)
(***************************************************************************)
\* Where an entry is that begins in the first of some lines.
EntryOf(labels) == IF labels = {} THEN NULL ELSE skip_space(conf, Min(labels))

\* The labels behind a line.
LabelsPast(i) == {j \in Labels : j > i}

\* The lines extlinux_next_entry() stops at.
LabelStops == {a \in Places : match_key(conf, skip_space(conf, a), LabelKey) # NULL}
LabelResults == [a \in Places |-> skip_space(conf, a)]

\* From the start of a text the lines it stops at are the labels.
LEMMA LabelLines ==
  ASSUME conf \in Texts
  PROVE  /\ Lines \cap LabelStops = Labels /\ WalkFrom(1) \cap LabelStops = Labels
         /\ Labels \subseteq Lines /\ Labels \subseteq 1 .. Len(conf) /\ Labels \in SUBSET Nat
<1>1. /\ Lines \subseteq Places /\ Lines \subseteq 1 .. Len(conf) /\ Len(conf) \in Nat
      /\ 1 \in Places /\ DOMAIN conf = 1 .. Len(conf)
  BY TextIs, LinesArePlaces
<1>2. \A i \in Places : Pair(i, LabelKey) <=> i \in LabelStops
  BY TheKeys, PairMatch DEF LabelStops
<1>3. Lines \cap LabelStops = Labels
  BY <1>1, <1>2 DEF Labels
<1>4. WalkFrom(1) \cap LabelStops = Labels
  <2>1. CASE Len(conf) = 0
    <3>1. Lines = {}
      BY <1>1, <2>1
    <3>2. ~Pair(1, LabelKey)
      BY <1>1, <2>1 DEF Pair
    <3> QED BY <1>1, <1>2, <1>3, <3>1, <3>2 DEF WalkFrom
  <2>2. CASE Len(conf) # 0
    <3>1. 1 \in Lines
      BY <1>1, <2>2 DEF Lines
    <3>2. \A j \in Lines : j = 1 \/ j > 1
      BY <1>1
    <3>3. WalkFrom(1) = Lines
      BY <3>1, <3>2 DEF WalkFrom
    <3> QED BY <1>3, <3>3
  <2> QED BY <2>1, <2>2
<1>5. Labels \subseteq Lines
  BY DEF Labels
<1>6. Labels \subseteq 1 .. Len(conf) /\ Labels \in SUBSET Nat
  BY <1>1, <1>5
<1> QED BY <1>3, <1>4, <1>5, <1>6

\* The function extlinux_next_entry() is defined by goes through the lines.
LEMMA EntryWalk ==
  ASSUME conf \in Texts, NEW a, NEW e
  PROVE  \E f : /\ Walks(f, LabelStops, LabelResults)
                /\ extlinux_next_entry(conf, a, e) =
                     f[IF e # NULL THEN next_line(conf, e) ELSE a]
<1> DEFINE Is(f) ==
      f = [x \in Pointer(conf) |->
             IF x = NULL THEN NULL
             ELSE IF match_key(conf, skip_space(conf, x), LabelKey) # NULL
                    THEN skip_space(conf, x)
             ELSE f[next_line(conf, x)]]
           g == CHOOSE f : Is(f)
<1>1. Pointer(conf) = {NULL} \cup Places /\ NULL \notin Places
  BY LinesArePlaces
<1>2. \A x \in Places : /\ x \in LabelStops <=>
                             match_key(conf, skip_space(conf, x), LabelKey) # NULL
                        /\ LabelResults[x] = skip_space(conf, x)
  BY DEF LabelStops, LabelResults
<1>3. PICK f : f = [x \in Pointer(conf) |-> f[x]] /\ Walks(f, LabelStops, LabelResults)
  BY WalkExists
<1>4. Is(f)
  <2>1. \A x \in Pointer(conf) :
          f[x] = IF x = NULL THEN NULL
                 ELSE IF match_key(conf, skip_space(conf, x), LabelKey) # NULL
                        THEN skip_space(conf, x)
                 ELSE f[next_line(conf, x)]
    BY <1>1, <1>2, <1>3 DEF Walks
  <2> QED BY <1>3, <2>1
<1>5. Is(g)
  BY <1>4
<1>6. Walks(g, LabelStops, LabelResults)
  <2>1. \A x \in Pointer(conf) :
          g[x] = IF x = NULL THEN NULL
                 ELSE IF match_key(conf, skip_space(conf, x), LabelKey) # NULL
                        THEN skip_space(conf, x)
                 ELSE g[next_line(conf, x)]
    BY <1>5, ZenonT(30)
  <2> HIDE DEF g
  <2>2. g[NULL] = NULL
    BY <1>1, <2>1
  <2>3. ASSUME NEW x \in Places
        PROVE  g[x] = IF x \in LabelStops THEN LabelResults[x] ELSE g[next_line(conf, x)]
    BY <1>1, <1>2, <2>1
  <2> QED BY <2>2, <2>3 DEF Walks
<1>7. extlinux_next_entry(conf, a, e) = g[IF e # NULL THEN next_line(conf, e) ELSE a]
  BY DEF extlinux_next_entry
<1> QED BY <1>6, <1>7

\* It finds the first entry, and from an entry the one behind it.
LEMMA EntryFound ==
  ASSUME conf \in Texts
  PROVE  /\ extlinux_next_entry(conf, 1, NULL) = EntryOf(Labels)
         /\ \A i \in Labels :
              extlinux_next_entry(conf, NULL, skip_space(conf, i)) = EntryOf(LabelsPast(i))
<1>0. /\ 1 \in Places /\ NULL \notin Places /\ Lines \subseteq Places /\ Labels \subseteq Lines
      /\ \A a \in Places : WalkFrom(a) \subseteq Places
      /\ Labels \in SUBSET Nat
  BY LinesArePlaces, LabelLines
<1>1. extlinux_next_entry(conf, 1, NULL) = EntryOf(Labels)
  <2>1. PICK f : Walks(f, LabelStops, LabelResults) /\ extlinux_next_entry(conf, 1, NULL) = f[1]
    BY EntryWalk
  <2>2. f[1] = Stops(1, LabelStops, LabelResults)
    BY <1>0, <2>1, WalkStops
  <2>3. Labels # {} => Min(Labels) \in Places
    BY <1>0, LeastOf
  <2> QED BY <2>1, <2>2, <2>3, LabelLines DEF Stops, EntryOf, LabelResults
<1>2. ASSUME NEW i \in Labels
      PROVE  extlinux_next_entry(conf, NULL, skip_space(conf, i)) = EntryOf(LabelsPast(i))
  <2> DEFINE n == next_line(conf, i)
             e == skip_space(conf, i)
  <2>1. i \in Lines /\ i \in Places /\ e \in Places /\ e # NULL /\ next_line(conf, e) = n
    BY <1>0, SkipSpace, NextLineSkip
  <2>2. PICK f : Walks(f, LabelStops, LabelResults) /\ extlinux_next_entry(conf, NULL, e) = f[n]
    <3>1. PICK f : /\ Walks(f, LabelStops, LabelResults)
                   /\ extlinux_next_entry(conf, NULL, e) =
                        f[IF e # NULL THEN next_line(conf, e) ELSE NULL]
      BY EntryWalk
    <3> QED BY <2>1, <3>1
  <2>3. /\ n = NULL => {j \in Lines : j > i} = {}
        /\ n # NULL => n \in Places /\ WalkFrom(n) = {j \in Lines : j > i}
    BY <2>1, LinesBehind
  <2> HIDE DEF n, e
  <2>4. CASE n = NULL
    <3>1. LabelsPast(i) = {}
      BY <1>0, <2>3, <2>4 DEF LabelsPast
    <3>2. f[n] = NULL
      BY <2>2, <2>4 DEF Walks
    <3> QED BY <2>2, <3>1, <3>2 DEF EntryOf, e
  <2>5. CASE n # NULL
    <3>1. WalkFrom(n) \cap LabelStops = LabelsPast(i)
      BY <2>3, <2>5, LabelLines DEF LabelsPast
    <3>2. f[n] = Stops(n, LabelStops, LabelResults)
      BY <2>2, <2>3, <2>5, WalkStops
    <3>3. LabelsPast(i) # {} => Min(LabelsPast(i)) \in Places
      <4>1. LabelsPast(i) \in SUBSET Nat /\ LabelsPast(i) \subseteq Places
        BY <1>0 DEF LabelsPast
      <4> QED BY <4>1, LeastOf
    <3> QED BY <2>2, <3>1, <3>2, <3>3 DEF Stops, EntryOf, LabelResults, e
  <2> QED BY <2>4, <2>5 DEF e
<1> QED BY <1>1, <1>2

-----------------------------------------------------------------------------
(***************************************************************************)
(* extlinux_get_value() reads an entry as its own lines mean it.           *)
(***************************************************************************)
\* A text read from its first word ends where extlinux_get_value() ends it.
LEMMA TextRead ==
  ASSUME conf \in Texts, NEW v, At(conf, v) \in Word
  PROVE  /\ SubSeq(conf, v, v + value_len(conf, v) - 1) = Text(v)
         /\ Text(v) # <<>>
         /\ value_len(conf, v) \in Nat \ {0}
         /\ v + value_len(conf, v) <= line_end(conf, v)
         /\ At(conf, v + value_len(conf, v) - 1) # Blank
         /\ \A q \in v + value_len(conf, v) .. line_end(conf, v) - 1 : At(conf, q) = Blank
<1>1. /\ Len(conf) \in Nat /\ DOMAIN conf = 1 .. Len(conf)
      /\ \A x : At(conf, x) = NUL <=> x \notin 1 .. Len(conf)
      /\ At(conf, v) # Blank /\ At(conf, v) # NUL /\ At(conf, v) # EOL
  BY TextIs, WordsAreNotMarks
<1>2. v \in 1 .. Len(conf) /\ v \in Places
  BY <1>1 DEF Places
<1> DEFINE e == line_end(conf, v)
           S == {q \in v .. e - 1 : At(conf, q) # Blank}
           m == Max(S)
<1>3. /\ e \in v .. Len(conf) + 1 /\ At(conf, e) \in {EOL, NUL}
      /\ \A q \in v .. e - 1 : At(conf, q) \notin {EOL, NUL}
  BY <1>2, LineEnd
<1> HIDE DEF e
<1>4. v \in S /\ S \in SUBSET (1 .. Len(conf)) /\ v < e
  <2>1. e # v
    BY <1>1, <1>3
  <2> QED BY <1>1, <1>2, <1>3, <2>1
<1>5. m \in S /\ \A q \in S : q <= m
  <2>1. S # {}
    BY <1>4
  <2> HIDE DEF S
  <2>2. Reading!Max(S) \in S /\ \A q \in S : q <= Reading!Max(S)
    BY <1>1, <1>4, <2>1, Reading!MaxOfSet
  <2> QED BY <2>2 DEF Max, Reading!Max
<1>6. /\ m \in v .. e - 1 /\ At(conf, m) # Blank
      /\ \A q \in m + 1 .. e - 1 : At(conf, q) = Blank
  <2>1. m \in v .. e - 1 /\ At(conf, m) # Blank
    BY <1>5
  <2>2. ASSUME NEW q \in m + 1 .. e - 1, At(conf, q) # Blank PROVE FALSE
    <3>1. q \in v .. e - 1
      BY <1>2, <2>1
    <3>2. q \in S
      BY <2>2, <3>1
    <3>3. q <= m
      BY <1>5, <3>2
    <3> HIDE DEF m, S
    <3> QED BY <1>2, <1>3, <2>1, <2>2, <3>3
  <2> QED BY <2>1, <2>2
<1>7. value_len(conf, v) = m - v + 1
  BY DEF value_len, e
<1> HIDE DEF m, S
<1> DEFINE L == value_len(conf, v)
<1>8. /\ L = m - v + 1 /\ L \in Nat /\ L # 0 /\ v + L <= e /\ v + L - 1 = m /\ v + L = m + 1
      /\ v \in Nat /\ e \in Nat
  BY <1>1, <1>2, <1>3, <1>6, <1>7
<1> HIDE DEF L
<1> DEFINE rest == CHOOSE n \in 0 .. Len(conf) :
                /\ At(conf, v + n) \in {EOL, NUL}
                /\ \A k \in 0 .. n - 1 : At(conf, v + k) \notin {EOL, NUL}
           last == CHOOSE n \in 0 .. rest :
                /\ \A k \in n .. rest - 1 : At(conf, v + k) = Blank
                /\ n = 0 \/ At(conf, v + n - 1) # Blank
<1>9. rest = e - v
  <2>1. /\ e - v \in 0 .. Len(conf) /\ At(conf, v + (e - v)) \in {EOL, NUL}
        /\ \A k \in 0 .. (e - v) - 1 : At(conf, v + k) \notin {EOL, NUL}
    <3>1. e - v \in 0 .. Len(conf) /\ v + (e - v) = e
      BY <1>1, <1>2, <1>3
    <3>2. \A k \in 0 .. (e - v) - 1 : v + k \in v .. e - 1
      BY <1>8
    <3> QED BY <1>3, <3>1, <3>2
  <2>2. ASSUME NEW n \in 0 .. Len(conf), At(conf, v + n) \in {EOL, NUL},
               \A k \in 0 .. n - 1 : At(conf, v + k) \notin {EOL, NUL}
        PROVE  n = e - v
    <3>1. ~(n \in 0 .. (e - v) - 1)
      BY <2>1, <2>2
    <3>2. ~(e - v \in 0 .. n - 1)
      BY <2>1, <2>2
    <3> QED BY <1>1, <1>8, <2>1, <3>1, <3>2
  <2> HIDE DEF e
  <2> QED BY <2>1, <2>2
<1>10. last = L
  <2> DEFINE Q(n) == /\ \A k \in n .. rest - 1 : At(conf, v + k) = Blank
                     /\ n = 0 \/ At(conf, v + n - 1) # Blank
  <2> HIDE DEF rest
  <2>1. L \in 0 .. rest /\ Q(L)
    <3>1. L \in 0 .. rest
      BY <1>8, <1>9
    <3>2. ASSUME NEW k \in L .. rest - 1 PROVE At(conf, v + k) = Blank
      <4>1. v + k \in m + 1 .. e - 1
        BY <1>6, <1>8, <1>9
      <4> QED BY <1>6, <4>1
    <3> QED BY <1>6, <1>8, <3>1, <3>2
  <2>2. ASSUME NEW n \in 0 .. rest, Q(n) PROVE n = L
    <3>0. n \in Nat /\ rest \in Nat /\ rest > 0
      BY <1>4, <1>8, <1>9
    <3>1. ~(n < L)
      <4> SUFFICES ASSUME n < L PROVE FALSE
        OBVIOUS
      <4>1. L - 1 \in n .. rest - 1 /\ v + (L - 1) = m
        BY <1>6, <1>8, <2>1, <3>0
      <4>2. At(conf, m) = Blank
        BY <2>2, <4>1
      <4> QED BY <1>6, <4>2
    <3>2. ~(n > L)
      <4> SUFFICES ASSUME n > L PROVE FALSE
        OBVIOUS
      <4>1. n - 1 \in L .. rest - 1 /\ v + (n - 1) = v + n - 1 /\ n # 0
        BY <1>8, <3>0
      <4>2. At(conf, v + (n - 1)) = Blank
        BY <2>1, <4>1
      <4> QED BY <2>2, <4>1, <4>2
    <3> QED BY <1>8, <3>0, <3>1, <3>2
  <2>3. last = CHOOSE n \in 0 .. rest : Q(n)
    OBVIOUS
  <2> HIDE DEF Q, last
  <2> QED BY <2>1, <2>2, <2>3
<1>11. Text(v) = SubSeq(conf, v, v + L - 1)
  <2>1. Text(v) = SubSeq(conf, v, v + last - 1)
    BY DEF Text
  <2> HIDE DEF last
  <2> QED BY <1>10, <2>1
<1>12. Text(v) # <<>>
  <2>1. \A q \in v .. m : conf[q] \in Symbols
    BY <1>2, <1>3, <1>6, TextIs
  <2>2. m \in Int /\ v \in Int /\ v <= m
    BY <1>2, <1>6
  <2> HIDE DEF Symbols
  <2>3. Len(SubSeq(conf, v, m)) = m - v + 1
    BY <2>1, <2>2, SubSeqProperties
  <2>4. Len(Text(v)) # 0
    BY <1>8, <1>11, <2>3
  <2> QED BY <2>4
<1> QED BY <1>6, <1>8, <1>11, <1>12 DEF L, e

\* Where the loop of extlinux_get_value() stops, and with what.
ValueEnds(key) ==
  {a \in Places : \/ At(conf, skip_space(conf, a)) = NUL
                  \/ ends_entry(conf, skip_space(conf, a), key)}
ValueStops(key) ==
  ValueEnds(key) \cup {a \in Places : match_key(conf, skip_space(conf, a), key) # NULL}
ValueResults(key) ==
  [a \in Places |-> IF a \in ValueEnds(key) THEN NULL
                    ELSE match_key(conf, skip_space(conf, a), key)]

\* The function extlinux_get_value() is defined by goes through the lines.
LEMMA ValueWalk ==
  ASSUME conf \in Texts, NEW a, NEW key
  PROVE  \E f : /\ Walks(f, ValueStops(key), ValueResults(key))
                /\ value_of(conf, a, key) =
                     f[IF key # LabelKey /\ match_key(conf, a, LabelKey) # NULL
                         THEN next_line(conf, a) ELSE a]
<1> DEFINE Is(f) ==
      f = [x \in Pointer(conf) |->
             LET q == skip_space(conf, x)
             IN  IF x = NULL \/ At(conf, q) = NUL \/ ends_entry(conf, q, key) THEN NULL
                 ELSE IF match_key(conf, q, key) # NULL THEN match_key(conf, q, key)
                 ELSE f[next_line(conf, q)]]
           g == CHOOSE f : Is(f)
<1>1. Pointer(conf) = {NULL} \cup Places /\ NULL \notin Places
  BY LinesArePlaces
<1>2. \A x \in Places :
        /\ x \in ValueEnds(key) <=> \/ At(conf, skip_space(conf, x)) = NUL
                                    \/ ends_entry(conf, skip_space(conf, x), key)
        /\ x \in ValueStops(key) <=> \/ x \in ValueEnds(key)
                                     \/ match_key(conf, skip_space(conf, x), key) # NULL
        /\ ValueResults(key)[x] = IF x \in ValueEnds(key) THEN NULL
                                  ELSE match_key(conf, skip_space(conf, x), key)
        /\ next_line(conf, skip_space(conf, x)) = next_line(conf, x)
  <2>1. \A x \in Places : next_line(conf, skip_space(conf, x)) = next_line(conf, x)
    BY NextLineSkip
  <2> QED BY <2>1 DEF ValueStops, ValueResults, ValueEnds
<1>3. PICK f : f = [x \in Pointer(conf) |-> f[x]] /\ Walks(f, ValueStops(key), ValueResults(key))
  BY WalkExists
<1>4. Is(f)
  <2>1. \A x \in Pointer(conf) :
          f[x] = LET q == skip_space(conf, x)
                 IN  IF x = NULL \/ At(conf, q) = NUL \/ ends_entry(conf, q, key) THEN NULL
                     ELSE IF match_key(conf, q, key) # NULL THEN match_key(conf, q, key)
                     ELSE f[next_line(conf, q)]
    BY <1>1, <1>2, <1>3 DEF Walks
  <2> QED BY <1>3, <2>1
<1>5. Is(g)
  BY <1>4
<1>6. Walks(g, ValueStops(key), ValueResults(key))
  <2>1. \A x \in Pointer(conf) :
          g[x] = LET q == skip_space(conf, x)
                 IN  IF x = NULL \/ At(conf, q) = NUL \/ ends_entry(conf, q, key) THEN NULL
                     ELSE IF match_key(conf, q, key) # NULL THEN match_key(conf, q, key)
                     ELSE g[next_line(conf, q)]
    BY <1>5
  <2> HIDE DEF g
  <2>2. g[NULL] = NULL
    BY <1>1, <2>1
  <2>3. ASSUME NEW x \in Places
        PROVE  g[x] = IF x \in ValueStops(key) THEN ValueResults(key)[x]
                      ELSE g[next_line(conf, x)]
    <3> DEFINE q == skip_space(conf, x)
    <3>1. g[x] = IF At(conf, q) = NUL \/ ends_entry(conf, q, key) THEN NULL
                 ELSE IF match_key(conf, q, key) # NULL THEN match_key(conf, q, key)
                 ELSE g[next_line(conf, q)]
      BY <1>1, <2>1
    <3> QED BY <1>2, <3>1
  <2> QED BY <2>2, <2>3 DEF Walks
<1>7. value_of(conf, a, key) = g[IF key # LabelKey /\ match_key(conf, a, LabelKey) # NULL
                                   THEN next_line(conf, a) ELSE a]
  BY DEF value_of
<1> QED BY <1>6, <1>7

\* A line that gives a key a value begins with the key's first word.
LEMMA FirstWord ==
  ASSUME conf \in Texts, NEW i \in Places, NEW key \in Keys, Pair(i, key)
  PROVE  At(conf, skip_space(conf, i)) = key[1]
<1> DEFINE a == skip_space(conf, i)
           m == match_key(conf, a, key)
<1>1. m # NULL
  BY PairMatch
<1>2. PICK f : /\ f[0] = a
               /\ \A n \in 1 .. Len(key) : f[n] = after_word(conf, f[n - 1], key[n])
               /\ m = IF At(conf, f[Len(key)]) \in Word THEN f[Len(key)] ELSE NULL
  BY MatchIs
<1> HIDE DEF a, m
<1>3. Len(key) \in Nat /\ Len(key) >= 1
  <2>1. key \in Seq(KeyWords) /\ key # <<>>
    BY DEF Keys
  <2> HIDE DEF KeyWords
  <2> QED BY <2>1
<1>4. \A n \in 1 .. Len(key) : f[n] # NULL => f[n - 1] # NULL /\ At(conf, f[n - 1]) = key[n]
  BY <1>2 DEF after_word
<1> DEFINE T == {n \in 0 .. Len(key) - 1 : f[Len(key) - n] # NULL}
<1>5. 0 \in T
  <2>1. Len(key) - 0 = Len(key)
    BY <1>3
  <2> QED BY <1>1, <1>2, <1>3, <2>1
<1>6. ASSUME NEW n \in 0 .. (Len(key) - 1) - 1, n \in T PROVE n + 1 \in T
  <2> DEFINE k == Len(key) - n
  <2>1. k \in 1 .. Len(key) /\ k - 1 = Len(key) - (n + 1) /\ n + 1 \in 0 .. Len(key) - 1
    BY <1>3
  <2>2. f[k] # NULL
    BY <1>6
  <2> HIDE DEF k
  <2>3. f[k - 1] # NULL
    BY <1>4, <2>1, <2>2
  <2> QED BY <2>1, <2>3
<1> HIDE DEF T
<1>7. \A n \in 0 .. Len(key) - 1 : n \in T
  <2>1. Len(key) - 1 \in Nat
    BY <1>3
  <2> QED BY <1>5, <1>6, <2>1, Reading!BoundedInduction
<1>8. f[1] # NULL
  <2>1. Len(key) - 1 \in 0 .. Len(key) - 1 /\ Len(key) - (Len(key) - 1) = 1
    BY <1>3
  <2>2. f[Len(key) - (Len(key) - 1)] # NULL
    BY <1>7, <2>1 DEF T
  <2> QED BY <2>1, <2>2
<1> QED BY <1>2, <1>3, <1>4, <1>8 DEF a

\* Behind a line whose rest is blank up to the end of the text there are no more.
LEMMA BlankToTheEnd ==
  ASSUME conf \in Texts, NEW i \in Lines, At(conf, skip_space(conf, i)) = NUL,
         NEW j \in Lines, j > i
  PROVE  FALSE
<1> DEFINE a == skip_space(conf, i)
<1>1. i \in Places /\ j \in 1 .. Len(conf) /\ i \in 1 .. Len(conf) /\ i \in Nat /\ j \in Nat
      /\ Len(conf) \in Nat
  BY TextIs, LinesArePlaces
<1>2. /\ a \in i .. Len(conf) + 1 /\ \A q \in i .. a - 1 : At(conf, q) = Blank
  BY <1>1, SkipSpace
<1> HIDE DEF a
<1>3. /\ Len(conf) \in Nat /\ \A x : At(conf, x) = NUL <=> x \notin 1 .. Len(conf)
      /\ \A q \in 1 .. Len(conf) : At(conf, q) = conf[q]
  BY TextIs
<1>4. a = Len(conf) + 1
  <2>1. a \notin 1 .. Len(conf)
    BY <1>3 DEF a
  <2> QED BY <1>1, <1>2, <1>3, <2>1
<1>5. conf[j - 1] = EOL /\ j - 1 \in i .. a - 1 /\ j - 1 \in 1 .. Len(conf)
  <2>1. j # 1
    BY <1>1
  <2>2. conf[j - 1] = EOL
    BY <2>1 DEF Lines
  <2> QED BY <1>1, <1>3, <1>4, <2>1, <2>2
<1> QED BY <1>2, <1>3, <1>5 DEF EOL, Blank

\* The lines of an entry that give the key a value.
Pairs(i, key) == {j \in Block(i) : Pair(j, key)}

\* Those of some lines that give it one and come before any label among them.
BeforeLabels(D, key) == {j \in D : Pair(j, key) /\ \A k \in Labels \cap D : j < k}

\* The loop of extlinux_get_value() stops at the first of the lines it goes through
\* that gives the key a value, if no label comes first.
LEMMA ValueAmong ==
  ASSUME conf \in Texts, NEW key \in Keys, key[1] # LabelKey[1], NEW D \in SUBSET Lines
  PROVE  (IF D \cap ValueStops(key) = {} THEN NULL
          ELSE ValueResults(key)[Min(D \cap ValueStops(key))]) =
           IF BeforeLabels(D, key) = {} THEN NULL
           ELSE match_key(conf, skip_space(conf, Min(BeforeLabels(D, key))), key)
<1> DEFINE P == BeforeLabels(D, key)
           S == D \cap ValueStops(key)
<1>0. /\ \A j \in Lines : j \in Places /\ j \in Nat
      /\ LabelKey \in Keys /\ key # LabelKey
      /\ P \subseteq D /\ P \in SUBSET Nat /\ S \in SUBSET Nat /\ S \subseteq D
  BY LinesArePlaces, TheKeys DEF BeforeLabels
<1>1. \A j \in Lines : Pair(j, key) <=> match_key(conf, skip_space(conf, j), key) # NULL
  BY <1>0, PairMatch
<1>2. \A j \in Lines : /\ j \in ValueEnds(key) <=> \/ At(conf, skip_space(conf, j)) = NUL
                                                   \/ j \in Labels
                       /\ j \in ValueStops(key) <=> j \in ValueEnds(key) \/ Pair(j, key)
                       /\ ValueResults(key)[j] = IF j \in ValueEnds(key) THEN NULL
                                                 ELSE match_key(conf, skip_space(conf, j), key)
  <2>1. \A j \in Lines : j \in Labels <=> match_key(conf, skip_space(conf, j), LabelKey) # NULL
    BY <1>0, PairMatch DEF Labels
  <2>2. \A j \in Lines : ends_entry(conf, skip_space(conf, j), key) <=> j \in Labels
    BY <1>0, <2>1 DEF ends_entry
  <2> QED BY <1>0, <1>1, <2>2 DEF ValueEnds, ValueStops, ValueResults
<1>3. P \subseteq S
  BY <1>0, <1>2 DEF BeforeLabels
<1> HIDE DEF P
<1>4. CASE S = {}
  BY <1>3, <1>4 DEF P
<1>5. CASE S # {}
  <2> DEFINE j == Min(S)
             r == ValueResults(key)[j]
  <2>1. j \in S /\ \A k \in S : j <= k
    <3> HIDE DEF S
    <3> QED BY <1>0, <1>5, LeastOf
  <2>2. j \in D /\ j \in Lines /\ j \in Nat /\ \A k \in P : j <= k /\ k \in Nat /\ k \in Lines
    BY <1>0, <1>3, <2>1
  <2> HIDE DEF j
  <2>3. CASE j \in ValueEnds(key)
    <3>1. ASSUME NEW k \in P PROVE FALSE
      <4>1. CASE j \in Labels
        <5>1. k < j
          BY <2>2, <4>1 DEF P, BeforeLabels
        <5> QED BY <2>2, <5>1
      <4>2. CASE At(conf, skip_space(conf, j)) = NUL
        <5>1. k = j
          <6>1. ~(k > j)
            BY <2>2, <4>2, BlankToTheEnd
          <6> QED BY <2>2, <6>1
        <5>2. Pair(k, key)
          BY DEF P, BeforeLabels
        <5>3. At(conf, skip_space(conf, j)) = key[1]
          BY <1>0, <2>2, <5>1, <5>2, FirstWord
        <5>4. key[1] \in KeyWords
          <6>1. key \in Seq(KeyWords) /\ key # <<>>
            BY DEF Keys
          <6> HIDE DEF KeyWords
          <6> QED BY <6>1
        <5> QED BY <4>2, <5>3, <5>4, TheKeys
      <4> QED BY <1>2, <2>2, <2>3, <4>1, <4>2
    <3>2. r = NULL
      BY <1>2, <2>2, <2>3
    <3> QED BY <1>5, <3>1, <3>2 DEF P, j
  <2>4. CASE j \notin ValueEnds(key)
    <3>1. Pair(j, key) /\ j \notin Labels
      BY <1>2, <2>1, <2>2, <2>4
    <3>2. \A k \in Labels \cap D : j < k
      <4> SUFFICES ASSUME NEW k \in Labels \cap D PROVE j < k
        OBVIOUS
      <4>1. k \in Lines /\ k \in Nat
        BY <1>0 DEF Labels
      <4>2. k \in S
        BY <1>2, <4>1
      <4>3. j <= k /\ j # k
        BY <2>1, <3>1, <4>2
      <4> QED BY <2>2, <4>1, <4>3
    <3>3. j \in P
      BY <2>2, <3>1, <3>2 DEF P, BeforeLabels
    <3>4. Min(P) = j
      <4>1. \A k \in P : j <= k
        BY <2>2
      <4> QED BY <1>0, <3>3, <4>1, LeastIs
    <3>5. r = match_key(conf, skip_space(conf, j), key)
      BY <1>2, <2>2, <2>4
    <3> QED BY <1>5, <3>3, <3>4, <3>5 DEF P, j
  <2> QED BY <2>3, <2>4
<1> QED BY <1>4, <1>5

\* What is read of an entry.
LEMMA ValueOfEntry ==
  ASSUME conf \in Texts, NEW i \in Labels, NEW key \in Keys, key[1] # LabelKey[1]
  PROVE  value_of(conf, skip_space(conf, i), key) =
           IF Pairs(i, key) = {} THEN NULL
           ELSE match_key(conf, skip_space(conf, Min(Pairs(i, key))), key)
<1> DEFINE e == skip_space(conf, i)
           n == next_line(conf, i)
           D == {j \in Lines : j > i}
           S == D \cap ValueStops(key)
<1>0. /\ i \in Lines /\ i \in Places /\ \A j \in Lines : j \in Places /\ j \in Nat
      /\ LabelKey \in Keys /\ key # LabelKey /\ i \in Nat /\ Pair(i, LabelKey)
  BY LinesArePlaces, TheKeys DEF Labels
<1>1. match_key(conf, e, LabelKey) # NULL /\ next_line(conf, e) = n
  BY <1>0, PairMatch, NextLineSkip
<1>2. PICK f : /\ Walks(f, ValueStops(key), ValueResults(key))
               /\ value_of(conf, e, key) = f[n]
  <2>1. PICK f : /\ Walks(f, ValueStops(key), ValueResults(key))
                 /\ value_of(conf, e, key) =
                      f[IF key # LabelKey /\ match_key(conf, e, LabelKey) # NULL
                          THEN next_line(conf, e) ELSE e]
    BY ValueWalk
  <2> QED BY <1>0, <1>1, <2>1
<1>3. f[n] = IF S = {} THEN NULL ELSE ValueResults(key)[Min(S)]
  <2>1. /\ n = NULL => D = {}
        /\ n # NULL => n \in Places /\ WalkFrom(n) = D
    BY <1>0, LinesBehind
  <2> HIDE DEF n, D
  <2>2. CASE n = NULL
    BY <1>2, <2>1, <2>2 DEF Walks
  <2>3. CASE n # NULL
    BY <1>2, <2>1, <2>3, WalkStops DEF Stops
  <2> QED BY <2>2, <2>3
<1>4. ~Pair(i, key)
  BY <1>0, FirstWord
<1>5. BeforeLabels(D, key) = Pairs(i, key)
  <2>1. ASSUME NEW j \in Lines
        PROVE  j \in BeforeLabels(D, key) <=> j \in Pairs(i, key)
    <3>1. j > i <=> j >= i /\ j # i
      BY <1>0
    <3>2. (\A k \in Labels \cap D : j < k) <=> (\A k \in Labels : k > i => j < k)
      BY DEF Labels
    <3> QED BY <1>4, <3>1, <3>2 DEF BeforeLabels, Pairs, Block
  <2> QED BY <2>1 DEF BeforeLabels, Pairs, Block
<1>6. D \in SUBSET Lines
  OBVIOUS
<1> HIDE DEF e, n, D
<1> QED BY <1>2, <1>3, <1>5, <1>6, ValueAmong DEF e

\* The label of an entry is read in its first line.
LEMMA LabelOfEntry ==
  ASSUME conf \in Texts, NEW i \in Labels
  PROVE  /\ value_of(conf, skip_space(conf, i), LabelKey) =
              match_key(conf, skip_space(conf, i), LabelKey)
         /\ Pairs(i, LabelKey) = {i}
<1> DEFINE e == skip_space(conf, i)
<1>1. /\ i \in Lines /\ i \in Places /\ LabelKey \in Keys /\ Pair(i, LabelKey)
      /\ \A j \in Lines : j \in Nat
  BY LinesArePlaces, TheKeys DEF Labels
<1>2. match_key(conf, e, LabelKey) # NULL /\ skip_space(conf, e) = e /\ e \in Places
  BY <1>1, PairMatch, NextLineSkip, SkipSpace
<1>3. PICK f : /\ Walks(f, ValueStops(LabelKey), ValueResults(LabelKey))
               /\ value_of(conf, e, LabelKey) = f[e]
  BY ValueWalk
<1> HIDE DEF e
<1>4. At(conf, e) # NUL
  <2>1. At(conf, e) = LabelKey[1]
    BY <1>1, FirstWord DEF e
  <2> QED BY <2>1 DEF LabelKey, NUL
<1>5. e \notin ValueEnds(LabelKey) /\ e \in ValueStops(LabelKey)
      /\ ValueResults(LabelKey)[e] = match_key(conf, e, LabelKey)
  BY <1>2, <1>4 DEF ValueEnds, ValueStops, ValueResults, ends_entry
<1>6. f[e] = match_key(conf, e, LabelKey)
  BY <1>2, <1>3, <1>5 DEF Walks
<1>7. Pairs(i, LabelKey) = {i}
  <2>1. ASSUME NEW j \in Block(i), Pair(j, LabelKey) PROVE j = i
    <3>1. j \in Labels /\ j >= i /\ j \in Nat /\ i \in Nat
      BY <1>1, <2>1 DEF Block, Labels
    <3>2. ~(j > i)
      <4>1. j > i => j < j
        BY <3>1 DEF Block
      <4> QED BY <3>1, <4>1
    <3> QED BY <3>1, <3>2
  <2>2. i \in Block(i)
    <3>1. \A k \in Labels : k > i => i < k
      <4>1. \A k \in Labels : k \in Nat
        BY <1>1 DEF Labels
      <4> QED BY <1>1, <4>1
    <3>2. i >= i
      BY <1>1
    <3> QED BY <1>1, <3>1, <3>2 DEF Block
  <2> QED BY <1>1, <2>1, <2>2 DEF Pairs
<1> QED BY <1>3, <1>6, <1>7 DEF e

\* A value found in the first of some lines that give it is what they mean.
LEMMA ValueIsMeant ==
  ASSUME conf \in Texts, NEW key \in Keys, NEW e, NEW lines \in SUBSET Lines, NEW P,
         P = {j \in lines : Pair(j, key)},
         value_of(conf, e, key) = IF P = {} THEN NULL
                                  ELSE match_key(conf, skip_space(conf, Min(P)), key)
  PROVE  /\ extlinux_get_value(conf, e, key) = Meant(lines, key)
         /\ Meant(lines, key) = <<>> <=> value_of(conf, e, key) = NULL
<1> DEFINE j == Min(P)
           v == value_of(conf, e, key)
<1>1. P \in SUBSET Nat /\ P \subseteq Places /\ \A x \in P : Pair(x, key)
  BY LinesArePlaces
<1>2. v = IF P = {} THEN NULL ELSE match_key(conf, skip_space(conf, j), key)
  OBVIOUS
<1>3. Meant(lines, key) =
        IF P = {} THEN <<>> ELSE Text(CHOOSE x \in j .. Len(conf) : Gives(j, key, x))
  BY DEF Meant
<1>4. extlinux_get_value(conf, e, key) =
        IF v = NULL THEN <<>> ELSE SubSeq(conf, v, v + value_len(conf, v) - 1)
  BY DEF extlinux_get_value
<1> HIDE DEF j, v
<1>5. CASE P = {}
  BY <1>2, <1>3, <1>4, <1>5 DEF v
<1>6. CASE P # {}
  <2>1. j \in P
    BY <1>1, <1>6, LeastOf DEF j
  <2>2. j \in Places /\ Pair(j, key)
    BY <1>1, <2>1
  <2>3. v # NULL /\ At(conf, v) \in Word /\ (CHOOSE x \in j .. Len(conf) : Gives(j, key, x)) = v
    BY <1>2, <1>6, <2>2, PairMatch
  <2>4. SubSeq(conf, v, v + value_len(conf, v) - 1) = Text(v) /\ Text(v) # <<>>
    BY <2>3, TextRead
  <2> QED BY <1>3, <1>4, <1>6, <2>3, <2>4 DEF v
<1> QED BY <1>5, <1>6

\* What is read of an entry is what its lines mean.
LEMMA EntryReads ==
  ASSUME conf \in Texts, NEW i \in Labels, NEW key \in Keys,
         key[1] # LabelKey[1] \/ key = LabelKey
  PROVE  /\ extlinux_get_value(conf, skip_space(conf, i), key) = Meant(Block(i), key)
         /\ Meant(Block(i), key) = <<>> <=> value_of(conf, skip_space(conf, i), key) = NULL
<1> DEFINE P == Pairs(i, key)
<1>1. value_of(conf, skip_space(conf, i), key) =
        IF P = {} THEN NULL ELSE match_key(conf, skip_space(conf, Min(P)), key)
  <2>1. CASE key[1] # LabelKey[1]
    BY <2>1, ValueOfEntry
  <2>2. CASE key = LabelKey
    <3>1. P = {i} /\ i \in Nat
      BY <2>2, LabelOfEntry, LinesArePlaces DEF Labels
    <3>2. Min(P) = i
      BY <3>1, LeastIs
    <3> HIDE DEF P
    <3> QED BY <2>2, <3>1, <3>2, LabelOfEntry
  <2> QED BY <2>1, <2>2
<1>2. Block(i) \in SUBSET Lines /\ P = {j \in Block(i) : Pair(j, key)}
  BY DEF Block, Pairs
<1> HIDE DEF P
<1> QED BY <1>1, <1>2, ValueIsMeant

\* The lines before the first label.
Globals == {j \in Lines : \A k \in Labels : j < k}

\* Without an entry where the text begins, a read from there ends at the first label.
LEMMA ValueOfGlobals ==
  ASSUME conf \in Texts, NEW key \in Keys, key[1] # LabelKey[1],
         match_key(conf, 1, LabelKey) = NULL
  PROVE  value_of(conf, 1, key) =
           IF BeforeLabels(Lines, key) = {} THEN NULL
           ELSE match_key(conf, skip_space(conf, Min(BeforeLabels(Lines, key))), key)
<1> DEFINE S == Lines \cap ValueStops(key)
<1>1. PICK f : /\ Walks(f, ValueStops(key), ValueResults(key))
               /\ value_of(conf, 1, key) = f[1]
  BY ValueWalk
<1>2. /\ 1 \in Places /\ Lines \subseteq 1 .. Len(conf) /\ Len(conf) \in Nat
      /\ DOMAIN conf = 1 .. Len(conf)
  BY LinesArePlaces, TextIs
<1>3. f[1] = IF S = {} THEN NULL ELSE ValueResults(key)[Min(S)]
  <2>1. CASE Len(conf) = 0
    <3>1. Lines = {}
      BY <1>2, <2>1
    <3>2. At(conf, skip_space(conf, 1)) = NUL
      BY <1>2, <2>1, TextIs
    <3>3. 1 \in ValueStops(key) /\ ValueResults(key)[1] = NULL
      BY <1>2, <3>2 DEF ValueStops, ValueResults, ValueEnds
    <3> QED BY <1>1, <1>2, <3>1, <3>3 DEF Walks
  <2>2. CASE Len(conf) # 0
    <3>1. 1 \in Lines
      BY <1>2, <2>2 DEF Lines
    <3>2. WalkFrom(1) = Lines
      <4>1. \A j \in Lines : j = 1 \/ j > 1
        BY <1>2
      <4> QED BY <3>1, <4>1 DEF WalkFrom
    <3>3. f[1] = Stops(1, ValueStops(key), ValueResults(key))
      BY <1>1, <1>2, WalkStops
    <3> QED BY <3>2, <3>3 DEF Stops
  <2> QED BY <2>1, <2>2
<1> QED BY <1>1, <1>3, ValueAmong

\* A global option is read in the lines before the first entry; but a configuration
\* that begins with one, unindented, has that entry's own lines read for its global
\* options (extlinux.c:168-180).
THEOREM GlobalsRead ==
  ASSUME conf \in Texts, NEW key \in Keys, key[1] # LabelKey[1]
  PROVE  extlinux_get_value(conf, 1, key) =
           Meant(IF 1 \in Labels /\ At(conf, 1) # Blank THEN Block(1) ELSE Globals, key)
<1>1. /\ 1 \in Places /\ Lines \subseteq 1 .. Len(conf) /\ Len(conf) \in Nat
      /\ DOMAIN conf = 1 .. Len(conf) /\ LabelKey \in Keys
  BY LinesArePlaces, TextIs, TheKeys
<1>2. At(conf, 1) # Blank => skip_space(conf, 1) = 1
  <2>1. /\ skip_space(conf, 1) \in 1 .. Len(conf) + 1
        /\ \A q \in 1 .. skip_space(conf, 1) - 1 : At(conf, q) = Blank
    BY <1>1, SkipSpace
  <2> HIDE DEF skip_space
  <2> QED BY <1>1, <2>1
<1>3. CASE 1 \in Labels /\ At(conf, 1) # Blank
  BY <1>2, <1>3, EntryReads
<1>4. CASE ~(1 \in Labels /\ At(conf, 1) # Blank)
  <2>1. match_key(conf, 1, LabelKey) = NULL
    <3>1. CASE At(conf, 1) = Blank
      <4>1. PICK f : /\ f[0] = 1
                     /\ \A n \in 1 .. Len(LabelKey) :
                          f[n] = after_word(conf, f[n - 1], LabelKey[n])
                     /\ match_key(conf, 1, LabelKey) =
                          IF At(conf, f[Len(LabelKey)]) \in Word THEN f[Len(LabelKey)] ELSE NULL
        BY <1>1, MatchIs
      <4>2. Len(LabelKey) = 1 /\ LabelKey[1] # Blank
        BY DEF LabelKey, Blank
      <4>3. f[1] = NULL
        BY <3>1, <4>1, <4>2 DEF after_word
      <4> QED BY <4>1, <4>2, <4>3
    <3>2. CASE At(conf, 1) # Blank
      <4>1. ~Pair(1, LabelKey)
        <5>1. CASE Len(conf) = 0
          BY <1>1, <5>1 DEF Pair
        <5>2. CASE Len(conf) # 0
          <6>1. 1 \in Lines
            BY <1>1, <5>2 DEF Lines
          <6> QED BY <1>4, <3>2, <6>1 DEF Labels
        <5> QED BY <5>1, <5>2
      <4> QED BY <1>1, <1>2, <3>2, <4>1, PairMatch
    <3> QED BY <3>1, <3>2
  <2>2. BeforeLabels(Lines, key) = {j \in Globals : Pair(j, key)}
    BY DEF BeforeLabels, Globals, Labels
  <2>3. Globals \in SUBSET Lines
    BY DEF Globals
  <2> DEFINE P == BeforeLabels(Lines, key)
  <2>4. value_of(conf, 1, key) =
          IF P = {} THEN NULL ELSE match_key(conf, skip_space(conf, Min(P)), key)
    BY <2>1, ValueOfGlobals
  <2> HIDE DEF P
  <2>5. extlinux_get_value(conf, 1, key) = Meant(Globals, key)
    BY <2>2, <2>3, <2>4, ValueIsMeant DEF P
  <2> QED BY <1>4, <2>5
<1> QED BY <1>3, <1>4

\* An entry's label is the same read in its first line or in all of them.
LEMMA LabelRead ==
  ASSUME conf \in Texts, NEW i \in Labels
  PROVE  Label(i) = Meant(Block(i), LabelKey)
<1>1. {j \in {i} : Pair(j, LabelKey)} = {i}
  BY DEF Labels
<1>2. {j \in Block(i) : Pair(j, LabelKey)} = {i}
  BY LabelOfEntry DEF Pairs
<1> DEFINE A == {j \in {i} : Pair(j, LabelKey)}
           B == {j \in Block(i) : Pair(j, LabelKey)}
<1>3. /\ Label(i) = IF A = {} THEN <<>>
                    ELSE Text(CHOOSE v \in Min(A) .. Len(conf) : Gives(Min(A), LabelKey, v))
      /\ Meant(Block(i), LabelKey) =
           IF B = {} THEN <<>>
           ELSE Text(CHOOSE v \in Min(B) .. Len(conf) : Gives(Min(B), LabelKey, v))
  BY DEF Label, Meant
<1>4. A = B
  BY <1>1, <1>2
<1> HIDE DEF A, B
<1> QED BY <1>3, <1>4

-----------------------------------------------------------------------------
(***************************************************************************)
(* The menu and the default, while the first scan goes on.                 *)
(***************************************************************************)
\* The labels behind all those of s.
Rest(s) == {i \in Labels : \A k \in 1 .. Len(s) : s[k] < i}

\* The menu shows the entries of the labels s, and s leaves none out.
MenuOf(s) ==
  /\ s \in Seq(Labels) /\ Len(s) = Len(shown)
  /\ \A j, k \in 1 .. Len(s) : j < k => s[j] < s[k]
  /\ \A i \in Labels : i \in Rest(s) \/ \E k \in 1 .. Len(s) : s[k] = i
  /\ \A k \in 1 .. Len(s) : /\ shown[k].at = skip_space(conf, s[k])
                            /\ shown[k].title = Title(skip_space(conf, s[k]))
  /\ p = EntryOf(Rest(s))

\* No entry shown matches the default, or the one settled on does.
NoneIsDefault == \A k \in 1 .. Len(shown) : ~IsDefault(shown[k].at)
PicksDefault == defaultEntry + 1 \in 1 .. Len(shown) /\ IsDefault(shown[defaultEntry + 1].at)
DefaultInv ==
  \/ defaultEntry \in Int /\ PicksDefault
  \/ NoneIsDefault /\ defaultEntry =
       IF pc = "scan" /\ value_of(conf, 1, DefaultKey) # NULL THEN -1 ELSE 0

\* The inductive invariant of the first scan.
MenuInv ==
  /\ conf \in Texts
  /\ \E s : MenuOf(s)
  /\ pc # "scan" => p = NULL
  /\ DefaultInv

\* An entry begins in the text.
LEMMA EntryOfLabels ==
  ASSUME conf \in Texts, NEW L \in SUBSET Labels
  PROVE  /\ EntryOf(L) = NULL <=> L = {}
         /\ L # {} => /\ Min(L) \in L /\ \A i \in L : Min(L) <= i
                      /\ EntryOf(L) = skip_space(conf, Min(L))
                      /\ EntryOf(L) \in Places
<1>1. L \in SUBSET Nat /\ L \subseteq Places /\ NULL \notin Places
  BY LinesArePlaces, LabelLines
<1>2. CASE L = {}
  BY <1>2 DEF EntryOf
<1>3. CASE L # {}
  <2>1. Min(L) \in L /\ \A i \in L : Min(L) <= i
    BY <1>1, <1>3, LeastOf
  <2>2. skip_space(conf, Min(L)) \in Places
    BY <1>1, <2>1, SkipSpace
  <2> QED BY <1>1, <1>3, <2>1, <2>2 DEF EntryOf
<1> QED BY <1>2, <1>3

\* The scan starts with no entry shown.
LEMMA MenuStarts == ASSUME Init PROVE MenuInv
<1>1. /\ conf \in Texts /\ shown = <<>> /\ pc = "scan"
      /\ p = extlinux_next_entry(conf, 1, NULL)
      /\ defaultEntry = IF value_of(conf, 1, DefaultKey) = NULL THEN 0 ELSE -1
  BY ConfsAreTexts DEF Init
<1>2. MenuOf(<<>>)
  <2>1. <<>> \in Seq(Labels) /\ Len(<<>>) = 0 /\ 1 .. 0 = {}
    OBVIOUS
  <2>2. Rest(<<>>) = Labels
    BY <2>1 DEF Rest
  <2>3. p = EntryOf(Labels)
    BY <1>1, EntryFound
  <2> QED BY <1>1, <2>1, <2>2, <2>3 DEF MenuOf
<1>3. NoneIsDefault
  BY <1>1 DEF NoneIsDefault
<1>4. DefaultInv
  BY <1>1, <1>3 DEF DefaultInv
<1> QED BY <1>1, <1>2, <1>4 DEF MenuInv

\* Nothing of the text is changed by a step.
LEMMA TextKept ==
  ASSUME conf' = conf
  PROVE  /\ Labels' = Labels
         /\ \A a : Title(a)' = Title(a) /\ IsDefault(a)' = IsDefault(a)
         /\ \A L : EntryOf(L)' = EntryOf(L)
         /\ \A s : Rest(s)' = Rest(s)
<1>1. Lines' = Lines
  BY DEF Lines
<1>2. \A i, j : Blanked(i, j)' = Blanked(i, j)
  BY DEF Blanked
<1>3. \A i, key, v : Gives(i, key, v)' = Gives(i, key, v)
  BY <1>2 DEF Gives
<1>4. \A i, key : Pair(i, key)' = Pair(i, key)
  BY <1>3 DEF Pair
<1>5. Labels' = Labels
  BY <1>1, <1>4 DEF Labels
<1>6. \A a : Title(a)' = Title(a)
  BY DEF Title
<1>7. \A a, b, n : strncmp_is_zero(a, b, n)' = strncmp_is_zero(a, b, n)
  BY DEF strncmp_is_zero
<1>8. \A a : IsDefault(a)' = IsDefault(a)
  BY <1>7 DEF IsDefault
<1>9. \A L : EntryOf(L)' = EntryOf(L)
  BY DEF EntryOf
<1>10. \A s : Rest(s)' = Rest(s)
  BY <1>5 DEF Rest
<1> QED BY <1>5, <1>6, <1>8, <1>9, <1>10

\* Showing an entry goes from its label to the next.
LEMMA ShowsNext ==
  ASSUME SeekInv, MenuInv, ShowEntry, NEW s, MenuOf(s)
  PROVE  \E t : MenuOf(t)'
<1> DEFINE item == [at |-> p, title |-> Title(p)]
<1>0. PICK i, t : i = Min(Rest(s)) /\ t = Append(s, i)
  OBVIOUS
<1>1. /\ shown' = Append(shown, item) /\ p # NULL /\ conf' = conf /\ conf \in Texts
      /\ p' = extlinux_next_entry(conf, NULL, p)
  BY DEF ShowEntry, MenuInv
<1>2. p = EntryOf(Rest(s)) /\ Rest(s) \in SUBSET Labels
  BY DEF MenuOf, Rest
<1>3. /\ i \in Rest(s) /\ \A j \in Rest(s) : i <= j
      /\ p = skip_space(conf, i) /\ p \in Places
  BY <1>0, <1>1, <1>2, EntryOfLabels
<1>4. /\ i \in Labels /\ \A k \in 1 .. Len(s) : s[k] < i
  BY <1>3 DEF Rest
<1>5. p' = EntryOf(LabelsPast(i))
  BY <1>1, <1>3, <1>4, EntryFound
<1>6. /\ s \in Seq(Labels) /\ Len(s) = Len(shown) /\ Labels \in SUBSET Nat
      /\ \A j, k \in 1 .. Len(s) : j < k => s[j] < s[k]
      /\ \A j \in Labels : j \in Rest(s) \/ \E k \in 1 .. Len(s) : s[k] = j
      /\ \A k \in 1 .. Len(s) : /\ shown[k].at = skip_space(conf, s[k])
                                /\ shown[k].title = Title(skip_space(conf, s[k]))
  BY <1>1, LabelLines DEF MenuOf
<1>7. /\ t \in Seq(Labels) /\ Len(t) = Len(s) + 1 /\ Len(s) \in Nat
      /\ t[Len(s) + 1] = i /\ \A k \in 1 .. Len(s) : t[k] = s[k] /\ s[k] \in Labels
  <2> HIDE DEF Labels
  <2> QED BY <1>0, <1>4, <1>6
<1>8. /\ Len(shown') = Len(shown) + 1 /\ shown'[Len(shown) + 1] = item
      /\ \A k \in 1 .. Len(shown) : shown'[k] = shown[k]
  <2>1. PICK S : shown \in Seq(S)
    BY DEF SeekInv, MenuIsSeq
  <2> HIDE DEF item
  <2> QED BY <1>1, <2>1, Appended
<1>9. \A k \in 1 .. Len(t) : k \in 1 .. Len(s) \/ k = Len(s) + 1
  BY <1>7
<1>10. \A j, k \in 1 .. Len(t) : j < k => t[j] < t[k]
  <2> SUFFICES ASSUME NEW j \in 1 .. Len(t), NEW k \in 1 .. Len(t), j < k PROVE t[j] < t[k]
    OBVIOUS
  <2>1. j \in 1 .. Len(s)
    BY <1>7
  <2>2. CASE k \in 1 .. Len(s)
    BY <1>6, <1>7, <2>1, <2>2
  <2>3. CASE k = Len(s) + 1
    BY <1>4, <1>7, <2>1, <2>3
  <2> QED BY <1>9, <2>2, <2>3
<1>11. Rest(t) = LabelsPast(i)
  <2>1. ASSUME NEW j \in Labels PROVE j \in Rest(t) <=> j > i
    <3>0. j \in Nat /\ i \in Nat
      BY <1>4, <1>6
    <3>1. ASSUME j \in Rest(t) PROVE j > i
      <4>1. Len(s) + 1 \in 1 .. Len(t)
        BY <1>7
      <4>2. t[Len(s) + 1] < j
        BY <3>1, <4>1 DEF Rest
      <4> QED BY <1>7, <3>0, <4>2
    <3>2. ASSUME j > i PROVE j \in Rest(t)
      <4>1. ASSUME NEW k \in 1 .. Len(t) PROVE t[k] < j
        <5>1. CASE k \in 1 .. Len(s)
          <6>1. t[k] = s[k] /\ s[k] \in Nat /\ s[k] < i
            BY <1>4, <1>6, <1>7, <5>1
          <6> QED BY <3>0, <3>2, <6>1
        <5>2. CASE k = Len(s) + 1
          BY <1>7, <3>0, <3>2, <5>2
        <5> QED BY <1>9, <5>1, <5>2
      <4> QED BY <4>1 DEF Rest
    <3> QED BY <3>1, <3>2
  <2> QED BY <2>1 DEF Rest, LabelsPast
<1>12. \A j \in Labels : j \in Rest(t) \/ \E k \in 1 .. Len(t) : t[k] = j
  <2> SUFFICES ASSUME NEW j \in Labels PROVE j \in Rest(t) \/ \E k \in 1 .. Len(t) : t[k] = j
    OBVIOUS
  <2>1. CASE j \in Rest(s)
    <3>1. j = i \/ j > i
      BY <1>3, <1>4, <1>6, <2>1
    <3>2. Len(s) + 1 \in 1 .. Len(t) /\ t[Len(s) + 1] = i
      BY <1>7
    <3> QED BY <1>11, <3>1, <3>2 DEF LabelsPast
  <2>2. ASSUME NEW k \in 1 .. Len(s), s[k] = j PROVE \E x \in 1 .. Len(t) : t[x] = j
    BY <1>7, <2>2
  <2> QED BY <1>6, <2>1, <2>2
<1>13. \A k \in 1 .. Len(t) : /\ shown'[k].at = skip_space(conf, t[k])
                              /\ shown'[k].title = Title(skip_space(conf, t[k]))
  <2> SUFFICES ASSUME NEW k \in 1 .. Len(t)
               PROVE  /\ shown'[k].at = skip_space(conf, t[k])
                      /\ shown'[k].title = Title(skip_space(conf, t[k]))
    OBVIOUS
  <2>1. CASE k \in 1 .. Len(s)
    BY <1>6, <1>7, <1>8, <2>1
  <2>2. CASE k = Len(s) + 1
    <3>1. shown'[k] = item /\ t[k] = i
      BY <1>6, <1>7, <1>8, <2>2
    <3> QED BY <1>3, <3>1
  <2> QED BY <1>9, <2>1, <2>2
<1>14. /\ Labels' = Labels /\ \A a : Title(a)' = Title(a)
       /\ \A L : EntryOf(L)' = EntryOf(L) /\ \A u : Rest(u)' = Rest(u)
  BY <1>1, TextKept
<1>15. MenuOf(t)'
  <2>1. p' = EntryOf(Rest(t))
    BY <1>5, <1>11
  <2>2. Len(t) = Len(shown')
    BY <1>6, <1>7, <1>8
  <2>3. Rest(t)' = Rest(t)
    BY <1>14
  <2>4. EntryOf(Rest(t))' = EntryOf(Rest(t))
    BY <1>1, <2>3 DEF EntryOf
  <2>5. \A k : Title(skip_space(conf, t[k]))' = Title(skip_space(conf, t[k]))
    BY <1>1 DEF Title
  <2>6. (\A k \in 1 .. Len(t) : /\ shown[k].at = skip_space(conf, t[k])
                                /\ shown[k].title = Title(skip_space(conf, t[k])))'
    BY <1>1, <1>13, <2>5
  <2>7. (\A j \in Labels : j \in Rest(t) \/ \E k \in 1 .. Len(t) : t[k] = j)'
    BY <1>12, <1>14, <2>3
  <2>8. (t \in Seq(Labels) /\ Len(t) = Len(shown) /\ p = EntryOf(Rest(t)))'
    BY <1>7, <1>14, <2>1, <2>2, <2>4
  <2> QED BY <1>10, <2>6, <2>7, <2>8 DEF MenuOf
<1> QED BY <1>15

\* The default stays an entry shown that strncmp() matches, if it matches any.
LEMMA DefaultShown == ASSUME SeekInv, MenuInv, ShowEntry PROVE DefaultInv'
<1> DEFINE item == [at |-> p, title |-> Title(p)]
<1>1. /\ shown' = Append(shown, item) /\ conf' = conf /\ pc = "scan" /\ pc' = pc
      /\ defaultEntry' = IF IsDefault(p) THEN Len(shown) ELSE defaultEntry
  BY DEF ShowEntry
<1>2. /\ Len(shown') = Len(shown) + 1 /\ shown'[Len(shown) + 1] = item
      /\ \A k \in 1 .. Len(shown) : shown'[k] = shown[k]
      /\ Len(shown) \in Nat
  <2>1. PICK S : shown \in Seq(S)
    BY DEF SeekInv, MenuIsSeq
  <2> HIDE DEF item
  <2> QED BY <1>1, <2>1, Appended
<1>3. item.at = p
  OBVIOUS
<1> HIDE DEF item
<1>4. \A a : IsDefault(a)' = IsDefault(a)
  BY <1>1, TextKept
<1>5. NoneIsDefault' = \A k \in 1 .. Len(shown') : ~IsDefault(shown'[k].at)
  BY <1>1 DEF NoneIsDefault, IsDefault, strncmp_is_zero
<1>6. PicksDefault' = (defaultEntry' + 1 \in 1 .. Len(shown')
                       /\ IsDefault(shown'[defaultEntry' + 1].at))
  BY <1>1 DEF PicksDefault, IsDefault, strncmp_is_zero
<1>7. CASE IsDefault(p)
  <2>1. defaultEntry' = Len(shown)
    BY <1>1, <1>7
  <2>2. defaultEntry' + 1 \in 1 .. Len(shown') /\ shown'[defaultEntry' + 1].at = p
    BY <1>2, <1>3, <2>1
  <2>3. PicksDefault'
    <3>1. IsDefault(shown'[defaultEntry' + 1].at)
      BY <1>7, <2>2
    <3> QED BY <1>6, <2>2, <3>1
  <2>4. defaultEntry' \in Int
    BY <1>2, <2>1
  <2> QED BY <2>3, <2>4 DEF DefaultInv
<1>8. CASE ~IsDefault(p) /\ defaultEntry \in Int /\ PicksDefault
  <2>1. defaultEntry' = defaultEntry /\ defaultEntry + 1 \in 1 .. Len(shown)
    BY <1>1, <1>8 DEF PicksDefault
  <2>2. defaultEntry + 1 \in 1 .. Len(shown') /\ shown'[defaultEntry + 1] = shown[defaultEntry + 1]
    BY <1>2, <2>1
  <2>3. PicksDefault'
    BY <1>6, <1>8, <2>1, <2>2 DEF PicksDefault
  <2> QED BY <1>8, <2>1, <2>3 DEF DefaultInv
<1>9. CASE ~IsDefault(p) /\ NoneIsDefault /\ ~(defaultEntry \in Int /\ PicksDefault)
  <2>1. defaultEntry' = IF value_of(conf, 1, DefaultKey) # NULL THEN -1 ELSE 0
    BY <1>1, <1>9 DEF MenuInv, DefaultInv
  <2>2. \A k \in 1 .. Len(shown') : ~IsDefault(shown'[k].at)
    <3> SUFFICES ASSUME NEW k \in 1 .. Len(shown') PROVE ~IsDefault(shown'[k].at)
      OBVIOUS
    <3>1. k \in 1 .. Len(shown) \/ k = Len(shown) + 1
      BY <1>2
    <3> QED BY <1>2, <1>3, <1>9, <3>1 DEF NoneIsDefault
  <2>3. NoneIsDefault'
    BY <1>5, <2>2
  <2> QED BY <1>1, <2>1, <2>3 DEF DefaultInv
<1> QED BY <1>7, <1>8, <1>9 DEF MenuInv, DefaultInv

\* Steps that leave the menu alone keep all of it.
LEMMA ScanKept ==
  ASSUME MenuInv, UNCHANGED <<conf, p, shown>>
  PROVE  /\ conf' \in Texts /\ \E s : MenuOf(s)'
         /\ NoneIsDefault' = NoneIsDefault
         /\ defaultEntry' = defaultEntry => PicksDefault' = PicksDefault
<1>1. PICK s : MenuOf(s)
  BY DEF MenuInv
<1>2. /\ Labels' = Labels /\ \A a : Title(a)' = Title(a)
      /\ \A L : EntryOf(L)' = EntryOf(L) /\ \A u : Rest(u)' = Rest(u)
  BY TextKept
<1>3. MenuOf(s)'
  <2>1. \A k : Title(skip_space(conf, s[k]))' = Title(skip_space(conf, s[k]))
    BY DEF Title
  <2>2. EntryOf(Rest(s))' = EntryOf(Rest(s))
    BY <1>2 DEF EntryOf
  <2>3. (\A k \in 1 .. Len(s) : /\ shown[k].at = skip_space(conf, s[k])
                                /\ shown[k].title = Title(skip_space(conf, s[k])))'
    BY <1>1, <2>1 DEF MenuOf
  <2>4. (\A j \in Labels : j \in Rest(s) \/ \E k \in 1 .. Len(s) : s[k] = j)'
    BY <1>1, <1>2 DEF MenuOf
  <2>5. (s \in Seq(Labels) /\ Len(s) = Len(shown) /\ p = EntryOf(Rest(s)))'
    BY <1>1, <1>2, <2>2 DEF MenuOf
  <2>6. \A j, k \in 1 .. Len(s) : j < k => s[j] < s[k]
    BY <1>1 DEF MenuOf
  <2> QED BY <2>3, <2>4, <2>5, <2>6 DEF MenuOf
<1>4. NoneIsDefault' = NoneIsDefault
  BY DEF NoneIsDefault, IsDefault, strncmp_is_zero
<1>5. defaultEntry' = defaultEntry => PicksDefault' = PicksDefault
  BY DEF PicksDefault, IsDefault, strncmp_is_zero
<1>6. conf' \in Texts
  BY DEF MenuInv, Texts
<1> QED BY <1>3, <1>4, <1>5, <1>6

\* Every step keeps what is shown in line with the labels of the text.
LEMMA MenuInvariant == SeekInv /\ MenuInv /\ [Next]_vars => MenuInv'
<1> SUFFICES ASSUME SeekInv, MenuInv, [Next]_vars PROVE MenuInv'
  OBVIOUS
<1>1. CASE ShowEntry
  <2>1. PICK s : MenuOf(s)
    BY DEF MenuInv
  <2>2. \E t : MenuOf(t)'
    BY <1>1, <2>1, ShowsNext
  <2>3. conf' = conf /\ pc' = "scan"
    BY <1>1 DEF ShowEntry
  <2>4. conf' \in Texts
    BY <2>3 DEF MenuInv, Texts
  <2> QED BY <1>1, <2>2, <2>3, <2>4, DefaultShown DEF MenuInv
<1>2. CASE EndOfMenu
  <2>1. /\ UNCHANGED <<conf, p, shown>> /\ pc = "scan" /\ p = NULL /\ pc' = "prompt"
        /\ defaultEntry' = IF defaultEntry < 0 THEN 0 ELSE defaultEntry
    BY <1>2 DEF EndOfMenu, SettledDefault
  <2>2. DefaultInv'
    <3>1. CASE defaultEntry \in Int /\ PicksDefault
      <4>1. defaultEntry >= 0
        BY <3>1 DEF PicksDefault
      <4>2. defaultEntry' = defaultEntry
        BY <2>1, <3>1, <4>1
      <4> QED BY <2>1, <3>1, <4>2, ScanKept DEF DefaultInv
    <3>2. CASE NoneIsDefault /\ ~(defaultEntry \in Int /\ PicksDefault)
      <4>1. defaultEntry = -1 \/ defaultEntry = 0
        BY <3>2 DEF MenuInv, DefaultInv
      <4>2. defaultEntry' = 0
        BY <2>1, <4>1
      <4> QED BY <2>1, <3>2, <4>2, ScanKept DEF DefaultInv
    <3> QED BY <3>1, <3>2 DEF MenuInv, DefaultInv
  <2> QED BY <2>1, <2>2, ScanKept DEF MenuInv
<1>3. CASE Select \/ Skip \/ Found \/ UNCHANGED vars
  <2>1. /\ UNCHANGED <<conf, p, shown, defaultEntry>>
        /\ pc = "scan" <=> pc' = "scan"
    BY <1>3 DEF Select, Skip, Found, vars
  <2>2. DefaultInv'
    <3>1. value_of(conf, 1, DefaultKey)' = value_of(conf, 1, DefaultKey)
      BY <2>1
    <3> QED BY <2>1, <3>1, ScanKept DEF MenuInv, DefaultInv
  <2> QED BY <2>1, <2>2, ScanKept DEF MenuInv
<1> QED BY <1>1, <1>2, <1>3 DEF Next

\* So the menu shows the labels' entries up to where the scan is, and the default
\* settled on is one that strncmp() matches, if any (loli.c:215-258).
THEOREM MenuInvariance == Spec => [](SeekInv /\ MenuInv)
<1>1. Init => MenuInv
  BY MenuStarts
<1> QED BY <1>1, MenuInvariant, SeekInvariance, PTL DEF Spec

-----------------------------------------------------------------------------
(***************************************************************************)
(* The menu is complete, and an entry reads its own lines.                 *)
(***************************************************************************)
\* A function that increases from 1 .. n into itself is the identity.
LEMMA IncreasingIsIdentity ==
  ASSUME NEW n \in Nat, NEW g \in [1 .. n -> 1 .. n],
         \A j, k \in 1 .. n : j < k => g[j] < g[k]
  PROVE  \A k \in 1 .. n : g[k] = k
<1> DEFINE T == {m \in 0 .. n : \A k \in 1 .. m : g[k] >= k}
           U == {m \in 0 .. n : \A k \in n - m + 1 .. n : k \in 1 .. n => g[k] <= k}
<1>0. \A k \in 1 .. n : g[k] \in 1 .. n
  OBVIOUS
<1>1. 0 \in T /\ 0 \in U
  OBVIOUS
<1>2. ASSUME NEW m \in 0 .. n - 1, m \in T PROVE m + 1 \in T
  <2>1. ASSUME NEW k \in 1 .. m + 1 PROVE g[k] >= k
    <3>1. CASE k \in 1 .. m
      BY <1>2, <3>1
    <3>2. CASE k = m + 1 /\ m >= 1
      <4>1. m \in 1 .. m /\ m \in 1 .. n /\ k \in 1 .. n /\ m < k
        BY <3>2
      <4>2. g[m] >= m /\ g[m] < g[k]
        BY <1>2, <4>1
      <4>3. g[m] \in Int /\ g[k] \in Int
        BY <1>0, <4>1
      <4> HIDE DEF T, U
      <4> QED BY <3>2, <4>2, <4>3
    <3>3. CASE k = m + 1 /\ m = 0
      <4>1. k \in 1 .. n /\ k = 1
        BY <3>3
      <4>2. g[k] \in 1 .. n
        BY <1>0, <4>1
      <4> HIDE DEF T, U
      <4> QED BY <4>1, <4>2
    <3> HIDE DEF T, U
    <3> QED BY <3>1, <3>2, <3>3
  <2> QED BY <2>1
<1>3. ASSUME NEW m \in 0 .. n - 1, m \in U PROVE m + 1 \in U
  <2>1. ASSUME NEW k \in n - (m + 1) + 1 .. n, k \in 1 .. n PROVE g[k] <= k
    <3>1. CASE k \in n - m + 1 .. n
      BY <1>3, <2>1, <3>1
    <3>2. CASE k = n - m /\ m >= 1
      <4>1. k + 1 \in n - m + 1 .. n /\ k + 1 \in 1 .. n /\ k < k + 1
        BY <3>2
      <4>2. g[k + 1] <= k + 1 /\ g[k] < g[k + 1]
        BY <1>3, <2>1, <4>1
      <4>3. g[k] \in Int /\ g[k + 1] \in Int
        BY <1>0, <2>1, <4>1
      <4> HIDE DEF T, U
      <4> QED BY <4>2, <4>3
    <3>3. CASE k = n - m /\ m = 0
      <4>1. g[k] \in 1 .. n
        BY <1>0, <2>1
      <4> HIDE DEF T, U
      <4> QED BY <3>3, <4>1
    <3> HIDE DEF T, U
    <3> QED BY <2>1, <3>1, <3>2, <3>3
  <2> QED BY <2>1
<1> HIDE DEF T, U
<1>4. (\A m \in 0 .. n : m \in T) /\ (\A m \in 0 .. n : m \in U)
  BY <1>1, <1>2, <1>3, Reading!BoundedInduction
<1>5. n \in T /\ n \in U
  <2>1. n \in 0 .. n
    OBVIOUS
  <2> QED BY <1>4, <2>1
<1>6. (\A k \in 1 .. n : g[k] >= k) /\ (\A k \in 1 .. n : k \in n - n + 1 .. n => g[k] <= k)
  BY <1>5 DEF T, U
<1> QED BY <1>0, <1>6

\* The entries are the labels shown, once none is left.
LEMMA EntriesShown ==
  ASSUME conf \in Texts, NEW s, MenuOf(s), p = NULL
  PROVE  Entries = s
<1> DEFINE n == Len(s)
           F(t) == \A j, k \in DOMAIN t : j < k => t[j] < t[k]
<1>1. /\ s \in Seq(Labels) /\ \A j, k \in 1 .. n : j < k => s[j] < s[k]
      /\ p = EntryOf(Rest(s)) /\ Rest(s) \in SUBSET Labels
      /\ \A i \in Labels : i \in Rest(s) \/ \E k \in 1 .. n : s[k] = i
      /\ Labels \in SUBSET Nat
  BY LabelLines DEF MenuOf, Rest
<1>2. \A i \in Labels : \E k \in 1 .. n : s[k] = i
  <2>1. Rest(s) = {}
    BY <1>1, EntryOfLabels
  <2> QED BY <1>1, <2>1
<1>3. n \in Nat /\ s \in [1 .. n -> Labels] /\ DOMAIN s = 1 .. n
  <2> HIDE DEF Labels
  <2> QED BY <1>1
<1> HIDE DEF n
<1>4. \A j, k \in 1 .. n : s[j] = s[k] => j = k
  <2> SUFFICES ASSUME NEW j \in 1 .. n, NEW k \in 1 .. n, s[j] = s[k] PROVE j = k
    OBVIOUS
  <2>1. s[j] \in Nat /\ s[k] \in Nat
    BY <1>1, <1>3
  <2>2. ~(s[j] < s[k]) /\ ~(s[k] < s[j])
    BY <2>1
  <2>3. ~(j < k) /\ ~(k < j)
    BY <1>1, <2>2 DEF n
  <2> QED BY <1>3, <2>3
<1>5. Cardinality(Labels) = n
  <2>1. s \in Bijection(1 .. n, Labels)
    BY <1>2, <1>3, <1>4 DEF Bijection, Injection, Surjection, IsInjective
  <2>2. ExistsBijection(1 .. n, Labels)
    BY <2>1 DEF ExistsBijection
  <2> QED BY <1>3, <2>2, FS_CountingElements
<1>6. F(s) /\ s \in [1 .. Cardinality(Labels) -> Labels]
  BY <1>1, <1>3, <1>5 DEF n
<1>7. ASSUME NEW t \in [1 .. n -> Labels], F(t) PROVE t = s
  <2> DEFINE g == [k \in 1 .. n |-> CHOOSE x \in 1 .. n : s[x] = t[k]]
  <2>1. \A k \in 1 .. n : g[k] \in 1 .. n /\ s[g[k]] = t[k]
    BY <1>2 DEF n
  <2>2. g \in [1 .. n -> 1 .. n]
    BY <2>1
  <2> HIDE DEF g
  <2>3. ASSUME NEW j \in 1 .. n, NEW k \in 1 .. n, j < k PROVE g[j] < g[k]
    <3>1. t[j] < t[k]
      BY <1>7, <2>3
    <3>2. g[j] \in 1 .. n /\ g[k] \in 1 .. n /\ s[g[j]] = t[j] /\ s[g[k]] = t[k]
      BY <2>1
    <3>3. t[j] \in Nat /\ t[k] \in Nat
      BY <1>1, <1>7
    <3>4. g[j] # g[k]
      BY <3>1, <3>2, <3>3
    <3>5. ~(g[k] < g[j])
      <4>1. g[k] < g[j] => t[k] < t[j]
        BY <1>1, <3>2 DEF n
      <4> QED BY <3>1, <3>3, <4>1
    <3> QED BY <1>3, <3>2, <3>4, <3>5
  <2>4. \A k \in 1 .. n : g[k] = k
    BY <1>3, <2>2, <2>3, IncreasingIsIdentity
  <2>5. \A k \in 1 .. n : t[k] = s[k]
    BY <2>1, <2>4
  <2> QED BY <1>3, <2>5
<1>8. Entries = CHOOSE t \in [1 .. n -> Labels] : F(t)
  BY <1>5 DEF Entries
<1>9. s \in [1 .. n -> Labels]
  BY <1>3
<1> HIDE DEF F
<1> QED BY <1>6, <1>7, <1>8, <1>9

\* The menu lists every entry of the configuration, in its order, under its title
\* or its label (loli.c:227-250, extlinux.c:130-226).
THEOREM MenuListsAll == Spec => []MenuIsComplete
<1>1. SeekInv /\ MenuInv => MenuIsComplete
  <2> SUFFICES ASSUME SeekInv, MenuInv, pc = "prompt"
               PROVE  /\ Len(shown) = Len(Entries)
                      /\ \A k \in DOMAIN shown :
                           LET i == Entries[k]
                               title == Meant(Block(i), TitleKey)
                           IN  /\ shown[k].at = skip_space(conf, i)
                               /\ shown[k].title = IF title = <<>> THEN Label(i) ELSE title
    BY DEF MenuIsComplete
  <2>1. conf \in Texts /\ p = NULL
    BY DEF MenuInv
  <2>2. PICK s : MenuOf(s)
    BY DEF MenuInv
  <2>3. Entries = s
    BY <2>1, <2>2, EntriesShown
  <2>4. s \in Seq(Labels) /\ Len(s) = Len(shown)
    BY <2>2 DEF MenuOf
  <2>5. ASSUME NEW k \in 1 .. Len(s)
        PROVE  /\ shown[k].at = skip_space(conf, s[k])
               /\ shown[k].title = IF Meant(Block(s[k]), TitleKey) = <<>> THEN Label(s[k])
                                   ELSE Meant(Block(s[k]), TitleKey)
    <3> DEFINE i == s[k]
               e == skip_space(conf, i)
    <3>1. i \in Labels
      <4> HIDE DEF Labels
      <4> QED BY <2>4
    <3>2. /\ shown[k].at = e
          /\ shown[k].title = IF value_of(conf, e, TitleKey) = NULL
                                THEN extlinux_get_value(conf, e, LabelKey)
                                ELSE extlinux_get_value(conf, e, TitleKey)
      BY <2>2 DEF MenuOf, Title
    <3> HIDE DEF i
    <3>3. TitleKey[1] # LabelKey[1]
      BY DEF TitleKey, LabelKey
    <3>4. /\ extlinux_get_value(conf, e, TitleKey) = Meant(Block(i), TitleKey)
          /\ Meant(Block(i), TitleKey) = <<>> <=> value_of(conf, e, TitleKey) = NULL
      BY <2>1, <3>1, <3>3, TheKeys, EntryReads
    <3>5. extlinux_get_value(conf, e, LabelKey) = Label(i)
      BY <2>1, <3>1, TheKeys, EntryReads, LabelRead
    <3> QED BY <3>2, <3>4, <3>5 DEF i
  <2>6. DOMAIN shown = 1 .. Len(s)
    <3>1. PICK S : shown \in Seq(S)
      BY DEF SeekInv, MenuIsSeq
    <3> QED BY <2>4, <3>1
  <2> QED BY <2>3, <2>4, <2>5, <2>6
<1> QED BY <1>1, MenuInvariance, PTL

\* What is read of the entry found is what its own lines say (extlinux.c:158-226).
THEOREM EntriesReadTheirOwn == Spec => []EntryReadsItsOwn
<1>1. SeekInv /\ MenuInv /\ NumberMeansWhatIsShown => EntryReadsItsOwn
  <2> SUFFICES ASSUME SeekInv, MenuInv, NumberMeansWhatIsShown, pc = "found"
               PROVE  LET lines == Block(Entries[selected + 1])
                      IN  /\ extlinux_get_value(conf, entry, KernelKey) = Meant(lines, KernelKey)
                          /\ extlinux_get_value(conf, entry, LabelKey) = Meant(lines, LabelKey)
    BY DEF EntryReadsItsOwn
  <2>1. conf \in Texts /\ p = NULL
    BY DEF MenuInv
  <2>2. PICK s : MenuOf(s)
    BY DEF MenuInv
  <2>3. Entries = s
    BY <2>1, <2>2, EntriesShown
  <2>4. s \in Seq(Labels) /\ Len(s) = Len(shown)
    BY <2>2 DEF MenuOf
  <2>5. selected + 1 \in 1 .. Len(s)
    <3>1. Len(shown) \in Nat
      BY DEF SeekInv, MenuIsSeq
    <3>2. selected \in 0 .. Len(shown) - 1
      BY DEF SeekInv, SeekOnTheWay
    <3> QED BY <2>4, <3>1, <3>2
  <2> DEFINE i == s[selected + 1]
  <2>6. i \in Labels
    <3> HIDE DEF Labels
    <3> QED BY <2>4, <2>5
  <2>7. entry = skip_space(conf, i)
    BY <2>2, <2>5 DEF NumberMeansWhatIsShown, MenuOf
  <2> HIDE DEF i
  <2>8. KernelKey[1] # LabelKey[1]
    BY DEF KernelKey, LabelKey
  <2>9. /\ extlinux_get_value(conf, entry, KernelKey) = Meant(Block(i), KernelKey)
        /\ extlinux_get_value(conf, entry, LabelKey) = Meant(Block(i), LabelKey)
    BY <2>1, <2>6, <2>7, <2>8, TheKeys, EntryReads
  <2> QED BY <2>3, <2>9 DEF i
<1> QED BY <1>1, MenuInvariance, NumberLeadsToShown, PTL

-----------------------------------------------------------------------------
(***************************************************************************)
(* The default.                                                            *)
(***************************************************************************)
\* Every variable of the menu stays in its range (loli.c:215-258, menu.c:49-58).
THEOREM TypeCorrect == Spec => []TypeOK
<1> DEFINE Ranges == /\ pc \in {"scan", "prompt", "seek", "found"}
                     /\ pc \in {"scan", "prompt"} => selected = 0 /\ index = 0 /\ entry = NULL
<1>1. Init => Ranges
  BY DEF Init
<1>2. Ranges /\ [Next]_vars => Ranges'
  BY DEF Next, vars, ShowEntry, EndOfMenu, Select, Skip, Found
<1>3. Spec => []Ranges
  BY <1>1, <1>2, PTL DEF Spec
<1>4. SeekInv /\ MenuInv /\ Ranges => TypeOK
  <2> SUFFICES ASSUME SeekInv, MenuInv, Ranges PROVE TypeOK
    OBVIOUS
  <2>1. conf \in Texts /\ Pointer(conf) = {NULL} \cup Places /\ NULL \notin Places
        /\ Lines \subseteq Places
    BY LinesArePlaces DEF MenuInv
  <2>2. PICK s : MenuOf(s)
    BY DEF MenuInv
  <2>3. /\ s \in Seq(Labels) /\ Len(s) = Len(shown) /\ p = EntryOf(Rest(s))
        /\ \A k \in 1 .. Len(s) : shown[k].at = skip_space(conf, s[k])
    BY <2>2 DEF MenuOf
  <2>4. \A k \in 1 .. Len(shown) : shown[k].at \in Places
    <3> SUFFICES ASSUME NEW k \in 1 .. Len(s) PROVE shown[k].at \in Places
      BY <2>3
    <3>1. s[k] \in Labels
      <4> HIDE DEF Labels
      <4> QED BY <2>3
    <3>2. s[k] \in Places
      BY <2>1, <3>1 DEF Labels
    <3> QED BY <2>1, <2>3, <3>2, SkipSpace
  <2>5. p \in Pointer(conf)
    <3>1. Rest(s) \in SUBSET Labels
      BY DEF Rest
    <3>2. p = NULL \/ p \in Places
      BY <2>1, <2>3, <3>1, EntryOfLabels
    <3> QED BY <2>1, <3>2
  <2>6. DOMAIN shown = 1 .. Len(shown) /\ Len(shown) \in Nat
    BY DEF SeekInv, MenuIsSeq
  <2>7. defaultEntry \in -1 .. Len(shown) /\ (pc # "scan" => defaultEntry >= 0)
    <3>1. CASE defaultEntry \in Int /\ PicksDefault
      BY <2>6, <3>1 DEF PicksDefault
    <3>2. CASE defaultEntry = IF pc = "scan" /\ value_of(conf, 1, DefaultKey) # NULL THEN -1 ELSE 0
      BY <2>6, <3>2
    <3> QED BY <3>1, <3>2 DEF MenuInv, DefaultInv
  <2>8. /\ selected \in 0 .. Len(shown) /\ index \in 0 .. Len(shown) /\ entry \in Pointer(conf)
    <3>1. CASE pc \in {"scan", "prompt"}
      BY <2>1, <2>6, <3>1
    <3>2. CASE pc \in {"seek", "found"}
      <4>1. /\ selected \in 0 .. Len(shown) - 1 /\ index \in 0 .. selected
            /\ entry = shown[selected - index + 1].at
        BY <3>2 DEF SeekInv, SeekOnTheWay
      <4>2. selected - index + 1 \in 1 .. Len(shown)
        BY <2>6, <4>1
      <4> QED BY <2>1, <2>4, <2>6, <4>1, <4>2
    <3> QED BY <3>1, <3>2
  <2> QED BY <2>1, <2>4, <2>5, <2>6, <2>7, <2>8 DEF TypeOK
<1> QED BY <1>3, <1>4, MenuInvariance, PTL

\* The words of a key and its value are in one line.
LEMMA SameLine ==
  ASSUME conf \in Texts, NEW i \in Places, NEW key \in Keys, NEW v \in i .. Len(conf),
         Gives(i, key, v)
  PROVE  line_end(conf, v) = line_end(conf, i)
<1>1. /\ Len(conf) \in Nat /\ i \in 1 .. Len(conf) + 1 /\ Len(key) \in Nat
      /\ v \in 1 .. Len(conf) /\ v \in Places
      /\ \A x : At(conf, x) = NUL <=> x \notin 1 .. Len(conf)
  BY TextIs, TheKeys DEF Places
<1>2. \A q \in i .. v - 1 : At(conf, q) \notin {EOL, NUL}
  <2> SUFFICES ASSUME NEW q \in i .. v - 1, At(conf, q) \in {EOL, NUL} PROVE FALSE
    OBVIOUS
  <2>1. q \in 1 .. Len(conf) /\ q \in i .. Len(conf) /\ q \in i - 1 .. Len(conf)
        /\ v - 1 \in q .. Len(conf)
    BY <1>1
  <2>2. At(conf, q) = EOL /\ At(conf, q) # Blank
    BY <1>1, <2>1 DEF EOL, Blank
  <2>3. /\ Len(Blanked(i, q - 1)) \in Nat
        /\ Len(Blanked(i, q)) = Len(Blanked(i, q - 1)) + 1
        /\ Blanked(i, q)[Len(Blanked(i, q))] = EOL
    BY <2>1, <2>2, BlankedWord
  <2>4. /\ Len(Blanked(i, q)) <= Len(Blanked(i, v - 1))
        /\ \A k \in 1 .. Len(Blanked(i, q)) : Blanked(i, v - 1)[k] = Blanked(i, q)[k]
    BY <2>1, BlankedGrows
  <2>5. Blanked(i, v - 1) = key
    BY DEF Gives
  <2> DEFINE n == Len(Blanked(i, q))
  <2>6. n \in 1 .. n /\ n \in 1 .. Len(key) /\ key[n] = EOL
    BY <1>1, <2>3, <2>4, <2>5
  <2> HIDE DEF n
  <2> QED BY <2>6, TheKeys
<1> DEFINE x == line_end(conf, i)
           y == line_end(conf, v)
<1>3. /\ x \in i .. Len(conf) + 1 /\ At(conf, x) \in {EOL, NUL}
      /\ \A q \in i .. x - 1 : At(conf, q) \notin {EOL, NUL}
  BY LineEnd
<1>4. /\ y \in v .. Len(conf) + 1 /\ At(conf, y) \in {EOL, NUL}
      /\ \A q \in v .. y - 1 : At(conf, q) \notin {EOL, NUL}
  BY <1>1, LineEnd
<1> HIDE DEF x, y
<1>5. ~(x \in i .. v - 1) /\ ~(y \in i .. x - 1) /\ ~(x \in v .. y - 1)
  BY <1>2, <1>3, <1>4
<1>6. x = y
  BY <1>1, <1>3, <1>4, <1>5
<1> QED BY <1>6 DEF x, y

\* A value that ends with its line.
Closed(v) ==
  /\ v \in Places /\ value_len(conf, v) \in Nat \ {0}
  /\ v + value_len(conf, v) \in Places
  /\ At(conf, v + value_len(conf, v)) = EOL
  /\ \A k \in 0 .. value_len(conf, v) - 1 : At(conf, v + k) \notin {EOL, NUL}
  /\ Text(v) = SubSeq(conf, v, v + value_len(conf, v) - 1)

\* In a clean text default and the labels have such values.
LEMMA CleanIsClosed ==
  ASSUME conf \in Texts, Clean, NEW i \in Lines, NEW key \in {DefaultKey, LabelKey},
         NEW v \in i .. Len(conf), Gives(i, key, v)
  PROVE  Closed(v) /\ At(conf, v) \in Word
<1>1. /\ Len(conf) \in Nat /\ i \in Places /\ key \in Keys /\ v \in Places /\ v \in 1 .. Len(conf)
      /\ At(conf, v) \in Word /\ Pair(i, key)
  <2>1. i \in Places /\ i \in 1 .. Len(conf) /\ Len(conf) \in Nat
    BY TextIs, LinesArePlaces
  <2>2. v \in 1 .. Len(conf) /\ v \in Places
    BY <2>1 DEF Places
  <2> QED BY <2>1, <2>2, TheKeys DEF Gives, Pair
<1> DEFINE e == line_end(conf, v)
           L == value_len(conf, v)
<1>2. At(conf, e) = EOL /\ At(conf, e - 1) # Blank
  <2>1. e = line_end(conf, i)
    BY <1>1, SameLine
  <2> HIDE DEF e
  <2> QED BY <1>1, <2>1 DEF Clean
<1>3. /\ L \in Nat \ {0} /\ v + L <= e /\ Text(v) = SubSeq(conf, v, v + L - 1)
      /\ \A q \in v + L .. e - 1 : At(conf, q) = Blank
  BY <1>1, TextRead
<1>4. /\ e \in v .. Len(conf) + 1 /\ \A q \in v .. e - 1 : At(conf, q) \notin {EOL, NUL}
  BY <1>1, LineEnd
<1> HIDE DEF e, L
<1>5. v + L = e
  <2>1. ~(e - 1 \in v + L .. e - 1)
    BY <1>2, <1>3
  <2> QED BY <1>1, <1>3, <1>4, <2>1
<1>6. v + L \in Places
  BY <1>1, <1>3, <1>4, <1>5 DEF Places
<1>7. \A k \in 0 .. L - 1 : v + k \in v .. e - 1
  BY <1>1, <1>3, <1>5
<1> QED BY <1>1, <1>2, <1>3, <1>4, <1>5, <1>6, <1>7 DEF Closed, L

\* strncmp() over the length of the one finds two such values equal if they are.
LEMMA SameName ==
  ASSUME conf \in Texts, NEW v, NEW w, Closed(v), Closed(w)
  PROVE  strncmp_is_zero(v, w, value_len(conf, v)) <=> Text(w) = Text(v)
<1> DEFINE L == value_len(conf, v)
           M == value_len(conf, w)
           S == {k \in 0 .. L : \/ k = L
                                \/ At(conf, v + k) # At(conf, w + k)
                                \/ At(conf, v + k) = NUL}
           stop == Min(S)
           Same == \A k \in 0 .. L : At(conf, v + k) = At(conf, w + k)
<1>1. /\ v \in Nat /\ w \in Nat /\ L \in Nat \ {0} /\ M \in Nat \ {0}
      /\ At(conf, v + L) = EOL /\ At(conf, w + M) = EOL
      /\ \A k \in 0 .. L - 1 : At(conf, v + k) \notin {EOL, NUL}
      /\ \A k \in 0 .. M - 1 : At(conf, w + k) \notin {EOL, NUL}
      /\ Text(v) = SubSeq(conf, v, v + L - 1) /\ Text(w) = SubSeq(conf, w, w + M - 1)
      /\ v + L \in 1 .. Len(conf) + 1 /\ w + M \in 1 .. Len(conf) + 1
      /\ v \in 1 .. Len(conf) + 1 /\ w \in 1 .. Len(conf) + 1 /\ Len(conf) \in Nat
  BY TextIs DEF Closed, Places
<1>2. strncmp_is_zero(v, w, L) <=> At(conf, v + stop) = At(conf, w + stop)
  BY DEF strncmp_is_zero
<1> HIDE DEF L, M
<1>3. stop \in S /\ \A k \in S : stop <= k
  <2>1. S \in SUBSET Nat /\ L \in S
    BY <1>1
  <2> HIDE DEF S
  <2> QED BY <2>1, LeastOf
<1>4. strncmp_is_zero(v, w, L) <=> Same
  <2>1. ASSUME At(conf, v + stop) = At(conf, w + stop) PROVE Same
    <3>1. stop = L
      <4>1. stop \in 0 .. L /\ (stop = L \/ At(conf, v + stop) = NUL)
        BY <1>3, <2>1
      <4> HIDE DEF stop
      <4>2. stop \in 0 .. L - 1 => At(conf, v + stop) # NUL
        BY <1>1
      <4> QED BY <1>1, <4>1, <4>2
    <3>2. ASSUME NEW k \in 0 .. L PROVE At(conf, v + k) = At(conf, w + k)
      <4>1. CASE k = L
        BY <2>1, <3>1, <4>1
      <4>2. CASE k # L
        <5>1. k \notin S
          <6>1. k \in S => L <= k
            BY <1>3, <3>1
          <6> HIDE DEF S
          <6> QED BY <1>1, <4>2, <6>1
        <5> QED BY <5>1
      <4> QED BY <4>1, <4>2
    <3> QED BY <3>2
  <2>2. ASSUME Same PROVE At(conf, v + stop) = At(conf, w + stop)
    <3>1. stop \in 0 .. L
      BY <1>3
    <3> HIDE DEF stop
    <3> QED BY <2>2, <3>1
  <2> QED BY <1>2, <2>1, <2>2
<1> HIDE DEF S, stop
<1>5. /\ Len(Text(v)) = L /\ \A k \in 1 .. L : Text(v)[k] = At(conf, v + k - 1)
      /\ Len(Text(w)) = M /\ \A k \in 1 .. M : Text(w)[k] = At(conf, w + k - 1)
      /\ Text(v) \in Seq(Symbols) /\ Text(w) \in Seq(Symbols)
  <2>1. \A q \in 1 .. Len(conf) : At(conf, q) = conf[q] /\ conf[q] \in Symbols
    BY TextIs
  <2>2. ASSUME NEW a \in Nat, NEW n \in Nat \ {0}, a >= 1, a + n - 1 <= Len(conf)
        PROVE  /\ Len(SubSeq(conf, a, a + n - 1)) = n
               /\ SubSeq(conf, a, a + n - 1) \in Seq(Symbols)
               /\ \A k \in 1 .. n : SubSeq(conf, a, a + n - 1)[k] = At(conf, a + k - 1)
    <3> DEFINE b == a + n - 1
    <3>1. b \in Int /\ a \in Int /\ a <= b /\ b - a + 1 = n
          /\ \A q \in a .. b : q \in 1 .. Len(conf)
      BY <1>1, <2>2
    <3> HIDE DEF b, Symbols
    <3>2. \A q \in a .. b : conf[q] \in Symbols
      BY <2>1, <3>1
    <3>3. /\ SubSeq(conf, a, b) \in Seq(Symbols) /\ Len(SubSeq(conf, a, b)) = b - a + 1
          /\ \A k \in 1 .. b - a + 1 : SubSeq(conf, a, b)[k] = conf[a + k - 1]
      BY <3>1, <3>2, SubSeqProperties
    <3>4. ASSUME NEW k \in 1 .. n PROVE conf[a + k - 1] = At(conf, a + k - 1)
      <4>1. a + k - 1 \in a .. b
        BY <3>1
      <4> QED BY <2>1, <3>1, <4>1
    <3> QED BY <3>1, <3>3, <3>4 DEF b
  <2>3. v >= 1 /\ w >= 1 /\ v + L - 1 <= Len(conf) /\ w + M - 1 <= Len(conf)
    BY <1>1
  <2> HIDE DEF Symbols
  <2>4. /\ Len(SubSeq(conf, v, v + L - 1)) = L /\ SubSeq(conf, v, v + L - 1) \in Seq(Symbols)
        /\ \A k \in 1 .. L : SubSeq(conf, v, v + L - 1)[k] = At(conf, v + k - 1)
    BY <1>1, <2>2, <2>3
  <2>5. /\ Len(SubSeq(conf, w, w + M - 1)) = M /\ SubSeq(conf, w, w + M - 1) \in Seq(Symbols)
        /\ \A k \in 1 .. M : SubSeq(conf, w, w + M - 1)[k] = At(conf, w + k - 1)
    BY <1>1, <2>2, <2>3
  <2>6. Text(v) = SubSeq(conf, v, v + L - 1) /\ Text(w) = SubSeq(conf, w, w + M - 1)
    BY <1>1
  <2> QED BY <2>4, <2>5, <2>6
<1>6. ASSUME Same PROVE Text(w) = Text(v)
  <2>1. L = M
    <3>1. ~(L \in 0 .. M - 1)
      <4>1. At(conf, w + L) = EOL
        BY <1>1, <1>6
      <4> QED BY <1>1, <4>1
    <3>2. ~(M \in 0 .. L - 1)
      <4>1. M \in 0 .. L - 1 => At(conf, v + M) = EOL
        BY <1>1, <1>6
      <4> QED BY <1>1, <4>1
    <3> QED BY <1>1, <3>1, <3>2
  <2>2. ASSUME NEW k \in 1 .. L PROVE Text(w)[k] = Text(v)[k]
    <3>1. k - 1 \in 0 .. L /\ v + (k - 1) = v + k - 1 /\ w + (k - 1) = w + k - 1
      BY <1>1
    <3>2. At(conf, v + (k - 1)) = At(conf, w + (k - 1))
      BY <1>6, <3>1
    <3> QED BY <1>5, <2>1, <3>1, <3>2
  <2> HIDE DEF Same, Symbols
  <2> QED BY <1>5, <2>1, <2>2, SeqEqual
<1>7. ASSUME Text(w) = Text(v) PROVE Same
  <2>1. L = M
    BY <1>5, <1>7
  <2>2. ASSUME NEW k \in 0 .. L PROVE At(conf, v + k) = At(conf, w + k)
    <3>1. CASE k = L
      BY <1>1, <2>1, <3>1
    <3>2. CASE k # L
      <4>1. k + 1 \in 1 .. L /\ v + (k + 1) - 1 = v + k /\ w + (k + 1) - 1 = w + k
        BY <1>1, <3>2
      <4>2. Text(v)[k + 1] = At(conf, v + k) /\ Text(w)[k + 1] = At(conf, w + k)
        BY <1>5, <2>1, <4>1
      <4> QED BY <1>7, <4>2
    <3> QED BY <3>1, <3>2
  <2> QED BY <2>2
<1> QED BY <1>4, <1>6, <1>7 DEF L

\* The default, if there is one, is what some line gives.
LEMMA DefaultGiven ==
  ASSUME conf \in Texts, value_of(conf, 1, DefaultKey) # NULL
  PROVE  LET v == value_of(conf, 1, DefaultKey)
         IN  \E i \in Lines : v \in i .. Len(conf) /\ Gives(i, DefaultKey, v)
<1> DEFINE v == value_of(conf, 1, DefaultKey)
           Start == IF DefaultKey # LabelKey /\ match_key(conf, 1, LabelKey) # NULL
                      THEN next_line(conf, 1) ELSE 1
<1>1. PICK f : Walks(f, ValueStops(DefaultKey), ValueResults(DefaultKey)) /\ v = f[Start]
  BY ValueWalk
<1>2. /\ 1 \in Places /\ NULL \notin Places /\ Lines \subseteq Places
      /\ Len(conf) \in Nat /\ DOMAIN conf = 1 .. Len(conf) /\ DefaultKey \in Keys
  BY TextIs, LinesArePlaces, TheKeys
<1>3. next_line(conf, 1) \in Lines \cup {NULL}
  BY <1>2, NextLine
<1>4. Start \in Lines \cup {1, NULL}
  BY <1>3
<1> HIDE DEF v, Start
<1>5. v # NULL
  BY DEF v
<1>6. Start # NULL
  BY <1>1, <1>5 DEF Walks
<1>7. Start \in Places /\ v = Stops(Start, ValueStops(DefaultKey), ValueResults(DefaultKey))
  BY <1>1, <1>2, <1>4, <1>6, WalkStops
<1> DEFINE S == WalkFrom(Start) \cap ValueStops(DefaultKey)
           j == Min(S)
<1>8. j \in S /\ v = ValueResults(DefaultKey)[j]
  <2>1. S # {} /\ v = ValueResults(DefaultKey)[Min(S)]
    BY <1>5, <1>7 DEF Stops
  <2>2. S \in SUBSET Nat
    BY <1>7, LinesArePlaces
  <2> HIDE DEF S
  <2> QED BY <2>1, <2>2, LeastOf
<1> HIDE DEF j
<1>9. j \in Places /\ (j \in Lines \/ j = 1)
  BY <1>2, <1>4, <1>6, <1>8 DEF WalkFrom
<1>10. v = match_key(conf, skip_space(conf, j), DefaultKey)
  BY <1>5, <1>8, <1>9 DEF ValueResults
<1>11. v \in j .. Len(conf) /\ Gives(j, DefaultKey, v)
  BY <1>2, <1>5, <1>9, <1>10, MatchGives
<1>12. j \in Lines
  <2>1. j = 1 => 1 \in DOMAIN conf
    BY <1>2, <1>11
  <2> QED BY <1>9, <2>1 DEF Lines
<1> QED BY <1>11, <1>12 DEF v

\* The label of an entry is closed too, and is its text.
LEMMA LabelGiven ==
  ASSUME conf \in Texts, NEW i \in Labels
  PROVE  LET w == value_of(conf, skip_space(conf, i), LabelKey)
         IN  /\ w \in i .. Len(conf) /\ Gives(i, LabelKey, w)
             /\ Label(i) = Text(w)
<1> DEFINE e == skip_space(conf, i)
           w == value_of(conf, e, LabelKey)
<1>1. i \in Lines /\ i \in Places /\ LabelKey \in Keys /\ Pair(i, LabelKey)
  BY LinesArePlaces, TheKeys DEF Labels
<1>2. w = match_key(conf, e, LabelKey)
  BY LabelOfEntry
<1>3. w # NULL /\ w \in i .. Len(conf) /\ Gives(i, LabelKey, w)
  BY <1>1, <1>2, PairMatch, MatchGives
<1> HIDE DEF w
<1>4. Label(i) = extlinux_get_value(conf, e, LabelKey)
  BY <1>1, LabelRead, EntryReads
<1>5. extlinux_get_value(conf, e, LabelKey) = SubSeq(conf, w, w + value_len(conf, w) - 1)
  BY <1>3 DEF extlinux_get_value, w
<1>6. SubSeq(conf, w, w + value_len(conf, w) - 1) = Text(w)
  BY <1>3, TextRead DEF Gives
<1> QED BY <1>3, <1>4, <1>5, <1>6 DEF w

\* So an entry is the default if its label is what default gives.
LEMMA IsDefaultLabel ==
  ASSUME conf \in Texts, Clean, NEW i \in Labels
  PROVE  LET default == extlinux_get_value(conf, 1, DefaultKey)
         IN  /\ default = <<>> <=> value_of(conf, 1, DefaultKey) = NULL
             /\ IsDefault(skip_space(conf, i)) <=> default # <<>> /\ Label(i) = default
<1> DEFINE v == value_of(conf, 1, DefaultKey)
           w == value_of(conf, skip_space(conf, i), LabelKey)
           default == extlinux_get_value(conf, 1, DefaultKey)
<1>1. default = IF v = NULL THEN <<>> ELSE SubSeq(conf, v, v + value_len(conf, v) - 1)
  BY DEF extlinux_get_value
<1>2. IsDefault(skip_space(conf, i)) <=>
        v # NULL /\ strncmp_is_zero(v, w, value_len(conf, v))
  BY DEF IsDefault
<1>3. w \in i .. Len(conf) /\ Gives(i, LabelKey, w) /\ Label(i) = Text(w) /\ i \in Lines
  BY LabelGiven DEF Labels
<1>4. v # NULL => \E j \in Lines : v \in j .. Len(conf) /\ Gives(j, DefaultKey, v)
  BY DefaultGiven
<1> HIDE DEF v, w, default
<1>5. CASE v = NULL
  BY <1>1, <1>2, <1>5 DEF v, default
<1>6. CASE v # NULL
  <2>1. PICK j \in Lines : v \in j .. Len(conf) /\ Gives(j, DefaultKey, v)
    BY <1>4, <1>6
  <2>2. Closed(v) /\ At(conf, v) \in Word
    BY <2>1, CleanIsClosed
  <2>3. Closed(w)
    BY <1>3, CleanIsClosed
  <2>4. default = Text(v) /\ Text(v) # <<>>
    BY <1>1, <1>6, <2>2, TextRead
  <2>5. strncmp_is_zero(v, w, value_len(conf, v)) <=> Text(w) = Text(v)
    BY <2>2, <2>3, SameName
  <2> QED BY <1>2, <1>3, <1>6, <2>4, <2>5 DEF v, default
<1> QED BY <1>5, <1>6

\* A default that names an entry is settled on, any other leaves entry 0, if no
\* blanks trail what is compared (loli.c:215-258).
THEOREM DefaultIsResolved == Spec => []DefaultResolved
<1>1. SeekInv /\ MenuInv => DefaultResolved
  <2> SUFFICES ASSUME SeekInv, MenuInv, pc = "prompt", Clean PROVE Resolved
    BY DEF DefaultResolved
  <2> DEFINE default == extlinux_get_value(conf, 1, DefaultKey)
             named == {k \in DOMAIN Entries : Label(Entries[k]) = default}
  <2>1. conf \in Texts /\ p = NULL
    BY DEF MenuInv
  <2>2. PICK s : MenuOf(s)
    BY DEF MenuInv
  <2>3. Entries = s
    BY <2>1, <2>2, EntriesShown
  <2>4. s \in Seq(Labels) /\ Len(s) = Len(shown)
    BY <2>2 DEF MenuOf
  <2>5. DOMAIN Entries = 1 .. Len(shown) /\ \A k \in 1 .. Len(shown) : s[k] \in Labels
    <3> HIDE DEF Labels
    <3> QED BY <2>3, <2>4
  <2>6. \A k \in 1 .. Len(shown) : IsDefault(shown[k].at) <=> default # <<>> /\ k \in named
    <3> SUFFICES ASSUME NEW k \in 1 .. Len(shown)
                 PROVE  IsDefault(shown[k].at) <=> default # <<>> /\ k \in named
      OBVIOUS
    <3>1. shown[k].at = skip_space(conf, s[k])
      BY <2>2, <2>4 DEF MenuOf
    <3>2. s[k] \in Labels
      BY <2>5
    <3>3. IsDefault(skip_space(conf, s[k])) <=> default # <<>> /\ Label(s[k]) = default
      BY <2>1, <3>2, IsDefaultLabel
    <3> QED BY <2>3, <2>5, <3>1, <3>3
  <2>7. named \subseteq 1 .. Len(shown)
    BY <2>5
  <2>8. Resolved <=> IF default = <<>> \/ named = {} THEN defaultEntry = 0
                     ELSE defaultEntry + 1 \in named
    BY DEF Resolved
  <2> HIDE DEF default, named
  <2>9. CASE defaultEntry \in Int /\ PicksDefault
    <3>1. default # <<>> /\ defaultEntry + 1 \in named
      BY <2>6, <2>9 DEF PicksDefault
    <3> QED BY <2>8, <3>1
  <2>10. CASE NoneIsDefault /\ defaultEntry = 0
    <3>1. default = <<>> \/ named = {}
      BY <2>6, <2>7, <2>10 DEF NoneIsDefault
    <3> QED BY <2>8, <2>10, <3>1
  <2> QED BY <2>9, <2>10 DEF MenuInv, DefaultInv
<1> QED BY <1>1, MenuInvariance, PTL
=============================================================================
