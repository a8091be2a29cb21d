---------------------------- MODULE Elf2EfiProofs ----------------------------
(***************************************************************************)
(* Proofs about Elf2Efi, for ELF files, sizes and alignments of any kind:  *)
(* an image that has been written is consistent with what was written to   *)
(* its file, and the image of a program that a linker made is loaded as    *)
(* the program that was meant.                                             *)
(***************************************************************************)
EXTENDS Elf2Efi, FiniteSetTheorems, TLAPS

-----------------------------------------------------------------------------
(***************************************************************************)
(* The inductive invariant.                                                *)
(***************************************************************************)
Byte ==
  {Zero, Garbage} \cup ({"file"} \X Nat) \cup ({"pointer"} \X Nat \X Nat) \cup
  ({"header", "reloc"} \X Nat)

Data == UNION {[0 .. n - 1 -> Byte] : n \in Nat}

Segs ==
  {s \in [vaddr : Nat, memsize : Nat, align : Nat, filesize : Nat, data : Data] :
     DOMAIN s.data = 0 .. s.memsize - 1}

Relocs == [vaddr : Nat, addend : Nat]
Blocks == [rva : Int, offsets : Seq(Nat)]

Moved == {"apply", "blocks", "headers", "sections", "done"}

\* Types, and the alignments that have been divided by.
TypeInv ==
  /\ pc \in Location
  /\ elf \in Files
  /\ i \in Nat \ {0}
  /\ segments \in Seq(Segs)
  /\ dynamic \in [filesize : Nat, memsize : Nat]
  /\ dynamic.memsize <= WordBytes * Len(elf.dyn)
  /\ relocs \in Seq(Relocs)
  /\ alignment \in Nat
  /\ shift \in Nat
  /\ blocks \in Seq(Blocks)
  /\ file \in Seq(Byte)
  /\ pc \in {"shift", "relocate"} \cup Moved =>
       alignment # 0 /\ \A k \in DOMAIN segments : segments[k].align # 0

Bounds ==
  /\ pc = "segments" => i <= Len(elf.phdrs) + 1
  /\ pc \in {"relocate", "sections"} => i <= Len(segments) + 1
  /\ pc \in {"apply", "blocks"} => i <= Len(relocs) + 1

\* The k-th segment is made from the f[k]-th program header.
Original(p) == Relocated(Segment(p))
MadeFrom(k, p) ==
  /\ p.filesz <= p.memsz
  /\ pc \in {"segments", "rela", "rel", "alignment", "shift"} => segments[k] = Segment(p)
  /\ pc = "relocate" => segments[k] = IF k < i THEN Original(p) ELSE Segment(p)
  /\ pc \in Moved => /\ segments[k].vaddr = Original(p).vaddr
                     /\ segments[k].memsize = Original(p).memsize
                     /\ segments[k].align = p.align

ShiftFrom(f) ==
  LET headers == HeaderSize(Len(segments) + 1)
  IN  shift = IF elf.phdrs[f[1]].vaddr <= headers THEN AlignUp(headers, alignment) ELSE 0

Seen == {k \in LoadAt : pc = "segments" => k < i}

Made(f) ==
  /\ f \in [DOMAIN segments -> Seen]
  /\ \A j, k \in DOMAIN segments : f[j] = f[k] => j = k
  /\ \A n \in Seen : \E k \in DOMAIN segments : f[k] = n
  /\ \A k \in DOMAIN segments : MadeFrom(k, elf.phdrs[f[k]])
  /\ pc # "segments" =>
       \A j, k \in DOMAIN segments : j < k => elf.phdrs[f[j]].vaddr <= elf.phdrs[f[k]].vaddr
  /\ pc \in {"relocate"} \cup Moved => ShiftFrom(f)

\* What the relocations have done to the data of the segments.
Covers(reloc, addr) == reloc.vaddr <= addr /\ addr < reloc.vaddr + WordBytes

DataFrom(k, p) ==
  LET s == segments[k]
      done == IF pc = "apply" THEN i - 1 ELSE Len(relocs)
  IN  /\ s.filesize = Original(p).filesize
      /\ \A at \in 0 .. s.memsize - 1 :
           /\ \A n \in 1 .. done :
                Covers(relocs[n], s.vaddr + at) =>
                  s.data[at] = PointerByte(relocs[n].addend, s.vaddr + at - relocs[n].vaddr)
           /\ (\A n \in 1 .. done : ~Covers(relocs[n], s.vaddr + at)) =>
                s.data[at] = Original(p).data[at]

\* The alignment computed is that of the segments.
Aligned == (\A p \in Loads : p.align = alignment) /\ BaseAddress % alignment = 0

DataInv(f) ==
  pc \in Moved /\ Linked /\ Aligned => \A k \in DOMAIN segments : DataFrom(k, elf.phdrs[f[k]])

Stopped == {"exit", "crash"}
SegmentsMade == pc \notin Stopped => \E f : Made(f)
SegmentsInv == pc \notin {"exit", "crash"} => \E f : Made(f) /\ DataInv(f)

\* The relocations are those of the tables.
Place(e, by) == [vaddr |-> e.offset + by, addend |-> e.addend + by]
Placed(entries, by) == {Place(e, by) : e \in entries}
FromTable(tag, entries, at) == IF Tag(tag) = at THEN Relative(entries) ELSE {}
FromRela == FromTable(DT_RELA, elf.rela, elf.relaAt)
Ordered(s) == \A j, k \in DOMAIN s : j < k => s[j].vaddr <= s[k].vaddr

RelocsInv ==
  /\ pc = "rel" /\ TagsLinked => ToSet(relocs) = Placed(FromRela, 0)
  /\ pc \in {"alignment", "shift", "relocate"} =>
       /\ Ordered(relocs)
       /\ TagsLinked => ToSet(relocs) = Placed(ToApply, 0)
  /\ pc \in Moved =>
       /\ Ordered(relocs)
       /\ TagsLinked => ToSet(relocs) = Placed(ToApply, BaseAddress + shift)

\* The blocks list the relocations.
BlocksInv ==
  /\ pc \notin {"blocks", "headers", "sections", "done", "exit", "crash"} => blocks = <<>>
  /\ pc \in {"blocks", "headers", "sections", "done"} =>
       LET listed == IF pc = "blocks" THEN i - 1 ELSE Len(relocs)
       IN  /\ Fixups = {relocs[k].vaddr - BaseAddress : k \in 1 .. listed}
           /\ blocks = <<>> <=> listed = 0
           /\ listed # 0 => blocks[Len(blocks)].rva =
                              AlignDown(relocs[listed].vaddr, PageBytes) - BaseAddress

\* The file holds the headers, and what was written for each section so far.
FileHas(bytes, at) == \A k \in DOMAIN bytes : file[at + k] = bytes[k]

RelocBytes == [k \in 1 .. RelocSize |-> RelocByte(k)]

SectionIn(k) ==
  /\ FileHas(Chunk(segments[k]), LayoutOffset(k))
  /\ FileHas(Padding(LayoutSize(k) - segments[k].filesize), LayoutOffset(k) + segments[k].filesize)

FileInv ==
  /\ pc \notin {"sections", "done"} \cup Stopped => file = <<>>
  /\ pc = "sections" => /\ image = Image
                        /\ Len(file) = LayoutOffset(i)
                        /\ \A k \in 1 .. i - 1 : SectionIn(k)
  /\ pc = "done" => /\ image = Image
                    /\ LET end == LayoutOffset(Len(segments) + 1)
                       IN  IF relocs = <<>>
                             THEN Len(file) = end
                             ELSE /\ Len(file) = end + RelocHeader.rawSize
                                  /\ FileHas(RelocBytes, end)
                    /\ \A k \in 1 .. Len(segments) : SectionIn(k)

-----------------------------------------------------------------------------
(***************************************************************************)
(* Arithmetic of alignments.                                               *)
(***************************************************************************)
Multiple(m, a) == \E q \in Int : m = q * a

LEMMA Scaled ==
  ASSUME NEW q \in Int, NEW r \in Int, NEW a \in Nat, q <= r
  PROVE  q * a <= r * a
<1>1. (r - q) * a >= 0
  OBVIOUS
<1> QED BY <1>1

LEMMA Division ==
  ASSUME NEW x \in Int, NEW a \in Nat \ {0}
  PROVE  /\ x \div a \in Int /\ x % a \in 0 .. a - 1
         /\ x = (x \div a) * a + (x % a)
<1> DEFINE q == x \div a
           r == x % a
<1>1. q \in Int /\ r \in 0 .. a - 1 /\ x = a * q + r
  OBVIOUS
<1> HIDE DEF q, r
<1>2. q * a = a * q
  BY <1>1
<1>3. x = q * a + r
  BY <1>1, <1>2
<1>4. x \div a = q /\ x % a = r
  BY DEF q, r
<1>5. x = (x \div a) * a + (x % a)
  BY <1>3, <1>4, Zenon
<1>6. x \div a \in Int /\ x % a \in 0 .. a - 1
  BY <1>1, <1>4, Zenon
<1> QED BY <1>5, <1>6

\* The next multiple is at least one alignment away.
LEMMA Apart ==
  ASSUME NEW q \in Int, NEW r \in Int, NEW a \in Nat \ {0}, q * a < r * a + a
  PROVE  q * a <= r * a
<1>1. CASE q <= r
  BY <1>1, Scaled
<1>2. CASE ~(q <= r)
  <2>1. (r + 1) * a <= q * a
    BY <1>2, Scaled
  <2>2. (r + 1) * a = r * a + a
    OBVIOUS
  <2>3. q * a \in Int /\ r * a \in Int
    OBVIOUS
  <2> DEFINE m == q * a
             n == r * a
  <2>4. m \in Int /\ n \in Int /\ n + a <= m /\ m < n + a
    BY <2>1, <2>2, <2>3
  <2> HIDE DEF m, n
  <2> QED BY <2>4
<1> QED BY <1>1, <1>2

\* AlignDown() is the last multiple that is not above.
LEMMA Down ==
  ASSUME NEW x \in Int, NEW a \in Nat \ {0}
  PROVE  /\ AlignDown(x, a) \in Int /\ Multiple(AlignDown(x, a), a)
         /\ AlignDown(x, a) <= x /\ x < AlignDown(x, a) + a
         /\ AlignDown(x, a) = x - (x % a)
<1> DEFINE q == x \div a
           r == x % a
<1>1. q \in Int /\ r \in 0 .. a - 1 /\ x = q * a + r
  BY Division
<1>2. AlignDown(x, a) = q * a /\ x % a = r
  BY DEF AlignDown
<1> HIDE DEF q, r
<1>3. q * a \in Int
  BY <1>1
<1> DEFINE m == q * a
<1>4. m \in Int /\ Multiple(m, a)
  BY <1>1, <1>3 DEF Multiple
<1>5. x = m + r
  BY <1>1
<1>6. AlignDown(x, a) = m
  BY <1>2
<1> HIDE DEF m
<1>7. m <= x /\ x < m + a /\ m = x - r
  BY <1>1, <1>4, <1>5
<1>8. AlignDown(x, a) = x - (x % a)
  BY <1>2, <1>6, <1>7, Zenon
<1>9. /\ AlignDown(x, a) \in Int /\ Multiple(AlignDown(x, a), a)
      /\ AlignDown(x, a) <= x /\ x < AlignDown(x, a) + a
  BY <1>4, <1>6, <1>7, Zenon
<1> QED BY <1>8, <1>9

LEMMA LastBelow ==
  ASSUME NEW x \in Int, NEW a \in Nat \ {0}, NEW m \in Int, Multiple(m, a), m <= x
  PROVE  m <= AlignDown(x, a)
<1>1. PICK q \in Int : m = q * a
  BY DEF Multiple
<1>2. PICK r \in Int : AlignDown(x, a) = r * a
  BY Down DEF Multiple
<1>3. m < AlignDown(x, a) + a
  BY Down
<1> QED BY <1>1, <1>2, <1>3, Apart

LEMMA DownMonotone ==
  ASSUME NEW x \in Int, NEW y \in Int, NEW a \in Nat \ {0}, x <= y
  PROVE  AlignDown(x, a) <= AlignDown(y, a)
<1> DEFINE d == AlignDown(x, a)
<1>1. d \in Int /\ Multiple(d, a) /\ d <= x
  BY Down
<1> HIDE DEF d
<1>2. d <= y
  BY <1>1
<1> QED BY <1>1, <1>2, LastBelow DEF d

\* Between two multiples there is but one.
LEMMA DownIs ==
  ASSUME NEW x \in Int, NEW a \in Nat \ {0}, NEW m \in Int, Multiple(m, a),
         m <= x, x < m + a
  PROVE  AlignDown(x, a) = m
<1> DEFINE d == AlignDown(x, a)
<1>1. d \in Int /\ Multiple(d, a) /\ d <= x /\ m <= d
  BY Down, LastBelow
<1> HIDE DEF d
<1>2. PICK q \in Int : d = q * a
  BY <1>1 DEF Multiple
<1>3. PICK r \in Int : m = r * a
  BY DEF Multiple
<1>4. d <= m
  BY <1>1, <1>2, <1>3, Apart
<1>5. d = m
  BY <1>1, <1>4
<1> QED BY <1>5 DEF d

LEMMA Sums ==
  ASSUME NEW a \in Nat \ {0}, NEW m \in Int, NEW n \in Int, Multiple(m, a), Multiple(n, a)
  PROVE  Multiple(m + n, a) /\ Multiple(m - n, a)
<1>1. PICK q \in Int : m = q * a
  BY DEF Multiple
<1>2. PICK r \in Int : n = r * a
  BY DEF Multiple
<1>3. m + n = (q + r) * a /\ m - n = (q - r) * a
  BY <1>1, <1>2
<1>4. q + r \in Int /\ q - r \in Int
  OBVIOUS
<1> QED BY <1>3, <1>4 DEF Multiple

LEMMA DownMoved ==
  ASSUME NEW x \in Int, NEW a \in Nat \ {0}, NEW m \in Int, Multiple(m, a)
  PROVE  AlignDown(x + m, a) = AlignDown(x, a) + m
<1> DEFINE d == AlignDown(x, a)
<1>1. d \in Int /\ Multiple(d, a) /\ d <= x /\ x < d + a
  BY Down
<1> HIDE DEF d
<1>2. d + m \in Int /\ x + m \in Int /\ Multiple(d + m, a) /\ d + m <= x + m
      /\ x + m < (d + m) + a
  BY <1>1, Sums
<1>3. AlignDown(x + m, a) = d + m
  BY <1>2, DownIs
<1> QED BY <1>3 DEF d

\* AlignUp() is the first multiple that is not below.
LEMMA Up ==
  ASSUME NEW x \in Int, NEW a \in Nat \ {0}
  PROVE  /\ AlignUp(x, a) \in Int /\ Multiple(AlignUp(x, a), a)
         /\ x <= AlignUp(x, a) /\ AlignUp(x, a) < x + a
<1> DEFINE y == x + a - 1
           d == AlignDown(y, a)
<1>1. y \in Int
  OBVIOUS
<1>2. d \in Int /\ Multiple(d, a) /\ d <= y /\ y < d + a
  <2> HIDE DEF y
  <2> QED BY <1>1, Down
<1>3. AlignUp(x, a) = d
  BY DEF AlignUp
<1> HIDE DEF d
<1>4. x <= d /\ d < x + a
  BY <1>2
<1> QED BY <1>2, <1>3, <1>4

LEMMA FirstAbove ==
  ASSUME NEW x \in Int, NEW a \in Nat \ {0}, NEW m \in Int, Multiple(m, a), x <= m
  PROVE  AlignUp(x, a) <= m
<1>1. PICK q \in Int : m = q * a
  BY DEF Multiple
<1>2. PICK r \in Int : AlignUp(x, a) = r * a
  BY Up DEF Multiple
<1>3. AlignUp(x, a) < m + a
  <2> DEFINE u == AlignUp(x, a)
  <2>1. u \in Int /\ u < x + a
    BY Up
  <2> HIDE DEF u
  <2>2. u < m + a
    BY <2>1
  <2> QED BY <2>2 DEF u
<1> QED BY <1>1, <1>2, <1>3, Apart

LEMMA UpMonotone ==
  ASSUME NEW x \in Int, NEW y \in Int, NEW a \in Nat \ {0}, x <= y
  PROVE  AlignUp(x, a) <= AlignUp(y, a)
<1> DEFINE u == AlignUp(y, a)
<1>1. u \in Int /\ Multiple(u, a) /\ y <= u
  BY Up
<1> HIDE DEF u
<1>2. x <= u
  BY <1>1
<1> QED BY <1>1, <1>2, FirstAbove DEF u

LEMMA UpMoved ==
  ASSUME NEW x \in Int, NEW a \in Nat \ {0}, NEW m \in Int, Multiple(m, a)
  PROVE  AlignUp(x + m, a) = AlignUp(x, a) + m
<1> DEFINE y == x + a - 1
<1>1. y \in Int /\ (x + m) + a - 1 = y + m
  OBVIOUS
<1>2. AlignDown(y + m, a) = AlignDown(y, a) + m
  <2> HIDE DEF y
  <2> QED BY <1>1, DownMoved
<1> QED BY <1>1, <1>2 DEF AlignUp

\* A number without remainder is a multiple.
LEMMA Divisible ==
  ASSUME NEW m \in Int, NEW a \in Nat \ {0}
  PROVE  m % a = 0 <=> Multiple(m, a)
<1> DEFINE d == AlignDown(m, a)
           r == m % a
<1>1. d \in Int /\ Multiple(d, a) /\ d = m - r /\ r \in 0 .. a - 1
  BY Down, Division
<1>2. Multiple(m, a) => d = m
  BY DownIs
<1> HIDE DEF d, r
<1>3. r = 0 <=> d = m
  BY <1>1
<1>4. d = m => Multiple(m, a)
  BY <1>1
<1> QED BY <1>2, <1>3, <1>4 DEF r

-----------------------------------------------------------------------------
(***************************************************************************)
(* Sums and products: the folds of Plus and of Times.                      *)
(***************************************************************************)
Adding == INSTANCE Folding WITH Op <- Plus
Multiplying == INSTANCE Folding WITH Op <- Times

LEMMA AddingFolds ==
  \A base, s : Adding!Fold(base, s) = FoldLeft(Plus, base, s)
BY DEF Adding!Fold, FoldLeft, Adding!FoldLeft, MapThenFoldSet, Adding!MapThenFoldSet,
       Max, Adding!Max

LEMMA MultiplyingFolds ==
  \A base, s : Multiplying!Fold(base, s) = FoldLeft(Times, base, s)
BY DEF Multiplying!Fold, FoldLeft, Multiplying!FoldLeft, MapThenFoldSet,
       Multiplying!MapThenFoldSet, Max, Multiplying!Max

LEMMA SumIsNatural ==
  ASSUME NEW base \in Nat, NEW s \in Seq(Nat)
  PROVE  FoldLeft(Plus, base, s) \in Nat
<1>1. \A a \in Nat, e \in Nat : Plus(a, e) \in Nat
  BY DEF Plus
<1>2. Adding!Fold(base, s) \in Nat
  BY <1>1, Adding!FoldKeeps
<1> QED BY <1>2, AddingFolds

LEMMA SumStep ==
  ASSUME NEW base \in Nat, NEW s \in Seq(Nat), NEW e \in Nat
  PROVE  FoldLeft(Plus, base, Append(s, e)) = FoldLeft(Plus, base, s) + e
<1>1. Adding!Fold(base, Append(s, e)) = Plus(Adding!Fold(base, s), e)
  BY Adding!FoldAppend
<1> QED BY <1>1, AddingFolds DEF Plus

LEMMA SumOfNone == \A base : FoldLeft(Plus, base, <<>>) = base
BY AddingFolds, Adding!FoldEmpty

LEMMA PositiveProduct ==
  ASSUME NEW base \in Nat \ {0}, NEW s \in Seq(Nat \ {0})
  PROVE  FoldLeft(Times, base, s) \in Nat \ {0}
<1>1. ASSUME NEW a \in Nat \ {0}, NEW e \in Nat \ {0} PROVE Times(a, e) \in Nat \ {0}
  <2>1. 1 * e <= a * e
    BY Scaled
  <2>2. 1 * e = e /\ a * e \in Nat
    OBVIOUS
  <2> DEFINE m == a * e
  <2>3. m \in Nat /\ e <= m
    BY <2>1, <2>2
  <2> HIDE DEF m
  <2>4. m \in Nat \ {0}
    BY <2>3
  <2> QED BY <2>4 DEF Times, m
<1>2. Multiplying!Fold(base, s) \in Nat \ {0}
  BY <1>1, Multiplying!FoldKeeps
<1> QED BY <1>2, MultiplyingFolds

LEMMA PowerIsPositive == ConverterAssumption => \A n \in Nat : Power(n) \in Nat \ {0}
<1> SUFFICES ASSUME ConverterAssumption, NEW n \in Nat PROVE Power(n) \in Nat \ {0}
  OBVIOUS
<1>1. ByteValues \in Nat \ {0}
  BY DEF ConverterAssumption
<1>2. [k \in 1 .. n |-> ByteValues] \in Seq(Nat \ {0})
  BY <1>1
<1>3. 1 \in Nat \ {0}
  OBVIOUS
<1> QED BY <1>2, <1>3, PositiveProduct DEF Power

-----------------------------------------------------------------------------
(***************************************************************************)
(* Least and greatest elements, and the greatest common divisor.           *)
(***************************************************************************)
LEMMA Least ==
  ASSUME NEW T \in SUBSET Nat, T # {}
  PROVE  Min(T) \in T /\ \A n \in T : Min(T) <= n
<1>1. \E m \in T : \A n \in T : m <= n
  BY Adding!LeastNumber
<1> QED BY <1>1 DEF Min

LEMMA Bounded ==
  ASSUME NEW n \in Nat, NEW g, \A k \in 1 .. n : g[k] \in Nat
  PROVE  \E m \in Nat : \A k \in 1 .. n : g[k] <= m
<1> DEFINE T == {j \in 0 .. n : \E m \in Nat : \A k \in 1 .. j : g[k] <= m}
<1>1. 0 \in T
  OBVIOUS
<1>2. ASSUME NEW j \in 0 .. n - 1, j \in T PROVE j + 1 \in T
  <2>1. PICK m \in Nat : \A k \in 1 .. j : g[k] <= m
    BY <1>2
  <2>2. j + 1 \in 1 .. n /\ j + 1 \in 0 .. n
    OBVIOUS
  <2>3. g[j + 1] \in Nat
    BY <2>2
  <2> DEFINE bound == m + g[j + 1]
  <2>4. bound \in Nat /\ g[j + 1] <= bound /\ m <= bound
    BY <2>3
  <2> HIDE DEF bound
  <2>5. \A k \in 1 .. j + 1 : g[k] <= bound
    <3>1. ASSUME NEW k \in 1 .. j + 1 PROVE g[k] <= bound
      <4>1. CASE k = j + 1
        BY <2>4, <4>1
      <4>2. CASE k # j + 1
        <5>1. k \in 1 .. j /\ k \in 1 .. n
          BY <4>2
        <5>2. g[k] \in Nat /\ g[k] <= m
          BY <2>1, <5>1
        <5> QED BY <2>4, <5>2
      <4> QED BY <4>1, <4>2
    <3> QED BY <3>1
  <2> QED BY <2>2, <2>4, <2>5
<1> HIDE DEF T
<1>3. n \in T
  <2>1. \A j \in 0 .. n : j \in T
    BY <1>1, <1>2, Adding!BoundedInduction
  <2> QED BY <2>1
<1> QED BY <1>3 DEF T

LEMMA Greatest ==
  ASSUME NEW N \in Nat, NEW T \in SUBSET (1 .. N), T # {}
  PROVE  Max(T) \in T /\ \A k \in T : k <= Max(T)
<1>1. Adding!Max(T) \in T /\ \A k \in T : k <= Adding!Max(T)
  BY Adding!MaxOfSet
<1> QED BY <1>1 DEF Max, Adding!Max

\* The quotients of exec_address_alignment() are positive.
LEMMA QuotientIsPositive ==
  ASSUME NEW a \in Nat \ {0}, NEW d \in Nat \ {0}, a % d = 0
  PROVE  a \div d \in Nat \ {0}
<1> DEFINE q == a \div d
<1>1. q \in Int /\ a = q * d + (a % d)
  BY Division
<1>2. q * d \in Int /\ a = q * d + 0
  BY <1>1
<1>3. a = q * d
  <2> DEFINE m == q * d
  <2>1. m \in Int /\ a = m + 0
    BY <1>2
  <2> HIDE DEF m
  <2>2. a = m
    BY <2>1
  <2> QED BY <2>2 DEF m
<1> HIDE DEF q
<1>4. q > 0
  <2> SUFFICES ASSUME q <= 0 PROVE FALSE
    BY <1>1
  <2>1. q * d <= 0 * d
    BY <1>1, Scaled
  <2>2. 0 * d = 0
    OBVIOUS
  <2>3. a <= 0
    BY <1>3, <2>1, <2>2
  <2> QED BY <2>3
<1>5. q \in Nat \ {0}
  BY <1>1, <1>4
<1> QED BY <1>5 DEF q

-----------------------------------------------------------------------------
(***************************************************************************)
(* Sorting.                                                                *)
(***************************************************************************)

\* The p[k]-th element of s comes to place k of t.
Sorts(p, s, t) ==
  /\ p \in [DOMAIN s -> DOMAIN s]
  /\ \A j, k \in DOMAIN s : p[j] = p[k] => j = k
  /\ \A k \in DOMAIN s : \E j \in DOMAIN s : p[j] = k
  /\ \A j, k \in DOMAIN s : j < k => s[p[j]].vaddr <= s[p[k]].vaddr
  /\ \A k \in DOMAIN s : t[k] = s[p[k]]

LEMMA Sorting ==
  ASSUME NEW S, NEW s \in Seq(S), NEW t \in SortedByAddress(s)
  PROVE  /\ t \in Seq(S) /\ DOMAIN t = DOMAIN s /\ Len(t) = Len(s)
         /\ \E p : Sorts(p, s, t)
<1>1. PICK p \in Orders(s) : t = [k \in DOMAIN s |-> s[p[k]]]
  BY DEF SortedByAddress
<1>2. /\ p \in Bijection(DOMAIN s, DOMAIN s)
      /\ \A j, k \in DOMAIN s : j < k => s[p[j]].vaddr <= s[p[k]].vaddr
  BY <1>1 DEF Orders
<1>3. /\ p \in [DOMAIN s -> DOMAIN s]
      /\ \A k \in DOMAIN s : \E j \in DOMAIN s : p[j] = k
      /\ \A j, k \in DOMAIN s : p[j] = p[k] => j = k
  BY <1>2 DEF Bijection, Injection, Surjection, IsInjective
<1>4. DOMAIN s = 1 .. Len(s) /\ Len(s) \in Nat
  OBVIOUS
<1>5. t \in Seq(S) /\ DOMAIN t = DOMAIN s /\ Len(t) = Len(s)
  BY <1>1, <1>3, <1>4
<1>6. Sorts(p, s, t)
  BY <1>1, <1>2, <1>3 DEF Sorts
<1> QED BY <1>5, <1>6

LEMMA SortingKeeps ==
  ASSUME NEW S, NEW s \in Seq(S), NEW t \in SortedByAddress(s)
  PROVE  ToSet(t) = ToSet(s) /\ Ordered(t)
<1>1. DOMAIN t = DOMAIN s
  BY Sorting
<1>2. PICK p : Sorts(p, s, t)
  BY Sorting
<1>3. ToSet(t) = ToSet(s)
  BY <1>1, <1>2 DEF ToSet, Sorts
<1>4. Ordered(t)
  BY <1>1, <1>2, SMTT(30) DEF Ordered, Sorts
<1> QED BY <1>3, <1>4

-----------------------------------------------------------------------------
(***************************************************************************)
(* What the helpers return.                                                *)
(***************************************************************************)

\* The constants, one by one.
LEMMA Elements ==
  ASSUME NEW S, NEW s \in Seq(S)
  PROVE  /\ Len(s) \in Nat /\ DOMAIN s = 1 .. Len(s)
         /\ \A k \in DOMAIN s : s[k] \in S
OBVIOUS

\* What the proofs need of TypeInv.
LEMMA VariablesTyped ==
  ASSUME TypeInv
  PROVE  /\ elf \in Files /\ i \in Nat \ {0} /\ alignment \in Nat /\ shift \in Nat
         /\ Len(segments) \in Nat /\ DOMAIN segments = 1 .. Len(segments)
         /\ \A k \in DOMAIN segments : segments[k] \in Segs
         /\ Len(relocs) \in Nat /\ DOMAIN relocs = 1 .. Len(relocs)
         /\ \A k \in DOMAIN relocs : relocs[k] \in Relocs
<1>1. /\ elf \in Files /\ i \in Nat \ {0} /\ alignment \in Nat /\ shift \in Nat
      /\ segments \in Seq(Segs) /\ relocs \in Seq(Relocs)
  BY DEF TypeInv
<1> QED BY <1>1, Elements

LEMMA Constants ==
  ASSUME ConverterAssumption
  PROVE  /\ WordBytes \in Nat \ {0} /\ PageBytes \in Nat \ {0}
         /\ FileAlignment \in Nat \ {0} /\ HeaderBytes \in Nat \ {0}
         /\ SectionHeaderBytes \in Nat \ {0} /\ BlockBytes \in Nat \ {0}
         /\ EntryBytes \in Nat \ {0}
         /\ BaseAddress \in Nat /\ BaseAddress >= PageBytes
         /\ DynBytes = 2 * WordBytes /\ DynBytes \in Nat \ {0}
         /\ RelBytes \in Nat \ {0} /\ RelaBytes \in Nat \ {0}
<1>1. /\ WordBytes \in Nat \ {0} /\ PageBytes \in Nat \ {0}
      /\ FileAlignment \in Nat \ {0} /\ HeaderBytes \in Nat \ {0}
      /\ SectionHeaderBytes \in Nat \ {0} /\ BlockBytes \in Nat \ {0}
      /\ EntryBytes \in Nat \ {0} /\ BaseAddress \in Nat /\ BaseAddress >= PageBytes
  BY DEF ConverterAssumption
<1>2. DynBytes \in Nat \ {0} /\ RelBytes \in Nat \ {0} /\ RelaBytes \in Nat \ {0}
  BY <1>1 DEF DynBytes, RelBytes, RelaBytes
<1> QED BY <1>1, <1>2 DEF DynBytes

LEMMA FileFields ==
  ASSUME ConverterAssumption, elf \in Files
  PROVE  /\ elf.phdrs \in Seq(ProgramHeader)
         /\ elf.size \in Nat /\ elf.entry \in Nat /\ elf.dyn \in Seq(Nat)
         /\ elf.rela \in Seq(RelocEntry) /\ elf.relaAt \in Nat
         /\ elf.rel \in Seq(RelocEntry) /\ elf.relAt \in Nat
         /\ \E k \in DOMAIN elf.phdrs : elf.phdrs[k].type = "load"
         /\ \A k \in DOMAIN elf.phdrs :
              elf.phdrs[k].type = "dynamic" =>
                elf.phdrs[k].memsz <= WordBytes * Len(elf.dyn)
<1>1. FileOK(elf)
  BY DEF ConverterAssumption
<1> QED BY <1>1 DEF FileOK, ToSet

LEMMA SegmentIsTyped ==
  ASSUME NEW p \in ProgramHeader
  PROVE  Segment(p) \in Segs
<1> DEFINE d == [k \in 0 .. p.memsz - 1 |->
                   IF k < p.filesz THEN FileByte(p.vaddr + k) ELSE Garbage]
<1>1. /\ p.vaddr \in Nat /\ p.memsz \in Nat /\ p.align \in Nat /\ p.filesz \in Nat
  BY DEF ProgramHeader
<1>2. ASSUME NEW k \in 0 .. p.memsz - 1 PROVE d[k] \in Byte
  <2>1. p.vaddr + k \in Nat
    BY <1>1
  <2>2. FileByte(p.vaddr + k) \in Byte /\ Garbage \in Byte
    BY <2>1 DEF FileByte, Garbage, Byte
  <2> QED BY <2>2
<1>3. d \in [0 .. p.memsz - 1 -> Byte]
  BY <1>2
<1> HIDE DEF d
<1>4. d \in Data /\ DOMAIN d = 0 .. p.memsz - 1
  BY <1>1, <1>3 DEF Data
<1>5. Segment(p) = [vaddr |-> p.vaddr, memsize |-> p.memsz, align |-> p.align,
                    filesize |-> p.filesz, data |-> d]
  BY DEF Segment, d
<1> QED BY <1>1, <1>4, <1>5 DEF Segs

\* A field of a segment.
LEMMA SegmentFields ==
  ASSUME NEW s \in Segs
  PROVE  /\ s.vaddr \in Nat /\ s.memsize \in Nat /\ s.align \in Nat /\ s.filesize \in Nat
         /\ s.data \in [0 .. s.memsize - 1 -> Byte]
         /\ s = [vaddr |-> s.vaddr, memsize |-> s.memsize, align |-> s.align,
                 filesize |-> s.filesize, data |-> s.data]
<1>1. s \in [vaddr : Nat, memsize : Nat, align : Nat, filesize : Nat, data : Data]
      /\ DOMAIN s.data = 0 .. s.memsize - 1
  BY DEF Segs
<1>2. PICK n \in Nat : s.data \in [0 .. n - 1 -> Byte]
  BY <1>1 DEF Data
<1> QED BY <1>1, <1>2

LEMMA SegmentWith ==
  ASSUME NEW v \in Nat, NEW m \in Nat, NEW a \in Nat, NEW z \in Nat,
         NEW d \in [0 .. m - 1 -> Byte]
  PROVE  [vaddr |-> v, memsize |-> m, align |-> a, filesize |-> z, data |-> d] \in Segs
<1>1. d \in Data /\ DOMAIN d = 0 .. m - 1
  BY DEF Data
<1> QED BY <1>1 DEF Segs

\* relocate_exec(), field by field: the segment begins at the last multiple of its
\* alignment that is not above where it was.
LEMMA RelocatedFields ==
  ASSUME ConverterAssumption, shift \in Nat, NEW s \in Segs, s.align # 0
  PROVE  LET at == s.vaddr + BaseAddress + shift
             offset == at - AlignDown(at, s.align)
         IN  /\ at \in Nat /\ offset \in 0 .. s.align - 1 /\ at - offset \in Nat
             /\ Relocated(s) \in Segs
             /\ Relocated(s).vaddr = at - offset
             /\ Relocated(s).memsize = s.memsize + offset
             /\ Relocated(s).filesize = s.filesize + offset
             /\ Relocated(s).align = s.align
             /\ \A k \in 0 .. s.memsize + offset - 1 :
                  Relocated(s).data[k] = IF k < offset THEN Zero ELSE s.data[k - offset]
<1> DEFINE at == s.vaddr + BaseAddress + shift
           offset == at % s.align
           d == [k \in 0 .. s.memsize + offset - 1 |->
                   IF k < offset THEN Zero ELSE s.data[k - offset]]
<1>1. /\ s.vaddr \in Nat /\ s.memsize \in Nat /\ s.align \in Nat \ {0} /\ s.filesize \in Nat
      /\ s.data \in [0 .. s.memsize - 1 -> Byte]
      /\ s = [vaddr |-> s.vaddr, memsize |-> s.memsize, align |-> s.align,
              filesize |-> s.filesize, data |-> s.data]
  BY SegmentFields
<1>2. BaseAddress \in Nat
  BY Constants
<1>3. at \in Nat
  BY <1>1, <1>2, SMTT(30)
<1>4. Relocated(s) = [s EXCEPT !.vaddr = at - offset, !.filesize = @ + offset,
                               !.memsize = @ + offset,
                               !.data = [k \in 0 .. s.memsize + offset - 1 |->
                                           IF k < offset THEN Zero ELSE @[k - offset]]]
  BY DEF Relocated
<1>5. Relocated(s) = [vaddr |-> at - offset, memsize |-> s.memsize + offset,
                      align |-> s.align, filesize |-> s.filesize + offset, data |-> d]
  BY <1>1, <1>4
<1>6. AlignDown(at, s.align) = at - offset /\ offset \in 0 .. s.align - 1
      /\ AlignDown(at, s.align) \in Int
  <2> HIDE DEF at
  <2>1. at \in Int /\ s.align \in Nat \ {0}
    BY <1>1, <1>3
  <2> QED BY <2>1, Down, Division
<1>7. at - offset \in Nat
  <2>1. at % s.align = offset
    OBVIOUS
  <2> HIDE DEF offset
  <2>2. offset <= at
    <3>0. at \in Nat /\ offset \in Nat /\ s.align \in Nat \ {0}
      BY <1>1, <1>3, <1>6
    <3>1. Multiple(0, s.align)
      <4>1. 0 = 0 * s.align
        BY <1>1
      <4> QED BY <4>1 DEF Multiple
    <3>2. 0 <= AlignDown(at, s.align)
      <4> HIDE DEF at
      <4> QED BY <3>0, <3>1, LastBelow
    <3>3. 0 <= at - offset
      BY <1>6, <3>2
    <3> HIDE DEF at
    <3> QED BY <3>0, <3>3
  <2> HIDE DEF at
  <2> QED BY <1>3, <1>6, <2>2
<1> HIDE DEF at
<1>8. at - AlignDown(at, s.align) = offset
  <2>1. offset \in Int
    BY <1>6
  <2> HIDE DEF offset
  <2> QED BY <1>3, <1>6, <2>1
<1> HIDE DEF offset
<1>0. s.memsize \in Nat /\ s.filesize \in Nat /\ offset \in Nat
  BY <1>1, <1>6
<1>9. d \in [0 .. s.memsize + offset - 1 -> Byte]
  <2>1. ASSUME NEW k \in 0 .. s.memsize + offset - 1 PROVE d[k] \in Byte
    <3>1. CASE k < offset
      BY <3>1 DEF Byte
    <3>2. CASE ~(k < offset)
      <4>1. k - offset \in 0 .. s.memsize - 1
        BY <1>0, <3>2
      <4> QED BY <1>1, <3>2, <4>1
    <3> QED BY <3>1, <3>2
  <2> QED BY <2>1
<1>10. s.memsize + offset \in Nat /\ s.filesize + offset \in Nat
  BY <1>0
<1>11. \A k \in 0 .. s.memsize + offset - 1 :
         d[k] = IF k < offset THEN Zero ELSE s.data[k - offset]
  OBVIOUS
<1> HIDE DEF d
<1>12. Relocated(s) \in Segs
  <2>1. s.align \in Nat
    BY <1>1
  <2>2. [vaddr |-> at - offset, memsize |-> s.memsize + offset,
         align |-> s.align, filesize |-> s.filesize + offset, data |-> d] \in Segs
    <3>1. PICK m : m = s.memsize + offset
      OBVIOUS
    <3>2. PICK v, z : v = at - offset /\ z = s.filesize + offset
      OBVIOUS
    <3>3. m \in Nat
      BY <1>10, <3>1
    <3>4. v \in Nat /\ z \in Nat
      BY <1>7, <1>10, <3>2
    <3>5. m - 1 = s.memsize + offset - 1
      BY <1>0, <3>1
    <3>6. d \in [0 .. m - 1 -> Byte]
      BY <1>9, <3>5
    <3>7. [vaddr |-> v, memsize |-> m, align |-> s.align, filesize |-> z,
           data |-> d] \in Segs
      BY <2>1, <3>3, <3>4, <3>6, SegmentWith
    <3> QED BY <3>1, <3>2, <3>7
  <2> QED BY <1>5, <2>2
<1>13. /\ Relocated(s).vaddr = at - offset
       /\ Relocated(s).memsize = s.memsize + offset
       /\ Relocated(s).filesize = s.filesize + offset
       /\ Relocated(s).align = s.align
       /\ Relocated(s).data = d
  BY <1>5
<1> QED BY <1>3, <1>6, <1>7, <1>8, <1>11, <1>12, <1>13 DEF at

\* apply_relocs(), field by field.
LEMMA PatchedFields ==
  ASSUME ConverterAssumption, NEW s \in Segs, NEW reloc \in Relocs, s.vaddr <= reloc.vaddr
  PROVE  LET at == reloc.vaddr - s.vaddr
         IN  /\ at \in Nat
             /\ Patched(s, reloc) \in Segs
             /\ Patched(s, reloc).vaddr = s.vaddr
             /\ Patched(s, reloc).memsize = s.memsize
             /\ Patched(s, reloc).align = s.align
             /\ Patched(s, reloc).filesize = IF at >= s.filesize THEN at + WordBytes
                                                                 ELSE s.filesize
             /\ \A k \in 0 .. s.memsize - 1 :
                  Patched(s, reloc).data[k] = IF k \in at .. at + WordBytes - 1
                                                THEN PointerByte(reloc.addend, k - at)
                                                ELSE s.data[k]
<1> DEFINE at == reloc.vaddr - s.vaddr
           z == IF at >= s.filesize THEN at + WordBytes ELSE s.filesize
           d == [k \in DOMAIN s.data |->
                   IF k \in at .. at + WordBytes - 1
                     THEN PointerByte(reloc.addend, k - at) ELSE s.data[k]]
<1>1. /\ s.vaddr \in Nat /\ s.memsize \in Nat /\ s.align \in Nat /\ s.filesize \in Nat
      /\ s.data \in [0 .. s.memsize - 1 -> Byte]
      /\ s = [vaddr |-> s.vaddr, memsize |-> s.memsize, align |-> s.align,
              filesize |-> s.filesize, data |-> s.data]
  BY SegmentFields
<1>2. reloc.vaddr \in Nat /\ reloc.addend \in Nat /\ WordBytes \in Nat \ {0}
  BY Constants DEF Relocs
<1>3. at \in Nat
  BY <1>1, <1>2, SMTT(30)
<1>4. Patched(s, reloc) =
        [s EXCEPT !.data = [k \in DOMAIN @ |-> IF k \in at .. at + WordBytes - 1
                                                 THEN PointerByte(reloc.addend, k - at)
                                                 ELSE @[k]],
                  !.filesize = IF at >= @ THEN at + WordBytes ELSE @]
  BY DEF Patched
<1>5. Patched(s, reloc) = [vaddr |-> s.vaddr, memsize |-> s.memsize, align |-> s.align,
                           filesize |-> z, data |-> d]
  BY <1>1, <1>4
<1> HIDE DEF at
<1>6. d \in [0 .. s.memsize - 1 -> Byte]
  <2>1. ASSUME NEW k \in 0 .. s.memsize - 1 PROVE d[k] \in Byte
    <3>1. CASE k \in at .. at + WordBytes - 1
      <4>1. k - at \in Nat
        BY <1>3, <3>1
      <4>2. PointerByte(reloc.addend, k - at) \in Byte
        BY <1>2, <4>1 DEF PointerByte, Byte
      <4> QED BY <1>1, <3>1, <4>2
    <3>2. CASE k \notin at .. at + WordBytes - 1
      BY <1>1, <3>2
    <3> QED BY <3>1, <3>2
  <2> QED BY <1>1, <2>1
<1>7. z \in Nat
  BY <1>1, <1>2, <1>3, SMTT(30)
<1>8. \A k \in 0 .. s.memsize - 1 :
        d[k] = IF k \in at .. at + WordBytes - 1
                 THEN PointerByte(reloc.addend, k - at) ELSE s.data[k]
  BY <1>1
<1>9. z = IF at >= s.filesize THEN at + WordBytes ELSE s.filesize
  OBVIOUS
<1> HIDE DEF d, z
<1>10. Patched(s, reloc) \in Segs
  <2>1. s.vaddr \in Nat /\ s.memsize \in Nat /\ s.align \in Nat
    BY <1>1
  <2>2. [vaddr |-> s.vaddr, memsize |-> s.memsize, align |-> s.align,
         filesize |-> z, data |-> d] \in Segs
    BY <2>1, <1>6, <1>7, SegmentWith
  <2> QED BY <1>5, <2>2
<1>11. /\ Patched(s, reloc).vaddr = s.vaddr /\ Patched(s, reloc).memsize = s.memsize
       /\ Patched(s, reloc).align = s.align /\ Patched(s, reloc).filesize = z
       /\ Patched(s, reloc).data = d
  BY <1>5
<1> QED BY <1>3, <1>8, <1>9, <1>10, <1>11 DEF at

LEMMA NaturalDivision ==
  ASSUME NEW x \in Nat, NEW a \in Nat \ {0}
  PROVE  x \div a \in Nat /\ x % a \in Nat /\ x % a < a
<1> DEFINE q == x \div a
           r == x % a
<1>1. q \in Int /\ r \in 0 .. a - 1 /\ x = q * a + r
  BY Division
<1> HIDE DEF q, r
<1>2. q >= 0
  <2> SUFFICES ASSUME q + 1 <= 0 PROVE FALSE
    BY <1>1
  <2>1. (q + 1) * a <= 0 * a
    BY <1>1, Scaled
  <2>2. (q + 1) * a = q * a + a /\ 0 * a = 0 /\ q * a \in Int
    BY <1>1
  <2> DEFINE m == q * a
  <2>3. m \in Int /\ m + a <= 0 /\ x = m + r
    BY <1>1, <2>1, <2>2
  <2> HIDE DEF m
  <2> QED BY <1>1, <2>3
<1>3. q \in Nat /\ r \in Nat /\ r < a
  BY <1>1, <1>2
<1> QED BY <1>3 DEF q, r

\* A word that begins, and ends, in the memory of the dynamic section.
LEMMA WordIsNatural ==
  ASSUME ConverterAssumption, elf.dyn \in Seq(Nat),
         NEW b \in Nat, b + WordBytes < WordBytes * Len(elf.dyn)
  PROVE  Word(b) \in Nat
<1> DEFINE q == b \div WordBytes
           r == b % WordBytes
           n == Len(elf.dyn)
<1>0. WordBytes \in Nat \ {0} /\ n \in Nat
  BY Constants, SMTT(30)
<1>1. q \in Nat /\ r \in Nat /\ r < WordBytes /\ b = q * WordBytes + r
  <2>1. q \in Nat /\ r \in Nat /\ r < WordBytes
    BY <1>0, NaturalDivision
  <2>2. b = q * WordBytes + r
    <3>1. b \in Int
      OBVIOUS
    <3> QED BY <1>0, <3>1, Division
  <2> HIDE DEF q, r
  <2> QED BY <2>1, <2>2
<1>2. b + WordBytes < n * WordBytes
  BY <1>0
<1>3. \A k \in 1 .. n : elf.dyn[k] \in Nat
  <2>1. \A k \in 1 .. Len(elf.dyn) : elf.dyn[k] \in Nat
    BY Elements
  <2> QED BY <2>1
<1>4. Word(b) = IF r = 0 THEN elf.dyn[q + 1]
                ELSE (elf.dyn[q + 1] \div Power(r)) +
                     (elf.dyn[q + 2] % Power(r)) * Power(WordBytes - r)
  BY DEF Word
<1> HIDE DEF q, r, n
<1>5. q + 1 < n
  <2> SUFFICES ASSUME n <= q + 1 PROVE FALSE
    BY <1>0, <1>1
  <2>1. n * WordBytes <= (q + 1) * WordBytes
    BY <1>0, <1>1, Scaled
  <2>2. (q + 1) * WordBytes = q * WordBytes + WordBytes /\ q * WordBytes \in Int
        /\ n * WordBytes \in Int
    BY <1>0, <1>1
  <2> DEFINE l == q * WordBytes
             m == n * WordBytes
  <2>3. l \in Int /\ m \in Int /\ m <= l + WordBytes /\ b = l + r /\ b + WordBytes < m
    BY <1>1, <1>2, <2>1, <2>2
  <2> HIDE DEF l, m
  <2> QED BY <1>0, <1>1, <2>3
<1>6. q + 1 \in 1 .. n /\ q + 2 \in 1 .. n
  BY <1>0, <1>1, <1>5
<1>7. elf.dyn[q + 1] \in Nat /\ elf.dyn[q + 2] \in Nat
  BY <1>3, <1>6
<1>8. Power(r) \in Nat \ {0} /\ Power(WordBytes - r) \in Nat \ {0}
  <2>1. WordBytes - r \in Nat
    BY <1>0, <1>1
  <2> QED BY <1>1, <2>1, PowerIsPositive
<1> DEFINE x == elf.dyn[q + 1] \div Power(r)
           y == elf.dyn[q + 2] % Power(r)
           z == Power(WordBytes - r)
<1>9. x \in Nat /\ y \in Nat /\ z \in Nat
  BY <1>7, <1>8, NaturalDivision
<1>10. Word(b) = IF r = 0 THEN elf.dyn[q + 1] ELSE x + y * z
  BY <1>4
<1> HIDE DEF x, y, z
<1>11. y * z \in Nat
  BY <1>9
<1>12. x + y * z \in Nat
  <2> DEFINE m == y * z
  <2>1. m \in Nat
    BY <1>11
  <2> HIDE DEF m
  <2>2. x + m \in Nat
    BY <1>9, <2>1
  <2> QED BY <2>2 DEF m
<1> QED BY <1>7, <1>10, <1>12

LEMMA LookupIsTyped ==
  ASSUME ConverterAssumption, elf \in Files,
         dynamic \in [filesize : Nat, memsize : Nat],
         dynamic.memsize <= WordBytes * Len(elf.dyn),
         NEW tag
  PROVE  Lookup(tag) \in Nat \cup {Missing, Refused}
<1> DEFINE hits == {b \in 0 .. DynEntries - 1 : Word(b) = tag}
           last == IF hits = {} THEN DynEntries - 1 ELSE Min(hits)
           inside == last < 0 \/ last + DynBytes < dynamic.memsize
<1>1. Lookup(tag) = CASE ~inside -> Refused
                      [] inside /\ hits = {} -> Missing
                      [] inside /\ hits # {} -> Word(last + WordBytes)
  BY DEF Lookup
<1>2. ASSUME hits # {}, inside PROVE Word(last + WordBytes) \in Nat
  <2>1. last = Min(hits)
    BY <1>2
  <2>2. hits \in SUBSET Nat
    OBVIOUS
  <2>3. last \in Nat
    <3> HIDE DEF hits
    <3> QED BY <1>2, <2>1, <2>2, Least
  <2>4. last + DynBytes < dynamic.memsize
    <3> HIDE DEF last
    <3> QED BY <1>2, <2>3
  <2> HIDE DEF last, hits
  <2>5. /\ WordBytes \in Nat \ {0} /\ DynBytes = 2 * WordBytes
        /\ dynamic.memsize \in Nat /\ elf.dyn \in Seq(Nat)
    BY Constants, FileFields
  <2>6. Len(elf.dyn) \in Nat
    BY <2>5
  <2> DEFINE size == WordBytes * Len(elf.dyn)
  <2>7. size \in Nat /\ dynamic.memsize <= size
    BY <2>5, <2>6
  <2> HIDE DEF size
  <2>8. last + WordBytes \in Nat /\ (last + WordBytes) + WordBytes < size
    BY <2>3, <2>4, <2>5, <2>7
  <2> QED BY <2>5, <2>8, WordIsNatural DEF size
<1> HIDE DEF hits, last, inside
<1>3. CASE ~inside
  BY <1>1, <1>3
<1>4. CASE inside /\ hits = {}
  BY <1>1, <1>4
<1>5. CASE inside /\ hits # {}
  BY <1>1, <1>2, <1>5
<1> QED BY <1>3, <1>4, <1>5

\* A table that is read has a number of entries, each of them a relocation.
LEMMA TableIsTyped ==
  ASSUME NEW entries \in Seq(RelocEntry), NEW at, NEW offset, NEW num \in Nat
  PROVE  /\ Table(entries, at, offset, num) \in Seq(RelocEntry)
         /\ Len(Table(entries, at, offset, num)) = num
<1>1. [type |-> "unsupported", offset |-> 0, addend |-> 0] \in RelocEntry
  BY DEF RelocEntry
<1>2. \A k \in DOMAIN entries : entries[k] \in RelocEntry
  OBVIOUS
<1> DEFINE t == Table(entries, at, offset, num)
<1>3. t \in [1 .. num -> RelocEntry]
  BY <1>1, <1>2 DEF Table
<1> QED BY <1>3

LEMMA OutputIsTyped ==
  ASSUME ConverterAssumption, NEW table \in Seq(RelocEntry), NEW garbage \in Uninitialized
  PROVE  Output(table, garbage) \in Seq(Relocs)
<1> DEFINE hits == {k \in DOMAIN table : table[k].type = "relative"}
           n == Cardinality(hits)
<1>1. hits \in SUBSET (1 .. Len(table)) /\ Len(table) \in Nat
  OBVIOUS
<1>2. n \in Nat /\ n <= Len(table)
  <2>1. IsFiniteSet(1 .. Len(table)) /\ Cardinality(1 .. Len(table)) = Len(table)
    <3>1. PICK m \in Nat : m = Len(table)
      BY <1>1
    <3>2. IsFiniteSet(1 .. m) /\ Cardinality(1 .. m) = IF 1 > m THEN 0 ELSE m - 1 + 1
      <4>1. 1 \in Int /\ m \in Int
        OBVIOUS
      <4> QED BY <4>1, FS_Interval, Zenon
    <3>3. Cardinality(1 .. m) = m
      BY <3>2
    <3> QED BY <3>1, <3>2, <3>3
  <2> HIDE DEF hits
  <2> QED BY <1>1, <2>1, FS_Subset, FS_CardinalityType
<1>3. garbage \in Relocs
  BY Constants, SMTT(30) DEF Uninitialized, Relocs
<1>4. \A k \in 1 .. Len(table) : table[k] \in RelocEntry
  OBVIOUS
<1>5. Output(table, garbage) =
        [k \in 1 .. n |-> IF table[k].type = "relative"
                            THEN [vaddr |-> table[k].offset, addend |-> table[k].addend]
                            ELSE garbage]
  BY DEF Output
<1> HIDE DEF n
<1>6. ASSUME NEW k \in 1 .. n
      PROVE  (IF table[k].type = "relative"
                THEN [vaddr |-> table[k].offset, addend |-> table[k].addend]
                ELSE garbage) \in Relocs
  <2>1. k \in 1 .. Len(table)
    BY <1>1, <1>2
  <2>2. table[k].offset \in Nat /\ table[k].addend \in Nat
    BY <1>4, <2>1 DEF RelocEntry
  <2> QED BY <1>3, <2>2 DEF Relocs
<1>7. Output(table, garbage) \in [1 .. n -> Relocs]
  BY <1>5, <1>6
<1> QED BY <1>2, <1>7

LEMMA AlignmentIsPositive ==
  ASSUME segments \in Seq(Segs), segments # <<>>, 0 \notin Alignments
  PROVE  FoldLeft(Times, GCD, [k \in DOMAIN segments |-> segments[k].align \div GCD])
           \in Nat \ {0}
<1> DEFINE n == Len(segments)
           g == [k \in 1 .. n |-> segments[k].align]
<1>1. n \in Nat /\ n # 0 /\ DOMAIN segments = 1 .. n
  OBVIOUS
<1>2. \A k \in 1 .. n : segments[k].align \in Nat \ {0}
  <2>1. ASSUME NEW k \in 1 .. n PROVE segments[k].align \in Nat \ {0}
    <3>1. segments[k] \in Segs /\ segments[k].align \in Alignments
      BY <1>1 DEF Alignments
    <3>2. segments[k].align \in Nat
      BY <3>1, SegmentFields
    <3> QED BY <3>1, <3>2
  <2> QED BY <2>1
<1>3. Alignments = {g[k] : k \in 1 .. n} /\ \A k \in 1 .. n : g[k] \in Nat \ {0}
  BY <1>1, <1>2 DEF Alignments
<1>4. \A k \in DOMAIN segments : segments[k].align = g[k]
  BY <1>1
<1> HIDE DEF n, g
<1>5. PICK N \in Nat : \A k \in 1 .. n : g[k] <= N
  <2>1. \A k \in 1 .. n : g[k] \in Nat
    BY <1>3
  <2> QED BY <1>1, <2>1, Bounded
<1>6. Alignments \in SUBSET (1 .. N) /\ Alignments # {}
  <2>1. 1 \in 1 .. n
    BY <1>1
  <2>2. \A k \in 1 .. n : g[k] \in 1 .. N
    BY <1>3, <1>5
  <2> QED BY <1>3, <2>1, <2>2
<1> DEFINE M == Max(Alignments)
           D == {d \in 1 .. M : \A a \in Alignments : a % d = 0}
<1>7. M \in 1 .. N
  BY <1>6, Greatest
<1> HIDE DEF M
<1>8. 1 \in D
  <2>1. \A a \in Alignments : a % 1 = 0
    <3>1. \A a \in Nat : a % 1 = 0
      OBVIOUS
    <3> QED BY <1>6, <3>1
  <2> QED BY <1>7, <2>1
<1>9. Max(D) \in D
  <2>1. M \in Nat /\ D \in SUBSET (1 .. M)
    BY <1>7
  <2> HIDE DEF D
  <2> QED BY <1>8, <2>1, Greatest
<1>10. GCD = Max(D)
  BY DEF GCD, M
<1>11. GCD \in Nat \ {0} /\ \A a \in Alignments : a % GCD = 0
  BY <1>7, <1>9, <1>10
<1> HIDE DEF D
<1> DEFINE q == [k \in DOMAIN segments |-> segments[k].align \div GCD]
<1>12. \A k \in 1 .. n : g[k] \div GCD \in Nat \ {0}
  BY <1>3, <1>11, QuotientIsPositive
<1>13. q \in Seq(Nat \ {0})
  <2>1. q \in [1 .. n -> Nat \ {0}]
    BY <1>1, <1>4, <1>12
  <2> QED BY <1>1, <2>1
<1> HIDE DEF q
<1>14. FoldLeft(Times, GCD, q) \in Nat \ {0}
  BY <1>11, <1>13, PositiveProduct
<1> QED BY <1>14 DEF q

LEMMA UpIsNatural ==
  ASSUME NEW x \in Nat, NEW a \in Nat \ {0}
  PROVE  AlignUp(x, a) \in Nat /\ x <= AlignUp(x, a)
<1>1. AlignUp(x, a) \in Int /\ x <= AlignUp(x, a)
  <2>1. x \in Int
    OBVIOUS
  <2> QED BY <2>1, Up
<1> QED BY <1>1

LEMMA HeaderSizeIsNatural ==
  ASSUME ConverterAssumption, NEW n \in Nat
  PROVE  HeaderSize(n) \in Nat
<1>1. SectionHeaderBytes * n \in Nat /\ HeaderBytes \in Nat
  BY Constants
<1> DEFINE m == SectionHeaderBytes * n
<1>2. m \in Nat
  BY <1>1
<1> HIDE DEF m
<1>3. HeaderBytes + m \in Nat
  BY <1>1, <1>2
<1> QED BY <1>3 DEF HeaderSize, m

LEMMA RelocSizeIsNatural ==
  ASSUME ConverterAssumption, blocks \in Seq(Blocks)
  PROVE  RelocSize \in Nat
<1> DEFINE s == [k \in DOMAIN blocks |-> BlockBytes + EntryBytes * Len(blocks[k].offsets)]
<1>1. ASSUME NEW k \in DOMAIN blocks
      PROVE  BlockBytes + EntryBytes * Len(blocks[k].offsets) \in Nat
  <2>1. blocks[k] \in Blocks
    BY <1>1
  <2>2. Len(blocks[k].offsets) \in Nat
    BY <2>1 DEF Blocks
  <2>3. BlockBytes \in Nat /\ EntryBytes \in Nat
    BY Constants
  <2> DEFINE m == EntryBytes * Len(blocks[k].offsets)
  <2>4. m \in Nat
    BY <2>2, <2>3
  <2> HIDE DEF m
  <2>5. BlockBytes + m \in Nat
    BY <2>3, <2>4
  <2> QED BY <2>5 DEF m
<1>2. s \in [1 .. Len(blocks) -> Nat] /\ Len(blocks) \in Nat
  BY <1>1
<1> HIDE DEF s
<1>3. s \in Seq(Nat)
  BY <1>2, SMTT(30)
<1>4. FoldLeft(Plus, 0, s) \in Nat
  BY <1>3, SumIsNatural
<1> QED BY <1>4 DEF RelocSize, s

\* layout_pe_file(): every section begins where the one before ends.
LEMMA SectionSizes ==
  ASSUME ConverterAssumption, segments \in Seq(Segs)
  PROVE  \A k \in DOMAIN segments : LayoutSize(k) \in Nat /\ segments[k].filesize \in Nat
                                    /\ segments[k].filesize <= LayoutSize(k)
<1> SUFFICES ASSUME NEW k \in DOMAIN segments
             PROVE  LayoutSize(k) \in Nat /\ segments[k].filesize \in Nat
                    /\ segments[k].filesize <= LayoutSize(k)
  OBVIOUS
<1>1. segments[k] \in Segs
  OBVIOUS
<1>2. segments[k].filesize \in Nat
  BY <1>1, SegmentFields
<1>3. FileAlignment \in Nat \ {0}
  BY Constants
<1> QED BY <1>2, <1>3, UpIsNatural DEF LayoutSize

LEMMA HeadersFit ==
  ASSUME ConverterAssumption, segments \in Seq(Segs)
  PROVE  /\ SectionNum \in Nat /\ HeaderSize(SectionNum) \in Nat /\ SizeOfHeaders \in Nat
         /\ HeaderSize(SectionNum) <= SizeOfHeaders
<1>1. SectionNum \in Nat
  BY DEF SectionNum
<1>2. HeaderSize(SectionNum) \in Nat /\ FileAlignment \in Nat \ {0}
  BY <1>1, HeaderSizeIsNatural, Constants
<1> QED BY <1>1, <1>2, UpIsNatural DEF SizeOfHeaders

LEMMA Offsets ==
  ASSUME ConverterAssumption, segments \in Seq(Segs)
  PROVE  /\ LayoutOffset(1) = SizeOfHeaders
         /\ \A k \in 1 .. Len(segments) + 1 : LayoutOffset(k) \in Nat
         /\ \A k \in 1 .. Len(segments) :
              LayoutOffset(k + 1) = LayoutOffset(k) + LayoutSize(k)
<1> DEFINE n == Len(segments)
           sizes(k) == [j \in 1 .. k - 1 |-> LayoutSize(j)]
<1>0. n \in Nat /\ DOMAIN segments = 1 .. n
  OBVIOUS
<1>1. SizeOfHeaders \in Nat
  BY HeadersFit
<1>2. \A j \in 1 .. n : LayoutSize(j) \in Nat
  BY <1>0, SectionSizes
<1>3. ASSUME NEW k \in 1 .. n + 1 PROVE sizes(k) \in Seq(Nat)
  <2>1. k - 1 \in Nat /\ 1 .. k - 1 \subseteq 1 .. n
    BY <1>0
  <2>2. sizes(k) \in [1 .. k - 1 -> Nat]
    BY <1>2, <2>1
  <2> QED BY <2>1, <2>2
<1>4. \A k : LayoutOffset(k) = FoldLeft(Plus, SizeOfHeaders, sizes(k))
  BY DEF LayoutOffset
<1>5. sizes(1) = << >>
  OBVIOUS
<1>6. ASSUME NEW k \in 1 .. n PROVE sizes(k + 1) = Append(sizes(k), LayoutSize(k))
  <2>1. k + 1 - 1 = k /\ k - 1 \in Nat /\ k - 1 + 1 = k
    BY <1>0
  <2>2. sizes(k + 1) = [j \in 1 .. k |-> LayoutSize(j)]
    BY <2>1
  <2>3. Len(sizes(k)) = k - 1 /\ DOMAIN sizes(k) = 1 .. k - 1
    BY <2>1
  <2>4. Append(sizes(k), LayoutSize(k)) =
          [j \in 1 .. k |-> IF j = k THEN LayoutSize(k) ELSE sizes(k)[j]]
    BY <2>1, <2>3
  <2>5. \A j \in 1 .. k : j # k => j \in 1 .. k - 1 /\ sizes(k)[j] = LayoutSize(j)
    BY <1>0
  <2> HIDE DEF sizes
  <2> QED BY <2>2, <2>4, <2>5
<1> HIDE DEF n, sizes
<1>7. LayoutOffset(1) = SizeOfHeaders
  BY <1>4, <1>5, SumOfNone
<1>8. \A k \in 1 .. n + 1 : LayoutOffset(k) \in Nat
  BY <1>1, <1>3, <1>4, SumIsNatural
<1>9. ASSUME NEW k \in 1 .. n PROVE LayoutOffset(k + 1) = LayoutOffset(k) + LayoutSize(k)
  <2>1. sizes(k) \in Seq(Nat)
    <3>1. k \in 1 .. n + 1
      BY <1>0
    <3> QED BY <1>3, <3>1
  <2>2. FoldLeft(Plus, SizeOfHeaders, Append(sizes(k), LayoutSize(k))) =
          FoldLeft(Plus, SizeOfHeaders, sizes(k)) + LayoutSize(k)
    BY <1>1, <1>2, <2>1, SumStep
  <2> QED BY <1>4, <1>6, <2>2
<1> QED BY <1>7, <1>8, <1>9 DEF n

-----------------------------------------------------------------------------
(***************************************************************************)
(* Types.                                                                  *)
(***************************************************************************)
LEMMA NotEmpty ==
  ASSUME ConverterAssumption, elf \in Files, SegmentsMade,
         pc \notin Stopped \cup {"segments"}
  PROVE  segments # <<>>
<1>1. PICK f : Made(f)
  BY DEF SegmentsMade
<1>2. PICK n \in LoadAt : TRUE
  BY FileFields DEF LoadAt
<1>3. \E k \in DOMAIN segments : f[k] = n
  BY <1>1, <1>2 DEF Made, Seen
<1> QED BY <1>3

LEMMA ExitKeepsTypes ==
  ASSUME TypeInv, pc' \in Stopped,
         UNCHANGED <<elf, i, segments, dynamic, relocs, alignment, shift, blocks, file>>
  PROVE  TypeInv'
BY DEF TypeInv, Location, Moved, Stopped

LEMMA LoadKeepsTypes ==
  ASSUME ConverterAssumption, TypeInv, LoadSegment
  PROVE  TypeInv'
<1> DEFINE p == elf.phdrs[i]
<1>0. pc = "segments" /\ i \in 1 .. Len(elf.phdrs)
  <2>1. elf \in Files /\ i \in Nat \ {0}
    BY VariablesTyped
  <2>2. elf.phdrs \in Seq(ProgramHeader)
    BY <2>1, FileFields
  <2>3. Len(elf.phdrs) \in Nat
    BY <2>2, Elements
  <2> QED BY <2>1, <2>3 DEF LoadSegment
<1>1. p \in ProgramHeader /\ elf \in Files /\ i \in DOMAIN elf.phdrs
  <2>1. elf \in Files
    BY VariablesTyped
  <2>2. elf.phdrs \in Seq(ProgramHeader)
    BY <2>1, FileFields
  <2> QED BY <1>0, <2>1, <2>2, Elements
<1>2. CASE Exit
  BY <1>2, ExitKeepsTypes DEF Exit, Stopped
<1>3. CASE ~Exit
  <2>1. /\ segments' = IF p.type = "load" THEN Append(segments, Segment(p)) ELSE segments
        /\ dynamic' = IF p.type = "dynamic"
                        THEN [filesize |-> p.filesz, memsize |-> p.memsz]
                        ELSE dynamic
        /\ i' = i + 1
        /\ UNCHANGED <<pc, elf, relocs, alignment, shift, blocks, image, file>>
    BY <1>3 DEF LoadSegment
  <2>2. Segment(p) \in Segs
    BY <1>1, SegmentIsTyped
  <2> HIDE DEF p
  <2>3. segments' \in Seq(Segs)
    BY <2>1, <2>2 DEF TypeInv
  <2>4. dynamic' \in [filesize : Nat, memsize : Nat]
        /\ dynamic'.memsize <= WordBytes * Len(elf'.dyn)
    <3>1. CASE p.type = "dynamic"
      <4>1. p.memsz <= WordBytes * Len(elf.dyn)
        BY <1>1, <3>1, FileFields DEF p
      <4>2. p.filesz \in Nat /\ p.memsz \in Nat
        BY <1>1 DEF ProgramHeader
      <4> QED BY <2>1, <3>1, <4>1, <4>2
    <3>2. CASE p.type # "dynamic"
      BY <2>1, <3>2 DEF TypeInv
    <3> QED BY <3>1, <3>2
  <2>5. i' \in Nat \ {0}
    BY <2>1 DEF TypeInv
  <2> QED BY <1>0, <2>1, <2>3, <2>4, <2>5 DEF TypeInv, Moved
<1> QED BY <1>2, <1>3

LEMMA SortKeepsTypes ==
  ASSUME ConverterAssumption, TypeInv, SortSegments
  PROVE  TypeInv'
<1>1. CASE Exit
  BY <1>1, ExitKeepsTypes DEF Exit, Stopped
<1>2. CASE ~Exit
  <2>1. /\ pc' = "rela" /\ segments' \in SortedByAddress(segments)
        /\ UNCHANGED <<elf, i, dynamic, relocs, alignment, shift, blocks, image, file>>
    BY <1>2 DEF SortSegments
  <2>2. segments' \in Seq(Segs)
    BY <2>1, Sorting DEF TypeInv
  <2> QED BY <2>1, <2>2 DEF TypeInv, Location, Moved
<1> QED BY <1>1, <1>2

\* What load_rela_relocs() and load_rel_relocs() read is a table of relocations.
LEMMA OutputsAreTyped ==
  ASSUME ConverterAssumption, TypeInv, NEW tag, NEW sizeTag, NEW bytes \in Nat \ {0},
         NEW entries \in Seq(RelocEntry), NEW at,
         ~Refuses(tag, sizeTag, bytes, TableAt(tag, sizeTag, bytes, entries, at))
  PROVE  Outputs(tag, TableAt(tag, sizeTag, bytes, entries, at)) \subseteq Seq(Relocs)
<1> DEFINE table == TableAt(tag, sizeTag, bytes, entries, at)
<1>1. CASE Missed(tag)
  BY <1>1 DEF Outputs
<1>2. CASE ~Missed(tag)
  <2>1. Lookup(sizeTag) \in Nat
    <3>1. ~(Lookup(sizeTag) < 0)
      BY <1>2 DEF Refuses
    <3>2. Lookup(sizeTag) \in Nat \cup {-1, -2}
      BY LookupIsTyped DEF TypeInv, Missing, Refused
    <3> QED BY <3>1, <3>2
  <2>2. Lookup(sizeTag) \div bytes \in Nat
    BY <2>1, NaturalDivision
  <2>3. table \in Seq(RelocEntry)
    BY <2>2, TableIsTyped DEF TableAt
  <2> HIDE DEF table
  <2>4. \A garbage \in Uninitialized : Output(table, garbage) \in Seq(Relocs)
    BY <2>3, OutputIsTyped
  <2>5. Outputs(tag, table) \subseteq Seq(Relocs)
    BY <1>2, <2>4 DEF Outputs
  <2> QED BY <2>5 DEF table
<1> QED BY <1>1, <1>2

LEMMA LoadRelaKeepsTypes ==
  ASSUME ConverterAssumption, TypeInv, LoadRela
  PROVE  TypeInv'
<1> DEFINE table == TableAt(DT_RELA, DT_RELASZ, RelaBytes, elf.rela, elf.relaAt)
<1>1. CASE Exit
  BY <1>1, ExitKeepsTypes DEF Exit, Stopped
<1>2. CASE ~Exit
  <2>1. /\ ~Refuses(DT_RELA, DT_RELASZ, RelaBytes, table)
        /\ relocs' \in Outputs(DT_RELA, table) /\ pc' = "rel"
        /\ UNCHANGED <<elf, i, segments, dynamic, alignment, shift, blocks, image, file>>
    BY <1>2 DEF LoadRela
  <2>2. RelaBytes \in Nat \ {0} /\ elf.rela \in Seq(RelocEntry)
    BY Constants, FileFields DEF TypeInv
  <2>3. Outputs(DT_RELA, table) \subseteq Seq(Relocs)
    BY <2>1, <2>2, OutputsAreTyped
  <2> HIDE DEF table
  <2>4. relocs' \in Seq(Relocs)
    BY <2>1, <2>3
  <2> QED BY <2>1, <2>4 DEF TypeInv, Location, Moved
<1> QED BY <1>1, <1>2

LEMMA LoadRelKeepsTypes ==
  ASSUME ConverterAssumption, TypeInv, LoadRel
  PROVE  TypeInv'
<1> DEFINE table == TableAt(DT_REL, DT_RELSZ, RelBytes, elf.rel, elf.relAt)
<1>1. CASE Exit
  BY <1>1, ExitKeepsTypes DEF Exit, Stopped
<1>2. CASE ~Exit
  <2>1. /\ ~Refuses(DT_REL, DT_RELSZ, RelBytes, table)
        /\ \E output \in Outputs(DT_REL, table) :
             relocs' \in SortedByAddress(relocs \o output)
        /\ pc' = "alignment"
        /\ UNCHANGED <<elf, i, segments, dynamic, alignment, shift, blocks, image, file>>
    BY <1>2 DEF LoadRel
  <2>2. RelBytes \in Nat \ {0} /\ elf.rel \in Seq(RelocEntry)
    BY Constants, FileFields DEF TypeInv
  <2>3. Outputs(DT_REL, table) \subseteq Seq(Relocs)
    BY <2>1, <2>2, OutputsAreTyped
  <2> HIDE DEF table
  <2>4. PICK output \in Seq(Relocs) : relocs' \in SortedByAddress(relocs \o output)
    BY <2>1, <2>3
  <2>5. relocs \o output \in Seq(Relocs)
    BY DEF TypeInv
  <2>6. relocs' \in Seq(Relocs)
    BY <2>4, <2>5, Sorting
  <2> QED BY <2>1, <2>6 DEF TypeInv, Location, Moved
<1> QED BY <1>1, <1>2

LEMMA AlignmentKeepsTypes ==
  ASSUME ConverterAssumption, TypeInv, SegmentsMade, ComputeAlignment
  PROVE  TypeInv'
<1>1. CASE 0 \in Alignments
  BY <1>1, ExitKeepsTypes DEF ComputeAlignment, Stopped
<1>2. CASE 0 \notin Alignments
  <2>1. segments # <<>>
    BY NotEmpty DEF ComputeAlignment, TypeInv, Stopped
  <2>2. alignment' \in Nat \ {0}
    BY <1>2, <2>1, AlignmentIsPositive DEF ComputeAlignment, TypeInv
  <2>3. \A k \in DOMAIN segments : segments[k].align # 0
    BY <1>2 DEF Alignments
  <2> QED BY <1>2, <2>2, <2>3 DEF ComputeAlignment, TypeInv, Location, Moved
<1> QED BY <1>1, <1>2

LEMMA ShiftKeepsTypes ==
  ASSUME ConverterAssumption, TypeInv, ChooseShift
  PROVE  TypeInv'
<1>1. Len(segments) + 1 \in Nat /\ alignment \in Nat \ {0}
  BY DEF TypeInv, ChooseShift
<1>2. HeaderSize(Len(segments) + 1) \in Nat
  BY <1>1, HeaderSizeIsNatural
<1>3. AlignUp(HeaderSize(Len(segments) + 1), alignment) \in Nat
  BY <1>1, <1>2, UpIsNatural
<1>4. shift' \in Nat
  BY <1>3 DEF ChooseShift, HeaderShift
<1> QED BY <1>4 DEF ChooseShift, TypeInv, Location, Moved

LEMMA RelocateKeepsTypes ==
  ASSUME ConverterAssumption, TypeInv, RelocateSegment
  PROVE  TypeInv'
<1>1. /\ i \in DOMAIN segments /\ segments' = [segments EXCEPT ![i] = Relocated(segments[i])]
      /\ i' = i + 1 /\ i' \in Nat \ {0} /\ pc = "relocate"
      /\ UNCHANGED <<pc, elf, dynamic, relocs, alignment, shift, blocks, image, file>>
  BY VariablesTyped, SMTT(30) DEF RelocateSegment
<1>2. segments[i] \in Segs /\ segments[i].align # 0 /\ shift \in Nat
  <2>1. segments[i].align # 0
    BY <1>1 DEF TypeInv
  <2> QED BY <1>1, <2>1, VariablesTyped
<1>3. Relocated(segments[i]) \in Segs /\ Relocated(segments[i]).align = segments[i].align
  BY <1>2, RelocatedFields
<1>4. segments' \in Seq(Segs) /\ DOMAIN segments' = DOMAIN segments
  BY <1>1, <1>3, SMTT(30) DEF TypeInv
<1>5. \A k \in DOMAIN segments : segments'[k].align # 0
  BY <1>1, <1>2, <1>3 DEF TypeInv
<1> QED BY <1>1, <1>4, <1>5 DEF TypeInv

LEMMA RelocateRelocsKeepsTypes ==
  ASSUME ConverterAssumption, TypeInv, RelocateRelocs
  PROVE  TypeInv'
<1>1. ASSUME NEW k \in DOMAIN relocs
      PROVE  [vaddr |-> relocs[k].vaddr + BaseAddress + shift,
              addend |-> relocs[k].addend + BaseAddress + shift] \in Relocs
  <2>1. relocs[k] \in Relocs /\ shift \in Nat /\ BaseAddress \in Nat
    BY Constants, VariablesTyped
  <2> QED BY <2>1 DEF Relocs
<1>2. relocs' \in [1 .. Len(relocs) -> Relocs] /\ Len(relocs) \in Nat
  <2>1. relocs \in Seq(Relocs)
    BY DEF TypeInv
  <2>2. DOMAIN relocs = 1 .. Len(relocs) /\ Len(relocs) \in Nat
    BY <2>1
  <2>3. relocs' = [k \in DOMAIN relocs |->
                     [vaddr |-> relocs[k].vaddr + BaseAddress + shift,
                      addend |-> relocs[k].addend + BaseAddress + shift]]
    BY DEF RelocateRelocs
  <2> QED BY <1>1, <2>2, <2>3
<1>3. relocs' \in Seq(Relocs)
  BY <1>2
<1> QED BY <1>3 DEF RelocateRelocs, TypeInv, Location, Moved

\* The segment that data_at_vaddr() finds.
LEMMA Found ==
  ASSUME segments \in Seq(Segs), NEW vaddr \in Nat, Holding(vaddr) # {}
  PROVE  /\ Min(Holding(vaddr)) \in DOMAIN segments
         /\ segments[Min(Holding(vaddr))] \in Segs
         /\ Holds(segments[Min(Holding(vaddr))], vaddr)
<1>1. Holding(vaddr) \in SUBSET Nat
  BY DEF Holding
<1>2. Min(Holding(vaddr)) \in Holding(vaddr)
  BY <1>1, Least
<1> QED BY <1>2 DEF Holding

LEMMA ApplyKeepsTypes ==
  ASSUME ConverterAssumption, TypeInv, ApplyReloc
  PROVE  TypeInv'
<1> DEFINE k == Min(Holding(relocs[i].vaddr))
<1>1. CASE Exit
  BY <1>1, ExitKeepsTypes DEF Exit, Stopped
<1>2. CASE ~Exit
  <2>1. /\ Holding(relocs[i].vaddr) # {} /\ pc = "apply"
        /\ segments' = [segments EXCEPT ![k] = Patched(segments[k], relocs[i])]
        /\ i' = i + 1
        /\ UNCHANGED <<pc, elf, dynamic, relocs, alignment, shift, blocks, image, file>>
    BY <1>2 DEF ApplyReloc
  <2>2. relocs[i] \in Relocs /\ i' \in Nat \ {0}
    BY <2>1, SMTT(30) DEF ApplyReloc, TypeInv
  <2>3. relocs[i].vaddr \in Nat
    BY <2>2 DEF Relocs
  <2>4. k \in DOMAIN segments /\ segments[k] \in Segs /\ segments[k].vaddr <= relocs[i].vaddr
    BY <2>1, <2>3, Found DEF TypeInv, Holds
  <2> HIDE DEF k
  <2>5. Patched(segments[k], relocs[i]) \in Segs
        /\ Patched(segments[k], relocs[i]).align = segments[k].align
    BY <2>2, <2>4, PatchedFields
  <2>6. segments' \in Seq(Segs) /\ DOMAIN segments' = DOMAIN segments
    <3>1. PICK s : s = Patched(segments[k], relocs[i])
      OBVIOUS
    <3>2. s \in Segs /\ segments' = [segments EXCEPT ![k] = s] /\ segments \in Seq(Segs)
      BY <2>1, <2>5, <3>1 DEF TypeInv
    <3> QED BY <2>4, <3>2
  <2>7. \A n \in DOMAIN segments : segments'[n].align # 0
    BY <2>1, <2>4, <2>5 DEF TypeInv, Moved
  <2> QED BY <2>1, <2>2, <2>6, <2>7 DEF TypeInv
<1> QED BY <1>1, <1>2

LEMMA CreateBlockKeepsTypes ==
  ASSUME ConverterAssumption, TypeInv, CreateBlock
  PROVE  TypeInv'
<1> DEFINE page == AlignDown(relocs[i].vaddr, PageBytes)
           offset == relocs[i].vaddr - page
           last == Len(blocks)
<1>1. /\ blocks' = IF blocks = <<>> \/ page - BaseAddress > blocks[last].rva
                     THEN Append(blocks, [rva |-> page - BaseAddress, offsets |-> <<offset>>])
                     ELSE [blocks EXCEPT ![last].offsets = Append(blocks[last].offsets, offset)]
      /\ i' = i + 1 /\ pc = "blocks"
      /\ UNCHANGED <<pc, elf, segments, dynamic, relocs, alignment, shift, image, file>>
  BY DEF CreateBlock
<1>2. relocs[i].vaddr \in Nat /\ PageBytes \in Nat \ {0} /\ BaseAddress \in Nat
      /\ i' \in Nat \ {0}
  <2>1. i \in Nat \ {0} /\ i <= Len(relocs) /\ relocs \in Seq(Relocs)
    BY DEF CreateBlock, TypeInv
  <2>2. relocs[i] \in Relocs /\ i + 1 \in Nat \ {0}
    BY <2>1
  <2>3. relocs[i].vaddr \in Nat
    BY <2>2 DEF Relocs
  <2>4. PageBytes \in Nat \ {0} /\ BaseAddress \in Nat
    BY Constants
  <2> QED BY <1>1, <2>2, <2>3, <2>4
<1>3. page \in Int /\ offset \in Nat
  <2>1. page \in Int /\ page <= relocs[i].vaddr
    <3>1. relocs[i].vaddr \in Int
      BY <1>2
    <3> QED BY <1>2, <3>1, Down
  <2> HIDE DEF page
  <2> QED BY <1>2, <2>1
<1> HIDE DEF page, offset
<1>4. blocks' \in Seq(Blocks)
  <2>1. CASE blocks = <<>> \/ page - BaseAddress > blocks[last].rva
    <3>1. [rva |-> page - BaseAddress, offsets |-> <<offset>>] \in Blocks
      <4>1. <<offset>> \in Seq(Nat) /\ page - BaseAddress \in Int
        BY <1>2, <1>3
      <4> QED BY <4>1 DEF Blocks
    <3> QED BY <1>1, <2>1, <3>1 DEF TypeInv
  <2>2. CASE ~(blocks = <<>> \/ page - BaseAddress > blocks[last].rva)
    <3>1. blocks \in Seq(Blocks) /\ last \in DOMAIN blocks /\ blocks[last] \in Blocks
      BY <2>2, SMTT(30) DEF TypeInv
    <3>2. Append(blocks[last].offsets, offset) \in Seq(Nat)
      BY <1>3, <3>1 DEF Blocks
    <3>3. [blocks[last] EXCEPT !.offsets = Append(blocks[last].offsets, offset)] \in Blocks
      BY <3>1, <3>2 DEF Blocks
    <3>4. blocks' = [blocks EXCEPT ![last] =
                       [blocks[last] EXCEPT !.offsets = Append(blocks[last].offsets, offset)]]
      BY <1>1, <2>2
    <3> HIDE DEF last
    <3> QED BY <3>1, <3>3, <3>4
  <2> QED BY <2>1, <2>2
<1> QED BY <1>1, <1>2, <1>4 DEF TypeInv

LEMMA HeadersKeepTypes ==
  ASSUME ConverterAssumption, TypeInv, WriteHeaders
  PROVE  TypeInv'
<1>1. CASE Exit
  BY <1>1, ExitKeepsTypes DEF Exit, Stopped
<1>2. CASE ~Exit
  <2> DEFINE size == HeaderSize(SectionNum)
             rest == SizeOfHeaders - size
             a == [k \in 1 .. size |-> HeaderByte(k)]
             b == Padding(rest)
  <2>1. /\ file' = a \o b /\ pc = "headers" /\ pc' = "sections" /\ i' = 1
        /\ UNCHANGED <<elf, segments, dynamic, relocs, alignment, shift, blocks>>
    BY <1>2 DEF WriteHeaders
  <2>2. size \in Nat /\ rest \in Nat
    <3>1. size \in Nat /\ SizeOfHeaders \in Nat /\ size <= SizeOfHeaders
      BY HeadersFit DEF TypeInv
    <3> HIDE DEF size
    <3> QED BY <3>1
  <2> HIDE DEF size, rest
  <2>3. a \in Seq(Byte)
    <3>1. \A k \in 1 .. size : HeaderByte(k) \in Byte
      BY <2>2 DEF HeaderByte, Byte
    <3> QED BY <2>2, <3>1
  <2>4. b \in Seq(Byte)
    BY <2>2 DEF Padding, Zero, Byte
  <2> HIDE DEF a, b
  <2>5. file' \in Seq(Byte)
    BY <2>1, <2>3, <2>4
  <2> QED BY <2>1, <2>5 DEF TypeInv, Location, Moved
<1> QED BY <1>1, <1>2

\* write_chunk(), and write_padding().
LEMMA ChunkIsTyped ==
  ASSUME NEW s \in Segs
  PROVE  Chunk(s) \in Seq(Byte) /\ Len(Chunk(s)) = s.filesize /\ s.filesize \in Nat
<1>1. s.filesize \in Nat /\ s.data \in [0 .. s.memsize - 1 -> Byte]
  BY SegmentFields
<1>2. \A k \in 1 .. s.filesize :
        (IF k - 1 \in DOMAIN s.data THEN s.data[k - 1] ELSE Garbage) \in Byte
  BY <1>1 DEF Byte
<1>3. Chunk(s) \in [1 .. s.filesize -> Byte]
  BY <1>2 DEF Chunk
<1> QED BY <1>1, <1>3

LEMMA PaddingIsTyped ==
  ASSUME NEW n \in Nat
  PROVE  Padding(n) \in Seq(Byte) /\ Len(Padding(n)) = n
BY DEF Padding, Zero, Byte

LEMMA WriteSectionKeepsTypes ==
  ASSUME ConverterAssumption, TypeInv, WriteSection
  PROVE  TypeInv'
<1> DEFINE a == Chunk(segments[i])
           rest == LayoutSize(i) - segments[i].filesize
           b == Padding(rest)
<1>1. /\ file' = file \o a \o b /\ i' = i + 1 /\ pc = "sections"
      /\ UNCHANGED <<pc, elf, segments, dynamic, relocs, alignment, shift, blocks, image>>
  BY DEF WriteSection
<1>2. i \in DOMAIN segments /\ segments[i] \in Segs
  <2>1. i \in Nat \ {0} /\ i <= Len(segments) /\ segments \in Seq(Segs)
    BY DEF WriteSection, TypeInv
  <2> QED BY <2>1
<1>3. rest \in Nat
  <2>1. LayoutSize(i) \in Nat /\ segments[i].filesize \in Nat
        /\ segments[i].filesize <= LayoutSize(i)
    BY <1>2, SectionSizes DEF TypeInv
  <2> QED BY <2>1
<1> HIDE DEF rest
<1>4. a \in Seq(Byte) /\ b \in Seq(Byte)
  BY <1>2, <1>3, ChunkIsTyped, PaddingIsTyped
<1> HIDE DEF a, b
<1>5. file' \in Seq(Byte)
  BY <1>1, <1>4 DEF TypeInv
<1> QED BY <1>1, <1>5 DEF TypeInv

LEMMA WriteRelocKeepsTypes ==
  ASSUME ConverterAssumption, TypeInv, WriteReloc
  PROVE  TypeInv'
<1> DEFINE a == [k \in 1 .. RelocSize |-> RelocByte(k)]
           rest == RelocHeader.rawSize - RelocSize
           b == Padding(rest)
<1>1. /\ file' = IF relocs = <<>> THEN file ELSE file \o a \o b
      /\ pc = "sections" /\ pc' = "done"
      /\ UNCHANGED <<elf, i, segments, dynamic, relocs, alignment, shift, blocks, image>>
  BY DEF WriteReloc
<1>2. RelocSize \in Nat
  BY RelocSizeIsNatural DEF TypeInv
<1>3. rest \in Nat
  <2>1. FileAlignment \in Nat \ {0}
    BY Constants
  <2>2. AlignUp(RelocSize, FileAlignment) \in Nat
        /\ RelocSize <= AlignUp(RelocSize, FileAlignment)
    BY <1>2, <2>1, UpIsNatural
  <2>3. RelocHeader.rawSize = AlignUp(RelocSize, FileAlignment)
    BY DEF RelocHeader
  <2> QED BY <1>2, <2>2, <2>3
<1> HIDE DEF rest
<1>4. b \in Seq(Byte)
  BY <1>3, PaddingIsTyped
<1>5. a \in Seq(Byte)
  <2>1. \A k \in 1 .. RelocSize : RelocByte(k) \in Byte
    BY <1>2 DEF RelocByte, Byte
  <2> QED BY <1>2, <2>1
<1> HIDE DEF a, b
<1>6. file' \in Seq(Byte)
  BY <1>1, <1>4, <1>5 DEF TypeInv
<1> QED BY <1>1, <1>6 DEF TypeInv, Location, Moved

LEMMA NextKeepsTypes ==
  ASSUME ConverterAssumption, TypeInv, SegmentsMade, Next
  PROVE  TypeInv'
<1>1. CASE LoadSegment
  BY <1>1, LoadKeepsTypes
<1>2. CASE SortSegments
  BY <1>2, SortKeepsTypes
<1>3. CASE LoadRela
  BY <1>3, LoadRelaKeepsTypes
<1>4. CASE LoadRel
  BY <1>4, LoadRelKeepsTypes
<1>5. CASE ComputeAlignment
  BY <1>5, AlignmentKeepsTypes
<1>6. CASE ChooseShift
  BY <1>6, ShiftKeepsTypes
<1>7. CASE RelocateSegment
  BY <1>7, RelocateKeepsTypes
<1>8. CASE RelocateRelocs
  BY <1>8, RelocateRelocsKeepsTypes
<1>9. CASE ApplyReloc
  BY <1>9, ApplyKeepsTypes
<1>10. CASE Overrun
  BY <1>10, ExitKeepsTypes DEF Overrun, Stopped
<1>11. CASE Applied \/ BlocksCreated
  <2>1. /\ pc \in {"apply", "blocks"} /\ pc' \in {"blocks", "headers"}
        /\ i' \in Nat \ {0}
        /\ UNCHANGED <<elf, segments, dynamic, relocs, alignment, shift, blocks, file>>
    <3>1. CASE Applied
      BY <3>1 DEF Applied
    <3>2. CASE BlocksCreated
      BY <3>2 DEF BlocksCreated, TypeInv
    <3> QED BY <1>11, <3>1, <3>2
  <2>2. pc \in Moved /\ pc' \in Moved /\ pc' \in Location
    BY <2>1 DEF Moved, Location
  <2> QED BY <2>1, <2>2 DEF TypeInv
<1>12. CASE CreateBlock
  BY <1>12, CreateBlockKeepsTypes
<1>13. CASE WriteHeaders
  BY <1>13, HeadersKeepTypes
<1>14. CASE WriteSection
  BY <1>14, WriteSectionKeepsTypes
<1>15. CASE WriteReloc
  BY <1>15, WriteRelocKeepsTypes
<1>16. CASE WriteFails
  BY <1>16, ExitKeepsTypes DEF WriteFails, Exit, Stopped
<1> QED BY <1>1, <1>2, <1>3, <1>4, <1>5, <1>6, <1>7, <1>8, <1>9, <1>10, <1>11, <1>12,
           <1>13, <1>14, <1>15, <1>16 DEF Next

-----------------------------------------------------------------------------
(***************************************************************************)
(* Where the segments come from.                                           *)
(***************************************************************************)
LEMMA NextKeepsBounds ==
  ASSUME TypeInv, Bounds, Next
  PROVE  Bounds'
<1>0. /\ segments \in Seq(Segs) /\ Len(segments) \in Nat
      /\ relocs \in Seq(Relocs) /\ Len(relocs) \in Nat /\ i \in Nat \ {0}
  BY DEF TypeInv
<1>1. CASE LoadSegment
  <2>1. CASE Exit
    BY <2>1 DEF Exit, Bounds
  <2>2. CASE ~Exit
    <3>1. pc' = "segments" /\ i' = i + 1 /\ elf' = elf /\ i <= Len(elf.phdrs)
      BY <1>1, <2>2 DEF LoadSegment
    <3>2. pc = "segments" => Len(elf.phdrs) + 1 = Len(elf.phdrs) + 1
      OBVIOUS
    <3> DEFINE n == Len(elf.phdrs)
    <3>3. i' <= n + 1
      <4>1. n \in Nat
        BY ConverterAssumption, FileFields, VariablesTyped
      <4> HIDE DEF n
      <4> QED BY <1>0, <3>1, <4>1 DEF n
    <3> QED BY <3>1, <3>3 DEF Bounds
  <2> QED BY <2>1, <2>2
<1>2. CASE SortSegments \/ LoadRela \/ LoadRel \/ ComputeAlignment
  <2>1. pc' \in {"exit", "crash", "rela", "rel", "alignment", "shift"}
    BY <1>2 DEF SortSegments, LoadRela, LoadRel, ComputeAlignment, Exit
  <2> QED BY <2>1 DEF Bounds
<1>3. CASE ChooseShift
  BY <1>0, <1>3 DEF ChooseShift, Bounds
<1>4. CASE RelocateSegment
  <2>1. pc' = "relocate" /\ i <= Len(segments) /\ i' = i + 1
        /\ segments' = [segments EXCEPT ![i] = Relocated(segments[i])]
    BY <1>4 DEF RelocateSegment
  <2>2. Len(segments') = Len(segments)
    <3>1. PICK s : s = Relocated(segments[i])
      OBVIOUS
    <3>2. segments' = [segments EXCEPT ![i] = s]
      BY <2>1, <3>1
    <3> QED BY <1>0, <3>2
  <2> QED BY <1>0, <2>1, <2>2 DEF Bounds
<1>5. CASE RelocateRelocs
  <2>1. pc' = "apply" /\ i' = 1 /\ DOMAIN relocs' = DOMAIN relocs
    BY <1>5 DEF RelocateRelocs
  <2>2. Len(relocs') \in Nat
    <3>1. relocs' = [k \in 1 .. Len(relocs) |->
                       [vaddr |-> relocs[k].vaddr + BaseAddress + shift,
                        addend |-> relocs[k].addend + BaseAddress + shift]]
      BY <1>0, <1>5 DEF RelocateRelocs
    <3> QED BY <1>0, <3>1
  <2> QED BY <2>1, <2>2 DEF Bounds
<1>6. CASE ApplyReloc
  <2>1. CASE Exit
    BY <2>1 DEF Exit, Bounds
  <2>2. CASE ~Exit
    BY <1>0, <1>6, <2>2 DEF ApplyReloc, Bounds
  <2> QED BY <2>1, <2>2
<1>7. CASE Overrun \/ WriteFails
  BY <1>7 DEF Overrun, WriteFails, Exit, Bounds
<1>8. CASE Applied
  BY <1>0, <1>8 DEF Applied, Bounds
<1>9. CASE CreateBlock
  BY <1>0, <1>9 DEF CreateBlock, Bounds
<1>10. CASE BlocksCreated \/ WriteReloc
  BY <1>10 DEF BlocksCreated, WriteReloc, Bounds
<1>11. CASE WriteHeaders
  <2>1. CASE Exit
    BY <2>1 DEF Exit, Bounds
  <2>2. CASE ~Exit
    BY <1>0, <1>11, <2>2 DEF WriteHeaders, Bounds
  <2> QED BY <2>1, <2>2
<1>12. CASE WriteSection
  BY <1>0, <1>12 DEF WriteSection, Bounds
<1> QED BY <1>1, <1>2, <1>3, <1>4, <1>5, <1>6, <1>7, <1>8, <1>9, <1>10, <1>11, <1>12 DEF Next

\* The program header a segment is made from.
LEMMA Header ==
  ASSUME ConverterAssumption, TypeInv, NEW f, Made(f), NEW k \in DOMAIN segments
  PROVE  /\ f[k] \in LoadAt /\ elf.phdrs[f[k]] \in ProgramHeader
         /\ elf.phdrs[f[k]].type = "load" /\ elf.phdrs[f[k]] \in Loads
         /\ Segment(elf.phdrs[f[k]]) \in Segs
<1>1. f[k] \in LoadAt
  BY DEF Made, Seen
<1>2. elf.phdrs \in Seq(ProgramHeader)
  BY FileFields, VariablesTyped
<1>3. elf.phdrs[f[k]] \in ProgramHeader /\ elf.phdrs[f[k]].type = "load"
  BY <1>1, <1>2 DEF LoadAt
<1> QED BY <1>1, <1>3, SegmentIsTyped DEF Loads

LEMMA SameOriginal ==
  ASSUME shift' = shift, NEW p
  PROVE  Original(p)' = Original(p)
BY DEF Original, Relocated, Segment

LEMMA LoadsAt ==
  ASSUME ConverterAssumption, TypeInv
  PROVE  LoadAt \subseteq 1 .. Len(elf.phdrs) /\ Len(elf.phdrs) \in Nat
<1>1. PICK phdrs \in Seq(ProgramHeader) : phdrs = elf.phdrs
  BY FileFields, VariablesTyped
<1>2. DOMAIN phdrs = 1 .. Len(phdrs) /\ Len(phdrs) \in Nat
  OBVIOUS
<1> QED BY <1>1, <1>2 DEF LoadAt

\* Before the segments are moved.
Unmoved == {"segments", "rela", "rel", "alignment", "shift"}

UnmovedFrom(f) ==
  /\ f \in [DOMAIN segments -> Seen]
  /\ \A j, k \in DOMAIN segments : f[j] = f[k] => j = k
  /\ \A n \in Seen : \E k \in DOMAIN segments : f[k] = n
  /\ \A k \in DOMAIN segments : /\ elf.phdrs[f[k]].filesz <= elf.phdrs[f[k]].memsz
                                 /\ segments[k] = Segment(elf.phdrs[f[k]])
  /\ pc # "segments" =>
       \A j, k \in DOMAIN segments : j < k => elf.phdrs[f[j]].vaddr <= elf.phdrs[f[k]].vaddr

LEMMA UnmovedIsMade ==
  ASSUME pc \in Unmoved, NEW f
  PROVE  Made(f) <=> UnmovedFrom(f)
<1>1. pc \notin {"relocate"} \cup Moved /\ pc # "relocate" /\ pc \notin Moved
  BY DEF Unmoved, Moved
<1>2. \A k, p : MadeFrom(k, p) <=> p.filesz <= p.memsz /\ segments[k] = Segment(p)
  BY <1>1 DEF MadeFrom, Unmoved
<1> QED BY <1>1, <1>2 DEF Made, UnmovedFrom

LEMMA UnmovedIsMadeNext ==
  ASSUME pc' \in Unmoved, NEW f
  PROVE  Made(f)' <=> UnmovedFrom(f)'
<1>1. pc' \notin {"relocate"} \cup Moved /\ pc' # "relocate" /\ pc' \notin Moved
  BY DEF Unmoved, Moved
<1>2. ASSUME NEW k \in DOMAIN segments'
      PROVE  MadeFrom(k, elf.phdrs[f[k]])' <=>
               /\ elf'.phdrs[f[k]].filesz <= elf'.phdrs[f[k]].memsz
               /\ segments'[k] = Segment(elf'.phdrs[f[k]])
  BY <1>1 DEF MadeFrom, Unmoved, Segment
<1> QED BY <1>1, <1>2 DEF Made, UnmovedFrom, Segment

LEMMA LoadMakes ==
  ASSUME ConverterAssumption, TypeInv, Bounds, SegmentsMade, LoadSegment
  PROVE  SegmentsMade'
<1> DEFINE p == elf.phdrs[i]
           n == Len(segments)
<1>1. CASE Exit
  BY <1>1 DEF Exit, SegmentsMade, Stopped
<1>2. CASE ~Exit
  <2>1. /\ pc = "segments" /\ i <= Len(elf.phdrs)
        /\ p.type # "other" => Loadable(p)
        /\ segments' = IF p.type = "load" THEN Append(segments, Segment(p)) ELSE segments
        /\ i' = i + 1 /\ pc' = pc /\ elf' = elf
    BY <1>2 DEF LoadSegment
  <2>2. PICK f : Made(f)
    BY <2>1 DEF SegmentsMade, Stopped
  <2>3. /\ f \in [DOMAIN segments -> Seen]
        /\ \A j, k \in DOMAIN segments : f[j] = f[k] => j = k
        /\ \A m \in Seen : \E k \in DOMAIN segments : f[k] = m
        /\ \A k \in DOMAIN segments :
             elf.phdrs[f[k]].filesz <= elf.phdrs[f[k]].memsz
             /\ segments[k] = Segment(elf.phdrs[f[k]])
    BY <2>1, <2>2, UnmovedIsMade DEF UnmovedFrom, Unmoved
  <2>4. LoadAt' = LoadAt /\ Seen = {k \in LoadAt : k < i} /\ Seen' = {k \in LoadAt : k < i + 1}
    BY <2>1 DEF LoadAt, Seen
  <2>5. /\ i \in Nat \ {0} /\ i \in DOMAIN elf.phdrs /\ DOMAIN segments = 1 .. n /\ n \in Nat
        /\ LoadAt \subseteq Nat
    <3>1. LoadAt \subseteq Nat
      BY LoadsAt
    <3>2. i \in Nat \ {0} /\ DOMAIN segments = 1 .. n /\ n \in Nat
      BY DEF TypeInv
    <3>3. i \in DOMAIN elf.phdrs
      <4>1. elf.phdrs \in Seq(ProgramHeader)
        BY FileFields, VariablesTyped
      <4> QED BY <2>1, <3>2, <4>1
    <3> QED BY <3>1, <3>2, <3>3
  <2>6. CASE p.type = "load"
    <3>0. PICK g : g = [k \in 1 .. n + 1 |-> IF k = n + 1 THEN i ELSE f[k]]
      OBVIOUS
    <3>1. /\ DOMAIN segments' = 1 .. n + 1 /\ segments'[n + 1] = Segment(p)
          /\ \A k \in 1 .. n : segments'[k] = segments[k]
      <4>1. segments' = Append(segments, Segment(p)) /\ segments \in Seq(Segs)
        BY <2>1, <2>6 DEF TypeInv
      <4> QED BY <4>1
    <3>2. i \in LoadAt /\ Seen' = Seen \cup {i} /\ i \notin Seen
      BY <2>4, <2>5, <2>6 DEF LoadAt
    <3>3. /\ g[n + 1] = i /\ \A k \in 1 .. n : g[k] = f[k] /\ f[k] \in Seen
          /\ n + 1 \notin 1 .. n /\ 1 .. n + 1 = (1 .. n) \cup {n + 1}
      <4>1. n + 1 \notin 1 .. n /\ 1 .. n + 1 = (1 .. n) \cup {n + 1} /\ n \in Nat
            /\ DOMAIN segments = 1 .. n
        BY <2>5, SMTT(30)
      <4> HIDE DEF n
      <4>2. g[n + 1] = i
        BY <3>0, <4>1
      <4>3. \A k \in 1 .. n : g[k] = f[k] /\ f[k] \in Seen
        BY <2>3, <3>0, <4>1
      <4> QED BY <4>1, <4>2, <4>3
    <3>4. g \in [DOMAIN segments' -> Seen']
      BY <3>0, <3>1, <3>2, <3>3
    <3> HIDE DEF n, p
    <3>5. ASSUME NEW j \in DOMAIN segments', NEW k \in DOMAIN segments', g[j] = g[k]
          PROVE  j = k
      <4>1. j \in (1 .. n) \cup {n + 1} /\ k \in (1 .. n) \cup {n + 1}
        BY <3>1, <3>3
      <4>2. CASE j \in 1 .. n /\ k \in 1 .. n
        BY <2>3, <2>5, <3>3, <3>5, <4>2
      <4>3. CASE j = n + 1 \/ k = n + 1
        BY <3>2, <3>3, <3>5, <4>1, <4>3
      <4> QED BY <4>1, <4>2, <4>3
    <3>6. \A m \in Seen' : \E k \in DOMAIN segments' : g[k] = m
      BY <2>3, <2>5, <3>1, <3>2, <3>3
    <3>7. p.filesz <= p.memsz
      BY <2>1, <2>6, FileFields DEF Loadable, TypeInv, p, ProgramHeader
    <3>8. \A k \in DOMAIN segments' :
             elf.phdrs[g[k]].filesz <= elf.phdrs[g[k]].memsz
             /\ segments'[k] = Segment(elf.phdrs[g[k]])
      <4>1. ASSUME NEW k \in 1 .. n
            PROVE  elf.phdrs[g[k]].filesz <= elf.phdrs[g[k]].memsz
                   /\ segments'[k] = Segment(elf.phdrs[g[k]])
        BY <2>3, <2>5, <3>1, <3>3
      <4>2. elf.phdrs[g[n + 1]].filesz <= elf.phdrs[g[n + 1]].memsz
            /\ segments'[n + 1] = Segment(elf.phdrs[g[n + 1]])
        BY <3>1, <3>3, <3>7 DEF p
      <4> QED BY <3>1, <3>3, <4>1, <4>2
    <3>9. Made(g)'
      <4>1. UnmovedFrom(g)'
        <5>1. \A k \in DOMAIN segments' :
                /\ elf'.phdrs[g[k]].filesz <= elf'.phdrs[g[k]].memsz
                /\ segments'[k] = Segment(elf'.phdrs[g[k]])
          BY <2>1, <3>8
        <5> QED BY <2>1, <3>4, <3>5, <3>6, <5>1 DEF UnmovedFrom
      <4>2. pc' \in Unmoved
        BY <2>1 DEF Unmoved
      <4> QED BY <4>1, <4>2, UnmovedIsMadeNext
    <3> QED BY <3>9 DEF SegmentsMade
  <2>7. CASE p.type # "load"
    <3>1. segments' = segments
      BY <2>1, <2>7
    <3>2. Seen' = Seen
      BY <2>4, <2>5, <2>7, SMTT(30) DEF LoadAt
    <3>3. Made(f)'
      BY <2>1, <2>3, <3>1, <3>2, UnmovedIsMadeNext DEF UnmovedFrom, Unmoved
    <3> QED BY <3>3 DEF SegmentsMade
  <2> QED BY <2>6, <2>7
<1> QED BY <1>1, <1>2

LEMMA SortMakes ==
  ASSUME ConverterAssumption, TypeInv, Bounds, SegmentsMade, SortSegments
  PROVE  SegmentsMade'
<1>1. CASE Exit
  BY <1>1 DEF Exit, SegmentsMade, Stopped
<1>2. CASE ~Exit
  <2>1. /\ pc = "segments" /\ i > Len(elf.phdrs) /\ pc' = "rela"
        /\ segments' \in SortedByAddress(segments)
        /\ elf' = elf
    BY <1>2 DEF SortSegments
  <2>2. PICK f : Made(f)
    BY <2>1 DEF SegmentsMade, Stopped
  <2>3. /\ f \in [DOMAIN segments -> Seen]
        /\ \A j, k \in DOMAIN segments : f[j] = f[k] => j = k
        /\ \A m \in Seen : \E k \in DOMAIN segments : f[k] = m
        /\ \A k \in DOMAIN segments :
             elf.phdrs[f[k]].filesz <= elf.phdrs[f[k]].memsz
             /\ segments[k] = Segment(elf.phdrs[f[k]])
    BY <2>1, <2>2, UnmovedIsMade DEF UnmovedFrom, Unmoved
  <2>4. Seen' = Seen
    <3>1. \A k \in LoadAt : k < i
      <4>1. i \in Nat
        BY VariablesTyped
      <4> QED BY <2>1, <4>1, LoadsAt
    <3>2. Seen = LoadAt
      BY <3>1 DEF Seen
    <3>3. Seen' = LoadAt
      BY <2>1 DEF Seen, LoadAt
    <3> QED BY <3>2, <3>3
  <2>5. PICK t : Sorts(t, segments, segments')
    BY <2>1, Sorting DEF TypeInv
  <2>6. DOMAIN segments' = DOMAIN segments
    BY <2>1, Sorting DEF TypeInv
  <2>7. /\ t \in [DOMAIN segments -> DOMAIN segments]
        /\ \A j, k \in DOMAIN segments : t[j] = t[k] => j = k
        /\ \A k \in DOMAIN segments : \E j \in DOMAIN segments : t[j] = k
        /\ \A j, k \in DOMAIN segments : j < k => segments[t[j]].vaddr <= segments[t[k]].vaddr
        /\ \A k \in DOMAIN segments : segments'[k] = segments[t[k]]
    BY <2>5 DEF Sorts
  <2>0. PICK g : g = [k \in DOMAIN segments |-> f[t[k]]]
    OBVIOUS
  <2>8. g \in [DOMAIN segments' -> Seen'] /\ \A k \in DOMAIN segments : g[k] = f[t[k]]
    BY <2>0, <2>3, <2>4, <2>6, <2>7
  <2>9. \A j, k \in DOMAIN segments' : g[j] = g[k] => j = k
    BY <2>3, <2>6, <2>7, <2>8
  <2>10. \A m \in Seen' : \E k \in DOMAIN segments' : g[k] = m
    BY <2>3, <2>4, <2>6, <2>7, <2>8
  <2>11. \A k \in DOMAIN segments' :
             elf.phdrs[g[k]].filesz <= elf.phdrs[g[k]].memsz
             /\ segments'[k] = Segment(elf.phdrs[g[k]])
    BY <2>3, <2>6, <2>7, <2>8
  <2>12. \A j, k \in DOMAIN segments' :
           j < k => elf.phdrs[g[j]].vaddr <= elf.phdrs[g[k]].vaddr
    <3>1. \A k \in DOMAIN segments : segments[t[k]].vaddr = elf.phdrs[g[k]].vaddr
      BY <2>3, <2>7, <2>8 DEF Segment
    <3> QED BY <2>6, <2>7, <3>1
  <2>13. Made(g)'
    <3>1. UnmovedFrom(g)'
      <4>1. \A k \in DOMAIN segments' :
              /\ elf'.phdrs[g[k]].filesz <= elf'.phdrs[g[k]].memsz
              /\ segments'[k] = Segment(elf'.phdrs[g[k]])
        BY <2>1, <2>11
      <4>2. \A j, k \in DOMAIN segments' :
              j < k => elf'.phdrs[g[j]].vaddr <= elf'.phdrs[g[k]].vaddr
        BY <2>1, <2>12
      <4> QED BY <2>8, <2>9, <2>10, <4>1, <4>2 DEF UnmovedFrom
    <3>2. pc' \in Unmoved
      BY <2>1 DEF Unmoved
    <3> QED BY <3>1, <3>2, UnmovedIsMadeNext
  <2> QED BY <2>13 DEF SegmentsMade
<1> QED BY <1>1, <1>2

LEMMA MadeAgain ==
  ASSUME TypeInv, TypeInv', NEW f, Made(f), elf' = elf, Len(segments') = Len(segments),
         pc # "segments", pc' # "segments",
         \A k \in DOMAIN segments : MadeFrom(k, elf.phdrs[f[k]])',
         pc' \in {"relocate"} \cup Moved => ShiftFrom(f)'
  PROVE  Made(f)'
<1>1. DOMAIN segments' = DOMAIN segments
  <2>1. segments' \in Seq(Segs) /\ segments \in Seq(Segs)
    BY DEF TypeInv
  <2> QED BY <2>1
<1>2. Seen' = Seen
  BY DEF Seen, LoadAt
<1>3. \A k \in DOMAIN segments' : MadeFrom(k, elf.phdrs[f[k]])'
  BY <1>1
<1> QED BY <1>1, <1>2, <1>3 DEF Made

\* A step that leaves the segments where they are.
LEMMA MadeStays ==
  ASSUME TypeInv, TypeInv', NEW f, Made(f), UNCHANGED <<elf, segments, shift>>,
         \/ pc \in Unmoved \ {"segments"} /\ pc' \in Unmoved \ {"segments"}
         \/ pc \in Moved /\ pc' \in Moved /\ alignment' = alignment
  PROVE  Made(f)'
<1>1. CASE pc \in Unmoved \ {"segments"}
  <2>1. pc' \in Unmoved \ {"segments"}
    BY <1>1 DEF Unmoved, Moved
  <2>2. UnmovedFrom(f)
    BY <1>1, UnmovedIsMade
  <2>3. Seen' = Seen
    BY <1>1, <2>1 DEF Seen, LoadAt
  <2>4. UnmovedFrom(f)'
    BY <1>1, <2>1, <2>2, <2>3 DEF UnmovedFrom
  <2> QED BY <2>1, <2>4, UnmovedIsMadeNext
<1>2. CASE pc \in Moved
  <2>1. pc' \in Moved /\ alignment' = alignment
    BY <1>2 DEF Unmoved, Moved
  <2>2. /\ pc \notin Unmoved /\ pc # "relocate" /\ pc' \notin Unmoved /\ pc' # "relocate"
        /\ pc # "segments" /\ pc' # "segments"
    BY <1>2, <2>1 DEF Unmoved, Moved
  <2>3. ASSUME NEW k \in DOMAIN segments PROVE MadeFrom(k, elf.phdrs[f[k]])'
    <3>1. PICK p : p = elf.phdrs[f[k]]
      OBVIOUS
    <3>2. MadeFrom(k, p)
      BY <3>1 DEF Made
    <3>3. Original(p)' = Original(p)
      BY SameOriginal
    <3>4. MadeFrom(k, p)'
      BY <1>2, <2>1, <2>2, <3>2, <3>3 DEF MadeFrom, Unmoved
    <3>5. p = elf'.phdrs[f[k]]
      BY <3>1
    <3> QED BY <3>4, <3>5
  <2>4. ShiftFrom(f)'
    <3>1. ShiftFrom(f)
      BY <1>2 DEF Made
    <3> QED BY <2>1, <3>1 DEF ShiftFrom
  <2> QED BY <2>2, <2>3, <2>4, MadeAgain
<1> QED BY <1>1, <1>2

LEMMA ShiftMakes ==
  ASSUME ConverterAssumption, TypeInv, TypeInv', SegmentsMade, NEW f, Made(f), ChooseShift
  PROVE  Made(f)'
<1>1. /\ pc = "shift" /\ pc' = "relocate" /\ i' = 1
      /\ shift' = HeaderShift(HeaderSize(Len(segments) + 1))
      /\ UNCHANGED <<elf, segments, dynamic, relocs, alignment, blocks, image, file>>
  BY DEF ChooseShift
<1>2. UnmovedFrom(f)
  BY <1>1, UnmovedIsMade DEF Unmoved
<1>3. ASSUME NEW k \in DOMAIN segments PROVE MadeFrom(k, elf.phdrs[f[k]])'
  <2>1. PICK p : p = elf.phdrs[f[k]]
    OBVIOUS
  <2>2. p.filesz <= p.memsz /\ segments[k] = Segment(p) /\ k \in Nat \ {0}
    <3>1. segments \in Seq(Segs)
      BY DEF TypeInv
    <3>2. k \in Nat \ {0}
      BY <3>1
    <3> QED BY <1>2, <2>1, <3>2 DEF UnmovedFrom
  <2>3. ~(k < i')
    BY <1>1, <2>2
  <2>4. segments'[k] = Segment(p)
    BY <1>1, <2>2
  <2>5. MadeFrom(k, p)'
    BY <1>1, <2>2, <2>3, <2>4 DEF MadeFrom, Moved, Segment
  <2>6. p = elf'.phdrs[f[k]]
    BY <1>1, <2>1
  <2> QED BY <2>5, <2>6
<1>4. ShiftFrom(f)'
  <2>1. segments # <<>>
    BY <1>1, NotEmpty DEF TypeInv, Stopped
  <2>2. 1 \in DOMAIN segments
    <3>1. segments \in Seq(Segs)
      BY DEF TypeInv
    <3> QED BY <2>1, <3>1
  <2>3. segments[1].vaddr = elf.phdrs[f[1]].vaddr
    BY <1>2, <2>2 DEF UnmovedFrom, Segment
  <2> QED BY <1>1, <2>3 DEF ShiftFrom, HeaderShift
<1> QED BY <1>1, <1>3, <1>4, MadeAgain

LEMMA RelocateMakes ==
  ASSUME ConverterAssumption, TypeInv, TypeInv', NEW f, Made(f), RelocateSegment
  PROVE  Made(f)'
<1>1. /\ pc = "relocate" /\ pc' = "relocate" /\ i \in DOMAIN segments /\ i' = i + 1
      /\ segments' = [segments EXCEPT ![i] = Relocated(segments[i])]
      /\ UNCHANGED <<elf, dynamic, relocs, alignment, shift, blocks, image, file>>
  BY SMTT(30) DEF RelocateSegment, TypeInv
<1>2. Len(segments') = Len(segments)
  <2>1. segments' \in Seq(Segs) /\ segments \in Seq(Segs) /\ DOMAIN segments' = DOMAIN segments
    BY <1>1 DEF TypeInv
  <2> QED BY <2>1
<1>3. ASSUME NEW k \in DOMAIN segments PROVE MadeFrom(k, elf.phdrs[f[k]])'
  <2>1. PICK p : p = elf.phdrs[f[k]]
    OBVIOUS
  <2>2. MadeFrom(k, p)
    BY <2>1 DEF Made
  <2>3. p.filesz <= p.memsz /\ segments[k] = IF k < i THEN Original(p) ELSE Segment(p)
    BY <1>1, <2>2 DEF MadeFrom
  <2>4. Original(p)' = Original(p)
    BY <1>1, SameOriginal
  <2>5. segments'[k] = IF k < i + 1 THEN Original(p) ELSE Segment(p)
    <3>1. k \in Nat /\ i \in Nat
      BY VariablesTyped, SMTT(30)
    <3>2. CASE k = i
      BY <1>1, <2>3, <3>1, <3>2 DEF Original
    <3>3. CASE k # i
      BY <1>1, <2>3, <3>1, <3>3
    <3> QED BY <3>2, <3>3
  <2>6. MadeFrom(k, p)'
    BY <1>1, <2>3, <2>4, <2>5 DEF MadeFrom, Moved, Segment
  <2>7. p = elf'.phdrs[f[k]]
    BY <1>1, <2>1
  <2> QED BY <2>6, <2>7
<1>4. ShiftFrom(f)'
  <2>1. ShiftFrom(f)
    BY <1>1 DEF Made
  <2> QED BY <1>1, <1>2, <2>1 DEF ShiftFrom
<1> QED BY <1>1, <1>2, <1>3, <1>4, MadeAgain

\* Where a program header's segment is moved to.
LEMMA OriginalFields ==
  ASSUME ConverterAssumption, TypeInv, NEW p \in ProgramHeader, p.align # 0
  PROVE  LET at == p.vaddr + BaseAddress + shift
             offset == at - AlignDown(at, p.align)
         IN  /\ at \in Nat /\ offset \in 0 .. p.align - 1 /\ at - offset \in Nat
             /\ Original(p) \in Segs
             /\ Original(p).vaddr = at - offset
             /\ Original(p).memsize = p.memsz + offset
             /\ Original(p).filesize = p.filesz + offset
             /\ Original(p).align = p.align
             /\ \A k \in 0 .. p.memsz + offset - 1 :
                  Original(p).data[k] = IF k < offset THEN Zero ELSE Segment(p).data[k - offset]
<1>1. Segment(p) \in Segs
  BY SegmentIsTyped
<1>2. /\ Segment(p).vaddr = p.vaddr /\ Segment(p).memsize = p.memsz
      /\ Segment(p).filesize = p.filesz /\ Segment(p).align = p.align
  BY DEF Segment
<1>3. shift \in Nat
  BY VariablesTyped
<1> QED BY <1>1, <1>2, <1>3, RelocatedFields DEF Original

LEMMA RelocateRelocsMakes ==
  ASSUME ConverterAssumption, TypeInv, TypeInv', Bounds, NEW f, Made(f), RelocateRelocs
  PROVE  /\ Made(f)'
         /\ \A k \in DOMAIN segments : segments[k] = Original(elf.phdrs[f[k]])
<1>1. /\ pc = "relocate" /\ pc' = "apply" /\ i > Len(segments)
      /\ UNCHANGED <<elf, segments, dynamic, alignment, shift, blocks, image, file>>
  BY DEF RelocateRelocs
<1>2. ASSUME NEW k \in DOMAIN segments
      PROVE  segments[k] = Original(elf.phdrs[f[k]])
             /\ elf.phdrs[f[k]].filesz <= elf.phdrs[f[k]].memsz
  <2>1. MadeFrom(k, elf.phdrs[f[k]])
    BY DEF Made
  <2>2. k < i
    BY <1>1, VariablesTyped, SMTT(30)
  <2> QED BY <1>1, <2>1, <2>2 DEF MadeFrom
<1>3. ASSUME NEW k \in DOMAIN segments PROVE MadeFrom(k, elf.phdrs[f[k]])'
  <2>1. PICK p : p = elf.phdrs[f[k]]
    OBVIOUS
  <2>2. segments[k] = Original(p) /\ p.filesz <= p.memsz
    BY <1>2, <2>1
  <2>3. Original(p)' = Original(p)
    BY <1>1, SameOriginal
  <2>4. Original(p).align = p.align
    BY DEF Original, Relocated, Segment
  <2>5. MadeFrom(k, p)'
    BY <1>1, <2>2, <2>3, <2>4 DEF MadeFrom, Moved
  <2>6. p = elf'.phdrs[f[k]]
    BY <1>1, <2>1
  <2> QED BY <2>5, <2>6
<1>4. ShiftFrom(f)'
  <2>1. ShiftFrom(f)
    BY <1>1 DEF Made
  <2> QED BY <1>1, <2>1 DEF ShiftFrom
<1>5. Made(f)'
  BY <1>1, <1>3, <1>4, MadeAgain
<1> QED BY <1>2, <1>5

\* The step of ApplyReloc that changes a segment.
Applies(k) ==
  /\ pc = "apply" /\ i \in DOMAIN relocs /\ Holding(relocs[i].vaddr) # {}
  /\ k = Min(Holding(relocs[i].vaddr)) /\ k \in DOMAIN segments
  /\ Holds(segments[k], relocs[i].vaddr)
  /\ segments' = [segments EXCEPT ![k] = Patched(segments[k], relocs[i])]
  /\ i' = i + 1
  /\ UNCHANGED <<pc, elf, dynamic, relocs, alignment, shift, blocks, image, file>>

LEMMA ApplyStep ==
  ASSUME TypeInv, ApplyReloc, pc' \notin Stopped
  PROVE  \E k : Applies(k)
<1>1. ~Exit
  BY DEF Exit, Stopped
<1>2. PICK k : k = Min(Holding(relocs[i].vaddr))
  OBVIOUS
<1>3. /\ Holding(relocs[i].vaddr) # {} /\ pc = "apply" /\ i <= Len(relocs)
      /\ segments' = [segments EXCEPT ![k] = Patched(segments[k], relocs[i])]
      /\ i' = i + 1
      /\ UNCHANGED <<pc, elf, dynamic, relocs, alignment, shift, blocks, image, file>>
  BY <1>1, <1>2 DEF ApplyReloc
<1>4. i \in DOMAIN relocs /\ relocs[i] \in Relocs
  <2>1. i \in Nat \ {0} /\ relocs \in Seq(Relocs)
    BY DEF TypeInv
  <2> QED BY <1>3, <2>1
<1>5. relocs[i].vaddr \in Nat
  BY <1>4 DEF Relocs
<1>6. k \in DOMAIN segments /\ Holds(segments[k], relocs[i].vaddr)
  BY <1>2, <1>3, <1>5, Found DEF TypeInv
<1> QED BY <1>2, <1>3, <1>4, <1>6 DEF Applies

LEMMA ApplyMakes ==
  ASSUME ConverterAssumption, TypeInv, TypeInv', NEW f, Made(f), NEW n, Applies(n)
  PROVE  Made(f)'
<1>1. /\ pc = "apply" /\ pc' = pc /\ n \in DOMAIN segments /\ i \in DOMAIN relocs
      /\ segments' = [segments EXCEPT ![n] = Patched(segments[n], relocs[i])]
      /\ UNCHANGED <<elf, alignment, shift>>
      /\ Holds(segments[n], relocs[i].vaddr)
  BY DEF Applies
<1>2. segments \in Seq(Segs) /\ segments' \in Seq(Segs) /\ relocs \in Seq(Relocs)
  BY DEF TypeInv
<1>3. Len(segments') = Len(segments)
  <2>1. DOMAIN segments' = DOMAIN segments
    BY <1>1
  <2> QED BY <1>2, <2>1
<1>4. /\ Patched(segments[n], relocs[i]).vaddr = segments[n].vaddr
      /\ Patched(segments[n], relocs[i]).memsize = segments[n].memsize
      /\ Patched(segments[n], relocs[i]).align = segments[n].align
  <2>1. segments[n] \in Segs /\ relocs[i] \in Relocs /\ segments[n].vaddr <= relocs[i].vaddr
    BY <1>1, <1>2, SMTT(30) DEF Holds
  <2> QED BY <2>1, PatchedFields
<1>5. ASSUME NEW k \in DOMAIN segments PROVE MadeFrom(k, elf.phdrs[f[k]])'
  <2>1. PICK p : p = elf.phdrs[f[k]]
    OBVIOUS
  <2>2. MadeFrom(k, p)
    BY <2>1 DEF Made
  <2>3. Original(p)' = Original(p)
    BY <1>1, SameOriginal
  <2>4. /\ segments'[k].vaddr = segments[k].vaddr /\ segments'[k].memsize = segments[k].memsize
        /\ segments'[k].align = segments[k].align
    BY <1>1, <1>2, <1>4
  <2>5. MadeFrom(k, p)'
    BY <1>1, <2>2, <2>3, <2>4 DEF MadeFrom, Moved
  <2>6. p = elf'.phdrs[f[k]]
    BY <1>1, <2>1
  <2> QED BY <2>5, <2>6
<1>6. ShiftFrom(f)'
  <2>1. ShiftFrom(f)
    BY <1>1 DEF Made, Moved
  <2> QED BY <1>1, <1>3, <2>1 DEF ShiftFrom
<1> QED BY <1>1, <1>3, <1>5, <1>6, MadeAgain

LEMMA NextMakes ==
  ASSUME ConverterAssumption, TypeInv, TypeInv', Bounds, SegmentsMade, NEW f, Made(f), Next,
         pc # "segments", pc' \notin Stopped
  PROVE  Made(f)'
<1>1. ~Exit
  BY DEF Exit, Stopped
<1>2. CASE LoadSegment \/ SortSegments \/ Overrun \/ WriteFails
  BY <1>1, <1>2 DEF LoadSegment, SortSegments, Overrun, WriteFails, Stopped
<1>3. CASE LoadRela \/ LoadRel \/ ComputeAlignment
  <2>1. /\ pc \in Unmoved \ {"segments"} /\ pc' \in Unmoved \ {"segments"}
        /\ UNCHANGED <<elf, segments, shift>>
    BY <1>1, <1>3 DEF LoadRela, LoadRel, ComputeAlignment, Unmoved, Stopped
  <2> QED BY <2>1, MadeStays
<1>4. CASE ChooseShift
  BY <1>4, ShiftMakes
<1>5. CASE RelocateSegment
  BY <1>5, RelocateMakes
<1>6. CASE RelocateRelocs
  BY <1>6, RelocateRelocsMakes
<1>7. CASE ApplyReloc
  BY <1>7, ApplyStep, ApplyMakes
<1>8. CASE Applied \/ CreateBlock \/ BlocksCreated
  <2>1. /\ pc \in Moved /\ pc' \in Moved /\ UNCHANGED <<elf, segments, shift, alignment>>
    BY <1>8 DEF Applied, CreateBlock, BlocksCreated, Moved
  <2> QED BY <2>1, MadeStays
<1>9. CASE WriteHeaders \/ WriteSection \/ WriteReloc
  <2>1. /\ pc \in Moved /\ pc' \in Moved /\ UNCHANGED <<elf, segments, shift, alignment>>
    BY <1>1, <1>9 DEF WriteHeaders, WriteSection, WriteReloc, Moved
  <2> QED BY <2>1, MadeStays
<1> QED BY <1>2, <1>3, <1>4, <1>5, <1>6, <1>7, <1>8, <1>9 DEF Next

\* The types, and where the segments come from, are an invariant.
ConverterInv == TypeInv /\ Bounds /\ SegmentsMade

LEMMA ConverterInvInit == ConverterAssumption /\ Init => ConverterInv
<1> SUFFICES ASSUME ConverterAssumption, Init PROVE ConverterInv
  OBVIOUS
<1>1. TypeInv
  <2>1. WordBytes * Len(elf.dyn) >= 0
    <3>1. Len(elf.dyn) \in Nat /\ WordBytes \in Nat
      <4>1. elf \in Files
        BY DEF Init
      <4>2. elf.dyn \in Seq(Nat)
        BY <4>1, FileFields
      <4> QED BY <4>2, Constants, Elements
    <3> QED BY <3>1
  <2>2. <<>> \in Seq(Segs) /\ <<>> \in Seq(Relocs) /\ <<>> \in Seq(Blocks) /\ <<>> \in Seq(Byte)
    OBVIOUS
  <2> QED BY <2>1, <2>2 DEF Init, TypeInv, NoDynamic, Location, Moved
<1>2. Bounds
  <2>1. Len(elf.phdrs) \in Nat
    BY LoadsAt, <1>1
  <2> QED BY <2>1 DEF Init, Bounds
<1>3. UnmovedFrom(<<>>)
  <2>1. DOMAIN segments = {} /\ pc = "segments"
    BY DEF Init
  <2>2. Seen = {}
    <3>1. \A k \in LoadAt : ~(k < i)
      BY <1>1, LoadsAt DEF Init
    <3> QED BY <2>1, <3>1 DEF Seen
  <2> QED BY <2>1, <2>2 DEF UnmovedFrom
<1>4. Made(<<>>)
  BY <1>3, UnmovedIsMade DEF Init, Unmoved
<1> QED BY <1>1, <1>2, <1>4 DEF ConverterInv, SegmentsMade

LEMMA ConverterInvNext ==
  ASSUME ConverterAssumption, ConverterInv, [Next]_vars
  PROVE  ConverterInv'
<1>1. CASE UNCHANGED vars
  <2>1. TypeInv'
    BY <1>1 DEF ConverterInv, TypeInv, vars
  <2>2. Bounds'
    BY <1>1 DEF ConverterInv, Bounds, vars
  <2>3. SegmentsMade'
    <3>1. ASSUME NEW f, Made(f) PROVE Made(f)'
      <4>1. \A p : Original(p)' = Original(p)
        BY <1>1, SameOriginal DEF vars
      <4>2. ASSUME NEW k, NEW p, MadeFrom(k, p) PROVE MadeFrom(k, p)'
        BY <1>1, <4>1, <4>2 DEF MadeFrom, vars, Segment
      <4>3. Seen' = Seen
        BY <1>1 DEF Seen, LoadAt, vars
      <4> QED BY <1>1, <3>1, <4>2, <4>3 DEF Made, ShiftFrom, vars
    <3> QED BY <1>1, <3>1 DEF ConverterInv, SegmentsMade, vars
  <2> QED BY <2>1, <2>2, <2>3 DEF ConverterInv
<1>2. CASE Next
  <2>1. TypeInv' /\ Bounds'
    BY <1>2, NextKeepsTypes, NextKeepsBounds DEF ConverterInv
  <2>2. SegmentsMade'
    <3>1. CASE pc = "segments"
      <4>1. LoadSegment \/ SortSegments
        BY <1>2, <3>1 DEF Next, LoadRela, LoadRel, ComputeAlignment, ChooseShift,
             RelocateSegment, RelocateRelocs, ApplyReloc, Overrun, Applied, CreateBlock,
             BlocksCreated, WriteHeaders, WriteSection, WriteReloc, WriteFails
      <4> QED BY <4>1, LoadMakes, SortMakes DEF ConverterInv
    <3>2. CASE pc # "segments" /\ pc' \notin Stopped
      <4>1. pc \notin Stopped
        BY <1>2, Zenon DEF Next, Stopped, LoadSegment, SortSegments, LoadRela, LoadRel,
             ComputeAlignment, ChooseShift, RelocateSegment, RelocateRelocs, ApplyReloc,
             Overrun, Applied, CreateBlock, BlocksCreated, WriteHeaders, WriteSection,
             WriteReloc, WriteFails
      <4> QED BY <1>2, <2>1, <3>2, <4>1, NextMakes DEF ConverterInv, SegmentsMade
    <3>3. CASE pc' \in Stopped
      BY <3>3 DEF SegmentsMade
    <3> QED BY <3>1, <3>2, <3>3
  <2> QED BY <2>1, <2>2 DEF ConverterInv
<1> QED BY <1>1, <1>2

\* The converter's variables have their types, its sequences their bounds, and its
\* segments are those of the program headers (load_segments(), relocate_exec()).
THEOREM TypeCorrect == Spec => []ConverterInv
<1>1. ConverterInv /\ [Next]_vars => ConverterInv'
  BY ConverterAssumption, ConverterInvNext
<1> QED BY <1>1, ConverterAssumption, ConverterInvInit, PTL DEF Spec

-----------------------------------------------------------------------------
(***************************************************************************)
(* The file.                                                               *)
(***************************************************************************)
LEMMA Joined ==
  ASSUME NEW a \in Seq(Byte), NEW b \in Seq(Byte)
  PROVE  Len(a \o b) = Len(a) + Len(b)
OBVIOUS

LEMMA Appended ==
  ASSUME NEW s \in Seq(Byte), NEW a \in Seq(Byte), NEW b \in Seq(Byte)
  PROVE  /\ Len(s \o a \o b) = Len(s) + Len(a) + Len(b)
         /\ \A k \in 1 .. Len(s) : (s \o a \o b)[k] = s[k]
         /\ \A k \in 1 .. Len(a) : (s \o a \o b)[Len(s) + k] = a[k]
         /\ \A k \in 1 .. Len(b) : (s \o a \o b)[Len(s) + Len(a) + k] = b[k]
<1> DEFINE t == s \o a
           l == Len(s)
           m == Len(a)
           n == Len(b)
<1>1. /\ t \in Seq(Byte) /\ Len(t) = l + m /\ l \in Nat /\ m \in Nat /\ n \in Nat
      /\ \A k \in 1 .. l : t[k] = s[k]
      /\ \A k \in 1 .. m : t[l + k] = a[k]
  OBVIOUS
<1>2. /\ Len(t \o b) = l + m + n
      /\ \A k \in 1 .. l + m : (t \o b)[k] = t[k]
      /\ \A k \in 1 .. n : (t \o b)[l + m + k] = b[k]
  <2> HIDE DEF t, l, m
  <2>1. /\ Len(t \o b) = Len(t) + n
        /\ \A k \in 1 .. Len(t) : (t \o b)[k] = t[k]
        /\ \A k \in 1 .. n : (t \o b)[Len(t) + k] = b[k]
    <3>1. t \in Seq(Byte) /\ b \in Seq(Byte) /\ n = Len(b)
      BY <1>1
    <3> HIDE DEF n
    <3> QED BY <3>1
  <2> QED BY <1>1, <2>1
<1> HIDE DEF l, m, n, t
<1>3. \A k \in 1 .. l : k \in 1 .. l + m
  BY <1>1
<1>4. \A k \in 1 .. m : l + k \in 1 .. l + m
  BY <1>1
<1>5. /\ Len(t \o b) = l + m + n
      /\ \A k \in 1 .. l : (t \o b)[k] = s[k]
      /\ \A k \in 1 .. m : (t \o b)[l + k] = a[k]
      /\ \A k \in 1 .. n : (t \o b)[l + m + k] = b[k]
  BY <1>1, <1>2, <1>3, <1>4
<1> QED BY <1>5 DEF l, m, n, t

LEMMA OffsetsGrow ==
  ASSUME ConverterAssumption, segments \in Seq(Segs), NEW k \in 1 .. Len(segments),
         NEW n \in k + 1 .. Len(segments) + 1
  PROVE  LayoutOffset(k) + LayoutSize(k) <= LayoutOffset(n)
<1> DEFINE L == Len(segments)
           T == {m \in 0 .. L - k : LayoutOffset(k + 1) <= LayoutOffset(k + 1 + m)}
<1>0. L \in Nat /\ k \in 1 .. L /\ n \in k + 1 .. L + 1
  OBVIOUS
<1>1. \A m \in 1 .. L + 1 : LayoutOffset(m) \in Nat
  BY Offsets
<1>2. ASSUME NEW m \in 1 .. L
      PROVE  LayoutSize(m) \in Nat /\ LayoutOffset(m + 1) = LayoutOffset(m) + LayoutSize(m)
  <2>1. m \in DOMAIN segments
    BY SMTT(30)
  <2> QED BY <2>1, Offsets, SectionSizes
<1> HIDE DEF L
<1>3. 0 \in T
  <2>1. k + 1 \in 1 .. L + 1 /\ k + 1 + 0 = k + 1 /\ 0 \in 0 .. L - k
    BY <1>0
  <2>2. LayoutOffset(k + 1) \in Nat
    BY <1>1, <2>1
  <2> QED BY <2>1, <2>2
<1>4. ASSUME NEW m \in 0 .. L - k - 1, m \in T PROVE m + 1 \in T
  <2>1. k + 1 + m \in 1 .. L /\ (k + 1 + m) + 1 = k + 1 + (m + 1) /\ m + 1 \in 0 .. L - k
        /\ k + 1 \in 1 .. L + 1 /\ k + 1 + m \in 1 .. L + 1
    BY <1>0
  <2> DEFINE x == LayoutOffset(k + 1)
             y == LayoutOffset(k + 1 + m)
             z == LayoutSize(k + 1 + m)
  <2>2. x \in Nat /\ y \in Nat /\ z \in Nat /\ LayoutOffset(k + 1 + (m + 1)) = y + z
    BY <1>1, <1>2, <2>1
  <2>3. x <= y
    BY <1>4
  <2> HIDE DEF x, y, z
  <2>4. x <= y + z
    BY <2>2, <2>3
  <2> QED BY <2>1, <2>2, <2>4 DEF x
<1> HIDE DEF T
<1>5. n - (k + 1) \in 0 .. L - k /\ k + 1 + (n - (k + 1)) = n /\ L - k \in Nat
  BY <1>0
<1>6. n - (k + 1) \in T
  <2>1. \A m \in 0 .. L - k : m \in T
    BY <1>3, <1>4, <1>5, Adding!BoundedInduction
  <2> QED BY <1>5, <2>1
<1>7. LayoutOffset(k + 1) <= LayoutOffset(n)
  BY <1>5, <1>6 DEF T
<1>8. LayoutOffset(k + 1) = LayoutOffset(k) + LayoutSize(k)
  BY <1>0, <1>2
<1> QED BY <1>7, <1>8

\* What the file and the headers are made of stays.
LEMMA SameLayout ==
  ASSUME UNCHANGED <<elf, segments, relocs, alignment, shift, blocks>>
  PROVE  /\ Image' = Image /\ RelocSize' = RelocSize /\ RelocHeader' = RelocHeader
         /\ \A k : LayoutOffset(k)' = LayoutOffset(k) /\ LayoutSize(k)' = LayoutSize(k)
<1>1. \A k : LayoutSize(k)' = LayoutSize(k)
  BY DEF LayoutSize
<1>2. SizeOfHeaders' = SizeOfHeaders /\ SectionNum' = SectionNum
  BY DEF SizeOfHeaders, SectionNum
<1>3. \A k : LayoutOffset(k)' = LayoutOffset(k)
  BY <1>1, <1>2 DEF LayoutOffset
<1>4. RelocSize' = RelocSize
  BY DEF RelocSize
<1>5. RelocVaddr' = RelocVaddr
  BY DEF RelocVaddr
<1>6. RelocHeader' = RelocHeader
  BY <1>3, <1>4, <1>5 DEF RelocHeader
<1>7. \A k : SegmentHeader(k)' = SegmentHeader(k)
  BY <1>1, <1>3 DEF SegmentHeader
<1>8. SectionHeaders' = SectionHeaders
  BY <1>2, <1>6, <1>7 DEF SectionHeaders
<1>9. Image' = Image
  BY <1>2, <1>4, <1>5, <1>8 DEF Image
<1> QED BY <1>1, <1>3, <1>4, <1>6, <1>9

\* What has been written stays.
LEMMA SectionStays ==
  ASSUME ConverterAssumption, TypeInv,
         UNCHANGED <<elf, segments, relocs, alignment, shift, blocks>>,
         NEW k \in DOMAIN segments, SectionIn(k),
         LayoutOffset(k) + LayoutSize(k) <= Len(file),
         \A m \in 1 .. Len(file) : file'[m] = file[m]
  PROVE  SectionIn(k)'
<1> DEFINE at == LayoutOffset(k)
           size == segments[k].filesize
           rest == LayoutSize(k) - size
<1>1. /\ at \in Nat /\ LayoutSize(k) \in Nat /\ size \in Nat /\ size <= LayoutSize(k)
  <2>1. segments \in Seq(Segs)
    BY DEF TypeInv
  <2>2. Len(segments) \in Nat /\ k \in 1 .. Len(segments)
    BY <2>1, SMTT(30)
  <2>3. k \in 1 .. Len(segments) + 1
    BY <2>2
  <2> QED BY <2>1, <2>2, <2>3, Offsets, SectionSizes
<1>2. Len(file) \in Nat
  BY DEF TypeInv
<1>3. Chunk(segments[k]) \in Seq(Byte) /\ Len(Chunk(segments[k])) = size
  <2>1. segments[k] \in Segs
    BY VariablesTyped
  <2> QED BY <2>1, ChunkIsTyped
<1>4. DOMAIN Chunk(segments[k]) = 1 .. size
  BY <1>3
<1>5. rest \in Nat
  BY <1>1, SMTT(30)
<1>6. DOMAIN Padding(rest) = 1 .. rest
  BY DEF Padding
<1>7. at + size + rest <= Len(file)
  <2> DEFINE l == LayoutSize(k)
  <2>1. rest = l - size /\ l \in Nat /\ at + l <= Len(file)
    BY <1>1
  <2> HIDE DEF l, at, size, rest
  <2> QED BY <1>1, <1>2, <2>1
<1>8. FileHas(Chunk(segments[k]), at) /\ FileHas(Padding(rest), at + size)
  BY DEF SectionIn
<1>9. /\ LayoutOffset(k)' = at /\ LayoutSize(k)' = LayoutSize(k) /\ segments' = segments
  BY SameLayout
<1>10. \A m \in 1 .. size : file'[at + m] = Chunk(segments[k])[m]
  <2>1. \A m \in 1 .. size : at + m \in 1 .. Len(file)
    <3> HIDE DEF at, size, rest
    <3> QED BY <1>1, <1>2, <1>5, <1>7, SMTT(30)
  <2> HIDE DEF at, size, rest
  <2> QED BY <1>4, <1>8, <2>1 DEF FileHas
<1>11. \A m \in 1 .. rest : file'[at + size + m] = Padding(rest)[m]
  <2>1. \A m \in 1 .. rest : at + size + m \in 1 .. Len(file)
    <3> HIDE DEF at, size, rest
    <3> QED BY <1>1, <1>2, <1>5, <1>7, SMTT(30)
  <2> HIDE DEF at, size, rest
  <2> QED BY <1>6, <1>8, <2>1 DEF FileHas
<1> HIDE DEF at
<1>12. FileHas(Chunk(segments[k]), LayoutOffset(k))'
  BY <1>4, <1>9, <1>10 DEF FileHas, Chunk
<1>13. FileHas(Padding(LayoutSize(k) - segments[k].filesize),
               LayoutOffset(k) + segments[k].filesize)'
  BY <1>6, <1>9, <1>11 DEF FileHas, Padding
<1> QED BY <1>12, <1>13 DEF SectionIn

\* A section is written behind the others.
LEMMA SectionWritten ==
  ASSUME ConverterAssumption, TypeInv, FileInv, WriteSection
  PROVE  FileInv'
<1> DEFINE a == Chunk(segments[i])
           rest == LayoutSize(i) - segments[i].filesize
           b == Padding(rest)
<1>1. /\ file' = file \o a \o b /\ i' = i + 1 /\ pc = "sections" /\ i <= Len(segments)
      /\ UNCHANGED <<pc, elf, segments, dynamic, relocs, alignment, shift, blocks, image>>
  BY DEF WriteSection
<1>2. /\ image = Image /\ Len(file) = LayoutOffset(i) /\ \A k \in 1 .. i - 1 : SectionIn(k)
  BY <1>1 DEF FileInv
<1>3. /\ segments \in Seq(Segs) /\ i \in Nat \ {0} /\ i \in 1 .. Len(segments)
      /\ DOMAIN segments = 1 .. Len(segments) /\ Len(segments) \in Nat
      /\ file \in Seq(Byte)
  <2>1. segments \in Seq(Segs) /\ i \in Nat \ {0} /\ file \in Seq(Byte)
    BY DEF TypeInv
  <2> QED BY <1>1, <2>1, SMTT(30)
<1>4. segments[i] \in Segs /\ i \in DOMAIN segments
  BY <1>3
<1>5. /\ LayoutSize(i) \in Nat /\ segments[i].filesize \in Nat
      /\ segments[i].filesize <= LayoutSize(i)
  BY <1>3, SectionSizes
<1>6. rest \in Nat
  BY <1>5
<1>7. a \in Seq(Byte) /\ b \in Seq(Byte) /\ Len(a) = segments[i].filesize /\ Len(b) = rest
  <2> HIDE DEF rest
  <2> QED BY <1>4, <1>6, ChunkIsTyped, PaddingIsTyped
<1> HIDE DEF a, b
<1>8. /\ Len(file') = Len(file) + Len(a) + Len(b)
      /\ \A k \in 1 .. Len(file) : file'[k] = file[k]
      /\ \A k \in 1 .. Len(a) : file'[Len(file) + k] = a[k]
      /\ \A k \in 1 .. Len(b) : file'[Len(file) + Len(a) + k] = b[k]
  <2>1. /\ Len(file \o a \o b) = Len(file) + Len(a) + Len(b)
        /\ \A k \in 1 .. Len(file) : (file \o a \o b)[k] = file[k]
        /\ \A k \in 1 .. Len(a) : (file \o a \o b)[Len(file) + k] = a[k]
        /\ \A k \in 1 .. Len(b) : (file \o a \o b)[Len(file) + Len(a) + k] = b[k]
    <3>1. file \in Seq(Byte) /\ a \in Seq(Byte) /\ b \in Seq(Byte)
      BY <1>3, <1>7
    <3> QED BY <3>1, Appended, SMTT(30)
  <2>2. file' = file \o a \o b
    BY <1>1
  <2> QED BY <2>1, <2>2
<1>9. /\ Image' = Image
      /\ \A k : LayoutOffset(k)' = LayoutOffset(k) /\ LayoutSize(k)' = LayoutSize(k)
  BY <1>1, SameLayout
<1>10. Len(file') = LayoutOffset(i + 1)
  <2>1. LayoutOffset(i + 1) = LayoutOffset(i) + LayoutSize(i)
    BY <1>3, Offsets
  <2>2. LayoutOffset(i) \in Nat
    BY <1>3, Offsets, SMTT(30)
  <2>3. Len(a) + Len(b) = LayoutSize(i)
    <3> DEFINE from == segments[i].filesize
               size == LayoutSize(i)
    <3>1. from \in Nat /\ size \in Nat /\ Len(a) = from /\ Len(b) = size - from
      BY <1>5, <1>7
    <3> HIDE DEF from, size
    <3>2. Len(a) + Len(b) = size
      BY <3>1
    <3> QED BY <3>2 DEF size
  <2>4. Len(a) \in Nat /\ Len(b) \in Nat
    BY <1>7, Elements
  <2> QED BY <1>2, <1>5, <1>8, <2>1, <2>2, <2>3, <2>4, SMTT(30)
<1>11. ASSUME NEW k \in 1 .. i PROVE SectionIn(k)'
  <2>1. CASE k = i
    <3>1. FileHas(Chunk(segments[k]), LayoutOffset(k))'
      <4>1. DOMAIN a = 1 .. Len(a)
        BY <1>7
      <4>2. \A m \in DOMAIN a : file'[LayoutOffset(i) + m] = a[m]
        BY <1>2, <1>8, <4>1
      <4>3. Chunk(segments[k])' = a /\ LayoutOffset(k)' = LayoutOffset(i)
        BY <1>1, <1>9, <2>1 DEF a, Chunk
      <4> QED BY <4>2, <4>3 DEF FileHas
    <3>2. FileHas(Padding(LayoutSize(k) - segments[k].filesize),
                  LayoutOffset(k) + segments[k].filesize)'
      <4>1. DOMAIN b = 1 .. Len(b)
        BY <1>7
      <4>2. \A m \in DOMAIN b : file'[LayoutOffset(i) + segments[i].filesize + m] = b[m]
        BY <1>2, <1>7, <1>8, <4>1
      <4>3. /\ Padding(LayoutSize(k) - segments[k].filesize)' = b
            /\ (LayoutOffset(k) + segments[k].filesize)' = LayoutOffset(i) + segments[i].filesize
        BY <1>1, <1>9, <2>1 DEF b, Padding
      <4> QED BY <4>2, <4>3 DEF FileHas
    <3> QED BY <3>1, <3>2 DEF SectionIn
  <2>2. CASE k # i
    <3>1. k \in 1 .. i - 1 /\ k \in 1 .. Len(segments) /\ i \in k + 1 .. Len(segments) + 1
      BY <1>3, <2>2
    <3>2. LayoutOffset(k) + LayoutSize(k) <= Len(file)
      BY <1>2, <1>3, <3>1, OffsetsGrow
    <3>3. SectionIn(k) /\ k \in DOMAIN segments
      BY <1>2, <1>3, <3>1
    <3> QED BY <1>1, <1>8, <3>2, <3>3, SectionStays
  <2> QED BY <2>1, <2>2
<1>12. i' - 1 = i
  BY <1>1, <1>3
<1>13. Len(file') = LayoutOffset(i)'
  BY <1>1, <1>9, <1>10
<1> QED BY <1>1, <1>2, <1>9, <1>11, <1>12, <1>13 DEF FileInv, Stopped

\* The headers come first.
LEMMA HeadersWritten ==
  ASSUME ConverterAssumption, TypeInv, FileInv, WriteHeaders, pc' \notin Stopped
  PROVE  FileInv'
<1> DEFINE size == HeaderSize(SectionNum)
           rest == SizeOfHeaders - size
           a == [k \in 1 .. size |-> HeaderByte(k)]
           b == Padding(rest)
<1>1. /\ image' = Image /\ file' = a \o b /\ i' = 1 /\ pc' = "sections"
      /\ UNCHANGED <<elf, segments, dynamic, relocs, alignment, shift, blocks>>
  BY DEF WriteHeaders, Exit, Stopped
<1>2. /\ size \in Nat /\ SizeOfHeaders \in Nat /\ size <= SizeOfHeaders
      /\ LayoutOffset(1) = SizeOfHeaders
  BY HeadersFit, Offsets DEF TypeInv
<1> HIDE DEF size
<1>3. rest \in Nat
  BY <1>2
<1>4. b \in Seq(Byte) /\ Len(b) = rest
  <2> HIDE DEF rest
  <2> QED BY <1>3, PaddingIsTyped
<1>5. a \in Seq(Byte) /\ Len(a) = size
  <2>1. \A k \in 1 .. size : HeaderByte(k) \in Byte
    BY <1>2 DEF HeaderByte, Byte
  <2> QED BY <1>2, <2>1, SMTT(30)
<1> HIDE DEF a, b, rest
<1>6. Len(file') = LayoutOffset(1)
  <2>1. Len(a \o b) = Len(a) + Len(b)
    BY <1>4, <1>5, Joined
  <2>2. size + rest = SizeOfHeaders
    BY <1>2 DEF rest
  <2> QED BY <1>1, <1>2, <1>4, <1>5, <2>1, <2>2
<1>7. Image' = Image /\ LayoutOffset(1)' = LayoutOffset(1)
  BY <1>1, SameLayout
<1>8. Len(file') = LayoutOffset(i)'
  BY <1>1, <1>6, <1>7
<1>9. 1 .. (i' - 1) = {}
  BY <1>1
<1> QED BY <1>1, <1>7, <1>8, <1>9 DEF FileInv, Stopped

\* The relocations come last.
LEMMA RelocSizes ==
  ASSUME ConverterAssumption, TypeInv
  PROVE  /\ RelocSize \in Nat /\ RelocHeader.rawSize \in Nat
         /\ RelocSize <= RelocHeader.rawSize
         /\ RelocHeader.raw = LayoutOffset(Len(segments) + 1)
<1>1. RelocSize \in Nat
  BY RelocSizeIsNatural DEF TypeInv
<1>2. FileAlignment \in Nat \ {0}
  BY Constants
<1>3. AlignUp(RelocSize, FileAlignment) \in Nat
      /\ RelocSize <= AlignUp(RelocSize, FileAlignment)
  BY <1>1, <1>2, UpIsNatural
<1> QED BY <1>1, <1>3 DEF RelocHeader

LEMMA RelocWritten ==
  ASSUME ConverterAssumption, TypeInv, Bounds, FileInv, WriteReloc
  PROVE  FileInv'
<1> DEFINE rest == RelocHeader.rawSize - RelocSize
           a == RelocBytes
           b == Padding(rest)
           end == LayoutOffset(Len(segments) + 1)
<1>1. /\ file' = IF relocs = <<>> THEN file ELSE file \o a \o b
      /\ pc = "sections" /\ pc' = "done" /\ i > Len(segments)
      /\ UNCHANGED <<elf, i, segments, dynamic, relocs, alignment, shift, blocks, image>>
  BY DEF WriteReloc, RelocBytes
<1>2. segments \in Seq(Segs) /\ i \in Nat /\ file \in Seq(Byte) /\ relocs \in Seq(Relocs)
  BY DEF TypeInv
<1>3. i = Len(segments) + 1 /\ Len(segments) \in Nat
  <2>1. i <= Len(segments) + 1
    BY <1>1 DEF Bounds
  <2>2. Len(segments) \in Nat
    BY <1>2
  <2> QED BY <1>1, <1>2, <2>1, <2>2
<1>4. /\ image = Image /\ Len(file) = end /\ \A k \in 1 .. i - 1 : SectionIn(k)
  BY <1>1, <1>3 DEF FileInv
<1>5. rest \in Nat /\ RelocSize \in Nat /\ RelocSize + rest = RelocHeader.rawSize
  BY RelocSizes, SMTT(30)
<1> HIDE DEF rest
<1>6. b \in Seq(Byte) /\ Len(b) = rest
  BY <1>5, PaddingIsTyped
<1>7. a \in Seq(Byte) /\ Len(a) = RelocSize
  <2>1. \A k \in 1 .. RelocSize : RelocByte(k) \in Byte
    BY <1>5 DEF RelocByte, Byte
  <2> QED BY <1>5, <2>1 DEF RelocBytes
<1> HIDE DEF a, b
<1>8. /\ Len(file \o a \o b) = Len(file) + Len(a) + Len(b)
      /\ \A k \in 1 .. Len(file) : (file \o a \o b)[k] = file[k]
      /\ \A k \in 1 .. Len(a) : (file \o a \o b)[Len(file) + k] = a[k]
      /\ \A k \in 1 .. Len(b) : (file \o a \o b)[Len(file) + Len(a) + k] = b[k]
  <2>1. file \in Seq(Byte) /\ a \in Seq(Byte) /\ b \in Seq(Byte)
    BY <1>2, <1>6, <1>7
  <2> QED BY <2>1, Appended, ZenonT(30)
<1>9. \A m \in 1 .. Len(file) : file'[m] = file[m]
  BY <1>1, <1>8
<1>10. /\ Image' = Image /\ RelocSize' = RelocSize /\ RelocHeader' = RelocHeader
       /\ \A k : LayoutOffset(k)' = LayoutOffset(k)
  BY <1>1, SameLayout
<1>11. end' = end
  BY <1>1, <1>10
<1>12. \A k \in 1 .. Len(segments) : SectionIn(k)'
  <2> SUFFICES ASSUME NEW k \in 1 .. Len(segments) PROVE SectionIn(k)'
    OBVIOUS
  <2>1. k \in DOMAIN segments /\ k \in 1 .. i - 1
        /\ Len(segments) + 1 \in k + 1 .. Len(segments) + 1
    BY <1>2, <1>3, SMTT(30)
  <2>2. LayoutOffset(k) + LayoutSize(k) <= Len(file)
    BY <1>2, <1>4, <2>1, OffsetsGrow
  <2> QED BY <1>1, <1>4, <1>9, <2>1, <2>2, SectionStays
<1>13. CASE relocs = <<>>
  <2>1. Len(file') = end'
    BY <1>1, <1>4, <1>11, <1>13
  <2> QED BY <1>1, <1>4, <1>10, <1>12, <1>13, <2>1 DEF FileInv, Stopped
<1>14. CASE relocs # <<>>
  <2>1. Len(file') = end' + RelocHeader'.rawSize
    <3>1. end \in Nat
      BY <1>2, <1>3, Offsets, SMTT(30)
    <3>2. Len(file') = end + RelocSize + rest
      BY <1>1, <1>4, <1>6, <1>7, <1>8, <1>14
    <3> QED BY <1>5, <1>10, <1>11, <3>1, <3>2, SMTT(30)
  <2>2. FileHas(RelocBytes, end)'
    <3>1. RelocBytes' = a /\ DOMAIN a = 1 .. Len(a)
      <4>1. RelocBytes' = a
        BY <1>10 DEF a, RelocBytes, RelocByte
      <4> QED BY <1>7, <4>1
    <3>2. \A m \in DOMAIN a : file'[end + m] = a[m]
      BY <1>1, <1>4, <1>8, <1>14, <3>1
    <3> HIDE DEF end
    <3> QED BY <1>11, <3>1, <3>2 DEF FileHas
  <2> QED BY <1>1, <1>4, <1>10, <1>12, <1>14, <2>1, <2>2 DEF FileInv, Stopped
<1> QED BY <1>13, <1>14

LEMMA FileInvNext ==
  ASSUME ConverterAssumption, TypeInv, Bounds, FileInv, Next
  PROVE  FileInv'
<1>1. CASE pc' \in Stopped
  BY <1>1 DEF FileInv, Stopped
<1>2. CASE WriteHeaders /\ pc' \notin Stopped
  BY <1>2, HeadersWritten
<1>3. CASE WriteSection
  BY <1>3, SectionWritten
<1>4. CASE WriteReloc
  BY <1>4, RelocWritten
<1>5. CASE /\ pc' \notin Stopped
           /\ ~WriteHeaders /\ ~WriteSection /\ ~WriteReloc
  <2>1. /\ pc \notin {"sections", "done"} \cup Stopped
        /\ pc' \notin {"sections", "done"} \cup Stopped
        /\ file' = file
    BY <1>5 DEF Next, LoadSegment, SortSegments, LoadRela, LoadRel, ComputeAlignment,
                ChooseShift, RelocateSegment, RelocateRelocs, ApplyReloc, Overrun, Applied,
                CreateBlock, BlocksCreated, WriteFails, Exit, Stopped
  <2> QED BY <2>1 DEF FileInv, Stopped
<1> QED BY <1>1, <1>2, <1>3, <1>4, <1>5

LEMMA FileInvHolds == Spec => []FileInv
<1>1. Init => FileInv
  BY DEF Init, FileInv, Stopped
<1>2. ConverterInv /\ FileInv /\ [Next]_vars => FileInv'
  <2> SUFFICES ASSUME ConverterInv, FileInv, [Next]_vars PROVE FileInv'
    OBVIOUS
  <2>1. CASE Next
    BY <2>1, ConverterAssumption, FileInvNext DEF ConverterInv
  <2>2. CASE UNCHANGED vars
    <3>1. /\ Image' = Image /\ RelocSize' = RelocSize /\ RelocHeader' = RelocHeader
          /\ \A k : LayoutOffset(k)' = LayoutOffset(k) /\ LayoutSize(k)' = LayoutSize(k)
      BY <2>2, SameLayout DEF vars
    <3>2. \A k : SectionIn(k)' = SectionIn(k)
      BY <2>2, <3>1 DEF vars, SectionIn, FileHas, Chunk, Padding
    <3>3. RelocBytes' = RelocBytes
      BY <3>1 DEF RelocBytes, RelocByte
    <3>4. /\ pc' = pc /\ image' = image /\ file' = file /\ i' = i /\ segments' = segments
          /\ relocs' = relocs
      BY <2>2 DEF vars
    <3> QED BY <3>1, <3>2, <3>3, <3>4 DEF FileInv, FileHas
  <2> QED BY <2>1, <2>2
<1> QED BY <1>1, <1>2, TypeCorrect, PTL DEF Spec

LEMMA FilePiece ==
  ASSUME file \in Seq(Byte), NEW at \in Nat, NEW w \in Seq(Byte),
         at + Len(w) <= Len(file), FileHas(w, at)
  PROVE  SubSeq(file, at + 1, at + Len(w)) = w
<1> DEFINE s == SubSeq(file, at + 1, at + Len(w))
           n == Len(w)
<1>1. n \in Nat /\ w \in [1 .. n -> Byte] /\ Len(file) \in Nat
  OBVIOUS
<1>2. \A k \in 1 .. n : file[at + k] = w[k]
  BY <1>1 DEF FileHas
<1>3. \A k \in at + 1 .. at + n : k \in 1 .. Len(file)
  BY <1>1
<1>4. s \in Seq(Byte) /\ Len(s) = (at + n) - (at + 1) + 1
      /\ \A k \in 1 .. Len(s) : s[k] = file[at + 1 + k - 1]
  <2>1. at + 1 \in Int /\ at + n \in Int /\ at + 1 <= at + n + 1
    BY <1>1
  <2> QED BY <1>1, <1>3, <2>1
<1> HIDE DEF s, n
<1>5. Len(s) = n
  BY <1>1, <1>4
<1>6. \A k \in 1 .. n : s[k] = w[k]
  <2> SUFFICES ASSUME NEW k \in 1 .. n PROVE s[k] = w[k]
    OBVIOUS
  <2>1. at + 1 + k - 1 = at + k
    BY <1>1
  <2> QED BY <1>2, <1>4, <1>5, <2>1
<1>7. s \in [1 .. n -> Byte]
  BY <1>4, <1>5
<1>8. s = w
  BY <1>1, <1>6, <1>7
<1> QED BY <1>8 DEF s, n

LEMMA HeadersFirst ==
  ASSUME ConverterAssumption, segments \in Seq(Segs), NEW k \in 1 .. Len(segments) + 1
  PROVE  SizeOfHeaders <= LayoutOffset(k)
<1>0. Len(segments) \in Nat
  OBVIOUS
<1>1. LayoutOffset(1) = SizeOfHeaders /\ SizeOfHeaders \in Nat
  BY Offsets, HeadersFit
<1>2. CASE k = 1
  BY <1>1, <1>2
<1>3. CASE k # 1
  <2>1. 1 \in 1 .. Len(segments) /\ k \in 1 + 1 .. Len(segments) + 1 /\ 1 \in DOMAIN segments
    BY <1>0, <1>3
  <2>2. LayoutOffset(1) + LayoutSize(1) <= LayoutOffset(k)
    BY <2>1, OffsetsGrow
  <2>3. LayoutSize(1) \in Nat /\ LayoutOffset(k) \in Nat
    BY <2>1, SectionSizes, Offsets
  <2> QED BY <1>1, <2>2, <2>3, SMTT(30)
<1> QED BY <1>2, <1>3

\* Where the header of a section says that its data is.
LEMMA HeadersPoint ==
  ASSUME ConverterAssumption, TypeInv
  PROVE  /\ DOMAIN SectionHeaders = 1 .. SectionNum
         /\ \A k \in 1 .. Len(segments) : k \in 1 .. SectionNum
         /\ \A k \in 1 .. Len(segments) : SectionHeaders[k] = SegmentHeader(k)
         /\ \A k \in 1 .. SectionNum :
              k \notin 1 .. Len(segments) =>
                k = Len(segments) + 1 /\ relocs # <<>> /\ SectionHeaders[k] = RelocHeader
<1>1. Len(segments) \in Nat
  BY VariablesTyped
<1>2. /\ \A k \in 1 .. Len(segments) : k \in 1 .. SectionNum
      /\ \A k \in 1 .. SectionNum :
           k \notin 1 .. Len(segments) => k = Len(segments) + 1 /\ relocs # <<>>
  BY <1>1, SMTT(30) DEF SectionNum
<1>3. /\ \A k \in 1 .. Len(segments) : k <= Len(segments)
      /\ ~(Len(segments) + 1 <= Len(segments))
  BY <1>1
<1> QED BY <1>2, <1>3 DEF SectionHeaders

\* A section header points at what was written for its section: the data of its
\* segment, or the relocations, in a piece of the file that no other section shares,
\* up to the file's end (layout_pe_file(), write_pe()).
THEOREM FileIsConsistent == Spec => []FileConsistent
<1>1. ASSUME ConverterInv, FileInv PROVE FileConsistent
  <2> SUFFICES ASSUME pc = "done" PROVE FileConsistent
    BY DEF FileConsistent
  <2> USE ConverterAssumption
  <2> DEFINE s == image.sections
             n == Len(segments)
             written(k) == IF k <= Len(segments)
                             THEN Chunk(segments[k])
                             ELSE [j \in 1 .. RelocSize |-> RelocByte(j)]
             used == {k \in DOMAIN s : s[k].raw # 0}
             rawSize(k) == IF k <= n THEN LayoutSize(k) ELSE RelocHeader.rawSize
  <2>1. TypeInv /\ segments \in Seq(Segs) /\ file \in Seq(Byte) /\ n \in Nat
    BY <1>1 DEF ConverterInv, TypeInv
  <2>2. /\ image = Image
        /\ IF relocs = <<>>
             THEN Len(file) = LayoutOffset(n + 1)
             ELSE /\ Len(file) = LayoutOffset(n + 1) + RelocHeader.rawSize
                  /\ FileHas(RelocBytes, LayoutOffset(n + 1))
        /\ \A k \in 1 .. n : SectionIn(k)
    BY <1>1 DEF FileInv, Stopped
  <2>3. s = SectionHeaders /\ image.headers = SizeOfHeaders
    BY <2>2 DEF Image
  <2>4. /\ SizeOfHeaders \in Nat /\ RelocSize \in Nat /\ RelocHeader.rawSize \in Nat
        /\ RelocSize <= RelocHeader.rawSize /\ RelocHeader.raw = LayoutOffset(n + 1)
        /\ \A k \in 1 .. n + 1 : LayoutOffset(k) \in Nat
        /\ \A k \in 1 .. n : /\ LayoutSize(k) \in Nat /\ segments[k].filesize \in Nat
                             /\ segments[k].filesize <= LayoutSize(k)
    <3>1. SizeOfHeaders \in Nat /\ \A k \in 1 .. n + 1 : LayoutOffset(k) \in Nat
      BY <2>1, HeadersFit, Offsets
    <3>2. \A k \in 1 .. n : k \in DOMAIN segments
      BY <2>1
    <3>3. \A k \in 1 .. n : /\ LayoutSize(k) \in Nat /\ segments[k].filesize \in Nat
                            /\ segments[k].filesize <= LayoutSize(k)
      BY <2>1, <3>2, SectionSizes
    <3>4. /\ RelocSize \in Nat /\ RelocHeader.rawSize \in Nat
          /\ RelocSize <= RelocHeader.rawSize /\ RelocHeader.raw = LayoutOffset(n + 1)
      BY <2>1, RelocSizes
    <3> QED BY <3>1, <3>3, <3>4
  <2>5. LayoutOffset(n + 1) <= Len(file) /\ Len(file) \in Nat
    <3>1. n + 1 \in 1 .. n + 1
      BY <2>1
    <3>2. LayoutOffset(n + 1) \in Nat
      BY <2>4, <3>1
    <3>3. Len(file) \in Nat
      BY <2>1
    <3> QED BY <2>2, <2>4, <3>2, <3>3, SMTT(30)
  <2>6. ASSUME NEW k \in used
        PROVE  /\ k \in 1 .. n + 1 /\ s[k].raw = LayoutOffset(k) /\ s[k].rawSize = rawSize(k)
               /\ k \notin 1 .. n => k = n + 1 /\ relocs # <<>>
    <3>1. k \in 1 .. SectionNum
      BY <2>1, <2>3, HeadersPoint
    <3>2. CASE k \in 1 .. n
      <4>1. s[k] = SegmentHeader(k) /\ k <= n
        BY <2>1, <2>3, <3>2, HeadersPoint
      <4>2. s[k].raw # 0
        OBVIOUS
      <4> QED BY <2>1, <3>2, <4>1, <4>2 DEF SegmentHeader
    <3>3. CASE k \notin 1 .. n
      <4>1. k = n + 1 /\ s[k] = RelocHeader /\ relocs # <<>>
        BY <2>1, <2>3, <3>1, <3>3, HeadersPoint
      <4>2. ~(k <= n)
        BY <2>1, <4>1
      <4> QED BY <2>1, <2>4, <3>3, <4>1, <4>2
    <3> QED BY <3>2, <3>3
  <2> HIDE DEF s, n, used
  <2>7. ASSUME NEW k \in used
        PROVE  /\ s[k].raw >= image.headers
               /\ s[k].raw + s[k].rawSize <= Len(file)
               /\ SubSeq(file, s[k].raw + 1, s[k].raw + Len(written(k))) = written(k)
    <3>1. /\ k \in 1 .. n + 1 /\ s[k].raw = LayoutOffset(k) /\ s[k].rawSize = rawSize(k)
          /\ k \notin 1 .. n => k = n + 1 /\ relocs # <<>>
      BY <2>6
    <3>2. LayoutOffset(k) \in Nat /\ SizeOfHeaders <= LayoutOffset(k)
      BY <2>1, <2>4, <3>1, HeadersFirst DEF n
    <3>3. CASE k \in 1 .. n
      <4>1. k \in 1 .. Len(segments) /\ n + 1 \in k + 1 .. Len(segments) + 1 /\ k <= n
        BY <2>1, <3>3 DEF n
      <4>2. LayoutOffset(k) + LayoutSize(k) <= LayoutOffset(n + 1)
        BY <2>1, <4>1, OffsetsGrow
      <4>3. written(k) = Chunk(segments[k])
        BY <4>1 DEF n
      <4>4. segments[k] \in Segs
        BY <2>1, <4>1
      <4>5. written(k) \in Seq(Byte) /\ Len(written(k)) = segments[k].filesize
        BY <4>3, <4>4, ChunkIsTyped
      <4>6. FileHas(written(k), LayoutOffset(k))
        BY <2>2, <3>3, <4>3 DEF SectionIn
      <4>7. LayoutSize(k) \in Nat /\ segments[k].filesize \in Nat
            /\ segments[k].filesize <= LayoutSize(k)
        BY <2>4, <3>3
      <4>8. s[k].rawSize = LayoutSize(k)
        BY <3>1, <4>1
      <4> HIDE DEF written, rawSize
      <4>9. n + 1 \in 1 .. n + 1
        BY <2>1
      <4>10. LayoutOffset(n + 1) \in Nat
        BY <2>4, <4>9
      <4>11. LayoutOffset(k) + LayoutSize(k) <= Len(file)
        BY <2>5, <3>2, <4>2, <4>7, <4>10, SMTT(30)
      <4>12. LayoutOffset(k) + Len(written(k)) <= Len(file)
        <5> DEFINE at == LayoutOffset(k)
                   size == LayoutSize(k)
                   length == Len(written(k))
        <5>1. at \in Nat /\ size \in Nat /\ length \in Nat /\ length <= size
              /\ at + size <= Len(file)
          BY <3>2, <4>5, <4>7, <4>11
        <5> HIDE DEF at, size, length
        <5>2. at + length <= Len(file)
          BY <2>5, <5>1
        <5> QED BY <5>2 DEF at, length
      <4>13. SubSeq(file, LayoutOffset(k) + 1, LayoutOffset(k) + Len(written(k))) = written(k)
        BY <2>1, <3>2, <4>5, <4>6, <4>12, FilePiece
      <4> QED BY <2>3, <2>4, <3>1, <3>2, <4>8, <4>11, <4>13
    <3>4. CASE k \notin 1 .. n
      <4>1. k = n + 1 /\ relocs # <<>> /\ ~(k <= n)
        BY <2>1, <3>1, <3>4
      <4>2. written(k) = RelocBytes /\ s[k].rawSize = RelocHeader.rawSize
        BY <3>1, <4>1 DEF n, RelocBytes
      <4>3. written(k) \in Seq(Byte) /\ Len(written(k)) = RelocSize
        <5>1. \A j \in 1 .. RelocSize : RelocByte(j) \in Byte
          BY <2>4 DEF RelocByte, Byte
        <5> QED BY <2>4, <4>2, <5>1, SMTT(30) DEF RelocBytes
      <4>4. FileHas(written(k), LayoutOffset(k))
            /\ Len(file) = LayoutOffset(k) + RelocHeader.rawSize
        BY <2>2, <4>1, <4>2
      <4> HIDE DEF written, rawSize
      <4>5. LayoutOffset(k) + Len(written(k)) <= Len(file)
        BY <2>4, <3>2, <4>3, <4>4, SMTT(30)
      <4>6. SubSeq(file, LayoutOffset(k) + 1, LayoutOffset(k) + Len(written(k))) = written(k)
        BY <2>1, <3>2, <4>3, <4>4, <4>5, FilePiece
      <4>7. s[k].raw >= image.headers
        BY <2>3, <2>4, <3>1, <3>2
      <4>8. s[k].raw + s[k].rawSize <= Len(file)
        BY <2>5, <3>1, <4>2, <4>4
      <4>9. SubSeq(file, s[k].raw + 1, s[k].raw + Len(written(k))) = written(k)
        BY <3>1, <4>6
      <4> QED BY <4>7, <4>8, <4>9
    <3> QED BY <3>3, <3>4
  <2>8. ASSUME NEW j \in used, NEW k \in used, j < k
        PROVE  s[j].raw + s[j].rawSize <= s[k].raw
    <3>1. /\ j \in 1 .. n + 1 /\ k \in 1 .. n + 1 /\ s[j].raw = LayoutOffset(j)
          /\ s[k].raw = LayoutOffset(k) /\ s[j].rawSize = rawSize(j)
      BY <2>6
    <3>2. j \in 1 .. n /\ k \in j + 1 .. n + 1 /\ j <= n
      BY <2>1, <2>8, <3>1
    <3>3. LayoutOffset(j) + LayoutSize(j) <= LayoutOffset(k)
      BY <2>1, <3>2, OffsetsGrow DEF n
    <3> QED BY <3>1, <3>2, <3>3
  <2> QED BY <2>7, <2>8 DEF FileConsistent, s, used
<1> QED BY <1>1, TypeCorrect, FileInvHolds, PTL

-----------------------------------------------------------------------------
(***************************************************************************)
(* Where the sections are.                                                 *)
(***************************************************************************)
LEMMA MultipleOf ==
  ASSUME NEW x \in Int, NEW a \in Nat \ {0}, NEW b \in Nat \ {0}, Multiple(x, a), Multiple(a, b)
  PROVE  Multiple(x, b)
<1>1. PICK q \in Int : x = q * a
  BY DEF Multiple
<1>2. PICK r \in Int : a = r * b
  BY DEF Multiple
<1>3. x = (q * r) * b
  BY <1>1, <1>2
<1>4. q * r \in Int
  OBVIOUS
<1> QED BY <1>3, <1>4 DEF Multiple

\* What is added to an address.
Distance == BaseAddress + shift

LEMMA DistanceIsAligned ==
  ASSUME ConverterAssumption, TypeInv, NEW f, ShiftFrom(f), alignment # 0,
         BaseAddress % alignment = 0
  PROVE  /\ Distance \in Nat /\ shift \in Nat
         /\ Multiple(shift, alignment) /\ Multiple(Distance, alignment)
<1>1. alignment \in Nat \ {0} /\ shift \in Nat /\ BaseAddress \in Nat /\ Len(segments) + 1 \in Nat
  BY Constants DEF TypeInv
<1>2. Multiple(BaseAddress, alignment)
  BY <1>1, Divisible
<1>3. Multiple(shift, alignment)
  <2> DEFINE headers == HeaderSize(Len(segments) + 1)
  <2>1. headers \in Nat
    BY <1>1, HeaderSizeIsNatural
  <2>2. Multiple(AlignUp(headers, alignment), alignment)
    <3> HIDE DEF headers
    <3>1. headers \in Int
      BY <2>1
    <3> QED BY <1>1, <3>1, Up
  <2>3. Multiple(0, alignment)
    <3>1. 0 = 0 * alignment
      BY <1>1
    <3> QED BY <3>1 DEF Multiple
  <2>4. shift = AlignUp(headers, alignment) \/ shift = 0
    BY DEF ShiftFrom
  <2> QED BY <2>2, <2>3, <2>4
<1>4. Multiple(Distance, alignment)
  BY <1>1, <1>2, <1>3, Sums DEF Distance
<1> QED BY <1>1, <1>3, <1>4 DEF Distance

\* A segment is where its program header says, and before it from its page's start.
LEMMA Places ==
  ASSUME ConverterAssumption, TypeInv, pc \in Moved, NEW f, Made(f), Aligned,
         NEW k \in DOMAIN segments
  PROVE  LET p == elf.phdrs[f[k]]
         IN  /\ p \in Loads /\ p \in ProgramHeader /\ p.vaddr \in Nat /\ End(p) \in Nat
             /\ p.vaddr <= End(p) /\ FileEnd(p) \in Nat /\ FileEnd(p) <= End(p)
             /\ p.align = alignment
             /\ AlignDown(p.vaddr, alignment) \in Int /\ AlignUp(End(p), alignment) \in Int
             /\ AlignDown(p.vaddr, alignment) <= p.vaddr
             /\ End(p) <= AlignUp(End(p), alignment)
             /\ segments[k].vaddr = AlignDown(p.vaddr, alignment) + Distance
             /\ segments[k].vaddr + segments[k].memsize = End(p) + Distance
             /\ Original(p).vaddr + Original(p).filesize = FileEnd(p) + Distance
<1> DEFINE p == elf.phdrs[f[k]]
<1>1. p \in ProgramHeader /\ p \in Loads
  BY Header
<1>2. alignment \in Nat \ {0} /\ shift \in Nat /\ BaseAddress \in Nat
  BY Constants DEF TypeInv
<1>3. p.align = alignment /\ BaseAddress % alignment = 0
  BY <1>1 DEF Aligned
<1>4. ShiftFrom(f) /\ MadeFrom(k, p)
  BY DEF Made
<1>5. /\ segments[k].vaddr = Original(p).vaddr /\ segments[k].memsize = Original(p).memsize
      /\ p.filesz <= p.memsz
  BY <1>4 DEF MadeFrom
<1> HIDE DEF p
<1>6. p.vaddr \in Nat /\ p.memsz \in Nat /\ p.filesz \in Nat
  BY <1>1 DEF ProgramHeader
<1> DEFINE at == p.vaddr + BaseAddress + shift
           offset == at - AlignDown(at, alignment)
<1>7. /\ Original(p).vaddr = at - offset
      /\ Original(p).memsize = p.memsz + offset
      /\ Original(p).filesize = p.filesz + offset
      /\ offset \in Nat
  <2>1. p.align # 0
    BY <1>2, <1>3
  <2> QED BY <1>1, <1>2, <1>3, <2>1, OriginalFields
<1>8. /\ Distance \in Nat /\ Multiple(Distance, alignment) /\ at = p.vaddr + Distance
  BY <1>2, <1>3, <1>4, <1>6, DistanceIsAligned DEF Distance
<1>9. AlignDown(at, alignment) = AlignDown(p.vaddr, alignment) + Distance
      /\ AlignDown(p.vaddr, alignment) \in Int /\ AlignDown(p.vaddr, alignment) <= p.vaddr
  <2>1. AlignDown(p.vaddr, alignment) \in Int /\ AlignDown(p.vaddr, alignment) <= p.vaddr
    <3>1. p.vaddr \in Int
      BY <1>6
    <3> QED BY <1>2, <3>1, Down
  <2>2. AlignDown(p.vaddr + Distance, alignment) = AlignDown(p.vaddr, alignment) + Distance
    <3>1. p.vaddr \in Int /\ Distance \in Int
      BY <1>6, <1>8
    <3> QED BY <1>2, <1>8, <3>1, DownMoved
  <2> QED BY <1>8, <2>1, <2>2
<1>10. End(p) \in Nat /\ p.vaddr <= End(p) /\ FileEnd(p) \in Nat /\ FileEnd(p) <= End(p)
  BY <1>5, <1>6 DEF End, FileEnd
<1>11. AlignUp(End(p), alignment) \in Int /\ End(p) <= AlignUp(End(p), alignment)
  BY <1>2, <1>10, Up
<1> DEFINE down == AlignDown(p.vaddr, alignment)
<1>12. at - offset = down + Distance
  <2> DEFINE low == AlignDown(at, alignment)
  <2>1. low = down + Distance /\ down \in Int /\ at \in Nat
    BY <1>6, <1>8, <1>9
  <2>2. offset = at - low
    OBVIOUS
  <2> HIDE DEF low, down, at, offset
  <2> QED BY <1>8, <2>1, <2>2
<1>13. at \in Nat
  BY <1>6, <1>8
<1> HIDE DEF at, offset, down
<1>14. /\ (at - offset) + (p.memsz + offset) = End(p) + Distance
       /\ (at - offset) + (p.filesz + offset) = FileEnd(p) + Distance
  BY <1>6, <1>7, <1>8, <1>13 DEF End, FileEnd
<1>15. segments[k].vaddr = down + Distance
  BY <1>5, <1>7, <1>12
<1>16. segments[k].vaddr + segments[k].memsize = End(p) + Distance
  BY <1>5, <1>7, <1>14
<1>17. Original(p).vaddr + Original(p).filesize = FileEnd(p) + Distance
  BY <1>7, <1>14
<1> QED BY <1>1, <1>3, <1>6, <1>9, <1>10, <1>11, <1>15, <1>16, <1>17 DEF p, down

\* The segments have pages of their own, in order.
LEMMA PlacesApart ==
  ASSUME ConverterAssumption, TypeInv, pc \in Moved, NEW f, Made(f), Aligned,
         AddressesDiffer, SegmentsApart,
         NEW j \in DOMAIN segments, NEW k \in DOMAIN segments, j < k
  PROVE  AlignUp(End(elf.phdrs[f[j]]), alignment) <= AlignDown(elf.phdrs[f[k]].vaddr, alignment)
<1>1. j # k
  <2>1. segments \in Seq(Segs)
    BY DEF TypeInv
  <2>2. j \in Nat /\ k \in Nat
    BY <2>1
  <2> QED BY <2>2
<1>2. f[j] \in LoadAt /\ f[k] \in LoadAt /\ f[j] # f[k]
  BY <1>1, Header DEF Made
<1>3. elf.phdrs[f[j]] \in Loads /\ elf.phdrs[f[k]] \in Loads
  BY Header
<1>4. elf.phdrs[f[j]].vaddr \in Nat /\ elf.phdrs[f[k]].vaddr \in Nat
  BY Places
<1>5. elf.phdrs[f[j]].vaddr # elf.phdrs[f[k]].vaddr
  BY <1>2 DEF AddressesDiffer
<1>6. pc # "segments"
  BY DEF Moved
<1>7. elf.phdrs[f[j]].vaddr <= elf.phdrs[f[k]].vaddr
  BY <1>6 DEF Made
<1>8. elf.phdrs[f[j]].vaddr < elf.phdrs[f[k]].vaddr
  BY <1>4, <1>5, <1>7
<1> QED BY <1>3, <1>8 DEF SegmentsApart

\* The first segment leaves room for the headers, or makes it, but where it begins
\* behind them in their last page.
LEMMA RoomForHeaders ==
  ASSUME ConverterAssumption, TypeInv, pc \in Moved, NEW f, Made(f), Aligned, segments # <<>>,
         alignment % FileAlignment = 0
  PROVE  SizeOfHeaders <= AlignDown(elf.phdrs[f[1]].vaddr, alignment) + shift
           <=> ~HeadersOverlaid
<1> DEFINE v == elf.phdrs[f[1]].vaddr
           headers == HeaderSize(Len(segments) + 1)
           up == AlignUp(headers, FileAlignment)
           down == AlignDown(v, alignment)
<1>1. /\ segments \in Seq(Segs) /\ Len(segments) \in Nat /\ 1 \in DOMAIN segments
      /\ alignment \in Nat \ {0} /\ FileAlignment \in Nat \ {0} /\ shift \in Nat
  <2>1. segments \in Seq(Segs) /\ alignment \in Nat /\ alignment # 0 /\ shift \in Nat
    BY DEF TypeInv
  <2> QED BY <2>1, Constants, SMTT(30)
<1>2. v \in Nat /\ down \in Int
  BY <1>1, Places
<1>3. headers \in Nat
  <2>1. Len(segments) + 1 \in Nat
    BY <1>1
  <2> QED BY <2>1, HeaderSizeIsNatural
<1>4. SizeOfHeaders <= up /\ SizeOfHeaders \in Nat /\ up \in Nat
  <2>1. SectionNum \in Nat /\ SectionNum <= Len(segments) + 1
    BY <1>1 DEF SectionNum
  <2>2. HeaderSize(SectionNum) <= headers
    <3>1. SectionHeaderBytes \in Nat /\ HeaderBytes \in Nat
      BY Constants
    <3> DEFINE x == SectionNum * SectionHeaderBytes
               y == (Len(segments) + 1) * SectionHeaderBytes
    <3>2. x <= y
      BY <1>1, <2>1, <3>1, Scaled
    <3>3. x = SectionHeaderBytes * SectionNum /\ y = SectionHeaderBytes * (Len(segments) + 1)
          /\ x \in Int /\ y \in Int
      BY <1>1, <2>1, <3>1
    <3> HIDE DEF x, y
    <3>4. HeaderBytes + x <= HeaderBytes + y
      BY <3>1, <3>2, <3>3
    <3> QED BY <3>3, <3>4 DEF HeaderSize
  <2>3. HeaderSize(SectionNum) \in Nat
    BY <2>1, HeaderSizeIsNatural
  <2> HIDE DEF headers
  <2>4. SizeOfHeaders <= up
    BY <1>1, <1>3, <2>2, <2>3, UpMonotone DEF SizeOfHeaders
  <2> QED BY <1>1, <1>3, <2>3, <2>4, UpIsNatural DEF SizeOfHeaders
<1>5. shift = IF v <= headers THEN AlignUp(headers, alignment) ELSE 0
  BY DEF Made, ShiftFrom
<1>7. v = Min({p.vaddr : p \in Loads})
  <2> DEFINE T == {p.vaddr : p \in Loads}
  <2>1. \A n \in LoadAt : \E k \in DOMAIN segments : f[k] = n /\ v <= elf.phdrs[n].vaddr
    <3> SUFFICES ASSUME NEW n \in LoadAt
                 PROVE  \E k \in DOMAIN segments : f[k] = n /\ v <= elf.phdrs[n].vaddr
      OBVIOUS
    <3>1. n \in Seen /\ pc # "segments"
      BY DEF Seen, Moved
    <3>2. PICK k \in DOMAIN segments : f[k] = n
      BY <3>1 DEF Made
    <3>3. CASE k = 1
      BY <1>2, <3>2, <3>3
    <3>4. CASE k # 1
      <4>1. 1 < k
        <5>1. k \in 1 .. Len(segments)
          BY <1>1
        <5> QED BY <1>1, <3>4, <5>1
      <4> QED BY <1>1, <3>1, <3>2, <4>1 DEF Made
    <3> QED BY <3>3, <3>4
  <2>2. \A x \in T : x \in Nat /\ v <= x
    <3> SUFFICES ASSUME NEW p \in Loads PROVE p.vaddr \in Nat /\ v <= p.vaddr
      OBVIOUS
    <3>1. PICK n \in LoadAt : p = elf.phdrs[n]
      BY DEF Loads
    <3>2. PICK k \in DOMAIN segments : f[k] = n /\ v <= elf.phdrs[n].vaddr
      BY <2>1
    <3>3. elf.phdrs[f[k]].vaddr \in Nat
      BY Places
    <3> QED BY <3>1, <3>2, <3>3
  <2>3. v \in T
    BY <1>1, Places
  <2> HIDE DEF T, v
  <2>4. T \in SUBSET Nat /\ T # {}
    BY <2>2, <2>3
  <2>5. Min(T) \in T /\ Min(T) <= v
    BY <2>3, <2>4, Least
  <2>6. Min(T) \in Nat /\ v <= Min(T)
    BY <2>2, <2>5
  <2>7. v = Min(T)
    BY <1>2, <2>5, <2>6
  <2> QED BY <2>7 DEF T
<1>6. HeadersOverlaid <=> v > headers /\ down < SizeOfHeaders
  BY <1>7 DEF HeadersOverlaid
<1> HIDE DEF v, headers
<1>8. CASE v <= headers
  <2>1. shift = AlignUp(headers, alignment) /\ headers <= shift /\ Multiple(shift, alignment)
    BY <1>1, <1>3, <1>5, <1>8, Up
  <2>2. Multiple(alignment, FileAlignment)
    BY <1>1, Divisible
  <2>3. Multiple(shift, FileAlignment)
    BY <1>1, <2>1, <2>2, MultipleOf, SMTT(30)
  <2>4. up <= shift
    BY <1>1, <1>3, <2>1, <2>3, FirstAbove, SMTT(30)
  <2>5. 0 <= down
    <3>1. Multiple(0, alignment)
      <4>1. 0 = 0 * alignment
        BY <1>1
      <4> QED BY <4>1 DEF Multiple
    <3> QED BY <1>1, <1>2, <3>1, LastBelow
  <2>6. SizeOfHeaders <= down + shift
    <3> HIDE DEF up, down
    <3> QED BY <1>1, <1>2, <1>4, <2>4, <2>5, SMTT(30)
  <2>7. ~HeadersOverlaid
    BY <1>2, <1>3, <1>6, <1>8
  <2> QED BY <2>6, <2>7 DEF v
<1>9. CASE ~(v <= headers)
  <2>1. shift = 0
    BY <1>5, <1>9
  <2>2. HeadersOverlaid <=> down < SizeOfHeaders
    BY <1>2, <1>3, <1>6, <1>9
  <2>3. SizeOfHeaders <= down + shift <=> ~HeadersOverlaid
    <3> HIDE DEF up, down
    <3> QED BY <1>2, <1>4, <2>1, <2>2
  <2> QED BY <2>3 DEF v
<1> QED BY <1>8, <1>9

\* write_pe() writes sections only where pages are made of whole blocks of the file.
PagesOfBlocks == pc \in {"sections", "done"} => alignment % FileAlignment = 0

LEMMA PagesStay == Spec => []PagesOfBlocks
<1>1. Init => PagesOfBlocks
  BY SMTT(30) DEF Init, PagesOfBlocks
<1>2. PagesOfBlocks /\ [Next]_vars => PagesOfBlocks'
  BY DEF PagesOfBlocks, Next, vars, LoadSegment, SortSegments, LoadRela, LoadRel,
         ComputeAlignment, ChooseShift, RelocateSegment, RelocateRelocs, ApplyReloc, Overrun,
         Applied, CreateBlock, BlocksCreated, WriteHeaders, WriteSection, WriteReloc,
         WriteFails, Exit
<1> QED BY <1>1, <1>2, PTL DEF Spec

\* Of segments with one alignment, that is the one computed.
AlignmentInv == pc \in {"shift", "relocate"} \cup Moved /\ OneAlignment => Aligned

LEMMA Itself ==
  ASSUME NEW a \in Nat \ {0}
  PROVE  a % a = 0 /\ a \div a = 1
<1>1. Multiple(a, a)
  <2>1. a = 1 * a
    OBVIOUS
  <2> QED BY <2>1 DEF Multiple
<1>2. a % a = 0
  BY <1>1, Divisible
<1> DEFINE q == a \div a
<1>3. q \in Int /\ a = q * a
  <2>1. q \in Int /\ a = q * a + (a % a)
    BY Division
  <2> HIDE DEF q
  <2>2. q * a \in Int
    BY <2>1
  <2> DEFINE m == q * a
  <2>3. m \in Int /\ a = m + 0
    BY <1>2, <2>1, <2>2
  <2> HIDE DEF m
  <2>4. a = m
    BY <2>3
  <2> QED BY <2>1, <2>4 DEF m
<1> HIDE DEF q
<1>4. ~(q <= 0)
  <2> SUFFICES ASSUME q <= 0 PROVE FALSE
    OBVIOUS
  <2>1. q * a <= 0 * a /\ 0 * a = 0
    BY <1>3, Scaled
  <2> QED BY <1>3, <2>1
<1>5. ~(2 <= q)
  <2> SUFFICES ASSUME 2 <= q PROVE FALSE
    OBVIOUS
  <2>1. 2 * a <= q * a /\ 2 * a = a + a
    BY <1>3, Scaled
  <2>2. a + a <= a
    BY <1>3, <2>1
  <2> QED BY <2>2
<1>6. q = 1
  BY <1>3, <1>4, <1>5
<1> QED BY <1>2, <1>6 DEF q

LEMMA GreatestDivisor ==
  ASSUME NEW a \in Nat \ {0}, Alignments = {a}
  PROVE  GCD = a
<1>1. Max({a}) = a
  <2>1. {a} \in SUBSET (1 .. a) /\ a \in Nat
    OBVIOUS
  <2> QED BY <2>1, Greatest
<1> DEFINE D == {d \in 1 .. a : a % d = 0}
<1>2. GCD = Max(D)
  BY <1>1 DEF GCD
<1>3. a \in D /\ D \in SUBSET (1 .. a) /\ a \in Nat
  BY Itself
<1>4. \A d \in D : d \in Nat /\ d <= a
  OBVIOUS
<1> HIDE DEF D
<1>5. Max(D) \in D /\ a <= Max(D)
  BY <1>3, Greatest
<1> QED BY <1>2, <1>4, <1>5

LEMMA ProductOfOnes ==
  ASSUME NEW a \in Nat, NEW s \in Seq({1})
  PROVE  FoldLeft(Times, a, s) = a
<1>1. \A x \in {a}, e \in {1} : Times(x, e) \in {a}
  BY DEF Times
<1> DEFINE S == {1}
           T == {a}
<1>2. a \in T /\ s \in Seq(S) /\ \A x \in T, e \in S : Times(x, e) \in T
  BY <1>1
<1> HIDE DEF S, T
<1>3. Multiplying!Fold(a, s) \in T
  BY <1>2, Multiplying!FoldKeeps
<1> QED BY <1>3, MultiplyingFolds DEF T

LEMMA AlignmentComputed ==
  ASSUME ConverterAssumption, ConverterInv, ComputeAlignment, pc' # "crash", OneAlignment
  PROVE  (\A p \in Loads : p.align = alignment') /\ BaseAddress % alignment' = 0
<1>1. TypeInv /\ pc = "alignment" /\ segments \in Seq(Segs)
  BY DEF ConverterInv, TypeInv, ComputeAlignment
<1>2. PICK f : Made(f)
  BY <1>1 DEF ConverterInv, SegmentsMade, Stopped
<1>3. UnmovedFrom(f)
  BY <1>1, <1>2, UnmovedIsMade DEF Unmoved
<1>4. segments # <<>>
  BY <1>1, NotEmpty DEF ConverterInv, TypeInv, Stopped
<1>5. 1 \in DOMAIN segments
  BY <1>1, <1>4
<1>6. PICK p \in Loads : p = elf.phdrs[f[1]] /\ p \in ProgramHeader
  BY <1>1, <1>2, <1>5, Header
<1> DEFINE a == p.align
<1>7. a \in Nat /\ BaseAddress % a = 0 /\ \A q \in Loads : q.align = a
  BY <1>6 DEF OneAlignment, ProgramHeader
<1>8. \A k \in DOMAIN segments : segments[k].align = a
  <2> SUFFICES ASSUME NEW k \in DOMAIN segments PROVE segments[k].align = a
    OBVIOUS
  <2>1. segments[k] = Segment(elf.phdrs[f[k]])
    BY <1>3 DEF UnmovedFrom
  <2>2. elf.phdrs[f[k]] \in Loads
    BY <1>1, <1>2, Header
  <2> QED BY <1>7, <2>1, <2>2 DEF Segment
<1> HIDE DEF a
<1>9. Alignments = {a}
  BY <1>5, <1>8 DEF Alignments
<1>10. /\ a \in Nat \ {0}
       /\ alignment' = FoldLeft(Times, GCD, [k \in DOMAIN segments |-> segments[k].align \div GCD])
  BY <1>7, <1>9 DEF ComputeAlignment
<1>11. GCD = a
  BY <1>9, <1>10, GreatestDivisor
<1> DEFINE quotients == [k \in DOMAIN segments |-> segments[k].align \div GCD]
<1>12. quotients \in Seq({1})
  <2>1. \A k \in DOMAIN segments : segments[k].align \div GCD = 1
    BY <1>8, <1>10, <1>11, Itself
  <2>2. quotients \in [1 .. Len(segments) -> {1}] /\ Len(segments) \in Nat
    BY <1>1, <2>1
  <2> QED BY <2>2
<1> HIDE DEF quotients
<1>13. alignment' = a
  BY <1>10, <1>11, <1>12, ProductOfOnes DEF quotients
<1> QED BY <1>7, <1>13

LEMMA AlignmentStays == Spec => []AlignmentInv
<1>1. Init => AlignmentInv
  BY SMTT(30) DEF Init, AlignmentInv, Moved
<1>2. AlignmentInv /\ ConverterInv /\ [Next]_vars => AlignmentInv'
  <2> SUFFICES ASSUME AlignmentInv, ConverterInv, [Next]_vars,
                      pc' \in {"shift", "relocate"} \cup Moved, OneAlignment'
               PROVE  Aligned'
    BY DEF AlignmentInv
  <2>1. elf' = elf
    BY DEF Next, vars, LoadSegment, SortSegments, LoadRela, LoadRel,
           ComputeAlignment, ChooseShift, RelocateSegment, RelocateRelocs, ApplyReloc,
           Overrun, Applied, CreateBlock, BlocksCreated, WriteHeaders, WriteSection,
           WriteReloc, WriteFails, Exit
  <2>2. OneAlignment /\ Loads' = Loads
    BY <2>1 DEF OneAlignment, Loads, LoadAt
  <2>3. CASE ComputeAlignment
    <3>1. pc' # "crash"
      BY DEF Moved
    <3> QED BY <2>2, <2>3, <3>1, ConverterAssumption, AlignmentComputed DEF Aligned
  <2>4. CASE ~ComputeAlignment
    <3>1. pc \in {"shift", "relocate"} \cup Moved /\ alignment' = alignment
      BY <2>4 DEF Moved, Next, vars, LoadSegment, SortSegments, LoadRela, LoadRel,
         ChooseShift, RelocateSegment, RelocateRelocs, ApplyReloc, Overrun, Applied,
         CreateBlock, BlocksCreated, WriteHeaders, WriteSection, WriteReloc, WriteFails, Exit
    <3> QED BY <2>2, <3>1 DEF AlignmentInv, Aligned
  <2> QED BY <2>3, <2>4
<1> QED BY <1>1, <1>2, TypeCorrect, PTL DEF Spec

\* The sections, and where the firmware is told to load them.
FirstPage(f, k) == AlignDown(elf.phdrs[f[k]].vaddr, alignment)
PagesEnd(f, k) == AlignUp(End(elf.phdrs[f[k]]), alignment)
EndOf(f, k) == End(elf.phdrs[f[k]])

LEMMA PlacesOnPages ==
  ASSUME ConverterAssumption, TypeInv, pc \in Moved, NEW f, Made(f), Aligned
  PROVE  \A k \in DOMAIN segments :
              /\ FirstPage(f, k) \in Int /\ EndOf(f, k) \in Int /\ PagesEnd(f, k) \in Int
              /\ FirstPage(f, k) <= EndOf(f, k) /\ EndOf(f, k) <= PagesEnd(f, k)
              /\ Multiple(FirstPage(f, k) + shift, alignment)
              /\ Multiple(PagesEnd(f, k) + shift, alignment)
              /\ AlignUp(EndOf(f, k) + shift, alignment) = PagesEnd(f, k) + shift
              /\ AlignUp(EndOf(f, k) + Distance, alignment) = PagesEnd(f, k) + Distance
              /\ segments[k].vaddr = FirstPage(f, k) + Distance
              /\ segments[k].vaddr + segments[k].memsize = EndOf(f, k) + Distance
<1>1. alignment \in Nat \ {0}
  BY DEF TypeInv
<1>2. ASSUME NEW k \in DOMAIN segments
      PROVE  /\ FirstPage(f, k) \in Int /\ EndOf(f, k) \in Int /\ PagesEnd(f, k) \in Int
             /\ FirstPage(f, k) <= EndOf(f, k) /\ EndOf(f, k) <= PagesEnd(f, k)
             /\ Multiple(FirstPage(f, k) + shift, alignment)
             /\ Multiple(PagesEnd(f, k) + shift, alignment)
             /\ AlignUp(EndOf(f, k) + shift, alignment) = PagesEnd(f, k) + shift
             /\ AlignUp(EndOf(f, k) + Distance, alignment) = PagesEnd(f, k) + Distance
             /\ segments[k].vaddr = FirstPage(f, k) + Distance
             /\ segments[k].vaddr + segments[k].memsize = EndOf(f, k) + Distance
  <2> DEFINE p == elf.phdrs[f[k]]
  <2>1. /\ p \in Loads /\ p.vaddr \in Nat /\ End(p) \in Nat /\ p.vaddr <= End(p)
        /\ AlignDown(p.vaddr, alignment) \in Int /\ AlignUp(End(p), alignment) \in Int
        /\ AlignDown(p.vaddr, alignment) <= p.vaddr
        /\ End(p) <= AlignUp(End(p), alignment)
        /\ segments[k].vaddr = AlignDown(p.vaddr, alignment) + Distance
        /\ segments[k].vaddr + segments[k].memsize = End(p) + Distance
    BY Places
  <2>2. Distance \in Nat /\ shift \in Nat
        /\ Multiple(shift, alignment) /\ Multiple(Distance, alignment)
    BY <1>1, DistanceIsAligned DEF Made, Aligned, Moved
  <2> HIDE DEF p
  <2>3. Multiple(AlignDown(p.vaddr, alignment), alignment)
    <3>1. p.vaddr \in Int
      BY <2>1
    <3> QED BY <1>1, <3>1, Down
  <2>4. End(p) \in Int /\ shift \in Int /\ Distance \in Int
    BY <2>1, <2>2
  <2>5. Multiple(AlignUp(End(p), alignment), alignment)
    BY <1>1, <2>4, Up
  <2>6. Multiple(AlignDown(p.vaddr, alignment) + shift, alignment)
        /\ Multiple(AlignUp(End(p), alignment) + shift, alignment)
    BY <1>1, <2>1, <2>2, <2>3, <2>4, <2>5, Sums
  <2>7. AlignUp(End(p) + shift, alignment) = AlignUp(End(p), alignment) + shift
        /\ AlignUp(End(p) + Distance, alignment) = AlignUp(End(p), alignment) + Distance
    BY <1>1, <2>2, <2>4, UpMoved, ZenonT(30)
  <2>8. AlignDown(p.vaddr, alignment) <= End(p)
    BY <2>1
  <2> QED BY <2>1, <2>4, <2>6, <2>7, <2>8 DEF p, FirstPage, PagesEnd, EndOf
<1> QED BY <1>2

LEMMA SegmentOf ==
  ASSUME pc \in Moved, NEW f, Made(f), NEW p \in Loads
  PROVE  \E k \in DOMAIN segments : elf.phdrs[f[k]] = p
<1>1. PICK n \in LoadAt : p = elf.phdrs[n]
  BY DEF Loads
<1>2. n \in Seen
  BY DEF Seen, Moved
<1> QED BY <1>1, <1>2 DEF Made

\* Of segments with one alignment the converter makes sections that have it, too.
\* They are all behind the headers but where HeadersOverlaid says; and they, .reloc
\* among them, are in order, on pages of their own and inside sizeOfImage exactly when
\* no two segments share a page (exec_address_alignment(), relocate_exec(),
\* write_pe()).
THEOREM SectionsAreDisjoint == Spec => []SectionsDisjoint
<1>1. ASSUME ConverterInv, FileInv, PagesOfBlocks, AlignmentInv PROVE SectionsDisjoint
  <2> SUFFICES ASSUME pc = "done", OneAlignment PROVE SectionsDisjoint
    BY DEF SectionsDisjoint
  <2> USE ConverterAssumption
  <2> DEFINE s == image.sections
             n == Len(segments)
  <2>0. Aligned
    BY <1>1 DEF AlignmentInv, Moved
  <2>1. /\ TypeInv /\ segments \in Seq(Segs) /\ n \in Nat /\ DOMAIN segments = 1 .. n
        /\ shift \in Nat /\ pc \in Moved /\ BaseAddress \in Nat
    <3>1. TypeInv /\ segments \in Seq(Segs) /\ shift \in Nat
      BY <1>1 DEF ConverterInv, TypeInv
    <3> QED BY <3>1, Constants DEF Moved
  <2>2. PICK f : Made(f)
    BY <1>1 DEF ConverterInv, SegmentsMade, Stopped
  <2>3. segments # <<>>
    BY <1>1, <2>1, NotEmpty DEF ConverterInv, TypeInv, Stopped
  <2>4. /\ image = Image /\ alignment % FileAlignment = 0 /\ alignment \in Nat \ {0}
    BY <1>1, <2>1 DEF FileInv, PagesOfBlocks, TypeInv, Stopped
  <2>5. /\ s = SectionHeaders /\ image.headers = SizeOfHeaders
        /\ image.sectionAlignment = alignment
        /\ image.size = AlignUp(RelocVaddr + RelocSize - BaseAddress, alignment)
    BY <2>4 DEF Image
  <2>6. Distance \in Nat /\ Distance = BaseAddress + shift
    BY <2>1 DEF Distance
  <2> DEFINE down(k) == FirstPage(f, k)
             end(k) == EndOf(f, k)
             up(k) == PagesEnd(f, k)
  <2>7. \A k \in 1 .. n :
           /\ down(k) \in Int /\ end(k) \in Int /\ up(k) \in Int
           /\ down(k) <= end(k) /\ end(k) <= up(k)
           /\ Multiple(down(k) + shift, alignment)
           /\ Multiple(up(k) + shift, alignment)
           /\ AlignUp(end(k) + shift, alignment) = up(k) + shift
           /\ AlignUp(end(k) + Distance, alignment) = up(k) + Distance
           /\ segments[k].vaddr = down(k) + Distance
           /\ segments[k].vaddr + segments[k].memsize = end(k) + Distance
    BY <2>0, <2>1, <2>2, PlacesOnPages
  <2>8. n \in 1 .. n /\ 1 \in 1 .. n
    BY <2>1, <2>3
  <2>9. (SizeOfHeaders <= down(1) + shift <=> ~HeadersOverlaid) /\ SizeOfHeaders \in Nat
    <3>1. SizeOfHeaders <= FirstPage(f, 1) + shift <=> ~HeadersOverlaid
      BY <2>0, <2>1, <2>2, <2>3, <2>4, RoomForHeaders DEF FirstPage
    <3> QED BY <2>1, <3>1, HeadersFit
  <2>10. RelocSize \in Nat /\ RelocHeader.size = RelocSize
    BY <2>1, RelocSizes DEF RelocHeader
  <2>11. RelocVaddr = up(n) + Distance
    <3>1. RelocVaddr = AlignUp(segments[n].vaddr + segments[n].memsize, alignment)
      BY DEF RelocVaddr
    <3> QED BY <2>7, <2>8, <3>1
  <2>12. ASSUME NEW k \in DOMAIN s
         PROVE  /\ k \in 1 .. n + 1
                /\ k \in 1 .. n => s[k].rva = down(k) + shift
                                   /\ s[k].rva + s[k].size = end(k) + shift
                /\ k \notin 1 .. n => k = n + 1 /\ s[k].rva = up(n) + shift
                                      /\ s[k].rva + s[k].size = up(n) + shift + RelocSize
    <3>1. k \in 1 .. SectionNum
      BY <2>1, <2>5, HeadersPoint
    <3>2. CASE k \in 1 .. n
      <4>1. s[k] = SegmentHeader(k)
        BY <2>1, <2>5, <3>2, HeadersPoint
      <4>2. s[k].rva = segments[k].vaddr - BaseAddress /\ s[k].size = segments[k].memsize
        BY <4>1 DEF SegmentHeader
      <4> DEFINE v == segments[k].vaddr
                 m == segments[k].memsize
                 d == down(k)
                 e == end(k)
      <4>3. /\ v = d + Distance /\ v + m = e + Distance /\ d \in Int /\ e \in Int
        BY <2>7, <3>2
      <4>4. v \in Int /\ m \in Int
        BY <2>1, <3>2, SegmentFields
      <4>5. s[k].rva = v - BaseAddress /\ s[k].size = m
        BY <4>2
      <4> HIDE DEF v, m, d, e, s
      <4>6. s[k].rva = d + shift /\ s[k].rva + s[k].size = e + shift
        BY <2>1, <2>6, <4>3, <4>4, <4>5
      <4>7. k \in 1 .. n + 1
        BY <2>1, <3>2
      <4> QED BY <3>2, <4>6, <4>7 DEF d, e
    <3>3. CASE k \notin 1 .. n
      <4>1. k = n + 1 /\ s[k] = RelocHeader
        BY <2>1, <2>5, <3>1, <3>3, HeadersPoint
      <4>2. s[k].rva = RelocVaddr - BaseAddress /\ s[k].size = RelocSize
        BY <4>1 DEF RelocHeader
      <4>3. up(n) \in Int
        BY <2>7, <2>8
      <4> DEFINE u == up(n)
      <4>4. RelocVaddr = u + Distance /\ u \in Int
        BY <2>11, <4>3
      <4> HIDE DEF u, s
      <4>5. s[k].rva = u + shift
        BY <2>1, <2>6, <4>2, <4>4
      <4>6. s[k].rva + s[k].size = u + shift + RelocSize
        BY <2>1, <2>10, <4>2, <4>4, <4>5
      <4>7. k \in 1 .. n + 1
        BY <2>1, <4>1
      <4> QED BY <3>3, <4>1, <4>5, <4>6, <4>7 DEF u
    <3> QED BY <3>2, <3>3
  <2>13. image.size \in Int /\ up(n) + shift + RelocSize <= image.size
    <3> DEFINE u == up(n)
               total == RelocVaddr + RelocSize - BaseAddress
    <3>1. u \in Int /\ RelocVaddr = u + Distance
      BY <2>7, <2>8, <2>11
    <3> HIDE DEF u
    <3>2. total = u + shift + RelocSize /\ total \in Int
      BY <2>1, <2>6, <2>10, <3>1
    <3> HIDE DEF total
    <3>3. total <= AlignUp(total, alignment) /\ AlignUp(total, alignment) \in Int
      BY <2>4, <3>2, Up
    <3>4. image.size = AlignUp(total, alignment)
      BY <2>5 DEF total
    <3> QED BY <3>2, <3>3, <3>4 DEF u
  <2>14. \A k \in 1 .. n : down(1) <= down(k)
    <3> SUFFICES ASSUME NEW k \in 1 .. n PROVE down(1) <= down(k)
      OBVIOUS
    <3>1. CASE k = 1
      BY <2>7, <2>8, <3>1
    <3>2. CASE k # 1
      <4>1. 1 < k /\ pc # "segments"
        BY <2>1, <3>2 DEF Moved
      <4>2. elf.phdrs[f[1]].vaddr <= elf.phdrs[f[k]].vaddr
        BY <2>1, <2>2, <2>8, <4>1 DEF Made
      <4>3. elf.phdrs[f[1]].vaddr \in Nat /\ elf.phdrs[f[k]].vaddr \in Nat
        BY <2>0, <2>1, <2>2, <2>8, Places
      <4> DEFINE x == elf.phdrs[f[1]].vaddr
                 y == elf.phdrs[f[k]].vaddr
      <4>4. x \in Int /\ y \in Int /\ x <= y
        BY <4>2, <4>3
      <4> HIDE DEF x, y
      <4>5. AlignDown(x, alignment) <= AlignDown(y, alignment)
        BY <2>4, <4>4, DownMonotone
      <4> QED BY <4>5 DEF x, y, FirstPage
    <3> QED BY <3>1, <3>2
  <2>15. SegmentsApart /\ AddressesDiffer =>
           \A j, k \in 1 .. n : j < k => up(j) <= down(k)
    BY <2>0, <2>1, <2>2, PlacesApart DEF FirstPage, PagesEnd
  <2>16. \A k \in 1 .. n : k \in DOMAIN s
    BY <2>1, <2>5, HeadersPoint
  <2> HIDE DEF s, n, down, end, up
  <2>17. ASSUME NEW k \in DOMAIN s
         PROVE  /\ s[k].rva \in Int /\ Multiple(s[k].rva, alignment)
                /\ down(1) + shift <= s[k].rva
    <3>1. CASE k \in 1 .. n
      <4>1. s[k].rva = down(k) + shift /\ Multiple(down(k) + shift, alignment)
            /\ down(1) <= down(k) /\ down(1) \in Int /\ down(k) \in Int
        BY <2>7, <2>8, <2>12, <2>14, <3>1
      <4> QED BY <2>1, <4>1
    <3>2. CASE k \notin 1 .. n
      <4>1. s[k].rva = up(n) + shift /\ Multiple(up(n) + shift, alignment)
            /\ down(1) <= down(n) /\ down(n) <= end(n) /\ end(n) <= up(n)
            /\ down(1) \in Int /\ down(n) \in Int /\ end(n) \in Int /\ up(n) \in Int
        BY <2>7, <2>8, <2>12, <2>14, <3>2
      <4> QED BY <2>1, <4>1
    <3> QED BY <3>1, <3>2
  <2>18. \A k \in DOMAIN s : s[k].rva % alignment = 0
    <3> SUFFICES ASSUME NEW k \in DOMAIN s PROVE s[k].rva % alignment = 0
      OBVIOUS
    <3> DEFINE rva == s[k].rva
    <3>1. rva \in Int /\ Multiple(rva, alignment)
      BY <2>17
    <3> HIDE DEF rva
    <3>2. rva % alignment = 0
      BY <2>4, <3>1, Divisible
    <3> QED BY <3>2 DEF rva
  <2> DEFINE headersEnd == AlignUp(SizeOfHeaders, alignment)
  <2>19. (\A k \in DOMAIN s : s[k].rva >= headersEnd) <=> ~HeadersOverlaid
    <3>1. headersEnd \in Int /\ SizeOfHeaders <= headersEnd
      BY <2>4, <2>9, Up
    <3>2. down(1) \in Int /\ 1 \in DOMAIN s /\ s[1].rva = down(1) + shift
      BY <2>7, <2>8, <2>12, <2>16
    <3>3. ASSUME ~HeadersOverlaid, NEW k \in DOMAIN s PROVE s[k].rva >= headersEnd
      <4> DEFINE rva == s[k].rva
      <4>1. rva \in Int /\ Multiple(rva, alignment) /\ down(1) + shift <= rva
        BY <2>17
      <4>2. SizeOfHeaders <= down(1) + shift
        BY <2>9, <3>3
      <4> HIDE DEF rva
      <4>3. SizeOfHeaders <= rva
        BY <2>1, <2>9, <3>2, <4>1, <4>2
      <4>4. headersEnd <= rva
        BY <2>4, <2>9, <4>1, <4>3, FirstAbove
      <4> HIDE DEF headersEnd
      <4> QED BY <3>1, <4>1, <4>4 DEF rva
    <3>4. ASSUME \A k \in DOMAIN s : s[k].rva >= headersEnd PROVE ~HeadersOverlaid
      <4>1. down(1) + shift >= headersEnd
        BY <3>2, <3>4
      <4> HIDE DEF headersEnd
      <4>2. SizeOfHeaders <= down(1) + shift
        BY <2>1, <2>9, <3>1, <3>2, <4>1
      <4> QED BY <2>9, <4>2
    <3> QED BY <3>3, <3>4
  <2> HIDE DEF headersEnd
  <2> DEFINE inside == \A k \in DOMAIN s : s[k].rva + s[k].size <= image.size
             ordered == \A j, k \in DOMAIN s :
                          j < k => AlignUp(s[j].rva + s[j].size, alignment) <= s[k].rva
  <2>20. ASSUME AddressesDiffer, SegmentsApart PROVE inside /\ ordered
    <3>1. \A k \in 1 .. n : up(k) \in Int /\ up(n) \in Int /\ up(k) <= up(n)
      <4> SUFFICES ASSUME NEW k \in 1 .. n
                   PROVE  up(k) \in Int /\ up(n) \in Int /\ up(k) <= up(n)
        OBVIOUS
      <4>1. /\ up(k) \in Int /\ down(n) \in Int /\ end(n) \in Int /\ up(n) \in Int
            /\ down(n) <= end(n) /\ end(n) <= up(n)
        BY <2>7, <2>8
      <4>2. CASE k < n
        <5>1. up(k) <= down(n)
          BY <2>8, <2>15, <2>20, <4>2
        <5> QED BY <4>1, <5>1
      <4>3. CASE k = n
        BY <4>1, <4>3
      <4>4. k = n \/ k < n
        BY <2>1
      <4> QED BY <4>1, <4>2, <4>3, <4>4
    <3>2. ASSUME NEW k \in DOMAIN s PROVE s[k].rva + s[k].size <= image.size
      <4>1. CASE k \in 1 .. n
        <5>1. s[k].rva + s[k].size = end(k) + shift /\ end(k) \in Int
              /\ up(k) \in Int /\ end(k) <= up(k) /\ up(k) <= up(n) /\ up(n) \in Int
          BY <2>7, <2>12, <3>1, <4>1
        <5> DEFINE e == end(k)
                   u == up(k)
                   m == up(n)
        <5>2. /\ e \in Int /\ u \in Int /\ m \in Int /\ e <= u /\ u <= m
              /\ m + shift + RelocSize <= image.size
          BY <2>13, <5>1
        <5> HIDE DEF e, u, m
        <5>3. e + shift <= image.size
          BY <2>1, <2>10, <2>13, <5>2, SMTT(30)
        <5> QED BY <5>1, <5>3 DEF e
      <4>2. CASE k \notin 1 .. n
        BY <2>12, <2>13, <4>2
      <4> QED BY <4>1, <4>2
    <3>3. ASSUME NEW j \in DOMAIN s, NEW k \in DOMAIN s, j < k
          PROVE  AlignUp(s[j].rva + s[j].size, alignment) <= s[k].rva
      <4>1. j \in 1 .. n + 1 /\ k \in 1 .. n + 1
        BY <2>12
      <4>2. j \in 1 .. n /\ j \in Int /\ k \in Int
        BY <2>1, <3>3, <4>1
      <4>3. AlignUp(s[j].rva + s[j].size, alignment) = up(j) + shift /\ up(j) \in Int
        BY <2>7, <2>12, <4>2
      <4>4. CASE k \in 1 .. n
        <5>1. s[k].rva = down(k) + shift /\ up(j) <= down(k) /\ down(k) \in Int
          BY <2>7, <2>12, <2>15, <2>20, <3>3, <4>2, <4>4
        <5> QED BY <2>1, <4>3, <5>1
      <4>5. CASE k \notin 1 .. n
        <5>1. s[k].rva = up(n) + shift /\ up(j) <= up(n) /\ up(n) \in Int
          BY <2>12, <3>1, <4>2, <4>5
        <5> QED BY <2>1, <4>3, <5>1
      <4> QED BY <4>4, <4>5
    <3> QED BY <3>2, <3>3
  <2>21. ASSUME ordered PROVE SegmentsApart
    <3> SUFFICES ASSUME NEW p \in Loads, NEW q \in Loads, p.vaddr < q.vaddr
                 PROVE  AlignUp(End(p), alignment) <= AlignDown(q.vaddr, alignment)
      BY DEF SegmentsApart
    <3>1. PICK j \in 1 .. n : elf.phdrs[f[j]] = p
      BY <2>1, <2>2, SegmentOf
    <3>2. PICK k \in 1 .. n : elf.phdrs[f[k]] = q
      BY <2>1, <2>2, SegmentOf
    <3>3. p.vaddr \in Nat /\ q.vaddr \in Nat
      BY <2>0, <2>1, <2>2, <3>1, <3>2, Places
    <3>4. j < k
      <4>1. j # k
        BY <3>1, <3>2, <3>3
      <4>2. ~(k < j)
        <5> SUFFICES ASSUME k < j PROVE FALSE
          OBVIOUS
        <5>1. pc # "segments"
          BY <2>1 DEF Moved
        <5>2. q.vaddr <= p.vaddr
          BY <2>1, <2>2, <3>1, <3>2, <5>1 DEF Made
        <5> QED BY <3>3, <5>2
      <4> QED BY <2>1, <4>1, <4>2
    <3>5. /\ AlignUp(s[j].rva + s[j].size, alignment) = up(j) + shift /\ up(j) \in Int
          /\ s[k].rva = down(k) + shift /\ down(k) \in Int
      BY <2>7, <2>12, <2>16
    <3>6. up(j) + shift <= down(k) + shift
      BY <2>16, <2>21, <3>4, <3>5
    <3>7. up(j) <= down(k)
      BY <2>1, <3>5, <3>6
    <3> QED BY <3>1, <3>2, <3>7 DEF up, down, PagesEnd, FirstPage
  <2>22. \A p \in Loads : image.sectionAlignment = p.align
    BY <2>0, <2>5 DEF Aligned
  <2>23. \A k \in DOMAIN s : s[k].rva % image.sectionAlignment = 0
    BY <2>5, <2>18
  <2>24. AddressesDiffer => (inside /\ ordered <=> SegmentsApart)
    BY <2>20, <2>21
  <2>25. (\A k \in DOMAIN s : s[k].rva >= AlignUp(image.headers, image.sectionAlignment))
           <=> ~HeadersOverlaid
    BY <2>5, <2>19 DEF headersEnd
  <2> QED BY <2>5, <2>22, <2>23, <2>24, <2>25 DEF SectionsDisjoint, s
<1> QED BY <1>1, TypeCorrect, FileInvHolds, PagesStay, AlignmentStays, PTL

-----------------------------------------------------------------------------
(***************************************************************************)
(* The relocations.                                                        *)
(***************************************************************************)
LEMMA Quotient ==
  ASSUME NEW n \in Nat, NEW b \in Nat \ {0}
  PROVE  (b * n) \div b = n
<1> DEFINE x == b * n
           q == x \div b
           y == q * b
           z == n * b
<1>1. x \in Nat /\ x = z
  OBVIOUS
<1>2. q \in Int /\ x % b \in 0 .. b - 1 /\ x = q * b + (x % b)
  <2>1. x \in Int
    BY <1>1
  <2> HIDE DEF x
  <2> QED BY <2>1, Division
<1>3. z < y + b /\ y <= z /\ y \in Int /\ z \in Int
  <2> DEFINE r == x % b
  <2>1. r \in 0 .. b - 1 /\ z = y + r
    BY <1>1, <1>2
  <2>2. y \in Int /\ z \in Int
    BY <1>2
  <2> HIDE DEF x, y, z, q, r
  <2> QED BY <2>1, <2>2
<1> HIDE DEF x, q
<1>4. n <= q
  <2>1. CASE q < n
    <3>1. (q + 1) * b <= n * b
      BY <1>2, <2>1, Scaled
    <3>2. (q + 1) * b = y + b
      BY <1>2
    <3> HIDE DEF y, z
    <3> QED BY <1>3, <3>1, <3>2 DEF z
  <2> QED BY <1>2, <2>1
<1>5. q <= n
  <2>1. CASE n < q
    <3>1. (n + 1) * b <= q * b
      BY <1>2, <2>1, Scaled
    <3>2. (n + 1) * b = z + b
      OBVIOUS
    <3>3. z + b <= y
      BY <3>1, <3>2
    <3> HIDE DEF y, z
    <3> QED BY <1>3, <3>3
  <2> QED BY <1>2, <2>1
<1>6. q = n
  BY <1>2, <1>4, <1>5
<1> QED BY <1>6 DEF q, x

\* When every relocation of a table is relative, what is read of it is the table.
LEMMA OutputOfRelative ==
  ASSUME NEW table \in Seq(RelocEntry), NEW garbage,
         \A k \in DOMAIN table : table[k].type = "relative"
  PROVE  Output(table, garbage) =
           [k \in DOMAIN table |-> [vaddr |-> table[k].offset, addend |-> table[k].addend]]
<1> DEFINE n == Len(table)
           hits == {k \in DOMAIN table : table[k].type = "relative"}
<1>1. n \in Nat /\ DOMAIN table = 1 .. n /\ hits = 1 .. n
  OBVIOUS
<1> HIDE DEF n, hits
<1>2. Cardinality(hits) = n
  <2>1. Cardinality(1 .. n) = IF 1 > n THEN 0 ELSE n - 1 + 1
    <3>1. 1 \in Int /\ n \in Int
      BY <1>1
    <3> QED BY <3>1, FS_Interval, Zenon
  <2> QED BY <1>1, <2>1
<1>3. Output(table, garbage) =
        [k \in 1 .. n |-> IF table[k].type = "relative"
                            THEN [vaddr |-> table[k].offset, addend |-> table[k].addend]
                            ELSE garbage]
  BY <1>2 DEF Output, hits
<1>4. \A k \in 1 .. n : table[k].type = "relative"
  BY <1>1
<1> QED BY <1>1, <1>3, <1>4

\* load_rela_relocs() and load_rel_relocs() read the tables the linker made.
LinkedTable(tag, sizeTag, bytes, entries, at) ==
  /\ Lookup(tag) = Tag(tag) /\ Lookup(sizeTag) = Tag(sizeTag)
  /\ Tag(tag) = at => Tag(sizeTag) = bytes * Len(entries)
  /\ \A e \in ToSet(entries) : e.type = "relative"

LEMMA TableRead ==
  ASSUME ConverterAssumption, TypeInv, NEW tag, NEW sizeTag, NEW bytes \in Nat \ {0},
         NEW entries \in Seq(RelocEntry), NEW at \in Nat,
         LinkedTable(tag, sizeTag, bytes, entries, at),
         ~Refuses(tag, sizeTag, bytes, TableAt(tag, sizeTag, bytes, entries, at)),
         NEW output \in Outputs(tag, TableAt(tag, sizeTag, bytes, entries, at))
  PROVE  ToSet(output) = Placed(FromTable(tag, entries, at), 0)
<1> DEFINE table == TableAt(tag, sizeTag, bytes, entries, at)
           num == Lookup(sizeTag) \div bytes
<1>0. /\ Lookup(tag) = Tag(tag) /\ Lookup(sizeTag) = Tag(sizeTag)
      /\ Tag(tag) = at => Tag(sizeTag) = bytes * Len(entries)
      /\ \A e \in ToSet(entries) : e.type = "relative"
  BY DEF LinkedTable
<1>1. CASE Missed(tag)
  <2>1. Tag(tag) # at
    BY <1>0, <1>1 DEF Missed, Missing
  <2>2. output = <<>>
    BY <1>1 DEF Outputs
  <2>3. ToSet(output) = {}
    BY <2>2 DEF ToSet
  <2> QED BY <2>1, <2>3 DEF Placed, FromTable
<1>2. CASE ~Missed(tag)
  <2>1. PICK garbage \in Uninitialized : output = Output(table, garbage)
    BY <1>2 DEF Outputs
  <2>2. \A k \in DOMAIN table : table[k].type # "unsupported"
    BY <1>2 DEF Refuses
  <2>3. table = [k \in 1 .. num |->
                   IF at = Lookup(tag) /\ k \in DOMAIN entries
                     THEN entries[k]
                     ELSE [type |-> "unsupported", offset |-> 0, addend |-> 0]]
    BY DEF TableAt, Table
  <2>4. num \in Nat
    <3>1. ~(Lookup(sizeTag) < 0)
      BY <1>2 DEF Refuses
    <3>2. Lookup(sizeTag) \in Nat \cup {-1, -2}
      BY LookupIsTyped DEF TypeInv, Missing, Refused
    <3>3. Lookup(sizeTag) \in Nat
      BY <3>1, <3>2
    <3> QED BY <3>3, NaturalDivision
  <2>5. CASE Tag(tag) # at
    <3>1. \A k \in 1 .. num : FALSE
      <4> SUFFICES ASSUME NEW k \in 1 .. num PROVE FALSE
        OBVIOUS
      <4> HIDE DEF table, num
      <4>1. k \in DOMAIN table
        BY <2>3
      <4>2. table[k] = [type |-> "unsupported", offset |-> 0, addend |-> 0]
        BY <1>0, <2>3, <2>5
      <4> QED BY <2>2, <4>1, <4>2
    <3>2. num = 0
      <4>1. num \in 1 .. num \/ num = 0
        <5> HIDE DEF num
        <5> QED BY <2>4
      <4> QED BY <3>1, <4>1
    <3>3. table = <<>> /\ DOMAIN table = {}
      BY <2>3, <3>2
    <3> HIDE DEF table
    <3>4. table \in Seq(RelocEntry) /\ \A k \in DOMAIN table : table[k].type = "relative"
      BY <3>3
    <3>5. DOMAIN output = {}
      <4>1. Output(table, garbage) =
              [k \in DOMAIN table |-> [vaddr |-> table[k].offset, addend |-> table[k].addend]]
        BY <3>4, OutputOfRelative
      <4> QED BY <2>1, <3>3, <4>1
    <3>6. ToSet(output) = {}
      BY <3>5 DEF ToSet
    <3> QED BY <2>5, <3>6 DEF Placed, FromTable
  <2>6. CASE Tag(tag) = at
    <3>1. num = Len(entries)
      <4>1. Lookup(sizeTag) = bytes * Len(entries)
        BY <1>0, <2>6
      <4>2. Len(entries) \in Nat
        OBVIOUS
      <4>3. (bytes * Len(entries)) \div bytes = Len(entries)
        BY <4>2, Quotient
      <4> QED BY <4>1, <4>3
    <3>2. DOMAIN entries = 1 .. num
      BY <3>1
    <3>3. table = entries
      <4>1. at = Lookup(tag)
        BY <1>0, <2>6
      <4>2. table = [k \in 1 .. num |-> entries[k]]
        BY <2>3, <3>2, <4>1
      <4>3. entries = [k \in DOMAIN entries |-> entries[k]]
        OBVIOUS
      <4> QED BY <3>2, <4>2, <4>3
    <3> HIDE DEF table, num
    <3>4. \A k \in DOMAIN entries : entries[k].type = "relative"
      BY <1>0 DEF ToSet
    <3>5. output = [k \in DOMAIN entries |->
                      [vaddr |-> entries[k].offset, addend |-> entries[k].addend]]
      BY <2>1, <3>3, <3>4, OutputOfRelative
    <3>6. \A k \in DOMAIN entries : output[k] = Place(entries[k], 0)
      <4> SUFFICES ASSUME NEW k \in DOMAIN entries PROVE output[k] = Place(entries[k], 0)
        OBVIOUS
      <4>1. entries[k] \in RelocEntry
        OBVIOUS
      <4>2. entries[k].offset + 0 = entries[k].offset /\ entries[k].addend + 0 = entries[k].addend
        <5> DEFINE x == entries[k].offset
                   y == entries[k].addend
        <5>1. x \in Nat /\ y \in Nat
          BY <4>1 DEF RelocEntry
        <5> HIDE DEF x, y
        <5>2. x + 0 = x /\ y + 0 = y
          BY <5>1
        <5> QED BY <5>2 DEF x, y
      <4> QED BY <3>5, <4>2 DEF Place
    <3>7. Relative(entries) = {entries[k] : k \in DOMAIN entries}
      BY <3>4 DEF Relative, ToSet
    <3>8. ToSet(output) = {output[k] : k \in DOMAIN entries}
      BY <3>5 DEF ToSet
    <3>9. ToSet(output) = {Place(entries[k], 0) : k \in DOMAIN entries}
      BY <3>6, <3>8
    <3>10. Placed(Relative(entries), 0) = {Place(entries[k], 0) : k \in DOMAIN entries}
      BY <3>7 DEF Placed
    <3> QED BY <2>6, <3>9, <3>10 DEF FromTable
  <2> QED BY <2>5, <2>6
<1> QED BY <1>1, <1>2

\* What the tags mean stays.
LEMMA SameTags ==
  ASSUME elf' = elf, dynamic' = dynamic
  PROVE  /\ TagsLinked' <=> TagsLinked
         /\ ToApply' = ToApply /\ FromRela' = FromRela /\ LoadAt' = LoadAt /\ Loads' = Loads
<1>1. \A tag : Tag(tag)' = Tag(tag)
  BY DEF Tag
<1>2. \A b : Word(b)' = Word(b)
  BY DEF Word, Power
<1>3. DynEntries' = DynEntries
  BY DEF DynEntries
<1>4. \A tag : Lookup(tag)' = Lookup(tag)
  BY <1>2, <1>3 DEF Lookup
<1> QED BY <1>1, <1>4 DEF TagsLinked, ToApply, FromRela, FromTable, LoadAt, Loads

LEMMA RelaRead ==
  ASSUME ConverterAssumption, TypeInv, LoadRela, pc' \notin Stopped
  PROVE  RelocsInv'
<1> DEFINE table == TableAt(DT_RELA, DT_RELASZ, RelaBytes, elf.rela, elf.relaAt)
<1>1. /\ ~Refuses(DT_RELA, DT_RELASZ, RelaBytes, table)
      /\ relocs' \in Outputs(DT_RELA, table)
      /\ pc' = "rel" /\ elf' = elf /\ dynamic' = dynamic
  BY DEF LoadRela, Exit, Stopped
<1>2. RelaBytes \in Nat \ {0} /\ elf.rela \in Seq(RelocEntry) /\ elf.relaAt \in Nat
  BY Constants, FileFields DEF TypeInv
<1>3. ASSUME TagsLinked PROVE ToSet(relocs') = Placed(FromRela, 0)
  <2>1. LinkedTable(DT_RELA, DT_RELASZ, RelaBytes, elf.rela, elf.relaAt)
    BY <1>3 DEF TagsLinked, LinkedTable
  <2>2. PICK output \in Outputs(DT_RELA, table) : output = relocs'
    BY <1>1
  <2>3. ToSet(output) = Placed(FromRela, 0)
    BY <1>1, <1>2, <2>1, TableRead DEF FromRela
  <2> QED BY <2>2, <2>3
<1>4. ASSUME TagsLinked' PROVE ToSet(relocs') = Placed(FromRela', 0)
  BY <1>1, <1>3, <1>4, SameTags
<1>5. ToSet(relocs)' = ToSet(relocs') /\ Placed(FromRela, 0)' = Placed(FromRela', 0)
  BY DEF ToSet, Placed, Place
<1> QED BY <1>1, <1>4, <1>5 DEF RelocsInv, Moved

LEMMA RelRead ==
  ASSUME ConverterAssumption, TypeInv, RelocsInv, LoadRel, pc' \notin Stopped
  PROVE  RelocsInv'
<1> DEFINE table == TableAt(DT_REL, DT_RELSZ, RelBytes, elf.rel, elf.relAt)
           FromRel == FromTable(DT_REL, elf.rel, elf.relAt)
<1>1. /\ ~Refuses(DT_REL, DT_RELSZ, RelBytes, table)
      /\ \E output \in Outputs(DT_REL, table) : relocs' \in SortedByAddress(relocs \o output)
      /\ pc = "rel" /\ pc' = "alignment" /\ elf' = elf /\ dynamic' = dynamic
  BY DEF LoadRel, Exit, Stopped
<1>2. RelBytes \in Nat \ {0} /\ elf.rel \in Seq(RelocEntry) /\ elf.relAt \in Nat
      /\ relocs \in Seq(Relocs)
  BY Constants, FileFields DEF TypeInv
<1>3. PICK output \in Outputs(DT_REL, table) : relocs' \in SortedByAddress(relocs \o output)
  BY <1>1
<1>4. output \in Seq(Relocs)
  BY <1>1, <1>2, OutputsAreTyped
<1>5. ToSet(relocs') = ToSet(relocs \o output) /\ Ordered(relocs')
  <2>1. relocs \o output \in Seq(Relocs)
    BY <1>2, <1>4
  <2> QED BY <1>3, <2>1, SortingKeeps
<1>6. ToSet(relocs \o output) = ToSet(relocs) \cup ToSet(output)
  <2> DEFINE m == Len(relocs)
             n == Len(output)
             t == relocs \o output
  <2>1. /\ m \in Nat /\ n \in Nat /\ DOMAIN relocs = 1 .. m /\ DOMAIN output = 1 .. n
        /\ DOMAIN t = 1 .. m + n
        /\ \A k \in 1 .. m : t[k] = relocs[k]
        /\ \A k \in 1 .. n : t[m + k] = output[k]
    BY <1>2, <1>4, SMTT(30)
  <2> HIDE DEF m, n, t
  <2>2. \A k \in 1 .. m + n : k \in 1 .. m \/ \E j \in 1 .. n : k = m + j
    <3> SUFFICES ASSUME NEW k \in 1 .. m + n, k \notin 1 .. m
                 PROVE  \E j \in 1 .. n : k = m + j
      OBVIOUS
    <3>1. k - m \in 1 .. n /\ k = m + (k - m)
      BY <2>1
    <3> QED BY <3>1
  <2>3. ToSet(t) \subseteq ToSet(relocs) \cup ToSet(output)
    <3> SUFFICES ASSUME NEW k \in 1 .. m + n PROVE t[k] \in ToSet(relocs) \cup ToSet(output)
      BY <2>1 DEF ToSet
    <3>1. CASE k \in 1 .. m
      BY <2>1, <3>1 DEF ToSet
    <3>2. CASE \E j \in 1 .. n : k = m + j
      BY <2>1, <3>2 DEF ToSet
    <3> QED BY <2>2, <3>1, <3>2
  <2>4. ToSet(relocs) \subseteq ToSet(t)
    <3>1. \A k \in 1 .. m : k \in 1 .. m + n
      BY <2>1
    <3> QED BY <2>1, <3>1 DEF ToSet
  <2>5. ToSet(output) \subseteq ToSet(t)
    <3>1. \A k \in 1 .. n : m + k \in 1 .. m + n
      BY <2>1
    <3> QED BY <2>1, <3>1 DEF ToSet
  <2> QED BY <2>3, <2>4, <2>5 DEF t
<1>7. ASSUME TagsLinked PROVE ToSet(relocs') = Placed(ToApply, 0)
  <2>1. LinkedTable(DT_REL, DT_RELSZ, RelBytes, elf.rel, elf.relAt)
    BY <1>7 DEF TagsLinked, LinkedTable
  <2>2. ToSet(output) = Placed(FromRel, 0)
    <3>1. ~Refuses(DT_REL, DT_RELSZ, RelBytes, table) /\ output \in Outputs(DT_REL, table)
      BY <1>1
    <3>2. RelBytes \in Nat \ {0} /\ elf.rel \in Seq(RelocEntry) /\ elf.relAt \in Nat
      BY <1>2
    <3> QED BY <2>1, <3>1, <3>2, TableRead
  <2>3. ToSet(relocs) = Placed(FromRela, 0)
    BY <1>1, <1>7 DEF RelocsInv
  <2>4. ToApply = FromRela \cup FromRel
    BY DEF ToApply, FromRela, FromTable
  <2> HIDE DEF FromRel
  <2>5. Placed(ToApply, 0) = Placed(FromRela, 0) \cup Placed(FromRel, 0)
    BY <2>4 DEF Placed
  <2> QED BY <1>5, <1>6, <2>2, <2>3, <2>5
<1>8. TagsLinked' => ToSet(relocs)' = Placed(ToApply, 0)'
  <2>1. ToSet(relocs)' = ToSet(relocs')
    BY DEF ToSet
  <2>2. Placed(ToApply, 0)' = Placed(ToApply', 0)
    BY DEF Placed, Place
  <2> QED BY <1>1, <1>7, <2>1, <2>2, SameTags
<1>9. Ordered(relocs)'
  BY <1>5 DEF Ordered
<1> QED BY <1>1, <1>8, <1>9 DEF RelocsInv, Moved

LEMMA RelocsMoved ==
  ASSUME ConverterAssumption, TypeInv, RelocsInv, RelocateRelocs
  PROVE  RelocsInv'
<1>1. /\ pc = "relocate" /\ pc' = "apply" /\ elf' = elf /\ dynamic' = dynamic /\ shift' = shift
      /\ relocs' = [k \in DOMAIN relocs |->
                      [vaddr |-> relocs[k].vaddr + BaseAddress + shift,
                       addend |-> relocs[k].addend + BaseAddress + shift]]
  BY DEF RelocateRelocs
<1>2. /\ relocs \in Seq(Relocs) /\ shift \in Nat /\ BaseAddress \in Nat
      /\ elf.rela \in Seq(RelocEntry) /\ elf.rel \in Seq(RelocEntry)
  BY Constants, FileFields DEF TypeInv
<1>3. \A k \in DOMAIN relocs : relocs[k].vaddr \in Nat /\ relocs[k].addend \in Nat
  <2>1. \A k \in DOMAIN relocs : relocs[k] \in Relocs
    BY <1>2
  <2> QED BY <2>1 DEF Relocs
<1>4. Ordered(relocs)'
  <2> SUFFICES ASSUME NEW j \in DOMAIN relocs, NEW k \in DOMAIN relocs, j < k
               PROVE  relocs'[j].vaddr <= relocs'[k].vaddr
    BY <1>1 DEF Ordered
  <2>1. relocs[j].vaddr <= relocs[k].vaddr
    BY <1>1 DEF RelocsInv, Ordered
  <2> DEFINE x == relocs[j].vaddr
             y == relocs[k].vaddr
  <2>2. x \in Nat /\ y \in Nat /\ x <= y
    BY <1>3, <2>1
  <2>3. relocs'[j].vaddr = x + BaseAddress + shift /\ relocs'[k].vaddr = y + BaseAddress + shift
    BY <1>1
  <2> HIDE DEF x, y
  <2> QED BY <1>2, <2>2, <2>3
<1>5. ASSUME TagsLinked PROVE ToSet(relocs') = Placed(ToApply, BaseAddress + shift)
  <2>1. ToSet(relocs) = Placed(ToApply, 0)
    BY <1>1, <1>5 DEF RelocsInv
  <2> DEFINE move(r) == [vaddr |-> r.vaddr + BaseAddress + shift,
                         addend |-> r.addend + BaseAddress + shift]
  <2>2. \A e \in ToApply : move(Place(e, 0)) = Place(e, BaseAddress + shift)
    <3> SUFFICES ASSUME NEW e \in ToApply PROVE move(Place(e, 0)) = Place(e, BaseAddress + shift)
      OBVIOUS
    <3>1. e \in ToSet(elf.rela) \cup ToSet(elf.rel)
      BY DEF ToApply, Relative
    <3>2. e \in RelocEntry
      BY <1>2, <3>1, SMTT(30) DEF ToSet
    <3>3. e.offset \in Nat /\ e.addend \in Nat
      BY <3>2 DEF RelocEntry
    <3>4. /\ e.offset + 0 + BaseAddress + shift = e.offset + (BaseAddress + shift)
          /\ e.addend + 0 + BaseAddress + shift = e.addend + (BaseAddress + shift)
      <4> DEFINE x == e.offset
                 y == e.addend
      <4>1. x \in Nat /\ y \in Nat
        BY <3>3
      <4> HIDE DEF x, y
      <4>2. /\ x + 0 + BaseAddress + shift = x + (BaseAddress + shift)
            /\ y + 0 + BaseAddress + shift = y + (BaseAddress + shift)
        BY <1>2, <4>1
      <4> QED BY <4>2 DEF x, y
    <3> QED BY <3>4 DEF Place
  <2>3. ToSet(relocs') = {move(relocs[k]) : k \in DOMAIN relocs}
    BY <1>1 DEF ToSet
  <2>4. {move(relocs[k]) : k \in DOMAIN relocs} = {move(r) : r \in ToSet(relocs)}
    BY DEF ToSet
  <2>5. {move(r) : r \in ToSet(relocs)} = {move(Place(e, 0)) : e \in ToApply}
    BY <2>1 DEF Placed
  <2> HIDE DEF move
  <2> QED BY <2>2, <2>3, <2>4, <2>5 DEF Placed
<1>6. TagsLinked' => ToSet(relocs)' = Placed(ToApply, BaseAddress + shift)'
  <2>1. ToSet(relocs)' = ToSet(relocs')
    BY DEF ToSet
  <2>2. Placed(ToApply, BaseAddress + shift)' =
          Placed(ToApply', BaseAddress + shift)
    BY <1>1 DEF Placed, Place
  <2> QED BY <1>1, <1>5, <2>1, <2>2, SameTags
<1> QED BY <1>1, <1>4, <1>6 DEF RelocsInv, Moved

\* Every other step leaves the relocations, and what they are to be, alone.
LEMMA RelocsStay ==
  ASSUME RelocsInv, UNCHANGED <<elf, dynamic, relocs, shift>>,
         \/ pc' = pc
         \/ pc' \in Stopped \cup {"segments", "rela"}
         \/ pc = "alignment" /\ pc' = "shift"
         \/ pc \in Moved /\ pc' \in Moved
  PROVE  RelocsInv'
<1>1. /\ TagsLinked' <=> TagsLinked
      /\ ToApply' = ToApply /\ FromRela' = FromRela
  BY SameTags
<1>2. /\ Placed(FromRela, 0)' = Placed(FromRela, 0)
      /\ Placed(ToApply, 0)' = Placed(ToApply, 0)
      /\ Placed(ToApply, BaseAddress + shift)' =
           Placed(ToApply, BaseAddress + shift)
  BY <1>1 DEF Placed, Place
<1>3. ToSet(relocs)' = ToSet(relocs) /\ Ordered(relocs)' = Ordered(relocs)
  BY DEF ToSet, Ordered
<1> QED BY <1>1, <1>2, <1>3 DEF RelocsInv, Moved, Stopped

LEMMA RelocsInvNext ==
  ASSUME ConverterAssumption, TypeInv, RelocsInv, Next
  PROVE  RelocsInv'
<1>1. CASE pc' \in Stopped
  BY <1>1 DEF RelocsInv, Moved, Stopped
<1>2. CASE LoadRela /\ pc' \notin Stopped
  BY <1>2, RelaRead
<1>3. CASE LoadRel /\ pc' \notin Stopped
  BY <1>3, RelRead
<1>4. CASE RelocateRelocs
  BY <1>4, RelocsMoved
<1>5. CASE ChooseShift
  <2>1. /\ pc = "shift" /\ pc' = "relocate" /\ elf' = elf /\ dynamic' = dynamic
        /\ relocs' = relocs
    BY <1>5 DEF ChooseShift
  <2>2. ToApply' = ToApply /\ (TagsLinked' <=> TagsLinked)
    BY <2>1, SameTags
  <2>3. Placed(ToApply, 0)' = Placed(ToApply, 0)
    BY <2>2 DEF Placed, Place
  <2>4. ToSet(relocs)' = ToSet(relocs) /\ Ordered(relocs)' = Ordered(relocs)
    BY <2>1 DEF ToSet, Ordered
  <2> QED BY <2>1, <2>2, <2>3, <2>4 DEF RelocsInv, Moved
<1>6. CASE /\ pc' \notin Stopped
           /\ ~LoadRela /\ ~LoadRel /\ ~RelocateRelocs /\ ~ChooseShift
  <2>1. CASE LoadSegment \/ SortSegments
    <3>1. pc' \in {"segments", "rela"}
      BY <1>6, <2>1 DEF LoadSegment, SortSegments, Exit, Stopped
    <3> QED BY <3>1 DEF RelocsInv, Moved
  <2>2. CASE ~LoadSegment /\ ~SortSegments
    <3>1. /\ UNCHANGED <<elf, dynamic, relocs, shift>>
          /\ \/ pc' = pc
             \/ pc = "alignment" /\ pc' = "shift"
             \/ pc \in Moved /\ pc' \in Moved
      BY <1>6, <2>2 DEF Next, ComputeAlignment, RelocateSegment, ApplyReloc, Overrun, Applied,
           CreateBlock, BlocksCreated, WriteHeaders, WriteSection, WriteReloc, WriteFails, Exit,
           Stopped, Moved
    <3> QED BY <3>1, RelocsStay, SMTT(30)
  <2> QED BY <2>1, <2>2
<1> QED BY <1>1, <1>2, <1>3, <1>4, <1>5, <1>6

LEMMA RelocsInvHolds == Spec => []RelocsInv
<1>1. Init => RelocsInv
  BY DEF Init, RelocsInv, Moved
<1>2. ConverterInv /\ RelocsInv /\ [Next]_vars => RelocsInv'
  <2> SUFFICES ASSUME ConverterInv, RelocsInv, [Next]_vars PROVE RelocsInv'
    OBVIOUS
  <2>1. CASE Next
    BY <2>1, ConverterAssumption, RelocsInvNext DEF ConverterInv
  <2>2. CASE UNCHANGED vars
    BY <2>2, RelocsStay DEF vars
  <2> QED BY <2>1, <2>2
<1> QED BY <1>1, <1>2, TypeCorrect, PTL DEF Spec

-----------------------------------------------------------------------------
(***************************************************************************)
(* The blocks.                                                             *)
(***************************************************************************)
Listed(x, k, j) == x = blocks[k].rva + blocks[k].offsets[j]

LEMMA FixupIs ==
  \A x : x \in Fixups <=>
           \E k \in DOMAIN blocks : \E j \in DOMAIN blocks[k].offsets : Listed(x, k, j)
<1> SUFFICES ASSUME NEW x
             PROVE  x \in Fixups <=>
                      \E k \in DOMAIN blocks : \E j \in DOMAIN blocks[k].offsets : Listed(x, k, j)
  OBVIOUS
<1>1. x \in Fixups <=> \E b \in ToSet(blocks) : \E o \in ToSet(b.offsets) : x = b.rva + o
  BY DEF Fixups
<1> QED BY <1>1 DEF ToSet, Listed

\* create_pe_reloc(): a relocation is listed, in the block of its page.
LEMMA BlockMade ==
  ASSUME ConverterAssumption, TypeInv, RelocsInv, BlocksInv, CreateBlock
  PROVE  BlocksInv'
<1> DEFINE v == relocs[i].vaddr
           page == AlignDown(v, PageBytes)
           offset == v - page
           last == Len(blocks)
           rva == page - BaseAddress
           B == BaseAddress
<1>1. /\ pc = "blocks" /\ i <= Len(relocs) /\ i' = i + 1
      /\ UNCHANGED <<pc, relocs>>
      /\ blocks' = IF blocks = <<>> \/ rva > blocks[last].rva
                     THEN Append(blocks, [rva |-> rva, offsets |-> <<offset>>])
                     ELSE [blocks EXCEPT ![last].offsets = Append(@, offset)]
  BY DEF CreateBlock
<1>2. /\ relocs \in Seq(Relocs) /\ blocks \in Seq(Blocks) /\ i \in Nat \ {0} /\ B \in Nat
      /\ PageBytes \in Nat \ {0}
  BY Constants DEF TypeInv
<1>3. i \in DOMAIN relocs /\ i \in 1 .. i /\ \A k \in 1 .. i : k \in DOMAIN relocs
  BY <1>1, <1>2, SMTT(30)
<1>4. \A k \in DOMAIN relocs : relocs[k].vaddr \in Nat
  <2>1. \A k \in DOMAIN relocs : relocs[k] \in Relocs
    BY <1>2
  <2> QED BY <2>1 DEF Relocs
<1>5. page \in Int /\ v \in Nat /\ offset \in Nat /\ rva \in Int /\ v - B = rva + offset
  <2>1. v \in Nat /\ v \in Int
    BY <1>3, <1>4
  <2> HIDE DEF v
  <2>2. page \in Int /\ page <= v
    BY <1>2, <2>1, Down
  <2> HIDE DEF page
  <2> QED BY <1>2, <2>1, <2>2
<1>6. /\ Fixups = {relocs[k].vaddr - B : k \in 1 .. i - 1}
      /\ blocks = <<>> <=> i - 1 = 0
      /\ i - 1 # 0 => blocks[last].rva = AlignDown(relocs[i - 1].vaddr, PageBytes) - B
  BY <1>1 DEF BlocksInv
<1>7. {relocs[k].vaddr - B : k \in 1 .. i} = {relocs[k].vaddr - B : k \in 1 .. i - 1} \cup {v - B}
  <2>1. \A k : k \in 1 .. i <=> k \in 1 .. i - 1 \/ k = i
    BY <1>2
  <2> QED BY <2>1
<1>8. last \in Nat /\ DOMAIN blocks = 1 .. last
  BY <1>2
<1>9. \A k \in DOMAIN blocks : blocks[k] \in Blocks
  BY <1>2
<1>10. \A k \in DOMAIN blocks : /\ blocks[k].offsets \in Seq(Nat)
                                /\ blocks[k] = [rva |-> blocks[k].rva, offsets |-> blocks[k].offsets]
  BY <1>9 DEF Blocks
<1> HIDE DEF last, rva, offset
<1>11. CASE blocks = <<>> \/ rva > blocks[last].rva
  <2> DEFINE c == [rva |-> rva, offsets |-> <<offset>>]
  <2>1. blocks' = Append(blocks, c)
    BY <1>1, <1>11
  <2>2. c.rva = rva /\ c.offsets = <<offset>> /\ c \in Blocks
    BY <1>5 DEF Blocks
  <2> HIDE DEF c
  <2>3. /\ Len(blocks') = last + 1 /\ DOMAIN blocks' = 1 .. last + 1 /\ blocks'[last + 1] = c
        /\ \A k \in 1 .. last : blocks'[k] = blocks[k]
    BY <1>2, <2>1, <2>2 DEF last
  <2>4. DOMAIN c.offsets = {1} /\ c.offsets[1] = offset
    BY <2>2
  <2>5. ASSUME NEW x PROVE x \in Fixups' <=> x \in Fixups \/ x = v - B
    <3>1. x \in Fixups' <=>
            \E k \in DOMAIN blocks' : \E j \in DOMAIN blocks'[k].offsets :
              x = blocks'[k].rva + blocks'[k].offsets[j]
      <4>1. x \in Fixups' <=>
              \E b \in ToSet(blocks') : \E w \in ToSet(b.offsets) : x = b.rva + w
        BY DEF Fixups, ToSet
      <4> QED BY <4>1 DEF ToSet
    <3>2. \A k : k \in 1 .. last + 1 <=> k \in 1 .. last \/ k = last + 1
      BY <1>8, SMTT(30)
    <3>3. (\E k \in DOMAIN blocks' : \E j \in DOMAIN blocks'[k].offsets :
             x = blocks'[k].rva + blocks'[k].offsets[j])
          <=> \/ \E k \in 1 .. last : \E j \in DOMAIN blocks[k].offsets :
                   x = blocks[k].rva + blocks[k].offsets[j]
              \/ \E j \in DOMAIN c.offsets : x = c.rva + c.offsets[j]
      BY <2>3, <3>2
    <3>4. (\E j \in DOMAIN c.offsets : x = c.rva + c.offsets[j]) <=> x = v - B
      BY <1>5, <2>2, <2>4
    <3> QED BY <1>8, <3>1, <3>3, <3>4, FixupIs DEF Listed
  <2>6. Fixups' = {relocs[k].vaddr - B : k \in 1 .. i}
    BY <1>6, <1>7, <2>5
  <2>7. blocks' # <<>>
    BY <1>8, <2>3
  <2>8. blocks'[Len(blocks')].rva = page - B
    BY <2>2, <2>3 DEF rva
  <2>9. i' - 1 = i /\ i # 0
    BY <1>1, <1>2
  <2> QED BY <1>1, <2>6, <2>7, <2>8, <2>9 DEF BlocksInv
<1>12. CASE ~(blocks = <<>> \/ rva > blocks[last].rva)
  <2> DEFINE o == Append(blocks[last].offsets, offset)
             m == Len(blocks[last].offsets)
  <2>1. last \in DOMAIN blocks
    BY <1>2, <1>8, <1>12 DEF last
  <2>2. /\ blocks' = [blocks EXCEPT ![last].offsets = o]
    BY <1>1, <1>12
  <2>3. /\ o \in Seq(Nat) /\ m \in Nat /\ DOMAIN o = 1 .. m + 1 /\ o[m + 1] = offset
        /\ DOMAIN blocks[last].offsets = 1 .. m
        /\ \A j \in 1 .. m : o[j] = blocks[last].offsets[j]
    <3>1. blocks[last].offsets \in Seq(Nat)
      BY <1>10, <2>1
    <3>2. offset \in Nat
      BY <1>5
    <3> DEFINE w == blocks[last].offsets
    <3>3. w \in Seq(Nat)
      BY <3>1
    <3> HIDE DEF w
    <3>4. /\ Append(w, offset) \in Seq(Nat) /\ Len(w) \in Nat
          /\ DOMAIN Append(w, offset) = 1 .. Len(w) + 1
          /\ Append(w, offset)[Len(w) + 1] = offset /\ DOMAIN w = 1 .. Len(w)
          /\ \A j \in 1 .. Len(w) : Append(w, offset)[j] = w[j]
      BY <3>2, <3>3
    <3> QED BY <3>4 DEF w
  <2> HIDE DEF o, m
  <2>4. /\ DOMAIN blocks' = DOMAIN blocks
        /\ \A k \in DOMAIN blocks : k # last => blocks'[k] = blocks[k]
        /\ blocks'[last].rva = blocks[last].rva /\ blocks'[last].offsets = o
    BY <1>10, <2>1, <2>2
  <2>5. blocks[last].rva = rva
    <3>1. i - 1 # 0 /\ i - 1 \in DOMAIN relocs
      BY <1>2, <1>3, <1>6, <1>12
    <3> DEFINE u == relocs[i - 1].vaddr
               before == AlignDown(u, PageBytes)
    <3>2. u \in Nat /\ u <= v
      <4>1. i - 1 < i
        BY <1>2
      <4>2. Ordered(relocs)
        BY <1>1 DEF RelocsInv, Moved
      <4> QED BY <1>3, <1>4, <3>1, <4>1, <4>2 DEF Ordered
    <3> HIDE DEF u, v
    <3>3. u \in Int /\ v \in Int
      BY <1>5, <3>2
    <3>4. before \in Int /\ Multiple(before, PageBytes) /\ before <= u
      BY <1>2, <3>3, Down
    <3>5. before <= v
      BY <3>2, <3>3, <3>4
    <3>6. before <= page
      BY <1>2, <3>3, <3>4, <3>5, LastBelow
    <3>7. blocks[last].rva = before - B
      BY <1>6, <3>1 DEF u
    <3> HIDE DEF before, page
    <3>8. rva = page - B
      BY DEF rva, page
    <3>9. ~(page - B > before - B)
      BY <1>12, <3>7, <3>8
    <3>10. page \in Int
      BY <1>5
    <3>11. page = before
      BY <1>2, <3>4, <3>6, <3>9, <3>10
    <3> QED BY <3>7, <3>8, <3>11
  <2>6. ASSUME NEW x PROVE x \in Fixups' <=> x \in Fixups \/ x = v - B
    <3>1. x \in Fixups' <=>
            \E k \in DOMAIN blocks' : \E j \in DOMAIN blocks'[k].offsets :
              x = blocks'[k].rva + blocks'[k].offsets[j]
      <4>1. x \in Fixups' <=>
              \E b \in ToSet(blocks') : \E w \in ToSet(b.offsets) : x = b.rva + w
        BY DEF Fixups, ToSet
      <4> QED BY <4>1 DEF ToSet
    <3>2. (\E j \in DOMAIN o : x = rva + o[j]) <=>
            (\E j \in 1 .. m : x = rva + blocks[last].offsets[j]) \/ x = v - B
      <4>1. \A j : j \in 1 .. m + 1 <=> j \in 1 .. m \/ j = m + 1
        BY <2>3, SMTT(30)
      <4> QED BY <1>5, <2>3, <4>1
    <3>3. (\E k \in DOMAIN blocks' : \E j \in DOMAIN blocks'[k].offsets :
             x = blocks'[k].rva + blocks'[k].offsets[j])
          <=> \/ \E k \in DOMAIN blocks : /\ k # last
                                          /\ \E j \in DOMAIN blocks[k].offsets :
                                               x = blocks[k].rva + blocks[k].offsets[j]
              \/ \E j \in DOMAIN o : x = rva + o[j]
      BY <2>1, <2>4, <2>5
    <3>4. (\E k \in DOMAIN blocks : \E j \in DOMAIN blocks[k].offsets :
             x = blocks[k].rva + blocks[k].offsets[j])
          <=> \/ \E k \in DOMAIN blocks : /\ k # last
                                          /\ \E j \in DOMAIN blocks[k].offsets :
                                               x = blocks[k].rva + blocks[k].offsets[j]
              \/ \E j \in 1 .. m : x = rva + blocks[last].offsets[j]
      BY <2>1, <2>3, <2>5
    <3> QED BY <3>1, <3>2, <3>3, <3>4, FixupIs DEF Listed
  <2>7. Fixups' = {relocs[k].vaddr - B : k \in 1 .. i}
    BY <1>6, <1>7, <2>6
  <2>8. blocks' # <<>> /\ Len(blocks') = last
    <3>1. blocks' \in Seq({blocks'[k] : k \in 1 .. last}) /\ last # 0
      <4>1. blocks' = [k \in 1 .. last |-> blocks'[k]]
        BY <1>8, <2>2
      <4> QED BY <1>8, <2>1, <4>1, SMTT(30)
    <3> QED BY <1>8, <2>4, <3>1
  <2>9. blocks'[Len(blocks')].rva = page - B
    BY <2>4, <2>5, <2>8 DEF rva
  <2>10. i' - 1 = i /\ i # 0
    BY <1>1, <1>2
  <2> QED BY <1>1, <2>7, <2>8, <2>9, <2>10 DEF BlocksInv
<1> QED BY <1>11, <1>12

LEMMA BlocksInvNext ==
  ASSUME ConverterAssumption, TypeInv, Bounds, RelocsInv, BlocksInv, Next
  PROVE  BlocksInv'
<1> DEFINE Listing == {"blocks", "headers", "sections", "done"}
<1>1. CASE pc' \in Stopped
  BY <1>1 DEF BlocksInv, Stopped
<1>2. CASE CreateBlock
  BY <1>2, BlockMade
<1>3. CASE Applied
  <2>1. pc = "apply" /\ pc' = "blocks" /\ i' = 1 /\ blocks' = blocks /\ relocs' = relocs
    BY <1>3 DEF Applied
  <2>2. blocks = <<>>
    BY <2>1 DEF BlocksInv
  <2>3. Fixups' = {}
    BY <2>1, <2>2 DEF Fixups, ToSet
  <2>4. i' - 1 = 0 /\ 1 .. (i' - 1) = {}
    BY <2>1
  <2>5. {relocs[k].vaddr - BaseAddress : k \in 1 .. i - 1}' = {}
    BY <2>4
  <2> QED BY <2>1, <2>2, <2>3, <2>4, <2>5 DEF BlocksInv
<1>4. CASE BlocksCreated
  <2>1. /\ pc = "blocks" /\ pc' = "headers" /\ i > Len(relocs)
        /\ UNCHANGED <<blocks, relocs>>
    BY <1>4 DEF BlocksCreated
  <2>2. i - 1 = Len(relocs)
    <3>1. i <= Len(relocs) + 1
      BY <2>1 DEF Bounds
    <3>2. i \in Nat /\ Len(relocs) \in Nat
      BY VariablesTyped
    <3> QED BY <2>1, <3>1, <3>2
  <2>3. Fixups' = Fixups
    BY <2>1 DEF Fixups, ToSet
  <2> QED BY <2>1, <2>2, <2>3 DEF BlocksInv
<1>5. CASE /\ pc' \notin Stopped
           /\ ~CreateBlock /\ ~Applied /\ ~BlocksCreated
  <2>1. CASE pc \in Listing
    <3>1. /\ pc \in Listing \ {"blocks"} /\ pc' \in Listing \ {"blocks"}
          /\ UNCHANGED <<blocks, relocs>>
      BY <1>5, <2>1, SMTT(30)
      DEF Next, LoadSegment, SortSegments, LoadRela, LoadRel, ComputeAlignment,
         ChooseShift, RelocateSegment, RelocateRelocs, ApplyReloc, Overrun, WriteHeaders,
         WriteSection, WriteReloc, WriteFails, Exit, Stopped
    <3>2. Fixups' = Fixups
      BY <3>1 DEF Fixups, ToSet
    <3> QED BY <3>1, <3>2, SMTT(30) DEF BlocksInv
  <2>2. CASE pc \notin Listing
    <3>1. /\ pc \notin Listing \cup Stopped /\ pc' \notin Listing /\ blocks' = blocks
      BY <1>5, <2>2 DEF Next, LoadSegment, SortSegments, LoadRela, LoadRel, ComputeAlignment,
         ChooseShift, RelocateSegment, RelocateRelocs, ApplyReloc, Overrun, WriteHeaders,
         WriteSection, WriteReloc, WriteFails, Exit, Stopped
    <3> QED BY <3>1, SMTT(30) DEF BlocksInv, Stopped
  <2> QED BY <2>1, <2>2
<1> QED BY <1>1, <1>2, <1>3, <1>4, <1>5

LEMMA BlocksInvHolds == Spec => []BlocksInv
<1>1. Init => BlocksInv
  BY DEF Init, BlocksInv
<1>2. ConverterInv /\ RelocsInv /\ BlocksInv /\ [Next]_vars => BlocksInv'
  <2> SUFFICES ASSUME ConverterInv, RelocsInv, BlocksInv, [Next]_vars PROVE BlocksInv'
    OBVIOUS
  <2>1. CASE Next
    BY <2>1, ConverterAssumption, BlocksInvNext DEF ConverterInv
  <2>2. CASE UNCHANGED vars
    <3>1. Fixups' = Fixups
      BY <2>2 DEF vars, Fixups, ToSet
    <3> QED BY <2>2, <3>1 DEF vars, BlocksInv
  <2> QED BY <2>1, <2>2
<1> QED BY <1>1, <1>2, TypeCorrect, RelocsInvHolds, PTL DEF Spec

-----------------------------------------------------------------------------
(***************************************************************************)
(* The data of the segments.                                               *)
(***************************************************************************)
LEMMA SameLinked ==
  ASSUME UNCHANGED <<elf, dynamic, alignment>>, Len(segments') = Len(segments)
  PROVE  (Linked' <=> Linked) /\ (Aligned' <=> Aligned)
<1>1. /\ TagsLinked' <=> TagsLinked
      /\ ToApply' = ToApply /\ LoadAt' = LoadAt /\ Loads' = Loads
  BY SameTags
<1> QED BY <1>1 DEF Linked, OneAlignment, AddressesDiffer, SegmentsApart, PointersInside, Aligned

\* The n-th relocation is the entry e, in the data of the k-th segment.
Inside(f, n, k, e) ==
  /\ e \in ToApply /\ e.offset \in Nat /\ e.addend \in Nat
  /\ k \in DOMAIN segments
  /\ relocs[n] = Place(e, Distance)
  /\ elf.phdrs[f[k]].vaddr <= e.offset
  /\ e.offset + WordBytes <= FileEnd(elf.phdrs[f[k]])

LEMMA EntryIsTyped ==
  ASSUME ConverterAssumption, TypeInv, NEW e \in ToApply
  PROVE  e.offset \in Nat /\ e.addend \in Nat
<1>1. elf.rela \in Seq(RelocEntry) /\ elf.rel \in Seq(RelocEntry)
  BY FileFields, VariablesTyped
<1>2. e \in ToSet(elf.rela) \cup ToSet(elf.rel)
  BY DEF ToApply, Relative
<1>3. e \in RelocEntry
  BY <1>1, <1>2 DEF ToSet
<1> QED BY <1>3 DEF RelocEntry

LEMMA RelocsInside ==
  ASSUME ConverterAssumption, TypeInv, pc \in Moved, NEW f, Made(f), Linked, Aligned, RelocsInv,
         NEW n \in DOMAIN relocs
  PROVE  \E k, e : Inside(f, n, k, e)
<1>1. ToSet(relocs) = Placed(ToApply, Distance)
  BY DEF RelocsInv, Linked, Distance
<1>2. relocs[n] \in ToSet(relocs)
  BY DEF ToSet
<1>3. PICK e \in ToApply : relocs[n] = Place(e, Distance)
  BY <1>1, <1>2 DEF Placed
<1>4. e.offset \in Nat /\ e.addend \in Nat
  BY EntryIsTyped
<1>5. PICK p \in Loads : p.vaddr <= e.offset /\ e.offset + WordBytes <= FileEnd(p)
  BY DEF Linked, PointersInside
<1>6. PICK k \in DOMAIN segments : elf.phdrs[f[k]] = p
  BY SegmentOf
<1>7. Inside(f, n, k, e)
  BY <1>3, <1>4, <1>5, <1>6 DEF Inside
<1> QED BY <1>7

\* Two segments are apart, whichever is first.
LEMMA EitherFirst ==
  ASSUME ConverterAssumption, TypeInv, pc \in Moved, NEW f, Made(f), Linked, Aligned,
         NEW j \in DOMAIN segments, NEW k \in DOMAIN segments, j # k
  PROVE  \/ /\ EndOf(f, j) <= FirstPage(f, k)
            /\ EndOf(f, j) <= elf.phdrs[f[k]].vaddr
         \/ /\ EndOf(f, k) <= FirstPage(f, j)
            /\ EndOf(f, k) <= elf.phdrs[f[j]].vaddr
<1>1. j < k \/ k < j
  <2>1. segments \in Seq(Segs)
    BY DEF TypeInv
  <2>2. j \in Nat /\ k \in Nat
    BY <2>1
  <2> QED BY <2>2
<1>2. ASSUME NEW m \in DOMAIN segments, NEW n \in DOMAIN segments, m < n
      PROVE  EndOf(f, m) <= FirstPage(f, n) /\ EndOf(f, m) <= elf.phdrs[f[n]].vaddr
  <2>1. /\ EndOf(f, m) \in Int /\ PagesEnd(f, m) \in Int /\ EndOf(f, m) <= PagesEnd(f, m)
        /\ FirstPage(f, n) \in Int /\ PagesEnd(f, m) <= FirstPage(f, n)
    BY <1>2, PlacesOnPages, PlacesApart DEF Linked, FirstPage, PagesEnd
  <2>2. FirstPage(f, n) <= elf.phdrs[f[n]].vaddr /\ elf.phdrs[f[n]].vaddr \in Nat
    BY Places DEF FirstPage
  <2> DEFINE a == EndOf(f, m)
             b == PagesEnd(f, m)
             c == FirstPage(f, n)
             d == elf.phdrs[f[n]].vaddr
  <2>3. a \in Int /\ b \in Int /\ c \in Int /\ d \in Nat /\ a <= b /\ b <= c /\ c <= d
    BY <2>1, <2>2
  <2> HIDE DEF a, b, c, d
  <2>4. a <= c /\ a <= d
    BY <2>3
  <2> QED BY <2>4 DEF a, c, d
<1> QED BY <1>1, <1>2

\* A segment, and where an entry is.
LEMMA InsideIs ==
  ASSUME ConverterAssumption, TypeInv, pc \in Moved, NEW f, Made(f), Linked, Aligned,
         NEW n \in DOMAIN relocs, NEW k, NEW e, Inside(f, n, k, e)
  PROVE  LET p == elf.phdrs[f[k]]
         IN  /\ e \in ToApply /\ k \in DOMAIN segments
             /\ p.vaddr \in Nat /\ EndOf(f, k) \in Int
             /\ e.offset \in Nat /\ e.addend \in Nat /\ Distance \in Nat /\ WordBytes \in Nat \ {0}
             /\ p.vaddr <= e.offset /\ e.offset + WordBytes <= EndOf(f, k)
             /\ relocs[n].vaddr = e.offset + Distance
             /\ relocs[n].addend = e.addend + Distance
             /\ relocs[n].vaddr \in Nat
<1> DEFINE p == elf.phdrs[f[k]]
<1>1. /\ e \in ToApply /\ k \in DOMAIN segments /\ e.offset \in Nat /\ e.addend \in Nat
      /\ p.vaddr <= e.offset /\ e.offset + WordBytes <= FileEnd(p)
      /\ relocs[n].vaddr = e.offset + Distance /\ relocs[n].addend = e.addend + Distance
  BY DEF Inside, Place
<1>2. p.vaddr \in Nat /\ End(p) \in Nat /\ FileEnd(p) \in Nat /\ FileEnd(p) <= End(p)
  BY <1>1, Places
<1>3. Distance \in Nat /\ WordBytes \in Nat \ {0}
  BY Constants DEF Distance, TypeInv
<1> HIDE DEF p
<1> DEFINE a == e.offset
           b == FileEnd(p)
           c == End(p)
<1>4. a + WordBytes <= c
  <2>1. a \in Nat /\ b \in Nat /\ c \in Nat /\ a + WordBytes <= b /\ b <= c
    BY <1>1, <1>2
  <2> HIDE DEF a, b, c
  <2> QED BY <1>3, <2>1
<1>5. relocs[n].vaddr \in Nat
  BY <1>1, <1>3
<1>6. EndOf(f, k) = c
  BY DEF EndOf, p
<1>7. EndOf(f, k) \in Int /\ e.offset + WordBytes <= EndOf(f, k)
  BY <1>2, <1>4, <1>6
<1> QED BY <1>1, <1>2, <1>3, <1>5, <1>7 DEF p

\* data_at_vaddr() finds the segment the entry is in, and no other.
LEMMA OneHolds ==
  ASSUME ConverterAssumption, TypeInv, pc \in Moved, NEW f, Made(f), Linked, Aligned,
         NEW n \in DOMAIN relocs, NEW k, NEW e, Inside(f, n, k, e),
         NEW j \in DOMAIN segments, Holds(segments[j], relocs[n].vaddr)
  PROVE  j = k
<1> DEFINE p == elf.phdrs[f[k]]
           D == Distance
           W == WordBytes
           x == e.offset
<1>1. /\ e \in ToApply /\ k \in DOMAIN segments /\ p.vaddr \in Nat /\ EndOf(f, k) \in Int
      /\ x \in Nat /\ D \in Nat /\ W \in Nat \ {0} /\ p.vaddr <= x /\ x + W <= EndOf(f, k)
      /\ relocs[n].vaddr = x + D
  BY InsideIs
<1>2. /\ FirstPage(f, j) \in Int /\ EndOf(f, j) \in Int
      /\ segments[j].vaddr = FirstPage(f, j) + D
      /\ segments[j].vaddr + segments[j].memsize = EndOf(f, j) + D
  BY PlacesOnPages
<1>3. x # EndOf(f, j)
  <2>1. elf.phdrs[f[j]] \in Loads
    BY Places
  <2> QED BY <1>1, <2>1 DEF Linked, PointersInside, EndOf
<1>4. segments[j].vaddr <= relocs[n].vaddr
      /\ relocs[n].vaddr <= segments[j].vaddr + segments[j].memsize
  BY DEF Holds
<1> DEFINE first == FirstPage(f, j)
           end == EndOf(f, j)
           endK == EndOf(f, k)
           v == p.vaddr
<1>5. first <= x /\ x < end
  <2>1. first + D <= x + D /\ x + D <= end + D /\ x # end /\ first \in Int /\ end \in Int
    BY <1>1, <1>2, <1>3, <1>4
  <2> HIDE DEF first, end, x, D
  <2> QED BY <1>1, <2>1
<1>6. ASSUME j # k PROVE FALSE
  <2>1. end <= v \/ endK <= first
    <3>1. \/ /\ EndOf(f, j) <= FirstPage(f, k)
             /\ EndOf(f, j) <= elf.phdrs[f[k]].vaddr
          \/ /\ EndOf(f, k) <= FirstPage(f, j)
             /\ EndOf(f, k) <= elf.phdrs[f[j]].vaddr
      BY <1>1, <1>6, EitherFirst
    <3> QED BY <3>1
  <2>2. /\ x \in Nat /\ W \in Nat \ {0} /\ first \in Int /\ end \in Int /\ endK \in Int /\ v \in Nat
        /\ v <= x /\ x + W <= endK
    BY <1>1, <1>2
  <2> HIDE DEF first, end, endK, v, x, W
  <2> QED BY <1>5, <2>1, <2>2
<1> QED BY <1>6

\* A relocation covers no byte of another segment.
LEMMA OneCovered ==
  ASSUME ConverterAssumption, TypeInv, pc \in Moved, NEW f, Made(f), Linked, Aligned,
         NEW n \in DOMAIN relocs, NEW k, NEW e, Inside(f, n, k, e),
         NEW j \in DOMAIN segments, NEW at \in 0 .. segments[j].memsize - 1,
         Covers(relocs[n], segments[j].vaddr + at)
  PROVE  j = k
<1> DEFINE p == elf.phdrs[f[k]]
           D == Distance
           W == WordBytes
           x == e.offset
           first == FirstPage(f, j)
           end == EndOf(f, j)
           endK == EndOf(f, k)
           v == p.vaddr
           from == segments[j].vaddr
           size == segments[j].memsize
<1>1. /\ e \in ToApply /\ k \in DOMAIN segments /\ v \in Nat /\ endK \in Int
      /\ x \in Nat /\ D \in Nat /\ W \in Nat \ {0} /\ v <= x /\ x + W <= endK
      /\ relocs[n].vaddr = x + D
  BY InsideIs
<1>2. /\ first \in Int /\ end \in Int /\ from = first + D /\ from + size = end + D
  BY PlacesOnPages
<1>3. relocs[n].vaddr <= from + at /\ from + at < relocs[n].vaddr + W
  BY DEF Covers
<1>4. from \in Nat /\ size \in Nat
  <2>1. segments[j] \in Segs
    BY VariablesTyped
  <2> QED BY <2>1, SegmentFields
<1>5. at \in 0 .. size - 1
  OBVIOUS
<1>6. x + D <= from + at /\ from + at < x + D + W
  BY <1>1, <1>3
<1>7. x < end /\ first < x + W
  <2> HIDE DEF first, end, x, D, W, from, size
  <2>1. at \in Nat /\ at < size
    BY <1>4, <1>5
  <2>2. x + D < end + D
    BY <1>1, <1>2, <1>4, <1>6, <2>1
  <2>3. first + D < x + D + W
    BY <1>1, <1>2, <1>4, <1>6, <2>1
  <2> QED BY <1>1, <1>2, <2>2, <2>3
<1>8. ASSUME j # k PROVE FALSE
  <2>1. end <= v \/ endK <= first
    <3>1. \/ /\ EndOf(f, j) <= FirstPage(f, k)
             /\ EndOf(f, j) <= elf.phdrs[f[k]].vaddr
          \/ /\ EndOf(f, k) <= FirstPage(f, j)
             /\ EndOf(f, k) <= elf.phdrs[f[j]].vaddr
      BY <1>1, <1>8, EitherFirst
    <3> QED BY <3>1
  <2> HIDE DEF first, end, endK, v, x, W
  <2> QED BY <1>1, <1>2, <1>7, <2>1
<1> QED BY <1>8

\* Relocations that cover the same byte are the same.
LEMMA OneCovers ==
  ASSUME ConverterAssumption, TypeInv, pc \in Moved, NEW f, Made(f), Linked, Aligned, RelocsInv,
         NEW m \in DOMAIN relocs, NEW n \in DOMAIN relocs, NEW x \in Int,
         Covers(relocs[m], x), Covers(relocs[n], x)
  PROVE  relocs[m] = relocs[n]
<1>1. PICK j, d : Inside(f, m, j, d)
  BY RelocsInside
<1>2. PICK k, e : Inside(f, n, k, e)
  BY RelocsInside
<1> DEFINE a == d.offset
           b == e.offset
           D == Distance
           W == WordBytes
<1>3. /\ d \in ToApply /\ a \in Nat /\ D \in Nat /\ W \in Nat /\ relocs[m].vaddr = a + D
  BY <1>1, InsideIs
<1>4. /\ e \in ToApply /\ b \in Nat /\ relocs[n].vaddr = b + D
  BY <1>2, InsideIs
<1>5. a + D <= x /\ x < a + D + W /\ b + D <= x /\ x < b + D + W
  BY <1>3, <1>4 DEF Covers
<1>6. d = e
  <2>1. d # e => a + W <= b \/ b + W <= a
    BY <1>3, <1>4 DEF Linked, PointersInside
  <2> HIDE DEF a, b, D, W
  <2> QED BY <1>3, <1>4, <1>5, <2>1
<1> QED BY <1>1, <1>2, <1>6 DEF Inside

\* The data at the k-th segment's start, and its size, as the linker meant them.
LEMMA DataStarts ==
  ASSUME ConverterAssumption, TypeInv, NEW f, pc = "relocate", Made(f), RelocateRelocs,
         \A k \in DOMAIN segments : segments[k] = Original(elf.phdrs[f[k]])
  PROVE  DataInv(f)'
<1>1. /\ pc' = "apply" /\ i' = 1 /\ UNCHANGED <<elf, segments, shift>>
  BY DEF RelocateRelocs
<1> SUFFICES ASSUME NEW k \in DOMAIN segments PROVE DataFrom(k, elf.phdrs[f[k]])'
  BY <1>1 DEF DataInv
<1> DEFINE p == elf.phdrs[f[k]]
<1>2. segments[k] = Original(p)
  OBVIOUS
<1>3. Original(p)' = Original(p) /\ p' = p
  BY <1>1, SameOriginal
<1>4. 1 .. (i' - 1) = {} /\ i' - 1 = 0
  BY <1>1
<1> HIDE DEF p
<1>5. DataFrom(k, p)'
  BY <1>1, <1>2, <1>3, <1>4 DEF DataFrom
<1> QED BY <1>1, <1>3, <1>5 DEF p

\* apply_relocs(): the pointer is written where the entry is, and nowhere else.
LEMMA DataApplied ==
  ASSUME ConverterAssumption, TypeInv, NEW f, Made(f), Linked, Aligned, RelocsInv, DataInv(f),
         NEW n, Applies(n)
  PROVE  DataInv(f)'
<1>1. /\ pc = "apply" /\ pc' = "apply" /\ i' = i + 1 /\ i \in DOMAIN relocs
      /\ n \in DOMAIN segments /\ Holds(segments[n], relocs[i].vaddr)
      /\ segments' = [segments EXCEPT ![n] = Patched(segments[n], relocs[i])]
      /\ UNCHANGED <<elf, dynamic, relocs, alignment, shift>>
  BY DEF Applies
<1>2. pc \in Moved
  BY <1>1 DEF Moved
<1>3. /\ segments \in Seq(Segs) /\ relocs \in Seq(Relocs) /\ i \in Nat \ {0}
  BY DEF TypeInv
<1>4. PICK k, e : Inside(f, i, k, e)
  BY <1>1, <1>2, RelocsInside
<1>5. n = k
  BY <1>1, <1>2, <1>4, OneHolds
<1>6. i' - 1 = i /\ \A m : m \in 1 .. i <=> m \in 1 .. i - 1 \/ m = i
  BY <1>1, <1>3, SMTT(30)
<1>7. \A m \in 1 .. i : m \in DOMAIN relocs
  BY <1>1, <1>3, SMTT(30)
<1> SUFFICES ASSUME NEW j \in DOMAIN segments PROVE DataFrom(j, elf.phdrs[f[j]])'
  BY <1>1 DEF DataInv
<1> DEFINE p == elf.phdrs[f[j]]
           s == segments[j]
           D == Distance
           W == WordBytes
<1>8. /\ s.filesize = Original(p).filesize
      /\ \A at \in 0 .. s.memsize - 1 :
           /\ \A m \in 1 .. i - 1 :
                Covers(relocs[m], s.vaddr + at) =>
                  s.data[at] = PointerByte(relocs[m].addend, s.vaddr + at - relocs[m].vaddr)
           /\ (\A m \in 1 .. i - 1 : ~Covers(relocs[m], s.vaddr + at)) =>
                s.data[at] = Original(p).data[at]
  BY <1>1, <1>2 DEF DataInv, DataFrom
<1>9. Original(p)' = Original(p) /\ p' = p /\ DOMAIN segments' = DOMAIN segments
  BY <1>1, SameOriginal
<1>10. s \in Segs /\ relocs[i] \in Relocs
  BY <1>1, <1>3, SMTT(30)
<1>11. s.vaddr \in Nat /\ s.memsize \in Nat /\ s.filesize \in Nat
  BY <1>10, SegmentFields
<1>12. /\ segments'[j].filesize = s.filesize /\ segments'[j].memsize = s.memsize
       /\ segments'[j].vaddr = s.vaddr
       /\ \A at \in 0 .. s.memsize - 1 :
            segments'[j].data[at] = IF Covers(relocs[i], s.vaddr + at)
                                      THEN PointerByte(relocs[i].addend,
                                                       s.vaddr + at - relocs[i].vaddr)
                                      ELSE s.data[at]
  <2>1. CASE j # n
    <3>1. segments'[j] = s
      BY <1>1, <2>1
    <3>2. \A at \in 0 .. s.memsize - 1 : ~Covers(relocs[i], s.vaddr + at)
      BY <1>1, <1>2, <1>4, <1>5, <2>1, OneCovered
    <3> QED BY <3>1, <3>2
  <2>2. CASE j = n
    <3> DEFINE v == relocs[i].vaddr
               at0 == v - s.vaddr
    <3>1. segments'[j] = Patched(s, relocs[i])
      BY <1>1, <2>2
    <3>2. s.vaddr <= v
      BY <1>1, <2>2 DEF Holds
    <3>3. /\ at0 \in Nat
          /\ Patched(s, relocs[i]).vaddr = s.vaddr
          /\ Patched(s, relocs[i]).memsize = s.memsize
          /\ Patched(s, relocs[i]).filesize = IF at0 >= s.filesize THEN at0 + W ELSE s.filesize
          /\ \A at \in 0 .. s.memsize - 1 :
               Patched(s, relocs[i]).data[at] = IF at \in at0 .. at0 + W - 1
                                                  THEN PointerByte(relocs[i].addend, at - at0)
                                                  ELSE s.data[at]
      BY <1>10, <3>2, PatchedFields
    <3>4. ~(at0 >= s.filesize)
      <4>1. /\ p \in ProgramHeader /\ s.vaddr = Original(p).vaddr
            /\ Original(p).vaddr + Original(p).filesize = FileEnd(p) + D /\ FileEnd(p) \in Nat
        <5>1. s.vaddr = Original(p).vaddr
          BY <1>2 DEF Made, MadeFrom
        <5> QED BY <1>2, <5>1, Places
      <4>2. /\ e.offset \in Nat /\ D \in Nat /\ W \in Nat \ {0}
            /\ v = e.offset + D
        BY <1>1, <1>2, <1>4, InsideIs
      <4>3. e.offset + W <= FileEnd(p)
        BY <1>4, <1>5, <2>2 DEF Inside
      <4> DEFINE x == e.offset
                 y == FileEnd(p)
                 z == s.vaddr
                 l == s.filesize
      <4>4. /\ x \in Nat /\ y \in Nat /\ z \in Nat /\ l \in Nat /\ x + W <= y /\ v = x + D
            /\ z + l = y + D
        BY <1>8, <1>11, <4>1, <4>2, <4>3
      <4>5. at0 = v - z
        OBVIOUS
      <4> HIDE DEF x, y, z, l, v, D, W, at0
      <4>6. ~(at0 >= l)
        BY <4>2, <4>4, <4>5
      <4> QED BY <4>6 DEF l
    <3>5. ASSUME NEW at \in 0 .. s.memsize - 1
          PROVE  /\ at \in at0 .. at0 + W - 1 <=> Covers(relocs[i], s.vaddr + at)
                 /\ at - at0 = s.vaddr + at - v
      <4> DEFINE z == s.vaddr
                 l == s.memsize
      <4>1. /\ z \in Nat /\ l \in Nat /\ at \in 0 .. l - 1 /\ v \in Nat /\ W \in Nat \ {0}
            /\ Covers(relocs[i], z + at) <=> v <= z + at /\ z + at < v + W
            /\ at0 = v - z
        <5>1. v \in Nat
          BY <1>10 DEF Relocs
        <5> QED BY <1>11, <5>1, Constants DEF Covers
      <4> HIDE DEF v, z, l, W, at0
      <4>2. /\ at \in at0 .. at0 + W - 1 <=> Covers(relocs[i], z + at)
            /\ at - at0 = z + at - v
        BY <4>1
      <4> QED BY <4>2 DEF z
    <3> HIDE DEF at0, v, s
    <3>6. \A at \in 0 .. s.memsize - 1 :
            segments'[j].data[at] = IF Covers(relocs[i], s.vaddr + at)
                                      THEN PointerByte(relocs[i].addend,
                                                       s.vaddr + at - relocs[i].vaddr)
                                      ELSE s.data[at]
      BY <3>1, <3>3, <3>5 DEF v
    <3> QED BY <3>1, <3>3, <3>4, <3>6
  <2> QED BY <2>1, <2>2
<1> HIDE DEF s, p
<1>13. ASSUME NEW at \in 0 .. s.memsize - 1
       PROVE  /\ \A m \in 1 .. i :
                   Covers(relocs[m], s.vaddr + at) =>
                     segments'[j].data[at] =
                       PointerByte(relocs[m].addend, s.vaddr + at - relocs[m].vaddr)
              /\ (\A m \in 1 .. i : ~Covers(relocs[m], s.vaddr + at)) =>
                   segments'[j].data[at] = Original(p).data[at]
  <2>1. s.vaddr + at \in Int
    BY <1>11
  <2>2. segments'[j].data[at] = IF Covers(relocs[i], s.vaddr + at)
                                  THEN PointerByte(relocs[i].addend,
                                                   s.vaddr + at - relocs[i].vaddr)
                                  ELSE s.data[at]
    BY <1>12
  <2>3. CASE Covers(relocs[i], s.vaddr + at)
    <3>1. \A m \in 1 .. i : Covers(relocs[m], s.vaddr + at) => relocs[m] = relocs[i]
      BY <1>1, <1>2, <1>7, <2>1, <2>3, OneCovers
    <3>2. i \in 1 .. i
      BY <1>3
    <3> QED BY <2>2, <2>3, <3>1, <3>2
  <2>4. CASE ~Covers(relocs[i], s.vaddr + at)
    <3>1. segments'[j].data[at] = s.data[at]
      BY <2>2, <2>4
    <3> QED BY <1>6, <1>8, <2>4, <3>1
  <2> QED BY <2>3, <2>4
<1>14. DataFrom(j, p)'
  <2>1. \A m, y : Covers(relocs[m], y)' <=> Covers(relocs[m], y)
    BY <1>1 DEF Covers
  <2>2. /\ segments'[j].filesize = Original(p)'.filesize
        /\ segments'[j].memsize = s.memsize /\ segments'[j].vaddr = s.vaddr
    BY <1>8, <1>9, <1>12
  <2> QED BY <1>1, <1>6, <1>9, <1>13, <2>1, <2>2 DEF DataFrom
<1> QED BY <1>9, <1>14 DEF p

LEMMA DataStays ==
  ASSUME TypeInv, Bounds, NEW f, DataInv(f),
         UNCHANGED <<elf, segments, dynamic, relocs, alignment, shift>>,
         pc \in Moved, pc' \in Moved,
         \/ pc' = pc /\ i' = i
         \/ pc # "apply" /\ pc' # "apply"
         \/ Applied
  PROVE  DataInv(f)'
<1>1. (Linked' <=> Linked) /\ (Aligned' <=> Aligned)
  BY SameLinked
<1> SUFFICES ASSUME Linked, Aligned, NEW k \in DOMAIN segments PROVE DataFrom(k, elf.phdrs[f[k]])'
  BY <1>1 DEF DataInv
<1> DEFINE p == elf.phdrs[f[k]]
           done == IF pc = "apply" THEN i - 1 ELSE Len(relocs)
<1>2. DataFrom(k, p)
  BY DEF DataInv
<1>3. done' = done
  <2>1. CASE Applied
    <3>1. pc = "apply" /\ pc' = "blocks" /\ i > Len(relocs) /\ i <= Len(relocs) + 1
      BY <2>1 DEF Applied, Bounds
    <3>2. i \in Nat /\ Len(relocs) \in Nat
      BY VariablesTyped
    <3>3. i - 1 = Len(relocs)
      BY <3>1, <3>2
    <3> QED BY <3>1, <3>3
  <2> QED BY <2>1
<1>4. Original(p)' = Original(p) /\ p' = p
  BY SameOriginal
<1> HIDE DEF p
<1>5. DataFrom(k, p)'
  BY <1>2, <1>3, <1>4 DEF DataFrom, Covers
<1> QED BY <1>4, <1>5 DEF p

LEMMA SegmentsInvNext ==
  ASSUME ConverterAssumption, TypeInv, TypeInv', Bounds, SegmentsMade, SegmentsMade',
         RelocsInv, SegmentsInv, Next
  PROVE  SegmentsInv'
<1>1. CASE pc' \in Stopped
  BY <1>1 DEF SegmentsInv, Stopped
<1>2. CASE pc' \notin Stopped /\ pc' \notin Moved
  <2>1. PICK f : Made(f)'
    BY <1>2 DEF SegmentsMade
  <2>2. DataInv(f)'
    BY <1>2 DEF DataInv
  <2> QED BY <2>1, <2>2 DEF SegmentsInv
<1>3. CASE pc' \notin Stopped /\ pc' \in Moved
  <2>1. /\ pc \notin Stopped /\ pc # "segments"
        /\ \/ RelocateRelocs \/ ApplyReloc \/ Applied \/ CreateBlock \/ BlocksCreated
           \/ WriteHeaders \/ WriteSection \/ WriteReloc
    BY <1>3, Zenon DEF Next, LoadSegment, SortSegments, LoadRela, LoadRel, ComputeAlignment,
         ChooseShift, RelocateSegment, RelocateRelocs, ApplyReloc, Overrun, Applied,
         CreateBlock, BlocksCreated, WriteHeaders, WriteSection, WriteReloc, WriteFails, Exit,
         Stopped, Moved
  <2>2. PICK f : Made(f) /\ DataInv(f)
    BY <2>1 DEF SegmentsInv, Stopped
  <2>3. Made(f)'
    BY <1>3, <2>1, <2>2, NextMakes
  <2>4. DataInv(f)'
    <3>1. CASE RelocateRelocs
      <4>1. pc = "relocate"
        BY <3>1 DEF RelocateRelocs
      <4>2. \A k \in DOMAIN segments : segments[k] = Original(elf.phdrs[f[k]])
        BY <2>2, <3>1, RelocateRelocsMakes
      <4> QED BY <2>2, <3>1, <4>1, <4>2, DataStarts
    <3>2. CASE ApplyReloc
      <4>1. PICK n : Applies(n)
        BY <1>3, <3>2, ApplyStep
      <4>2. CASE Linked /\ Aligned
        BY <2>2, <4>1, <4>2, DataApplied
      <4>3. CASE ~(Linked /\ Aligned)
        <5>1. /\ UNCHANGED <<elf, dynamic, alignment>>
              /\ segments' = [segments EXCEPT ![n] = Patched(segments[n], relocs[i])]
          BY <4>1 DEF Applies
        <5>2. Len(segments') = Len(segments)
          <6>1. segments \in Seq(Segs) /\ segments' \in Seq(Segs)
            BY DEF TypeInv
          <6>2. DOMAIN segments' = DOMAIN segments
            BY <5>1
          <6> QED BY <6>1, <6>2
        <5>3. ~(Linked /\ Aligned)'
          BY <4>3, <5>1, <5>2, SameLinked
        <5> QED BY <5>3 DEF DataInv
      <4> QED BY <4>2, <4>3
    <3>3. CASE ~RelocateRelocs /\ ~ApplyReloc
      <4>1. /\ UNCHANGED <<elf, segments, dynamic, relocs, alignment, shift>>
            /\ pc \in Moved
            /\ \/ pc' = pc /\ i' = i
               \/ pc # "apply" /\ pc' # "apply"
               \/ Applied
        BY <1>3, <2>1, <3>3 DEF Applied, CreateBlock, BlocksCreated, WriteHeaders,
           WriteSection, WriteReloc, Exit, Stopped, Moved
      <4> QED BY <1>3, <2>2, <4>1, DataStays
    <3> QED BY <3>1, <3>2, <3>3
  <2> QED BY <2>3, <2>4 DEF SegmentsInv
<1> QED BY <1>1, <1>2, <1>3

LEMMA SegmentsInvHolds == Spec => []SegmentsInv
<1>1. Init => SegmentsInv
  <2> SUFFICES ASSUME Init PROVE SegmentsInv
    OBVIOUS
  <2>1. ConverterInv
    BY ConverterAssumption, ConverterInvInit
  <2>2. PICK f : Made(f)
    BY <2>1 DEF ConverterInv, SegmentsMade, Init, Stopped
  <2>3. DataInv(f)
    BY DEF DataInv, Init, Moved
  <2> QED BY <2>2, <2>3 DEF SegmentsInv
<1>2. ConverterInv /\ ConverterInv' /\ RelocsInv /\ SegmentsInv /\ [Next]_vars => SegmentsInv'
  <2> SUFFICES ASSUME ConverterInv, ConverterInv', RelocsInv, SegmentsInv, [Next]_vars
               PROVE  SegmentsInv'
    OBVIOUS
  <2>1. CASE Next
    BY <2>1, ConverterAssumption, SegmentsInvNext DEF ConverterInv
  <2>2. CASE UNCHANGED vars
    <3>1. CASE pc \in Stopped
      BY <2>2, <3>1 DEF vars, SegmentsInv, Stopped
    <3>2. CASE pc \notin Stopped
      <4>1. PICK f : Made(f) /\ DataInv(f)
        BY <3>2 DEF SegmentsInv, Stopped
      <4>2. Made(f)'
        <5>1. \A p : Original(p)' = Original(p)
          BY <2>2, SameOriginal DEF vars
        <5>2. ASSUME NEW k, NEW p, MadeFrom(k, p) PROVE MadeFrom(k, p)'
          BY <2>2, <5>1, <5>2 DEF MadeFrom, vars, Segment
        <5>3. Seen' = Seen
          BY <2>2 DEF Seen, LoadAt, vars
        <5> QED BY <2>2, <4>1, <5>2, <5>3 DEF Made, ShiftFrom, vars
      <4>3. DataInv(f)'
        <5>1. CASE pc \in Moved
          <6>1. TypeInv /\ Bounds
            BY DEF ConverterInv
          <6>2. /\ UNCHANGED <<elf, segments, dynamic, relocs, alignment, shift>>
                /\ pc' = pc /\ i' = i
            BY <2>2 DEF vars
          <6>3. pc' \in Moved
            BY <5>1, <6>2
          <6> QED BY <4>1, <5>1, <6>1, <6>2, <6>3, DataStays
        <5>2. CASE pc \notin Moved
          BY <2>2, <5>2 DEF DataInv, vars
        <5> QED BY <5>1, <5>2
      <4> QED BY <4>2, <4>3 DEF SegmentsInv
    <3> QED BY <3>1, <3>2
  <2> QED BY <2>1, <2>2
<1> QED BY <1>1, <1>2, TypeCorrect, RelocsInvHolds, PTL DEF Spec

-----------------------------------------------------------------------------
(***************************************************************************)
(* The image the firmware loads.                                           *)
(***************************************************************************)

\* create_pe_reloc() lists the relocations of the tables.
LEMMA FixupsAreApplied ==
  ASSUME ConverterAssumption, TypeInv, RelocsInv, BlocksInv, pc = "done", Linked
  PROVE  Fixups = {e.offset + shift : e \in ToApply}
<1>1. Fixups = {relocs[k].vaddr - BaseAddress : k \in 1 .. Len(relocs)}
  BY DEF BlocksInv
<1>2. ToSet(relocs) = Placed(ToApply, Distance)
  BY DEF RelocsInv, Linked, Distance, Moved
<1>3. /\ relocs \in Seq(Relocs) /\ shift \in Nat /\ BaseAddress \in Nat
      /\ Distance = BaseAddress + shift
  BY Constants DEF TypeInv, Distance
<1>4. DOMAIN relocs = 1 .. Len(relocs)
  BY <1>3
<1>5. ASSUME NEW e \in ToApply
      PROVE  (e.offset + Distance) - BaseAddress = e.offset + shift
  <2>1. e.offset \in Nat
    BY EntryIsTyped
  <2> DEFINE o == e.offset
  <2> HIDE DEF o
  <2>2. o \in Nat => (o + Distance) - BaseAddress = o + shift
    BY <1>3, SMTT(30)
  <2> QED BY <2>1, <2>2 DEF o
<1>6. ASSUME NEW k \in DOMAIN relocs
      PROVE  \E e \in ToApply : relocs[k].vaddr - BaseAddress = e.offset + shift
  <2>1. relocs[k] \in ToSet(relocs)
    BY DEF ToSet
  <2>2. PICK e \in ToApply : relocs[k] = Place(e, Distance)
    BY <1>2, <2>1 DEF Placed
  <2>3. relocs[k].vaddr = e.offset + Distance
    BY <2>2 DEF Place
  <2> QED BY <1>5, <2>3
<1>7. ASSUME NEW e \in ToApply
      PROVE  \E k \in DOMAIN relocs : relocs[k].vaddr - BaseAddress = e.offset + shift
  <2>1. Place(e, Distance) \in ToSet(relocs)
    BY <1>2 DEF Placed
  <2>2. PICK k \in DOMAIN relocs : relocs[k] = Place(e, Distance)
    BY <2>1 DEF ToSet
  <2>3. relocs[k].vaddr = e.offset + Distance
    BY <2>2 DEF Place
  <2> QED BY <1>5, <2>3
<1> QED BY <1>1, <1>4, <1>6, <1>7

\* Every entry has been applied, in the segment it is in.
LEMMA EntryInside ==
  ASSUME ConverterAssumption, TypeInv, pc \in Moved, NEW f, Made(f), Linked, Aligned, RelocsInv,
         NEW e \in ToApply
  PROVE  \E n \in DOMAIN relocs : \E k : Inside(f, n, k, e)
<1>1. ToSet(relocs) = Placed(ToApply, Distance)
  BY DEF RelocsInv, Linked, Distance
<1>2. Place(e, Distance) \in ToSet(relocs)
  BY <1>1 DEF Placed
<1>3. PICK n \in DOMAIN relocs : relocs[n] = Place(e, Distance)
  BY <1>2 DEF ToSet
<1>4. e.offset \in Nat /\ e.addend \in Nat
  BY EntryIsTyped
<1>5. PICK p \in Loads : p.vaddr <= e.offset /\ e.offset + WordBytes <= FileEnd(p)
  BY DEF Linked, PointersInside
<1>6. PICK k \in DOMAIN segments : elf.phdrs[f[k]] = p
  BY SegmentOf
<1>7. Inside(f, n, k, e)
  BY <1>3, <1>4, <1>5, <1>6 DEF Inside
<1> QED BY <1>7

\* Where the byte at an address of the k-th segment is in its data.
Index(f, k, vaddr) == vaddr - FirstPage(f, k)

InSegment(f, k, vaddr) ==
  k \in DOMAIN segments /\ vaddr \in elf.phdrs[f[k]].vaddr .. End(elf.phdrs[f[k]]) - 1

LEMMA IndexIs ==
  ASSUME ConverterAssumption, TypeInv, pc = "done", NEW f, Made(f), DataInv(f), Linked, Aligned,
         NEW k, NEW vaddr, InSegment(f, k, vaddr)
  PROVE  LET p == elf.phdrs[f[k]]
             at == Index(f, k, vaddr)
             s == segments[k]
         IN  /\ vaddr \in Nat /\ Distance \in Nat /\ p.vaddr \in Nat
             /\ FirstPage(f, k) \in Int /\ FirstPage(f, k) <= p.vaddr
             /\ FileEnd(p) \in Nat
             /\ s.vaddr = FirstPage(f, k) + Distance
             /\ at \in 0 .. s.memsize - 1 /\ s.vaddr + at = vaddr + Distance
             /\ s.filesize \in Nat /\ s.memsize \in Nat
             /\ at < s.filesize <=> vaddr < FileEnd(p)
<1> DEFINE p == elf.phdrs[f[k]]
           at == Index(f, k, vaddr)
           s == segments[k]
           first == FirstPage(f, k)
           end == End(p)
           fileEnd == FileEnd(p)
           v == p.vaddr
<1>1. pc \in Moved /\ k \in DOMAIN segments /\ vaddr \in v .. end - 1
  BY DEF Moved, InSegment
<1>2. /\ v \in Nat /\ end \in Nat /\ v <= end /\ fileEnd \in Nat /\ first \in Int /\ first <= v
      /\ s.vaddr = first + Distance /\ s.vaddr + s.memsize = end + Distance
      /\ Original(p).vaddr + Original(p).filesize = fileEnd + Distance
  BY <1>1, Places DEF FirstPage
<1>3. s.vaddr = Original(p).vaddr /\ s.filesize = Original(p).filesize
  BY <1>1 DEF Made, MadeFrom, DataInv, DataFrom
<1>4. s.memsize \in Nat /\ s.filesize \in Nat
  <2>1. s \in Segs
    BY <1>1, VariablesTyped
  <2> QED BY <2>1, SegmentFields
<1>5. Distance \in Nat
  <2>1. shift \in Nat /\ BaseAddress \in Nat
    BY Constants, VariablesTyped
  <2> QED BY <2>1 DEF Distance
<1>6. at = vaddr - first
  BY DEF Index
<1> DEFINE D == Distance
           from == s.vaddr
           size == s.memsize
           length == s.filesize
<1>7. /\ D \in Nat /\ size \in Nat /\ length \in Nat
      /\ from = first + D /\ from + size = end + D /\ from + length = fileEnd + D
  BY <1>2, <1>3, <1>4, <1>5
<1> HIDE DEF p, s, first, end, fileEnd, v, D, from, size, length, at
<1>8. vaddr \in Nat
  BY <1>1, <1>2
<1>9. at \in 0 .. size - 1
  BY <1>1, <1>2, <1>6, <1>7
<1>10. from + at = vaddr + D
  BY <1>2, <1>6, <1>7, <1>8
<1>11. at < length <=> vaddr < fileEnd
  BY <1>2, <1>6, <1>7, <1>8
<1> QED BY <1>2, <1>7, <1>8, <1>9, <1>10, <1>11
        DEF p, s, first, end, fileEnd, v, D, from, size, length, at

\* The entries of the relocation tables that cover the byte at an address.
Covering(vaddr) == {e \in ToApply : vaddr \in e.offset .. e.offset + WordBytes - 1}

\* apply_relocs() has written the pointers of the entries, and nothing else.
LEMMA DataIs ==
  ASSUME ConverterAssumption, TypeInv, RelocsInv, pc = "done", NEW f, Made(f), DataInv(f),
         Linked, Aligned, NEW k, NEW vaddr, InSegment(f, k, vaddr)
  PROVE  LET p == elf.phdrs[f[k]]
             data == segments[k].data[Index(f, k, vaddr)]
         IN  /\ \A e \in Covering(vaddr) :
                  /\ vaddr < FileEnd(p)
                  /\ data = PointerByte(e.addend + BaseAddress + shift, vaddr - e.offset)
             /\ Covering(vaddr) = {} /\ vaddr < FileEnd(p) => data = FileByte(vaddr)
<1> DEFINE p == elf.phdrs[f[k]]
           at == Index(f, k, vaddr)
           s == segments[k]
           data == s.data[at]
<1>1. pc \in Moved /\ k \in DOMAIN segments /\ relocs \in Seq(Relocs)
      /\ DOMAIN relocs = 1 .. Len(relocs)
  BY DEF Moved, InSegment, TypeInv
<1>2. /\ vaddr \in Nat /\ Distance \in Nat /\ p.vaddr \in Nat
      /\ FirstPage(f, k) \in Int /\ FirstPage(f, k) <= p.vaddr
      /\ FileEnd(p) \in Nat
      /\ s.vaddr = FirstPage(f, k) + Distance
      /\ at \in 0 .. s.memsize - 1 /\ s.vaddr + at = vaddr + Distance
      /\ s.filesize \in Nat /\ s.memsize \in Nat
      /\ at < s.filesize <=> vaddr < FileEnd(p)
  BY IndexIs
<1>3. /\ \A n \in 1 .. Len(relocs) :
           Covers(relocs[n], s.vaddr + at) =>
             data = PointerByte(relocs[n].addend, s.vaddr + at - relocs[n].vaddr)
      /\ (\A n \in 1 .. Len(relocs) : ~Covers(relocs[n], s.vaddr + at)) =>
           data = Original(p).data[at]
  BY <1>1, <1>2 DEF DataInv, DataFrom
<1>4. WordBytes \in Nat \ {0} /\ BaseAddress \in Nat /\ shift \in Nat
      /\ Distance = BaseAddress + shift
  BY Constants DEF TypeInv, Distance
<1>5. ASSUME NEW e \in ToApply, NEW n \in DOMAIN relocs, NEW j, Inside(f, n, j, e)
      PROVE  /\ e \in Covering(vaddr) <=> Covers(relocs[n], s.vaddr + at)
             /\ s.vaddr + at - relocs[n].vaddr = vaddr - e.offset
             /\ relocs[n].addend = e.addend + BaseAddress + shift
             /\ e.offset \in Nat
  <2>1. /\ e.offset \in Nat /\ e.addend \in Nat
        /\ relocs[n].vaddr = e.offset + Distance
        /\ relocs[n].addend = e.addend + Distance
    BY <1>1, <1>5, InsideIs, SMTT(30)
  <2> DEFINE o == e.offset
             a == e.addend
             z == s.vaddr
             r == relocs[n].vaddr
             D == Distance
             W == WordBytes
  <2>2. /\ o \in Nat /\ a \in Nat /\ z \in Int /\ at \in Int
        /\ D \in Nat /\ vaddr \in Nat
        /\ z + at = vaddr + D /\ r = o + D
        /\ W \in Nat \ {0} /\ D = BaseAddress + shift
    <3>1. s.vaddr \in Int /\ at \in Int
      BY <1>2
    <3> QED BY <1>2, <1>4, <2>1, <3>1
  <2>3. /\ e \in Covering(vaddr) <=> vaddr \in o .. o + W - 1
        /\ Covers(relocs[n], z + at) <=> r <= z + at /\ z + at < r + W
    BY <2>1 DEF Covering, Covers
  <2> HIDE DEF o, a, z, r, at, D, W
  <2>4. vaddr \in o .. o + W - 1 <=> r <= z + at /\ z + at < r + W
    BY <2>2
  <2>5. z + at - r = vaddr - o
    BY <2>2
  <2>6. a + D = a + BaseAddress + shift
    BY <1>4, <2>2
  <2> QED BY <2>1, <2>3, <2>4, <2>5, <2>6 DEF o, a, z, r, at, D, W
<1>6. ASSUME NEW e \in Covering(vaddr)
      PROVE  /\ vaddr < FileEnd(p)
             /\ data = PointerByte(e.addend + BaseAddress + shift, vaddr - e.offset)
  <2>1. e \in ToApply /\ vaddr \in e.offset .. e.offset + WordBytes - 1
    BY DEF Covering
  <2>2. PICK n \in DOMAIN relocs : \E j : Inside(f, n, j, e)
    BY <1>1, <2>1, EntryInside
  <2>3. PICK j : Inside(f, n, j, e)
    BY <2>2
  <2>4. /\ Covers(relocs[n], s.vaddr + at)
        /\ s.vaddr + at - relocs[n].vaddr = vaddr - e.offset
        /\ relocs[n].addend = e.addend + BaseAddress + shift
        /\ e.offset \in Nat
    BY <1>5, <2>1, <2>3
  <2>5. data = PointerByte(e.addend + BaseAddress + shift, vaddr - e.offset)
    BY <1>1, <1>3, <2>4
  <2>6. k = j
    BY <1>1, <1>2, <2>3, <2>4, OneCovered
  <2>7. e.offset + WordBytes <= FileEnd(p)
    BY <2>3, <2>6 DEF Inside
  <2> DEFINE o == e.offset
             y == FileEnd(p)
  <2>8. /\ o \in Nat /\ y \in Nat /\ o + WordBytes <= y
        /\ vaddr \in o .. o + WordBytes - 1
    BY <1>2, <2>1, <2>4, <2>7
  <2> HIDE DEF o, y
  <2>9. vaddr < y
    BY <1>2, <1>4, <2>8
  <2> QED BY <2>5, <2>9 DEF y
<1>7. ASSUME Covering(vaddr) = {}, vaddr < FileEnd(p)
      PROVE  data = FileByte(vaddr)
  <2>1. ASSUME NEW n \in 1 .. Len(relocs) PROVE ~Covers(relocs[n], s.vaddr + at)
    <3>1. PICK j, e : Inside(f, n, j, e)
      BY <1>1, RelocsInside
    <3>2. e \in ToApply
      BY <3>1 DEF Inside
    <3> QED BY <1>1, <1>5, <1>7, <3>1, <3>2
  <2>2. data = Original(p).data[at]
    BY <1>3, <2>1
  <2> DEFINE base == p.vaddr + BaseAddress + shift
             offset == base - AlignDown(base, p.align)
             first == FirstPage(f, k)
             v == p.vaddr
  <2>3. p \in ProgramHeader /\ p.align # 0
    <3>1. p \in ProgramHeader /\ p.align = alignment
      BY <1>1, Places, SMTT(30)
    <3> QED BY <1>1, <3>1 DEF TypeInv
  <2>4. /\ Original(p).vaddr = base - offset
        /\ Original(p).memsize = p.memsz + offset
        /\ \A m \in 0 .. p.memsz + offset - 1 :
             Original(p).data[m] = IF m < offset THEN Zero ELSE Segment(p).data[m - offset]
        /\ offset \in 0 .. p.align - 1
    BY <2>3, OriginalFields
  <2>5. Original(p).vaddr = s.vaddr /\ Original(p).memsize = s.memsize
    BY <1>1, SMTT(30) DEF Made, MadeFrom
  <2>6. Original(p).data[at] = IF at < offset THEN Zero ELSE Segment(p).data[at - offset]
    <3> DEFINE size == p.memsz
    <3>0. p.memsz \in Nat /\ p.align \in Nat
      BY <2>3 DEF ProgramHeader
    <3>1. size \in Nat /\ offset \in Int
      <4>1. offset \in 0 .. p.align - 1
        BY <2>4
      <4> HIDE DEF offset
      <4> QED BY <3>0, <4>1
    <3>2. at \in 0 .. (size + offset) - 1
      BY <1>2, <2>4, <2>5
    <3>3. at \in 0 .. size + offset - 1
      <4> HIDE DEF size, offset, at
      <4> QED BY <3>1, <3>2, SMTT(30)
    <3> QED BY <2>4, <3>3, ZenonT(30)
  <2>7. offset \in Int /\ at = vaddr - first /\ v \in Nat /\ first \in Int
        /\ base = v + BaseAddress + shift /\ base - offset = first + Distance
        /\ vaddr \in v .. End(p) - 1
    <3>1. p.align \in Nat
      BY <2>3, SMTT(30) DEF ProgramHeader
    <3>2. offset \in Int
      BY <2>4, <3>1
    <3> QED BY <1>2, <2>4, <2>5, <3>2, ZenonT(30) DEF Index, InSegment
  <2>8. End(p) \in Nat /\ p.filesz \in Nat /\ p.memsz \in Nat /\ End(p) = v + p.memsz
        /\ FileEnd(p) = v + p.filesz
    BY <1>2, <2>3 DEF ProgramHeader, End, FileEnd
  <2> HIDE DEF v, first, base, offset, at, data, s
  <2>9. offset = v - first
    BY <1>2, <1>4, <2>7
  <2>10. at - offset = vaddr - v
    BY <1>2, <2>7, <2>9
  <2>11. ~(at < offset)
    BY <1>2, <2>7, <2>8, <2>9
  <2> DEFINE m == vaddr - v
             fsize == p.filesz
             msize == p.memsz
  <2>12. m \in 0 .. msize - 1 /\ m < fsize
    <3>1. fsize \in Nat /\ msize \in Nat /\ vaddr \in v .. v + msize - 1 /\ vaddr < v + fsize
      BY <1>7, <2>7, <2>8
    <3> HIDE DEF fsize, msize
    <3> QED BY <1>2, <2>7, <3>1
  <2> HIDE DEF m
  <2>13. Segment(p).data[m] = FileByte(v + m)
    BY <2>12 DEF Segment, v
  <2>14. v + m = vaddr
    BY <1>2, <2>7 DEF m
  <2> QED BY <2>2, <2>6, <2>10, <2>11, <2>13, <2>14 DEF m
<1> QED BY <1>6, <1>7

\* What the firmware reads for a section: the data of its segment, and zeros behind it.
LEMMA SectionRead ==
  ASSUME ConverterAssumption, TypeInv, FileInv, pc = "done",
         NEW k \in DOMAIN segments, NEW at \in 0 .. segments[k].memsize - 1
  PROVE  (IF at < SegmentHeader(k).rawSize THEN file[SegmentHeader(k).raw + at + 1] ELSE Zero)
           = IF at < segments[k].filesize THEN segments[k].data[at] ELSE Zero
<1> DEFINE s == segments[k]
           h == SegmentHeader(k)
           length == s.filesize
           offset == LayoutOffset(k)
           size == LayoutSize(k)
<1>1. /\ segments \in Seq(Segs) /\ s \in Segs /\ k \in 1 .. Len(segments)
      /\ Len(segments) \in Nat
  <2>1. segments \in Seq(Segs)
    BY DEF TypeInv
  <2> QED BY <2>1, VariablesTyped
<1>2. /\ s.data \in [0 .. s.memsize - 1 -> Byte] /\ s.memsize \in Nat /\ length \in Nat
      /\ at \in Nat
  <2>1. s.data \in [0 .. s.memsize - 1 -> Byte] /\ s.memsize \in Nat /\ length \in Nat
    BY <1>1, SegmentFields
  <2>2. at \in 0 .. s.memsize - 1
    OBVIOUS
  <2> HIDE DEF s
  <2> QED BY <2>1, <2>2, SMTT(30)
<1>3. size \in Nat /\ length <= size
  BY <1>1, SectionSizes
<1>4. k \in 1 .. Len(segments) + 1 /\ offset \in Nat
  BY <1>1, Offsets, SMTT(30)
<1>5. FileHas(Chunk(s), offset) /\ FileHas(Padding(size - length), offset + length)
  BY <1>1 DEF FileInv, SectionIn, Stopped
<1>6. h.rawSize = size /\ (length # 0 => h.raw = offset)
  BY DEF SegmentHeader
<1>7. CASE at < length
  <2>1. at < size /\ length # 0 /\ at + 1 \in 1 .. length /\ at + 1 - 1 = at
    <3> HIDE DEF length, size
    <3> QED BY <1>2, <1>3, <1>7
  <2>2. Chunk(s)[at + 1] = s.data[at] /\ at + 1 \in DOMAIN Chunk(s)
    BY <1>2, <2>1, SMTT(30) DEF Chunk
  <2>3. file[offset + (at + 1)] = s.data[at]
    BY <1>5, <2>2 DEF FileHas
  <2>4. offset + (at + 1) = offset + at + 1
    <3> HIDE DEF offset
    <3> QED BY <1>2, <1>4
  <2> HIDE DEF h, offset, length, size, s
  <2>5. file[h.raw + at + 1] = s.data[at]
    BY <1>6, <2>1, <2>3, <2>4
  <2> QED BY <1>6, <1>7, <2>1, <2>5 DEF h, s, length
<1>8. CASE ~(at < length) /\ at < size
  <2> DEFINE m == at - length + 1
  <2>1. m \in 1 .. size - length /\ (offset + length) + m = offset + at + 1
    <3> HIDE DEF offset, length, size
    <3> QED BY <1>2, <1>3, <1>4, <1>8
  <2> HIDE DEF m
  <2>2. Padding(size - length)[m] = Zero /\ m \in DOMAIN Padding(size - length)
    BY <2>1 DEF Padding
  <2>3. file[(offset + length) + m] = Zero
    BY <1>5, <2>2 DEF FileHas
  <2>4. length # 0
    <3>1. ASSUME length = 0 PROVE FALSE
      <4>1. size = AlignUp(0, FileAlignment)
        BY <3>1 DEF LayoutSize
      <4>2. Multiple(0, FileAlignment)
        <5>1. 0 = 0 * FileAlignment
          BY Constants
        <5> QED BY <5>1 DEF Multiple
      <4>3. AlignUp(0, FileAlignment) <= 0
        BY <4>2, Constants, FirstAbove
      <4> HIDE DEF size
      <4> QED BY <1>2, <1>3, <1>8, <4>1, <4>3
    <3> QED BY <3>1
  <2> HIDE DEF h, offset, length, size, s
  <2>5. file[h.raw + at + 1] = Zero
    BY <1>6, <2>1, <2>3, <2>4
  <2> QED BY <1>6, <1>8, <2>5 DEF h, s, length
<1>9. CASE ~(at < size)
  <2>1. ~(at < length)
    <3> HIDE DEF length, size
    <3> QED BY <1>2, <1>3, <1>9
  <2> HIDE DEF h, offset, length, size, s
  <2> QED BY <1>6, <1>9, <2>1 DEF h, s, length
<1> QED BY <1>7, <1>8, <1>9

\* The section of a segment is the one the firmware finds at its addresses.
LEMMA SectionAt ==
  ASSUME ConverterAssumption, TypeInv, FileInv, SectionsDisjoint, pc = "done",
         NEW f, Made(f), DataInv(f), Linked, Aligned, NEW k, NEW vaddr, InSegment(f, k, vaddr)
  PROVE  /\ (CHOOSE s \in Sections : In(s, vaddr + shift)) = SegmentHeader(k)
         /\ (vaddr + shift) - SegmentHeader(k).rva = Index(f, k, vaddr)
<1> DEFINE s == image.sections
           x == vaddr + shift
           up(y) == AlignUp(y, alignment)
           h == SegmentHeader(k)
<1>1. image = Image /\ s = SectionHeaders /\ image.sectionAlignment = alignment
  BY DEF FileInv, Image, Stopped
<1>2. /\ pc \in Moved /\ k \in DOMAIN segments /\ segments \in Seq(Segs)
      /\ k \in 1 .. Len(segments) /\ Len(segments) \in Nat
      /\ shift \in Nat /\ BaseAddress \in Nat /\ Distance = BaseAddress + shift
  <2>1. pc \in Moved /\ k \in DOMAIN segments
    BY DEF Moved, InSegment
  <2>2. segments \in Seq(Segs) /\ shift \in Nat
    BY DEF TypeInv
  <2>3. BaseAddress \in Nat /\ Distance = BaseAddress + shift
    BY Constants DEF Distance
  <2> QED BY <2>1, <2>2, <2>3
<1>3. /\ vaddr \in Nat /\ Distance \in Nat
      /\ FirstPage(f, k) \in Int
      /\ segments[k].vaddr = FirstPage(f, k) + Distance
      /\ Index(f, k, vaddr) \in 0 .. segments[k].memsize - 1
      /\ segments[k].memsize \in Nat
  BY IndexIs
<1>4. alignment \in Nat \ {0}
  BY <1>2 DEF TypeInv
<1>5. k \in DOMAIN s /\ s[k] = h
  BY <1>1, <1>2, HeadersPoint
<1>6. In(h, x) /\ x - h.rva = Index(f, k, vaddr)
  <2> DEFINE first == FirstPage(f, k)
             size == segments[k].memsize
             v == segments[k].vaddr
             at == Index(f, k, vaddr)
  <2>1. h.rva = v - BaseAddress /\ h.size = size
    BY DEF SegmentHeader
  <2>2. at = vaddr - first /\ first \in Int /\ v = first + Distance /\ size \in Nat
        /\ at \in 0 .. size - 1
    BY <1>3 DEF Index
  <2> HIDE DEF first, size, v, at, h
  <2>3. h.rva = first + shift
    BY <1>2, <1>3, <2>1, <2>2
  <2>4. x - h.rva = at
    BY <1>2, <1>3, <2>2, <2>3
  <2>5. h.rva <= x /\ x < h.rva + h.size
    BY <1>2, <1>3, <2>1, <2>2, <2>3
  <2> QED BY <2>4, <2>5 DEF In, at
<1>7. \A j \in DOMAIN s : j \in Int /\ s[j].rva \in Int /\ s[j].size \in Int
  <2> SUFFICES ASSUME NEW j \in DOMAIN s PROVE j \in Int /\ s[j].rva \in Int /\ s[j].size \in Int
    OBVIOUS
  <2>1. j \in 1 .. SectionNum /\ SectionNum \in Nat
    BY <1>1, <1>2, HeadersPoint, HeadersFit
  <2>2. CASE j \in 1 .. Len(segments)
    <3> DEFINE v == segments[j].vaddr
    <3>1. s[j] = SegmentHeader(j) /\ segments[j] \in Segs
      BY <1>1, <1>2, <2>2, HeadersPoint, SMTT(30)
    <3>2. v \in Nat /\ segments[j].memsize \in Nat
      BY <3>1, SegmentFields
    <3>3. s[j].rva = v - BaseAddress /\ s[j].size = segments[j].memsize
      BY <3>1 DEF SegmentHeader
    <3> HIDE DEF v, s
    <3>4. v - BaseAddress \in Int
      BY <1>2, <3>2
    <3>5. s[j].size \in Int
      BY <3>2, <3>3
    <3> QED BY <2>1, <3>3, <3>4, <3>5
  <2>3. CASE j \notin 1 .. Len(segments)
    <3>1. s[j] = RelocHeader
      BY <1>1, <2>1, <2>3, HeadersPoint
    <3>2. s[j].rva = RelocVaddr - BaseAddress /\ s[j].size = RelocSize
      BY <3>1 DEF RelocHeader
    <3>3. Len(segments) \in DOMAIN segments
      BY <1>2
    <3>4. segments[Len(segments)] \in Segs
      BY <1>2, <3>3
    <3> DEFINE last == segments[Len(segments)]
               end == last.vaddr + last.memsize
    <3>5. last.vaddr \in Nat /\ last.memsize \in Nat
      BY <3>4, SegmentFields
    <3>6. end \in Int
      BY <3>5, SMTT(30)
    <3>7. RelocVaddr = AlignUp(end, alignment)
      BY DEF RelocVaddr
    <3> HIDE DEF end, last
    <3>8. RelocVaddr \in Int
      BY <1>4, <3>6, <3>7, Up
    <3>9. RelocSize \in Int
      BY RelocSizes
    <3> QED BY <1>2, <2>1, <3>2, <3>8, <3>9
  <2> QED BY <2>2, <2>3
<1>8. \A i1, i2 \in DOMAIN s : i1 < i2 => up(s[i1].rva + s[i1].size) <= s[i2].rva
  BY <1>1 DEF SectionsDisjoint, Linked
<1>9. x \in Int
  BY <1>2, <1>3
<1>10. ASSUME NEW i1 \in DOMAIN s, NEW i2 \in DOMAIN s, In(s[i1], x), In(s[i2], x), i1 < i2
       PROVE  FALSE
  <2> DEFINE a == s[i1].rva
             b == s[i1].size
             c == s[i2].rva
             d == s[i2].size
  <2>1. a \in Int /\ b \in Int /\ c \in Int /\ x < a + b /\ c <= x
    BY <1>7, <1>10 DEF In
  <2>2. up(a + b) <= c
    BY <1>8, <1>10
  <2> HIDE DEF a, b, c, x
  <2>3. a + b \in Int
    BY <2>1
  <2>4. a + b <= up(a + b) /\ up(a + b) \in Int
    BY <1>4, <2>3, Up
  <2> HIDE DEF up
  <2> QED BY <1>9, <2>1, <2>2, <2>3, <2>4
<1> HIDE DEF s, x, h
<1>11. Sections = {s[j] : j \in DOMAIN s}
  BY DEF Sections, ToSet, s
<1>12. \A t \in Sections : In(t, x) => t = h
  <2> SUFFICES ASSUME NEW j \in DOMAIN s, In(s[j], x) PROVE j = k
    BY <1>5, <1>11
  <2>1. j \in Int /\ k \in Int
    BY <1>5, <1>7
  <2>2. j < k \/ k < j \/ j = k
    BY <2>1
  <2> QED BY <1>5, <1>6, <1>10, <2>2
<1>13. h \in Sections
  BY <1>5, <1>11
<1>14. (CHOOSE t \in Sections : In(t, x)) = h
  BY <1>6, <1>12, <1>13
<1> QED BY <1>6, <1>14 DEF x, h

\* The image the firmware loads is the program the linker made: every byte of every
\* segment is at its place, the bytes behind a segment's data are zero, every
\* relocation is applied for the base address and listed to be applied for another
\* one, nothing else is, and it is entered where the program begins.  What the
\* firmware makes of an image whose sections lie on its headers is left open.
THEOREM ImageIsFaithful == Spec => []ImageFaithful
<1>1. ASSUME ConverterInv, AlignmentInv, SegmentsInv, RelocsInv, BlocksInv, FileInv,
             SectionsDisjoint
      PROVE  ImageFaithful
  <2> SUFFICES ASSUME pc = "done", Linked, ~HeadersOverlaid PROVE ImageFaithful
    BY DEF ImageFaithful
  <2> USE ConverterAssumption
  <2>0. Aligned
    BY <1>1 DEF AlignmentInv, Moved, Linked
  <2>1. TypeInv /\ pc \in Moved
    BY <1>1 DEF ConverterInv, Moved
  <2>2. PICK f : Made(f) /\ DataInv(f)
    BY <1>1 DEF SegmentsInv
  <2>3. image.entry = elf.entry + shift
    BY <1>1 DEF FileInv, Image, Stopped
  <2>4. Fixups = {e.offset + shift : e \in ToApply}
    BY <1>1, <2>0, <2>1, FixupsAreApplied
  <2>5. ASSUME NEW p \in Loads, NEW vaddr \in p.vaddr .. End(p) - 1
        PROVE  Loaded(vaddr + shift) =
                 IF Covering(vaddr) # {}
                   THEN LET e == CHOOSE e \in Covering(vaddr) : TRUE
                        IN  PointerByte(e.addend + BaseAddress + shift, vaddr - e.offset)
                   ELSE IF vaddr < FileEnd(p) THEN FileByte(vaddr) ELSE Zero
    <3>1. PICK k \in DOMAIN segments : elf.phdrs[f[k]] = p
      BY <2>1, <2>2, SegmentOf
    <3>2. InSegment(f, k, vaddr)
      BY <3>1 DEF InSegment
    <3> DEFINE at == Index(f, k, vaddr)
               data == segments[k].data[at]
    <3>3. /\ at \in 0 .. segments[k].memsize - 1
          /\ at < segments[k].filesize <=> vaddr < FileEnd(p)
      BY <2>0, <2>1, <2>2, <3>1, <3>2, IndexIs
    <3>4. /\ (CHOOSE s \in Sections : In(s, vaddr + shift)) = SegmentHeader(k)
          /\ (vaddr + shift) - SegmentHeader(k).rva = at
      BY <1>1, <2>0, <2>1, <2>2, <3>2, SectionAt
    <3>5. (IF at < SegmentHeader(k).rawSize THEN file[SegmentHeader(k).raw + at + 1] ELSE Zero)
             = IF at < segments[k].filesize THEN data ELSE Zero
      BY <1>1, <2>1, <3>3, SectionRead
    <3> HIDE DEF at, data
    <3>6. Loaded(vaddr + shift) = IF vaddr < FileEnd(p) THEN data ELSE Zero
      <4> DEFINE h == SegmentHeader(k)
                 x == vaddr + shift
      <4>1. (CHOOSE s \in Sections : In(s, x)) = h /\ x - h.rva = at
        BY <3>4
      <4> HIDE DEF h, x
      <4>2. Loaded(x) = IF at < h.rawSize THEN file[h.raw + at + 1] ELSE Zero
        <5> DEFINE c == CHOOSE s \in Sections : In(s, x)
        <5>1. Loaded(x) = IF x - c.rva < c.rawSize THEN file[c.raw + (x - c.rva) + 1] ELSE Zero
          BY DEF Loaded
        <5>2. c = h
          BY <4>1
        <5> HIDE DEF c
        <5> QED BY <4>1, <5>1, <5>2
      <4> QED BY <3>3, <3>5, <4>2 DEF h, x
    <3>7. /\ \A e \in Covering(vaddr) :
               /\ vaddr < FileEnd(p)
               /\ data = PointerByte(e.addend + BaseAddress + shift, vaddr - e.offset)
          /\ Covering(vaddr) = {} /\ vaddr < FileEnd(p) => data = FileByte(vaddr)
      BY <1>1, <2>0, <2>1, <2>2, <3>1, <3>2, DataIs DEF data, at
    <3>8. CASE Covering(vaddr) # {}
      <4> DEFINE e == CHOOSE e \in Covering(vaddr) : TRUE
      <4>1. e \in Covering(vaddr)
        BY <3>8
      <4> QED BY <3>6, <3>7, <3>8, <4>1
    <3>9. CASE Covering(vaddr) = {}
      BY <3>6, <3>7, <3>9
    <3> QED BY <3>8, <3>9
  <2> QED BY <2>3, <2>4, <2>5 DEF ImageFaithful, Covering
<1> QED BY <1>1, TypeCorrect, AlignmentStays, SegmentsInvHolds, RelocsInvHolds,
           BlocksInvHolds, FileInvHolds, SectionsAreDisjoint, PTL
=============================================================================
