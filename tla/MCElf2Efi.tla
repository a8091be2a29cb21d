----------------------------- MODULE MCElf2Efi -----------------------------
\* Small files for Elf2Efi: words of two bytes, pages and sections of eight.
EXTENDS Elf2Efi

Program(vaddr, filesz, memsz, align) ==
  [type |-> "load", offset |-> vaddr, vaddr |-> vaddr, filesz |-> filesz,
   memsz |-> memsz, align |-> align]

Note == [Program(1, 1, 1, 1) EXCEPT !.type = "other"]
Dynamic(words) == [Program(12, WordBytes * words, WordBytes * words, 2)
                     EXCEPT !.type = "dynamic"]

Rel(offset) == [type |-> "relative", offset |-> offset, addend |-> offset + 1]

\* A dynamic section of five tags, the relocations' at its beginning.
Near(tag, sizeTag, size) == <<tag, 40, sizeTag, size, 3, 3, 0, 0, 0, 0>>
Far == <<3, 3, 3, 3, DT_RELA, 40, DT_RELASZ, RelaBytes, 0, 0, 0, 0>>
None == <<3, 3, 4, 4, 5, 5, 6, 6, 0, 0>>

File(phdrs, dyn, rela, rel) ==
  [valid |-> TRUE, size |-> 64, entry |-> 2, phdrs |-> Append(phdrs, Dynamic(Len(dyn))),
   dyn |-> dyn, rela |-> rela, relaAt |-> 40, rel |-> rel, relAt |-> 40]

WithRela(phdrs, rela) ==
  File(phdrs, Near(DT_RELA, DT_RELASZ, RelaBytes * Len(rela)), rela, <<>>)
WithRel(phdrs, rel) ==
  File(phdrs, Near(DT_REL, DT_RELSZ, RelBytes * Len(rel)), <<>>, rel)

\* Two segments, the higher one first in one file; the data of the second begins
\* anywhere in its page, and some of its bytes are not in the file.  At 7 the first is
\* behind the headers, which are 6 bytes long then, and in their page.
Layouts ==
  {<<Program(low, 5, 5, 8), Note, Program(high, 4, mem, 8)>> :
     low \in {0, 2, 7, 8}, high \in {16, 19}, mem \in {4, 5, 12}} \cup
  {<<Program(19, 5, 5, 8), Program(0, 8, 8, 8)>>}

Tables == {<<>>, <<Rel(19)>>, <<Rel(21), Rel(2)>>, <<Rel(19), Rel(21)>>}

Sound == {WithRela(l, t) : l \in Layouts, t \in Tables}
SoundRel == {WithRel(l, t) : l \in Layouts, t \in Tables}
Unrelocated == {File(l, None, <<>>, <<>>) : l \in Layouts}

\* What a linker does not make: alignments that differ, or are none, a truncated
\* file, two segments at an address or on a page, other types of relocations,
\* relocations outside the data, no dynamic section or an empty one.
One == <<Program(0, 5, 5, 8), Program(16, 6, 9, 8)>>
Odd ==
  {WithRela(<<Program(low, 5, 5, a), Program(16, 6, 6, b)>>, <<Rel(17)>>) :
     low \in {0, 8}, a \in {0, 2, 4, 8}, b \in {4, 16}} \cup
  {WithRela(<<Program(k, 5, 7, 8)>>, <<Rel(at)>>) : k \in {0, 7}, at \in {1, 4, 6, 7, 30}} \cup
  {[WithRela(One, <<Rel(17)>>) EXCEPT !.valid = FALSE],
   [WithRela(One, <<Rel(17)>>) EXCEPT !.size = 46],
   [WithRela(One, <<Rel(17)>>) EXCEPT !.dyn = <<DT_RELA, 40, 3, 3, 0, 0, 0, 0, 0, 0>>],
   [WithRela(One, <<Rel(17)>>) EXCEPT !.phdrs = SubSeq(@, 1, 2)],
   WithRela(<<Program(0, 6, 5, 8)>>, <<>>),
   WithRela(<<Program(0, 5, 5, 8), Program(0, 3, 3, 8)>>, <<Rel(1), Rel(1)>>),
   WithRela(One, <<Rel(17), [Rel(2) EXCEPT !.type = "none"]>>),
   WithRela(One, <<[Rel(2) EXCEPT !.type = "none"], Rel(17)>>),
   WithRela(One, <<[Rel(2) EXCEPT !.type = "unsupported"]>>),
   WithRel(One, <<Rel(32)>>),
   File(One, <<>>, <<>>, <<>>),
   File(<<Program(0, 5, 5, 8), Program(5, 3, 3, 8)>>, None, <<>>, <<>>)}

MissedFiles == {File(One, Far, <<Rel(17)>>, <<>>)}

AllFiles == Sound \cup SoundRel \cup Unrelocated \cup Odd \cup MissedFiles
=============================================================================
