------------------------------- MODULE Elf2Efi -------------------------------
(***************************************************************************)
(* tools/elf2efi.c: an ELF file becomes a PE image.  One action per turn   *)
(* of the converter's loops.  Bytes are told apart by where they come      *)
(* from: the file's, by their address, the bytes of a pointer, zeros, and  *)
(* garbage, which is whatever malloc() returned.                           *)
(***************************************************************************)
EXTENDS Integers, Sequences, FiniteSets, FiniteSetsExt, SequencesExt

CONSTANTS
  Files,                \* the ELF files to convert
  BaseAddress,          \* option -b, 0x10000000 unless given
  WordBytes,            \* of a pointer, and of a word of .dynamic: 8
  ByteValues,           \* 256
  PageBytes,            \* a block of relocations covers: 4096
  FileAlignment,        \* of sections in the output: 512
  HeaderBytes,          \* of a PE image without sections: 328
  SectionHeaderBytes,   \* 40
  BlockBytes,           \* of a relocation block's header: 8
  EntryBytes            \* of a relocation in a block: 2

DynBytes == 2 * WordBytes      \* sizeof(Elf64_Dyn)
RelBytes == 2 * WordBytes      \* sizeof(Elf64_Rel)
RelaBytes == 3 * WordBytes     \* sizeof(Elf64_Rela)

DT_RELA == 7
DT_RELASZ == 8
DT_REL == 17
DT_RELSZ == 18

(***************************************************************************)
(* An ELF file: whether valid_ehdr() takes its header, its size, entry and *)
(* program headers, the words of its dynamic section, and two tables of    *)
(* relocations with the offsets they are at.  The words are those of all   *)
(* the memory of the dynamic section.                                      *)
(***************************************************************************)
ProgramHeader ==
  [type : {"load", "dynamic", "other"}, offset : Nat, vaddr : Nat,
   filesz : Nat, memsz : Nat, align : Nat]

RelocEntry == [type : {"none", "relative", "unsupported"}, offset : Nat, addend : Nat]

FileOK(f) ==
  /\ f.valid \in BOOLEAN /\ f.size \in Nat /\ f.entry \in Nat
  /\ f.phdrs \in Seq(ProgramHeader)
  /\ \E p \in ToSet(f.phdrs) : p.type = "load"
  /\ f.dyn \in Seq(Nat)
  /\ \A p \in ToSet(f.phdrs) : p.type = "dynamic" => p.memsz <= WordBytes * Len(f.dyn)
  /\ f.rela \in Seq(RelocEntry) /\ f.relaAt \in Nat
  /\ f.rel \in Seq(RelocEntry) /\ f.relAt \in Nat

ASSUME ConverterAssumption ==
  /\ \A f \in Files : FileOK(f)
  /\ {WordBytes, ByteValues, PageBytes, FileAlignment, HeaderBytes,
      SectionHeaderBytes, BlockBytes, EntryBytes} \subseteq Nat \ {0}
  /\ BaseAddress \in Nat
  /\ BaseAddress >= PageBytes      \* below, the first block would have no header

VARIABLES
  pc,          \* where the program is
  elf,         \* the file
  i,           \* the loop's index
  segments,    \* exec.segments
  dynamic,     \* sizes of the dynamic segment
  relocs,      \* exec.relocs
  alignment,   \* exec.executableAlignment
  shift,       \* what relocate_exec() adds besides the base address
  blocks,      \* the relocation blocks of create_pe_reloc()
  image,       \* the PE headers
  file         \* the bytes written

vars == <<pc, elf, i, segments, dynamic, relocs, alignment, shift, blocks, image, file>>

Location == {"segments", "rela", "rel", "alignment", "shift", "relocate", "apply",
             "blocks", "headers", "sections", "reloc", "done", "exit", "crash"}

Zero == <<"zero">>
Garbage == <<"garbage">>
FileByte(addr) == <<"file", addr>>
PointerByte(value, k) == <<"pointer", value, k>>
HeaderByte(k) == <<"header", k>>
RelocByte(k) == <<"reloc", k>>

Plus(a, b) == a + b
Times(a, b) == a * b

\* ALIGN_DOWN() and ALIGN()
AlignDown(x, align) == (x \div align) * align
AlignUp(x, align) == AlignDown(x + align - 1, align)

\* assert_msg()
Exit ==
  /\ pc' = "exit"
  /\ UNCHANGED <<elf, i, segments, dynamic, relocs, alignment, shift, blocks, image, file>>

\* data_at_offset(): data that ends with the file is refused, too.
InFile(offset, size) == offset + size < elf.size

-----------------------------------------------------------------------------
(***************************************************************************)
(* load_segments().                                                        *)
(***************************************************************************)
NoDynamic == [filesize |-> 0, memsize |-> 0]

\* load_segment(): what is not in the file is left as malloc() returned it.
Segment(p) ==
  [vaddr |-> p.vaddr, memsize |-> p.memsz, align |-> p.align, filesize |-> p.filesz,
   data |-> [k \in 0 .. p.memsz - 1 |->
               IF k < p.filesz THEN FileByte(p.vaddr + k) ELSE Garbage]]

Loadable(p) == p.memsz >= p.filesz /\ InFile(p.offset, p.filesz)

LoadSegment ==
  /\ pc = "segments"
  /\ i <= Len(elf.phdrs)
  /\ LET p == elf.phdrs[i]
     IN  \/ ~elf.valid /\ Exit
         \/ elf.valid /\ p.type # "other" /\ ~Loadable(p) /\ Exit
         \/ /\ elf.valid
            /\ p.type # "other" => Loadable(p)
            /\ segments' = IF p.type = "load" THEN Append(segments, Segment(p)) ELSE segments
            /\ dynamic' = IF p.type = "dynamic"
                            THEN [filesize |-> p.filesz, memsize |-> p.memsz]
                            ELSE dynamic
            /\ i' = i + 1
            /\ UNCHANGED <<pc, elf, relocs, alignment, shift, blocks, image, file>>

\* qsort() by segment_compare() and reloc_compare(), whose differences fit an int:
\* equal addresses come in any order.
Orders(s) ==
  {p \in Bijection(DOMAIN s, DOMAIN s) :
     \A j, k \in DOMAIN s : j < k => s[p[j]].vaddr <= s[p[k]].vaddr}
SortedByAddress(s) == {[k \in DOMAIN s |-> s[p[k]]] : p \in Orders(s)}

\* foundDynamic, after the last program header; the segment may well be empty.
FoundDynamic == \E p \in ToSet(elf.phdrs) : p.type = "dynamic"

SortSegments ==
  /\ pc = "segments"
  /\ i > Len(elf.phdrs)
  /\ \/ ~FoundDynamic /\ Exit
     \/ /\ FoundDynamic
        /\ pc' = "rela"
        /\ segments' \in SortedByAddress(segments)
        /\ UNCHANGED <<elf, i, dynamic, relocs, alignment, shift, blocks, image, file>>

-----------------------------------------------------------------------------
(***************************************************************************)
(* load_relocs().                                                          *)
(***************************************************************************)

Power(n) == FoldLeft(Times, 1, [k \in 1 .. n |-> ByteValues])

\* The word at a byte of the dynamic section, aligned or not.
Word(b) ==
  LET w == elf.dyn[b \div WordBytes + 1]
      next == elf.dyn[b \div WordBytes + 2]
      below == Power(b % WordBytes)
  IN  IF b % WordBytes = 0
        THEN w
        ELSE w \div below + (next % below) * Power(WordBytes - (b % WordBytes))

Missing == -1
Refused == -2

\* dynamic_lookup_tag(): the i-th tag is looked for at byte i.
DynEntries == dynamic.filesize \div DynBytes

Lookup(tag) ==
  LET hits == {b \in 0 .. DynEntries - 1 : Word(b) = tag}
      last == IF hits = {} THEN DynEntries - 1 ELSE Min(hits)
      inside == last < 0 \/ last + DynBytes < dynamic.memsize
  IN  CASE ~inside -> Refused
        [] inside /\ hits = {} -> Missing
        [] inside /\ hits # {} -> Word(last + WordBytes)

\* What a table at an offset is read as; behind it, and elsewhere, is no relocation.
Table(entries, at, offset, num) ==
  [k \in 1 .. num |->
     IF at = offset /\ k \in DOMAIN entries
       THEN entries[k]
       ELSE [type |-> "unsupported", offset |-> 0, addend |-> 0]]

\* R_X86_64_NONE leaves its place in the output as malloc() returned it, and is not
\* counted: the last ones are dropped for it.
Uninitialized == {[vaddr |-> 0, addend |-> 0], [vaddr |-> 2 * BaseAddress, addend |-> 0]}

Output(table, garbage) ==
  LET effective == Cardinality({k \in DOMAIN table : table[k].type = "relative"})
  IN  [k \in 1 .. effective |->
         IF table[k].type = "relative"
           THEN [vaddr |-> table[k].offset, addend |-> table[k].addend]
           ELSE garbage]

\* data_at_vaddr(): the first segment that holds the address, its end included.
Holds(s, vaddr) == s.vaddr <= vaddr /\ vaddr <= s.vaddr + s.memsize
Holding(vaddr) == {k \in DOMAIN segments : Holds(segments[k], vaddr)}

Missed(tag) == Lookup(tag) = Missing

TableAt(tag, sizeTag, entryBytes, entries, at) ==
  Table(entries, at, Lookup(tag), Lookup(sizeTag) \div entryBytes)

\* assert_msg() and the default of load_rela_relocs() and load_rel_relocs()
Refuses(tag, sizeTag, entryBytes, table) ==
  \/ Lookup(tag) = Refused
  \/ /\ ~Missed(tag)
     /\ \/ Lookup(sizeTag) < 0
        \/ ~InFile(Lookup(tag), entryBytes * Len(table))
        \/ \E k \in DOMAIN table : table[k].type = "unsupported"

Outputs(tag, table) ==
  IF Missed(tag) THEN {<<>>} ELSE {Output(table, garbage) : garbage \in Uninitialized}

LoadRela ==
  /\ pc = "rela"
  /\ LET table == TableAt(DT_RELA, DT_RELASZ, RelaBytes, elf.rela, elf.relaAt)
     IN  IF Refuses(DT_RELA, DT_RELASZ, RelaBytes, table)
           THEN Exit
           ELSE /\ relocs' \in Outputs(DT_RELA, table)
                /\ pc' = "rel"
                /\ UNCHANGED <<elf, i, segments, dynamic, alignment, shift, blocks,
                               image, file>>

\* The addend of a DT_REL relocation is where it points to; then all are sorted.
LoadRel ==
  /\ pc = "rel"
  /\ LET table == TableAt(DT_REL, DT_RELSZ, RelBytes, elf.rel, elf.relAt)
     IN  IF \/ Refuses(DT_REL, DT_RELSZ, RelBytes, table)
            \/ /\ ~Missed(DT_REL)
               /\ \E k \in DOMAIN table : /\ table[k].type = "relative"
                                          /\ Holding(table[k].offset) = {}
           THEN Exit
           ELSE /\ \E output \in Outputs(DT_REL, table) :
                     relocs' \in SortedByAddress(relocs \o output)
                /\ pc' = "alignment"
                /\ UNCHANGED <<elf, i, segments, dynamic, alignment, shift, blocks,
                               image, file>>

-----------------------------------------------------------------------------
(***************************************************************************)
(* exec_address_alignment() and relocate_exec().                           *)
(***************************************************************************)
Alignments == {segments[k].align : k \in DOMAIN segments}
GCD == Max({d \in 1 .. Max(Alignments) : \A a \in Alignments : a % d = 0})

\* An alignment of 0 divides by zero: here, or in relocate_exec().
ComputeAlignment ==
  /\ pc = "alignment"
  /\ \/ /\ 0 \in Alignments
        /\ pc' = "crash"
        /\ UNCHANGED alignment
     \/ /\ 0 \notin Alignments
        /\ alignment' = FoldLeft(Times, GCD, [k \in DOMAIN segments |-> segments[k].align \div GCD])
        /\ pc' = "shift"
  /\ UNCHANGED <<elf, i, segments, dynamic, relocs, shift, blocks, image, file>>

\* PE32Plus_Image_Header_Size()
HeaderSize(sections) == HeaderBytes + SectionHeaderBytes * sections

\* Only where the lowest segment leaves no room for the headers.
Bug_NotAligned(headers) == IF segments[1].vaddr <= headers THEN headers ELSE 0
HeaderShift(headers) ==
  IF segments[1].vaddr <= headers THEN AlignUp(headers, alignment) ELSE 0

ChooseShift ==
  /\ pc = "shift"
  /\ shift' = HeaderShift(HeaderSize(Len(segments) + 1))
  /\ i' = 1
  /\ pc' = "relocate"
  /\ UNCHANGED <<elf, segments, dynamic, relocs, alignment, blocks, image, file>>

\* A segment begins at its alignment; zeros fill what was added.
Bug_NotMoved(s) ==
  LET vaddr == s.vaddr + BaseAddress + shift
      offset == vaddr % s.align
  IN  [s EXCEPT !.vaddr = vaddr - offset,
                !.filesize = @ + offset,
                !.memsize = @ + offset,
                !.data = [k \in 0 .. s.memsize + offset - 1 |->
                            IF k < s.memsize THEN @[k] ELSE Zero]]
Relocated(s) ==
  LET vaddr == s.vaddr + BaseAddress + shift
      offset == vaddr % s.align
  IN  [s EXCEPT !.vaddr = vaddr - offset,
                !.filesize = @ + offset,
                !.memsize = @ + offset,
                !.data = [k \in 0 .. s.memsize + offset - 1 |->
                            IF k < offset THEN Zero ELSE @[k - offset]]]

RelocateSegment ==
  /\ pc = "relocate"
  /\ i <= Len(segments)
  /\ segments' = [segments EXCEPT ![i] = Relocated(@)]
  /\ i' = i + 1
  /\ UNCHANGED <<pc, elf, dynamic, relocs, alignment, shift, blocks, image, file>>

RelocateRelocs ==
  /\ pc = "relocate"
  /\ i > Len(segments)
  /\ relocs' = [k \in DOMAIN relocs |->
                  [vaddr |-> relocs[k].vaddr + BaseAddress + shift,
                   addend |-> relocs[k].addend + BaseAddress + shift]]
  /\ i' = 1
  /\ pc' = "apply"
  /\ UNCHANGED <<elf, segments, dynamic, alignment, shift, blocks, image, file>>

-----------------------------------------------------------------------------
(***************************************************************************)
(* apply_relocs() and create_pe_reloc().                                   *)
(***************************************************************************)

\* What lies behind the data of a segment is lost, or not this program's to write.
Patched(s, reloc) ==
  LET at == reloc.vaddr - s.vaddr
  IN  [s EXCEPT !.data = [k \in DOMAIN @ |->
                            IF k \in at .. at + WordBytes - 1
                              THEN PointerByte(reloc.addend, k - at)
                              ELSE @[k]],
                !.filesize = IF at >= @ THEN at + WordBytes ELSE @]

ApplyReloc ==
  /\ pc = "apply"
  /\ i <= Len(relocs)
  /\ LET reloc == relocs[i]
         k == Min(Holding(reloc.vaddr))
     IN  \/ Holding(reloc.vaddr) = {} /\ Exit
         \/ /\ Holding(reloc.vaddr) # {}
            /\ segments' = [segments EXCEPT ![k] = Patched(@, reloc)]
            /\ i' = i + 1
            /\ UNCHANGED <<pc, elf, dynamic, relocs, alignment, shift, blocks, image, file>>

Overrun ==
  /\ pc = "apply"
  /\ i <= Len(relocs)
  /\ Holding(relocs[i].vaddr) # {}
  /\ LET s == segments[Min(Holding(relocs[i].vaddr))]
     IN  relocs[i].vaddr + WordBytes > s.vaddr + s.memsize
  /\ pc' = "crash"
  /\ UNCHANGED <<elf, i, segments, dynamic, relocs, alignment, shift, blocks, image, file>>

Applied ==
  /\ pc = "apply"
  /\ i > Len(relocs)
  /\ i' = 1
  /\ pc' = "blocks"
  /\ UNCHANGED <<elf, segments, dynamic, relocs, alignment, shift, blocks, image, file>>

CreateBlock ==
  /\ pc = "blocks"
  /\ i <= Len(relocs)
  /\ LET page == AlignDown(relocs[i].vaddr, PageBytes)
         offset == relocs[i].vaddr - page
         last == Len(blocks)
     IN  blocks' =
           IF blocks = <<>> \/ page - BaseAddress > blocks[last].rva
             THEN Append(blocks, [rva |-> page - BaseAddress, offsets |-> <<offset>>])
             ELSE [blocks EXCEPT ![last].offsets = Append(@, offset)]
  /\ i' = i + 1
  /\ UNCHANGED <<pc, elf, segments, dynamic, relocs, alignment, shift, image, file>>

BlocksCreated ==
  /\ pc = "blocks"
  /\ i > Len(relocs)
  /\ pc' = "headers"
  /\ UNCHANGED <<elf, i, segments, dynamic, relocs, alignment, shift, blocks, image, file>>

-----------------------------------------------------------------------------
(***************************************************************************)
(* write_pe().                                                             *)
(***************************************************************************)
Padding(n) == [k \in 1 .. n |-> Zero]

RelocSize ==
  FoldLeft(Plus, 0, [k \in DOMAIN blocks |-> BlockBytes + EntryBytes * Len(blocks[k].offsets)])

SectionNum == Len(segments) + IF relocs # <<>> THEN 1 ELSE 0
SizeOfHeaders == AlignUp(HeaderSize(SectionNum), FileAlignment)

\* layout_pe_file()
LayoutSize(k) == AlignUp(segments[k].filesize, FileAlignment)
Bug_UnpaddedOffset(k) ==
  FoldLeft(Plus, SizeOfHeaders, [j \in 1 .. k - 1 |-> segments[j].filesize])
LayoutOffset(k) == FoldLeft(Plus, SizeOfHeaders, [j \in 1 .. k - 1 |-> LayoutSize(j)])

RelocVaddr ==
  LET last == segments[Len(segments)]
  IN  AlignUp(last.vaddr + last.memsize, alignment)

SegmentHeader(k) ==
  [rva |-> segments[k].vaddr - BaseAddress, size |-> segments[k].memsize,
   rawSize |-> LayoutSize(k),
   raw |-> IF segments[k].filesize = 0 THEN 0 ELSE LayoutOffset(k)]

RelocHeader ==
  [rva |-> RelocVaddr - BaseAddress, size |-> RelocSize,
   rawSize |-> AlignUp(RelocSize, FileAlignment), raw |-> LayoutOffset(Len(segments) + 1)]

SectionHeaders ==
  [k \in 1 .. SectionNum |-> IF k <= Len(segments) THEN SegmentHeader(k) ELSE RelocHeader]

NoImage == [sections |-> <<>>]

Image ==
  [entry |-> elf.entry + shift,
   sectionAlignment |-> alignment,
   size |-> AlignUp(RelocVaddr + RelocSize - BaseAddress, alignment),
   headers |-> SizeOfHeaders,
   sections |-> SectionHeaders]

WriteHeaders ==
  /\ pc = "headers"
  /\ \/ alignment % FileAlignment # 0 /\ Exit
     \/ /\ alignment % FileAlignment = 0
        /\ image' = Image
        /\ LET size == HeaderSize(SectionNum)
           IN  file' = [k \in 1 .. size |-> HeaderByte(k)] \o Padding(SizeOfHeaders - size)
        /\ i' = 1
        /\ pc' = "sections"
        /\ UNCHANGED <<elf, segments, dynamic, relocs, alignment, shift, blocks>>

\* write_chunk() and write_padding()
Chunk(s) ==
  [k \in 1 .. s.filesize |-> IF k - 1 \in DOMAIN s.data THEN s.data[k - 1] ELSE Garbage]

WriteSection ==
  /\ pc = "sections"
  /\ i <= Len(segments)
  /\ file' = file \o Chunk(segments[i]) \o Padding(LayoutSize(i) - segments[i].filesize)
  /\ i' = i + 1
  /\ UNCHANGED <<pc, elf, segments, dynamic, relocs, alignment, shift, blocks, image>>

WriteReloc ==
  /\ pc = "sections"
  /\ i > Len(segments)
  /\ file' = IF relocs = <<>>
               THEN file
               ELSE file \o [k \in 1 .. RelocSize |-> RelocByte(k)]
                         \o Padding(RelocHeader.rawSize - RelocSize)
  /\ pc' = "done"
  /\ UNCHANGED <<elf, i, segments, dynamic, relocs, alignment, shift, blocks, image>>

\* fopen() or fwrite() fails: what was written stays.
WriteFails == pc \in {"headers", "sections"} /\ Exit

-----------------------------------------------------------------------------
Init ==
  /\ elf \in Files
  /\ pc = "segments"
  /\ i = 1
  /\ segments = <<>> /\ relocs = <<>> /\ blocks = <<>> /\ file = <<>>
  /\ dynamic = NoDynamic
  /\ alignment = 0 /\ shift = 0
  /\ image = NoImage

Next ==
  \/ LoadSegment \/ SortSegments \/ LoadRela \/ LoadRel
  \/ ComputeAlignment \/ ChooseShift \/ RelocateSegment \/ RelocateRelocs
  \/ ApplyReloc \/ Overrun \/ Applied \/ CreateBlock \/ BlocksCreated
  \/ WriteHeaders \/ WriteSection \/ WriteReloc \/ WriteFails

Spec == Init /\ [][Next]_vars

-----------------------------------------------------------------------------
(***************************************************************************)
(* What the firmware makes of the image, and what the linker meant by the  *)
(* ELF file.                                                               *)
(***************************************************************************)

\* The byte at an address of the image: of the section there, zero behind its data.
Sections == ToSet(image.sections)
In(section, rva) == section.rva <= rva /\ rva < section.rva + section.size

Loaded(rva) ==
  LET section == CHOOSE s \in Sections : In(s, rva)
      at == rva - section.rva
  IN  IF at < section.rawSize THEN file[section.raw + at + 1] ELSE Zero

\* Where the firmware adds the distance to the base address.
Fixups ==
  UNION {{b.rva + o : o \in ToSet(b.offsets)} : b \in ToSet(blocks)}

\* What the dynamic section gives for a tag.
Tag(tag) ==
  LET at == {k \in 1 .. Len(elf.dyn) \div 2 : elf.dyn[2 * k - 1] = tag}
  IN  IF at = {} THEN Missing ELSE elf.dyn[2 * Min(at)]

Relative(entries) == {e \in ToSet(entries) : e.type = "relative"}
ToApply ==
  (IF Tag(DT_RELA) = elf.relaAt THEN Relative(elf.rela) ELSE {}) \cup
  (IF Tag(DT_REL) = elf.relAt THEN Relative(elf.rel) ELSE {})

LoadAt == {k \in DOMAIN elf.phdrs : elf.phdrs[k].type = "load"}
Loads == {elf.phdrs[k] : k \in LoadAt}
End(p) == p.vaddr + p.memsz
FileEnd(p) == p.vaddr + p.filesz

\* What a linker makes of a position-independent executable, where it puts the tags
\* of the relocations where dynamic_lookup_tag() comes by ...
TagsLinked ==
  /\ \A tag \in {DT_RELA, DT_RELASZ, DT_REL, DT_RELSZ} : Lookup(tag) = Tag(tag)
  /\ Tag(DT_RELA) = elf.relaAt => Tag(DT_RELASZ) = RelaBytes * Len(elf.rela)
  /\ Tag(DT_REL) = elf.relAt => Tag(DT_RELSZ) = RelBytes * Len(elf.rel)
  /\ \A e \in ToSet(elf.rela) \cup ToSet(elf.rel) : e.type = "relative"

\* ... aligns the segments all alike, for the base address chosen, too, ...
OneAlignment ==
  /\ \A p, q \in Loads : p.align = q.align
  /\ \A p \in Loads : BaseAddress % p.align = 0

\* ... and lets no two of them begin at one address, or share a page.
AddressesDiffer ==
  \A j, k \in LoadAt : j # k => elf.phdrs[j].vaddr # elf.phdrs[k].vaddr

SegmentsApart ==
  \A p, q \in Loads :
    p.vaddr < q.vaddr => AlignUp(End(p), alignment) <= AlignDown(q.vaddr, alignment)

\* Pointers lie in the contents of a segment, and do not overlap.
PointersInside ==
  \A e \in ToApply :
    /\ \E p \in Loads : p.vaddr <= e.offset /\ e.offset + WordBytes <= FileEnd(p)
    /\ \A p \in Loads : e.offset # End(p)
    /\ \A f \in ToApply : e # f => \/ e.offset + WordBytes <= f.offset
                                   \/ f.offset + WordBytes <= e.offset

Linked ==
  TagsLinked /\ OneAlignment /\ AddressesDiffer /\ SegmentsApart /\ PointersInside

\* The lowest segment is behind the headers, so that nothing is moved, but in their
\* last page: aligned down, its section begins before they end.  The comment in
\* relocate_exec() (tools/elf2efi.c:725) promises them room here, too; the code looks at
\* the segment's own address, before it aligns it.
HeadersOverlaid ==
  LET first == Min({p.vaddr : p \in Loads})
  IN  /\ first > HeaderSize(Len(segments) + 1)
      /\ AlignDown(first, alignment) < SizeOfHeaders

-----------------------------------------------------------------------------
(* Safety.                                                                 *)

\* Of segments with one alignment the converter makes sections that have it, too.
\* They are all behind the headers but where HeadersOverlaid says; and they, .reloc
\* among them, are in order, on pages of their own and inside sizeOfImage exactly when
\* no two segments share a page (exec_address_alignment(), relocate_exec(),
\* write_pe()).
SectionsDisjoint ==
  pc = "done" /\ OneAlignment =>
    LET s == image.sections
        page(x) == AlignUp(x, image.sectionAlignment)
        behindHeaders == \A k \in DOMAIN s : s[k].rva >= page(image.headers)
        apart == /\ \A k \in DOMAIN s : s[k].rva + s[k].size <= image.size
                 /\ \A j, k \in DOMAIN s : j < k => page(s[j].rva + s[j].size) <= s[k].rva
    IN  /\ \A p \in Loads : image.sectionAlignment = p.align
        /\ \A k \in DOMAIN s : s[k].rva % image.sectionAlignment = 0
        /\ behindHeaders <=> ~HeadersOverlaid
        /\ AddressesDiffer => (apart <=> SegmentsApart)

\* A section header points at what was written for its section: the data of its
\* segment, or the relocations, in a piece of the file that no other section shares,
\* up to the file's end (layout_pe_file(), write_pe()).
FileConsistent ==
  pc = "done" =>
    LET s == image.sections
        written(k) == IF k <= Len(segments)
                        THEN Chunk(segments[k])
                        ELSE [j \in 1 .. RelocSize |-> RelocByte(j)]
        used == {k \in DOMAIN s : s[k].raw # 0}
    IN  /\ \A k \in used :
             /\ s[k].raw >= image.headers
             /\ s[k].raw + s[k].rawSize <= Len(file)
             /\ SubSeq(file, s[k].raw + 1, s[k].raw + Len(written(k))) = written(k)
        /\ \A j, k \in used : j < k => s[j].raw + s[j].rawSize <= s[k].raw

\* The image the firmware loads is the program the linker made: every byte of every
\* segment is at its place, the bytes behind a segment's data are zero, every
\* relocation is applied for the base address and listed to be applied for another
\* one, nothing else is, and it is entered where the program begins.  What the
\* firmware makes of an image whose sections lie on its headers is left open.
ImageFaithful ==
  pc = "done" /\ Linked /\ ~HeadersOverlaid =>
    /\ image.entry = elf.entry + shift
    /\ Fixups = {e.offset + shift : e \in ToApply}
    /\ \A p \in Loads : \A vaddr \in p.vaddr .. End(p) - 1 :
         LET covering == {e \in ToApply : vaddr \in e.offset .. e.offset + WordBytes - 1}
         IN  Loaded(vaddr + shift) =
               IF covering # {}
                 THEN LET e == CHOOSE e \in covering : TRUE
                      IN  PointerByte(e.addend + BaseAddress + shift, vaddr - e.offset)
                 ELSE IF vaddr < FileEnd(p) THEN FileByte(vaddr) ELSE Zero

\* tools/elf2efi.c:16: the .dynamic segment is iterated over to find out the
\* relocations that must be applied.  The code looks for the k-th tag at the k-th byte
\* (dynamic_lookup_tag()), comes by the first few only, and writes an image without
\* its relocations.
RelocationsFound ==
  pc = "done" => \A e \in ToApply : e.offset + shift \in Fixups
=============================================================================
