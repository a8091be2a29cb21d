\* Every file; numbers scaled down from 8, 256, 4096, 512, 328, 40, 8 and 2.
CONSTANTS
  Files <- AllFiles
  BaseAddress = 16
  WordBytes = 2
  ByteValues = 256
  PageBytes = 8
  FileAlignment = 4
  HeaderBytes = 3
  SectionHeaderBytes = 1
  BlockBytes = 2
  EntryBytes = 1
SPECIFICATION Spec
INVARIANTS SectionsDisjoint FileConsistent ImageFaithful
CHECK_DEADLOCK FALSE
