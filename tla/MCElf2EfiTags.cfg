\* A dynamic section whose second tag is the relocations'; numbers scaled down from 8, 256, 4096, 512, 328, 40, 8 and 2.
CONSTANTS
  Files <- MissedFiles
  BaseAddress = 16
  WordBytes = 2
  ByteValues = 256
  PageBytes = 8
  FileAlignment = 4
  HeaderBytes = 3
  SectionHeaderBytes = 1
  BlockBytes = 2
  EntryBytes = 1
SPECIFICATION Spec
INVARIANT RelocationsFound
CHECK_DEADLOCK FALSE
