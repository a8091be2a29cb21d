---------------------------- MODULE HandoverProofs ----------------------------
(***************************************************************************)
(* Proofs about Handover, and FileAccess below it, for files of every      *)
(* size, every path, and every size of a page and of a devicetree's header.*)
(***************************************************************************)
EXTENDS Handover, SequenceTheorems, TLAPS

CallRecords == [fn : Both \cup {"none"},
           at : {"none", "open", "ask", "info", "informed", "read"}, size : Nat]

Histories == [exchanged : BOOLEAN, infoFailed : BOOLEAN, readFailed : BOOLEAN]

FileTypes ==
  /\ call \in CallRecords
  /\ call.at = "none" => call = Idle
  /\ disk \in Disk
  /\ history \in Histories
  /\ result \in Int

\* What is open, and allocated, at each call of the firmware.
HandleCount ==
  ~history.infoFailed /\ ~history.exchanged /\ disk.kind # "directory" =>
    /\ handles = IF call.at \in {"none", "open"} THEN 0 ELSE 1
    /\ infos = IF call.at \in {"info", "informed"} THEN 1 ELSE 0

HandleInv == FileTypes /\ HandleCount

-----------------------------------------------------------------------------
LEMMA HandleInit == Init => HandleInv
BY FileAssumption DEF Init, FileInit, HandleInv, FileTypes, HandleCount, CallRecords, Idle,
                      NoHistory, Histories, Disk

LEMMA EnterKeeps ==
  ASSUME HandleInv, NEW fn \in Both, Enter(fn),
         UNCHANGED <<disk, history, result, handles, infos>>
  PROVE  HandleInv'
BY DEF HandleInv, FileTypes, HandleCount, Enter, CallRecords, Idle

LEMMA FileStepKeeps ==
  ASSUME HandleInv, FileStep
  PROVE  HandleInv' /\ UNCHANGED <<path, disk, faults>>
<1> USE FileAssumption
        DEF HandleInv, FileTypes, HandleCount, CallRecords, Histories, In, At, Return, Both, Idle
<1>0. disk.size \in Nat
  BY DEF Disk
<1>1. CASE Open
  BY <1>1 DEF Open
<1>2. CASE InfoFails
  <2>1. /\ call' = Idle /\ result' = -1
        /\ history' = [history EXCEPT !.infoFailed = TRUE]
        /\ UNCHANGED <<path, disk, faults>>
    BY <1>2 DEF InfoFails
  <2>2. history' \in Histories /\ history'.infoFailed
    BY <2>1
  <2> QED BY <2>1, <2>2
<1>3. CASE AskInfo
  BY <1>3 DEF AskInfo
<1>4. CASE GetInfo
  <2>1. /\ call.at = "info" /\ call' = [call EXCEPT !.at = "informed", !.size = disk.size]
        /\ UNCHANGED <<path, disk, faults, handles, infos, history, result>>
    BY <1>4 DEF GetInfo
  <2>2. call' \in CallRecords /\ call'.at = "informed"
    BY <2>1, <1>0
  <2> QED BY <2>1, <2>2
<1>5. CASE CloseSized
  BY <1>5 DEF CloseSized, Closed
<1>6. CASE RefuseDirectory
  BY <1>6 DEF RefuseDirectory
<1>7. CASE Read
  <2>1. call.at = "informed" /\ call.size \in Nat
    BY <1>7 DEF Read
  <2>2. infos' = infos - 1 /\ call' = [call EXCEPT !.at = "read"]
        /\ UNCHANGED <<path, disk, faults, handles>>
    BY <1>7 DEF Read
  <2>3. result' \in Int
    BY <1>7, <2>1 DEF Read
  <2>4. history' = history \/ history' = [history EXCEPT !.readFailed = TRUE]
    BY <1>7 DEF Read
  <2>5. call' \in CallRecords /\ call'.at = "read"
    BY <2>2
  <2>6. history' \in Histories
        /\ history'.infoFailed = history.infoFailed
        /\ history'.exchanged = history.exchanged
    BY <2>4
  <2> QED BY <2>1, <2>2, <2>3, <2>5, <2>6
<1>8. CASE CloseRead
  BY <1>8 DEF CloseRead, Closed
<1> QED BY <1>1, <1>2, <1>3, <1>4, <1>5, <1>6, <1>7, <1>8 DEF FileStep

LEMMA HandleStep == HandleInv /\ [Next]_vars => HandleInv'
<1> SUFFICES ASSUME HandleInv, [Next]_vars PROVE HandleInv'
  OBVIOUS
<1>1. CASE GetSize \/ LoadFile
  BY <1>1, EnterKeeps DEF GetSize, LoadFile, CallFile, Both
<1>2. CASE FileRuns
  BY <1>2, FileStepKeeps DEF FileRuns
<1>3. CASE Exchanged
  BY <1>3 DEF Exchanged, Exchange, HandleInv, FileTypes, HandleCount, Histories
<1>4. CASE \/ Sized \/ AllocateFails \/ OutOfMemory \/ Loaded \/ Allocate
           \/ TerminateCfg \/ LoadImage \/ CopyFdt \/ ServeInitrd
           \/ LinuxAsks \/ LinuxFetches \/ AnybodyAsks \/ UNCHANGED vars
  <2>1. UNCHANGED <<disk, call, handles, infos, result, history>>
    BY <1>4 DEF Sized, AllocateFails, OutOfMemory, Loaded, Allocate, TerminateCfg, LoadImage,
                CopyFdt, Pass, ServeInitrd, LinuxAsks, LinuxFetches, AnybodyAsks,
                UnchangedByCalls, fileVars, vars
  <2> QED BY <2>1 DEF HandleInv, FileTypes, HandleCount
<1> QED BY <1>1, <1>2, <1>3, <1>4 DEF Next

-----------------------------------------------------------------------------
\* After each call of file_get_size() and file_load() the file is closed and its
\* information freed, on every way out but the three that HandlesClosed names.
THEOREM HandlesAreClosed == Spec => []HandlesClosed
<1>1. HandleInv => HandlesClosed
  BY DEF HandleInv, FileTypes, HandleCount, HandlesClosed, Idle
<1> QED BY <1>1, HandleInit, HandleStep, PTL DEF Spec
-----------------------------------------------------------------------------
(***************************************************************************)
(* What is in the buffer, and what becomes of it.                          *)
(***************************************************************************)
Calm == ~history.exchanged

Stages == {"start", "sizing", "alloc", "load", "loading", "used", "failed", "panic"} \cup Purpose

\* file_load() has stored what it says, the whole file when its read() did not fail.
Filled == \A k \in 1 .. size : buffer[k] = FileByte(k)

ReadDone ==
  /\ result \in Nat
  /\ Calm => result <= size
  /\ Calm /\ ~history.readFailed => result = size /\ Filled

Types ==
  /\ pc \in Stages /\ purpose \in Purpose
  /\ totalSize \in Nat /\ size \in Nat

\* Between its two calls of file.c the loader knows the size, as long as the medium
\* stays, and has a buffer for it.
Sizing ==
  /\ \/ pc \in {"sizing", "loading"}
     \/ call.at = "none"
     \/ pc = "panic" /\ call.at \in {"open", "ask"}
  /\ pc = "sizing" => /\ call.fn \in {"file_get_size", "none"}
                      /\ call.at = "informed" => call.size = disk.size
                      /\ call.at = "none" => result \in {-1, disk.size}
  /\ pc \in {"alloc", "load", "loading"} \cup Purpose => (Calm => size = disk.size)
  /\ pc \in {"load", "loading"} \cup Purpose =>
       buffer \in Seq(Nat) /\ Len(buffer) = Capacity(size)

Loading ==
  /\ pc = "loading" => /\ call.fn \in {"file_load", "none"}
                       /\ call.at = "informed" => call.size = disk.size
                       /\ call.at = "read" => ReadDone
                       /\ call.at = "none" => result = -1 \/ ReadDone
  /\ pc \in Purpose => pc = purpose /\ ReadDone

StageInv == Types /\ Sizing /\ Loading

-----------------------------------------------------------------------------
\* Whole pages have room for the bytes they are allocated for.
LEMMA PagesSuffice ==
  ASSUME NEW n \in Nat
  PROVE  Pages(n) \in Nat /\ Pages(n) >= n
<1>1. PageSize \in Nat \ {0}
  BY HandoverAssumption
<1> DEFINE q == (n + PageSize - 1) \div PageSize
           r == (n + PageSize - 1) % PageSize
<1>2. q \in Nat /\ r \in 0 .. PageSize - 1
  BY <1>1
<1>3. n + PageSize - 1 = PageSize * q + r
  BY <1>1
<1> HIDE DEF q, r
<1>4. q * PageSize = PageSize * q /\ PageSize * q \in Nat
  BY <1>1, <1>2
<1>5. q * PageSize \in Nat /\ q * PageSize >= n
  BY <1>1, <1>2, <1>3, <1>4
<1> QED BY <1>5 DEF Pages, q

LEMMA CapacitySuffices ==
  ASSUME NEW n \in Nat
  PROVE  /\ Capacity(n) \in Nat /\ Capacity(n) >= n
         /\ purpose = "cfg" => Capacity(n) = n + 1
BY PagesSuffice DEF Capacity

LEMMA BytesAre ==
  ASSUME NEW n \in Nat, buffer \in Seq(Nat)
  PROVE  /\ Bytes(n) \in Seq(Nat) /\ Len(Bytes(n)) = n
         /\ \A k \in 1 .. n : Bytes(n)[k] = IF k \in DOMAIN buffer THEN buffer[k] ELSE Junk
BY DEF Bytes, Junk

\* A full buffer is the file.
LEMMA FilledIsContents ==
  ASSUME size \in Nat, disk.size = size, buffer \in Seq(Nat), Len(buffer) >= size, Filled
  PROVE  Bytes(size) = Contents
<1>1. \A k \in 1 .. size : k \in DOMAIN buffer
  OBVIOUS
<1> QED BY <1>1 DEF Bytes, Contents, Filled

LEMMA FilledBegins ==
  ASSUME size \in Nat, disk.size = size, buffer \in Seq(Nat), Len(buffer) >= size, Filled,
         NEW n \in Nat, n <= size, NEW rest \in Seq(Nat)
  PROVE  SubSeq(Bytes(n) \o rest, 1, n) = SubSeq(Contents, 1, n)
<1>1. Bytes(n) \in Seq(Nat) /\ Len(Bytes(n)) = n
  BY BytesAre
<1>2. \A k \in 1 .. n : Bytes(n)[k] = FileByte(k)
  <2>1. \A k \in 1 .. n : k \in DOMAIN buffer /\ k \in 1 .. size
    OBVIOUS
  <2> QED BY <2>1, BytesAre DEF Filled
<1>3. SubSeq(Bytes(n) \o rest, 1, n) = [k \in 1 .. n |-> FileByte(k)]
  BY <1>1, <1>2
<1>4. SubSeq(Contents, 1, n) = [k \in 1 .. n |-> FileByte(k)]
  BY DEF Contents, FileByte
<1> QED BY <1>3, <1>4

-----------------------------------------------------------------------------
LEMMA StageInit == Init => StageInv
BY FileAssumption DEF Init, FileInit, StageInv, Types, Sizing, Loading, Stages, Purpose, Idle

\* The calls of the firmware within file_get_size().
LEMMA SizingKeeps ==
  ASSUME HandleInv, StageInv, pc = "sizing", FileStep, UNCHANGED ownVars
  PROVE  StageInv'
<1> USE DEF StageInv, HandleInv, FileTypes, CallRecords, Types, Sizing, Loading, Purpose, Stages,
            ownVars, In, At, Return, Both, Idle
<1>1. CASE Open
  BY <1>1 DEF Open
<1>2. CASE InfoFails
  BY <1>2 DEF InfoFails
<1>3. CASE AskInfo
  BY <1>3 DEF AskInfo
<1>4. CASE GetInfo
  BY <1>4 DEF GetInfo
<1>5. CASE CloseSized
  BY <1>5 DEF CloseSized
<1>6. CASE RefuseDirectory \/ Read \/ CloseRead
  BY <1>6 DEF RefuseDirectory, Read, CloseRead
<1> QED BY <1>1, <1>2, <1>3, <1>4, <1>5, <1>6 DEF FileStep

\* read() stores as much of the file as it says.
LEMMA ReadKeeps ==
  ASSUME HandleInv, StageInv, pc = "loading", Read, UNCHANGED ownVars
  PROVE  /\ buffer' \in Seq(Nat) /\ Len(buffer') = Len(buffer)
         /\ ReadDone'
<1>1. /\ call.at = "informed" /\ call.size = disk.size /\ call.size \in Nat
      /\ buffer \in Seq(Nat) /\ size \in Nat
      /\ Len(buffer) = Capacity(size) /\ Capacity(size) >= size
      /\ Calm => size = disk.size
      /\ history \in Histories
  BY CapacitySuffices DEF Read, In, StageInv, Loading, Sizing, Types, HandleInv, FileTypes,
                          CallRecords
<1>2. ASSUME NEW n \in Nat
      PROVE  /\ ReadInto(n) \in Seq(Nat) /\ Len(ReadInto(n)) = Len(buffer)
             /\ \A k \in 1 .. Len(buffer) : k <= n => ReadInto(n)[k] = FileByte(k)
  BY <1>1 DEF ReadInto, FileByte
<1>3. UNCHANGED <<size, disk>>
  BY DEF Read, ownVars
<1>4. CASE buffer' = ReadInto(call.size) /\ result' = call.size /\ UNCHANGED history
  <2>1. Calm => \A k \in 1 .. size : k \in 1 .. Len(buffer) /\ k <= call.size
    BY <1>1
  <2>2. Calm => Filled'
    BY <1>1, <1>2, <1>3, <1>4, <2>1 DEF Filled
  <2> QED BY <1>1, <1>2, <1>3, <1>4, <2>2 DEF ReadDone, Calm
<1>5. CASE \E stored, claimed \in 0 .. call.size :
             /\ buffer' = ReadInto(stored) /\ result' = claimed
             /\ history' = [history EXCEPT !.readFailed = TRUE]
  <2>1. history'.readFailed /\ history'.exchanged = history.exchanged
    BY <1>1, <1>5 DEF Histories
  <2>2. PICK stored \in Nat : buffer' = ReadInto(stored)
    BY <1>1, <1>5
  <2>3. result' \in 0 .. call.size
    BY <1>1, <1>5
  <2> QED BY <1>1, <1>2, <1>3, <2>1, <2>2, <2>3 DEF ReadDone, Calm
<1> QED BY <1>4, <1>5 DEF Read

LEMMA LoadingKeeps ==
  ASSUME HandleInv, StageInv, pc = "loading", FileStep, UNCHANGED ownVars
  PROVE  StageInv'
<1> USE DEF StageInv, HandleInv, FileTypes, CallRecords, Types, Sizing, Loading, Purpose, Stages,
            ownVars, In, At, Return, Both, Idle
<1>1. CASE Open
  BY <1>1 DEF Open, ReadDone, Calm, Capacity, Pages
<1>2. CASE InfoFails
  <2>1. /\ call' = Idle /\ result' = -1
        /\ history' = [history EXCEPT !.infoFailed = TRUE]
        /\ UNCHANGED <<disk, buffer>>
    BY <1>2 DEF InfoFails
  <2>2. Calm' = Calm
    BY <2>1 DEF Calm, Histories
  <2> QED BY <2>1, <2>2 DEF Capacity, Pages
<1>3. CASE AskInfo
  BY <1>3 DEF AskInfo, ReadDone, Calm, Capacity, Pages
<1>4. CASE GetInfo
  BY <1>4 DEF GetInfo, ReadDone, Calm, Capacity, Pages
<1>5. CASE CloseSized
  BY <1>5 DEF CloseSized
<1>6. CASE RefuseDirectory
  BY <1>6 DEF RefuseDirectory, Calm, Capacity, Pages
<1>7. CASE Read
  <2>1. buffer' \in Seq(Nat) /\ Len(buffer') = Len(buffer) /\ ReadDone'
    BY <1>7, ReadKeeps
  <2>2. call'.at = "read" /\ call'.fn = "file_load" /\ disk' = disk
    BY <1>7 DEF Read
  <2>3. Calm' = Calm
    BY <1>7 DEF Read, Calm, Histories
  <2>4. Capacity(size)' = Capacity(size)
    BY DEF Capacity, Pages
  <2> QED BY <2>1, <2>2, <2>3, <2>4
<1>8. CASE CloseRead
  BY <1>8 DEF CloseRead, ReadDone, Calm, Filled, Capacity, Pages
<1> QED BY <1>1, <1>2, <1>3, <1>4, <1>5, <1>6, <1>7, <1>8 DEF FileStep

LEMMA StageStep == HandleInv /\ StageInv /\ [Next]_vars => StageInv'
<1> SUFFICES ASSUME HandleInv, StageInv, [Next]_vars PROVE StageInv'
  OBVIOUS
<1> USE DEF StageInv, Types, Sizing, Loading, Purpose, Stages
<1>0. /\ call \in CallRecords /\ (call.at = "none" <=> call = Idle)
      /\ result \in Int /\ disk.size \in Nat /\ history \in Histories
  BY FileAssumption DEF HandleInv, FileTypes, Disk, Idle
<1>1. CASE GetSize
  <2>1. /\ pc' = "sizing" /\ call' = [fn |-> "file_get_size", at |-> "open", size |-> 0]
        /\ UNCHANGED <<purpose, totalSize, size>>
    BY <1>1 DEF GetSize, CallFile, Enter, Step, Goto
  <2> QED BY <2>1
<1>2. CASE LoadFile
  <2>1. /\ pc = "load"
        /\ pc' = "loading" /\ call' = [fn |-> "file_load", at |-> "open", size |-> 0]
        /\ UNCHANGED <<purpose, totalSize, size, disk, buffer, history>>
    BY <1>2 DEF LoadFile, CallFile, Enter, Step, Goto
  <2> QED BY <2>1 DEF Calm, Capacity, Pages
<1>3. CASE FileRuns
  BY <1>3, SizingKeeps, LoadingKeeps DEF FileRuns
<1>4. CASE Sized
  <2>1. CASE Refused
    BY <1>4, <2>1, <1>0 DEF Sized, Step, Goto, fileVars
  <2>2. CASE ~Refused
    <3>1. /\ pc = "sizing" /\ pc' = "alloc" /\ call = Idle /\ size' = result /\ ~(result < 0)
          /\ UNCHANGED <<purpose, totalSize, disk, call, history>>
      BY <1>4, <2>2 DEF Sized, Goto, fileVars, Refused
    <3>2. result = disk.size
      BY <3>1, <1>0
    <3> QED BY <3>1, <3>2, <1>0
  <2> QED BY <2>1, <2>2
<1>5. CASE Allocate
  <2>1. /\ pc = "alloc" /\ pc' = "load" /\ buffer' = [k \in 1 .. Capacity(size) |-> Junk]
        /\ UNCHANGED <<purpose, totalSize, size, disk, call, history>>
    BY <1>5 DEF Allocate, Step, Goto
  <2>2. Capacity(size) \in Nat /\ Capacity(size)' = Capacity(size)
    BY <2>1, CapacitySuffices DEF Capacity, Pages
  <2>3. buffer' \in Seq(Nat) /\ Len(buffer') = Capacity(size)
    BY <2>1, <2>2 DEF Junk
  <2> QED BY <2>1, <2>2, <2>3 DEF Calm
<1>6. CASE AllocateFails \/ OutOfMemory
  <2>1. /\ \/ pc = "alloc" /\ pc' = "failed"
           \/ call.at \in {"open", "ask"} /\ pc' = "panic"
        /\ UNCHANGED <<purpose, totalSize, size, call>>
    BY <1>6 DEF AllocateFails, OutOfMemory, Step, Goto, fileVars, In
  <2>2. call' = call
    BY <2>1
  <2> QED BY <2>1, <2>2
<1>7. CASE Exchanged
  <2>1. /\ pc \in {"alloc", "load"} /\ UNCHANGED <<pc, purpose, totalSize, size, call, buffer>>
        /\ history' = [history EXCEPT !.exchanged = TRUE]
    BY <1>7 DEF Exchanged, Exchange, ownVars
  <2>2. ~Calm'
    BY <2>1, <1>0 DEF Calm, Histories
  <2> QED BY <2>1, <2>2 DEF Capacity, Pages
<1>8. CASE Loaded
  <2>1. /\ pc = "loading" /\ call = Idle
        /\ pc' = IF result < 0 THEN "failed" ELSE purpose
        /\ UNCHANGED <<purpose, totalSize, size, disk, call, buffer, result, history>>
    BY <1>8 DEF Loaded, Step, Goto, fileVars
  <2>2. result < 0 \/ ReadDone
    BY <2>1, <1>0
  <2>3. Calm' = Calm /\ ReadDone' = ReadDone /\ Capacity(size)' = Capacity(size)
    BY <2>1 DEF Calm, ReadDone, Filled, Capacity, Pages
  <2> QED BY <1>0, <2>1, <2>2, <2>3
<1>9. CASE TerminateCfg \/ LoadImage \/ CopyFdt \/ ServeInitrd
  <2>1. /\ pc \in Purpose /\ pc' = "used"
        /\ UNCHANGED <<purpose, totalSize, size, call>>
    BY <1>9 DEF TerminateCfg, LoadImage, CopyFdt, ServeInitrd, Pass, Goto, fileVars
  <2> QED BY <2>1
<1>10. CASE LinuxAsks \/ LinuxFetches \/ AnybodyAsks \/ UNCHANGED vars
  <2>1. UNCHANGED <<purpose, totalSize, pc, size, disk, call, buffer, result, history>>
    BY <1>10 DEF LinuxAsks, LinuxFetches, AnybodyAsks, UnchangedByCalls, fileVars, ownVars,
                 vars
  <2>2. Calm' = Calm /\ ReadDone' = ReadDone /\ Capacity(size)' = Capacity(size)
    BY <2>1 DEF Calm, ReadDone, Filled, Capacity, Pages
  <2> QED BY <2>1, <2>2
<1> QED BY <1>1, <1>2, <1>3, <1>4, <1>5, <1>6, <1>7, <1>8, <1>9, <1>10 DEF Next

-----------------------------------------------------------------------------
(***************************************************************************)
(* What is passed on stays what it is, and is what callers get.            *)
(***************************************************************************)
GivenInv == given \in Seq(Nat) /\ PassedOn

\* The protocol is there once the initrd is served, and Linux is on its way.
ServeInv ==
  /\ Served => /\ pc = "used" /\ purpose = "initrd"
               /\ protocol.bytes = given /\ protocol.size = Len(given)
  /\ answer # Nothing => Served
  /\ AnswerFits
  /\ linux \in [at : {"asks", "fetches", "booted"}, size : Nat, initrd : Seq(Nat)]
  /\ linux.at = "asks" => linux.initrd = <<>>
  /\ linux.at = "fetches" => Served /\ linux.size = Len(given)
  /\ linux.at = "booted" => Served /\ linux.initrd = given

LEMMA GivenInit == Init => GivenInv /\ ServeInv
BY DEF Init, GivenInv, PassedOn, ServeInv, Served, AnswerFits, Nothing

\* What each caller of the four gets.
LEMMA PassKeeps ==
  ASSUME HandleInv, StageInv, TerminateCfg \/ LoadImage \/ CopyFdt \/ ServeInitrd,
         given \in Seq(Nat), ~Served
  PROVE  GivenInv'
<1>1. /\ size \in Nat /\ totalSize \in Nat /\ purpose \in Purpose /\ pc = purpose
      /\ buffer \in Seq(Nat) /\ Len(buffer) >= size
      /\ result \in Nat
      /\ ~Trouble => result = size /\ disk.size = size /\ Filled
  <2>1. pc \in Purpose
    BY DEF TerminateCfg, LoadImage, CopyFdt, ServeInitrd, Purpose
  <2> QED BY <2>1, CapacitySuffices
          DEF StageInv, Types, Sizing, Loading, ReadDone, Calm, Trouble
<1>2. /\ pc' = "used" /\ purpose' = purpose /\ totalSize' = totalSize
      /\ Trouble' = Trouble /\ Contents' = Contents /\ disk' = disk
  BY DEF TerminateCfg, LoadImage, CopyFdt, ServeInitrd, Pass, Goto, fileVars, Trouble, Contents
<1>3. ~Trouble => Bytes(size) = Contents
  BY <1>1, FilledIsContents
<1>4. CASE TerminateCfg \/ LoadImage
  <2>1. purpose \notin {"fdt", "initrd"}
    BY <1>1, <1>4 DEF TerminateCfg, LoadImage
  <2>2. given' = Bytes(result) \/ given' = Bytes(size)
    BY <1>4 DEF TerminateCfg, LoadImage, Pass
  <2>3. given' \in Seq(Nat)
    BY <2>2, <1>1, BytesAre
  <2>4. ~Trouble => given' = Contents
    BY <2>2, <1>1, <1>3
  <2> QED BY <1>2, <2>1, <2>3, <2>4 DEF GivenInv, PassedOn
<1>5. CASE CopyFdt
  <2> DEFINE rest == [k \in 1 .. FdtPadding |-> Junk]
  <2>1. purpose = "fdt" /\ given' = Bytes(totalSize) \o rest
    BY <1>1, <1>5 DEF CopyFdt, Pass
  <2>2. rest \in Seq(Nat)
    BY HandoverAssumption DEF Junk
  <2> HIDE DEF rest
  <2>3. given' \in Seq(Nat)
    BY <2>1, <2>2, <1>1, BytesAre
  <2>4. ~Trouble /\ totalSize <= disk.size =>
          SubSeq(given', 1, totalSize) = SubSeq(Contents, 1, totalSize)
    BY <2>1, <2>2, <1>1, FilledBegins
  <2> QED BY <1>2, <2>1, <2>3, <2>4 DEF GivenInv, PassedOn
<1>6. CASE ServeInitrd
  <2>1. purpose = "initrd"
    BY <1>1, <1>6 DEF ServeInitrd
  <2>2. \/ given' = Bytes(result)
        \/ given' = given /\ protocol' = protocol
    BY <1>6 DEF ServeInitrd
  <2>3. given' \in Seq(Nat)
    BY <2>2, <1>1, BytesAre
  <2>4. ~Trouble /\ Served' => given' = Contents
    BY <2>2, <1>1, <1>3 DEF Served
  <2> QED BY <1>2, <2>1, <2>3, <2>4 DEF GivenInv, PassedOn
<1> QED BY <1>4, <1>5, <1>6

\* Any caller's answer is what it has room for.
LEMMA AnyAnswerFits ==
  ASSUME GivenInv, ServeInv, NEW request, Calls(request),
         request.size \in Nat, given' = given
  PROVE  AnswerFits' /\ answer'.reply = InitrdLoadFile(request)
<1> DEFINE reply == InitrdLoadFile(request)
<1>1. answer' = [request |-> request, reply |-> reply]
      /\ protocol.bytes = given /\ protocol.size = Len(given) /\ given \in Seq(Nat)
  BY DEF Calls, ServeInv, GivenInv
<1>2. /\ Len(reply.bytes) <= request.size
      /\ reply.status = "success" => reply.bytes = given
      /\ reply.status = "too small" => reply.size = Len(given)
  <2>1. CASE Invalid(request)
    <3>1. reply = [status |-> "invalid", size |-> request.size, bytes |-> <<>>]
      BY <2>1 DEF InitrdLoadFile
    <3> QED BY <3>1
  <2>2. CASE ~Invalid(request) /\ request.size < protocol.size
    <3>1. reply = [status |-> "too small", size |-> protocol.size, bytes |-> <<>>]
      BY <2>2 DEF InitrdLoadFile
    <3>2. protocol.size = Len(given) /\ Len(<<>>) <= request.size
      BY <1>1
    <3> HIDE DEF reply
    <3>3. reply.status = "too small" /\ reply.size = protocol.size /\ reply.bytes = <<>>
      BY <3>1
    <3> QED BY <3>2, <3>3
  <2>3. CASE ~Invalid(request) /\ ~(request.size < protocol.size)
    <3>1. reply = [status |-> "success", size |-> protocol.size, bytes |-> protocol.bytes]
      BY <2>3 DEF InitrdLoadFile
    <3> QED BY <3>1, <2>3, <1>1
  <2> QED BY <2>1, <2>2, <2>3
<1> HIDE DEF reply
<1>3. answer'.reply = reply /\ answer'.request = request
  BY <1>1
<1> QED BY <1>2, <1>3 DEF AnswerFits, reply

LEMMA Asked ==
  ASSUME NEW n \in Nat, NEW buffered \in BOOLEAN, n > 0 => buffered
  PROVE  Ask(n, buffered).size = n /\ ~Invalid(Ask(n, buffered))
BY DEF Ask, Invalid

\* Nothing is served yet, and nothing passed on, at any other location.
LEMMA UnservedElsewhere ==
  ASSUME ServeInv, pc # "used"
  PROVE  ~Served /\ answer = Nothing /\ linux.at = "asks"
BY DEF ServeInv

LEMMA GivenStep ==
  HandleInv /\ StageInv /\ GivenInv /\ ServeInv /\ [Next]_vars => GivenInv' /\ ServeInv'
<1> SUFFICES ASSUME HandleInv, StageInv, GivenInv, ServeInv, [Next]_vars
             PROVE  GivenInv' /\ ServeInv'
  OBVIOUS
<1>0. /\ pc \notin {"sizing", "loading", "panic"} => call.at = "none"
      /\ "none" \notin {"open", "ask"}
  BY DEF StageInv, Sizing
<1>1. CASE \/ GetSize \/ LoadFile \/ FileRuns \/ Sized \/ Allocate \/ AllocateFails
           \/ OutOfMemory \/ Exchanged \/ Loaded
  <2>1. pc # "used" /\ pc' # "used"
        /\ UNCHANGED <<purpose, given, protocol, answer, linux>>
    BY <1>0, <1>1 DEF GetSize, LoadFile, CallFile, FileRuns, Sized, Allocate, AllocateFails,
                OutOfMemory, Exchanged, Loaded, Step, Goto, ownVars, In, StageInv, Types, Purpose
  <2>2. ~Served /\ answer = Nothing /\ linux.at = "asks"
    BY <2>1, UnservedElsewhere
  <2> QED BY <2>1, <2>2 DEF GivenInv, PassedOn, ServeInv, Served, AnswerFits
<1>2. CASE TerminateCfg \/ LoadImage \/ CopyFdt \/ ServeInitrd
  <2>1. pc # "used" /\ pc' = "used" /\ UNCHANGED <<purpose, answer, linux>>
    BY <1>2 DEF TerminateCfg, LoadImage, CopyFdt, ServeInitrd, Pass, Goto
  <2>2. ~Served /\ answer = Nothing /\ linux.at = "asks"
    BY <2>1, UnservedElsewhere
  <2>3. GivenInv'
    BY <1>2, <2>2, PassKeeps DEF GivenInv
  <2>4. Served' => /\ purpose' = "initrd"
                   /\ protocol'.bytes = given' /\ protocol'.size = Len(given')
    <3>1. CASE TerminateCfg \/ LoadImage \/ CopyFdt
      BY <2>2, <3>1 DEF TerminateCfg, LoadImage, CopyFdt, Pass, Served
    <3>2. CASE ServeInitrd
      <4>1. pc = "initrd" /\ purpose = "initrd" /\ result \in Nat /\ buffer \in Seq(Nat)
        BY <3>2 DEF ServeInitrd, StageInv, Loading, Sizing, ReadDone, Purpose
      <4>2. \/ protocol' = [bytes |-> Bytes(result), size |-> result]
               /\ given' = Bytes(result)
            \/ protocol' = protocol
        BY <3>2 DEF ServeInitrd
      <4>3. Len(Bytes(result)) = result
        BY <4>1, BytesAre
      <4> QED BY <2>1, <2>2, <4>1, <4>2, <4>3 DEF Served
    <3> QED BY <1>2, <3>1, <3>2
  <2> QED BY <2>1, <2>2, <2>3, <2>4 DEF ServeInv, AnswerFits
<1>3. CASE LinuxAsks \/ LinuxFetches \/ AnybodyAsks
  <2>1. Served /\ UNCHANGED <<purpose, pc, totalSize, given, protocol, disk, history>>
    BY <1>3 DEF LinuxAsks, LinuxFetches, AnybodyAsks, Calls, UnchangedByCalls, fileVars
  <2>2. GivenInv'
    BY <2>1 DEF GivenInv, PassedOn, Served, Trouble, Contents
  <2>3. Served' /\ pc' = "used" /\ purpose' = "initrd"
        /\ protocol'.bytes = given' /\ protocol'.size = Len(given') /\ Len(given) \in Nat
        /\ protocol.bytes = given /\ protocol.size = Len(given)
    BY <2>1 DEF ServeInv, Served, GivenInv
  <2>4. linux \in [at : {"asks", "fetches", "booted"}, size : Nat, initrd : Seq(Nat)]
    BY DEF ServeInv
  <2>5. CASE LinuxAsks
    <3> DEFINE request == Ask(0, FALSE)
    <3>1. /\ request.size = 0 /\ ~Invalid(request)
          /\ linux.at = "asks" /\ linux.initrd = <<>>
      <4>1. request.size = 0 /\ ~Invalid(request)
        <5>1. request = [sized |-> TRUE, policy |-> FALSE, buffered |-> FALSE, size |-> 0]
          BY Zenon DEF Ask
        <5> HIDE DEF request
        <5>2. request.sized /\ ~request.policy /\ request.size = 0
          BY <5>1
        <5>3. ~(0 > 0)
          OBVIOUS
        <5> QED BY <5>2, <5>3, Zenon DEF Invalid
      <4> QED BY <2>5, <4>1 DEF LinuxAsks, ServeInv
    <3>2. AnswerFits' /\ answer'.reply = InitrdLoadFile(request)
      <4>1. Calls(request) /\ request.size \in Nat /\ given' = given
        <5>1. Calls(request)
          BY <2>5 DEF LinuxAsks
        <5> HIDE DEF request
        <5> QED BY <5>1, <2>1, <3>1
      <4> HIDE DEF request
      <4> QED BY <4>1, AnyAnswerFits
    <3>3. linux' = IF answer'.reply.status = "too small"
                     THEN [linux EXCEPT !.at = "fetches", !.size = answer'.reply.size]
                     ELSE [linux EXCEPT !.at = "booted"]
      BY <2>5 DEF LinuxAsks
    <3> HIDE DEF request
    <3>4. CASE 0 < protocol.size
      <4>1. InitrdLoadFile(request) =
              [status |-> "too small", size |-> protocol.size, bytes |-> <<>>]
        BY <3>1, <3>4 DEF InitrdLoadFile
      <4>2. answer'.reply.status = "too small" /\ answer'.reply.size = protocol.size
        <5> DEFINE r == answer'.reply
        <5> HIDE DEF r
        <5>1. r = [status |-> "too small", size |-> protocol.size, bytes |-> <<>>]
          BY <3>2, <4>1, Zenon DEF r
        <5>2. r.status = "too small" /\ r.size = protocol.size
          BY <5>1
        <5> QED BY <5>2 DEF r
      <4>3. linux' = [linux EXCEPT !.at = "fetches", !.size = protocol.size]
        BY <3>3, <4>2, Zenon
      <4> QED BY <2>1, <2>2, <2>3, <2>4, <3>2, <4>3 DEF ServeInv
    <3>5. CASE ~(0 < protocol.size)
      <4>1. InitrdLoadFile(request) =
              [status |-> "success", size |-> protocol.size, bytes |-> protocol.bytes]
        BY <3>1, <3>5 DEF InitrdLoadFile
      <4>2. linux' = [linux EXCEPT !.at = "booted"]
        BY <3>2, <3>3, <4>1
      <4>3. given = <<>>
        BY <2>3, <3>5 DEF GivenInv
      <4> QED BY <2>1, <2>2, <2>3, <2>4, <3>1, <3>2, <4>2, <4>3 DEF ServeInv
    <3> QED BY <3>4, <3>5
  <2>6. CASE LinuxFetches
    <3> DEFINE request == Ask(linux.size, TRUE)
    <3>1. /\ request.size = linux.size /\ ~Invalid(request) /\ linux.size = Len(given)
      <4>1. linux.size = Len(given) /\ linux.size \in Nat
        BY <2>6, <2>4 DEF LinuxFetches, ServeInv
      <4>2. request.size = linux.size /\ ~Invalid(request)
        BY <4>1, Asked
      <4> QED BY <4>1, <4>2
    <3>2. AnswerFits' /\ answer'.reply = InitrdLoadFile(request)
      <4>1. Calls(request) /\ request.size \in Nat /\ given' = given
        BY <2>1, <2>3, <2>6, <3>1 DEF LinuxFetches
      <4> HIDE DEF request
      <4> QED BY <4>1, AnyAnswerFits
    <3>3. linux' = [linux EXCEPT !.at = "booted", !.initrd = answer'.reply.bytes]
      BY <2>6 DEF LinuxFetches
    <3> HIDE DEF request
    <3>4. InitrdLoadFile(request) =
            [status |-> "success", size |-> protocol.size, bytes |-> protocol.bytes]
      <4>1. ~(request.size < protocol.size)
        BY <2>3, <3>1
      <4> QED BY <3>1, <4>1 DEF InitrdLoadFile
    <3>5. linux' = [linux EXCEPT !.at = "booted", !.initrd = given]
      BY <2>3, <3>2, <3>3, <3>4
    <3> QED BY <2>1, <2>2, <2>3, <2>4, <3>2, <3>5 DEF ServeInv, GivenInv
  <2>7. CASE AnybodyAsks
    <3>1. PICK request \in Requests : Calls(request)
      BY <2>7 DEF AnybodyAsks
    <3>2. request.size \in Nat
      BY <3>1, FileAssumption DEF Requests
    <3>3. AnswerFits'
      BY <2>1, <3>1, <3>2, AnyAnswerFits
    <3>4. linux' = linux /\ linux.at = "asks"
      BY <2>7 DEF AnybodyAsks
    <3> QED BY <2>2, <2>3, <2>4, <3>3, <3>4 DEF ServeInv
  <2> QED BY <1>3, <2>5, <2>6, <2>7
<1>4. CASE UNCHANGED vars
  BY <1>4 DEF vars, ownVars, fileVars, GivenInv, PassedOn, Served, Trouble, Contents, ServeInv,
              AnswerFits
<1> QED BY <1>1, <1>2, <1>3, <1>4 DEF Next

-----------------------------------------------------------------------------
HandoverInv == HandleInv /\ StageInv /\ GivenInv /\ ServeInv

LEMMA HandoverInvariance == Spec => []HandoverInv
<1>1. Init => HandoverInv
  BY HandleInit, StageInit, GivenInit DEF HandoverInv
<1>2. HandoverInv /\ [Next]_vars => HandoverInv'
  BY HandleStep, StageStep, GivenStep DEF HandoverInv
<1> QED BY <1>1, <1>2, PTL DEF Spec

\* The configuration, the image, the devicetree and the initrd are what is in their
\* files, and reading them stays within the buffers allocated (file_load()).
THEOREM FilesArePassedOn == Spec => []ContentsAreFiles
<1>1. HandoverInv => ContentsAreFiles
  <2> SUFFICES ASSUME HandoverInv PROVE ContentsAreFiles
    OBVIOUS
  <2>1. ReadFits
    <3> SUFFICES ASSUME In({"file_load"}, "informed"), Calm PROVE call.size <= Len(buffer)
      BY DEF ReadFits, Calm
    <3>1. call.at = "informed" /\ call.fn = "file_load"
      BY DEF In
    <3>2. pc \in {"loading", "panic"}
      BY <3>1 DEF HandoverInv, StageInv, Sizing
    <3> QED BY <3>1, <3>2, CapacitySuffices
            DEF HandoverInv, StageInv, Types, Sizing, Loading
  <2>2. TerminatorFits
    BY CapacitySuffices DEF HandoverInv, StageInv, Types, Sizing, Loading, ReadDone, Calm,
                            TerminatorFits, Purpose
  <2>3. PassedOn
    BY DEF HandoverInv, GivenInv
  <2> QED BY <2>1, <2>2, <2>3 DEF ContentsAreFiles
<1> QED BY <1>1, HandoverInvariance, PTL

\* The kernel, asking for the size first, gets all of the initrd that was read, and
\* any other caller no more than it has room for (_initrd_load_file()).
THEOREM InitrdReachesKernel == Spec => []KernelGetsInitrd
<1>1. HandoverInv => KernelGetsInitrd
  BY DEF HandoverInv, GivenInv, PassedOn, ServeInv, KernelGetsInitrd, LinuxHasInitrd
<1> QED BY <1>1, HandoverInvariance, PTL

-----------------------------------------------------------------------------
(***************************************************************************)
(* The path asked for, and the one opened.                                 *)
(***************************************************************************)
Fixing == INSTANCE Folding WITH Op <- Fix
Splitting == INSTANCE Folding WITH Op <- Split

LEMMA FixingFolds == \A base, s : Fixing!Fold(base, s) = FoldLeft(Fix, base, s)
BY DEF Fixing!Fold, FoldLeft, Fixing!FoldLeft, MapThenFoldSet, Fixing!MapThenFoldSet,
       Max, Fixing!Max

LEMMA SplittingFolds == \A base, s : Splitting!Fold(base, s) = FoldLeft(Split, base, s)
BY DEF Splitting!Fold, FoldLeft, Splitting!FoldLeft, MapThenFoldSet,
       Splitting!MapThenFoldSet, Max, Splitting!Max

\* The names so far, of the part of a path.
NamesIn(string) == Splitting!Fold(NoNames, string)

\* What a path has of another one's beginning, when it is fixed that far: its names,
\* with single backslashes.
MeansSo(fixed, names, first) ==
  /\ NamesIn(fixed) = names
  /\ fixed = <<>> => names = NoNames
  /\ fixed # <<>> => fixed[1] = first
  /\ \A k \in 1 .. Len(fixed) : fixed[k] # "/"
  /\ \A k \in 1 .. Len(fixed) - 1 : fixed[k] = "\\" => fixed[k + 1] # "\\"

\* One more character: either it repeats a separator, or it goes to the end.
LEMMA FixedMeans ==
  ASSUME NEW S, NEW fixed \in Seq(S), NEW c \in S, "\\" \in S,
         NEW names, NEW first, MeansSo(fixed, names, first),
         fixed = <<>> => first = Turned(c)
  PROVE  /\ Fix(fixed, c) \in Seq(S) /\ Fix(fixed, c) # <<>>
         /\ MeansSo(Fix(fixed, c), Split(names, c), first)
<1> DEFINE t == Turned(c)
           n == Len(fixed)
<1>1. n \in Nat /\ t \in S /\ t # "/" /\ (t = "\\" <=> c \in Separator)
      /\ (t # "\\" => t = c)
  BY DEF Turned, Separator
<1>2. Split(names, c) = Split(names, t)
  BY <1>1 DEF Split, Separator
<1>3. CASE t = "\\" /\ fixed # <<>> /\ Last(fixed) = "\\"
  <2>1. Fix(fixed, c) = fixed
    BY <1>3 DEF Fix
  <2> DEFINE front == Front(fixed)
  <2>2. front \in Seq(S) /\ fixed = Append(front, "\\")
    <3>1. n # 0 /\ n - 1 \in Nat /\ Last(fixed) = fixed[n] /\ front = SubSeq(fixed, 1, n - 1)
      BY <1>1, <1>3 DEF Front, Last
    <3>2. \A k \in 1 .. n - 1 : k \in 1 .. n
      BY <1>1
    <3> DEFINE m == n - 1
    <3>3. SubSeq(fixed, 1, m) \in Seq(S) /\ Len(SubSeq(fixed, 1, m)) = m
          /\ \A k \in 1 .. m : SubSeq(fixed, 1, m)[k] = fixed[k]
      <4>1. m \in Nat /\ \A k \in 1 .. m : fixed[k] \in S
        BY <3>1, <3>2
      <4> HIDE DEF m
      <4>2. SubSeq(fixed, 1, m) \in Seq(S)
        BY <4>1
      <4> QED BY <4>1, <4>2
    <3> HIDE DEF front
    <3>4. front \in Seq(S) /\ Len(front) = n - 1 /\ \A k \in 1 .. n - 1 : front[k] = fixed[k]
      BY <3>1, <3>3
    <3>5. fixed[n] = "\\"
      BY <1>3, <3>1
    <3>6. fixed = Append(front, "\\")
      BY <1>1, <3>1, <3>4, <3>5
    <3> QED BY <3>4, <3>6
  <2> HIDE DEF front
  <2>3. names = Split(NamesIn(front), "\\")
    BY <2>2, Splitting!FoldAppend DEF NamesIn, MeansSo
  <2>4. names = [ended |-> EndName(NamesIn(front)), name |-> <<>>]
    BY <2>3 DEF Split, Separator
  <2>5. EndName(names) = names.ended
    BY <2>4 DEF EndName
  <2>6. Split(names, t) = names
    BY <1>3, <2>4, <2>5 DEF Split, Separator
  <2> QED BY <1>2, <1>3, <2>1, <2>6
<1>4. CASE ~(t = "\\" /\ fixed # <<>> /\ Last(fixed) = "\\")
  <2> DEFINE new == Append(fixed, t)
  <2>1. Fix(fixed, c) = new
    BY <1>4 DEF Fix
  <2>2. new \in Seq(S) /\ Len(new) = n + 1 /\ new[n + 1] = t /\ \A k \in 1 .. n : new[k] = fixed[k]
    BY <1>1
  <2>3. NamesIn(new) = Split(names, t)
    BY <1>1, Splitting!FoldAppend DEF NamesIn, MeansSo
  <2> HIDE DEF new
  <2>4. new # <<>>
    BY <1>1, <2>2
  <2>5. new[1] = first
    <3>1. CASE fixed = <<>>
      <4>1. n = 0
        BY <3>1
      <4> QED BY <2>2, <3>1, <4>1
    <3>2. CASE fixed # <<>>
      <4>1. 1 \in 1 .. n
        BY <1>1, <3>2
      <4> QED BY <2>2, <3>2, <4>1 DEF MeansSo
    <3> QED BY <3>1, <3>2
  <2>6. ASSUME NEW k \in 1 .. Len(new) PROVE new[k] # "/"
    <3>1. k \in 1 .. n \/ k = n + 1
      BY <1>1, <2>2
    <3> QED BY <1>1, <2>2, <3>1 DEF MeansSo
  <2>7. ASSUME NEW k \in 1 .. Len(new) - 1, new[k] = "\\" PROVE new[k + 1] # "\\"
    <3>1. k \in 1 .. n
      BY <1>1, <2>2
    <3>2. CASE k = n
      <4>1. fixed # <<>> /\ Last(fixed) = "\\"
        BY <2>2, <2>7, <3>1, <3>2 DEF Last
      <4> QED BY <1>4, <2>2, <3>2, <4>1
    <3>3. CASE k # n
      <4>1. k \in 1 .. n - 1 /\ k + 1 \in 1 .. n
        BY <1>1, <3>1, <3>3
      <4> QED BY <2>2, <2>7, <3>1, <4>1 DEF MeansSo
    <3> QED BY <3>2, <3>3
  <2>8. MeansSo(new, Split(names, t), first)
    BY <2>3, <2>4, <2>5, <2>6, <2>7 DEF MeansSo
  <2> QED BY <1>2, <2>1, <2>2, <2>4, <2>8
<1> QED BY <1>3, <1>4

\* fix_path() keeps the names of every path, and separates them once.
LEMMA FixKeepsNames ==
  ASSUME NEW C, NEW p \in Seq(C)
  PROVE  LET fixed == fix_path(p)
         IN  /\ p = <<>> => fixed = <<>>
             /\ fixed \in Seq(C \cup {"\\"})
             /\ p # <<>> => /\ fixed # <<>>
                            /\ MeansSo(fixed, NamesIn(p), Turned(p[1]))
<1> DEFINE S == C \cup {"\\"}
           n == Len(p)
           first == Turned(p[1])
<1>1. n \in Nat /\ p \in Seq(S) /\ <<>> \in Seq(S) /\ "\\" \in S
      /\ \A k \in 1 .. n : p[k] \in S
  OBVIOUS
<1>2. PICK h : Fixing!Steps(h, <<>>, p) /\ fix_path(p) = h[n]
  BY Fixing!FoldSteps, FixingFolds DEF fix_path
<1>3. PICK g : Splitting!Steps(g, NoNames, p) /\ NamesIn(p) = g[n]
  BY Splitting!FoldSteps DEF NamesIn
<1>4. h[0] = <<>> /\ g[0] = NoNames
  BY <1>2, <1>3 DEF Fixing!Steps, Splitting!Steps
<1>5. ASSUME NEW k \in 1 .. n PROVE h[k] = Fix(h[k - 1], p[k]) /\ g[k] = Split(g[k - 1], p[k])
  BY <1>2, <1>3 DEF Fixing!Steps, Splitting!Steps
<1> HIDE DEF S
<1> DEFINE Good(k) == /\ h[k] \in Seq(S) /\ MeansSo(h[k], g[k], first)
                      /\ k # 0 => h[k] # <<>>
           T == {k \in 0 .. n : Good(k)}
<1>6. 0 \in T
  <2>1. NamesIn(<<>>) = NoNames
    BY Splitting!FoldEmpty DEF NamesIn
  <2>2. Len(<<>>) = 0 /\ 0 \in 0 .. n
    BY <1>1
  <2>3. MeansSo(<<>>, NoNames, first)
    BY <2>1, <2>2 DEF MeansSo
  <2> HIDE DEF first
  <2> QED BY <1>1, <1>4, <2>2, <2>3
<1>7. ASSUME NEW k \in 0 .. n - 1, k \in T PROVE k + 1 \in T
  <2>1. k + 1 \in 1 .. n /\ (k + 1) - 1 = k /\ k + 1 \in 0 .. n /\ k + 1 # 0
    BY <1>1
  <2>2. h[k + 1] = Fix(h[k], p[k + 1]) /\ g[k + 1] = Split(g[k], p[k + 1]) /\ p[k + 1] \in S
    BY <1>1, <1>5, <2>1
  <2>3. h[k] = <<>> => first = Turned(p[k + 1])
    <3>1. h[k] = <<>> => k = 0
      BY <1>7
    <3> QED BY <3>1
  <2>4. h[k] \in Seq(S) /\ MeansSo(h[k], g[k], first)
    BY <1>7
  <2> HIDE DEF first
  <2>5. h[k + 1] \in Seq(S) /\ h[k + 1] # <<>> /\ MeansSo(h[k + 1], g[k + 1], first)
    BY <1>1, <2>2, <2>3, <2>4, FixedMeans
  <2> QED BY <2>1, <2>5
<1> HIDE DEF T
<1>8. \A k \in 0 .. n : k \in T
  BY <1>1, <1>6, <1>7, Fixing!BoundedInduction
<1>9. n \in T
  BY <1>1, <1>8
<1>10. Good(n)
  BY <1>9 DEF T
<1>11. p = <<>> <=> n = 0
  OBVIOUS
<1> QED BY <1>2, <1>3, <1>4, <1>10, <1>11 DEF S

\* Widening leaves a path of ASCII characters what it is.
LEMMA WidenedIsPath ==
  ASSUME NEW C, NEW p \in Seq(C), "latin" \notin ToSet(p) PROVE str2wcs(p) = p
<1>1. ASSUME NEW k \in DOMAIN p PROVE Widen(p[k]) = p[k]
  BY DEF ToSet, Widen
<1>2. p = [k \in DOMAIN p |-> p[k]]
  OBVIOUS
<1> QED BY <1>1, <1>2 DEF str2wcs

PathInv == path \in Paths /\ (opened = <<>> \/ opened = fix_path(str2wcs(path)))

LEMMA PathInvariance == Spec => []PathInv
<1>1. Init => PathInv
  BY DEF Init, FileInit, PathInv
<1>2. PathInv /\ [Next]_vars => PathInv'
  <2> SUFFICES ASSUME PathInv, [Next]_vars PROVE PathInv'
    OBVIOUS
  <2>1. CASE FileRuns
    <3>1. path' = path /\ opened' \in {opened, fix_path(str2wcs(path))}
      BY <2>1 DEF FileRuns, FileStep, Open, InfoFails, AskInfo, GetInfo, CloseSized,
                  RefuseDirectory, Read, CloseRead
    <3> QED BY <3>1 DEF PathInv
  <2>2. CASE \/ GetSize \/ LoadFile \/ Exchanged \/ Sized \/ AllocateFails \/ OutOfMemory
             \/ Loaded \/ Allocate \/ TerminateCfg \/ LoadImage \/ CopyFdt \/ ServeInitrd
             \/ LinuxAsks \/ LinuxFetches \/ AnybodyAsks \/ UNCHANGED vars
    <3>1. path' = path /\ opened' = opened
      BY <2>2 DEF GetSize, LoadFile, CallFile, Exchanged, Exchange, Sized, AllocateFails,
                  OutOfMemory, Loaded, Allocate, TerminateCfg, LoadImage, CopyFdt, Pass,
                  ServeInitrd, LinuxAsks, LinuxFetches, AnybodyAsks, UnchangedByCalls,
                  fileVars, vars
    <3> QED BY <3>1 DEF PathInv
  <2> QED BY <2>1, <2>2 DEF Next
<1> QED BY <1>1, <1>2, PTL DEF Spec

\* The file opened is the one named: for every path of ASCII characters the firmware
\* is given its names, in their order, between single backslashes (fix_path()).
THEOREM PathIsMeant == Spec => []PathMeant
<1>1. PathInv => PathMeant
  <2> SUFFICES ASSUME PathInv, opened # <<>>, "latin" \notin ToSet(path)
               PROVE  /\ Names(opened) = Names(path)
                      /\ opened[1] = "\\" <=> path[1] \in Separator
                      /\ "/" \notin ToSet(opened)
                      /\ \A k \in 1 .. Len(opened) - 1 :
                           opened[k] = "\\" => opened[k + 1] # "\\"
    BY DEF PathMeant
  <2>1. path \in Seq(ToSet(path))
    BY PathAssumption DEF PathInv
  <2>2. opened = fix_path(path)
    BY <2>1, WidenedIsPath DEF PathInv
  <2>3. path # <<>> /\ MeansSo(opened, NamesIn(path), Turned(path[1]))
    <3>1. fix_path(path) # <<>> => path # <<>>
      BY <2>1, FixKeepsNames
    <3>2. path # <<>> => MeansSo(fix_path(path), NamesIn(path), Turned(path[1]))
      BY <2>1, FixKeepsNames
    <3> QED BY <2>2, <3>1, <3>2
  <2>4. Names(opened) = Names(path)
    BY <2>3, SplittingFolds DEF MeansSo, NamesIn, Names
  <2>5. opened[1] = "\\" <=> path[1] \in Separator
    BY <2>3 DEF MeansSo, Turned, Separator
  <2>6. DOMAIN opened = 1 .. Len(opened)
    <3>1. opened \in Seq(ToSet(path) \cup {"\\"})
      BY <2>1, <2>2, FixKeepsNames
    <3> QED BY <3>1
  <2>7. "/" \notin ToSet(opened)
    BY <2>3, <2>6 DEF MeansSo, ToSet
  <2> QED BY <2>3, <2>4, <2>5, <2>7 DEF MeansSo
<1> QED BY <1>1, PathInvariance, PTL
=============================================================================
