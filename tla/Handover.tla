------------------------------- MODULE Handover -------------------------------
(***************************************************************************)
(* From a file to the one it is for: load_cfg() and the stretches of       *)
(* load_and_validate_entry() that load the kernel, the devicetree and the  *)
(* initrd, down to the firmware's file protocol; then load_efi_image(),    *)
(* fdt_fixup_and_load() and _initrd_load_file(), which the kernel calls.   *)
(***************************************************************************)
EXTENDS FileAccess

CONSTANTS
  PageSize,          \* bytes of a page: 4096
  FdtHeaderSize,     \* sizeof(Fdt_Header)
  FdtPadding         \* room for fix-ups: 4096

ASSUME HandoverAssumption ==
  {PageSize, FdtHeaderSize, FdtPadding} \subseteq Nat \ {0}

VARIABLES
  purpose,     \* what the file is
  totalSize,   \* a devicetree's totalSize, as it says itself
  pc,          \* where the loader is
  size,        \* what file_get_size() returned
  given,       \* the bytes that were passed on
  protocol,    \* the initrd's LoadFile2 protocol, once it is served
  answer,      \* what _initrd_load_file() did last
  linux        \* the kernel, as far as it has come with its initrd

ownVars == <<purpose, totalSize, pc, size, given, protocol, answer, linux>>
vars == <<fileVars, ownVars>>

Purpose == {"cfg", "kernel", "fdt", "initrd"}

Nothing == [status |-> "none"]

Goto(location) == pc' = location

Step(location) ==
  Goto(location) /\ UNCHANGED <<purpose, totalSize, size, given, protocol, answer, linux>>

-----------------------------------------------------------------------------
(***************************************************************************)
(* The calls of file.c, and the buffer between them.                       *)
(***************************************************************************)
CallFile(location, fn, next) ==
  /\ pc = location
  /\ Enter(fn)
  /\ Step(next)
  /\ UNCHANGED <<path, disk, faults, opened, handles, infos, buffer, result, history>>

GetSize == CallFile("start", "file_get_size", "sizing")
LoadFile == CallFile("load", "file_load", "loading")

FileRuns == pc \in {"sizing", "loading"} /\ FileStep /\ UNCHANGED ownVars

\* A directory's size may be too short for a devicetree, or none at all.
Refused == result < 0 \/ (purpose = "fdt" /\ result < FdtHeaderSize)

Sized ==
  /\ pc = "sizing"
  /\ call = Idle
  /\ IF Refused
       THEN Step("failed")
       ELSE /\ Goto("alloc")
            /\ size' = result
            /\ UNCHANGED <<purpose, totalSize, given, protocol, answer, linux>>
  /\ UNCHANGED fileVars

\* malloc(), and malloc_pages(), whose pages are whole.
Pages(n) == ((n + PageSize - 1) \div PageSize) * PageSize
Bug_NoTerminator(n) == IF purpose \in {"cfg", "fdt"} THEN n ELSE Pages(n)
Capacity(n) ==
  CASE purpose = "cfg" -> n + 1
    [] purpose = "fdt" -> n
    [] OTHER -> Pages(n)

Allocate ==
  /\ pc = "alloc"
  /\ Capacity(size) > 0
  /\ buffer' = [k \in 1 .. Capacity(size) |-> Junk]
  /\ Step("load")
  /\ UNCHANGED <<path, disk, faults, call, opened, handles, infos, result, history>>

\* malloc() panics; malloc_pages() fails, always when no page is asked for.
AllocateFails ==
  /\ pc = "alloc"
  /\ faults \/ Capacity(size) = 0
  /\ Step("failed")
  /\ UNCHANGED fileVars

\* malloc() of file_open(), file_open_str() and file_get_info().
OutOfMemory ==
  /\ faults
  /\ In(Both, "open") \/ In(Both, "ask")
  /\ Step("panic")
  /\ UNCHANGED fileVars

Exchanged == pc \in {"alloc", "load"} /\ Exchange /\ UNCHANGED ownVars

Loaded ==
  /\ pc = "loading"
  /\ call = Idle
  /\ Step(IF result < 0 THEN "failed" ELSE purpose)
  /\ UNCHANGED fileVars

-----------------------------------------------------------------------------
(***************************************************************************)
(* What is passed on.                                                      *)
(***************************************************************************)

\* Bytes from the buffer's beginning; there is junk behind it.
Bytes(n) == [k \in 1 .. n |-> IF k \in DOMAIN buffer THEN buffer[k] ELSE Junk]

Pass(bytes, next) ==
  /\ given' = bytes
  /\ Goto(next)
  /\ UNCHANGED <<purpose, totalSize, size, protocol, answer, linux, fileVars>>

\* load_cfg() terminates the text where file_load() says it ends, and extlinux.c
\* reads it up to there.
TerminateCfg == pc = "cfg" /\ Pass(Bytes(result), "used")

\* load_efi_image() is given the size from before.
LoadImage == pc = "kernel" /\ Pass(Bytes(size), "used")

\* fdt_fixup_and_load() copies as much as the devicetree says it has.
CopyFdt == pc = "fdt" /\ Pass(Bytes(totalSize) \o [k \in 1 .. FdtPadding |-> Junk], "used")

\* initrd_setup(), whose failure is ignored.
ServeInitrd ==
  /\ pc = "initrd"
  /\ Goto("used")
  /\ \/ /\ protocol' = [bytes |-> Bytes(result), size |-> result]
        /\ given' = Bytes(result)
     \/ faults /\ UNCHANGED <<protocol, given>>
  /\ UNCHANGED <<purpose, totalSize, size, answer, linux, fileVars>>

-----------------------------------------------------------------------------
(***************************************************************************)
(* _initrd_load_file(), for any caller: bootPolicy, whether bufferSize and *)
(* buffer are there, and the size of the buffer.                           *)
(***************************************************************************)
Served == protocol # Nothing

Invalid(request) ==
  ~request.sized \/ request.policy \/ (request.size > 0 /\ ~request.buffered)

Bug_SizeOnSuccess(request) ==
  CASE Invalid(request) \/ request.size < protocol.size ->
         [status |-> IF Invalid(request) THEN "invalid" ELSE "too small",
          size |-> request.size, bytes |-> <<>>]
    [] OTHER ->
         [status |-> "success", size |-> protocol.size, bytes |-> protocol.bytes]
InitrdLoadFile(request) ==
  CASE Invalid(request) ->
         [status |-> "invalid", size |-> request.size, bytes |-> <<>>]
    [] ~Invalid(request) /\ request.size < protocol.size ->
         [status |-> "too small", size |-> protocol.size, bytes |-> <<>>]
    [] OTHER ->
         [status |-> "success", size |-> protocol.size, bytes |-> protocol.bytes]

Requests ==
  [sized : BOOLEAN, policy : BOOLEAN, buffered : BOOLEAN, size : 0 .. MaxSize + 1]

Calls(request) ==
  /\ Served
  /\ answer' = [request |-> request, reply |-> InitrdLoadFile(request)]

UnchangedByCalls == UNCHANGED <<purpose, totalSize, pc, size, given, protocol, fileVars>>

Ask(n, buffered) == [sized |-> TRUE, policy |-> FALSE, buffered |-> buffered, size |-> n]

\* Linux asks for the size without a buffer, then for the contents.
LinuxAsks ==
  /\ linux.at = "asks"
  /\ Calls(Ask(0, FALSE))
  /\ linux' = IF answer'.reply.status = "too small"
                THEN [linux EXCEPT !.at = "fetches", !.size = answer'.reply.size]
                ELSE [linux EXCEPT !.at = "booted"]
  /\ UnchangedByCalls

LinuxFetches ==
  /\ linux.at = "fetches"
  /\ Calls(Ask(linux.size, TRUE))
  /\ linux' = [linux EXCEPT !.at = "booted", !.initrd = answer'.reply.bytes]
  /\ UnchangedByCalls

\* A boot manager's shell, say, calls as it likes before.
AnybodyAsks ==
  /\ linux.at = "asks"
  /\ \E request \in Requests : Calls(request)
  /\ UNCHANGED linux
  /\ UnchangedByCalls

-----------------------------------------------------------------------------
Init ==
  /\ FileInit
  /\ purpose \in Purpose
  /\ totalSize \in IF purpose = "fdt" THEN 0 .. MaxSize + 1 ELSE {0}
  /\ pc = "start"
  /\ size = 0
  /\ given = <<>>
  /\ protocol = Nothing
  /\ answer = Nothing
  /\ linux = [at |-> "asks", size |-> 0, initrd |-> <<>>]

Next ==
  \/ GetSize \/ LoadFile \/ FileRuns \/ Sized \/ Allocate \/ AllocateFails
  \/ OutOfMemory \/ Exchanged \/ Loaded
  \/ TerminateCfg \/ LoadImage \/ CopyFdt \/ ServeInitrd
  \/ LinuxAsks \/ LinuxFetches \/ AnybodyAsks

Spec == Init /\ [][Next]_vars

-----------------------------------------------------------------------------
(***************************************************************************)
(* Properties.                                                             *)
(***************************************************************************)
Contents == [k \in 1 .. disk.size |-> FileByte(k)]
Trouble == history.exchanged \/ history.readFailed

\* Whatever fails, the file read fits the buffer allocated for the size of another
\* open(), the configuration with its terminator (file_get_size(), file_load()).
ReadFits ==
  In({"file_load"}, "informed") /\ ~history.exchanged => call.size <= Len(buffer)
TerminatorFits == pc = "cfg" /\ ~history.exchanged => result + 1 <= Len(buffer)

\* What is passed on is the file, whole and in order, when no read failed and the
\* medium stayed: the configuration up to its terminator, the image of the size asked
\* for earlier, the devicetree as far as it says it reaches, when that is not behind
\* its end.
PassedOn ==
  pc = "used" /\ ~Trouble =>
    CASE purpose = "fdt" ->
           totalSize <= disk.size =>
             SubSeq(given, 1, totalSize) = SubSeq(Contents, 1, totalSize)
      [] purpose = "initrd" -> Served => given = Contents
      [] OTHER -> given = Contents

\* A file gets from the disk to the one it is for, and stays within its buffer.
ContentsAreFiles == ReadFits /\ TerminatorFits /\ PassedOn

\* The kernel that asks for the size and then for the contents gets what file_load()
\* read, the whole file unless the read failed; and a caller of any kind finds at
\* most what it has room for, all of it when it is told of success, and the size
\* when its room is too small (_initrd_load_file()).
LinuxHasInitrd ==
  linux.at = "booted" =>
    /\ linux.initrd = given
    /\ ~Trouble => linux.initrd = Contents

AnswerFits ==
  answer # Nothing =>
    /\ Len(answer.reply.bytes) <= answer.request.size
    /\ answer.reply.status = "success" => answer.reply.bytes = given
    /\ answer.reply.status = "too small" => answer.reply.size = Len(given)

KernelGetsInitrd == LinuxHasInitrd /\ AnswerFits
=============================================================================
