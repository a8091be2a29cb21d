------------------------------ MODULE FileAccess ------------------------------
(***************************************************************************)
(* file.c: what file_get_size() and file_load() ask of the firmware's file *)
(* protocol, one action per call of it, each of which may fail.  The       *)
(* medium may be exchanged between two calls of file.c.                    *)
(***************************************************************************)
EXTENDS Integers, Sequences, SequencesExt

CONSTANTS
  Paths,       \* sequences of characters: "/", "\\", letters and others
  MaxSize      \* bound on the size of a file

ASSUME FileAssumption == MaxSize \in Nat
ASSUME PathAssumption == \A p \in Paths : p \in Seq(ToSet(p))

\* What is at the path.  A directory has a size, too.
Disk == [kind : {"missing", "directory", "file"}, size : 0 .. MaxSize]

VARIABLES
  path,        \* the string asked for
  disk,        \* what is at that path
  faults,      \* may the firmware fail for reasons of its own?
  call,        \* the function of file.c that runs, and where it is
  opened,      \* the path handed to open(), of the last call
  handles,     \* files open
  infos,       \* buffers with a file's information
  buffer,      \* the bytes behind the caller's buffer: of the file, or junk
  result,      \* what the last call returned
  history      \* what has gone wrong outside the program

fileVars == <<path, disk, faults, call, opened, handles, infos, buffer, result, history>>

Junk == 0
NoBuffer == <<>>
FileByte(i) == i

NoHistory == [exchanged |-> FALSE, infoFailed |-> FALSE, readFailed |-> FALSE]

Idle == [fn |-> "none", at |-> "none", size |-> 0]
In(fn, at) == call.fn \in fn /\ call.at = at
At(step) == call' = [call EXCEPT !.at = step]
Both == {"file_get_size", "file_load"}

-----------------------------------------------------------------------------
(***************************************************************************)
(* file_open_str(): str2wcs() widens each char, whose sign goes with it,   *)
(* and fix_path() turns slashes and drops all but one of several.          *)
(***************************************************************************)
Widen(c) == IF c = "latin" THEN "sign-extended" ELSE c

str2wcs(string) == [k \in DOMAIN string |-> Widen(string[k])]

Turned(c) == IF c = "/" THEN "\\" ELSE c

Bug_KeepsSeparators(wide) == [k \in DOMAIN wide |-> Turned(wide[k])]
Fix(fixed, c) ==
  IF Turned(c) = "\\" /\ fixed # <<>> /\ Last(fixed) = "\\"
    THEN fixed
    ELSE Append(fixed, Turned(c))
fix_path(wide) == FoldLeft(Fix, <<>>, wide)

Enter(fn) == call = Idle /\ call' = [fn |-> fn, at |-> "open", size |-> 0]

Return(value) == call' = Idle /\ result' = value

Open ==
  /\ In(Both, "open")
  /\ opened' = fix_path(str2wcs(path))
  /\ \/ /\ disk.kind = "missing" \/ faults
        /\ Return(-1)
        /\ UNCHANGED handles
     \/ /\ disk.kind # "missing"
        /\ handles' = handles + 1
        /\ At("ask")
        /\ UNCHANGED result
  /\ UNCHANGED <<path, disk, faults, infos, buffer, history>>

\* file_get_info() asks for the size of the information, then for the information.
\* Its callers do not close the file when it fails.
InfoFails ==
  /\ faults
  /\ In(Both, "ask") \/ In(Both, "info")
  /\ infos' = IF call.at = "info" THEN infos - 1 ELSE infos
  /\ Return(-1)
  /\ history' = [history EXCEPT !.infoFailed = TRUE]
  /\ UNCHANGED <<path, disk, faults, opened, handles, buffer>>

AskInfo ==
  /\ In(Both, "ask")
  /\ infos' = infos + 1
  /\ At("info")
  /\ UNCHANGED <<path, disk, faults, opened, handles, buffer, result, history>>

GetInfo ==
  /\ In(Both, "info")
  /\ call' = [call EXCEPT !.at = "informed", !.size = disk.size]
  /\ UNCHANGED <<path, disk, faults, opened, handles, infos, buffer, result, history>>

\* file_close(), at the end of either function.
Bug_StaysOpen == handles
Closed == handles - 1

CloseSized ==
  /\ In({"file_get_size"}, "informed")
  /\ infos' = infos - 1
  /\ handles' = Closed
  /\ Return(call.size)
  /\ UNCHANGED <<path, disk, faults, opened, buffer, history>>

\* A directory is left open, its information allocated.
RefuseDirectory ==
  /\ In({"file_load"}, "informed")
  /\ disk.kind = "directory"
  /\ Return(-1)
  /\ UNCHANGED <<path, disk, faults, opened, handles, infos, buffer, history>>

\* Bytes of the file, up to `n`; what does not fit in the buffer is written behind it.
ReadInto(n) ==
  [k \in 1 .. Len(buffer) |-> IF k <= n THEN FileByte(k) ELSE buffer[k]]

\* The status of read() is ignored: a failing one may have stored any part of the
\* file, and claim any size up to the one asked for.
Read ==
  /\ In({"file_load"}, "informed")
  /\ disk.kind = "file"
  /\ infos' = infos - 1
  /\ At("read")
  /\ \/ /\ buffer' = ReadInto(call.size)
        /\ result' = call.size
        /\ UNCHANGED history
     \/ /\ faults
        /\ \E stored, claimed \in 0 .. call.size :
             buffer' = ReadInto(stored) /\ result' = claimed
        /\ history' = [history EXCEPT !.readFailed = TRUE]
  /\ UNCHANGED <<path, disk, faults, opened, handles>>

CloseRead ==
  /\ In({"file_load"}, "read")
  /\ handles' = Closed
  /\ call' = Idle
  /\ UNCHANGED <<path, disk, faults, opened, infos, buffer, result, history>>

\* Somebody takes the medium out and puts another one in.
Exchange ==
  /\ call = Idle
  /\ ~history.exchanged
  /\ disk' \in Disk \ {disk}
  /\ history' = [history EXCEPT !.exchanged = TRUE]
  /\ UNCHANGED <<path, faults, call, opened, handles, infos, buffer, result>>

FileInit ==
  /\ path \in Paths
  /\ disk \in Disk
  /\ faults \in BOOLEAN
  /\ call = Idle
  /\ opened = <<>>
  /\ handles = 0
  /\ infos = 0
  /\ buffer = NoBuffer
  /\ result = -1
  /\ history = NoHistory

FileStep ==
  \/ Open \/ InfoFails \/ AskInfo \/ GetInfo \/ CloseSized
  \/ RefuseDirectory \/ Read \/ CloseRead

-----------------------------------------------------------------------------
(***************************************************************************)
(* Properties.                                                             *)
(***************************************************************************)

\* However a call ends, the file it opened is closed and its information freed:
\* nothing keeps handles of the firmware from one attempt to the next.  The exits
\* where the information cannot be read, and for a directory, are the exception.
HandlesClosed ==
  call = Idle /\ ~history.infoFailed /\ ~history.exchanged /\ disk.kind # "directory" =>
    handles = 0 /\ infos = 0

\* The path open() is given has the names of the one asked for, in their order, with
\* one backslash wherever there were slashes of either kind (fix_path()).
Separator == {"/", "\\"}

\* The names that have ended, and the one that goes on.
NoNames == [ended |-> <<>>, name |-> <<>>]
EndName(names) == IF names.name = <<>> THEN names.ended ELSE Append(names.ended, names.name)
Split(names, c) ==
  IF c \in Separator
    THEN [ended |-> EndName(names), name |-> <<>>]
    ELSE [ended |-> names.ended, name |-> Append(names.name, c)]
Names(string) == EndName(FoldLeft(Split, NoNames, string))

PathMeant ==
  opened # <<>> /\ "latin" \notin ToSet(path) =>
    /\ Names(opened) = Names(path)
    /\ opened[1] = "\\" <=> path[1] \in Separator
    /\ "/" \notin ToSet(opened)
    /\ \A k \in 1 .. Len(opened) - 1 : opened[k] = "\\" => opened[k + 1] # "\\"
=============================================================================
