------------------------------- MODULE Loader -------------------------------
(***************************************************************************)
(* loli's boot flow from load_cfg() to startImage(): the menu loop of      *)
(* cmdline_loop(), load_and_validate_entry() with every goto of its error  *)
(* paths, fdt_fixup_and_load() and initrd_setup().  One action per stretch *)
(* of code up to the next call of the firmware that may fail.              *)
(***************************************************************************)
EXTENDS BootServices

CONSTANTS
  Configs,      \* the configurations, and the machines, the loader may find
  MaxEntries    \* bound on the entries of a configuration

(***************************************************************************)
(* What a path in the configuration may lead to.  A "stub" is a regular    *)
(* file too short to be a devicetree or a kernel, possibly empty.          *)
(***************************************************************************)
File == {"missing", "directory", "stub", "regular"}
Path == File \cup {"absent"}            \* "absent": the entry has no such key

\* The pairs of one entry, as menu_get_pair() finds them.
Pairs == [kernel : Path, fdt : Path, devicetree : Path, initrd : Path,
          append : BOOLEAN]

(***************************************************************************)
(* A configuration: its own file, its entries 0 .. count-1, whether there  *)
(* is a "default" pair and the last entry whose label matches it (-1 when  *)
(* none does), and the value menu_get_timeout() makes of "timeout".  And   *)
(* the machine it is on: may the firmware fail for reasons other than the  *)
(* files, and is there anybody at the keyboard?                            *)
(***************************************************************************)
ConfigOK(c) ==
  /\ c.file \in File
  /\ c.count \in 0 .. MaxEntries
  /\ c.entries \in [0 .. c.count - 1 -> Pairs]
  /\ c.named \in BOOLEAN
  /\ c.match \in -1 .. c.count - 1
  /\ c.timeout \in Nat
  /\ c.faults \in BOOLEAN
  /\ c.attended \in BOOLEAN

ASSUME LoaderAssumption ==
  /\ MaxEntries \in Nat \ {0}
  /\ \A c \in Configs : ConfigOK(c)

VARIABLES
  pc,            \* where the program is, named after the code
  cfg,           \* the configuration on the disk
  armed,         \* cmdline_loop()'s timeout is not 0
  defaultEntry,  \* cmdline_loop()'s defaultEntry
  selected,      \* cmdline_loop()'s selectedEntry
  attempt,       \* how often load_and_validate_entry() has been called
  handle         \* bootEntry.kernelHandle: an attempt's image, 0 for NULL

vars == <<pc, cfg, armed, defaultEntry, selected, attempt, handle,
          live, misfreed, images, options, dtb, initrdPaths, initrdFiles>>

Entry == cfg.entries[selected]

Location == {"load_cfg", "menu", "prompt", "kernel_pair", "kernel_size",
             "kernel_pages", "kernel_load", "load_image", "fdt_pair",
             "fdt_size", "fdt_load", "fdt_install", "initrd_pair",
             "initrd_size", "initrd_pages", "initrd_load", "initrd_setup",
             "initrd_file2", "append", "loaded", "started", "panic"}

\* Inside load_and_validate_entry().
Loading == Location \ {"load_cfg", "menu", "prompt", "loaded", "started", "panic"}

TypeOK ==
  /\ ServicesTypeOK
  /\ pc \in Location
  /\ cfg \in Configs
  /\ armed \in BOOLEAN
  /\ defaultEntry \in 0 .. MaxEntries - 1
  /\ selected \in 0 .. MaxEntries - 1
  /\ attempt \in 0 .. MaxAttempts
  /\ handle \in 0 .. MaxAttempts

Init ==
  /\ ServicesInit
  /\ pc = "load_cfg"
  /\ cfg \in Configs
  /\ armed = FALSE
  /\ defaultEntry = 0
  /\ selected = 0
  /\ attempt = 0
  /\ handle = 0

-----------------------------------------------------------------------------
(***************************************************************************)
(* Files, as file_get_size() and file_load() report them.  A directory has *)
(* a size and cannot be loaded; with faults any call may fail.             *)
(***************************************************************************)
SizeFails(file) == file = "missing" \/ cfg.faults
SizeWorks(file) == file # "missing"
LoadFails(file) == file \in {"missing", "directory"} \/ cfg.faults
LoadWorks(file) == file \notin {"missing", "directory"}

\* malloc_pages() asks for no page at all when the size is 0.
PagesFail(file) == file \in {"directory", "stub"} \/ cfg.faults

\* fdtSize < sizeof(Fdt_Header); a directory reports any size.
TooShort(file) == file \in {"directory", "stub"}
LongEnough(file) == file \in {"directory", "regular"}

\* The parts of the state an attempt's files and memory do not touch.
controlVars == <<cfg, armed, defaultEntry, selected, attempt>>
deviceVars == <<dtb, initrdPaths, initrdFiles>>

Goto(location) == pc' = location

Own(uses) == Objects(attempt, uses)

-----------------------------------------------------------------------------
(***************************************************************************)
(* The error exits of load_and_validate_entry(): the labels at its end, in *)
(* the order they fall through.  Each returns -1, and the prompt is next.  *)
(* `released` is what the code frees before the goto.                      *)
(***************************************************************************)
Fail(released) ==
  /\ Goto("prompt")
  /\ Free(attempt, released)
  /\ UNCHANGED handle

OutErr == Fail({}) /\ UNCHANGED <<images, options>>

FreeKernel == Fail({"kernelName"}) /\ UNCHANGED <<images, options>>

FreeKernelBase ==
  Fail({"kernelBase", "kernelName"}) /\ UNCHANGED <<images, options>>

UnloadImage(released) ==
  Fail({"kernelBase", "kernelName"} \cup released) /\ Unload(attempt)

-----------------------------------------------------------------------------
(***************************************************************************)
(* main() and cmdline_loop().                                              *)
(***************************************************************************)

\* load_cfg(): panics when the file has no size or cannot be read.
LoadCfg ==
  /\ pc = "load_cfg"
  /\ \/ LoadFails(cfg.file) /\ Goto("panic")
     \/ LoadWorks(cfg.file) /\ Goto("menu")
  /\ UNCHANGED <<controlVars, handle, firmwareVars>>

\* The entry the countdown picks: the last whose label matches "default", or 0
\* when there is no such pair or no such label.
Bug_UncheckedDefault == cfg.match
SettledDefault == IF cfg.named /\ cfg.match >= 0 THEN cfg.match ELSE 0

ShowMenu ==
  /\ pc = "menu"
  /\ Goto("prompt")
  /\ armed' = (cfg.timeout > 0)
  /\ defaultEntry' = SettledDefault
  /\ UNCHANGED <<cfg, selected, attempt, handle, firmwareVars>>

\* cmdline_loop() sets timeout to 0 once wait_for_boot_entry() has returned.
Bug_ArmedAgain == armed
ArmedAfterInput == FALSE

\* A number in range starts load_and_validate_entry(); any other prompts again.
Select(number) ==
  /\ armed' = ArmedAfterInput
  /\ IF number \in 0 .. cfg.count - 1
       THEN /\ attempt < MaxAttempts
            /\ Goto("kernel_pair")
            /\ selected' = number
            /\ attempt' = attempt + 1
       ELSE UNCHANGED <<pc, selected, attempt>>
  /\ UNCHANGED <<cfg, defaultEntry, handle, firmwareVars>>

\* wait_for_boot_entry() returned a line's number, or -1 for anything that is
\* not one.  cfg.count stands for all the numbers out of range.
Reply ==
  /\ pc = "prompt"
  /\ cfg.attended
  /\ \E number \in -1 .. cfg.count : Select(number)

\* wait_for_boot_entry() returned -2: nothing was typed in time.
Bug_TimeoutIsNoChoice == -1
ChoiceOnTimeout == defaultEntry

Timeout ==
  /\ pc = "prompt"
  /\ armed
  /\ Select(ChoiceOnTimeout)

-----------------------------------------------------------------------------
(***************************************************************************)
(* load_and_validate_entry(): the kernel.                                  *)
(***************************************************************************)
KernelPair ==
  /\ pc = "kernel_pair"
  /\ \/ Entry.kernel = "absent" /\ OutErr
     \/ /\ Entry.kernel # "absent"
        /\ Goto("kernel_size")
        /\ Alloc(attempt, {"kernelName"})
        /\ UNCHANGED <<images, options, handle>>
  /\ UNCHANGED <<controlVars, deviceVars>>

KernelSize ==
  /\ pc = "kernel_size"
  /\ \/ SizeFails(Entry.kernel) /\ OutErr
     \/ /\ SizeWorks(Entry.kernel)
        /\ Goto("kernel_pages")
        /\ UNCHANGED <<live, misfreed, images, options, handle>>
  /\ UNCHANGED <<controlVars, deviceVars>>

KernelPages ==
  /\ pc = "kernel_pages"
  /\ \/ PagesFail(Entry.kernel) /\ OutErr
     \/ /\ Goto("kernel_load")
        /\ Alloc(attempt, {"kernelBase"})
        /\ UNCHANGED <<images, options, handle>>
  /\ UNCHANGED <<controlVars, deviceVars>>

\* A failing file_load() leaves through free_kernel, past free_kernel_base.
KernelLoad ==
  /\ pc = "kernel_load"
  /\ \/ LoadFails(Entry.kernel) /\ FreeKernel
     \/ /\ LoadWorks(Entry.kernel)
        /\ Goto("load_image")
        /\ UNCHANGED <<live, misfreed, images, options, handle>>
  /\ UNCHANGED <<controlVars, deviceVars>>

\* load_efi_image(): the firmware takes regular files only for an image.
Bug_FirstHandle == IF handle = 0 THEN attempt ELSE handle
LoadedHandle == attempt

LoadImage ==
  /\ pc = "load_image"
  /\ \/ (Entry.kernel # "regular" \/ cfg.faults) /\ FreeKernelBase
     \/ /\ Entry.kernel = "regular"
        /\ Goto("fdt_pair")
        /\ Load(attempt)
        /\ handle' = LoadedHandle
        /\ UNCHANGED <<live, misfreed>>
  /\ UNCHANGED <<controlVars, deviceVars>>

-----------------------------------------------------------------------------
(***************************************************************************)
(* The devicetree: the value of "fdt", or else of its alias "devicetree".  *)
(***************************************************************************)
Bug_NoAlias == Entry.fdt
DevicetreePath == IF Entry.fdt # "absent" THEN Entry.fdt ELSE Entry.devicetree

FdtPair ==
  /\ pc = "fdt_pair"
  /\ \/ /\ DevicetreePath = "absent"
        /\ Goto("initrd_pair")
        /\ UNCHANGED <<live, misfreed>>
     \/ /\ DevicetreePath # "absent"
        /\ Goto("fdt_size")
        /\ Alloc(attempt, {"fdtName"})
  /\ UNCHANGED <<controlVars, deviceVars, images, options, handle>>

\* What is released on the way out before, and after, fdtBase exists.
Bug_FreesEarly == {"fdtBase"}
FreedOnFdtSize == {}
FreedOnFdtLoad == {"fdtBase"}

FdtSize ==
  /\ pc = "fdt_size"
  /\ \/ SizeFails(DevicetreePath) /\ UnloadImage(FreedOnFdtSize)
     \/ TooShort(DevicetreePath) /\ UnloadImage(FreedOnFdtSize)
     \/ /\ SizeWorks(DevicetreePath) /\ LongEnough(DevicetreePath)
        /\ Goto("fdt_load")
        /\ Alloc(attempt, {"fdtBase"})
        /\ UNCHANGED <<images, options, handle>>
  /\ UNCHANGED <<controlVars, deviceVars>>

FdtLoad ==
  /\ pc = "fdt_load"
  /\ \/ LoadFails(DevicetreePath) /\ UnloadImage(FreedOnFdtLoad)
     \/ /\ LoadWorks(DevicetreePath)
        /\ Goto("fdt_install")
        /\ UNCHANGED <<live, misfreed, images, options, handle>>
  /\ UNCHANGED <<controlVars, deviceVars>>

\* fdt_fixup_and_load() installs its padded copy, fixed up or not, and ignores
\* whether the table was taken; the file's own buffer is freed by the caller.
Bug_FreesTheCopy == {"fdtCopy"}
FreedOnceInstalled == {"fdtBase"}

FdtInstall ==
  /\ pc = "fdt_install"
  /\ Goto("initrd_pair")
  /\ AllocFree(attempt, {"fdtCopy"}, FreedOnceInstalled)
  /\ \/ dtb' = attempt
     \/ cfg.faults /\ UNCHANGED dtb
  /\ UNCHANGED <<controlVars, images, options, handle, initrdPaths, initrdFiles>>

-----------------------------------------------------------------------------
(***************************************************************************)
(* The initrd.  Its pages are released by no exit.                         *)
(***************************************************************************)
Bug_KeepsImage == FreeKernelBase
RejectInitrd == UnloadImage({})

InitrdPair ==
  /\ pc = "initrd_pair"
  /\ \/ /\ Entry.initrd = "absent"
        /\ Goto("append")
        /\ UNCHANGED <<live, misfreed>>
     \/ /\ Entry.initrd # "absent"
        /\ Goto("initrd_size")
        /\ Alloc(attempt, {"initrdName"})
  /\ UNCHANGED <<controlVars, deviceVars, images, options, handle>>

InitrdSize ==
  /\ pc = "initrd_size"
  /\ \/ SizeFails(Entry.initrd) /\ RejectInitrd
     \/ /\ SizeWorks(Entry.initrd)
        /\ Goto("initrd_pages")
        /\ UNCHANGED <<live, misfreed, images, options, handle>>
  /\ UNCHANGED <<controlVars, deviceVars>>

InitrdPages ==
  /\ pc = "initrd_pages"
  /\ \/ PagesFail(Entry.initrd) /\ RejectInitrd
     \/ /\ Goto("initrd_load")
        /\ Alloc(attempt, {"initrdBase"})
        /\ UNCHANGED <<images, options, handle>>
  /\ UNCHANGED <<controlVars, deviceVars>>

InitrdLoad ==
  /\ pc = "initrd_load"
  /\ \/ LoadFails(Entry.initrd) /\ RejectInitrd
     \/ /\ LoadWorks(Entry.initrd)
        /\ Goto("initrd_setup")
        /\ UNCHANGED <<live, misfreed, images, options, handle>>
  /\ UNCHANGED <<controlVars, deviceVars>>

\* initrd_setup() up to its first installProtocolInterface().  Its result is
\* ignored by the caller.
InitrdSetup ==
  /\ pc = "initrd_setup"
  /\ \/ /\ Goto("initrd_file2")
        /\ Alloc(attempt, {"initrdProtocol"})
        /\ initrdPaths' = initrdPaths \cup {attempt}
     \/ /\ cfg.faults
        /\ Goto("append")
        /\ AllocFree(attempt, {"initrdProtocol"}, {"initrdProtocol"})
        /\ UNCHANGED initrdPaths
  /\ UNCHANGED <<controlVars, images, options, handle, dtb, initrdFiles>>

\* The second one; when it fails the device path is uninstalled again.
Bug_PathStays == initrdPaths
UninstallDevicePath == initrdPaths \ {attempt}

InitrdFile2 ==
  /\ pc = "initrd_file2"
  /\ Goto("append")
  /\ \/ /\ initrdFiles' = initrdFiles \cup {attempt}
        /\ UNCHANGED <<live, misfreed, initrdPaths>>
     \/ /\ cfg.faults
        /\ initrdPaths' = UninstallDevicePath
        /\ Free(attempt, {"initrdProtocol"})
        /\ UNCHANGED initrdFiles
  /\ UNCHANGED <<controlVars, images, options, handle, dtb>>

-----------------------------------------------------------------------------
(***************************************************************************)
(* The command line, the temporaries freed on success, and startImage().   *)
(***************************************************************************)
SetupAppend ==
  /\ pc = "append"
  /\ Goto("loaded")
  /\ \/ /\ Entry.append
        /\ options' = options \cup {attempt}
        /\ AllocFree(attempt, {"append", "wAppend"}, {"kernelName", "append"})
     \/ /\ ~Entry.append
        /\ Free(attempt, {"kernelName"})
        /\ UNCHANGED options
  /\ UNCHANGED <<controlVars, deviceVars, images, handle>>

StartImage ==
  /\ pc = "loaded"
  /\ Goto("started")
  /\ UNCHANGED <<controlVars, handle, firmwareVars>>

\* startImage() came back: the image could not be started, or it returned.
ImageReturns ==
  /\ pc = "started"
  /\ Goto("panic")
  /\ UNCHANGED <<controlVars, handle, firmwareVars>>

\* malloc_type() and getchar_timeout() panic when the firmware refuses them
\* memory, an event, a timer or a keystroke.
Panics == Location \ {"kernel_pages", "load_image", "initrd_pages",
                      "initrd_file2", "loaded", "started", "panic"}

Panic ==
  /\ cfg.faults
  /\ pc \in Panics
  /\ Goto("panic")
  /\ UNCHANGED <<controlVars, handle, firmwareVars>>

\* panic() never returns.
Spin ==
  /\ pc = "panic"
  /\ UNCHANGED vars

Kernel == KernelPair \/ KernelSize \/ KernelPages \/ KernelLoad \/ LoadImage
Devicetree == FdtPair \/ FdtSize \/ FdtLoad \/ FdtInstall
Initrd == InitrdPair \/ InitrdSize \/ InitrdPages \/ InitrdLoad \/ InitrdSetup
          \/ InitrdFile2

\* Everything the program does without being told to.
Program ==
  \/ LoadCfg
  \/ ShowMenu
  \/ Timeout
  \/ Kernel
  \/ Devicetree
  \/ Initrd
  \/ SetupAppend
  \/ StartImage

Next ==
  \/ Program
  \/ Reply
  \/ ImageReturns
  \/ Panic
  \/ Spin

Spec == Init /\ [][Next]_vars

\* Neither the program nor the firmware's clock stops; nobody has to touch the
\* keyboard.
FairSpec == Spec /\ WF_vars(Program)

-----------------------------------------------------------------------------
(***************************************************************************)
(* Properties.                                                             *)
(***************************************************************************)

\* No exit releases an object that is not allocated: never one twice through
\* a goto and a label it falls into, never one the attempt has not got to.
NothingMisfreed == misfreed = {}

\* Memory the firmware or the kernel still points at is never released: the
\* installed devicetree, the initrd and its protocol, the load options.
HandedOverLive ==
  /\ dtb # Firmware => <<dtb, "fdtCopy">> \in live
  /\ \A a \in initrdFiles :
       <<a, "initrdProtocol">> \in live /\ <<a, "initrdBase">> \in live
  /\ \A a \in options : <<a, "wAppend">> \in live

\* Back at the prompt a rejected entry has left no image loaded, no load
\* options, no initrd device and no buffer of the devicetree file: retrying
\* other entries cannot pile them up, or boot one entry's kernel with another's
\* initrd.
RejectedLeavesNothing ==
  pc = "prompt" =>
    /\ images \cup options \cup initrdPaths \cup initrdFiles = {}
    /\ live \cap (Attempt \X {"fdtBase", "initrdProtocol", "append", "wAppend"}) = {}

\* startImage() gets an image that is loaded, the only one, and of the entry
\* selected last; it has load options exactly if that entry has "append".
StartsItsImage ==
  pc = "started" =>
    /\ handle = attempt
    /\ images = {attempt}
    /\ options = IF Entry.append THEN {attempt} ELSE {}

\* The kernel can never find an initrd device without the protocol behind it,
\* or one left by another attempt.
InitrdWhole ==
  pc \notin {"initrd_file2", "panic"} =>
    /\ initrdPaths = initrdFiles
    /\ initrdFiles \subseteq {attempt}
    /\ initrdFiles # {} => Entry.initrd # "absent"

\* On a firmware that refuses nothing, the kernel is started with all its
\* entry asks for, whatever was tried before: its own devicetree in place of
\* any earlier one, and its initrd.
EnvironmentComplete ==
  pc = "started" /\ ~cfg.faults =>
    /\ Entry.fdt # "absent" \/ Entry.devicetree # "absent" => dtb = attempt
    /\ Entry.initrd # "absent" => initrdFiles = {attempt}

\* An entry that every file of is in order.
Sound(e) ==
  /\ e.kernel = "regular"
  /\ e.fdt \in {"absent", "regular"}
  /\ e.fdt = "absent" => e.devicetree \in {"absent", "regular"}
  /\ e.initrd \in {"absent", "regular"}

\* With a timeout, nobody at the keyboard and a firmware that refuses nothing, a
\* sound default is started.
UnattendedBoots ==
  (/\ pc = "prompt" /\ armed /\ ~cfg.attended /\ ~cfg.faults
   /\ defaultEntry \in 0 .. cfg.count - 1
   /\ Sound(cfg.entries[defaultEntry])) ~> pc = "started"

(***************************************************************************)
(* The inductive invariant behind the safety properties: what the program  *)
(* holds, and what hangs on the firmware, at every location.               *)
(***************************************************************************)
AfterImage == {"fdt_pair", "fdt_size", "fdt_load", "fdt_install",
               "initrd_pair", "initrd_size", "initrd_pages", "initrd_load",
               "initrd_setup", "initrd_file2", "append", "loaded", "started"}

\* What every exit from here may release.
Held ==
  (IF pc \in Loading \ {"kernel_pair"} THEN {"kernelName"} ELSE {})
    \cup (IF pc \in (AfterImage \cap Loading) \cup {"kernel_load", "load_image"}
            THEN {"kernelBase"} ELSE {})
    \cup (IF pc \in {"fdt_load", "fdt_install"} THEN {"fdtBase"} ELSE {})
    \cup (IF pc \in {"initrd_load", "initrd_setup", "initrd_file2"}
            THEN {"initrdBase"} ELSE {})
    \cup (IF pc = "initrd_file2" THEN {"initrdProtocol"} ELSE {})

\* What does not outlive its use, and where it may be live.
Transient ==
  \A a \in Attempt :
    /\ <<a, "append">> \notin live
    /\ <<a, "fdtBase">> \in live =>
         a = attempt /\ pc \in {"fdt_load", "fdt_install", "panic"}
    /\ <<a, "initrdProtocol">> \in live =>
         a = attempt /\ pc \in {"initrd_file2", "append", "loaded", "started", "panic"}
    /\ <<a, "wAppend">> \in live =>
         a = attempt /\ pc \in {"loaded", "started", "panic"}

Hanging ==
  /\ pc # "panic" => images = IF pc \in AfterImage THEN {attempt} ELSE {}
  /\ pc \in AfterImage => handle = attempt
  /\ pc \notin {"loaded", "started", "panic"} => options = {}
  /\ pc \in {"loaded", "started"} =>
       options = IF Entry.append THEN {attempt} ELSE {}
  /\ pc \notin {"initrd_file2", "append", "loaded", "started", "panic"} =>
       initrdPaths = {} /\ initrdFiles = {}
  /\ pc = "initrd_file2" => initrdPaths = {attempt} /\ initrdFiles = {}
  /\ pc \in {"append", "loaded", "started"} =>
       /\ initrdPaths = initrdFiles
       /\ initrdFiles \subseteq {attempt}
       /\ initrdFiles # {} => Entry.initrd # "absent"
  /\ pc \in {"initrd_size", "initrd_pages", "initrd_load", "initrd_setup",
            "initrd_file2"} => Entry.initrd # "absent"

\* An entry is only looked at when it exists.
Selected ==
  pc \in Loading \cup {"loaded", "started"} =>
    /\ attempt \in Attempt
    /\ selected \in 0 .. cfg.count - 1

IInv ==
  /\ TypeOK
  /\ Selected
  /\ NothingMisfreed
  /\ Own(Held) \subseteq live
  /\ Transient
  /\ Hanging
  /\ HandedOverLive

-----------------------------------------------------------------------------
(***************************************************************************)
(* What the repository says of the program and the code does not do.       *)
(***************************************************************************)

\* "fdt (...): Optional, loads and install file as DTB configuration table":
\* an entry without one boots with the firmware's (README.md:67, and the
\* message "FDT: (none)" of loli.c:131).  A rejected entry's table stays.
NoStaleDevicetree ==
  pc = "started" => dtb \in {Firmware, attempt}

-----------------------------------------------------------------------------
\* The promise of the boot menu, made over what the code keeps: locations
\* become phases, and the kernel is handed what hangs on the firmware when
\* startImage() is called.
Phase ==
  CASE pc \in {"load_cfg", "menu"} -> "setup"
    [] pc = "prompt" -> "prompt"
    [] pc \in Loading \cup {"loaded"} -> "loading"
    [] pc = "started" -> "running"
    [] pc = "panic" -> "halted"

Menu == INSTANCE BootMenu WITH
  phase <- Phase,
  fallback <- defaultEntry,
  entry <- selected,
  given <- IF pc = "started"
             THEN [image |-> images, options |-> options, initrd |-> initrdFiles]
             ELSE [image |-> {}, options |-> {}, initrd |-> {}],
  devicetree <- dtb

\* Whatever fails, the loader behaves as the boot menu says: in particular a
\* kernel gets nothing of an earlier attempt, and the countdown fires once.
ImplementsBootMenu == Menu!Spec
=============================================================================
