---------------------------- MODULE BootServices ----------------------------
(***************************************************************************)
(* The part of the UEFI boot services that loli changes while it prepares  *)
(* an entry: memory, loaded images, load options, the devicetree table     *)
(* and the handle the kernel finds its initrd on.  The firmware is not in  *)
(* the repository; each operator says what the calls in src/ rely on.      *)
(*                                                                         *)
(* Everything belongs to an attempt: the n-th call of                      *)
(* load_and_validate_entry() allocates the objects <<n, use>>, so what one *)
(* attempt leaves behind is told apart from what the next one owns.        *)
(***************************************************************************)
EXTENDS Integers

CONSTANT MaxAttempts      \* bound on the calls of load_and_validate_entry()

ASSUME AttemptsAssumption == MaxAttempts \in Nat

VARIABLES
  live,          \* objects allocated and not yet released
  misfreed,      \* objects released while they were not allocated
  images,        \* attempts whose image is loaded
  options,       \* attempts whose image has load options attached
  dtb,           \* attempt that installed the devicetree table, or Firmware
  initrdPaths,   \* attempts with the initrd device path installed
  initrdFiles    \* attempts with the LoadFile2 protocol installed

firmwareVars ==
  <<live, misfreed, images, options, dtb, initrdPaths, initrdFiles>>

Attempt == 1 .. MaxAttempts

Firmware == 0             \* the table was the firmware's, or there was none

\* What an attempt allocates, named after the variables of the source.
Use == {"kernelName", "kernelBase", "fdtName", "fdtBase", "fdtCopy",
        "initrdName", "initrdBase", "initrdProtocol", "append", "wAppend"}

ServicesTypeOK ==
  /\ live \in SUBSET (Attempt \X Use)
  /\ misfreed \in SUBSET (Attempt \X Use)
  /\ images \in SUBSET Attempt
  /\ options \in SUBSET Attempt
  /\ dtb \in Attempt \cup {Firmware}
  /\ initrdPaths \in SUBSET Attempt
  /\ initrdFiles \in SUBSET Attempt

ServicesInit ==
  /\ live = {}
  /\ misfreed = {}
  /\ images = {}
  /\ options = {}
  /\ dtb = Firmware
  /\ initrdPaths = {}
  /\ initrdFiles = {}

(***************************************************************************)
(* Memory.  Allocation makes objects live; releasing what is not live is   *)
(* recorded, because the firmware's pool would be corrupted by it.         *)
(***************************************************************************)
Objects(a, uses) == {a} \X uses

AllocFree(a, allocated, released) ==
  /\ live' = (live \cup Objects(a, allocated)) \ Objects(a, released)
  /\ misfreed' = misfreed \cup
       (Objects(a, released) \ (live \cup Objects(a, allocated)))

Alloc(a, uses) == AllocFree(a, uses, {})

Free(a, uses) == AllocFree(a, {}, uses)

(***************************************************************************)
(* Images: unloading one takes its load options with it.                   *)
(***************************************************************************)
Load(a) == images' = images \cup {a} /\ UNCHANGED options

Unload(a) == images' = images \ {a} /\ options' = options \ {a}
=============================================================================
