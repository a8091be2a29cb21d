------------------------------ MODULE BootMenu ------------------------------
(***************************************************************************)
(* What the boot loader promises, without saying how: somebody, or the     *)
(* countdown, picks an entry; the entry is either handed to its kernel     *)
(* with everything the kernel is given belonging to this very attempt, or  *)
(* it is rejected and the prompt comes back with nothing of the attempt    *)
(* left in the firmware except, possibly, its devicetree.                  *)
(***************************************************************************)
EXTENDS Integers

CONSTANTS MaxAttempts, MaxEntries

VARIABLES
  phase,       \* "setup", "prompt", "loading", "running" or "halted"
  armed,       \* the countdown is still running
  fallback,    \* entry the countdown picks
  entry,       \* entry of the last attempt
  attempt,     \* number of the last attempt, 0 before the first
  given,       \* what the running kernel has been handed
  devicetree   \* attempt the devicetree table comes from, 0 for the firmware

menuVars == <<phase, armed, fallback, entry, attempt, given, devicetree>>

Entries == 0 .. MaxEntries - 1
Nothing == [image |-> {}, options |-> {}, initrd |-> {}]

\* An entry's kernel gets its own image, and its own options and initrd or none.
Packages(a) ==
  [image : {{a}}, options : SUBSET {a}, initrd : SUBSET {a}]

Init ==
  /\ phase = "setup"
  /\ armed = FALSE
  /\ fallback = 0
  /\ entry = 0
  /\ attempt = 0
  /\ given = Nothing
  /\ devicetree = 0

Show ==
  /\ phase = "setup"
  /\ phase' = "prompt"
  /\ armed' \in BOOLEAN
  /\ fallback' \in Entries
  /\ UNCHANGED <<entry, attempt, given, devicetree>>

Try(e) ==
  /\ attempt < MaxAttempts
  /\ phase' = "loading"
  /\ entry' = e
  /\ attempt' = attempt + 1

\* The user names an entry.  Whatever is typed stops the countdown for good.
Pick(e) ==
  /\ phase = "prompt"
  /\ armed' = FALSE
  /\ Try(e)
  /\ UNCHANGED <<fallback, given, devicetree>>

Ignore ==
  /\ phase = "prompt"
  /\ armed' = FALSE
  /\ UNCHANGED <<phase, fallback, entry, attempt, given, devicetree>>

\* Only a countdown that nobody interrupted picks an entry by itself.
Expire ==
  /\ phase = "prompt"
  /\ armed
  /\ armed' = FALSE
  /\ Try(fallback)
  /\ UNCHANGED <<fallback, given, devicetree>>

InstallDevicetree ==
  /\ phase = "loading"
  /\ devicetree' = attempt
  /\ UNCHANGED <<phase, armed, fallback, entry, attempt, given>>

Reject ==
  /\ phase = "loading"
  /\ phase' = "prompt"
  /\ UNCHANGED <<armed, fallback, entry, attempt, given, devicetree>>

Boot ==
  /\ phase = "loading"
  /\ phase' = "running"
  /\ given' \in Packages(attempt)
  /\ UNCHANGED <<armed, fallback, entry, attempt, devicetree>>

\* The loader gives up, or the kernel came back: what it was given is void.
Halt ==
  /\ phase' = "halted"
  /\ given' = Nothing
  /\ UNCHANGED <<armed, fallback, entry, attempt, devicetree>>

Next ==
  \/ Show
  \/ \E e \in Entries : Pick(e)
  \/ Ignore
  \/ Expire
  \/ InstallDevicetree
  \/ Reject
  \/ Boot
  \/ Halt

Spec == Init /\ [][Next]_menuVars
=============================================================================
