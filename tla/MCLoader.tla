------------------------------ MODULE MCLoader ------------------------------
(***************************************************************************)
(* Small configurations for Loader: a first entry that varies in every key *)
(* and a second one that is sound, with the menu's settings varying too.   *)
(***************************************************************************)
EXTENDS Loader

Plain == [kernel |-> "regular", fdt |-> "absent", devicetree |-> "absent",
          initrd |-> "absent", append |-> FALSE]

Full == [Plain EXCEPT !.fdt = "regular", !.initrd = "regular", !.append = TRUE]

Broken == [Full EXCEPT !.initrd = "missing"]

\* "timeout" and "default" as menu_get_timeout() and the menu's scan find them.
Settings == {[timeout |-> 0, named |-> FALSE, match |-> -1],
             [timeout |-> 3, named |-> TRUE, match |-> 0],
             [timeout |-> 3, named |-> TRUE, match |-> 1],
             [timeout |-> 3, named |-> TRUE, match |-> -1]}

Config(first, second, s, faults, attended) ==
  [file |-> "regular", count |-> 2,
   entries |-> [i \in 0 .. 1 |-> IF i = 0 THEN first ELSE second],
   named |-> s.named, match |-> s.match, timeout |-> s.timeout,
   faults |-> faults, attended |-> attended]

NoEntries(file, faults) ==
  [file |-> file, count |-> 0, entries |-> <<>>, named |-> TRUE,
   match |-> -1, timeout |-> 3, faults |-> faults, attended |-> TRUE]

\* Every single thing an entry can have wrong, the rest being in order.
Flawed ==
  {[Full EXCEPT !.kernel = f] : f \in Path}
    \cup {[Full EXCEPT !.fdt = f] : f \in Path}
    \cup {[Full EXCEPT !.fdt = "absent", !.devicetree = f] : f \in Path}
    \cup {[Full EXCEPT !.initrd = f] : f \in Path}

\* A firmware that may refuse anything.
FaultConfigs ==
  {Config(e, Plain, s, TRUE, TRUE) : e \in {Full, Broken}, s \in Settings}
    \cup {NoEntries(f, TRUE) : f \in File}

\* One that refuses nothing the files on the disk allow, with and without
\* somebody at the keyboard.
ReliableConfigs ==
  {Config(e, f, s, FALSE, attended) :
     e \in Flawed, f \in {Plain, Full, Broken}, s \in Settings, attended \in BOOLEAN}
    \cup {NoEntries(f, FALSE) : f \in File}

AllConfigs == FaultConfigs \cup ReliableConfigs
=============================================================================
