------------------------------ MODULE MCOutput ------------------------------
\* Machines with up to two serial ports and two graphics devices.
EXTENDS Output

Graphics ==
  {[modes |-> <<>>, handles |-> <<>>],
   [modes |-> << <<FALSE>> >>, handles |-> <<1>>],
   [modes |-> << <<FALSE, TRUE, TRUE>> >>, handles |-> <<1, 1>>],
   [modes |-> << <<TRUE>>, <<TRUE, FALSE>> >>, handles |-> <<2, 1>>]}

MachineSet ==
  {[ports |-> p, modes |-> g.modes, handles |-> g.handles, faults |-> f] :
     p \in 0 .. 2, g \in Graphics, f \in BOOLEAN}
=============================================================================
