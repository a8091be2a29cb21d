-------------------------------- MODULE Output --------------------------------
(***************************************************************************)
(* What loli prints, and to where: main() up to the menu, serial_init(),   *)
(* graphics_init() and puts_internal(), which writes to the serial ports   *)
(* and the screens there are, and to the firmware's console before.  What  *)
(* a screen makes of its characters is Framebuffer's.  Messages that       *)
(* follow each other with nothing in between are one.                      *)
(***************************************************************************)
EXTENDS Integers, Sequences, FiniteSets, SequencesExt

CONSTANT Machines    \* serial ports, graphics devices, and whether calls may fail

(***************************************************************************)
(* A machine has `ports` serial ports and handles of graphics devices, of  *)
(* which two may be of the same one.  A device has modes, with room for    *)
(* the console or without.                                                 *)
(***************************************************************************)
MachineOK(m) ==
  /\ m.ports \in Nat
  /\ m.modes \in Seq(Seq(BOOLEAN))
  /\ m.handles \in Seq(DOMAIN m.modes)
  /\ m.faults \in BOOLEAN

ASSUME OutputAssumption == \A m \in Machines : MachineOK(m)

VARIABLES
  machine,
  pc,                  \* where the program is
  back,                \* where it goes on after a message
  text,                \* the message, gLineEndConvertBuf
  port, remain,        \* serial_write()'s i and remain,
  offered,             \* and written, before a call
  serialAvailable,     \* gSerialAvailable
  graphicsAvailable,   \* gGraphicsAvailable
  handle, mode,        \* graphics_init()'s i, gop_determine_mode()'s mode
  fbs,                 \* the devices of gFBs
  current,             \* the mode of each device, 0 until it is set
  shown,               \* what each output has got of the message
  uses,                \* the outputs there were when the message began
  lost                 \* has an output refused characters of it?

vars == <<machine, pc, back, text, port, remain, offered, serialAvailable,
          graphicsAvailable, handle, mode, fbs, current, shown, uses, lost>>

printVars == <<port, remain, offered>>
setupVars == <<serialAvailable, graphicsAvailable, handle, mode, fbs, current>>

Console == <<"console">>
Port(p) == <<"port", p>>
Screen(device) == <<"screen", device>>

Outputs ==
  {Console} \cup {Port(p) : p \in 1 .. machine.ports}
            \cup {Screen(d) : d \in DOMAIN machine.modes}

Goto(location) == pc' = location

-----------------------------------------------------------------------------
(***************************************************************************)
(* puts_internal() and serial_write().                                     *)
(***************************************************************************)

\* A carriage return before each line feed.
Convert(t, c) == IF c = "\n" THEN t \o <<"\r", "\n">> ELSE Append(t, c)

Converted(s) == FoldLeft(Convert, <<>>, s)

\* The ports and screens in use, and the console where there is none.
Available ==
  LET ports == IF serialAvailable THEN {Port(p) : p \in 1 .. machine.ports} ELSE {}
      screens == IF graphicsAvailable THEN {Screen(d) : d \in ToSet(fbs)} ELSE {}
  IN  IF serialAvailable \/ graphicsAvailable THEN ports \cup screens ELSE {Console}

Message(about) == Converted(<<about, "\n">>)

printf(about, next) ==
  /\ Goto("print")
  /\ back' = next
  /\ text' = Message(about)
  /\ shown' = [o \in Outputs |-> <<>>]
  /\ uses' = Available
  /\ lost' = FALSE

PrintAndKeep(about, next) ==
  printf(about, next) /\ UNCHANGED <<machine, printVars, setupVars>>

Write(output, characters) ==
  shown' = [shown EXCEPT ![output] = @ \o characters]

StartPort(p) == port' = p /\ remain' = Len(text) /\ offered' = Len(text)

\* The console's outputString() may fail, and nobody looks.
PutConsole ==
  /\ pc = "print"
  /\ Goto("serial")
  /\ StartPort(1)
  /\ \/ /\ serialAvailable \/ graphicsAvailable
        /\ UNCHANGED <<shown, lost>>
     \/ /\ ~serialAvailable /\ ~graphicsAvailable
        /\ Write(Console, text)
        /\ UNCHANGED lost
     \/ /\ ~serialAvailable /\ ~graphicsAvailable
        /\ machine.faults
        /\ lost' = TRUE
        /\ UNCHANGED shown
  /\ UNCHANGED <<machine, back, text, setupVars, uses>>

Ports == IF serialAvailable THEN machine.ports ELSE 0

\* What write() is given: the end of the text that is left.
Bug_FromTheStart == text
Pending == SubSeq(text, Len(text) - remain + 1, Len(text))

\* written = remain
Bug_OfferWritten(left, written) == written
Offer(left, written) == left

Writing == pc = "serial" /\ port <= Ports /\ remain > 0

Wrote(n) ==
  /\ remain' = remain - n
  /\ offered' = Offer(remain', n)
  /\ UNCHANGED <<machine, pc, back, text, port, setupVars, uses>>

\* A port takes as many characters as it has room for.
SerialAccepts ==
  /\ Writing
  /\ \E n \in 1 .. remain :
       n <= offered /\ Write(Port(port), SubSeq(Pending, 1, n)) /\ Wrote(n)
  /\ UNCHANGED lost

\* Its time runs out with none taken.
SerialStalls == Writing /\ Wrote(0) /\ UNCHANGED <<shown, lost>>

\* It fails without saying how many it took.
SerialFails ==
  /\ Writing
  /\ machine.faults
  /\ lost' = TRUE
  /\ Wrote(offered)
  /\ UNCHANGED shown

NextPort ==
  /\ pc = "serial"
  /\ port <= Ports
  /\ remain = 0
  /\ StartPort(port + 1)
  /\ UNCHANGED <<machine, pc, back, text, setupVars, shown, uses, lost>>

\* graphics_write()
PutGraphics ==
  /\ pc = "serial"
  /\ port > Ports
  /\ Goto(back)
  /\ shown' = [o \in Outputs |->
                 IF graphicsAvailable /\ \E d \in ToSet(fbs) : o = Screen(d)
                   THEN shown[o] \o text
                   ELSE shown[o]]
  /\ UNCHANGED <<machine, back, text, printVars, setupVars, uses, lost>>

-----------------------------------------------------------------------------
(***************************************************************************)
(* serial_init().                                                          *)
(***************************************************************************)
Start == pc = "start" /\ PrintAndKeep("initializing", "serial_init")

NoSerial ==
  /\ pc = "serial_init"
  /\ machine.ports = 0
  /\ PrintAndKeep("skipping serial", "graphics_init")

LocateFails ==
  /\ pc \in {"serial_init", "graphics_init"}
  /\ machine.faults
  /\ PrintAndKeep("locate fails", "panic")

Panic == pc = "panic" /\ PrintAndKeep("PANIC", "panicked")

\* The statuses of the second locateHandle() and of handleProtocol() are not looked
\* at, and what they left behind is used.
ProtocolFails ==
  /\ \/ pc = "serial_init" /\ machine.ports > 0
     \/ pc \in {"graphics_init", "try_init"} /\ machine.handles # <<>>
  /\ machine.faults
  /\ Goto("undefined")
  /\ UNCHANGED <<machine, back, text, printVars, setupVars, shown, uses, lost>>

\* malloc() panics, of the protocols and of the frame buffers.
OutOfMemory ==
  /\ \/ pc = "serial_init" /\ machine.ports > 0
     \/ pc = "graphics_init" /\ machine.handles # <<>>
  /\ machine.faults
  /\ Goto("panic")
  /\ UNCHANGED <<machine, back, text, printVars, setupVars, shown, uses, lost>>

SerialInit ==
  /\ pc = "serial_init"
  /\ machine.ports > 0
  /\ serialAvailable' = TRUE
  /\ Goto("graphics_init")
  /\ UNCHANGED <<machine, back, text, printVars, graphicsAvailable, handle, mode, fbs,
                 current, shown, uses, lost>>

-----------------------------------------------------------------------------
(***************************************************************************)
(* graphics_init(), gop_try_init(), gop_determine_mode(), gop_setup_mode().*)
(***************************************************************************)
NoGraphics ==
  /\ pc = "graphics_init"
  /\ machine.handles = <<>>
  /\ PrintAndKeep("no GOP found", "banner")

GraphicsInit ==
  /\ pc = "graphics_init"
  /\ machine.handles # <<>>
  /\ Goto("try_init")
  /\ UNCHANGED <<machine, back, text, printVars, setupVars, shown, uses, lost>>

Gop == machine.handles[handle]
Modes == machine.modes[Gop]

TryInit ==
  /\ pc = "try_init"
  /\ handle <= Len(machine.handles)
  /\ Goto("mode")
  /\ mode' = 1
  /\ UNCHANGED <<machine, back, text, printVars, serialAvailable, graphicsAvailable,
                 handle, fbs, current, shown, uses, lost>>

\* The device is skipped.
Skip(about) ==
  /\ printf(about, "try_init")
  /\ handle' = handle + 1
  /\ UNCHANGED <<machine, printVars, serialAvailable, graphicsAvailable, mode, fbs,
                 current>>

NoMode == pc = "mode" /\ mode > Len(Modes) /\ Skip("no suitable mode")

QueryFails == pc = "mode" /\ mode <= Len(Modes) /\ machine.faults /\ Skip("query fails")

NextMode == mode' = mode + 1 /\ UNCHANGED <<serialAvailable, graphicsAvailable, handle,
                                            fbs, current>>

UnsupportedMode ==
  /\ pc = "mode"
  /\ mode <= Len(Modes)
  /\ ~Modes[mode]
  /\ NextMode
  /\ UNCHANGED <<machine, pc, back, text, printVars, shown, uses, lost>>

SetModeFails ==
  /\ pc = "mode"
  /\ mode <= Len(Modes)
  /\ Modes[mode]
  /\ machine.faults
  /\ NextMode
  /\ printf("set fails", "mode")
  /\ UNCHANGED <<machine, printVars>>

Bug_NeverDuplicated == FALSE
is_buffer_duplicated == Gop \in ToSet(fbs)

\* The mode is set for a device that turns out to have its frame buffer, too.
SetMode ==
  /\ pc = "mode"
  /\ mode <= Len(Modes)
  /\ Modes[mode]
  /\ current' = [current EXCEPT ![Gop] = mode]
  /\ IF is_buffer_duplicated
       THEN /\ printf("no suitable mode", "try_init")
            /\ handle' = handle + 1
       ELSE /\ printf("resolution", "setup_mode")
            /\ UNCHANGED handle
  /\ UNCHANGED <<machine, printVars, serialAvailable, graphicsAvailable, mode, fbs>>

NoPages == pc = "setup_mode" /\ machine.faults /\ Skip("failed to setup")

SetupMode ==
  /\ pc = "setup_mode"
  /\ Goto("try_init")
  /\ fbs' = Append(fbs, Gop)
  /\ handle' = handle + 1
  /\ UNCHANGED <<machine, back, text, printVars, serialAvailable, graphicsAvailable, mode,
                 current, shown, uses, lost>>

\* The last message of graphics_init() comes before gGraphicsAvailable is set.
GraphicsDone ==
  /\ pc = "try_init"
  /\ handle > Len(machine.handles)
  /\ IF fbs # <<>>
       THEN PrintAndKeep("graphics initialized", "graphics_done")
       ELSE PrintAndKeep("no suitable GOP", "banner")

GraphicsAvailable ==
  /\ pc = "graphics_done"
  /\ graphicsAvailable' = TRUE
  /\ Goto("banner")
  /\ UNCHANGED <<machine, back, text, printVars, serialAvailable, handle, mode, fbs,
                 current, shown, uses, lost>>

\* Then the menu, and whatever else there is to say.
Banner == pc = "banner" /\ PrintAndKeep("built", "ready")

Say == pc = "ready" /\ PrintAndKeep("menu", "ready")

-----------------------------------------------------------------------------
Init ==
  /\ machine \in Machines
  /\ pc = "start" /\ back = "start"
  /\ text = <<>>
  /\ port = 1 /\ remain = 0 /\ offered = 0
  /\ serialAvailable = FALSE /\ graphicsAvailable = FALSE
  /\ handle = 1 /\ mode = 1
  /\ fbs = <<>>
  /\ current = [d \in DOMAIN machine.modes |-> 0]
  /\ shown = [o \in Outputs |-> <<>>]
  /\ uses = {}
  /\ lost = FALSE

Printing == PutConsole \/ NextPort \/ PutGraphics

Next ==
  \/ Printing \/ SerialAccepts \/ SerialStalls \/ SerialFails
  \/ Start \/ NoSerial \/ LocateFails \/ Panic \/ ProtocolFails \/ OutOfMemory
  \/ SerialInit
  \/ NoGraphics \/ GraphicsInit \/ TryInit \/ NoMode \/ QueryFails
  \/ UnsupportedMode \/ SetModeFails \/ SetMode \/ NoPages \/ SetupMode
  \/ GraphicsDone \/ GraphicsAvailable \/ Banner \/ Say

\* The program goes on, and a port that is offered characters for ever takes some.
FairSpec == Init /\ [][Next]_vars /\ WF_vars(Printing) /\ WF_vars(SerialAccepts)

-----------------------------------------------------------------------------
(***************************************************************************)
(* Properties.                                                             *)
(***************************************************************************)
InMessage == pc \in {"print", "serial"}

\* When a message ends, every serial port and every screen that was in use as it
\* began has got it, whole, once and in order, however few characters a port took at
\* a time, or the console has where there was none in use, and no other output has
\* got any of it; unless a device refused some (puts_internal(), serial_write(),
\* graphics_write()).
OutputComplete ==
  ~InMessage /\ ~lost =>
    /\ text # <<>> => uses # {}
    /\ \A o \in Outputs : shown[o] = IF o \in uses THEN text ELSE <<>>

\* However calls fail, and however many handles lead to a device, it has one frame
\* buffer at most, and one with a frame buffer is in a mode with room for the console
\* and stays in one (gop_determine_mode(), is_buffer_duplicated()).
FrameBuffersFit ==
  /\ Cardinality(ToSet(fbs)) = Len(fbs)
  /\ \A d \in ToSet(fbs) : current[d] # 0 /\ machine.modes[d][current[d]]
  /\ graphicsAvailable => fbs # <<>>

\* Every message comes to its end: serial_write() goes on where a port stopped.
MessagesEnd == InMessage ~> ~InMessage
=============================================================================
