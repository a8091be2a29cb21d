----------------------------- MODULE OutputProofs -----------------------------
(***************************************************************************)
(* Proofs about Output, for all machines: any number of serial ports, of   *)
(* handles, of devices and of modes.  Frame buffers fit their devices, and *)
(* messages reach the outputs in use, whole.                               *)
(***************************************************************************)
EXTENDS Output, FiniteSetTheorems, TLAPS

\* The program is at a location, or in a message it goes on from there.
Ahead(location) == pc = location \/ (InMessage /\ back = location)

\* A handle is looked at only while there are some left.
Ranges ==
  /\ machine \in Machines
  /\ handle \in Nat \ {0} /\ mode \in Nat \ {0}
  /\ fbs \in Seq(DOMAIN machine.modes)
  /\ DOMAIN current = DOMAIN machine.modes
  /\ Ahead("mode") \/ Ahead("setup_mode") => handle \in DOMAIN machine.handles

Fits(d) == current[d] # 0 /\ machine.modes[d][current[d]]

Distinct == IsFiniteSet(ToSet(fbs)) /\ Cardinality(ToSet(fbs)) = Len(fbs)

\* A device waits for its frame buffer in a fitting mode, and has none yet.
Waiting == Ahead("setup_mode") => Gop \notin ToSet(fbs) /\ Fits(Gop)

SomeScreen == graphicsAvailable \/ Ahead("graphics_done") => fbs # <<>>

SetupInv ==
  /\ Ranges
  /\ Distinct
  /\ \A d \in ToSet(fbs) : Fits(d)
  /\ Waiting
  /\ SomeScreen

-----------------------------------------------------------------------------
LEMMA GopInRange ==
  ASSUME Ranges, handle \in DOMAIN machine.handles
  PROVE  Gop \in DOMAIN machine.modes
BY OutputAssumption DEF Ranges, MachineOK, Gop

\* One more device makes the set one larger.
LEMMA Appended ==
  ASSUME NEW S, NEW s \in Seq(S), NEW d, d \notin ToSet(s),
         IsFiniteSet(ToSet(s)), Cardinality(ToSet(s)) = Len(s)
  PROVE  /\ ToSet(Append(s, d)) = ToSet(s) \cup {d}
         /\ IsFiniteSet(ToSet(Append(s, d)))
         /\ Cardinality(ToSet(Append(s, d))) = Len(Append(s, d))
<1>1. ToSet(Append(s, d)) = ToSet(s) \cup {d}
  <2>1. DOMAIN s = 1 .. Len(s) /\ Len(s) \in Nat
    OBVIOUS
  <2>2. DOMAIN Append(s, d) = 1 .. Len(s) + 1
    BY <2>1
  <2>3. \A i \in 1 .. Len(s) : Append(s, d)[i] = s[i]
    OBVIOUS
  <2>4. Append(s, d)[Len(s) + 1] = d
    OBVIOUS
  <2>5. 1 .. Len(s) + 1 = (1 .. Len(s)) \cup {Len(s) + 1}
    BY <2>1
  <2> DEFINE t == Append(s, d)
  <2> HIDE DEF t
  <2>6. DOMAIN t = DOMAIN s \cup {Len(s) + 1}
    BY <2>1, <2>2, <2>5 DEF t
  <2>7. (\A i \in DOMAIN s : t[i] = s[i]) /\ t[Len(s) + 1] = d
    BY <2>1, <2>3, <2>4 DEF t
  <2>8. ToSet(t) = ToSet(s) \cup {d}
    BY <2>6, <2>7, Zenon DEF ToSet
  <2> QED BY <2>8 DEF t
<1>2. IsFiniteSet(ToSet(s) \cup {d})
      /\ Cardinality(ToSet(s) \cup {d}) = Cardinality(ToSet(s)) + 1
  BY FS_AddElement
<1>3. Len(Append(s, d)) = Len(s) + 1
  OBVIOUS
<1> QED BY <1>1, <1>2, <1>3

LEMMA SetupInit == Init => SetupInv
<1> SUFFICES ASSUME Init PROVE SetupInv
  OBVIOUS
<1>1. ToSet(fbs) = {}
  BY DEF Init, ToSet
<1>2. Distinct
  BY <1>1, FS_EmptySet DEF Init, Distinct
<1>3. ~Ahead("mode") /\ ~Ahead("setup_mode") /\ ~Ahead("graphics_done")
  BY DEF Init, Ahead, InMessage
<1>4. Ranges
  BY <1>3 DEF Init, Ranges
<1> QED BY <1>1, <1>2, <1>3, <1>4 DEF SetupInv, Waiting, SomeScreen, Init

-----------------------------------------------------------------------------
\* What the message functions leave alone.
LEMMA MessageStep ==
  ASSUME \/ PutConsole \/ SerialAccepts \/ SerialStalls \/ SerialFails \/ NextPort
         \/ PutGraphics \/ UNCHANGED vars
  PROVE  /\ UNCHANGED <<machine, setupVars>>
         /\ \A location \in {"mode", "setup_mode", "graphics_done"} :
              Ahead(location)' => Ahead(location)
BY DEF PutConsole, SerialAccepts, SerialStalls, SerialFails, NextPort, PutGraphics, Wrote,
       Writing, vars, setupVars, Ahead, InMessage, Goto

\* The rest of main() up to the menu: it leads to none of the three locations.
LEMMA OtherStep ==
  ASSUME \/ Start \/ NoSerial \/ LocateFails \/ Panic \/ ProtocolFails \/ OutOfMemory
         \/ SerialInit \/ NoGraphics \/ GraphicsInit \/ Banner \/ Say
  PROVE  /\ UNCHANGED <<machine, graphicsAvailable, handle, mode, fbs, current>>
         /\ \A location \in {"mode", "setup_mode", "graphics_done"} : ~Ahead(location)'
BY DEF Start, NoSerial, LocateFails, Panic, ProtocolFails, OutOfMemory, SerialInit,
       NoGraphics, GraphicsInit, Banner, Say, PrintAndKeep, printf, Goto, setupVars, Ahead,
       InMessage

LEMMA SetupStep == SetupInv /\ [Next]_vars => SetupInv'
<1> SUFFICES ASSUME SetupInv, [Next]_vars PROVE SetupInv'
  OBVIOUS
<1> USE DEF SetupInv
<1>1. CASE \/ PutConsole \/ SerialAccepts \/ SerialStalls \/ SerialFails \/ NextPort
           \/ PutGraphics \/ UNCHANGED vars
  BY <1>1, MessageStep DEF Ranges, Distinct, Waiting, SomeScreen, Fits, Gop, setupVars
<1>2. CASE \/ Start \/ NoSerial \/ LocateFails \/ Panic \/ ProtocolFails \/ OutOfMemory
           \/ SerialInit \/ NoGraphics \/ GraphicsInit \/ Banner \/ Say
  BY <1>2, OtherStep DEF Ranges, Distinct, Waiting, SomeScreen, Fits
<1>3. CASE TryInit
  <2>1. handle \in DOMAIN machine.handles
    BY <1>3, OutputAssumption DEF TryInit, Ranges, MachineOK
  <2>2. pc' = "mode" /\ mode' = 1
        /\ UNCHANGED <<machine, graphicsAvailable, handle, fbs, current>>
    BY <1>3 DEF TryInit, Goto
  <2> QED BY <2>1, <2>2 DEF Ranges, Distinct, Waiting, SomeScreen, Fits, Ahead, InMessage
<1>4. CASE NoMode \/ QueryFails \/ NoPages
  <2>1. /\ pc' = "print" /\ back' = "try_init" /\ handle' = handle + 1
        /\ UNCHANGED <<machine, graphicsAvailable, mode, fbs, current>>
    BY <1>4 DEF NoMode, QueryFails, NoPages, Skip, printf, Goto
  <2> QED BY <2>1 DEF Ranges, Distinct, Waiting, SomeScreen, Fits, Ahead, InMessage
<1>5. CASE UnsupportedMode \/ SetModeFails
  <2>1. /\ pc = "mode"
        /\ pc' = "mode" \/ (pc' = "print" /\ back' = "mode")
        /\ mode' = mode + 1
        /\ UNCHANGED <<machine, graphicsAvailable, handle, fbs, current>>
    BY <1>5 DEF UnsupportedMode, SetModeFails, NextMode, printf, Goto
  <2> QED BY <2>1 DEF Ranges, Distinct, Waiting, SomeScreen, Fits, Ahead, InMessage
<1>6. CASE SetMode
  <2>1. /\ pc = "mode" /\ pc' = "print"
        /\ Modes[mode]
        /\ current' = [current EXCEPT ![Gop] = mode]
        /\ UNCHANGED <<machine, graphicsAvailable, mode, fbs>>
        /\ \/ back' = "try_init" /\ handle' = handle + 1
           \/ Gop \notin ToSet(fbs) /\ back' = "setup_mode" /\ handle' = handle
    BY <1>6 DEF SetMode, printf, Goto, is_buffer_duplicated
  <2>2. handle \in DOMAIN machine.handles
    BY <2>1 DEF Ranges, Ahead
  <2>3. Gop \in DOMAIN machine.modes
    BY <2>2, GopInRange
  <2>4. Fits(Gop)'  \/ handle' # handle
    BY <2>1, <2>3 DEF Fits, Gop, Modes, Ranges
  <2>5. ASSUME NEW d \in ToSet(fbs)' PROVE Fits(d)'
    BY <2>1, <2>3 DEF Fits, Modes, Ranges
  <2>6. Ranges'
    BY <2>1, <2>2 DEF Ranges, Ahead, InMessage
  <2>7. Waiting'
    <3>1. CASE handle' = handle
      BY <2>1, <2>4, <3>1 DEF Waiting, Ahead, InMessage, Gop, Ranges
    <3>2. CASE handle' # handle
      BY <2>1, <3>2 DEF Waiting, Ahead, InMessage
    <3> QED BY <3>1, <3>2
  <2> QED BY <2>1, <2>5, <2>6, <2>7 DEF Distinct, SomeScreen, Ahead, InMessage
<1>7. CASE SetupMode
  <2>1. /\ pc = "setup_mode" /\ pc' = "try_init"
        /\ fbs' = Append(fbs, Gop)
        /\ handle' = handle + 1
        /\ UNCHANGED <<machine, graphicsAvailable, mode, current>>
    BY <1>7 DEF SetupMode, Goto
  <2>2. handle \in DOMAIN machine.handles /\ Gop \notin ToSet(fbs) /\ Fits(Gop)
    BY <2>1 DEF Ranges, Ahead, Waiting
  <2>3. Gop \in DOMAIN machine.modes
    BY <2>2, GopInRange
  <2>4. fbs \in Seq(DOMAIN machine.modes)
    BY DEF Ranges
  <2>5. ToSet(fbs') = ToSet(fbs) \cup {Gop} /\ Distinct'
    BY <2>1, <2>2, <2>4, Appended DEF Distinct
  <2>6. fbs' \in Seq(DOMAIN machine.modes) /\ fbs' # <<>>
    BY <2>1, <2>3, <2>4
  <2>7. Ranges'
    BY <2>1, <2>6 DEF Ranges, Ahead, InMessage
  <2>8. \A d \in ToSet(fbs') : Fits(d)'
    BY <2>1, <2>2, <2>5 DEF Fits
  <2> QED BY <2>1, <2>5, <2>6, <2>7, <2>8 DEF Waiting, SomeScreen, Ahead, InMessage
<1>8. CASE GraphicsDone
  <2>1. /\ pc' = "print"
        /\ \/ back' = "graphics_done" /\ fbs # <<>>
           \/ back' = "banner"
        /\ UNCHANGED <<machine, graphicsAvailable, handle, mode, fbs, current>>
    BY <1>8 DEF GraphicsDone, PrintAndKeep, printf, Goto, setupVars
  <2> QED BY <2>1 DEF Ranges, Distinct, Waiting, SomeScreen, Fits, Ahead, InMessage
<1>9. CASE GraphicsAvailable
  <2>1. /\ pc = "graphics_done" /\ pc' = "banner"
        /\ UNCHANGED <<machine, handle, mode, fbs, current>>
    BY <1>9 DEF GraphicsAvailable, Goto
  <2> QED BY <2>1 DEF Ranges, Distinct, Waiting, SomeScreen, Fits, Ahead, InMessage
<1> QED BY <1>1, <1>2, <1>3, <1>4, <1>5, <1>6, <1>7, <1>8, <1>9 DEF Next, Printing

-----------------------------------------------------------------------------
\* Whatever calls fail and however many handles lead to one device, frame buffers
\* belong to devices of their own, which stay in a mode with room for the console
\* (gop_try_init(), is_buffer_duplicated()).
THEOREM EachFrameBufferFits == FairSpec => []FrameBuffersFit
<1>1. SetupInv => FrameBuffersFit
  BY DEF SetupInv, Distinct, Fits, SomeScreen, FrameBuffersFit
<1> QED BY <1>1, SetupInit, SetupStep, PTL DEF FairSpec
-----------------------------------------------------------------------------
(***************************************************************************)
(* Messages.                                                               *)
(***************************************************************************)
Converting == INSTANCE Folding WITH Op <- Convert

LEMMA ConvertingFolds == \A base, s : Converting!Fold(base, s) = FoldLeft(Convert, base, s)
BY DEF Converting!Fold, FoldLeft, Converting!FoldLeft, MapThenFoldSet,
       Converting!MapThenFoldSet, Max, Converting!Max

\* What has been written of the message to port p, of the text's length and of what
\* remains to be written to the port in turn.
Written(p) ==
  IF ~serialAvailable \/ p > port THEN <<>>
  ELSE IF p < port THEN text ELSE SubSeq(text, 1, Len(text) - remain)

\* The outputs that are due the message have it when it has ended, and no others.
Delivered ==
  /\ uses # {} \/ text = <<>>
  /\ \A o \in Outputs : shown[o] = IF o \in uses THEN text ELSE <<>>

\* Before graphics_write(): the console has the whole message if it is in use, ports
\* have it up to the port in turn, and screens have nothing.
HalfDelivered ==
  /\ shown[Console] = IF Console \in uses THEN text ELSE <<>>
  /\ \A p \in 1 .. machine.ports : shown[Port(p)] = Written(p)
  /\ \A d \in DOMAIN machine.modes : shown[Screen(d)] = <<>>

\* A sequence of characters, whatever they are.
IsText(s) == \E S : s \in Seq(S)

MessageInv ==
  /\ IsText(text)
  /\ DOMAIN shown = Outputs
  /\ back \notin {"print", "serial"}
  /\ serialAvailable => machine.ports # 0
  /\ InMessage => uses = Available
  /\ pc = "print" => shown = [o \in Outputs |-> <<>>]
  /\ pc = "serial" => /\ port \in 1 .. Ports + 1
                      /\ remain \in 0 .. Len(text)
                      /\ offered = remain
                      /\ ~lost => HalfDelivered
  /\ ~InMessage /\ ~lost => Delivered

OutputInv == SetupInv /\ MessageInv

-----------------------------------------------------------------------------
LEMMA MessageIsText == \A about : IsText(Message(about))
<1> SUFFICES ASSUME NEW about PROVE IsText(Message(about))
  OBVIOUS
<1> DEFINE S == {about, "\n", "\r"}
<1>1. ASSUME NEW t \in Seq(S), NEW c \in S PROVE Convert(t, c) \in Seq(S)
  <2>1. "\r" \in S /\ "\n" \in S
    OBVIOUS
  <2> HIDE DEF S
  <2>2. <<"\r", "\n">> \in Seq(S)
    BY <2>1
  <2>3. t \o <<"\r", "\n">> \in Seq(S) /\ Append(t, c) \in Seq(S)
    BY <2>2
  <2> QED BY <2>3 DEF Convert
<1>2. about \in S /\ "\n" \in S
  OBVIOUS
<1> HIDE DEF S
<1>3. <<about, "\n">> \in Seq(S) /\ << >> \in Seq(S)
  BY <1>2
<1>4. Converted(<<about, "\n">>) \in Seq(S)
  BY <1>1, <1>3, Converting!FoldKeeps, ConvertingFolds DEF Converted
<1> QED BY <1>4 DEF Message, IsText

\* Outputs are the console, ports or screens, each once.
LEMMA OutputKinds ==
  /\ Console \in Outputs
  /\ \A p \in 1 .. machine.ports : Port(p) \in Outputs
  /\ \A d \in DOMAIN machine.modes : Screen(d) \in Outputs
  /\ \A o \in Outputs : \/ o = Console
                        \/ \E p \in 1 .. machine.ports : o = Port(p)
                        \/ \E d \in DOMAIN machine.modes : o = Screen(d)
BY DEF Outputs

LEMMA OutputsDiffer ==
  \A a, b : /\ Console # Port(a) /\ Console # Screen(a) /\ Port(a) # Screen(b)
            /\ Port(a) = Port(b) => a = b
            /\ Screen(a) = Screen(b) => a = b
BY DEF Console, Port, Screen

\* Which outputs are in use.
LEMMA InUse ==
  ASSUME Ranges, machine.ports \in Nat
  PROVE  /\ Console \in Available <=> ~serialAvailable /\ ~graphicsAvailable
         /\ \A p \in 1 .. machine.ports : Port(p) \in Available <=> serialAvailable
         /\ \A d : Screen(d) \in Available <=> graphicsAvailable /\ d \in ToSet(fbs)
BY OutputsDiffer DEF Available

\* serial_write() goes on where the port stopped.
LEMMA GoesOn ==
  ASSUME NEW S, NEW s \in Seq(S), NEW left \in 0 .. Len(s), NEW n \in 1 .. left
  PROVE  SubSeq(s, 1, Len(s) - left) \o SubSeq(SubSeq(s, Len(s) - left + 1, Len(s)), 1, n)
           = SubSeq(s, 1, Len(s) - (left - n))
<1> DEFINE l == Len(s)
           a == SubSeq(s, 1, l - left)
           b == SubSeq(s, l - left + 1, l)
           c == SubSeq(b, 1, n)
           d == SubSeq(s, 1, l - (left - n))
<1>1. l \in Nat /\ left \in Nat /\ left <= l /\ n \in Nat /\ n <= left /\ 1 <= n
  OBVIOUS
<1>2. a \in Seq(S) /\ Len(a) = l - left /\ \A i \in 1 .. l - left : a[i] = s[i]
  OBVIOUS
<1>3. b \in Seq(S) /\ Len(b) = left /\ \A i \in 1 .. left : b[i] = s[i + (l - left)]
  OBVIOUS
<1>4. c \in Seq(S) /\ Len(c) = n /\ \A i \in 1 .. n : c[i] = b[i]
  BY <1>3
<1>5. d \in Seq(S) /\ Len(d) = l - (left - n) /\ \A i \in 1 .. l - (left - n) : d[i] = s[i]
  OBVIOUS
<1> HIDE DEF a, b, c, d
<1>6. a \o c \in Seq(S) /\ Len(a \o c) = Len(d)
  <2>1. Len(a \o c) = Len(a) + Len(c) /\ a \o c \in Seq(S)
    <3>1. a \in Seq(S) /\ c \in Seq(S)
      BY <1>2, <1>4
    <3> QED BY <3>1
  <2>2. (l - left) + n = l - (left - n)
    BY <1>1
  <2> QED BY <1>2, <1>4, <1>5, <2>1, <2>2
<1>7. ASSUME NEW i \in 1 .. Len(d) PROVE (a \o c)[i] = d[i]
  <2>1. CASE i <= l - left
    BY <1>1, <1>2, <1>4, <1>5, <2>1
  <2>2. CASE ~(i <= l - left)
    <3>1. i - (l - left) \in 1 .. n /\ i - (l - left) \in 1 .. left
          /\ i - (l - left) + (l - left) = i
      BY <1>1, <1>5, <2>2
    <3>2. (a \o c)[i] = c[i - (l - left)]
      BY <1>1, <1>2, <1>4, <1>5, <2>2
    <3> QED BY <1>3, <1>4, <1>5, <3>1, <3>2
  <2> QED BY <2>1, <2>2
<1>8. a \o c = d
  BY <1>5, <1>6, <1>7, SMTT(30)
<1> QED BY <1>8 DEF a, b, c, d

-----------------------------------------------------------------------------
\* A message begins: the outputs in use are those that are due it.
LEMMA PrintKeeps ==
  ASSUME OutputInv, NEW about, NEW next, next \notin {"print", "serial"},
         printf(about, next),
         UNCHANGED <<machine, serialAvailable, graphicsAvailable, fbs>>
  PROVE  MessageInv'
<1>1. /\ pc' = "print" /\ back' = next /\ text' = Message(about)
      /\ shown' = [o \in Outputs |-> <<>>] /\ uses' = Available
  BY DEF printf, Goto
<1>2. IsText(text')
  BY <1>1, MessageIsText
<1>3. Outputs' = Outputs /\ Available' = Available
  BY DEF Outputs, Available
<1> QED BY <1>1, <1>2, <1>3 DEF OutputInv, MessageInv, InMessage

\* What is not part of a message keeps what the last one has left.
LEMMA SetupKeeps ==
  ASSUME OutputInv, ~InMessage, ~InMessage', serialAvailable' => machine.ports # 0,
         UNCHANGED <<machine, back, text, shown, uses, lost>>
  PROVE  MessageInv'
<1>1. Outputs' = Outputs
  BY DEF Outputs
<1> QED BY <1>1 DEF OutputInv, MessageInv, InMessage, Delivered

LEMMA PutConsoleKeeps == ASSUME OutputInv, PutConsole PROVE MessageInv'
<1>1. /\ pc = "print" /\ pc' = "serial"
      /\ port' = 1 /\ remain' = Len(text) /\ offered' = Len(text)
      /\ UNCHANGED <<machine, back, text, serialAvailable, graphicsAvailable, fbs, uses>>
  BY DEF PutConsole, Goto, StartPort, setupVars
<1>2. IsText(text) /\ uses = Available /\ shown = [o \in Outputs |-> <<>>]
      /\ Ranges /\ machine.ports \in Nat
  BY <1>1, OutputAssumption DEF OutputInv, SetupInv, Ranges, MachineOK, MessageInv, InMessage
<1>3. Outputs' = Outputs /\ Available' = Available /\ Ports' = Ports /\ Ports \in Nat
  BY <1>1, <1>2 DEF Outputs, Available, Ports
<1>4. DOMAIN shown' = Outputs
  BY <1>2 DEF PutConsole, Write
<1>5. ~lost' => HalfDelivered'
  <2> SUFFICES ASSUME ~lost' PROVE HalfDelivered'
    OBVIOUS
  <2>1. shown' = IF Console \in uses THEN [shown EXCEPT ![Console] = @ \o text] ELSE shown
    BY <1>2, InUse DEF PutConsole, Write
  <2>2. shown'[Console] = IF Console \in uses THEN text ELSE <<>>
    BY <1>2, <2>1, OutputKinds
  <2>3. ASSUME NEW o \in Outputs, o # Console PROVE shown'[o] = <<>>
    BY <1>2, <2>1, <2>3
  <2>4. SubSeq(text, 1, Len(text) - Len(text)) = <<>>
    BY <1>2 DEF IsText
  <2>5. ASSUME NEW p \in 1 .. machine.ports PROVE shown'[Port(p)] = Written(p)'
    <3>1. shown'[Port(p)] = <<>>
      BY <2>3, OutputKinds, OutputsDiffer
    <3>2. p >= 1 /\ p \in Int
      BY <1>2
    <3> QED BY <1>1, <2>4, <3>1, <3>2 DEF Written
  <2>6. \A d \in DOMAIN machine.modes : shown'[Screen(d)] = <<>>
    BY <2>3, OutputKinds, OutputsDiffer
  <2> QED BY <1>1, <2>2, <2>5, <2>6 DEF HalfDelivered
<1>6. Len(text) \in Nat
  BY <1>2 DEF IsText
<1> QED BY <1>1, <1>2, <1>3, <1>4, <1>5, <1>6 DEF OutputInv, MessageInv, InMessage

\* What the three outcomes of a call of write() have in common.
LEMMA WroteKeeps ==
  ASSUME OutputInv, Writing, NEW n \in 0 .. remain, Wrote(n), DOMAIN shown' = Outputs,
         ~lost' => HalfDelivered'
  PROVE  MessageInv'
<1>1. /\ pc = "serial" /\ pc' = "serial" /\ port' = port
      /\ remain' = remain - n /\ offered' = remain'
      /\ UNCHANGED <<machine, back, text, serialAvailable, graphicsAvailable, fbs, uses>>
  BY DEF Writing, Wrote, Offer, setupVars
<1>2. IsText(text) /\ remain \in 0 .. Len(text) /\ port \in 1 .. Ports + 1
  BY <1>1 DEF OutputInv, MessageInv
<1>3. Outputs' = Outputs /\ Available' = Available /\ Ports' = Ports
  BY <1>1 DEF Outputs, Available, Ports
<1>4. remain' \in 0 .. Len(text)
  BY <1>1, <1>2
<1> QED BY <1>1, <1>2, <1>3, <1>4 DEF OutputInv, MessageInv, InMessage

LEMMA SerialKeeps ==
  ASSUME OutputInv, SerialAccepts \/ SerialStalls \/ SerialFails PROVE MessageInv'
<1>1. Writing /\ pc = "serial" /\ port <= Ports /\ remain > 0
  BY DEF SerialAccepts, SerialStalls, SerialFails, Writing
<1>2. /\ IsText(text) /\ DOMAIN shown = Outputs /\ remain \in 0 .. Len(text)
      /\ offered = remain /\ port \in 1 .. Ports + 1
      /\ ~lost => HalfDelivered
  BY <1>1 DEF OutputInv, MessageInv
<1>3. machine.ports \in Nat
  BY OutputAssumption DEF OutputInv, SetupInv, Ranges, MachineOK
<1>4. serialAvailable /\ port \in 1 .. machine.ports
  BY <1>1, <1>2, <1>3 DEF Ports
<1>5. CASE SerialAccepts
  <2>1. PICK n \in 1 .. remain : Write(Port(port), SubSeq(Pending, 1, n)) /\ Wrote(n)
    BY <1>5 DEF SerialAccepts
  <2>2. /\ remain' = remain - n /\ lost' = lost
        /\ UNCHANGED <<machine, text, port, serialAvailable, uses>>
        /\ shown' = [shown EXCEPT ![Port(port)] = @ \o SubSeq(Pending, 1, n)]
    BY <1>5, <2>1 DEF SerialAccepts, Wrote, Write, setupVars
  <2>3. ASSUME ~lost PROVE HalfDelivered'
    <3>1. HalfDelivered
      BY <1>2, <2>3
    <3>2. shown'[Console] = shown[Console]
          /\ \A d \in DOMAIN machine.modes : shown'[Screen(d)] = shown[Screen(d)]
      BY <1>2, <2>2, OutputsDiffer, OutputKinds
    <3>3. ASSUME NEW p \in 1 .. machine.ports PROVE shown'[Port(p)] = Written(p)'
      <4>1. CASE p = port
        <5>1. shown[Port(port)] = SubSeq(text, 1, Len(text) - remain)
          <6>1. shown[Port(port)] = Written(port)
            BY <1>4, <3>1 DEF HalfDelivered
          <6>2. port \in Int /\ ~(port > port) /\ ~(port < port)
            BY <1>3, <1>4
          <6> QED BY <1>4, <6>1, <6>2 DEF Written
        <5>2. shown'[Port(port)] = shown[Port(port)] \o SubSeq(Pending, 1, n)
          BY <1>2, <1>4, <2>2, OutputKinds
        <5>3. shown'[Port(port)] = SubSeq(text, 1, Len(text) - (remain - n))
          <6>1. PICK S : text \in Seq(S)
            BY <1>2 DEF IsText
          <6> QED BY <1>2, <5>1, <5>2, <6>1, GoesOn DEF Pending
        <5>4. Written(p)' = SubSeq(text, 1, Len(text) - (remain - n))
          BY <1>3, <1>4, <2>2, <4>1 DEF Written
        <5> QED BY <4>1, <5>3, <5>4
      <4>2. CASE p # port
        <5>1. shown'[Port(p)] = shown[Port(p)]
          BY <1>2, <2>2, <4>2, OutputKinds, OutputsDiffer
        <5>2. Written(p)' = Written(p)
          BY <1>3, <1>4, <2>2, <4>2 DEF Written
        <5> QED BY <3>1, <5>1, <5>2 DEF HalfDelivered
      <4> QED BY <4>1, <4>2
    <3> QED BY <2>2, <3>1, <3>2, <3>3 DEF HalfDelivered
  <2>4. DOMAIN shown' = Outputs
    BY <1>2, <2>2
  <2>5. n \in 0 .. remain
    BY <1>2
  <2> QED BY <1>1, <2>1, <2>2, <2>3, <2>4, <2>5, WroteKeeps
<1>6. CASE SerialStalls
  <2>1. /\ Wrote(0) /\ remain' = remain - 0
        /\ UNCHANGED <<machine, text, port, serialAvailable, uses, shown, lost>>
    BY <1>6 DEF SerialStalls, Wrote, setupVars
  <2>2. remain' = remain
    BY <1>2, <2>1
  <2>3. HalfDelivered => HalfDelivered'
    BY <2>1, <2>2 DEF HalfDelivered, Written
  <2>4. 0 \in 0 .. remain
    BY <1>2
  <2> QED BY <1>1, <1>2, <2>1, <2>3, <2>4, WroteKeeps
<1>7. CASE SerialFails
  <2>1. Wrote(offered) /\ lost' /\ shown' = shown /\ offered \in 0 .. remain
    BY <1>2, <1>7 DEF SerialFails
  <2> QED BY <1>1, <1>2, <2>1, WroteKeeps
<1> QED BY <1>5, <1>6, <1>7

LEMMA NextPortKeeps == ASSUME OutputInv, NextPort PROVE MessageInv'
<1>1. /\ pc = "serial" /\ pc' = "serial" /\ port <= Ports /\ remain = 0
      /\ port' = port + 1 /\ remain' = Len(text) /\ offered' = Len(text)
      /\ UNCHANGED <<machine, back, text, serialAvailable, graphicsAvailable, fbs, shown, uses,
                     lost>>
  BY DEF NextPort, StartPort, setupVars
<1>2. /\ IsText(text) /\ Len(text) \in Nat /\ port \in 1 .. Ports + 1
      /\ ~lost => HalfDelivered
  BY <1>1 DEF OutputInv, MessageInv
<1>3. machine.ports \in Nat
  BY OutputAssumption DEF OutputInv, SetupInv, Ranges, MachineOK
<1>4. Outputs' = Outputs /\ Available' = Available /\ Ports' = Ports /\ Ports \in Nat
  BY <1>1, <1>3 DEF Outputs, Available, Ports
<1>5. SubSeq(text, 1, Len(text) - 0) = text /\ SubSeq(text, 1, Len(text) - Len(text)) = <<>>
  BY <1>2 DEF IsText
<1>6. ASSUME NEW p \in 1 .. machine.ports PROVE Written(p)' = Written(p)
  <2>1. p \in Int /\ port \in Int
    BY <1>2, <1>3, <1>4
  <2>2. CASE p <= port
    <3>1. Written(p) = IF serialAvailable THEN text ELSE <<>>
      <4>1. CASE p = port
        <5>1. SubSeq(text, 1, Len(text) - remain) = text
          BY <1>1, <1>5
        <5>2. ~(p > port) /\ ~(p < port)
          BY <2>1, <4>1
        <5>3. Written(p) = IF ~serialAvailable THEN <<>> ELSE SubSeq(text, 1, Len(text) - remain)
          BY <5>2 DEF Written
        <5> QED BY <5>1, <5>3
      <4>2. CASE p # port
        BY <2>1, <2>2, <4>2 DEF Written
      <4> QED BY <4>1, <4>2
    <3>2. p < port'
      BY <1>1, <2>1, <2>2
    <3> QED BY <1>1, <2>1, <3>1, <3>2 DEF Written
  <2>3. CASE p > port
    BY <1>1, <1>5, <2>1, <2>3 DEF Written
  <2> QED BY <2>1, <2>2, <2>3
<1>7. ~lost' => HalfDelivered'
  BY <1>1, <1>2, <1>6 DEF HalfDelivered
<1>8. port' \in 1 .. Ports + 1 /\ remain' \in 0 .. Len(text)
  BY <1>1, <1>2, <1>4
<1> QED BY <1>1, <1>2, <1>4, <1>7, <1>8 DEF OutputInv, MessageInv, InMessage

\* The screens come last.
LEMMA PutGraphicsKeeps == ASSUME OutputInv, PutGraphics PROVE MessageInv'
<1>1. /\ pc = "serial" /\ pc' = back /\ port > Ports
      /\ UNCHANGED <<machine, back, text, serialAvailable, graphicsAvailable, fbs, uses, lost>>
      /\ shown' = [o \in Outputs |->
                     IF graphicsAvailable /\ \E d \in ToSet(fbs) : o = Screen(d)
                       THEN shown[o] \o text
                       ELSE shown[o]]
  BY DEF PutGraphics, Goto, setupVars
<1>2. /\ IsText(text) /\ uses = Available /\ back \notin {"print", "serial"}
      /\ port \in 1 .. Ports + 1
      /\ ~lost => HalfDelivered
      /\ serialAvailable => machine.ports # 0
  BY <1>1 DEF OutputInv, MessageInv, InMessage
<1>3. Ranges /\ machine.ports \in Nat
  BY OutputAssumption DEF OutputInv, SetupInv, Ranges, MachineOK
<1>4. Outputs' = Outputs
  BY <1>1 DEF Outputs
<1>5. ~InMessage'
  BY <1>1, <1>2 DEF InMessage
<1>6. ASSUME ~lost PROVE Delivered'
  <2>1. HalfDelivered
    BY <1>2, <1>6
  <2>2. shown'[Console] = IF Console \in uses THEN text ELSE <<>>
    <3>1. shown'[Console] = shown[Console]
      BY <1>1, OutputKinds, OutputsDiffer
    <3> QED BY <2>1, <3>1 DEF HalfDelivered
  <2>3. ASSUME NEW p \in 1 .. machine.ports
        PROVE  shown'[Port(p)] = IF Port(p) \in uses THEN text ELSE <<>>
    <3>1. shown'[Port(p)] = Written(p)
      BY <1>1, <2>1, OutputKinds, OutputsDiffer DEF HalfDelivered
    <3>2. serialAvailable => p < port
      BY <1>1, <1>2, <1>3 DEF Ports
    <3>3. Written(p) = IF serialAvailable THEN text ELSE <<>>
      <4>1. p \in Int /\ port \in Int
        BY <1>2, <1>3 DEF Ports
      <4> QED BY <3>2, <4>1 DEF Written
    <3> QED BY <1>2, <1>3, <3>1, <3>3, InUse
  <2>4. ASSUME NEW d \in DOMAIN machine.modes
        PROVE  shown'[Screen(d)] = IF Screen(d) \in uses THEN text ELSE <<>>
    <3>1. shown[Screen(d)] = <<>> /\ <<>> \o text = text
      BY <1>2, <2>1 DEF HalfDelivered
    <3>2. Screen(d) \in uses <=> graphicsAvailable /\ \E e \in ToSet(fbs) : Screen(d) = Screen(e)
      BY <1>2, <1>3, InUse, OutputsDiffer
    <3>3. Screen(d) \in Outputs
      BY OutputKinds
    <3> QED BY <1>1, <3>1, <3>2, <3>3
  <2>5. uses # {}
    <3>1. CASE serialAvailable
      BY <1>2, <1>3, <3>1, InUse
    <3>2. CASE graphicsAvailable
      <4>1. fbs # <<>> /\ fbs \in Seq(DOMAIN machine.modes)
        BY <3>2 DEF OutputInv, SetupInv, SomeScreen, Ranges
      <4>2. fbs[1] \in ToSet(fbs)
        BY <4>1 DEF ToSet
      <4> QED BY <1>2, <1>3, <3>2, <4>2, InUse
    <3>3. CASE ~serialAvailable /\ ~graphicsAvailable
      BY <1>2, <1>3, <3>3, InUse
    <3> QED BY <3>1, <3>2, <3>3
  <2>6. \A o \in Outputs : shown'[o] = IF o \in uses THEN text ELSE <<>>
    BY <2>2, <2>3, <2>4, OutputKinds
  <2> QED BY <1>1, <1>4, <2>5, <2>6 DEF Delivered
<1> QED BY <1>1, <1>2, <1>4, <1>5, <1>6 DEF OutputInv, MessageInv, InMessage

LEMMA MessageInvStep == OutputInv /\ [Next]_vars => MessageInv'
<1> SUFFICES ASSUME OutputInv, [Next]_vars PROVE MessageInv'
  OBVIOUS
<1>1. CASE PutConsole
  BY <1>1, PutConsoleKeeps
<1>2. CASE NextPort
  BY <1>2, NextPortKeeps
<1>3. CASE PutGraphics
  BY <1>3, PutGraphicsKeeps
<1>4. CASE SerialAccepts \/ SerialStalls \/ SerialFails
  BY <1>4, SerialKeeps
<1>5. CASE \/ Start \/ NoSerial \/ LocateFails \/ Panic \/ NoGraphics \/ GraphicsDone
           \/ Banner \/ Say
  <2>1. ASSUME NEW about, NEW next, PrintAndKeep(about, next), next \notin {"print", "serial"}
        PROVE  MessageInv'
    BY <2>1, PrintKeeps DEF PrintAndKeep, setupVars
  <2> QED BY <1>5, <2>1 DEF Start, NoSerial, LocateFails, Panic, NoGraphics, GraphicsDone,
                            Banner, Say
<1>6. CASE NoMode \/ QueryFails \/ NoPages
  <2>1. PICK about : Skip(about)
    BY <1>6 DEF NoMode, QueryFails, NoPages
  <2> QED BY <2>1, PrintKeeps DEF Skip
<1>7. CASE SetModeFails
  BY <1>7, PrintKeeps DEF SetModeFails, NextMode
<1>8. CASE SetMode
  <2>1. \/ printf("no suitable mode", "try_init")
        \/ printf("resolution", "setup_mode")
    BY <1>8 DEF SetMode
  <2>2. UNCHANGED <<machine, serialAvailable, graphicsAvailable, fbs>>
    BY <1>8 DEF SetMode
  <2> QED BY <2>1, <2>2, PrintKeeps
<1>9. CASE \/ ProtocolFails \/ OutOfMemory \/ SerialInit \/ GraphicsInit \/ TryInit
           \/ UnsupportedMode \/ SetupMode \/ GraphicsAvailable
  <2>1. /\ ~InMessage /\ ~InMessage'
        /\ UNCHANGED <<machine, back, text, shown, uses, lost>>
        /\ serialAvailable' = serialAvailable \/ machine.ports > 0
    BY <1>9 DEF ProtocolFails, OutOfMemory, SerialInit, GraphicsInit, TryInit, InMessage,
                UnsupportedMode, NextMode, SetupMode, GraphicsAvailable, Goto, setupVars
  <2>2. serialAvailable' => machine.ports # 0
    <3>1. machine.ports > 0 => machine.ports # 0
      OBVIOUS
    <3>2. serialAvailable => machine.ports # 0
      BY DEF OutputInv, MessageInv
    <3> QED BY <2>1, <3>1, <3>2
  <2> QED BY <2>1, <2>2, SetupKeeps
<1>10. CASE UNCHANGED vars
  <2>1. UNCHANGED Outputs /\ UNCHANGED Available /\ UNCHANGED Ports
    BY <1>10 DEF vars, Outputs, Available, Ports
  <2> QED BY <1>10, <2>1 DEF vars, OutputInv, MessageInv, InMessage, Delivered, HalfDelivered,
                             Written
<1> QED BY <1>1, <1>2, <1>3, <1>4, <1>5, <1>6, <1>7, <1>8, <1>9, <1>10 DEF Next, Printing

\* Every output in use gets every message whole, once and in order, and no other output
\* gets any of it (puts_internal(), serial_write(), graphics_write()), whatever ports
\* there are and however few characters one takes at a time.
THEOREM MessagesAreComplete == FairSpec => []OutputComplete
<1>1. Init => MessageInv
  <2> SUFFICES ASSUME Init PROVE MessageInv
    OBVIOUS
  <2>1. ~InMessage /\ text = <<>> /\ uses = {} /\ shown = [o \in Outputs |-> <<>>]
        /\ back = "start" /\ ~serialAvailable /\ pc = "start"
    BY DEF Init, InMessage
  <2>2. text \in Seq({})
    BY <2>1
  <2> QED BY <2>1, <2>2 DEF MessageInv, Delivered, IsText
<1>2. OutputInv /\ [Next]_vars => OutputInv'
  BY SetupStep, MessageInvStep DEF OutputInv
<1>3. OutputInv => OutputComplete
  BY DEF OutputInv, MessageInv, Delivered, OutputComplete
<1>4. Init => OutputInv
  BY <1>1, SetupInit DEF OutputInv
<1> QED BY <1>2, <1>3, <1>4, PTL DEF FairSpec
=============================================================================
