------------------------------ MODULE LineInput ------------------------------
(***************************************************************************)
(* Reading an answer at the prompt: wait_for_boot_entry(),                 *)
(* getline_timeout() and getchar_timeout(), interleaved with somebody who  *)
(* presses keys at any moment and with the firmware's timer, which may     *)
(* expire at any moment.                                                   *)
(***************************************************************************)
EXTENDS Integers, Sequences, SequencesExt

CONSTANTS
  Keys,          \* the keys somebody may press
  MaxKeys,       \* bound on the keys pressed
  MaxCalls,      \* bound on the calls of wait_for_boot_entry()
  Timeouts,      \* values menu_get_timeout() may return, in seconds
  InitialSize,   \* size of a new line buffer, 16 in the code
  Growth,        \* what it grows by, 32 in the code
  LongestNumber, \* digits of the longest numbers an int holds all of, 9
  IntMax,        \* and the int's largest value, 2147483647
  Faults         \* may the firmware refuse an event, a timer or a key?

\* Keys, by what getchar_translate() and the loop make of them: "delete" has no
\* character and scan code 8, "other" has no character isprint() takes.
Digits == {"0", "1", "2"}
Letters == Digits \cup {"x"}
KeyKinds == Letters \cup {"enter", "backspace", "delete", "other"}

ASSUME InputAssumption ==
  /\ Keys \subseteq KeyKinds
  /\ MaxKeys \in Nat /\ MaxCalls \in Nat \ {0}
  /\ Timeouts \subseteq Nat
  /\ InitialSize \in Nat \ {0} /\ Growth \in Nat \ {0}
  /\ LongestNumber \in Nat /\ IntMax \in Nat
  /\ 10 ^ LongestNumber <= IntMax
  /\ Faults \in BOOLEAN

VARIABLES
  pc,        \* where the program is
  timeout,   \* getline_timeout()'s timeout, in seconds
  open,      \* timer events created and not closed
  timer,     \* the last one: "idle", "armed" or "fired"
  ticks,     \* what it was set to, in units of 128 ticks of 100 ns
  presses,   \* keys pressed so far
  pressed,   \* those the firmware holds, not read yet
  typed,     \* those read since the call began
  key,       \* the last one
  buf,       \* the line buffer
  strlen,    \* characters in it
  screen,    \* what the terminal shows behind the prompt
  answer,    \* what wait_for_boot_entry() returned
  calls      \* calls of wait_for_boot_entry() so far

eventVars == <<open, timer, ticks>>
keyVars == <<presses, pressed>>
lineVars == <<typed, key, buf, strlen, screen>>
callVars == <<answer, calls>>
vars == <<pc, timeout, eventVars, keyVars, lineVars, callVars>>

Location == {"getchar", "set", "wait", "key", "eof", "read", "edit", "done",
             "returned", "panic"}

Unanswered == -3
TimedOut == -2
NotANumber == -1

-----------------------------------------------------------------------------
(***************************************************************************)
(* The line buffer: malloc(), realloc() and stores whose index nothing     *)
(* checks.  What malloc() returns holds garbage; a store past the end is   *)
(* lost.                                                                   *)
(***************************************************************************)
NUL == "nul"
Garbage == "garbage"

Malloc(size) == [i \in 0 .. size - 1 |-> Garbage]

Realloc(b, oldSize, size) ==
  [i \in 0 .. size - 1 |-> IF i < oldSize THEN b[i] ELSE Garbage]

Store(b, i, c) == [b EXCEPT ![i] = c]

Size(b) == Cardinality(DOMAIN b)

\* The C string in a buffer.
String(b) ==
  LET ends == {i \in DOMAIN b : b[i] = NUL}
      length == IF ends = {} THEN Size(b) ELSE Min(ends)
  IN  [i \in 1 .. length |-> b[i - 1]]

-----------------------------------------------------------------------------
(***************************************************************************)
(* atou(): digits from the last to the first, -1 for anything else.  Its   *)
(* ints hold the numbers of LongestNumber digits; with more they overflow, *)
(* and the result is whatever the compiler made of it.                     *)
(***************************************************************************)
DigitValue(c) == CASE c = "0" -> 0 [] c = "1" -> 1 [] c = "2" -> 2

AddDigit(sum, c) == [res |-> sum.res + sum.weight * DigitValue(c),
                     weight |-> sum.weight * 10]

Atou(s) ==
  IF s = <<>> \/ \E i \in DOMAIN s : s[i] \notin Digits
    THEN NotANumber
    ELSE FoldLeft(AddDigit, [res |-> 0, weight |-> 1], Reverse(s)).res

AtouValues(s) ==
  IF Len(s) <= LongestNumber \/ Atou(s) = NotANumber
    THEN {Atou(s)}
    ELSE (-IntMax - 1) .. IntMax

-----------------------------------------------------------------------------
(***************************************************************************)
(* getchar_timeout().                                                      *)
(***************************************************************************)

\* timeout * 1000 * 1000 * 10 is computed as an int: from 215 s on it overflows
\* and is whatever the compiler made of it, wrapped or computed wide.  A negative
\* result is converted to a time that never comes.
Product(seconds) == seconds * 78125
IntLimit == 16777216     \* 2 ^ 24
LongestTimeout == 214    \* before that
Wrapped(n) == ((n + IntLimit) % (2 * IntLimit)) - IntLimit
TimerValues(seconds) == {Product(seconds), Wrapped(Product(seconds))}

\* createEvent() for the timer, if there is a timeout.
NeedsTimer == timeout # 0

CreateTimer ==
  /\ pc = "getchar"
  /\ IF NeedsTimer
       THEN pc' = "set" /\ open' = open + 1 /\ timer' = "idle"
       ELSE pc' = "wait" /\ UNCHANGED <<open, timer>>
  /\ UNCHANGED <<timeout, ticks, keyVars, lineVars, callVars>>

SetTimer ==
  /\ pc = "set"
  /\ pc' = "wait"
  /\ timer' = "armed"
  /\ ticks' \in TimerValues(timeout)
  /\ UNCHANGED <<timeout, open, keyVars, lineVars, callVars>>

\* waitForEvent() reports the first of its events that is signalled: the
\* keyboard's, then, if there is one, the timer's.
Bug_OnlyKeyboard == 1
EventNum == IF NeedsTimer THEN 2 ELSE 1

WaitForEvent ==
  /\ pc = "wait"
  /\ \/ pressed # <<>> /\ pc' = "key"
     \/ /\ pressed = <<>>
        /\ EventNum = 2 /\ timer = "fired"
        /\ pc' = "eof"
  /\ UNCHANGED <<timeout, eventVars, keyVars, lineVars, callVars>>

\* closeEvent(), whichever event it was.
Bug_ClosedOnKeyOnly == IF NeedsTimer /\ pc = "key" THEN open - 1 ELSE open
OpenAfterWait == IF NeedsTimer THEN open - 1 ELSE open

CloseEvent ==
  /\ pc \in {"key", "eof"}
  /\ open' = OpenAfterWait
  /\ \/ pc = "key" /\ pc' = "read" /\ UNCHANGED answer
     \/ pc = "eof" /\ pc' = "returned" /\ answer' = TimedOut
  /\ UNCHANGED <<timeout, timer, ticks, keyVars, lineVars, calls>>

\* readKeyStroke(); getline_timeout() goes on without a timeout.
Bug_TimeoutStays == timeout
TimeoutAfterKey == 0

ReadKey ==
  /\ pc = "read"
  /\ pc' = "edit"
  /\ key' = Head(pressed)
  /\ pressed' = Tail(pressed)
  /\ typed' = Append(typed, key')
  /\ timeout' = TimeoutAfterKey
  /\ UNCHANGED <<eventVars, presses, buf, strlen, screen, callVars>>

-----------------------------------------------------------------------------
(***************************************************************************)
(* getline_timeout()'s loop, and its caller.                               *)
(***************************************************************************)
Translated == IF key = "delete" THEN "backspace" ELSE key

\* do ... while (c != '\r' && c != '\n')
Bug_NeverEnds == "getchar"
AfterEdit == IF key = "enter" THEN "done" ELSE "getchar"

Bug_ErasesPrompt == Translated = "backspace"
Erases == Translated = "backspace" /\ strlen > 0

Erase ==
  /\ Erases
  /\ buf' = Store(buf, strlen - 1, NUL)
  /\ strlen' = strlen - 1
  /\ screen' = IF screen = <<>> THEN <<"erased">> ELSE Front(screen)

Ignore ==
  /\ ~Erases
  /\ key \notin Letters
  /\ UNCHANGED <<buf, strlen, screen>>

\* The buffer grows as soon as its last byte would be taken.
Bug_GrowsLate(length) == length > Size(buf)
Full(length) == length = Size(buf)

Insert ==
  /\ key \in Letters
  /\ screen' = Append(screen, key)
  /\ strlen' = strlen + 1
  /\ LET room == IF Full(strlen')
                   THEN Realloc(buf, strlen', Size(buf) + Growth)
                   ELSE buf
     IN  buf' = Store(room, strlen' - 1, key)

Edit ==
  /\ pc = "edit"
  /\ pc' = AfterEdit
  /\ Erase \/ Ignore \/ Insert
  /\ UNCHANGED <<timeout, eventVars, keyVars, typed, key, callVars>>

\* The line is terminated, and wait_for_boot_entry() makes a number of it.
Bug_Unterminated == buf
Terminated == Store(buf, strlen, NUL)

\* return entry >= 0 ? entry : -1
Bug_AnyInt(entry) == entry
Returned(entry) == IF entry >= 0 THEN entry ELSE NotANumber

Finish ==
  /\ pc = "done"
  /\ pc' = "returned"
  /\ buf' = Terminated
  /\ answer' \in {Returned(entry) : entry \in AtouValues(String(buf'))}
  /\ UNCHANGED <<timeout, eventVars, keyVars, typed, key, strlen, screen, calls>>

\* cmdline_loop() asks again, never with a timeout.
CallAgain ==
  /\ pc = "returned"
  /\ calls < MaxCalls
  /\ pc' = "getchar"
  /\ calls' = calls + 1
  /\ timeout' = 0
  /\ answer' = Unanswered
  /\ typed' = <<>>
  /\ buf' = Malloc(InitialSize)
  /\ strlen' = 0
  /\ screen' = <<>>
  /\ UNCHANGED <<eventVars, keyVars, key>>

\* An event, a timer, a wait or a key is refused: panic().
Panic ==
  /\ Faults
  /\ \/ pc \in {"set", "wait", "read"}
     \/ pc = "getchar" /\ NeedsTimer
  /\ pc' = "panic"
  /\ UNCHANGED <<timeout, eventVars, keyVars, lineVars, callVars>>

-----------------------------------------------------------------------------
(***************************************************************************)
(* The keyboard and the clock.                                             *)
(***************************************************************************)
Press ==
  /\ presses < MaxKeys
  /\ presses' = presses + 1
  /\ \E k \in Keys : pressed' = Append(pressed, k)
  /\ UNCHANGED <<pc, timeout, eventVars, lineVars, callVars>>

Expire ==
  /\ open > 0
  /\ timer = "armed"
  /\ ticks >= 0
  /\ timer' = "fired"
  /\ UNCHANGED <<pc, timeout, open, ticks, keyVars, lineVars, callVars>>

-----------------------------------------------------------------------------
Init ==
  /\ pc = "getchar"
  /\ timeout \in Timeouts
  /\ open = 0
  /\ timer = "idle"
  /\ ticks = 0
  /\ presses = 0
  /\ pressed = <<>>
  /\ typed = <<>>
  /\ key = "other"
  /\ buf = Malloc(InitialSize)
  /\ strlen = 0
  /\ screen = <<>>
  /\ answer = Unanswered
  /\ calls = 1

Program ==
  \/ CreateTimer
  \/ SetTimer
  \/ WaitForEvent
  \/ CloseEvent
  \/ ReadKey
  \/ Edit
  \/ Finish
  \/ CallAgain

Next == Program \/ Panic \/ Press \/ Expire

Spec == Init /\ [][Next]_vars

\* The program runs, and so does the clock; nobody has to press a key.
FairSpec == Spec /\ WF_vars(Program) /\ WF_vars(Expire)

-----------------------------------------------------------------------------
(***************************************************************************)
(* Properties.                                                             *)
(***************************************************************************)
TypeOK ==
  /\ pc \in Location
  /\ timeout \in Timeouts \cup {0}
  /\ open \in {0, 1}
  /\ timer \in {"idle", "armed", "fired"}
  /\ ticks \in Int
  /\ presses \in 0 .. MaxKeys
  /\ pressed \in Seq(Keys)
  /\ typed \in Seq(Keys)
  /\ key \in KeyKinds
  /\ DOMAIN buf = 0 .. Size(buf) - 1
  /\ strlen \in 0 .. MaxKeys
  /\ answer \in {Unanswered, TimedOut, NotANumber} \cup Nat
  /\ calls \in 1 .. MaxCalls

\* What editing means: a letter is appended, backspace and delete remove the
\* last letter, nothing else counts.
EditedBy(line, k) ==
  CASE k \in Letters -> Append(line, k)
    [] k \in {"backspace", "delete"} /\ line # <<>> -> Front(line)
    [] OTHER -> line

Edited(keys) == FoldLeft(EditedBy, <<>>, keys)

\* The number a line spells, read from the left.
FollowedBy(n, c) == 10 * n + DigitValue(c)

Spelled(line) ==
  IF line # <<>> /\ ToSet(line) \subseteq Digits
    THEN FoldLeft(FollowedBy, 0, line)
    ELSE NotANumber

Overflows(line) == Len(line) > LongestNumber /\ Spelled(line) # NotANumber

\* The line handed back, and the number made of it, are what the keys typed
\* spell, however long the line and however often the buffer has moved; unless
\* the number has more digits than an int holds.
LineIsTyped ==
  pc = "returned" /\ typed # <<>> =>
    /\ Last(typed) = "enter"
    /\ String(buf) = Edited(typed)
    /\ ~Overflows(Edited(typed)) => answer = Spelled(Edited(typed))

\* There is always room for the terminator, and no byte of the line is one that
\* malloc() left.
RoomForTerminator ==
  /\ strlen < Size(buf)
  /\ \A i \in 0 .. strlen - 1 : buf[i] \in Letters

\* While a key is awaited the terminal shows the line as edited so far: erasing
\* never eats into the prompt.
ScreenShowsLine ==
  pc \in {"getchar", "wait"} => screen = Edited(typed)

\* The countdown runs until the first key of the session, whatever key it is:
\* later no timer is armed and no answer is "timed out", not even that of a number
\* that overflows.  And it runs for the time asked for, as long as an int holds that
\* in ticks.
BeforeTyping == typed = <<>> /\ calls = 1
TimerOnlyBeforeTyping == open > 0 /\ timer # "idle" => BeforeTyping
TimerAsAsked ==
  timer = "armed" /\ timeout \in 1 .. LongestTimeout => ticks = Product(timeout)

CountdownOnlyBeforeTyping ==
  /\ TimerOnlyBeforeTyping
  /\ TimerAsAsked
  /\ answer = TimedOut => BeforeTyping

\* Every timer event is closed before its getchar_timeout() returns.
TimersClosed ==
  pc \in {"getchar", "edit", "done", "returned"} => open = 0

\* The countdown ends by itself, or by a key, unless the firmware refuses a call or
\* an int does not hold its time.
CountdownEnds ==
  (pc = "getchar" /\ timeout \in 1 .. LongestTimeout) ~>
  (pc \in {"returned", "panic"} \/ typed # <<>>)

\* Whoever presses Enter gets an answer, whatever else is pressed before it.
EnterAnswers == Contains(pressed, "enter") ~> pc \in {"returned", "panic"}
=============================================================================
