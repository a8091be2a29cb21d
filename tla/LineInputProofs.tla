--------------------------- MODULE LineInputProofs ---------------------------
(***************************************************************************)
(* Proofs about LineInput, for every set of keys and timeouts, any number  *)
(* of keys and calls and buffers of every size: the line and the number    *)
(* returned are what was typed, the terminal shows it, the line buffer has *)
(* room, timers are closed and the countdown is for the first key only.    *)
(***************************************************************************)
EXTENDS LineInput, FiniteSetTheorems, TLAPS

\* The timer event exists from createEvent() to closeEvent(), and only for a call
\* with a timeout; timeouts are for the first key of the first call.
OpenWhileWaiting ==
  /\ timeout \in Nat /\ calls \in Nat /\ open \in {0, 1}
  /\ pc \in {"getchar", "read", "edit", "done", "returned"} => open = 0
  /\ pc = "set" => open = 1 /\ NeedsTimer
  /\ pc \in {"wait", "key", "eof"} => open = IF NeedsTimer THEN 1 ELSE 0
  /\ open # 0 => NeedsTimer
  /\ pc \in {"edit", "done"} => ~NeedsTimer
  /\ pc = "returned" /\ NeedsTimer => answer = TimedOut

TimeoutForFirstKey == NeedsTimer => BeforeTyping

TimerInv == OpenWhileWaiting /\ TimeoutForFirstKey /\ TimerAsAsked

\* The buffer is an array longer than the line, which consists of letters.
RoomIn(b, length) ==
  \E n \in Nat : /\ DOMAIN b = 0 .. n - 1
                 /\ length < n
                 /\ \A i \in 0 .. length - 1 : b[i] \in Letters

BufferInv == strlen \in Nat /\ RoomIn(buf, strlen)

-----------------------------------------------------------------------------
\* Up to LongestTimeout an int holds the product.
LEMMA ProductFits ==
  ASSUME NEW t \in 1 .. LongestTimeout
  PROVE  \A v \in TimerValues(t) : v = Product(t)
<1>1. t \in Int /\ 1 <= t /\ t <= 214
  BY DEF LongestTimeout
<1> DEFINE n == t * 78125
<1>2. n \in Nat /\ n < 16777216
  BY <1>1, SMT
<1> HIDE DEF n
<1>3. (n + 16777216) % (2 * 16777216) = n + 16777216
  BY <1>2, SMT
<1>4. Wrapped(n) = n
  BY <1>2, <1>3, SMT DEF Wrapped, IntLimit
<1>5. Product(t) = n
  BY SMT DEF Product, n
<1> QED BY <1>4, <1>5 DEF TimerValues

LEMMA TimerInit == Init => TimerInv
<1> SUFFICES ASSUME Init PROVE TimerInv
  OBVIOUS
<1>1. timeout \in Nat
  BY InputAssumption DEF Init
<1> QED BY <1>1 DEF Init, TimerInv, OpenWhileWaiting, TimeoutForFirstKey, TimerAsAsked,
                    BeforeTyping

LEMMA TimerStep == TimerInv /\ [Next]_vars => TimerInv'
<1> SUFFICES ASSUME TimerInv, [Next]_vars PROVE TimerInv'
  OBVIOUS
<1> USE DEF TimerInv, OpenWhileWaiting, TimeoutForFirstKey, TimerAsAsked, BeforeTyping,
            NeedsTimer, eventVars, keyVars, lineVars, callVars
<1>1. CASE CreateTimer
  BY <1>1 DEF CreateTimer
<1>2. CASE SetTimer
  <2>1. timeout \in 1 .. LongestTimeout => ticks' = Product(timeout)
    BY <1>2, ProductFits DEF SetTimer
  <2> QED BY <1>2, <2>1 DEF SetTimer
<1>3. CASE WaitForEvent
  BY <1>3 DEF WaitForEvent
<1>4. CASE CloseEvent
  BY <1>4 DEF CloseEvent, OpenAfterWait
<1>5. CASE ReadKey
  BY <1>5 DEF ReadKey, TimeoutAfterKey, LongestTimeout
<1>6. CASE Edit
  <2>1. pc = "edit" /\ pc' \in {"done", "getchar"} /\ typed' = typed
        /\ UNCHANGED <<timeout, open, timer, ticks, answer, calls>>
    BY <1>6 DEF Edit, AfterEdit
  <2> QED BY <2>1
<1>7. CASE Finish
  <2>1. pc = "done" /\ pc' = "returned" /\ typed' = typed
        /\ UNCHANGED <<timeout, open, timer, ticks, calls>>
    BY <1>7 DEF Finish
  <2> QED BY <2>1
<1>8. CASE CallAgain
  BY <1>8 DEF CallAgain, LongestTimeout
<1>9. CASE Panic
  BY <1>9 DEF Panic
<1>10. CASE Press
  BY <1>10 DEF Press
<1>11. CASE Expire
  BY <1>11 DEF Expire
<1>12. CASE UNCHANGED vars
  BY <1>12 DEF vars
<1> QED BY <1>1, <1>2, <1>3, <1>4, <1>5, <1>6, <1>7, <1>8, <1>9, <1>10, <1>11, <1>12
        DEF Next, Program

-----------------------------------------------------------------------------
LEMMA SizeIsLength ==
  ASSUME NEW b, NEW n \in Nat, DOMAIN b = 0 .. n - 1
  PROVE  Size(b) = n
<1>1. 0 \in Int /\ n - 1 \in Int
  OBVIOUS
<1>2. Cardinality(0 .. n - 1) = IF 0 > n - 1 THEN 0 ELSE n - 1 - 0 + 1
  BY <1>1, FS_Interval
<1> QED BY <1>2 DEF Size

\* A store leaves the rest of the array as it is, and its size.
LEMMA Stored ==
  ASSUME NEW b, NEW n \in Nat, DOMAIN b = 0 .. n - 1, NEW i \in Int, NEW c
  PROVE  /\ DOMAIN Store(b, i, c) = 0 .. n - 1
         /\ \A j \in 0 .. n - 1 : j # i => Store(b, i, c)[j] = b[j]
         /\ i \in 0 .. n - 1 => Store(b, i, c)[i] = c
BY DEF Store

LEMMA NewBufferHasRoom ==
  ASSUME buf' = Malloc(InitialSize), strlen' = 0
  PROVE  BufferInv'
<1>1. InitialSize \in Nat \ {0}
  BY InputAssumption
<1>2. DOMAIN Malloc(InitialSize) = 0 .. InitialSize - 1
  BY DEF Malloc
<1>3. RoomIn(Malloc(InitialSize), 0)
  BY <1>1, <1>2 DEF RoomIn
<1> QED BY <1>3 DEF BufferInv

LEMMA EraseKeeps == ASSUME BufferInv, Erase PROVE BufferInv'
<1>1. PICK n \in Nat : /\ DOMAIN buf = 0 .. n - 1
                       /\ strlen < n
                       /\ \A i \in 0 .. strlen - 1 : buf[i] \in Letters
  BY DEF BufferInv, RoomIn
<1>2. strlen \in Nat /\ strlen > 0 /\ strlen' = strlen - 1
      /\ buf' = Store(buf, strlen - 1, NUL)
  BY DEF BufferInv, Erase, Erases
<1>3. strlen' \in Nat /\ strlen' < n /\ strlen - 1 \in Int
  BY <1>1, <1>2
<1>4. DOMAIN buf' = 0 .. n - 1
  BY <1>1, <1>2 DEF Store
<1>5. ASSUME NEW i \in 0 .. strlen' - 1 PROVE buf'[i] \in Letters
  <2>1. i \in 0 .. n - 1 /\ i # strlen - 1 /\ i \in 0 .. strlen - 1
    BY <1>1, <1>2
  <2>2. i \in DOMAIN buf /\ buf' = [buf EXCEPT ![strlen - 1] = NUL]
    BY <2>1, <1>1, <1>2 DEF Store
  <2>3. buf'[i] = buf[i]
    BY <2>1, <2>2
  <2> QED BY <2>1, <2>3, <1>1
<1> QED BY <1>3, <1>4, <1>5 DEF BufferInv, RoomIn

\* The buffer grows when the new letter would take its last byte, and the letters
\* before it move with it.
LEMMA InsertKeeps == ASSUME BufferInv, Insert PROVE BufferInv'
<1>1. PICK n \in Nat : /\ DOMAIN buf = 0 .. n - 1
                       /\ strlen < n
                       /\ \A i \in 0 .. strlen - 1 : buf[i] \in Letters
  BY DEF BufferInv, RoomIn
<1>2. strlen \in Nat /\ strlen' = strlen + 1 /\ key \in Letters
  BY DEF BufferInv, Insert
<1>3. Size(buf) = n /\ Growth \in Nat \ {0}
  BY <1>1, SizeIsLength, InputAssumption
<1> DEFINE room == IF Full(strlen') THEN Realloc(buf, strlen', Size(buf) + Growth) ELSE buf
<1>4. buf' = Store(room, strlen' - 1, key)
  BY DEF Insert
<1>5. \E m \in Nat : /\ DOMAIN room = 0 .. m - 1 /\ strlen' < m
                     /\ \A i \in 0 .. strlen - 1 : room[i] \in Letters
  <2>1. CASE Full(strlen')
    <3>1. room = [i \in 0 .. n + Growth - 1 |-> IF i < strlen' THEN buf[i] ELSE Garbage]
      BY <2>1, <1>3 DEF Realloc
    <3>2. strlen' < n + Growth /\ n + Growth \in Nat
      BY <1>1, <1>2, <1>3
    <3>3. ASSUME NEW i \in 0 .. strlen - 1 PROVE room[i] \in Letters
      <4>1. i \in 0 .. n + Growth - 1 /\ i < strlen'
        BY <1>1, <1>2, <1>3
      <4> QED BY <4>1, <3>1, <1>1
    <3>4. DOMAIN Realloc(buf, strlen', n + Growth) = 0 .. (n + Growth) - 1
      BY DEF Realloc
    <3>5. room = Realloc(buf, strlen', n + Growth)
      BY <2>1, <1>3
    <3> HIDE DEF room
    <3> QED BY <3>2, <3>3, <3>4, <3>5
  <2>2. CASE ~Full(strlen')
    <3>1. room = buf /\ strlen' # n
      BY <2>2, <1>3 DEF Full
    <3>2. strlen' < n
      BY <1>1, <1>2, <3>1
    <3> QED BY <3>1, <3>2, <1>1
  <2> QED BY <2>1, <2>2
<1> HIDE DEF room
<1>6. PICK m \in Nat : /\ DOMAIN room = 0 .. m - 1 /\ strlen' < m
                       /\ \A i \in 0 .. strlen - 1 : room[i] \in Letters
  BY <1>5
<1>7. strlen' - 1 = strlen /\ strlen \in 0 .. m - 1 /\ strlen \in Int
  BY <1>2, <1>6
<1>8. DOMAIN buf' = 0 .. m - 1
  BY <1>4, <1>6, <1>7, Stored
<1>9. ASSUME NEW i \in 0 .. strlen' - 1 PROVE buf'[i] \in Letters
  <2>1. CASE i = strlen
    BY <2>1, <1>2, <1>4, <1>6, <1>7, Stored
  <2>2. CASE i # strlen
    <3>1. i \in 0 .. strlen - 1 /\ i \in 0 .. m - 1
      BY <2>2, <1>2, <1>6
    <3>2. buf'[i] = room[i]
      BY <2>2, <3>1, <1>4, <1>6, <1>7, Stored
    <3> QED BY <3>1, <3>2, <1>6
  <2> QED BY <2>1, <2>2
<1>10. strlen' \in Nat
  BY <1>2
<1> QED BY <1>6, <1>8, <1>9, <1>10 DEF BufferInv, RoomIn

LEMMA FinishKeeps == ASSUME BufferInv, Finish PROVE BufferInv'
<1>1. PICK n \in Nat : /\ DOMAIN buf = 0 .. n - 1
                       /\ strlen < n
                       /\ \A i \in 0 .. strlen - 1 : buf[i] \in Letters
  BY DEF BufferInv, RoomIn
<1>2. strlen \in Nat /\ strlen' = strlen /\ buf' = Store(buf, strlen, NUL)
  BY DEF BufferInv, Finish, Terminated
<1>3. DOMAIN buf' = 0 .. n - 1
  BY <1>1, <1>2, Stored
<1>4. ASSUME NEW i \in 0 .. strlen - 1 PROVE buf'[i] \in Letters
  <2>1. i \in 0 .. n - 1 /\ i # strlen
    BY <1>1, <1>2
  <2>2. buf'[i] = buf[i]
    BY <2>1, <1>1, <1>2, Stored
  <2> QED BY <2>2, <1>1
<1> QED BY <1>1, <1>2, <1>3, <1>4 DEF BufferInv, RoomIn

LEMMA BufferStep == BufferInv /\ [Next]_vars => BufferInv'
<1> SUFFICES ASSUME BufferInv, [Next]_vars PROVE BufferInv'
  OBVIOUS
<1>1. CASE Edit
  <2>1. CASE Erase
    BY <2>1, EraseKeeps
  <2>2. CASE Ignore
    BY <2>2 DEF Ignore, BufferInv
  <2>3. CASE Insert
    BY <2>3, InsertKeeps
  <2> QED BY <1>1, <2>1, <2>2, <2>3 DEF Edit
<1>2. CASE Finish
  BY <1>2, FinishKeeps
<1>3. CASE CallAgain
  BY <1>3, NewBufferHasRoom DEF CallAgain
<1>4. CASE \/ CreateTimer \/ SetTimer \/ WaitForEvent \/ CloseEvent \/ ReadKey
           \/ Panic \/ Press \/ Expire \/ UNCHANGED vars
  <2>1. UNCHANGED <<buf, strlen>>
    BY <1>4 DEF CreateTimer, SetTimer, WaitForEvent, CloseEvent, ReadKey, Panic, Press,
                Expire, lineVars, vars
  <2> QED BY <2>1 DEF BufferInv
<1> QED BY <1>1, <1>2, <1>3, <1>4 DEF Next, Program

-----------------------------------------------------------------------------
\* No timer event is left when getchar_timeout() has returned, whichever event it was
\* that ended the wait.
THEOREM TimersAreClosed == Spec => []TimersClosed
<1>1. TimerInv => TimersClosed
  BY DEF TimerInv, OpenWhileWaiting, TimersClosed
<1> QED BY <1>1, TimerInit, TimerStep, PTL DEF Spec

\* However long the line gets and however often the buffer moves, the terminator has
\* its place behind the letters.
THEOREM TerminatorHasRoom == Spec => []RoomForTerminator
<1>1. Init => BufferInv
  <2> SUFFICES ASSUME Init PROVE BufferInv
    OBVIOUS
  <2>1. InitialSize \in Nat \ {0} /\ buf = Malloc(InitialSize) /\ strlen = 0
    BY InputAssumption DEF Init
  <2>2. DOMAIN buf = 0 .. InitialSize - 1
    BY <2>1 DEF Malloc
  <2> QED BY <2>1, <2>2 DEF BufferInv, RoomIn
<1>2. BufferInv => RoomForTerminator
  <2> SUFFICES ASSUME BufferInv PROVE RoomForTerminator
    OBVIOUS
  <2>1. PICK n \in Nat : /\ DOMAIN buf = 0 .. n - 1
                         /\ strlen < n
                         /\ \A i \in 0 .. strlen - 1 : buf[i] \in Letters
    BY DEF BufferInv, RoomIn
  <2> QED BY <2>1, SizeIsLength DEF RoomForTerminator
<1> QED BY <1>1, <1>2, BufferStep, PTL DEF Spec
-----------------------------------------------------------------------------
(***************************************************************************)
(* The line.                                                               *)
(***************************************************************************)
Editing == INSTANCE Folding WITH Op <- EditedBy
Reading == INSTANCE Folding WITH Op <- FollowedBy
Adding == INSTANCE Folding WITH Op <- AddDigit

LEMMA EditingFolds == \A base, s : Editing!Fold(base, s) = FoldLeft(EditedBy, base, s)
BY DEF Editing!Fold, FoldLeft, Editing!FoldLeft, MapThenFoldSet, Editing!MapThenFoldSet,
       Max, Editing!Max

LEMMA ReadingFolds == \A base, s : Reading!Fold(base, s) = FoldLeft(FollowedBy, base, s)
BY DEF Reading!Fold, FoldLeft, Reading!FoldLeft, MapThenFoldSet, Reading!MapThenFoldSet,
       Max, Reading!Max

LEMMA AddingFolds == \A base, s : Adding!Fold(base, s) = FoldLeft(AddDigit, base, s)
BY DEF Adding!Fold, FoldLeft, Adding!FoldLeft, MapThenFoldSet, Adding!MapThenFoldSet,
       Max, Adding!Max

\* Editing, key by key.
LEMMA EditedIsLine ==
  /\ Edited(<< >>) = << >>
  /\ \A keys \in Seq(Keys) :
       /\ Edited(keys) \in Seq(Letters)
       /\ \A k \in Keys : Edited(Append(keys, k)) = EditedBy(Edited(keys), k)
<1>1. Edited(<< >>) = << >>
  BY Editing!FoldEmpty, EditingFolds DEF Edited
<1>2. ASSUME NEW line \in Seq(Letters), NEW k \in Keys
      PROVE  EditedBy(line, k) \in Seq(Letters)
  <2>1. CASE k \in Letters
    BY <2>1 DEF EditedBy, Letters, Digits
  <2>2. CASE k \notin Letters /\ k \in {"backspace", "delete"} /\ line # << >>
    BY <2>2 DEF EditedBy, Front
  <2>3. CASE k \notin Letters /\ ~(k \in {"backspace", "delete"} /\ line # << >>)
    BY <2>3 DEF EditedBy
  <2> QED BY <2>1, <2>2, <2>3
<1>3. ASSUME NEW keys \in Seq(Keys) PROVE Edited(keys) \in Seq(Letters)
  <2>1. << >> \in Seq(Letters)
    OBVIOUS
  <2> QED BY <1>2, <2>1, Editing!FoldKeeps, EditingFolds DEF Edited
<1>4. ASSUME NEW keys \in Seq(Keys), NEW k \in Keys
      PROVE  Edited(Append(keys, k)) = EditedBy(Edited(keys), k)
  BY Editing!FoldAppend, EditingFolds DEF Edited
<1> QED BY <1>1, <1>3, <1>4

LEMMA DigitIsNumber == \A c \in Digits : DigitValue(c) \in Nat
BY DEF Digits, DigitValue

\* Adding up the digits from the last to the first gives the number that they spell
\* from the first to the last: what is added up of the last k digits, and what the
\* others spell with the weight reached, are the number throughout.
LEMMA DigitsAddUp ==
  ASSUME NEW s \in Seq(Digits)
  PROVE  /\ FoldLeft(AddDigit, [res |-> 0, weight |-> 1], Reverse(s)).res
              = FoldLeft(FollowedBy, 0, s)
         /\ FoldLeft(FollowedBy, 0, s) \in Nat
<1> DEFINE n == Len(s)
           r == Reverse(s)
<1>1. n \in Nat /\ r \in Seq(Digits) /\ Len(r) = n
      /\ \A k \in 1 .. n : r[k] = s[n - k + 1]
  BY DEF Reverse
<1>2. PICK g : Reading!Steps(g, 0, s) /\ FoldLeft(FollowedBy, 0, s) = g[n]
  BY Reading!FoldSteps, ReadingFolds
<1> HIDE DEF r
<1>3. PICK h : Adding!Steps(h, [res |-> 0, weight |-> 1], r)
               /\ FoldLeft(AddDigit, [res |-> 0, weight |-> 1], r) = h[n]
  BY <1>1, Adding!FoldSteps, AddingFolds
<1>4. \A k \in 0 .. n : g[k] \in Nat
  <2> DEFINE T == {k \in 0 .. n : g[k] \in Nat}
  <2>1. 0 \in T
    BY <1>1, <1>2 DEF Reading!Steps
  <2>2. ASSUME NEW k \in 0 .. n - 1, k \in T PROVE k + 1 \in T
    <3>1. k + 1 \in 1 .. n /\ (k + 1) - 1 = k /\ k + 1 \in 0 .. n /\ s[k + 1] \in Digits
      BY <1>1
    <3>2. g[k + 1] = 10 * g[k] + DigitValue(s[k + 1])
      BY <1>2, <3>1 DEF Reading!Steps, FollowedBy
    <3>3. DigitValue(s[k + 1]) \in Nat /\ g[k] \in Nat
      BY <2>2, <3>1, DigitIsNumber
    <3> QED BY <3>1, <3>2, <3>3
  <2> HIDE DEF T
  <2>3. \A k \in 0 .. n : k \in T
    BY <1>1, <2>1, <2>2, Reading!BoundedInduction
  <2> QED BY <2>3 DEF T
<1> DEFINE Sums == [res : Nat, weight : Nat]
           T == {k \in 0 .. n : h[k] \in Sums /\ g[n] = g[n - k] * h[k].weight + h[k].res}
<1>5. 0 \in T
  <2>1. h[0] = [res |-> 0, weight |-> 1]
    BY <1>3 DEF Adding!Steps
  <2>2. n - 0 = n /\ n \in 0 .. n /\ g[n] \in Nat
    BY <1>1, <1>4
  <2> QED BY <1>1, <2>1, <2>2
<1>6. ASSUME NEW k \in 0 .. n - 1, k \in T PROVE k + 1 \in T
  <2>1. k + 1 \in 1 .. n /\ (k + 1) - 1 = k /\ k + 1 \in 0 .. n
        /\ n - k \in 1 .. n /\ n - k \in 0 .. n /\ n - (k + 1) \in 0 .. n
        /\ (n - k) - 1 = n - (k + 1) /\ n - (k + 1) + 1 = n - k
    BY <1>1
  <2> DEFINE d == DigitValue(s[n - k])
             rest == g[n - (k + 1)]
             w == h[k].weight
             v == h[k].res
  <2>2. r[k + 1] = s[n - k] /\ s[n - k] \in Digits /\ d \in Nat
    <3>1. n - (k + 1) + 1 = n - k /\ r[k + 1] = s[n - (k + 1) + 1]
      BY <1>1, <2>1
    <3>2. s[n - k] \in Digits
      BY <2>1
    <3> QED BY <3>1, <3>2, DigitIsNumber
  <2>3. g[n - k] = 10 * rest + d
    BY <1>2, <2>1 DEF Reading!Steps, FollowedBy
  <2>4. h[k + 1] = [res |-> v + w * d, weight |-> w * 10]
    BY <1>1, <1>3, <2>1, <2>2 DEF Adding!Steps, AddDigit
  <2>5. rest \in Nat /\ w \in Nat /\ v \in Nat /\ g[n] = g[n - k] * w + v
    BY <1>4, <1>6, <2>1
  <2>6. v + w * d \in Nat /\ w * 10 \in Nat
    <3> HIDE DEF d, w, v
    <3> QED BY <2>2, <2>5
  <2>7. g[n] = rest * (w * 10) + (v + w * d)
    <3> HIDE DEF d, w, v, rest
    <3>1. g[n] = (10 * rest + d) * w + v
      BY <2>3, <2>5
    <3> QED BY <2>2, <2>5, <3>1
  <2> HIDE DEF d, w, v, rest
  <2>8. h[k + 1] \in Sums /\ h[k + 1].res = v + w * d /\ h[k + 1].weight = w * 10
    BY <2>4, <2>6
  <2> QED BY <2>1, <2>7, <2>8 DEF rest
<1> HIDE DEF T
<1>7. \A k \in 0 .. n : k \in T
  BY <1>1, <1>5, <1>6, Reading!BoundedInduction
<1>8. n \in T /\ n - n = 0 /\ g[0] = 0 /\ n \in 0 .. n
  BY <1>1, <1>2, <1>7 DEF Reading!Steps
<1>9. h[n] \in Sums /\ g[n] = 0 * h[n].weight + h[n].res
  BY <1>8 DEF T
<1>10. h[n].weight \in Nat /\ h[n].res \in Nat
  BY <1>9
<1>11. h[n].res = g[n]
  BY <1>9, <1>10
<1> QED BY <1>2, <1>3, <1>4, <1>8, <1>11 DEF r

\* atou() is right about every line.
LEMMA AtouIsSpelled ==
  ASSUME NEW s \in Seq(Letters)
  PROVE  Atou(s) = Spelled(s) /\ Spelled(s) \in Nat \cup {NotANumber}
<1>1. CASE s = << >>
  BY <1>1 DEF Atou, Spelled
<1>2. CASE s # << >> /\ \E i \in DOMAIN s : s[i] \notin Digits
  BY <1>2 DEF Atou, Spelled, ToSet
<1>3. CASE s # << >> /\ \A i \in DOMAIN s : s[i] \in Digits
  <2>1. s \in Seq(Digits) /\ ToSet(s) \subseteq Digits
    BY <1>3 DEF ToSet
  <2> QED BY <1>3, <2>1, DigitsAddUp DEF Atou, Spelled
<1> QED BY <1>1, <1>2, <1>3

\* The C string of a terminated line.
LEMMA StringOfLine ==
  ASSUME NEW line \in Seq(Letters), NEW b, NEW n \in Nat, DOMAIN b = 0 .. n - 1,
         Len(line) < n, b[Len(line)] = NUL,
         \A i \in 1 .. Len(line) : b[i - 1] = line[i]
  PROVE  String(b) = line
<1> DEFINE l == Len(line)
           ends == {i \in DOMAIN b : b[i] = NUL}
<1>1. l \in Nat /\ l \in ends
  OBVIOUS
<1>2. ASSUME NEW i \in ends PROVE l <= i
  <2> SUFFICES ASSUME i < l PROVE FALSE
    BY <1>1
  <2>1. i \in 0 .. n - 1 /\ i + 1 \in 1 .. l /\ (i + 1) - 1 = i
    BY <1>1
  <2>2. b[i] \in Letters
    BY <2>1
  <2> QED BY <2>2 DEF NUL, Letters, Digits
<1>3. Min(ends) = l
  <2>1. \E m \in ends : \A i \in ends : m <= i
    BY <1>1, <1>2
  <2>2. Min(ends) \in ends /\ \A i \in ends : Min(ends) <= i
    BY <2>1 DEF Min
  <2>3. Min(ends) \in Int
    BY <2>2
  <2> HIDE DEF ends
  <2> QED BY <1>1, <1>2, <2>2, <2>3
<1>4. String(b) = [i \in 1 .. l |-> b[i - 1]]
  BY <1>1, <1>3 DEF String
<1>5. line = [i \in 1 .. l |-> line[i]]
  OBVIOUS
<1> QED BY <1>4, <1>5

-----------------------------------------------------------------------------
\* The buffer holds a line, and the terminal shows it.
HoldsIn(line, b, length, display) ==
  /\ line \in Seq(Letters)
  /\ length = Len(line)
  /\ display = line
  /\ \A i \in 1 .. Len(line) : b[i - 1] = line[i]

Holds(line) == HoldsIn(line, buf, strlen, screen)

\* Between a key and its editing the line is that of the keys before.
LineAsTyped ==
  /\ typed \in Seq(Keys)
  /\ pc # "edit" => Holds(Edited(typed))
  /\ pc = "edit" => \E before \in Seq(Keys) : /\ typed = Append(before, key)
                                              /\ key \in Keys
                                              /\ Holds(Edited(before))
  /\ pc = "done" => typed # <<>> /\ Last(typed) = "enter"

\* What wait_for_boot_entry() has returned.
Answers(line) == {Returned(entry) : entry \in AtouValues(line)}

AnswerInv ==
  /\ answer \in {Unanswered, TimedOut, NotANumber} \cup Nat
  /\ pc # "returned" => answer = Unanswered
  /\ pc = "returned" /\ typed = <<>> => answer = TimedOut /\ BeforeTyping
  /\ pc = "returned" /\ typed # <<>> =>
       /\ Last(typed) = "enter"
       /\ String(buf) = Edited(typed)
       /\ answer \in Answers(Edited(typed))

\* No more has been typed than was pressed.
KeysInv ==
  /\ pressed \in Seq(Keys)
  /\ key \in KeyKinds
  /\ presses \in 0 .. MaxKeys
  /\ strlen \in Nat
  /\ pc = "key" \/ pc = "read" => pressed # <<>>
  /\ strlen + Len(pressed) + (IF pc = "edit" THEN 1 ELSE 0) <= presses
  /\ pc = "eof" => NeedsTimer

LineInv == BufferInv /\ TimerInv /\ LineAsTyped /\ AnswerInv /\ KeysInv

\* A number that overflows, too, comes back as one of an entry or as none.
LEMMA AnswersAreNumbers ==
  ASSUME NEW line \in Seq(Letters)
  PROVE  Answers(line) \subseteq {NotANumber} \cup Nat
<1>1. \A entry \in Int : Returned(entry) \in {NotANumber} \cup Nat
  BY DEF Returned
<1>2. Atou(line) \in Int
  BY AtouIsSpelled DEF NotANumber
<1>3. (-IntMax - 1) .. IntMax \subseteq Int
  BY InputAssumption
<1>4. AtouValues(line) \subseteq Int
  BY <1>2, <1>3 DEF AtouValues
<1> QED BY <1>1, <1>4 DEF Answers

\* A line as it is changed: one letter more, or the last one less.
LEMMA LetterAppended ==
  ASSUME NEW line \in Seq(Letters), NEW c \in Letters
  PROVE  /\ Append(line, c) \in Seq(Letters)
         /\ Len(Append(line, c)) = Len(line) + 1
         /\ \A i \in 1 .. Len(line) : Append(line, c)[i] = line[i]
         /\ Append(line, c)[Len(line) + 1] = c
OBVIOUS

LEMMA LetterRemoved ==
  ASSUME NEW line \in Seq(Letters), line # << >>
  PROVE  /\ Front(line) \in Seq(Letters)
         /\ Len(Front(line)) = Len(line) - 1
         /\ \A i \in 1 .. Len(line) - 1 : Front(line)[i] = line[i]
BY DEF Front

\* What a letter, a backspace or another key makes of the line, it makes of the buffer
\* and of the screen.
LEMMA EditHolds ==
  ASSUME BufferInv, Erase \/ Ignore \/ Insert,
         NEW line, Holds(line), key \in KeyKinds
  PROVE  HoldsIn(EditedBy(line, key), buf', strlen', screen')
<1>1. line \in Seq(Letters) /\ strlen = Len(line) /\ screen = line
      /\ \A i \in 1 .. Len(line) : buf[i - 1] = line[i]
  BY DEF Holds, HoldsIn
<1>2. PICK n \in Nat : DOMAIN buf = 0 .. n - 1 /\ strlen < n
  BY DEF BufferInv, RoomIn
<1>3. strlen \in Nat /\ (strlen = 0 <=> line = << >>)
  BY <1>1
<1> DEFINE new == EditedBy(line, key)
<1>4. CASE Erase
  <2>1. line # << >> /\ key \notin Letters /\ key \in {"backspace", "delete"} /\ strlen > 0
    BY <1>3, <1>4 DEF Erase, Erases, Translated, Letters, Digits
  <2>2. new = Front(line)
    BY <2>1 DEF EditedBy
  <2>3. strlen' = strlen - 1 /\ screen' = Front(line) /\ buf' = Store(buf, strlen - 1, NUL)
    BY <1>1, <1>4, <2>1 DEF Erase
  <2>4. ASSUME NEW i \in 1 .. Len(line) - 1 PROVE buf'[i - 1] = line[i]
    <3>1. i - 1 \in 0 .. n - 1 /\ i - 1 # strlen - 1 /\ strlen - 1 \in Int
          /\ i \in 1 .. Len(line)
      BY <1>1, <1>2
    <3> QED BY <1>1, <1>2, <2>3, <3>1, Stored
  <2>5. Front(line) \in Seq(Letters) /\ Len(Front(line)) = Len(line) - 1
        /\ \A i \in 1 .. Len(line) - 1 : Front(line)[i] = line[i]
    BY <1>1, <2>1, LetterRemoved
  <2> DEFINE rest == Front(line)
  <2> HIDE DEF new, rest
  <2>6. HoldsIn(rest, buf', strlen', screen')
    BY <1>1, <2>3, <2>4, <2>5 DEF HoldsIn, rest
  <2> QED BY <2>2, <2>6 DEF new, rest
<1>5. CASE Ignore
  <2>1. new = line
    BY <1>3, <1>5, <1>1 DEF Ignore, Erases, Translated, EditedBy
  <2>2. UNCHANGED <<buf, strlen, screen>>
    BY <1>5 DEF Ignore
  <2> HIDE DEF new
  <2> QED BY <2>1, <2>2, <1>1 DEF HoldsIn, new
<1>6. CASE Insert
  <2>1. new = Append(line, key) /\ key \in Letters
    BY <1>6 DEF Insert, EditedBy, Letters, Digits
  <2> DEFINE room == IF Full(strlen') THEN Realloc(buf, strlen', Size(buf) + Growth) ELSE buf
  <2>2. strlen' = strlen + 1 /\ screen' = Append(line, key)
        /\ buf' = Store(room, strlen' - 1, key)
    BY <1>1, <1>6 DEF Insert
  <2>3. Size(buf) = n /\ Growth \in Nat \ {0}
    BY <1>2, SizeIsLength, InputAssumption
  <2>4. PICK m \in Nat : /\ DOMAIN room = 0 .. m - 1 /\ strlen < m
                         /\ \A i \in 0 .. strlen - 1 : room[i] = buf[i]
    <3>1. CASE Full(strlen')
      <4>1. room = [i \in 0 .. n + Growth - 1 |-> IF i < strlen' THEN buf[i] ELSE Garbage]
        BY <2>3, <3>1 DEF Realloc
      <4> HIDE DEF room
      <4>2. DOMAIN room = 0 .. (n + Growth) - 1 /\ n + Growth \in Nat
            /\ strlen < n + Growth
        BY <1>2, <1>3, <2>3, <4>1
      <4>3. ASSUME NEW i \in 0 .. strlen - 1 PROVE room[i] = buf[i]
        <5>1. i \in 0 .. n + Growth - 1 /\ i < strlen'
          BY <1>2, <1>3, <2>2, <2>3
        <5> QED BY <4>1, <5>1
      <4> QED BY <4>2, <4>3
    <3>2. CASE ~Full(strlen')
      BY <1>2, <3>2
    <3> QED BY <3>1, <3>2
  <2> HIDE DEF room, new
  <2>5. strlen' - 1 = strlen /\ strlen \in 0 .. m - 1 /\ strlen \in Int
    BY <1>3, <2>2, <2>4
  <2>6. ASSUME NEW i \in 1 .. Len(line) + 1 PROVE buf'[i - 1] = Append(line, key)[i]
    <3>1. CASE i = Len(line) + 1
      <4>1. i - 1 = strlen
        BY <1>1, <3>1
      <4>2. buf'[strlen] = key
        BY <2>2, <2>4, <2>5, Stored
      <4> QED BY <1>1, <2>1, <3>1, <4>1, <4>2, LetterAppended
    <3>2. CASE i # Len(line) + 1
      <4>1. i \in 1 .. Len(line) /\ i - 1 \in 0 .. strlen - 1 /\ i - 1 \in 0 .. m - 1
            /\ i - 1 # strlen
        BY <1>1, <1>3, <2>4, <3>2
      <4>2. buf'[i - 1] = room[i - 1]
        BY <2>2, <2>4, <2>5, <4>1, Stored
      <4>3. Append(line, key)[i] = line[i]
        BY <1>1, <2>1, <4>1, LetterAppended
      <4> QED BY <1>1, <2>4, <4>1, <4>2, <4>3
    <3> QED BY <3>1, <3>2
  <2> QED BY <1>1, <2>1, <2>2, <2>6, LetterAppended DEF HoldsIn, new
<1> QED BY <1>4, <1>5, <1>6

\* One key: the three steps between two lines.
LEMMA ReadKeyKeeps == ASSUME LineInv, ReadKey PROVE LineAsTyped' /\ AnswerInv' /\ KeysInv'
<1>1. /\ pc = "read" /\ pc' = "edit"
      /\ key' = Head(pressed) /\ pressed' = Tail(pressed)
      /\ typed' = Append(typed, key')
      /\ UNCHANGED <<presses, buf, strlen, screen, answer, calls>>
  BY DEF ReadKey, callVars
<1>2. pressed \in Seq(Keys) /\ pressed # << >> /\ typed \in Seq(Keys)
  BY <1>1 DEF LineInv, KeysInv, LineAsTyped
<1>3. key' \in Keys /\ pressed' \in Seq(Keys) /\ Len(pressed') = Len(pressed) - 1
      /\ Len(pressed) \in Nat
  BY <1>1, <1>2
<1>4. typed' \in Seq(Keys)
  BY <1>1, <1>2, <1>3
<1>5. Holds(Edited(typed))
  BY <1>1 DEF LineInv, LineAsTyped
<1>6. \E before \in Seq(Keys) : /\ typed' = Append(before, key')
                                /\ key' \in Keys
                                /\ HoldsIn(Edited(before), buf', strlen', screen')
  BY <1>1, <1>2, <1>3, <1>5 DEF Holds
<1>7. LineAsTyped'
  BY <1>1, <1>4, <1>6 DEF LineAsTyped, Holds
<1>8. KeysInv'
  BY <1>1, <1>2, <1>3, InputAssumption DEF LineInv, KeysInv
<1>9. AnswerInv'
  BY <1>1 DEF LineInv, AnswerInv
<1> QED BY <1>7, <1>8, <1>9

LEMMA EditKeeps == ASSUME LineInv, Edit PROVE LineAsTyped' /\ AnswerInv' /\ KeysInv'
<1>1. /\ pc = "edit"
      /\ pc' = IF key = "enter" THEN "done" ELSE "getchar"
      /\ Erase \/ Ignore \/ Insert
      /\ UNCHANGED <<presses, pressed, typed, key, answer, calls>>
  BY DEF Edit, AfterEdit, keyVars, callVars
<1>2. PICK before \in Seq(Keys) : /\ typed = Append(before, key)
                                  /\ key \in Keys
                                  /\ Holds(Edited(before))
  BY <1>1 DEF LineInv, LineAsTyped
<1>3. Edited(typed) = EditedBy(Edited(before), key)
  BY <1>2, EditedIsLine
<1>4. HoldsIn(EditedBy(Edited(before), key), buf', strlen', screen')
  <2>1. key \in KeyKinds /\ BufferInv
    BY DEF LineInv, KeysInv
  <2> DEFINE line == Edited(before)
  <2>2. Holds(line)
    BY <1>2
  <2> HIDE DEF line
  <2>3. HoldsIn(EditedBy(line, key), buf', strlen', screen')
    BY <1>1, <2>1, <2>2, EditHolds
  <2> QED BY <2>3 DEF line
<1>5. Holds(Edited(typed))'
  BY <1>1, <1>3, <1>4 DEF Holds
<1>6. typed # << >> /\ Last(typed) = key
  BY <1>2 DEF Last
<1>7. LineAsTyped'
  BY <1>1, <1>5, <1>6 DEF LineInv, LineAsTyped
<1>8. strlen' \in Nat /\ strlen' <= strlen + 1
  BY <1>1 DEF LineInv, KeysInv, Erase, Erases, Ignore, Insert
<1>9. KeysInv'
  <2>1. Len(pressed) \in Nat /\ presses \in Nat
    BY InputAssumption DEF LineInv, KeysInv
  <2> QED BY <1>1, <1>8, <2>1 DEF LineInv, KeysInv
<1>10. AnswerInv'
  BY <1>1 DEF LineInv, AnswerInv
<1> QED BY <1>7, <1>9, <1>10

LEMMA FinishKeepsLine ==
  ASSUME LineInv, Finish PROVE LineAsTyped' /\ AnswerInv' /\ KeysInv'
<1>1. /\ pc = "done" /\ pc' = "returned"
      /\ buf' = Store(buf, strlen, NUL)
      /\ answer' \in Answers(String(buf'))
      /\ UNCHANGED <<presses, pressed, typed, key, strlen, screen, calls>>
  BY DEF Finish, Terminated, keyVars, Answers
<1> DEFINE line == Edited(typed)
<1>2. line \in Seq(Letters) /\ strlen = Len(line) /\ screen = line
      /\ \A i \in 1 .. Len(line) : buf[i - 1] = line[i]
  BY <1>1 DEF LineInv, LineAsTyped, Holds, HoldsIn
<1>3. PICK n \in Nat : DOMAIN buf = 0 .. n - 1 /\ strlen < n
  BY DEF LineInv, BufferInv, RoomIn
<1> HIDE DEF line
<1>4. strlen \in 0 .. n - 1 /\ strlen \in Int
  BY <1>2, <1>3
<1>5. DOMAIN buf' = 0 .. n - 1 /\ buf'[strlen] = NUL
  BY <1>1, <1>3, <1>4, Stored
<1>6. ASSUME NEW i \in 1 .. Len(line) PROVE buf'[i - 1] = line[i]
  <2>1. i - 1 \in 0 .. n - 1 /\ i - 1 # strlen
    BY <1>2, <1>3
  <2> QED BY <1>1, <1>2, <1>3, <1>4, <2>1, Stored
<1>7. String(buf') = line
  BY <1>2, <1>3, <1>5, <1>6, StringOfLine
<1>8. LineAsTyped'
  <2>1. Holds(line)'
    BY <1>1, <1>2, <1>6 DEF Holds, HoldsIn, line
  <2> QED BY <1>1, <2>1 DEF LineInv, LineAsTyped, line
<1>9. AnswerInv'
  <2>1. answer' \in Answers(line)
    BY <1>1, <1>7
  <2>2. answer' \in {NotANumber} \cup Nat
    BY <1>2, <2>1, AnswersAreNumbers
  <2>3. typed # << >> /\ Last(typed) = "enter"
    BY <1>1 DEF LineInv, LineAsTyped
  <2> QED BY <1>1, <1>7, <2>1, <2>2, <2>3 DEF AnswerInv, line
<1>10. KeysInv'
  BY <1>1 DEF LineInv, KeysInv
<1> QED BY <1>8, <1>9, <1>10

\* A new line, as the program starts and for each further call.
LEMMA NewLineHolds == \A b : HoldsIn(Edited(<< >>), b, 0, << >>)
<1>1. Edited(<< >>) = << >>
  BY EditedIsLine
<1>2. << >> \in Seq(Letters) /\ Len(<< >>) = 0 /\ \A i \in 1 .. 0 : FALSE
  OBVIOUS
<1> QED BY <1>1, <1>2 DEF HoldsIn

LEMMA CallAgainKeeps ==
  ASSUME LineInv, CallAgain PROVE LineAsTyped' /\ AnswerInv' /\ KeysInv'
<1>1. /\ pc = "returned" /\ pc' = "getchar" /\ answer' = Unanswered
      /\ typed' = << >> /\ strlen' = 0 /\ screen' = << >>
      /\ UNCHANGED <<presses, pressed, key>>
  BY DEF CallAgain, keyVars
<1>2. HoldsIn(Edited(typed'), buf', strlen', screen')
  BY <1>1, NewLineHolds
<1>3. typed' \in Seq(Keys)
  BY <1>1
<1>4. LineAsTyped'
  BY <1>1, <1>2, <1>3 DEF LineAsTyped, Holds
<1>5. Len(pressed) \in Nat /\ presses \in Nat
  BY InputAssumption DEF LineInv, KeysInv
<1> QED BY <1>1, <1>4, <1>5 DEF LineInv, AnswerInv, KeysInv, Unanswered

LEMMA PressKeeps == ASSUME LineInv, Press PROVE LineAsTyped' /\ AnswerInv' /\ KeysInv'
<1>1. /\ presses < MaxKeys /\ presses' = presses + 1
      /\ UNCHANGED <<pc, timeout, typed, key, buf, strlen, screen, answer, calls>>
  BY DEF Press, lineVars, callVars
<1>2. PICK k \in Keys : pressed' = Append(pressed, k)
  BY DEF Press
<1>3. pressed' \in Seq(Keys) /\ Len(pressed') = Len(pressed) + 1 /\ pressed' # << >>
      /\ Len(pressed) \in Nat
  BY <1>2 DEF LineInv, KeysInv
<1>4. LineAsTyped'
  BY <1>1 DEF LineInv, LineAsTyped, Holds, HoldsIn
<1>5. AnswerInv'
  BY <1>1 DEF LineInv, AnswerInv, BeforeTyping
<1>6. KeysInv'
  BY <1>1, <1>3, InputAssumption DEF LineInv, KeysInv, NeedsTimer
<1> QED BY <1>4, <1>5, <1>6

\* The countdown is over: nothing has been typed.
LEMMA CloseEventKeeps ==
  ASSUME LineInv, CloseEvent PROVE LineAsTyped' /\ AnswerInv' /\ KeysInv'
<1>1. UNCHANGED <<timeout, presses, pressed, typed, key, buf, strlen, screen, calls>>
  BY DEF CloseEvent, keyVars, lineVars
<1>2. LineAsTyped' /\ KeysInv'
  BY <1>1 DEF CloseEvent, LineInv, LineAsTyped, Holds, HoldsIn, KeysInv
<1>3. AnswerInv'
  <2>1. CASE pc = "key" /\ pc' = "read" /\ answer' = answer
    BY <1>1, <2>1 DEF LineInv, AnswerInv
  <2>2. CASE pc = "eof" /\ pc' = "returned" /\ answer' = TimedOut
    <3>1. BeforeTyping
      BY <2>2 DEF LineInv, KeysInv, TimerInv, TimeoutForFirstKey
    <3> QED BY <1>1, <2>2, <3>1 DEF AnswerInv, BeforeTyping, TimedOut
  <2> QED BY <2>1, <2>2 DEF CloseEvent
<1> QED BY <1>2, <1>3

LEMMA LineStep == LineInv /\ [Next]_vars => LineInv'
<1> SUFFICES ASSUME LineInv, [Next]_vars PROVE LineInv'
  OBVIOUS
<1>1. BufferInv' /\ TimerInv'
  BY BufferStep, TimerStep DEF LineInv
<1>2. CASE ReadKey
  BY <1>1, <1>2, ReadKeyKeeps DEF LineInv
<1>3. CASE Edit
  BY <1>1, <1>3, EditKeeps DEF LineInv
<1>4. CASE Finish
  BY <1>1, <1>4, FinishKeepsLine DEF LineInv
<1>5. CASE CallAgain
  BY <1>1, <1>5, CallAgainKeeps DEF LineInv
<1>6. CASE Press
  BY <1>1, <1>6, PressKeeps DEF LineInv
<1>7. CASE CloseEvent
  BY <1>1, <1>7, CloseEventKeeps DEF LineInv
<1>8. CASE \/ CreateTimer \/ SetTimer \/ WaitForEvent \/ Panic \/ Expire \/ UNCHANGED vars
  <2>1. UNCHANGED <<timeout, presses, pressed, typed, key, buf, strlen, screen, answer, calls>>
    BY <1>8 DEF CreateTimer, SetTimer, WaitForEvent, Panic, Expire, vars, keyVars, lineVars,
                callVars
  <2>2. \/ pc' = pc
        \/ pc \in {"getchar", "set", "wait", "read"} /\ pc' \in {"set", "wait", "panic"}
        \/ pc = "wait" /\ pc' = "key" /\ pressed # << >>
        \/ pc = "wait" /\ pc' = "eof" /\ NeedsTimer
    BY <1>8 DEF CreateTimer, SetTimer, WaitForEvent, Panic, Expire, vars, EventNum
  <2>3. LineAsTyped'
    BY <2>1, <2>2 DEF LineInv, LineAsTyped, Holds, HoldsIn
  <2>4. AnswerInv'
    BY <2>1, <2>2 DEF LineInv, AnswerInv, BeforeTyping
  <2>5. KeysInv'
    BY <2>1, <2>2 DEF LineInv, KeysInv, NeedsTimer
  <2> QED BY <1>1, <2>3, <2>4, <2>5 DEF LineInv
<1> QED BY <1>2, <1>3, <1>4, <1>5, <1>6, <1>7, <1>8 DEF Next, Program

LEMMA LineInit == Init => LineInv
<1> SUFFICES ASSUME Init PROVE LineInv
  OBVIOUS
<1>1. InitialSize \in Nat \ {0} /\ buf = Malloc(InitialSize) /\ strlen = 0
  BY InputAssumption DEF Init
<1>2. DOMAIN buf = 0 .. InitialSize - 1
  BY <1>1 DEF Malloc
<1>3. BufferInv
  BY <1>1, <1>2 DEF BufferInv, RoomIn
<1>4. HoldsIn(Edited(typed), buf, strlen, screen) /\ typed \in Seq(Keys)
  BY NewLineHolds DEF Init
<1>5. LineAsTyped
  BY <1>4 DEF Init, LineAsTyped, Holds
<1>6. KeysInv
  BY <1>1, InputAssumption DEF Init, KeysInv, KeyKinds
<1>7. AnswerInv
  BY DEF Init, AnswerInv, Unanswered
<1> QED BY <1>3, <1>5, <1>6, <1>7, TimerInit DEF LineInv

THEOREM LineInvariant == Spec => []LineInv
BY LineInit, LineStep, PTL DEF Spec

\* The line handed back is what the keys typed spell, and so is the number, whatever
\* is typed and erased and however often the buffer has moved (getline_timeout(),
\* atou()).
THEOREM LineReturnedIsTyped == Spec => []LineIsTyped
<1>1. LineInv => LineIsTyped
  <2> SUFFICES ASSUME LineInv, pc = "returned", typed # <<>>
               PROVE  /\ Last(typed) = "enter"
                      /\ String(buf) = Edited(typed)
                      /\ ~Overflows(Edited(typed)) => answer = Spelled(Edited(typed))
    BY DEF LineIsTyped
  <2> DEFINE line == Edited(typed)
  <2>1. Last(typed) = "enter" /\ String(buf) = line /\ answer \in Answers(line)
    BY DEF LineInv, AnswerInv
  <2>2. line \in Seq(Letters)
    BY EditedIsLine DEF LineInv, LineAsTyped
  <2> HIDE DEF line
  <2>3. /\ Atou(line) = Spelled(line) /\ Spelled(line) \in Nat \cup {NotANumber}
        /\ Len(line) \in Nat
    BY <2>2, AtouIsSpelled
  <2>4. ASSUME ~Overflows(line) PROVE answer = Spelled(line)
    <3>1. AtouValues(line) = {Spelled(line)}
      BY <2>3, <2>4, InputAssumption DEF Overflows, AtouValues
    <3>2. Returned(Spelled(line)) = Spelled(line)
      BY <2>3 DEF Returned, NotANumber
    <3> QED BY <2>1, <3>1, <3>2 DEF Answers
  <2> QED BY <2>1, <2>4 DEF line
<1> QED BY <1>1, LineInvariant, PTL

\* However the keys come, the terminal shows the line edited so far while the next one
\* is awaited, and erasing never reaches the prompt.
THEOREM TerminalShowsLine == Spec => []ScreenShowsLine
<1>1. LineInv => ScreenShowsLine
  BY DEF LineInv, LineAsTyped, Holds, HoldsIn, ScreenShowsLine
<1> QED BY <1>1, LineInvariant, PTL

\* The countdown is over with the first key, and only a countdown that nobody stopped
\* is answered "timed out": wait_for_boot_entry() lets no other negative number
\* through, not even what atou() makes of one that overflows.
THEOREM CountdownIsForTheFirstKey == Spec => []CountdownOnlyBeforeTyping
<1>1. LineInv => CountdownOnlyBeforeTyping
  <2> SUFFICES ASSUME LineInv PROVE CountdownOnlyBeforeTyping
    OBVIOUS
  <2>1. TimerOnlyBeforeTyping /\ TimerAsAsked
    BY DEF LineInv, TimerInv, OpenWhileWaiting, TimeoutForFirstKey, TimerOnlyBeforeTyping
  <2>2. ASSUME answer = TimedOut, typed # <<>> PROVE FALSE
    <3>1. pc = "returned" /\ answer \in Answers(Edited(typed))
      BY <2>2 DEF LineInv, AnswerInv, TimedOut, Unanswered
    <3>2. Edited(typed) \in Seq(Letters)
      BY EditedIsLine DEF LineInv, LineAsTyped
    <3> QED BY <2>2, <3>1, <3>2, AnswersAreNumbers DEF TimedOut, NotANumber
  <2>3. answer = TimedOut /\ typed = <<>> => BeforeTyping
    BY DEF LineInv, AnswerInv, TimedOut, Unanswered
  <2> QED BY <2>1, <2>2, <2>3 DEF CountdownOnlyBeforeTyping
<1> QED BY <1>1, LineInvariant, PTL

\* Types, and what bounds them: no line is longer than the keys pressed, and there is
\* one timer event at most.
THEOREM TypeCorrect == Spec => []TypeOK
<1> DEFINE Ranges == /\ pc \in Location
                     /\ timeout \in Timeouts \cup {0}
                     /\ timer \in {"idle", "armed", "fired"}
                     /\ ticks \in Int
                     /\ calls \in 1 .. MaxCalls
<1>1. Init => Ranges
  BY InputAssumption DEF Init, Location
<1>2. Ranges /\ [Next]_vars => Ranges'
  <2> SUFFICES ASSUME Ranges, [Next]_vars PROVE Ranges'
    OBVIOUS
  <2> USE DEF Location, eventVars, keyVars, lineVars, callVars
  <2>1. CASE SetTimer
    <3>1. timeout \in Nat
      BY InputAssumption
    <3>2. TimerValues(timeout) \subseteq Int
      <4> DEFINE n == timeout * 78125
      <4>1. n \in Nat
        BY <3>1
      <4> HIDE DEF n
      <4>2. Wrapped(n) \in Int
        BY <4>1, SMT DEF Wrapped, IntLimit
      <4>3. Product(timeout) = n
        BY DEF Product, n
      <4> QED BY <4>1, <4>2, <4>3 DEF TimerValues
    <3> QED BY <2>1, <3>2 DEF SetTimer
  <2>2. CASE CallAgain
    BY <2>2, InputAssumption DEF CallAgain
  <2>3. CASE CreateTimer \/ WaitForEvent \/ CloseEvent \/ ReadKey
    BY <2>3 DEF CreateTimer, WaitForEvent, CloseEvent, ReadKey, TimeoutAfterKey
  <2>4. CASE Edit
    <3>1. pc' \in {"done", "getchar"} /\ UNCHANGED <<timeout, timer, ticks, calls>>
      BY <2>4 DEF Edit, AfterEdit
    <3> QED BY <3>1
  <2>5. CASE Finish
    <3>1. pc' = "returned" /\ UNCHANGED <<timeout, timer, ticks, calls>>
      BY <2>5 DEF Finish
    <3> QED BY <3>1
  <2>6. CASE Panic \/ Press \/ Expire \/ UNCHANGED vars
    BY <2>6 DEF Panic, Press, Expire, vars
  <2> QED BY <2>1, <2>2, <2>3, <2>4, <2>5, <2>6 DEF Next, Program
<1>3. Ranges /\ LineInv => TypeOK
  <2> SUFFICES ASSUME Ranges, LineInv PROVE TypeOK
    OBVIOUS
  <2>1. open \in {0, 1}
    BY DEF LineInv, TimerInv, OpenWhileWaiting, Location
  <2>2. DOMAIN buf = 0 .. Size(buf) - 1
    BY SizeIsLength DEF LineInv, BufferInv, RoomIn
  <2>3. strlen \in 0 .. MaxKeys
    <3>1. Len(pressed) \in Nat
      BY DEF LineInv, KeysInv
    <3> QED BY <3>1, InputAssumption DEF LineInv, KeysInv
  <2> QED BY <2>1, <2>2, <2>3 DEF TypeOK, LineInv, KeysInv, AnswerInv, LineAsTyped
<1> QED BY <1>1, <1>2, <1>3, LineInvariant, PTL DEF Spec
=============================================================================
