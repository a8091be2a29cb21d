------------------------------ MODULE EfiCalls ------------------------------
(***************************************************************************)
(* eficall.S on x86-64, and the calls efi_call() compiles to: the code of  *)
(* loli follows the System V convention, the firmware Win32's, and stubs   *)
(* carry arguments from one to the other, in both directions.  An          *)
(* interrupt may come between any two instructions; the firmware handles   *)
(* it on the same stack and overwrites what is below the stack pointer.    *)
(*                                                                         *)
(* The stack is an array of 8-byte words that grows downwards.             *)
(***************************************************************************)
EXTENDS Integers, Sequences, SequencesExt

CONSTANT Interrupts    \* may the processor be interrupted?

ASSUME InterruptsAssumption == Interrupts \in BOOLEAN

Stubs == (1 .. 6) \cup {10}     \* __efi_call<n>
Callback == 0                   \* initrd_load_file, called by the kernel

\* Arguments each call passes.
Arity(call) == IF call = Callback THEN 5 ELSE call

\* Where the conventions want the first arguments; the rest is on the stack.
SystemV == <<"rdi", "rsi", "rdx", "rcx", "r8", "r9">>
Win32 == <<"rcx", "rdx", "r8", "r9">>
Shadow == 4                     \* words a Win32 caller leaves to its callee

Registers == {"rax"} \cup ToSet(SystemV)

\* What a convention lets the callee change; %rdi and %rsi are Win32's to keep.
Win32Volatile == {"rax", "rcx", "rdx", "r8", "r9"}

Argument(i) == <<"argument", i>>
Function == <<"function">>
Return == <<"return">>
Result == <<"result">>
Junk == <<"junk">>
Kept(r) == <<"kept", r>>

Top == 24
Entry == 11     \* the stack pointer on entry: a call has just pushed a word
Words == 0 .. Top
Aligned(word) == word % 2 = 0    \* 16 bytes

VARIABLES
  call,          \* the stub being run, or -1
  code,          \* the instructions left
  regs,          \* the registers
  sp,            \* the stack pointer
  stack,         \* the words of the stack
  seen,          \* what the function called has been given
  interrupted    \* has this call been interrupted?

vars == <<call, code, regs, sp, stack, seen, interrupted>>

Idle == -1

-----------------------------------------------------------------------------
(***************************************************************************)
(* The stubs.                                                              *)
(***************************************************************************)
Mov(from, to) == <<"mov", from, to>>
Load(offset, to) == <<"load", offset, to>>
Store(from, offset) == <<"store", from, offset>>
Push(from) == <<"push", from>>
Pop(to) == <<"pop", to>>
Add(words) == <<"add", words>>
Call == <<"call">>

Bug_MovesInOrder ==
  <<Mov("rdi", "rcx"), Mov("rsi", "rdx"), Mov("rdx", "r8"), Mov("rcx", "r9")>>
MovesToWin32 ==
  <<Mov("rdx", "r8"), Mov("rcx", "r9"), Mov("rdi", "rcx"), Mov("rsi", "rdx")>>

\* Those a call with n arguments needs.
Moves(n) ==
  SelectSeq(MovesToWin32, LAMBDA m : \E i \in 1 .. n : i <= 4 /\ m[3] = Win32[i])

\* STUB(1) calls through %rsi without moving it first.
Bug_ShadowOnly(n) ==
  <<Mov(SystemV[n + 1], "rax")>> \o Moves(n) \o <<Add(-4), Call, Add(4)>>
FromRegisters(n) ==
  <<Mov(SystemV[n + 1], "rax")>> \o Moves(n) \o <<Add(-5), Call, Add(5)>>

FiveArguments ==
  <<Mov("r9", "rax"), Add(-1), Push("r8")>> \o Moves(5)
    \o <<Add(-4), Call, Add(6)>>

Bug_FiveWordsBack == 6
SixWordsBack == 7

SixArguments ==
  <<Load(1, "rax"), Add(-1), Push("r9"), Push("r8")>> \o Moves(6)
    \o <<Add(-4), Call, Add(SixWordsBack)>>

\* STUB(10) copies what is on the stack already to below the stack pointer.
TenArguments ==
  <<Add(-1),
    Load(5, "rax"), Store("rax", -1), Load(4, "rax"), Store("rax", -2),
    Load(3, "rax"), Store("rax", -3), Load(2, "rax"), Store("rax", -4),
    Store("r9", -5), Store("r8", -6), Load(6, "rax")>> \o Moves(10)
    \o <<Add(-10), Call, Add(11)>>

InitrdLoadFile ==
  <<Add(-1), Push("rdi"), Push("rsi"),
    Mov("rcx", "rdi"), Mov("rdx", "rsi"), Mov("r8", "rdx"), Mov("r9", "rcx"),
    Load(8, "r8"), Call,
    Pop("rsi"), Pop("rdi"), Add(1)>>

Body(c) ==
  CASE c \in 1 .. 4 -> FromRegisters(c)
    [] c = 5 -> FiveArguments
    [] c = 6 -> SixArguments
    [] c = 10 -> TenArguments
    [] c = Callback -> InitrdLoadFile

-----------------------------------------------------------------------------
(***************************************************************************)
(* A call.  efi_call() passes the function behind the arguments; the       *)
(* kernel passes none, and keeps something of its own in %rdi and %rsi.    *)
(***************************************************************************)
Passed(c) == [i \in 1 .. Arity(c) |-> Argument(i)]
                \o (IF c = Callback THEN <<>> ELSE <<Function>>)

\* Registers and stack as a convention wants parameters, those that are not in
\* registers from the word `first` on.
InRegister(params, convention, r) ==
  \E i \in DOMAIN params \cap DOMAIN convention : convention[i] = r

OnEntry(params, convention, r) ==
  IF InRegister(params, convention, r)
    THEN params[CHOOSE i \in DOMAIN convention : convention[i] = r]
    ELSE Kept(r)

OnStack(params, convention, first) ==
  [w \in Words |->
     LET i == w - first + Len(convention) + 1
     IN  CASE w = Entry -> Return
           [] w >= first /\ i \in DOMAIN params -> params[i]
           [] OTHER -> Kept(w)]

EnterStub(c) ==
  /\ regs' = [r \in Registers |-> OnEntry(Passed(c), SystemV, r)]
  /\ stack' = OnStack(Passed(c), SystemV, Entry + 1)

EnterCallback ==
  /\ regs' = [r \in Registers |-> OnEntry(Passed(Callback), Win32, r)]
  /\ stack' = OnStack(Passed(Callback), Win32, Entry + 1 + Shadow)

Enter ==
  /\ call = Idle
  /\ \E c \in Stubs \cup {Callback} :
       /\ call' = c
       /\ code' = Body(c)
       /\ IF c = Callback THEN EnterCallback ELSE EnterStub(c)
  /\ sp' = Entry
  /\ seen' = <<>>
  /\ interrupted' = FALSE

-----------------------------------------------------------------------------
(***************************************************************************)
(* Instructions.                                                           *)
(***************************************************************************)
Decodes(op) == call # Idle /\ code # <<>> /\ Head(code)[1] = op

Advance == code' = Tail(code) /\ UNCHANGED <<call, interrupted>>

MovesWord ==
  /\ Decodes("mov")
  /\ regs' = [regs EXCEPT ![Head(code)[3]] = regs[Head(code)[2]]]
  /\ Advance
  /\ UNCHANGED <<sp, stack, seen>>

LoadsWord ==
  /\ Decodes("load")
  /\ regs' = [regs EXCEPT ![Head(code)[3]] = stack[sp + Head(code)[2]]]
  /\ Advance
  /\ UNCHANGED <<sp, stack, seen>>

StoresWord ==
  /\ Decodes("store")
  /\ stack' = [stack EXCEPT ![sp + Head(code)[3]] = regs[Head(code)[2]]]
  /\ Advance
  /\ UNCHANGED <<regs, sp, seen>>

Pushes ==
  /\ Decodes("push")
  /\ sp' = sp - 1
  /\ stack' = [stack EXCEPT ![sp'] = regs[Head(code)[2]]]
  /\ Advance
  /\ UNCHANGED <<regs, seen>>

Pops ==
  /\ Decodes("pop")
  /\ regs' = [regs EXCEPT ![Head(code)[2]] = stack[sp]]
  /\ sp' = sp + 1
  /\ Advance
  /\ UNCHANGED <<stack, seen>>

AddsToPointer ==
  /\ Decodes("add")
  /\ sp' = sp + Head(code)[2]
  /\ Advance
  /\ UNCHANGED <<regs, stack, seen>>

\* What is below a word is the callee's, the interrupt handler's, anybody's.
Overwritten(below) == [w \in Words |-> IF w < below THEN Junk ELSE stack[w]]

\* The i-th argument, as a callee of a convention finds it before the call pushes
\* the return address.
ArgumentSeen(i, convention, shadow) ==
  IF i \in DOMAIN convention
    THEN regs[convention[i]]
    ELSE stack[sp + shadow + i - Len(convention) - 1]

\* The firmware's function owns the shadow space and the words of its arguments.
CallsFirmware ==
  /\ Decodes("call")
  /\ call # Callback
  /\ seen' = [function |-> regs["rax"],
              arguments |-> [i \in 1 .. call |-> ArgumentSeen(i, Win32, Shadow)],
              aligned |-> Aligned(sp)]
  /\ regs' = [r \in Registers |->
                CASE r = "rax" -> Result
                  [] r \in Win32Volatile \ {"rax"} -> Junk
                  [] OTHER -> regs[r]]
  /\ stack' = Overwritten(sp + Max({Shadow, call}))
  /\ Advance
  /\ UNCHANGED sp

\* _initrd_load_file(), which may change %rdi and %rsi too.
CallsLoli ==
  /\ Decodes("call")
  /\ call = Callback
  /\ seen' = [function |-> Function,
              arguments |-> [i \in 1 .. Arity(call) |-> ArgumentSeen(i, SystemV, 0)],
              aligned |-> Aligned(sp)]
  /\ regs' = [r \in Registers |-> IF r = "rax" THEN Result ELSE Junk]
  /\ stack' = Overwritten(sp)
  /\ Advance
  /\ UNCHANGED sp

\* retq, and the caller goes on.
Returns ==
  /\ call # Idle
  /\ code = <<>>
  /\ call' = Idle
  /\ UNCHANGED <<code, regs, sp, stack, seen, interrupted>>

Interrupt ==
  /\ Interrupts
  /\ call # Idle
  /\ stack' = Overwritten(sp)
  /\ interrupted' = TRUE
  /\ UNCHANGED <<call, code, regs, sp, seen>>

Init ==
  /\ call = Idle
  /\ code = <<>>
  /\ regs = [r \in Registers |-> Junk]
  /\ sp = Entry
  /\ stack = [w \in Words |-> Junk]
  /\ seen = <<>>
  /\ interrupted = FALSE

Instruction ==
  \/ MovesWord
  \/ LoadsWord
  \/ StoresWord
  \/ Pushes
  \/ Pops
  \/ AddsToPointer
  \/ CallsFirmware
  \/ CallsLoli

Next == Enter \/ Instruction \/ Returns \/ Interrupt

Spec == Init /\ [][Next]_vars

-----------------------------------------------------------------------------
(***************************************************************************)
(* Properties.                                                             *)
(***************************************************************************)
\* The function called is the one meant, and finds each argument where its own
\* convention has it, whenever interrupts come.  STUB(10) is the exception: it
\* stores below the stack pointer, where only an uninterrupted call keeps them.
ArgumentsArrive ==
  call # Idle /\ seen # <<>> /\ (call # 10 \/ ~interrupted) =>
    /\ seen.function = Function
    /\ seen.arguments = [i \in 1 .. Arity(call) |-> Argument(i)]

\* The stack is aligned to 16 bytes at the call, as both conventions demand, in
\* all stubs but STUB(5), which skips a word and then pushes one.
CallsAligned == seen # <<>> /\ call \notin {Idle, 5} => seen.aligned

\* A stub returns to its caller with the result, the stack pointer where it was,
\* and nothing changed that the caller keeps: the words behind its return
\* address, and for a caller from the firmware's side %rdi and %rsi.
CallerUndisturbed ==
  call # Idle /\ code = <<>> =>
    /\ sp = Entry
    /\ stack[sp] = Return
    /\ regs["rax"] = Result
    /\ call = Callback => regs["rdi"] = Kept("rdi") /\ regs["rsi"] = Kept("rsi")
    /\ \A w \in Entry + 1 .. Top :
         stack[w] = IF call = Callback
                      THEN OnStack(Passed(call), Win32, Entry + 1 + Shadow)[w]
                      ELSE OnStack(Passed(call), SystemV, Entry + 1)[w]
=============================================================================
