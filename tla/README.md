# A verification project for loli

loli is a small UEFI boot loader: it reads `/loli.cfg`, shows a menu, waits for a
number or for a countdown, loads a kernel with its devicetree, initrd and command
line, and starts it. These TLA+ modules model what loli's own code decides, TLC
checks them on small instances, and TLAPS proves the facts that matter most for
every instance. Lines in parentheses refer to files under `src/` of the repository.

## 1. The system

| component | state it keeps | operations |
|---|---|---|
| boot flow (`loli.c`) | timeout, default entry, `bootEntry`; locals of `load_and_validate_entry()` | `main`, `load_cfg`, `cmdline_loop`, `wait_for_boot_entry`, `load_and_validate_entry`, `load_efi_image`, `setup_append` |
| devicetree (`fdt.c`) | none; hands a copy to the firmware | `fdt_fixup_and_load` |
| initrd (`initrd.c`) | one protocol record per installed initrd | `initrd_setup`, and the callback `initrd_load_file` |
| parser (`extlinux.c`), menu (`menu.c`) | none; pointers into the configuration | `extlinux_next_entry`, `extlinux_get_value`; `menu_get_pair`, `menu_get_timeout`, `menu_get_nth_entry` |
| line input (`interaction.c`) | the line buffer, one timer event | `getchar_timeout`, `getline_timeout` |
| console output (`interaction.c`, `graphics.c`, `serial.c`) | three 1024-byte buffers; per frame buffer a picture, cursor and damaged rectangle; serial ports | `printf`, `puts_sized`, `graphics_init`, `graphics_write`, `serial_init`, `serial_write` |
| files (`file.c`) | the volume's root | `file_get_size`, `file_load`, `file_open`, `fix_path` |
| memory (`memory.c`) | none; the firmware's pool | `malloc`, `realloc`, `free`, `malloc_pages`, `free_pages` |
| strings (`string.c`, `ctype.c`) | none | `atou`, `strncmp`, `vsprintf`, copies |
| EFI glue (`efi.c`, `entry.S`, `eficall.S`) | `gST`, `gBS`, `gSelf` | `efi_init`, the call stubs of x86-64 |
| converter (`tools/elf2efi.c`) | segments, relocations, the PE image being built | a program that runs at build time |

The program is sequential. What runs beside it is the firmware: a key may be
pressed and a timer may expire at any moment, every call may be refused, and what
was handed to the firmware (the devicetree, the load options, the initrd's
protocol) is used after the function that built it has returned, and even after
loli has. Components call each other directly; the state they share is the
configuration's text, the firmware's tables and the console's buffers.

What is hard about this code, and what therefore has to be right:

- **error paths**: `load_and_validate_entry()` has twelve ways out through four
  labels that fall through into each other. Nothing may be freed twice or too
  early, and a rejected entry must leave nothing a later kernel could find.
- **retries**: after a rejection the prompt comes back, and the next attempt works
  on state the last one has touched: `bootEntry`, the configuration table, the
  initrd's device.
- **time**: the countdown runs until the first key and never again; a key and the
  timer may come together; without anybody at the keyboard the machine has to boot.
- **two scans**: the menu is numbered by one scan of the text and a number looked
  up by another; keys, entries and globals are told apart by where a line is.
- **a picture and a screen**: the screen is refreshed once per string by one
  rectangle; erasing and wrapping have to fit what the line's editor thinks.
- **outputs that come and go**: a message may reach the firmware's console, some serial
  ports and some frame buffers; ports take characters a few at a time, and two handles
  may lead to one graphics device.
- **files through three hands**: a size is asked for with one `open()`, the buffer
  allocated by it, and the file read with another; the reader's status is not looked at.
- **two calling conventions**: every call of the firmware goes through a stub that moves
  arguments between registers and the stack, and the kernel calls back through one.
- **limits**: a buffer that grows by hand, products of ints, alignment of the stack,
  sections and relocations whose addresses are computed.

## 2. The modules

| module | models | proofs |
|---|---|---|
| `BootServices` | the firmware as the loader uses it: live memory, images, load options, the devicetree table, initrd devices (external) | |
| `Loader` | `loli.c` from `load_cfg()` to `startImage()`, `fdt.c`, `initrd_setup()` | `LoaderProofs` |
| `BootMenu` | what the loader promises: an abstract boot menu that `Loader` implements | |
| `FileAccess` | `file_get_size()`, `file_load()` and what they call, one action per call of the firmware's file protocol | |
| `Handover` | a file's way from its path to the one it is for: `load_cfg()`, the loads of kernel, devicetree and initrd, the devicetree's copy, `_initrd_load_file()` and the kernel that calls it | `HandoverProofs` |
| `LineInput` | `getchar_timeout()`, `getline_timeout()`, `wait_for_boot_entry()`, `atou()`, the keyboard and the clock | `LineInputProofs` |
| `Extlinux` | the parser, as operators on a text | |
| `MenuScan` | the menu's scan, the choice of the default, the look-up of a number | `MenuScanProofs` |
| `Output` | `main()` up to the menu, `serial_init()`, `serial_write()`, `graphics_init()`, `puts_internal()`: which output gets what | `OutputProofs` |
| `Framebuffer` | `graphics_write()` and all below it, on one frame buffer | `FramebufferProofs` |
| `Console` | the strings of a session: messages, prompt, echo; composed with `Framebuffer` | `FramebufferProofs` |
| `Terminal` | what the console promises: a terminal that shows each string at once | |
| `EfiCalls` | the stubs of `eficall.S`, instruction by instruction, and the kernel's call of `initrd_load_file` | |
| `Elf2Efi` | `tools/elf2efi.c`, from the ELF file to the PE image | `Elf2EfiProofs` |
| `Folding` | nothing of loli: induction over the folds the modules compute with | itself |
| `MC...` | values for TLC: configurations, strings, files, machines | |

How they meet: `Loader` takes what a load returns as one of four outcomes and what a
prompt returns as a line or a timeout; `Handover` and `LineInput` are those two calls in
full. `Output` says which outputs get a string, `Framebuffer` what one of them makes of it.

### Boot flow: `Loader`, `BootServices`, `BootMenu`

One action stands for the code up to and including one call that may fail; `pc`
is named after that call. Reading `load_and_validate_entry()` (loli.c:70-180) next
to the actions `KernelPair` ... `SetupAppend`, each `goto` is a disjunct, and
`OutErr`, `FreeKernel`, `FreeKernelBase` and `UnloadImage` are its four labels with
what they fall into. An object in memory is a pair of the attempt that allocated it
and its use (`"kernelBase"`, `"fdtCopy"`, ...): `live` holds those allocated and not
freed, `misfreed` those that were freed without being live. What the firmware holds is in `images`,
`options`, `dtb`, `initrdPaths` and `initrdFiles`. Files are abstracted to what the
code can tell apart: missing, a directory, too short to be a kernel or a devicetree,
or regular. `Reply` is a line typed at the prompt, `Timeout` the countdown.
A configuration is also a circumstance: with `faults` every call of the firmware may fail
for a reason of its own, and only when it is `attended` does anybody reply at the prompt.

`BootMenu` knows neither memory nor locations: a menu, an entry being loaded, a
kernel running with what it was given. `ImplementsBootMenu` maps `Loader` to it.

### Files: `FileAccess`, `Handover`

`Open` ... `CloseRead` are the calls of the firmware's file protocol in file.c:109-156;
`handles` and `infos` count what is open and allocated. A byte of a file is its index, so
that a byte in the wrong place shows, and `Junk` is whatever memory holds. A failing
`read()` may store any part of the file, and `history` remembers it, as it does an
exchange of the medium between two calls and a failure on an exit that leaves the file open.
`Handover` continues with what the four kinds of files are for: the terminator behind a
configuration, `load_efi_image()`, the copy of a devicetree by the size it states itself,
and the initrd, which `LinuxAsks` and `LinuxFetches` request as Linux does and
`AnybodyAsks` in any other way. What `fix_path()` makes of a path is compared with the
names between its separators.

### Line input: `LineInput`

The program's steps are `CreateTimer`, `SetTimer`, `WaitForEvent`, `CloseEvent`,
`ReadKey` (one call of `getchar_timeout()`, interaction.c:103-137), `Edit` (the body
of the loop, :146-171) and `Finish`. Beside them `Press` queues a key and `Expire`
lets the timer expire, at any moment. The buffer is an array with the
sizes of the code: `Realloc` fills what it adds with garbage, `Store` loses what is stored past
the end, and `atou()` reads up to the first terminator; a number of ten digits overflows its
int, which is undefined, and comes out as any int (`AtouValues`), of which
`wait_for_boot_entry()` passes no negative one on (`Returned`, loli.c:212). The timer's
value is kept in units of 128 ticks because TLC's own integers have 32 bits;
10,000,000 ticks a second are a multiple of it, and the int the code computes in
overflows at the same number of seconds.

### Configurations: `Extlinux`, `MenuScan`

A configuration is a sequence of blanks, line ends and words. A word stands for a run
of characters that the parser compares as a whole; two words without a blank between
them are one longer word ("labela"), so that a key that only begins a word is
covered. The C functions keep their names; loops over characters become a search for
the first position that ends them, loops over lines are recursive functions.
`MenuScan` is the scan of `cmdline_loop()` (loli.c:215-258), one entry per step, and
`menu_get_nth_entry()` (menu.c:49-58), one turn per step. What it is compared
with is a reading of the text line by line (`Lines`, `Gives`, `Meant`, `Block`)
that knows nothing of the parser's pointers.

### Outputs: `Output`

Messages are told apart by what they are about. Each is converted once (`Converted`), then
written to the ports one by one, as many characters at a time as a port accepts
(`SerialAccepts`, `SerialStalls`, `SerialFails`), then to the frame buffers; before any of
them is there, to the firmware's console. The set-up runs in between, and prints: `mode`
walks through a device's modes as `gop_determine_mode()` does, `SetMode` sets one,
`SetupMode` makes a frame buffer of it, and each of their failures skips the device.
`current` is the firmware's: the mode a device is in.

### The screen: `Framebuffer`, `Console`, `Terminal`

The picture in memory and the screen are grids of cells, a cell being one glyph; the
damaged rectangle is in pixels as in graphics.c:65-145, and copies the cells that
lie in it as a whole, so a rectangle that is a pixel too small loses cells. `DrawChar` is one call of
`draw_char()`, `BlitBuffer` the copy at the end of a string; `text` is what is left
of the string. `Console` drives it with the strings the rest of the program prints.
`column` in `Console` is an auxiliary variable: the cursor as the last
complete string has left it, which is what `Terminal` sees.

### Calls of the firmware: `EfiCalls`

A stub is the sequence of its instructions, written in the order of eficall.S, and one
action executes one instruction; the stack is an array of words. `Enter` is a call as the
compiler makes it, with the first six arguments in registers; `CallsFirmware` records what
a Win32 callee finds and overwrites what it may; `Interrupt` may come between any two
instructions and overwrites what is below the stack pointer. `initrd_load_file` is the
same in the other direction.

### The converter: `Elf2Efi`

One action per turn of the converter's loops, `i` being their index: `LoadSegment` to
`LoadRel` read the ELF file, `ComputeAlignment` to `ApplyReloc` move it to where PE wants
it, `CreateBlock` to `WriteReloc` write the image; `Exit` stands for every `check()` that
fails. Bytes are told apart by where they come from. The numbers of the formats (4096,
512, the sizes of headers) are constants, so that a run can scale them down. Segments and
relocations at equal addresses come in any order, as `qsort()` leaves them. What the
image is compared with is the memory the ELF file describes, moved.

The properties name what they need of an ELF file, each part by itself: `OneAlignment`
for the section headers, which `SectionsDisjoint` then says exactly: where a segment of
its own page is given a section apart, and where not, and that sections lie on the headers
in the one case `HeadersOverlaid`; and for the program loaded `Linked`, which adds that the
tags and pointers are where a linker puts them and that no two segments share a page.

## 3. The runs

| run | question | bounds |
|---|---|---|
| `loader` | Is memory, and is what hangs on the firmware, handled right on every path? Does a kernel get what its entry names, is the loader a boot menu, and does a sound default boot without anybody there? | 2 entries, 3 attempts; an entry may have any single flaw; with and without other failures, attended and not |
| `line_input` | Are line, number, screen and timer right under every interleaving of keys, clock and failures, and does it end? | 7 kinds of keys, 4 key presses, 2 calls, timeouts 0, 214 and 215, a buffer of 2 that grows by 1, numbers up to 127 |
| `menu_scan` | Is what the menu shows, picks by default and looks up what the text says? | every text of up to 3 lines out of 15 shapes, with and without a last line end |
| `framebuffer` | Do copies stay inside the picture, and is the screen stale only where a copy was refused? | 2 x 2 cells of 2 x 2 pixels, strings of up to 2 characters |
| `console` | Is the console a terminal, and does the last row show the line being edited? | 4 x 2 cells, 7 messages, lines of up to 3 letters behind a prompt of 2 |
| `output` | Does a message reach every output in use, once and whole? Is a frame buffer its device's only one? Does every message end? | up to 2 ports, 2 devices, 3 modes, two handles of one device, with and without failures |
| `handover` | Is what the kernel and loli get the file its path names, and are handles closed? | files of 0 to 3 bytes, pages of 2, a devicetree's header of 2, room for fix-ups of 1, 7 paths |
| `efi_calls` | Do arguments arrive, is the stack aligned, and does the caller get its registers back? | none: every stub, interrupted anywhere |
| `elf2efi` | Is the image well formed, and is it the program that was linked? | one or two segments in 25 layouts, the lowest one in front of, in and behind the headers' page, with none to two relocations of either form, and some three dozen odd files, among them two segments at one address or on one page and alignments that differ or are 0; words of 2 bytes, pages of 8, file alignment 4, base 16 |
| `stale_devicetree`, `default_label`, `relocations_lost` | Does the program do what its documentation says here? It does not, see section 5 | as small as shows it |

Why the bounds are enough. *Loader*: attempts interact through the firmware's state and
`bootEntry` only, so two attempts show any effect of one on the next and the third
that nothing piles up; an entry has at most one flaw at a time because the first
one ends the attempt. Its safety properties are proved without these bounds.
*LineInput*: with sizes 2 and 1 the buffer is moved by the second, third and fourth
letter, which the sizes 16 and 32 of the code do at 16 and 48; four keys reach
letter-erase-letter-Enter, and two calls reach a key that was left over; 214 is the last
timeout that fits an int and 215 the first that does not; numbers overflow at 127 instead
of 2147483647, so that three digits do. *MenuScan*: three
lines hold a global and two entries, or an entry with two pairs; its properties are
proved for every text. *Framebuffer*, *Console*: two rows are enough because only
the last is drawn on and the others only move; rows of 2 and 4 cells are filled,
left and erased in, and the states repeat, so strings follow each other without bound.
*Output*: two ports show the loop over ports and what is left over from one to the next,
two devices and two handles of one device the loop over handles and its check for
duplicates. *Handover*: sizes 0 to 3 with pages of 2 reach empty files, files shorter than
a header, whole pages and begun ones; the sizes do not occur in the control otherwise, and
`HandoverProofs` has none of these bounds. *Elf2Efi*: what matters about the formats'
numbers is that pages are multiples of the file's alignment, larger than headers of a few sections and
larger than words; relocations fall into one block, into two and across their border.

Every property of a passing run has a mutant: a plausible bug, written as an operator
`Bug_...` in front of the definition it would replace, with which TLC finds the
property violated.

`CHECK_DEADLOCK FALSE` is given where the system stops: `LineInput` ends when
the last call has returned or after `panic()`, `MenuScan` when there is no
entry to pick, `Loader` at a prompt without a countdown and without anybody there,
`Handover` when a load has failed or the file is where it belongs, `Elf2Efi` when the
converter exits, and `Output` after `panic()`.

Fairness. `Loader`'s `FairSpec` assumes weak fairness of the program's own
steps, the countdown among them: nothing but the firmware runs beside loli, its calls
return, and nobody has to reply. `FairSpec` of `LineInput` assumes it of the program and of `Expire`: the
firmware's clock runs, so an armed timer expires. Nobody has to press a key, and no
failure has to happen: `Press` and `Panic` are not fair. `Output`'s assumes it of
`Printing`, the program's own steps within a message, and of `SerialAccepts`: a port that is offered characters over and over takes
some. The last is about hardware, not about the code: without it `serial_write()` would
stay in its loop, as serial.c:32-40 does with a port that never takes anything.

## 4. The proofs

TLAPS proves these for every value of the constants, from the assumptions the modules
state about them (`LoaderAssumption`, `AttemptsAssumption`, `InputAssumption`,
`OutputAssumption`, `FileAssumption`, `PathAssumption`, `HandoverAssumption`,
`ConsoleAssumption`, `SessionAssumption`, `ConverterAssumption`, `WordsAreNotMarks`,
`ConfsAreTexts`), all of which the runs evaluate for theirs.

They rest on the lemmas of `Folding`, which say nothing about loli: what a fold of
SequencesExt goes through, what it is for a sequence with one element more, and what it
keeps. A theorem with an operator as a parameter cannot be used by the provers installed;
there the operator is a constant of the module, and a proof takes an instance of it for the
operator it folds with: `Typing == INSTANCE Folding WITH Op <- Put`. The induction itself is
that of the natural numbers, from `WellFoundedInduction`, over sets of numbers instead of
predicates.

`LoaderProofs`: every set of configurations, every number of entries and attempts, with
and without failures.

| theorem | says |
|---|---|
| `Invariance` | `IInv` holds in every reachable state |
| `TypeCorrect` | types; in particular no entry out of range is selected |
| `NeverMisfrees` | nothing is freed twice or before it exists |
| `HandedOverStaysLive` | memory the firmware points at is never freed |
| `RejectionIsClean` | a rejected entry leaves no image, options, initrd or buffer |
| `KernelIsItsOwn` | `startImage()` gets the only loaded image, that of the last attempt |
| `InitrdIsWhole` | no initrd device without its protocol, or of another attempt |
| `KernelHasItsEnvironment` | a kernel starts with its entry's devicetree and initrd, unless the firmware refused a call for a reason of its own |
| `LoaderImplementsBootMenu` | `Loader` refines `BootMenu` |

None of these is inductive by itself: that a label may free `kernelBase` depends on
which locations can reach it. `IInv` says for each location what every exit from there may
release (`Held`, all of it live), what may be live only there (`Transient`), and what hangs on the firmware
(`Hanging`); a `goto` to the wrong label breaks `Own(Held) \subseteq live` one step
before it frees the wrong thing. The proof has one lemma per conjunct and in it one
step per action. `KernelHasItsEnvironment` adds `Provided`: behind the location where
the devicetree, or the initrd, is dealt with, it is installed or its entry names none.

`MenuScanProofs`: every text, with any number of lines, entries and words.

| theorem | says |
|---|---|
| `NumberLeadsToShown` | the entry `menu_get_nth_entry()` finds is the one the menu shows under the number |
| `MatchGives` | `match_key()` returns the value a line gives a key, read as words with blanks between them, and NULL if it gives none |
| `MenuInvariance` | `SeekInv` and `MenuInv` hold in every reachable state |
| `MenuListsAll` | the menu lists every entry, in its order, under its title or its label |
| `EntriesReadTheirOwn` | what is read of the entry found is what its own lines say |
| `DefaultIsResolved` | a default that is a label picks an entry with that label, any other entry 0, in a text without blanks behind what is compared |
| `GlobalsRead` | a read from where the text begins is of the lines before the first entry; of that entry's lines when the text begins with it |
| `TypeCorrect` | types; pointers point into the text |

`SeekInv` says that the menu is a chain of the parser's steps, and that the second
scan has as many steps to go as it is entries away from the one selected;
`extlinux_next_entry()` is any function of the text there. `MenuInv` says which entries the
chain consists of: those of the first labels of the text, with none left out in between, and that
the scan is at the next label. It rests on what the parser's functions return for every text.
`match_key()` is compared word by word with the line's words, which are a fold (`Reached`,
`ReachesOn`, `ReachesValue`). The two loops over lines are one lemma: a function defined by
itself along `next_line()` exists, is unique, and stops at the first line of a set
(`WalkExists`, `WalkStops`); for `extlinux_next_entry()` that set is the labels, for
`extlinux_get_value()` the lines that give the key, the next label and the rest of a text
that is blank (`ValueAmong`). `DefaultInv` says that the default settled on so far is an entry
shown that `strncmp()` matches, or that it matches none, and `SameName` when a match is equality.

`FramebufferProofs`: consoles and glyphs of every size, every set of strings, every prompt,
and lines of every length.

| theorem | says |
|---|---|
| `ScreenInvariant` | `ScreenInv` holds in every reachable state |
| `BlitStaysInside` | what is copied to the screen lies in the picture |
| `VideoIsFollowed` | outside of the damaged rectangle and of refused copies, screen and picture agree |
| `WrittenIsShown` | between strings they agree outside of refused copies |
| `ConsoleInvariant` | `ConsoleInv` holds in every reachable state of a session |
| `EchoIsTheLine` | the last row shows the prompt and the line, whatever is typed and erased, while it fits |
| `ConsoleImplementsTerminal` | a session refines `Terminal` |

`ScreenInv` needs that the damaged rectangle is either the initial, inverted one or lies in
the picture with its corners in order; then the union with a cell's rectangle
covers both, which is arithmetic of products and is done in lemmas of its own. `ConsoleInv`
adds what the characters written so far have made of the picture, and of the terminal, the
same string folded by `Put`; what the string will leave on the last row follows when it ends.
The last three are for a firmware that refuses no copy (`~Faults`): after a refused one
the screen is stale, which `WrittenIsShown` says exactly, and no terminal.

`LineInputProofs`: every set of keys and timeouts, any number of keys and calls, buffers of
every initial size and growth.

| theorem | says |
|---|---|
| `TimersAreClosed` | no timer outlives the call that created it |
| `TerminatorHasRoom` | the line and its terminator stay within the buffer |
| `LineInvariant` | `LineInv` holds in every reachable state |
| `LineReturnedIsTyped` | line and number are what the keys typed spell, unless the number overflows |
| `TerminalShowsLine` | echo and erasures add up to the line, and leave the prompt |
| `CountdownIsForTheFirstKey` | a timer runs before the first key only, for the time asked for, up to 214 s, and only then is an answer "timed out": no number typed is taken for that, not even one that overflows |
| `TypeCorrect` | types; the answer is a number, none, or "timed out" |

`TimerInv` says for each location whether the event exists, and that a call with a timeout
is the first one; `BufferInv` that the buffer is an array longer than the line, at the
turn of the loop and behind each key, so that a letter and the growth it causes are
one step of the invariant. `LineInv` adds that the first `strlen` characters are the keys
typed, folded by `EditedBy`; `atou()` of them and the number they spell are two folds, equal
digit by digit, and an int holds the number while it has `LongestNumber` digits, which
`InputAssumption` relates to `IntMax`: nine, for the code's ints.

`OutputProofs`: every machine.

| theorem | says |
|---|---|
| `EachFrameBufferFits` | each frame buffer belongs to a device of its own that is, and stays, in a mode with room for the console |
| `MessagesAreComplete` | each output in use gets the whole message once, and no other gets any of it |

`SetupInv` speaks of the locations the program is at or will return to from a message
(`Ahead`): a device that waits for its frame buffer has none yet and is in a fitting mode.
Without that, setting the mode of a device that already has one could not be excluded.
`MessageInv` says what each port has: all of the message before the current one, what it
has taken of it at the current one, nothing behind.

`HandoverProofs`: files and pages of every size, every path.

| theorem | says |
|---|---|
| `HandlesAreClosed` | each call closes the file and frees its information, on all exits but the three that are named |
| `FilesArePassedOn` | reading stays within the buffer, the terminator too, and what is passed on is the file, unless a read failed or the medium was exchanged |
| `InitrdReachesKernel` | the kernel that asks as Linux does gets the initrd, and any caller at most what it has room for |
| `PathIsMeant` | the path opened has the names of the one asked for, and single separators |

The invariants build on each other: `HandleInv` counts what is open at each call, `StageInv`
says that the size the buffer was made by is the one the read is told while the medium
stays, `GivenInv` what was passed on, `ServeInv` what the protocol holds and answered.
`PathIsMeant` relates two folds over the path, `fix_path()`'s and the one that splits it,
character by character.

`Elf2EfiProofs`: every ELF file, with any number of segments and relocations, and every size
of words, pages, headers and alignments.

| theorem | says |
|---|---|
| `TypeCorrect` | `ConverterInv` holds in every reachable state: types, bounds of the loops, and of which program header each segment is made |
| `FileIsConsistent` | a section header points at what was written for its section, and at nothing of another |
| `SectionsAreDisjoint` | for segments of one alignment: sections have it; they are behind the headers exactly when not `HeadersOverlaid`; and, if segments begin at different addresses, sections are in order, on pages of their own and within the image exactly when no two segments share a page |
| `ImageIsFaithful` | the image of a linked file, not laid over its headers, is loaded as the program that was linked, moved; the fix-ups are its pointers |

`SegmentsMade` keeps a bijection from the segments, whatever order they are sorted in, to the
program headers: what a segment is at each location, before and after it is moved, follows
from its header. `FileInv` says that the file ends where the next section's layout begins,
and holds the pieces written so far, and `PagesOfBlocks` that pages are whole blocks of the file.
`RelocsInv` and `BlocksInv` say that the relocations are those of the tables, in order, and
that the blocks list those gone through so far, each in the block of its page; `DataInv` that a byte of a segment is the pointer's of the relocation that covers it,
if that has been applied, and the original one otherwise.

`SectionsAreDisjoint` needs one thing of the file, that its segments have one alignment and
the base address has it, too. `AlignmentInv` says that the product of
`exec_address_alignment()` is that alignment then: the greatest divisor of equal numbers is
the number, and what is multiplied with it is 1. The rest is equivalences: a section begins
at its segment's page and ends where the segment does, both moved by the same multiple of
the alignment, so sections are apart if and only if segments are; and the first one,
which is the lowest, is behind the headers if and only if not `HeadersOverlaid`. Both
directions are proved, so nothing the code does to such files is left out.

`ImageIsFaithful` is about files as linkers make them, `Linked`, whose sections are not on
the headers. What `Linked` has to say was found by proving: segments of one alignment, at
distinct addresses and on pages of their own, sizes in the tags that are those of the
tables, and pointers that lie in a segment's contents and do not overlap. For a file that
is not, `FileIsConsistent` is what holds.

Only model-checked:

- Liveness (`UnattendedBoots`, `CountdownEnds`, `EnterAnswers`, `MessagesEnd`), which is out
  of TLAPS's reach.
- The properties of `EfiCalls`: the module has no parameter but whether there are
  interrupts, and TLC visits all its states.

## 5. Where code and documentation disagree

With a run:

- **`stale_devicetree`**: README.md:67 describes `fdt` as optional for an entry, and
  loli.c:131 reports `FDT: (none)`; but the table of an entry that was rejected
  after loli.c:128 is still installed when the next kernel starts.
- **`default_label`**: README.md:56 wants the label of an entry, extlinux.c:152 strips trailing
  blanks; `strncmp()` (string.c:32-45) looks one character further, so a blank
  behind the value decides which entry matches, or that none does.
- **`relocations_lost`**: elf2efi.c:16-17 iterates over the dynamic section;
  `dynamic_lookup_tag()` (elf2efi.c:484) steps by a byte where it should by a tag, so
  relocations whose tags stand further back are not found, and the image is written without them.

Known, and excepted by name in the properties concerned:

- `initrd_setup()` reports failures (initrd.c:101, :109), loli.c:157 ignores them, and the
  kernel is started without its initrd (`EnvironmentComplete`).
- From 215 s on the product at interaction.c:115 overflows an int; README.md:59 gives
  `timeout` no limit (`CountdownOnlyBeforeTyping`, `CountdownEnds`).
- A sound default is needed for `UnattendedBoots`: a default that is rejected leaves the
  machine at the prompt, without another countdown (README.md:77 speaks of skipping it).
- A file stays open when `getInfo()` fails (file.c:125, :143) or it is a directory
  (file.c:146) (`HandlesClosed`).
- `STUB(5)` calls the firmware with the stack 8 off its alignment (eficall.S:78)
  (`CallsAligned`), and `STUB(10)` copies arguments to below the stack pointer, where an
  interrupt overwrites them (eficall.S:105) (`ArgumentsArrive`).
- A devicetree whose totalSize is larger than its file is copied with what lies behind it
  (fdt.c:38) (`ContentsAreFiles`).
- elf2efi.c:725-728 says that addresses are advanced where "the space before the lowest
  segment couldn't contain the PE32+ header". The code compares the segment's own address
  (:731) and then aligns its section down (:744-748): a lowest segment behind the headers
  but in their last page, at 0x400 with an alignment of 0x1000, is not advanced, and its
  section begins at 0, on the headers. `HeadersOverlaid` is this case; that it is the only
  one for segments of one alignment, and that the sections do lie on the headers in it, is
  part of `SectionsDisjoint`, checked and proved (`ImageFaithful` excepts it).
- Segments that share a page get sections that share it, too; nothing in elf2efi.c looks at
  that (`SectionsDisjoint`, which says that it happens then and only then). Segments of
  different alignments get sections that are aligned to their own one only, and an alignment
  of 0 is divided by (elf2efi.c:685-698, :747); `SectionsDisjoint` is for one alignment.
- `memset()` in `load_segment()` has a length of 0 (elf2efi.c:391), so bytes between a
  segment's contents and a relocation behind them are not cleared (`ImageFaithful`).

Known, and in no property of a run: the strings for devicetree and initrd are never freed
although loli.c:73 speaks of a delayed release; the first entry's pairs are read
as globals when the file begins with its label (extlinux.c:178,
doc/libextlinux.3:25-26), which `GlobalsRead` states for every text; and Makefile:55 builds with elf2efi.py, not with elf2efi.c.

## 6. Not modelled

- The wording of messages, `vsprintf()`'s layout and the font: data and formatting. With
  the wording goes the length of a message, and so the three buffers of 1024
  characters in interaction.c:60, which nothing bounds.
- `efi_init()`, `interaction_init()`, `file_init()` and `entry.S`: a few assignments or a
  jump each, run once.
- `menu_get_pair()`'s copy and `menu_get_timeout()`'s number: as their results only. Memory
  types: nothing in loli depends on them.
- Of the converter: names, characteristics and checksums in the headers, and its options;
  `BaseAddress` stands for `-b`.
- `tools/elf2efi.py`, which is vendored from systemd, and the tests, which exercise the
  parser and were read as a statement of what it should do.

What could be added next: texts with lengths in `Output`, to say from which length on
the buffers overflow; a proof that `Loader`'s outcomes of a load are `Handover`'s
(today the two modules agree by their definitions, side by side); and `Console` for
lines that outgrow their row, where the line's editor and the screen part ways.
