# Verification of Q-Boot and Q9-DHF

This directory holds TLA+ models of the two programs of the repository, the TLC
configurations that check them and the proofs TLAPS checks:

- **Q9-DHF** (`src/Q9-DHF-68k`): a file manager for an emulated 68k system that
  uses the files of the host. A manager and a driver run on the 68k side, a host
  simulator serves requests through a file both sides have mapped.
- **Q-Boot** (`src/src`): a boot loader and BIOS for 68k boards that also builds
  as a desktop simulator. `src/Q9-Boot/src` is a byte-for-byte second copy, so
  whatever is shown of one holds for the other; the map names the copy for some
  definitions that stand for a whole function (`Main`, `Command`, `Put`, ...).

Every definition follows the C source. `PROJECT.json` names for each of them the
lines it stands for, for each property a slip that breaks it (the operators no
action uses), and for each hazard of the code the properties that watch it.

## Inventory

| Part | State | Operations | What makes it correct | Module |
|---|---|---|---|---|
| Mailbox loop, `host_simulator/main.c` 53-75, 239-262 | `dhf_shared_t` in shared memory; locals `seq`, `waitcnt`, `keep_running` | start, poll, handle, respond, wait, leave | an answer belongs to its request; nothing is carried out twice without a kill; who waits is answered | `DhfMailbox`, abstract: `DhfRpc` |
| File service, `main.c` 76-242, `fs_ops.c` | host files, fds, `dir_table`, `errno`, result fields | one handler per request code | fds, streams and handles are accounted for; a refused request has changed nothing; through restarts | `DhfHost`, with the mailbox: `DhfService` |
| File manager, `dhf_manager.c`, allocator, `dhfdrv-68k.c` 1-72 | `g_path_table`, heap, emulated descriptors, host fds | open, close, read, write | a manager fd reaches its own file; nothing is lost on error paths | `DhfManager` |
| Driver operations by path, `dhfdrv-68k.c` 80-201, base path of `dhf_descriptor.c` | host files, working directory, base path | chdir, mkdir, rmdir, unlink, rename, truncate, opendir | nothing outside the base is touched; the base stays what it is | `DhfPaths` |
| Boot sequence, `boot/main.c` | countdown, rating | calibrate, count down, shell or autoboot, halt | a key in time stops the autoboot; the countdown ends | `QBoot` |
| Shell, `cli.c` | line buffer, `setup_env` | edit a line, split it, run it | the screen shows the line; `argv` holds its words | `QBoot` |
| UART console, `console_uart.c` | receive register, or standard input | getc, tstc, putc | — (part of the above) | `QBoot` |
| Framebuffer console, `console_fb.c` | cursor, video memory | init, putc | cursor and text stay where they belong | `Framebuffer` |
| Numbers, `lib_core.c`, `parse_hex` of `cli.c` | loop variables, buffer | write and read words | the loops compute the value; the buffer holds | `Numbers` |
| Calibration, `q9_bogomips.c` (twice) | bracket `lo`, `hi`, scheduler lock | doubling, bisection | accurate in spite of late probes; the lock is given back | `BogoMips` |
| Stage 1, `cb030_startup.S`, `def_startup.S` | program counter | the jump out of the ROM overlay; VBR, stack, `main` | the jump out of the overlay leads into the ROM | `Stage1`, with stage 2: `PowerOn` |
| Vector table, descriptors, `bios_core.c` | constants | get_descriptors, dispatch | headers stand although whole descriptors are copied over them | `Descriptors`, `QBoot` |
| HAL headers | — | — | — | none |

How they interact: the manager calls driver and allocator directly, and manager
and host simulator share only the mailbox. The boot sequence calls calibration,
console and shell through the const `bios_vector_table`. Three things happen at
once: the two processes at the mailbox, the user and the program at the console,
and the timer and the calibration loop. Failures the code meets are kills of the
host simulator, exhausted tables, fds and memory, and files that are not there.

## Modules

`DhfMailbox` is the polling loop, one action per access to the shared memory:
`PollSeq` and `PollCommand` are the two reads, `Handle` the handler as one
execution of the request, `LandResult`, `LandCommand` and `LandSeq` the three
stores as another process sees them, `Wait` the bounded wait. `Interrupt` is
SIGINT, which the loop notices at its next turn; `Kill` is a signal without a
handler; `Start` comes after either. The manager's side of the mailbox is not in
the repository. It is modelled from what the host loop expects: parameters, then
command; recognise the answer by the command or by the counter (`discipline`);
clear the mailbox or go on at once. `InOrder` says that stores become visible in
program order. The C source guarantees no such thing (the fields are neither
volatile nor atomic); it holds when the compiler keeps the order and the machine
is like x86, and everything said about the mailbox is said under it.

`SameOrder` says whether manager and host read the bytes of a field in the same
order. With different orders (`AsRead`) neither side sees a request or an answer
in what the other writes.

`DhfRpc` is the promise: requests go out one by one, each is executed, then
answered with its own result; a crash may lose what was executed, and it is
executed again. `DhfMailbox` maps to it through `stage` and `kills`.

`DhfService` puts the two together: the delivery is `DhfRpc`, which `DhfMailbox`
implements, and executing a request is a handler of `DhfHost`. A new life of the
host starts without fds and streams, on the files the old one left, while the
client still holds the numbers it was told and uses them. Whether the request
in hand is repeated is up to the delivery: the kill may come before or after the
handler. `Issue` leaves directory closes out: what they do to files is the
finding of `DhfHostDirClose`.

`DhfPaths` has the calls by path on a tree of files, each with its parent and its
name. `RealPath` follows a path; `Candidate` appends one to the base path;
`Mkdir` is the test for being under the base and then `MkdirCall`, the host's mkdir.
`Inside` and `LooksInside` are the two tests for being under the base, the first
with and the second without a look at the character behind it (`Longer` holds the
names that continue others). `Ancestors` is what lies in every set of directories
that holds the parents of its members, which on a tree is the way up to the root.
The base path may be set at any time, may be
relative, and is then looked up from the working directory, which `Chdir` moves.
Its calls are in the repository, but nothing in it makes them: any caller may.

`DhfHost` is the file service, one action per request code, with the errors in
the order the handler tests for them. Names are elements of a constant set, with
two constant maps to the files they mean: `BaseOf` when `dhf_host_open` puts the
base path before them, `RawOf` when the other handlers pass them on as they are.
Create asks for O_CREAT (`Brought`) behind the same test. `CloseDir` is both closes
of the handler: `close` of the handle's number, then `closedir`, which fails when
the first has closed its fd. An errno left by an earlier call is part of the state,
for one handler answers with it. The client asks for any name and for fds and handles it was given.

`DhfManager` is the manager with the driver under it. Blocks are addresses;
`private` is the emulated address in a descriptor and `Truncate` the cut to 32
bits. `Open` and `Close` are split by the way they end. Lines 107-127 of
`dhf_manager.c` define close, read, write and the calls by path a second time,
which no compiler accepts; the first definitions are the ones modelled.

`QBoot` is `main` and `cli_run` on a console where a key can arrive between any
two steps. A 16550 keeps one byte and the next overruns it; standard input keeps
everything, can end, and then counts as a key for `select` and yields EOF for
ever. Storing the rating into a const object may end the simulator, be lost in
ROM, or work (`Calibrate`). `main` gives get_descriptors room for one header and
gets a whole descriptor (`ConsoleInit`); what the bytes behind its variable are
is up to the compiler, so the program may die there. What is typed ahead before
the shell runs is one key; more of them differ in nothing from keys typed at the
prompt. A byte 0 is a key like any other for the editor and the end of the line for
the tokenizer (`CString`, then `Split`). md and mw touch memory outside the model,
info and printenv only print.

`Descriptors` is get_descriptors device by device (`Copy`), on a memory that knows of each
unit which descriptor it came from.

`Stage1` has an action per instruction. The board without an overlay is followed to
`main`. The cb030 is followed to its jump, with the addresses as the Makefile
links them: `RunInHighRom` is where `-Ttext 0x00F00000` puts the label, `JumpTarget`
what the jump makes of it, and `InRom` says whether anything of the program is
there. Nothing is, so `at` becomes "lost". `PowerOn` runs stage 1 before `main` in the ROM
image and lets keys arrive meanwhile, and is what the runs of Q-Boot check.

`Numbers` has the loops of `bios_put_hex`, `bios_put_dec` and `parse_hex`, a
round per action, and a user who types a word again or types any argument.

`Framebuffer` has one cell for each character box, with boxes cut off by the
screen's edge. `BogoMips` measures time in rounds of the delay loop: a probe says
yes or no, and within `MaxLate` of the truth both. `ticking` is false for the
stub of `lib_core.c`, whose tick never moves.

`MCDhfHost`, `MCDhfService`, `MCDhfPaths` and `MCQBoot` give constants their
values. `*Proofs` modules hold the theorems.

## What is checked

| Run | Bounds | Shows |
|---|---|---|
| `DhfMailbox` | 3 requests, counter modulo 2, 2 waiting polls, 2 stops | `AnswersMatch`, `ExactlyOnceButForKills`, the inductive invariant (types included), `WaitingIsAnswered`, refinement of `DhfRpc` |
| `DhfManager` | 2 files, 2 slots, 5 blocks, 3 free fds | types, a fd reaches its file or none, host fds and blocks are accounted for, closing touches one fd |
| `DhfHost` | 1 file, 1 directory of 2 entries, 1 free name, 4 fds of which 1 is inherited, 2 handles, directory closes included | fds, streams and handles agree with what the client holds; no fd is forgotten, even after a close has hit the wrong one; a refused request has changed nothing, and what is there goes only by a Delete |
| `DhfService` | 2 files, 1 directory of 1 entry, 3 fds of which 1 is inherited, 1 handle, no directory closes, 4 requests, 3 lives of the host | no effect twice, no OK or error that is untrue but after a crash, both sides agree on what is open |
| `DhfPaths` | 9 files: a base directory with a file and 2 directories in it, one of them empty, and a sibling whose name continues the base's; an absolute and a relative base path and "/"; 10 paths, 4 of them through ".."; 1 stream | nothing outside is touched, an absolute base keeps its meaning |
| `QBoot` | 3 seconds of 2 polls, lines of 7 keys, 3 words, values of 1; lists of up to 3 devices and arrays of up to 4 | headers stand; a key in time stops the autoboot, the countdown ends, screen and line agree, `argv` holds the words |
| `Numbers` | words of 4 binary digits, arguments of 8 characters, ternary numbers in a buffer that just fits | the loops of reading and writing agree with reference sums |
| `Framebuffer` | screens of 1, 3, 4 by 2, 4, 5 pixels, boxes of 2, two characters | cursor on the screen, the last screenful of text in place |
| `BogoMips` | 6-bit word, up to 70 rounds per jiffy, 4 rounds late | accuracy, at most 10 probes, the scheduler is given back |

Why the bounds are enough. Mailbox: two requests show one answer taken for
another, a third one a response left over from before the last; a counter modulo
2 wraps in every behaviour; two stops allow a kill during the repetition after a
kill. Manager and host: each resource is small enough to run out while the others
have not, and there are two of everything that can be confused. Service: four
requests open a file, use its number, and use it again after a restart in which
another open got the same number; three lives let a repeated request die again.
Paths: each relation a path can have to the base, above it, beside it with a
longer name, it, below it, occurs for sources and targets. QBoot: the first,
a middle and the last second; fewer words than blanks, more words than argv.
BogoMips: the word overflows for the fast machines and 9 probes do not do.
Numbers: arguments longer than a word with and without 0x; the decimal buffer is
as tight as 11 bytes are for 32 bits. Framebuffer: exact, cut and narrower than
a box.

`DhfHost`, `DhfService` and `DhfPaths` use a VIEW that leaves out the answer and
the request of the last step where no later step reads them, so states that
agree in the rest have the same successors, and the action properties that
mention them are evaluated on every step TLC generates. `DhfHost` keeps of errno
only whether it is 0. Deadlock is checked everywhere but in `Numbers`, where a
number written or read is the end, and in `DhfService`, where the client may have
nothing left to ask.

Three runs are expected to find a disagreement between the code and what the
repository says of it:

- `DhfHostDirClose`: "Also support closing dir handles via param[2] if param[4]==1"
  (`main.c` 117), but line 115 has closed the fd of the same number before. A client
  with file fd 2 and directory handles 1 and 2 loses the file when it closes
  handle 2, and is told that all went well.
- `DhfHostCreate`: "Create -> open with O_CREAT" (`main.c` 84), but a path must exist
  to be accepted as confined (`fs_ops.c` 17 and 38), so Create never creates. MkDir
  and the driver's mkdir go through the same test.
- `QBootBoot`: the shell's boot command is to start the operating system
  (`cli.c` 65), and halts the machine (`cli.c` 246).

Five more disagreements have a configuration of the same kind, with one property
that TLC finds violated, but are not in the list of runs of `PROJECT.json`, which
keeps to the three above:

- `DhfMailboxBytes.cfg` (`DhfMailbox`): "All fields are big-endian when interpreted
  by 68k; host reads/writes using helpers" (`dhf_shared.h` 7), but the host reads its
  own byte order, so on a little-endian host no request is recognised (`main.c` 66)
  and `WaitingIsAnswered` fails.
- `DhfHostReaddir.cfg` (`MCDhfHost`): "Opendir, Readdir and handle tracking
  implemented for up to 16 DIR handles" (`STATUS.md` 11), but Readdir refuses all of
  them but the first (`main.c` 192), so `HandlesAreRead` fails.
- `DhfPathsChdir.cfg` (`MCDhfPaths`): "Ensure path confinement so basepath cannot be
  escaped by chdir/cd operations" (`driver/README.md` 4), but a sibling whose name
  continues the base's passes the comparison of `dhfdrv-68k.c` 108, so
  `ChdirStaysInside` fails. A relative base path then means another directory.
- `PowerOnJump.cfg` (`MCQBoot`): "Weitsprung in das permanente, hohe ROM-Segment"
  (`cb030_startup.S` 25), but `ROM_HIGH_BASE` is added to a label linked there already
  (`src/Makefile` 45): the target is 0x01E0000A, where no device is, so
  `JumpReachesRom` fails.
- `NumbersDecimal.cfg` (`Numbers`): bios_put_dec is to print a number as a decimal
  value (`qboot_lib.h` 17), but sends the values of the digits instead of their
  characters (`lib_core.c` 34 and 39), and stops at the first that is 0, so
  `DecimalShown` fails, first for the word 0.

Also met, and part of the models without a claim about them: a base path of "/" lets
only "/" itself pass; the driver's opendir is never closed; the emulated block
of a descriptor is never freed (`orphans` in `DhfManager`); on a 64-bit host the
cut address leads to a wrong place (`crashed`); an fd number from an earlier life of
the host may be another file in this one; Readdir answers its end with an old
errno, and drops an entry that does not fit; a character that ends a full
hexadecimal word costs it the first digit (`ParsedIsLastDigits` describes what the
code does); storing the rating may end the program; without ticks the calibration
keeps the scheduler locked; the shell spins at the end of standard input;
system_reset halts and does not reset.

### Fairness

- `DhfMailbox`: the host process is scheduled while it lives and started again
  when it is down; a manager that has prepared a request submits it, and one that
  waits keeps looking. All weak: each of these steps stays enabled until taken or
  until the other side answers. Nobody has to issue, clear, interrupt or kill,
  and stops are bounded. Kills leave one gap, which the property names: a
  manager that goes by the counter may wait for ever when the host is killed
  between the stores of command and seq.
- `PowerOn`: the processor goes on, through stage 1 (`Startup`) and `main`
  (`Run`), both weakly fair; no key need ever come. Each character printed waits for
  the UART's transmitter without a limit (`console_uart.c` 61); the model prints at
  once, so `CountdownEnds` takes the transmitter to become empty every time. It is
  claimed where `main` is reached: not for the cb030, which does not get there, and a
  crash while the rating is stored counts as an end.
- `BogoMips`: one thread runs; the property is claimed only where ticks come.

## What is proved

For all values of the constants that satisfy the modules' assumptions:

- **`DhfMailboxProofs`**, for stores in program order (`InOrder`):
  `MailboxInvariant`, and from it `MailboxTypes`, `AnswersBelongToRequests`,
  `RepetitionNeedsKill` and `MailboxImplementsRpc`. `AnswersMatch` alone is not
  inductive: it needs that a visible response implies a visible result
  (`ManagerView`), that stores on their way belong to the request that is waiting
  (`HostView`), that earlier requests are settled (`RequestsPast`) and, for a
  manager that goes by the counter, that the counter stands still until the last
  store lands (`CounterView`). All five hold for either byte order: with
  different ones nothing is forged, only nothing is answered. The refinement has one step for each action:
  `Submit`, `Handle` and `Accept` are the calls, executions and answers of
  `DhfRpc`, a repeated `Handle` and all else stutters.
- **`DhfManagerProofs`**, for addresses that fit (`PointersFit`): `TablesAgree`
  with `ManagerTypes`, `NeverAnotherFile`, `HostFdsAccounted`, `HeapAccounted`
  and `ClosesOnlyItsOwn`. The invariant joins the four tables: each block has one
  role, each held fd one slot, and each copy names the fd of its descriptor.
- **`BogoMipsProofs`**: `CalibrationKeepsBracket` (the low end was measured to
  fit, the high end not to, or the word has overflowed), `CalibrationTypes`,
  `CalibrationIsAccurate`, and `LockIsAlwaysBounded`: doubling takes at most one
  probe per bit, and as many halvings close a bracket of that width.
- **`FramebufferProofs`**: `ScreenTypes`, `CursorStaysOnScreen` and `TextIsReadable`:
  what was printed since the last control character stands in the boxes behind
  the cursor, the last screenful of it where it was put.
- **`QBootProofs`**: `KeyAlwaysStopsAutoboot`, by the invariant that a key in time
  is still at the console and a poll still to come (`KeyIsPending`), and
  `ScreenAlwaysShowsLine`. `ArgvAlwaysAreWords` follows the tokenizer through the
  line: after n characters `argv` holds the words that have begun, as far as there
  is room, all of them ended but perhaps the last (`FoundSoFar`). `QBootTypes`
  rests on it for the values of variables. `HeadersAlwaysStand` does the same for
  get_descriptors, for lists and arrays of any length: after n descriptors n
  headers stand, and behind the last place lies just the rest of its descriptor
  (`CopiedSoFar`); `InfoAlwaysShowsDevices` is what the run states.
  From power-on (`PowerOn`): `KeyAtPowerOnStopsAutoboot` and `StageTwoFromPowerOn`,
  because every step from power-on is a step of `QBoot` or leaves its variables
  alone.
- **`NumbersProofs`**, for any base, width of a word, length of an argument, and
  decimal buffer that can hold a word: `NumbersTypes`, `ParsedLastDigits`,
  `DecimalIsSpelled` and `HexIsReadBack`, by `NumbersInv`, which says of each loop
  what the digits behind it are worth. `DecimalIsSpelled` is about the loop of
  bios_put_dec, not about what the console makes of its digits, which
  `NumbersDecimal.cfg` refutes. The types need it: the decimal buffer
  holds because each digit stored takes a power of the base off the word.
- **`DhfServiceProofs`**, first for the handlers alone (`DhfHost`): `SlotsAreHandles` and `FdsAreAccountedFor` by one
  invariant (`IInv`), which adds that the client never holds a stream's fd as a
  file's (`HeldPlain`), or a Close of a file could close a stream. Every request
  is one of five kinds of steps (`ServeCases`): it opens or closes a file, opens or
  closes a directory, or leaves fds and slots alone. `NoFdIsLost` holds after a
  wrong close as before: each fd that is opened is told to the client or kept in a
  slot, and a client's number or a slot is only given up together with its fd. `AnswersTellEffects` needs the types
  only, `TypesHold`.
  Then behind the mailbox, where a request may name any fd the client ever heard
  of: `ServiceTypes`, `RepetitionIsHarmless` and `AnswersAreHonest` by
  `ServiceInv`, `ClientAndHostAgree` by `FilesInv`. A request that has taken
  effect and waits again has nothing left to do (`RepeatIsIdle`): what it deleted
  is gone, or all fds are fresh, for only a death of the process makes it wait
  again. A `Close` with a number of this life closes the right file because the
  client knows each such fd for one file only (`KnownOnce`).
- **`DhfPathsProofs`**: `PathsTypes` and `OutsideStaysUntouched`, for any tree,
  any paths, any base paths and any order of chdirs. They rest on one fact about
  each call: what it changes passed `confined_path` in the same step.
  `BaseAlwaysStays` assumes that the tree begins with different
  names in each directory, and keeps it so (`SiblingsDiffer`), so that a step down
  has one outcome. It then compares two lookups of the same base path, before and
  after the call, by induction over the components: they agree until one of them
  leads nowhere, or into the directory that is being replaced; the base itself
  lies above what moves, and what is replaced is empty, so the lookup of the base
  can end at neither.

Recursive definitions (`Power`, `Powers`, `Argv`, `Copied`, `RealPath`) are functions,
and each proof module that meets one begins with the induction it needs
(`Induction`: a set with 0 and every successor holds all numbers; `Recursion`: a
first element and its successors make up a sequence), derived from the library's
theorems on well-founded relations, with a set in the place of their operator.

Only model-checked: all liveness, which is outside what the prover does
(`WaitingIsAnswered`, `CountdownEnds`, `SchedulerReturns`).

## What is not modelled

Contents of files and messages, wording of output, the memory md and mw reach,
symbolic links and permissions on the host, the driver's readdir (on a pointer
cut to an int) and seek, the accessors of socket and flags, headers for storage
and network that nothing implements, the memory backend nobody calls, examples
and test programs. The range tests of the handlers are one Boolean (`fits`): that `buf_off + len` wraps
at 32 bits (`main.c` 97 and 107) is not visible in it, and the offset of a path, which
`main.c` 82 does not test at all, is taken to lie in the memory.
`path_desc.h` and `errno_map.h` are included but missing from the
repository; descriptors are taken to have the fields the code uses and error
codes to be passed on one to one.

Stage 1 of the cb030 behind its jump: remap, caches, the copy of the vectors, stack.
No behaviour of the program as linked reaches it, and as written it could not be
assembled: `moveq #0, a1` (line 45) is no instruction of the 68k. It would copy 256
vectors from a ROM that defines two (lines 17 and 18), into memory at 0, which by
`docs/cb030_hardware_map.md` is ROM. Which of these was meant is not for a model to
say.

## Plan

Done, in this order: mailbox and its refinement, manager, file service, boot
sequence and shell, calibration, framebuffer, numbers; mailbox and file service
together; the calls by path; stage 1, descriptors and power-on; the disagreements. Proofs of
every invariant and action property the passing runs check.

Next, by importance:

1. Proofs: the slots and entries of `DhfService`, where handles outlive the process
   that gave them; the service over the mailbox as a refinement of one without
   restarts.
2. The range test `buf_off + len` as an operator over small words.
3. Symbolic links in `DhfPaths`, with the file tree changing between `realpath`
   and the call that uses its answer.
