------------------------------- MODULE QBoot -------------------------------
(***************************************************************************)
(* Stage 2 of Q-Boot: main() with its console, calibration, countdown and  *)
(* autoboot, and the shell cli_run() it goes to when a key is pressed, on  *)
(* the console console_uart.c, in both builds: the simulator on standard   *)
(* input and output, and the ROM image on a 16550.                         *)
(*                                                                         *)
(* A key is one byte of input.  Command names, variables and values are    *)
(* words of single keys; commands that only print are all alike.           *)
(*                                                                         *)
(* LastSecondSkipped, SecondStuck, RoomForAll, EchoAnyway and BlanksCount  *)
(* are slips the code avoids; no action uses them.                         *)
(***************************************************************************)
EXTENDS Integers, Sequences, SequencesExt, FiniteSets, Descriptors

CONSTANTS
  Letter,     \* the keys that stand for themselves
  BootCmd, ResetCmd, SetenvCmd,  \* the words of these commands
  Variable,   \* the words that name a variable of setup_env
  MaxLine,    \* MAX_LINE_LEN (80)
  MaxArgs,    \* MAX_ARGS (8)
  MaxValue,   \* characters of a variable's value (31)
  Seconds,    \* the countdown's seconds (3)
  Polls       \* bound: polls of the console in a second (10000000)

Space     == "space"
Backspace == "backspace"  \* 8 or 127
Enter     == "enter"      \* CR or LF
EndOfFile == "eof"        \* getchar()'s EOF as a char: an ordinary byte
Nul       == "nul"        \* byte 0
Printing  == Letter \cup {Space}
Key       == Printing \cup {Backspace, Enter, Nul}
Character == Printing \cup {Nul, EndOfFile}   \* what may stand in a line

ASSUME QBootAssumption ==
  /\ Letter \cap {Space, Backspace, Enter, EndOfFile, Nul} = {}
  /\ {BootCmd, ResetCmd, SetenvCmd} \cup Variable \subseteq Seq(Letter)
  /\ Cardinality({BootCmd, ResetCmd, SetenvCmd}) = 3
  /\ MaxLine \in Nat \ {0} /\ MaxArgs \in Nat /\ MaxArgs >= 3
  /\ MaxValue \in Nat /\ Seconds \in Nat \ {0} /\ Polls \in Nat \ {0}

VARIABLES
  build,    \* "simulator" or "rom"
  pc,       \* where the program is
  sec,      \* the second of the countdown
  polls,    \* polls left in it
  input,    \* the key waiting at the console, at most one
  closed,   \* standard input has ended
  line,     \* the shell's line[0..line_idx-1]
  env,      \* setup_env
  rating,   \* bios_vector_table.qumips_rating
  \* history
  screen,   \* the echoes behind the prompt that have not been taken back
  inTime,   \* a key came, or the input ended, with a poll still to make
  loaded,   \* the autoboot sequence has been through
  asked     \* the command that left the shell

vars == <<build, pc, sec, polls, input, closed, line, env, rating, screen, inTime,
          loaded, asked>>

Rating == 1250  \* what calculate_qumips always measures
Unset == <<>>  \* the value a variable has from the start

TypeOK ==
  /\ build \in {"simulator", "rom"}
  /\ pc \in {"init", "calibrate", "countdown", "autoboot", "shell", "command",
             "stopped", "halted", "crashed"}
  /\ sec \in 0..Seconds /\ polls \in 0..Polls
  /\ input \in Seq(Key) /\ Len(input) <= 1
  /\ closed \in BOOLEAN /\ (closed => build = "simulator")
  /\ line \in Seq(Character) /\ Len(line) < MaxLine
  /\ env \in [Variable -> Seq(Character)]
  /\ \A v \in Variable : Len(env[v]) <= MaxValue
  /\ rating \in {0, Rating}
  /\ inTime \in BOOLEAN /\ loaded \in BOOLEAN
  /\ asked \in {"nothing", "boot", "reset"}

Init ==
  /\ build \in {"simulator", "rom"} /\ pc = "init"
  /\ sec = Seconds /\ polls = Polls
  /\ input = <<>> /\ closed = FALSE
  /\ line = <<>> /\ screen = <<>>
  /\ env = [v \in Variable |-> Unset] /\ rating = 0
  /\ inTime = FALSE /\ loaded = FALSE /\ asked = "nothing"
----------------------------------------------------------------------------
(***************************************************************************)
(* The console and who sits at it.                                         *)
(***************************************************************************)

\* uart_tstc: the end of standard input counts as a key.
Ready == input # <<>> \/ closed

PollToCome == pc \in {"init", "calibrate"} \/ (pc = "countdown" /\ (sec > 1 \/ polls > 0))

\* A key before the shell runs.  The 16550 holds one, and the next overruns it;
\* standard input keeps them all, of which the model follows the first.
Type ==
  /\ pc \in {"init", "calibrate", "countdown", "autoboot"} /\ ~closed
  /\ \E k \in Key : input' = IF build = "simulator" /\ input # <<>> THEN input ELSE <<k>>
  /\ inTime' = (inTime \/ PollToCome)
  /\ UNCHANGED <<build, pc, sec, polls, closed, line, env, rating, screen, loaded, asked>>

Close ==
  /\ build = "simulator" /\ ~closed /\ closed' = TRUE
  /\ pc \in {"init", "calibrate", "countdown", "autoboot", "shell", "command"}
  /\ inTime' = (inTime \/ PollToCome)
  /\ UNCHANGED <<build, pc, sec, polls, input, line, env, rating, screen, loaded, asked>>

\* uart_getc: the waiting key, the end of the input, or, blocking, the next key
\* typed.
Getc(k) ==
  \/ input = <<k>> /\ input' = <<>>
  \/ input = <<>> /\ closed /\ k = EndOfFile /\ UNCHANGED input
  \/ input = <<>> /\ ~closed /\ k \in Key /\ UNCHANGED input
----------------------------------------------------------------------------
(***************************************************************************)
(* main()                                                                  *)
(***************************************************************************)

\* main has room for one header and gets a whole descriptor; what lies behind
\* its variable is up to the compiler.  The first device is the UART console_init
\* takes for the console, which it is already.
ConsoleInit ==
  /\ pc = "init"
  /\ \/ pc' = "calibrate"
     \/ pc' = "crashed" /\ Overruns(SystemDescriptors, 1)
  /\ UNCHANGED <<build, sec, polls, input, closed, line, env, rating, screen, inTime,
                 loaded, asked>>

\* main stores the rating into bios_vector_table, which is const: in ROM the
\* store is lost, and where the page is read-only the program dies.
Calibrate ==
  /\ pc = "calibrate"
  /\ \/ pc' = "crashed" /\ build = "simulator" /\ UNCHANGED rating
     \/ pc' = "countdown" /\ build = "rom" /\ UNCHANGED rating
     \/ pc' = "countdown" /\ rating' = Rating
  /\ UNCHANGED <<build, sec, polls, input, closed, line, env, screen, inTime, loaded, asked>>

\* One poll of the countdown.  The key that stops it is read and dropped, and
\* the loop's variables end with the loop.
Poll ==
  /\ pc = "countdown" /\ polls > 0
  /\ IF Ready
     THEN pc' = "shell" /\ (\E k \in Key \cup {EndOfFile} : Getc(k))
          /\ sec' = 0 /\ polls' = 0
     ELSE polls' = polls - 1 /\ UNCHANGED <<pc, input, sec>>
  /\ UNCHANGED <<build, closed, line, env, rating, screen, inTime, loaded, asked>>

LastSecondSkipped == sec <= 2
LastSecond        == sec <= 1

SecondStuck == sec
NextSecond  == sec - 1

EndSecond ==
  /\ pc = "countdown" /\ polls = 0
  /\ sec' = NextSecond
  /\ IF LastSecond THEN pc' = "autoboot" /\ UNCHANGED polls
                   ELSE polls' = Polls /\ UNCHANGED pc
  /\ UNCHANGED <<build, input, closed, line, env, rating, screen, inTime, loaded, asked>>

\* bios_storage_info calls every medium bootable; main then only reports that
\* the kernel was loaded and started, and goes on.
Bootable == TRUE

Autoboot ==
  /\ pc = "autoboot"
  /\ IF Bootable THEN pc' = "stopped" /\ loaded' = TRUE
                 ELSE pc' = "shell" /\ UNCHANGED loaded
  /\ UNCHANGED <<build, sec, polls, input, closed, line, env, rating, screen, inTime, asked>>

\* bios_system_reset is an endless loop.
SystemReset ==
  /\ pc = "stopped" /\ pc' = "halted"
  /\ UNCHANGED <<build, sec, polls, input, closed, line, env, rating, screen, inTime,
                 loaded, asked>>
----------------------------------------------------------------------------
(***************************************************************************)
(* cli_run()                                                               *)
(***************************************************************************)
RoomForAll == Len(line) < MaxLine
Room       == Len(line) < MaxLine - 1

EchoAnyway(k) == screen' = Append(screen, k)
\* A key that has no room is not echoed either.
Echo(k) == screen' = IF Room THEN Append(screen, k) ELSE screen

\* One round of the inner loop.
ReadKey ==
  /\ pc = "shell"
  /\ \E k \in Key \cup {EndOfFile} :
       /\ Getc(k)
       /\ \/ k = Enter /\ pc' = "command" /\ UNCHANGED <<line, screen>>
          \/ /\ k = Backspace /\ UNCHANGED pc
             /\ IF line = <<>> THEN UNCHANGED <<line, screen>>
                ELSE line' = Front(line) /\ screen' = Front(screen)
          \/ /\ k \notin {Enter, Backspace} /\ UNCHANGED pc
             /\ line' = IF Room THEN Append(line, k) ELSE line
             /\ Echo(k)
  /\ UNCHANGED <<build, sec, polls, closed, env, rating, inTime, loaded, asked>>

BlanksCount(args, c) ==
  IF c = Space
  THEN [args EXCEPT !.argv = IF Len(@) < MaxArgs THEN Append(@, <<>>) ELSE @]
  ELSE [args EXCEPT !.argv = IF @ = <<>> THEN << <<c>> >>
                             ELSE [@ EXCEPT ![Len(@)] = Append(@, c)]]

\* One character of the tokenizer's pass; inWord says that argv[argc-1] has not
\* been terminated yet.
Token(args, c) ==
  IF c = Space THEN [args EXCEPT !.inWord = FALSE]
  ELSE IF args.inWord THEN [args EXCEPT !.argv[Len(args.argv)] = Append(@, c)]
  ELSE IF Len(args.argv) < MaxArgs
  THEN [argv |-> Append(args.argv, <<c>>), inWord |-> TRUE]
  ELSE args

\* For the tokenizer the line ends at its first byte 0, be it typed or the one
\* put behind the line.
CString(text) ==
  LET end == CHOOSE n \in 0..Len(text) :
               (\A i \in 1..n : text[i] # Nul) /\ (n < Len(text) => text[n+1] = Nul)
  IN  SubSeq(text, 1, end)

\* The tokenizer's one pass.
Split(text) ==
  LET args[n \in 0..Len(text)] ==
        IF n = 0 THEN [argv |-> <<>>, inWord |-> FALSE] ELSE Token(args[n-1], text[n])
  IN args[Len(text)].argv

Argv(text) == Split(CString(text))

\* cmd_setenv: without a key or a value, or with an unknown key, only a message.
Setenv(argv) ==
  env' = [v \in Variable |->
            IF Len(argv) > 2 /\ argv[2] = v
            THEN SubSeq(argv[3], 1, IF Len(argv[3]) < MaxValue THEN Len(argv[3]) ELSE MaxValue)
            ELSE env[v]]

\* strcmp_local of the first word and the name of a command.
Is(argv, cmd) == argv # <<>> /\ argv[1] = cmd

\* An empty line, a command that only prints, a name that is none; md and mw
\* read and write the machine's memory outside this model.
OnlyPrints(argv) ==
  /\ \A cmd \in {BootCmd, ResetCmd, SetenvCmd} : ~Is(argv, cmd)
  /\ pc' = "shell" /\ UNCHANGED <<env, asked>>

\* The command on the line is run; but for boot and reset there is a new prompt.
Command ==
  LET argv == Argv(line)
  IN  /\ pc = "command"
      /\ line' = <<>> /\ screen' = <<>>
      /\ \/ Is(argv, BootCmd) /\ asked' = "boot" /\ pc' = "stopped" /\ UNCHANGED env
         \/ Is(argv, ResetCmd) /\ asked' = "reset" /\ pc' = "halted" /\ UNCHANGED env
         \/ Is(argv, SetenvCmd) /\ Setenv(argv) /\ pc' = "shell" /\ UNCHANGED asked
         \/ OnlyPrints(argv)
      /\ UNCHANGED <<build, sec, polls, input, closed, rating, inTime, loaded>>
----------------------------------------------------------------------------
Main == ConsoleInit \/ Calibrate \/ Poll \/ EndSecond \/ Autoboot \/ SystemReset
Over == pc \in {"halted", "crashed"} /\ UNCHANGED vars

Next == Type \/ Close \/ Main \/ ReadKey \/ Command \/ Over

Spec == Init /\ [][Next]_vars
----------------------------------------------------------------------------
(***************************************************************************)
(* Properties                                                              *)
(***************************************************************************)

\* README: the boot is stopped by a key pressed during the countdown.  A key
\* that comes before the last poll, in a gap between two seconds or even before
\* the countdown, keeps the autoboot from running.
KeyStopsAutoboot == inTime => pc # "autoboot" /\ ~loaded

\* What was echoed behind the prompt and not taken back is the line, through
\* corrections and with a full buffer.
ScreenShowsLine == screen = line

\* The words of a text: its maximal runs without a space, in order.
WordStarts(text) ==
  {i \in 1..Len(text) : text[i] # Space /\ (i > 1 => text[i-1] = Space)}
IsWord(word, text, i) ==
  /\ word = SubSeq(text, i, i + Len(word) - 1)
  /\ Space \notin {word[j] : j \in 1..Len(word)}
  /\ i + Len(word) <= Len(text) => text[i + Len(word)] = Space

\* The one pass of the tokenizer over the line it overwrites finds the words of
\* the line up to a byte 0, the first MaxArgs of them, each at its place.
ArgvAreWords ==
  pc = "command" =>
    LET argv     == Argv(line)
        text     == CString(line)
        starts   == WordStarts(text)
        place(i) == Cardinality({j \in starts : j <= i})
    IN  /\ Len(argv) = IF Cardinality(starts) < MaxArgs THEN Cardinality(starts) ELSE MaxArgs
        /\ \A i \in starts : place(i) <= MaxArgs => IsWord(argv[place(i)], text, i)

\* Whatever devices a system has, the shell's info command shows every device
\* it has room for as its header says, and get_descriptors leaves an array
\* exactly when a device longer than a header is copied to its last place.
InfoShowsDevices ==
  pc = "init" =>
    \A n \in 0..3 : \A list \in [1..n -> {"SCF", "RBF", "NFM"}], max \in 0..4 :
      HeadersStand(list, max)

\* "boot - Startet das Betriebssystem (Autoboot)" (cli.c, help text): the boot
\* command runs the autoboot before the system halts.
BootBoots == pc = "halted" /\ asked = "boot" => loaded
=============================================================================
