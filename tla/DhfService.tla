------------------------------ MODULE DhfService ------------------------------
(***************************************************************************)
(* Mailbox and file service together, as a client sees them.  The delivery *)
(* is the one DhfMailbox was shown to implement, DhfRpc: requests go out   *)
(* one by one, and a request whose answer was lost with the host process   *)
(* is carried out again by the next one.  What carrying out means is       *)
(* DhfHost.  The host keeps fds and streams in its own memory only: each   *)
(* start of the process begins without any, while the client goes on using *)
(* the numbers it was told.                                                *)
(*                                                                         *)
(* The client is external: it asks for any name and for any number it was  *)
(* told, in whatever life of the host that was.  It closes no directories; *)
(* DhfHost shows what that does to files.                                  *)
(*                                                                         *)
(* FdsSurvive is a slip the code avoids; no action uses it.                *)
(***************************************************************************)
EXTENDS DhfHost

CONSTANTS
  MaxRequests,   \* bound: how many requests the client issues
  MaxLives       \* bound: how often the host is started

ASSUME ServiceAssumption ==
  MaxRequests \in Nat \ {0} /\ MaxLives \in Nat \ {0}

VARIABLES
  stage, answer, crashes,   \* the delivery, as in DhfRpc
  \* the client
  asked,        \* the request issued last
  about,        \* the file it is about, if it names an fd
  known,        \* the open files of the client: fd, what for, told in which life
  knownDir,     \* the directory handles it was told
  \* history; the first three of the request issued last
  runs,         \* how often it was carried out
  effects,      \* how often that wrote to a file or deleted one
  ranIn,        \* the life in which it was carried out last
  life,         \* the starts of the host so far
  staleClosed   \* has a number of an earlier life closed an fd of this one?

Rpc == INSTANCE DhfRpc WITH stage <- stage, answer <- answer, crashes <- crashes

delivery == <<stage, answer, crashes>>
talk     == <<asked, about, known, knownDir>>
history  == <<runs, effects, ranIn, life, staleClosed>>

Life   == 1..MaxLives
Told   == [fd : HostFd, file : Object, life : Life]
NoFile == [fd |-> Count, file |-> Closed, life |-> 0]

ServiceTypeOK ==
  /\ TypeOK /\ ~collided
  /\ stage \in [Rpc!Request -> Rpc!Stage] /\ crashes \in 0..MaxLives-1
  /\ asked \in Asks(HostFd, Handle) /\ asked.op # "CloseDir"
  /\ about \in Told \cup {NoFile}
  /\ known \subseteq Told /\ knownDir \subseteq Handle
  /\ runs \in 0..MaxLives /\ effects \in 0..runs /\ ranIn \in 0..life
  /\ life \in Life /\ staleClosed \in BOOLEAN

ServiceInit ==
  /\ Init /\ Rpc!Init
  /\ asked = [op |-> "Ping"] /\ about = NoFile /\ known = {} /\ knownDir = {}
  /\ runs = 0 /\ effects = 0 /\ ranIn = 0 /\ life = 1 /\ staleClosed = FALSE
-------------------------------------------------------------------------------
\* The client issues a request; one that names an fd is about an open file.
Issue(r) ==
  /\ Rpc!Call(r)
  /\ \/ asked' \in Asks({}, knownDir) /\ about' = NoFile
     \/ \E k \in known :
          asked' \in Asks({k.fd}, {}) \ Asks({}, {}) /\ about' = k
  /\ asked'.op # "CloseDir"
  /\ runs' = 0 /\ effects' = 0 /\ ranIn' = 0
  /\ UNCHANGED <<vars, known, knownDir, life, staleClosed>>

\* What must not happen twice for one request.
Takes == kind' # kind \/ (asked.op = "Write" /\ result_code' = OK)

\* The host finds the request in the mailbox, and its handler runs.
Carry(r) ==
  /\ Rpc!Execute(r)
  /\ Serve(asked) /\ request' = asked
  /\ runs' = runs + 1 /\ ranIn' = life
  /\ effects' = IF Takes THEN effects + 1 ELSE effects
  /\ staleClosed' = (staleClosed
       \/ (asked.op = "CloseFile" /\ result_code' = OK /\ about.life # life))
  /\ UNCHANGED <<talk, life>>

\* The client takes the answer: a new open file, a handle, or one file less.
Opened == asked.op \in {"Create", "Open"} /\ result_code = OK
Deliver(r) ==
  /\ Rpc!Answer(r)
  /\ known' =
       (IF asked.op = "CloseFile" THEN known \ {about} ELSE known)
         \cup {k \in [fd : {result_len}, life : {ranIn},
                      file : [on : {"ro", "rw"}, node : Node]] :
                 /\ Opened
                 /\ k.file.on = (IF asked.op = "Create" THEN "rw" ELSE "ro")
                 /\ k.file.node = BaseOf[asked.name]}
  /\ knownDir' = IF asked.op = "Opendir" /\ result_code = OK
                 THEN knownDir \cup {result_len} ELSE knownDir
  /\ UNCHANGED <<vars, asked, about, history>>

\* main anew: the kernel has closed the fds of the old process, dir_table is
\* zeroed, and the files and the mapped memory are as they were left.
FdsSurvive == openOn
FreshFds   == [f \in HostFd |-> IF f \in Inherited THEN Std ELSE Closed]

Reborn ==
  /\ life < MaxLives /\ life' = life + 1
  /\ openOn' = FreshFds
  /\ dirFd' = [h \in Handle |-> Free] /\ dirPos' = [h \in Handle |-> 0]
  /\ errno' = OK
  /\ heldFd' = [f \in HostFd |-> Closed] /\ heldDir' = {}
  /\ UNCHANGED <<kind, result, request, collided, talk, runs, effects, ranIn,
                 staleClosed>>

\* The process is killed and started again; or it is interrupted, which lets it
\* finish what it is at.
CrashAndRestart == Rpc!Crash /\ Reborn
ExitAndRestart  == Reborn /\ UNCHANGED delivery

ServiceNext ==
  \/ \E r \in Rpc!Request : Issue(r) \/ Carry(r) \/ Deliver(r)
  \/ CrashAndRestart \/ ExitAndRestart

ServiceSpec == ServiceInit /\ [][ServiceNext]_<<vars, delivery, talk, history>>
-------------------------------------------------------------------------------
(***************************************************************************)
(* Properties.                                                             *)
(***************************************************************************)

\* A request takes effect at most once, although the host has no memory of what
\* it has carried out and repeats whatever the mailbox still holds: what is
\* deleted is not there to be deleted again, and the fd of a write died with the
\* process that wrote, while the client waits and opens nothing.
EffectAtMostOnce == effects <= 1

\* The answer is honest about the effect but for crashes.  Told OK, the file is
\* deleted, the bytes are written; told an error, they are not, unless the
\* request was carried out before, by a process that died before it could say
\* so.  There, and only there, a client hears an error for what was done.
AnswerIsHonest ==
  [][\A r \in Rpc!Request : stage[r] = "executed" /\ stage'[r] = "answered" =>
       /\ result_code = OK /\ asked.op \in {"Write", "Delete"} => effects = 1
       /\ result_code # OK /\ effects = 1 => runs > 1]_<<stage, result, effects, runs>>

\* Client and host agree on what is open.  A file the client was told of by
\* this life of the host is open under its number, until its Close is carried
\* out; the only thing that can take it away is a number of an earlier life
\* that the client closes late.  And every file the host has open the client
\* knows of, or will when it takes the answer: a repeated Open leaves none over.
OpenAsTold(k) ==
  (k.fd \in HostFd /\ openOn[k.fd] = k.file) \/ (about = k /\ asked.op = "CloseFile")

OpenFilesAgree ==
  /\ ~staleClosed => \A k \in known : k.life = life => OpenAsTold(k)
  /\ \A f \in HostFd : openOn[f].on \in {"ro", "rw"} =>
       \/ \E k \in known : k.fd = f /\ k.life = life /\ k.file = openOn[f]
       \/ Opened /\ result_len = f /\ ranIn = life
            /\ \E r \in Rpc!Request : stage[r] = "executed"
===============================================================================
