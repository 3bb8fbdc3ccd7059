-------------------------------- MODULE DhfHost --------------------------------
(***************************************************************************)
(* The file service of the DHF host simulator: what each request of        *)
(* host_simulator/main.c does to the host's files, to the process's fds,   *)
(* to the table of DIR streams and to errno, and what it answers.  The     *)
(* mailbox that carries requests and answers is module DhfMailbox; here a  *)
(* handler is one step.  One life of the process is modelled, and a client *)
(* that asks only for the fds and handles it was given in it; DhfService   *)
(* adds restarts.                                                          *)
(*                                                                         *)
(* LenKept, KeptOpen, SlotKept, ClosesOne, OpendirEager, EntryPastEnd and  *)
(* DeleteUnchecked are slips the code avoids; no action uses them.         *)
(***************************************************************************)
EXTENDS Integers

CONSTANTS
  Name,       \* the path strings the client uses
  Node,       \* the files and directories under the base path
  BaseOf,     \* the node a name means when it is appended to the base path
  RawOf,      \* the node it means when it is handed to the host as it is
  InitialFs,  \* what each node is at the start
  DirLen,     \* how many entries a directory has
  HostFd,     \* bound: the fds of the process
  Inherited,  \* those open when the loop starts: stdio, the mapped file
  MaxDir,     \* size of dir_table (16 in the code)
  DirCloses   \* does the client close directories (Close with param[4] == 1)?

Outside == "outside"    \* not under the base path, or no such directory
Kinds   == {"absent", "file", "dir"}

ASSUME HostAssumption ==
  /\ BaseOf \in [Name -> Node \cup {Outside}]
  /\ RawOf \in [Name -> Node \cup {Outside}]
  /\ InitialFs \in [Node -> Kinds]
  /\ DirLen \in Nat /\ MaxDir \in Nat \ {0}
  /\ HostFd \subseteq Nat /\ Inherited \subseteq HostFd
  /\ DirCloses \in BOOLEAN

VARIABLES
  kind,       \* the host file system
  openOn,     \* what each fd of the process is open on
  dirFd,      \* dir_table: the fd under each DIR stream, Free when not used
  dirPos,     \* entries each stream has given out
  errno,
  result_code, result_len,
  request,    \* the request answered last: its command and what it names
  \* history
  heldFd,     \* what each fd was given to the client for, and not closed
  heldDir,    \* the directory handles given and not closed
  collided    \* has a handle's close() hit the fd of something else?

process == <<openOn, dirFd, dirPos>>
result  == <<result_code, result_len>>
client  == <<heldFd, heldDir>>
vars    == <<kind, process, errno, result, request, client, collided>>

Handle == 1..MaxDir
Free   == -1
Count  == -1            \* a number of bytes, whatever it is
OK     == "OK"
Errors == {"EACCES", "ENOENT", "EBADF", "EMFILE", "ENOSYS", "EFAULT", "EISDIR",
           "ENOTDIR", "EEXIST"}

\* The requests of a client that knows the fds F and the directory handles H:
\* a code, what its parameters name, and whether offset and length (or the
\* room for the answer) pass the range test of the handler.
Asks(F, H) ==
  [op : {"Create", "Open", "Opendir", "Delete", "MkDir"}, name : Name]
    \cup [op : {"GetStat", "SetStat"}, name : Name, fits : BOOLEAN]
    \cup [op : {"CloseFile"}, fd : F]
    \cup [op : {"Read", "Write"}, fd : F, fits : BOOLEAN]
    \cup [op : {"CloseDir"}, dir : IF DirCloses THEN H ELSE {}]
    \cup [op : {"Readdir"}, dir : H, name : Name, fits : BOOLEAN]
    \cup [op : {"Seek", "Ping"}]

Closed == [on |-> "nothing", node |-> Outside]
Std    == [on |-> "std",     node |-> Outside]
Object == [on : {"nothing", "std", "ro", "rw", "stream"}, node : Node \cup {Outside}]

FreeFds == {f \in HostFd : openOn[f] = Closed}
Used    == {h \in Handle : dirFd[h] # Free}
Held    == {f \in HostFd : heldFd[f] # Closed}

TypeOK ==
  /\ kind \in [Node -> Kinds]
  /\ openOn \in [HostFd -> Object]
  /\ dirFd \in [Handle -> HostFd \cup {Free}]
  /\ dirPos \in [Handle -> 0..DirLen]
  /\ errno \in Errors \cup {OK}
  /\ result_code \in Errors \cup {OK}
  /\ result_len \in HostFd \cup Handle \cup {Count}
  /\ request \in Asks(HostFd, Handle)
  /\ heldFd \in [HostFd -> Object]
  /\ heldDir \subseteq Handle
  /\ collided \in BOOLEAN

Init ==
  /\ kind = InitialFs
  /\ openOn = [f \in HostFd |-> IF f \in Inherited THEN Std ELSE Closed]
  /\ dirFd = [h \in Handle |-> Free] /\ dirPos = [h \in Handle |-> 0]
  /\ errno = OK /\ result_code = OK /\ result_len = Count
  /\ request = [op |-> "Ping"]
  /\ heldFd = [f \in HostFd |-> Closed] /\ heldDir = {} /\ collided = FALSE
-------------------------------------------------------------------------------
(***************************************************************************)
(* Answers, and the host's calls.                                          *)
(***************************************************************************)

\* A success with a number to report; one without leaves result_len as it was.
LenKept(len) == result_code' = OK /\ UNCHANGED <<result_len, errno>>
Answer(len)  == result_code' = OK /\ result_len' = len /\ UNCHANGED errno
Done         == result_code' = OK /\ UNCHANGED <<result_len, errno>>

\* dhf_map_errno(errno) after a host call that failed with e.
FailWith(e)  == result_code' = e /\ errno' = e /\ UNCHANGED result_len

\* An error of the handler's own; errno stays what it was.
Refuse(e)    == result_code' = e /\ UNCHANGED <<result_len, errno>>

\* confined_path resolves with realpath, so the node has to exist; a failing
\* realpath leaves ENOENT behind.
Exists(n)   == n # Outside /\ kind[n] # "absent"
IsDir(n)    == n # Outside /\ kind[n] = "dir"
NotConfined(n) ==
  /\ result_code' = "EACCES" /\ UNCHANGED result_len
  /\ errno' \in {"ENOENT"} \cup (IF n = Outside THEN {errno} ELSE {})

LowestFree(f) == f \in FreeFds /\ \A g \in FreeFds : f <= g
Taken(f, o)   == openOn' = [openOn EXCEPT ![f] = o]
-------------------------------------------------------------------------------
(***************************************************************************)
(* 0x0001 Create and 0x0002 Open: dhf_host_open on base path and name.     *)
(***************************************************************************)

\* open() with O_CREAT makes a file where there is none.
Brought(n, mode) ==
  IF mode = "rw" /\ kind[n] = "absent" THEN [kind EXCEPT ![n] = "file"] ELSE kind

OpenAs(name, mode) ==
  LET n == BaseOf[name]
      o == [on |-> mode, node |-> n]
  IN \/ /\ ~Exists(n) /\ FailWith("EACCES")
        /\ UNCHANGED <<kind, process, client, collided>>
     \/ /\ Exists(n) /\ FreeFds = {} /\ FailWith("EMFILE")
        /\ UNCHANGED <<kind, process, client, collided>>
     \/ /\ Exists(n) /\ mode = "rw" /\ kind[n] = "dir" /\ FreeFds # {}
        /\ FailWith("EISDIR")
        /\ UNCHANGED <<kind, process, client, collided>>
     \/ /\ Exists(n) /\ ~(mode = "rw" /\ kind[n] = "dir")
        /\ \E f \in FreeFds :
             /\ LowestFree(f) /\ Taken(f, o) /\ Answer(f)
             /\ heldFd' = [heldFd EXCEPT ![f] = o]
        /\ kind' = Brought(n, mode)
        /\ UNCHANGED <<dirFd, dirPos, heldDir, collided>>

Create(name) == OpenAs(name, "rw")
Open(name)   == OpenAs(name, "ro")

\* 0x0004 Read and 0x0005 Write; fits: offset and length pass the range test.
Transfer(f, writing, fits) ==
  /\ IF ~fits THEN Refuse("EFAULT")
     ELSE IF openOn[f] = Closed \/ (writing /\ openOn[f].on # "rw")
     THEN FailWith("EBADF")
     ELSE IF ~writing /\ IsDir(openOn[f].node) THEN FailWith("EISDIR")
     ELSE Answer(Count)
  /\ UNCHANGED <<kind, process, client, collided>>

Read(f, fits)  == Transfer(f, FALSE, fits)
Write(f, fits) == Transfer(f, TRUE, fits)

\* dhf_host_close of whatever fd param[2] names.
IsOpen(f) == f \in HostFd /\ openOn[f] # Closed
CloseCall(f) ==
  IF IsOpen(f) THEN Done ELSE FailWith("EBADF")
KeptOpen(f) == openOn
After(f) == [openOn EXCEPT ![f] = Closed]

\* 0x0006 Close of a file.
CloseFile(f) ==
  /\ CloseCall(f)
  /\ openOn' = After(f)
  /\ heldFd' = [heldFd EXCEPT ![f] = Closed]
  /\ UNCHANGED <<kind, dirFd, dirPos, heldDir, collided>>

\* 0x0006 Close with param[4] == 1: first the fd that has the handle's number,
\* whose result is the answer, then closedir, which closes the stream's fd if
\* that is still open, and fails if not.
SlotKept(h)  == dirFd
SlotGiven(h) == [dirFd EXCEPT ![h] = Free]
ClosesOne(h) == {h}
Closes(h)    == {h} \cup {dirFd[g] : g \in Used \cap {h}}
StreamLost(h) == h \in Used /\ (dirFd[h] = h \/ openOn[dirFd[h]] = Closed)

CloseDir(h) ==
  /\ result_code' = IF IsOpen(h) THEN OK ELSE "EBADF"
  /\ errno' = IF IsOpen(h) /\ ~StreamLost(h) THEN errno ELSE "EBADF"
  /\ UNCHANGED result_len
  /\ openOn' = [f \in HostFd |-> IF f \in Closes(h) THEN Closed ELSE openOn[f]]
  /\ dirFd' = SlotGiven(h)
  /\ dirPos' = [dirPos EXCEPT ![h] = 0]
  /\ heldDir' = heldDir \ {h}
  /\ collided' = (collided \/ (IsOpen(h) /\ dirFd[h] # h))
  /\ UNCHANGED <<kind, heldFd>>
-------------------------------------------------------------------------------
(***************************************************************************)
(* Requests by name: the name goes to confined_path as it is.              *)
(***************************************************************************)

\* 0x0003 Seek and 0x000D: not implemented.
NotImplemented ==
  /\ Refuse("ENOSYS")
  /\ UNCHANGED <<kind, process, client, collided>>

\* 0x0021, 0x0022 and every code without a handler.
EchoOK ==
  /\ Done
  /\ UNCHANGED <<kind, process, client, collided>>

\* 0x0007 GetStat
GetStat(name, fits) ==
  /\ IF ~Exists(RawOf[name]) THEN NotConfined(RawOf[name])
     ELSE IF ~fits THEN Refuse("EFAULT") ELSE Answer(Count)
  /\ UNCHANGED <<kind, process, client, collided>>

\* 0x0008 SetStat: the range test comes first, and only chmod is applied.
SetStat(name, fits) ==
  /\ IF ~fits THEN Refuse("EFAULT")
     ELSE IF ~Exists(RawOf[name]) THEN NotConfined(RawOf[name]) ELSE Done
  /\ UNCHANGED <<kind, process, client, collided>>

FirstFree(h) == h \notin Used /\ \A g \in Handle \ Used : h <= g

OpendirEager(name) ==
  LET n == RawOf[name] IN
  /\ Exists(n) /\ Used # Handle /\ FreeFds # {}
  /\ \E h \in Handle, f \in FreeFds :
       /\ FirstFree(h) /\ LowestFree(f)
       /\ dirFd' = [dirFd EXCEPT ![h] = f]
       /\ IF kind[n] = "dir"
          THEN /\ Taken(f, [on |-> "stream", node |-> n])
               /\ heldDir' = heldDir \cup {h} /\ Answer(h)
          ELSE FailWith("ENOTDIR") /\ UNCHANGED <<openOn, heldDir>>
  /\ UNCHANGED <<kind, dirPos, heldFd, collided>>

\* 0x0009 Opendir: a slot of dir_table, then a stream with an fd of its own.
Opendir(name) ==
  LET n == RawOf[name] IN
  \/ /\ ~Exists(n) /\ NotConfined(n)
     /\ UNCHANGED <<kind, process, client, collided>>
  \/ /\ Exists(n) /\ Used = Handle /\ Refuse("EMFILE")
     /\ UNCHANGED <<kind, process, client, collided>>
  \/ /\ Exists(n) /\ Used # Handle /\ FreeFds = {} /\ FailWith("EMFILE")
     /\ UNCHANGED <<kind, process, client, collided>>
  \/ /\ Exists(n) /\ Used # Handle /\ FreeFds # {} /\ kind[n] = "file"
     /\ FailWith("ENOTDIR")
     /\ UNCHANGED <<kind, process, client, collided>>
  \/ /\ Exists(n) /\ kind[n] = "dir"
     /\ \E h \in Handle, f \in FreeFds :
          /\ FirstFree(h) /\ LowestFree(f)
          /\ Taken(f, [on |-> "stream", node |-> n])
          /\ dirFd'   = [dirFd EXCEPT ![h] = f]
          /\ dirPos'  = [dirPos EXCEPT ![h] = 0]
          /\ heldDir' = heldDir \cup {h}
          /\ Answer(h)
     /\ UNCHANGED <<kind, heldFd, collided>>

\* The next entry reaches the client if it fits; if not, it is gone all the same.
Give(fits) == IF fits THEN Answer(Count) ELSE Refuse("EFAULT")

EntryPastEnd(h, fits) ==
  dirPos[h] <= DirLen /\ dirPos' = [dirPos EXCEPT ![h] = @ + 1] /\ Give(fits)

\* readdir() on the stream of a used slot.  Entries after the first may come
\* from the stream's buffer even if its fd is gone.  At the end errno decides,
\* which nothing resets.  Once a close has hit a stream's fd, another directory
\* may be under it, with entries and a position of its own.
NextEntry(h, fits) ==
  LET under == openOn[dirFd[h]]
      alive == IsDir(under.node)
  IN \/ /\ dirPos[h] < DirLen /\ (alive \/ dirPos[h] > 0)
        /\ dirPos' = [dirPos EXCEPT ![h] = @ + 1]
        /\ Give(fits)
     \/ /\ dirPos[h] = DirLen \/ collided
        /\ alive /\ Refuse(IF errno # OK THEN errno ELSE "ENOENT")
        /\ UNCHANGED dirPos
     \/ alive /\ collided /\ Give(fits) /\ UNCHANGED dirPos
     \/ /\ ~alive /\ FailWith(IF under = Closed THEN "EBADF" ELSE "ENOTDIR")
        /\ UNCHANGED dirPos

\* 0x000A Readdir: handle 1 only, and the name has to be good as well.
OnlyHandle(h) == h = 1

Readdir(h, name, fits) ==
  /\ IF ~OnlyHandle(h) \/ (Exists(RawOf[name]) /\ h \notin Used)
     THEN Refuse("EBADF") /\ UNCHANGED dirPos
     ELSE IF ~Exists(RawOf[name])
     THEN NotConfined(RawOf[name]) /\ UNCHANGED dirPos
     ELSE NextEntry(h, fits)
  /\ UNCHANGED <<kind, openOn, dirFd, client, collided>>

DeleteUnchecked(name) ==
  LET n == RawOf[name] IN
  /\ \/ ~Exists(n) /\ NotConfined(n) /\ UNCHANGED kind
     \/ Exists(n) /\ kind[n] = "dir" /\ Done /\ UNCHANGED kind
     \/ Exists(n) /\ kind[n] = "file" /\ Done /\ kind' = [kind EXCEPT ![n] = "absent"]
  /\ UNCHANGED <<process, client, collided>>

\* 0x000B Delete
Delete(name) ==
  LET n == RawOf[name] IN
  /\ \/ ~Exists(n) /\ NotConfined(n) /\ UNCHANGED kind
     \/ Exists(n) /\ kind[n] = "dir" /\ FailWith("EISDIR") /\ UNCHANGED kind
     \/ Exists(n) /\ kind[n] = "file" /\ Done /\ kind' = [kind EXCEPT ![n] = "absent"]
  /\ UNCHANGED <<process, client, collided>>

\* 0x000C MkDir: the test for being under the base path, then mkdir().
MkDir(name) ==
  LET n == RawOf[name] IN
  /\ \/ ~Exists(n) /\ NotConfined(n) /\ UNCHANGED kind
     \/ Exists(n) /\ kind[n] # "absent" /\ FailWith("EEXIST") /\ UNCHANGED kind
     \/ Exists(n) /\ kind[n] = "absent" /\ Done /\ kind' = [kind EXCEPT ![n] = "dir"]
  /\ UNCHANGED <<process, client, collided>>
-------------------------------------------------------------------------------
\* The handler a request comes to.
Serve(q) ==
  \/ q.op = "Create"    /\ Create(q.name)
  \/ q.op = "Open"      /\ Open(q.name)
  \/ q.op = "Seek"      /\ NotImplemented
  \/ q.op = "Read"      /\ Read(q.fd, q.fits)
  \/ q.op = "Write"     /\ Write(q.fd, q.fits)
  \/ q.op = "CloseFile" /\ CloseFile(q.fd)
  \/ q.op = "CloseDir"  /\ CloseDir(q.dir)
  \/ q.op = "GetStat"   /\ GetStat(q.name, q.fits)
  \/ q.op = "SetStat"   /\ SetStat(q.name, q.fits)
  \/ q.op = "Opendir"   /\ Opendir(q.name)
  \/ q.op = "Readdir"   /\ Readdir(q.dir, q.name, q.fits)
  \/ q.op = "Delete"    /\ Delete(q.name)
  \/ q.op = "MkDir"     /\ MkDir(q.name)
  \/ q.op = "Ping"      /\ EchoOK

Next == \E q \in Asks(Held, heldDir) : Serve(q) /\ request' = q

Spec == Init /\ [][Next]_vars
-------------------------------------------------------------------------------
(***************************************************************************)
(* Properties.                                                             *)
(***************************************************************************)

\* Host and client agree on which directory handles exist, through closes that
\* are answered with an error and opens that fail after the slot was found: no
\* slot is lost, none is handed out twice.
HandlesAgree == Used = heldDir

\* Every DIR stream the process has open is in one used slot, so none is lost
\* and none is closed twice; every other fd is one the client holds, on the
\* file it was opened for, or was inherited.
FdsAgree ==
  ~collided =>
  /\ \A h \in Used : openOn[dirFd[h]].on = "stream"
  /\ \A g, h \in Used : dirFd[g] = dirFd[h] => g = h
  /\ \A f \in HostFd :
       \/ openOn[f] = heldFd[f]
       \/ heldFd[f] = Closed /\ openOn[f] = Std /\ f \in Inherited
       \/ heldFd[f] = Closed /\ \E h \in Used : dirFd[h] = f

\* No fd of the process is forgotten: what is open is inherited, or the client
\* was given it and has not closed it, or a used slot will close it.  This holds
\* even after the close() of a directory has hit the fd of something else and
\* the number has been given out again.
NoFdLost ==
  \A f \in HostFd : openOn[f] # Closed =>
    \/ openOn[f] = Std /\ f \in Inherited
    \/ heldFd[f] # Closed
    \/ \E h \in Used : dirFd[h] = f

\* The answer tells the effect.  A request that is refused changes no file, and
\* unless it is a Close, which gives up what it names whatever the result, no
\* fd and no slot: an Opendir that finds no fd or no directory has not used up a
\* slot.  What is there is taken away or replaced only by a Delete of its own
\* name, and a Delete that is answered OK leaves nothing under the name.
EffectsAsAnswered ==
  [][/\ result_code' # OK =>
          /\ kind' = kind
          /\ request'.op \notin {"CloseFile", "CloseDir"}
               => UNCHANGED <<openOn, dirFd, client>>
     /\ \A n \in Node : kind[n] \notin {"absent", kind'[n]} =>
          request'.op = "Delete" /\ RawOf[request'.name] = n
     /\ request'.op = "Delete" /\ result_code' = OK =>
          kind'[RawOf[request'.name]] = "absent"]_vars

\* "Create -> open with O_CREAT": a Create under a name that is free under the
\* base path makes the file, if the process has an fd for it.
CreateMakesFile ==
  [][request'.op = "Create" /\ FreeFds # {} =>
       LET n == BaseOf[request'.name]
       IN  n # Outside /\ kind[n] = "absent" => kind'[n] = "file"]_vars

\* "Opendir, Readdir and handle tracking implemented for up to 16 DIR handles":
\* whichever handle the client was given, a Readdir of it with a name that is
\* under the base path and with room for the answer gives the next entry, as
\* long as there is one.
HandlesAreRead ==
  [][\A h \in heldDir :
       /\ request'.op = "Readdir" /\ request'.dir = h
       /\ request'.fits /\ Exists(RawOf[request'.name])
       /\ ~collided /\ dirPos[h] < DirLen /\ IsDir(openOn[dirFd[h]].node)
       => result_code' = OK]_vars

\* "Also support closing dir handles": closing a directory leaves the files
\* the client has open alone.
DirCloseSparesFiles ==
  [][request'.op = "CloseDir" => \A f \in Held : openOn'[f] = openOn[f]]_vars
===============================================================================
