------------------------------- MODULE DhfPaths -------------------------------
(***************************************************************************)
(* The operations of the DHF driver that take a path: chdir, mkdir, rmdir, *)
(* unlink, rename, truncate, opendir, getstat and setstat of dhfdrv-68k.c, *)
(* with confined_path of the host simulator and the base path of the       *)
(* descriptor.  The manager passes them on unchanged.  They work on the    *)
(* host's tree of directories, which is here the parent and the name of    *)
(* each file; symbolic links and permissions are left out.                 *)
(*                                                                         *)
(* TargetOnly, LooseConfined and TruncateAny are slips the code avoids; no *)
(* action uses them.                                                       *)
(***************************************************************************)
EXTENDS Integers, Sequences

CONSTANTS
  Node,        \* the files and directories of the host
  Dir,         \* which of them are directories
  Root,        \* the directory "/"
  Component,   \* the names a path is made of, ".." aside
  Longer,      \* the pairs of names of which the first begins with the second
  Path,        \* the paths the callers use: sequences of components
  Base,        \* the base paths in use: absolute or not, and components
  InitParent, InitName, InitCwd, InitBase,
  MaxStreams   \* bound: how many fds the process has for directories

Up      == ".."
Gone    == "gone"
Nowhere == "nowhere"

ASSUME PathsAssumption ==
  /\ Root \in Dir /\ Dir \subseteq Node
  /\ Longer \subseteq Component \X Component
  /\ Path \subseteq Seq(Component \cup {Up})
  /\ Base \subseteq [abs : BOOLEAN, comps : Seq(Component \cup {Up})]
  /\ InitParent \in [Node -> Dir] /\ InitParent[Root] = Root
  /\ InitName \in [Node -> Component]
  /\ \A m, n \in Node \ {Root} :
       m # n => <<InitParent[m], InitName[m]>> # <<InitParent[n], InitName[n]>>
  /\ {Gone, Nowhere} \cap Node = {} /\ Gone # Nowhere
  /\ InitCwd \in Dir /\ InitBase \in Base
  /\ MaxStreams \in Nat

VARIABLES
  parent,    \* the directory each file is in, Gone when it was removed
  name,      \* its name there; that of Root means nothing
  cut,       \* the files that were truncated
  cwd,       \* the working directory of the process
  basepath,  \* as in dhf_descriptor.c
  streams,   \* directory streams opened; nothing ever closes one
  result     \* what the last call returned

tree == <<parent, name, cut>>
vars == <<tree, cwd, basepath, streams, result>>

OK      == 0
Failed  == -1
Stream  == 1      \* a DIR pointer, cut to an int

TypeOK ==
  /\ parent \in [Node -> Dir \cup {Gone}] /\ parent[Root] = Root
  /\ name \in [Node -> Component]
  /\ cut \subseteq Node \ Dir
  /\ cwd \in Dir /\ basepath \in Base
  /\ streams \in 0..MaxStreams
  /\ result \in {OK, Failed, Stream}

Init ==
  /\ parent = InitParent /\ name = InitName /\ cut = {}
  /\ cwd = InitCwd /\ basepath = InitBase
  /\ streams = 0 /\ result = OK
-------------------------------------------------------------------------------
(***************************************************************************)
(* realpath, and the two tests for being under the base path.              *)
(***************************************************************************)

\* One component further: a file has nothing below it, and Root is above Root.
Step(n, c) ==
  LET below == {m \in Node \ {Root} : parent[m] = n /\ name[m] = c}
  IN IF n \notin Dir THEN Nowhere
     ELSE IF c = Up THEN parent[n]
     ELSE IF below = {} THEN Nowhere ELSE CHOOSE m \in below : TRUE

\* A relative path starts at the working directory, if that still exists.
RealPath(abs, comps) ==
  LET start == IF abs THEN Root ELSE IF parent[cwd] = Gone THEN Nowhere ELSE cwd
      at[i \in 0..Len(comps)] == IF i = 0 THEN start ELSE Step(at[i-1], comps[i])
  IN at[Len(comps)]

RealBase == RealPath(basepath.abs, basepath.comps)

\* The path is appended to the base path, with or without a slash before it.
Candidate(p) == RealPath(basepath.abs, basepath.comps \o p)

\* A file and the directories from there up to Root: those in every set that holds
\* the file's directory and, of each of its members, the directory that is in.
Ancestors(n) ==
  LET Upwards == {S \in SUBSET Dir : \A m \in S \cup {n} : parent[m] \in S \cup {Gone}}
  IN {n} \cup {d \in Dir : \A S \in Upwards : d \in S}

\* confined_path: the strings are equal up to the end of the base, and there the
\* other one ends or goes on with a slash.  The string of Root ends in the slash,
\* so that under a base of "/" only "/" itself passes.
Inside(b, n) == IF b = Root THEN n = Root ELSE b \in Ancestors(n)

\* dhfdrv_chdir compares the strings up to the end of the base, and no further.
LooksInside(b, n) ==
  b = Root \/ \E a \in Ancestors(n) :
                a = b \/ (a # Root /\ parent[a] = parent[b]
                            /\ <<name[a], name[b]>> \in Longer)

LooseConfined(n) == n \in Node /\ RealBase # Nowhere /\ LooksInside(RealBase, n)
Confined(n) == n \in Node /\ RealBase # Nowhere /\ Inside(RealBase, n)
-------------------------------------------------------------------------------
(***************************************************************************)
(* The calls.  What is refused changes nothing.                            *)
(***************************************************************************)
Fail == result' = Failed /\ UNCHANGED <<tree, cwd, basepath, streams>>

Empty(n) == \A m \in Node \ {Root} : parent[m] # n

SetBasePath(b) ==
  /\ basepath' = b /\ result' = OK
  /\ UNCHANGED <<tree, cwd, streams>>

Chdir(p) ==
  LET n == Candidate(p) IN
  IF RealBase # Nowhere /\ n \in Dir /\ LooksInside(RealBase, n)
  THEN cwd' = n /\ result' = OK /\ UNCHANGED <<tree, basepath, streams>>
  ELSE Fail

\* mkdir() of the host, with the path that n has: it makes a directory where
\* there is nothing.
MkdirCall(n) ==
  IF n # Root /\ parent[n] \in Dir /\ Step(parent[n], name[n]) = Nowhere
  THEN \E m \in Dir :
         /\ parent[m] = Gone
         /\ parent' = [parent EXCEPT ![m] = parent[n]]
         /\ name' = [name EXCEPT ![m] = name[n]]
         /\ result' = OK /\ UNCHANGED <<cut, cwd, basepath, streams>>
  ELSE Fail

Mkdir(p) ==
  LET n == Candidate(p) IN
  IF Confined(n) THEN MkdirCall(n) ELSE Fail

\* getstat and setstat are stubs.
GetStat(p) == Fail
SetStat(p) == Fail

Vanish(n) ==
  /\ parent' = [parent EXCEPT ![n] = Gone] /\ result' = OK
  /\ UNCHANGED <<name, cut, cwd, basepath, streams>>

Rmdir(p) ==
  LET n == Candidate(p) IN
  IF Confined(n) /\ n \in Dir \ {Root} /\ Empty(n) THEN Vanish(n) ELSE Fail

Unlink(p) ==
  LET n == Candidate(p) IN
  IF Confined(n) /\ n \notin Dir THEN Vanish(n) ELSE Fail

\* rename() of the host: a file replaces a file, a directory an empty one that
\* it does not contain.
Replaces(o, n) ==
  IF o \in Dir THEN n \in Dir /\ Root \notin {o, n} /\ Empty(n) /\ o \notin Ancestors(n)
  ELSE n \notin Dir

TargetOnly(o, n) == o \in Node /\ Confined(n)
BothConfined(o, n) == Confined(o) /\ Confined(n)

Move(o, n) ==
  /\ parent' = [parent EXCEPT ![n] = Gone, ![o] = parent[n]]
  /\ name' = [name EXCEPT ![o] = name[n]]
  /\ result' = OK
  /\ UNCHANGED <<cut, cwd, basepath, streams>>

\* Both paths go through confined_path, so there must be a file to replace.
Rename(p, q) ==
  LET o == Candidate(p)
      n == Candidate(q)
  IN IF ~BothConfined(o, n) THEN Fail
     ELSE IF o = n THEN result' = OK /\ UNCHANGED <<tree, cwd, basepath, streams>>
     ELSE IF Replaces(o, n) THEN Move(o, n) ELSE Fail

TruncateAny(p) ==
  LET n == Candidate(p) IN
  IF Confined(n)
  THEN /\ cut' = cut \cup {n} /\ result' = OK
       /\ UNCHANGED <<parent, name, cwd, basepath, streams>>
  ELSE Fail

Truncate(p) ==
  LET n == Candidate(p) IN
  IF Confined(n) /\ n \notin Dir
  THEN /\ cut' = cut \cup {n} /\ result' = OK
       /\ UNCHANGED <<parent, name, cwd, basepath, streams>>
  ELSE Fail

\* The stream's fd is never given back: there is no closedir in the driver.
Opendir(p) ==
  LET n == Candidate(p) IN
  IF Confined(n) /\ n \in Dir /\ streams < MaxStreams
  THEN /\ streams' = streams + 1 /\ result' = Stream
       /\ UNCHANGED <<tree, cwd, basepath>>
  ELSE Fail

Next ==
  \/ \E b \in Base : SetBasePath(b)
  \/ \E p \in Path :
       \/ Chdir(p) \/ Mkdir(p) \/ Rmdir(p) \/ Unlink(p) \/ Truncate(p) \/ Opendir(p)
       \/ GetStat(p) \/ SetStat(p)
       \/ \E q \in Path : Rename(p, q)

Spec == Init /\ [][Next]_vars
-------------------------------------------------------------------------------
(***************************************************************************)
(* Properties.                                                             *)
(***************************************************************************)

\* Whatever is called, with whatever path, and wherever an earlier chdir has
\* led: no file that is not under the base path at the time is removed, moved,
\* renamed or truncated, and nothing from outside is moved in.
OutsideUntouched ==
  [][\A n \in Node :
       \/ parent'[n] = parent[n] /\ name'[n] = name[n] /\ (n \in cut' <=> n \in cut)
       \/ RealBase # Nowhere /\ Inside(RealBase, n)]_vars

\* An absolute base path goes on meaning the directory it means, until that is
\* removed: no rename of the directory, of one above it or of another one onto
\* it puts something else in its place, and no chdir matters.  A relative base
\* path has no such constancy, it is looked up from the working directory.
BaseStays ==
  [][basepath.abs /\ basepath' = basepath => RealBase' \in {RealBase, Nowhere}]_vars

\* "Ensure path confinement so basepath cannot be escaped by chdir/cd
\* operations": a chdir leads to the base directory or to one below it.
ChdirStaysInside ==
  [][cwd' # cwd => RealBase # Nowhere /\ RealBase \in Ancestors(cwd')]_vars
===============================================================================
