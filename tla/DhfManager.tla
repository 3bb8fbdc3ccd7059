------------------------------ MODULE DhfManager ------------------------------
(***************************************************************************)
(* The open-file side of the DHF file manager: dhf_manager.c hands out     *)
(* manager fds for path descriptors (pd), each pd has a second copy in an  *)
(* "emulated" block whose 32-bit address the driver dhfdrv-68k.c resolves  *)
(* again on every read, write and close, and the driver works on fds of    *)
(* the host.  Four tables have to agree: the path table, the heap, the     *)
(* emulated copies and the host's fd table.                                *)
(*                                                                         *)
(* KeptBlock, KeptFd, TruncateHalf, CopiedBeforeOpen and CloseForwarded    *)
(* are slips the code avoids; no action uses them.                         *)
(***************************************************************************)
EXTENDS Integers

CONSTANTS
  Path,         \* the files that may be opened
  Addr,         \* bound: the blocks malloc can hand out, by address
  AddrMod,      \* what a block address is truncated to (2^32 in the code)
  MaxPathDesc,  \* size of the path table (64 in the code)
  HostFd,       \* bound: the fds the host allows the process
  Inherited     \* fds open before the manager starts (stdin, stdout, ...)

ASSUME ManagerAssumption ==
  /\ Addr \subseteq Nat \ {0}
  /\ AddrMod \in Nat \ {0}
  /\ MaxPathDesc \in Nat \ {0}
  /\ HostFd \subseteq Nat
  /\ Inherited \subseteq HostFd
  /\ "none" \notin Path /\ "inherited" \notin Path

VARIABLES
  heap,         \* the allocated blocks
  hostFd,       \* pd->host_fd of the block at each address
  private,      \* pd->private of the block at each address
  pathTable,    \* g_path_table: an address or NULL
  openFile,     \* what each host fd is open on
  crashed,      \* a wild pointer has been used
  \* history
  opened,       \* the file each slot of the path table was opened for
  unclosed,     \* host fds whose manager fd was closed with result -1
  orphans       \* emulated blocks whose slot has been given up

vars == <<heap, hostFd, private, pathTable, openFile, crashed, opened, unclosed,
          orphans>>

Slot   == 0..MaxPathDesc-1
NULL   == 0
NoFile == "none"
Stdio  == "inherited"
Files  == Path \cup {NoFile, Stdio}

Used     == {i \in Slot : pathTable[i] # NULL}
OpenFds  == {f \in HostFd : openFile[f] # NoFile}

TypeOK ==
  /\ heap \subseteq Addr
  /\ hostFd \in [Addr -> HostFd \cup {0}]
  /\ private \in [Addr -> 0..AddrMod-1]
  /\ pathTable \in [Slot -> Addr \cup {NULL}]
  /\ openFile \in [HostFd -> Files]
  /\ crashed \in BOOLEAN
  /\ opened \in [Slot -> Files]
  /\ unclosed \subseteq HostFd
  /\ orphans \subseteq Addr

Init ==
  /\ heap = {} /\ orphans = {} /\ unclosed = {} /\ crashed = FALSE
  /\ hostFd    = [a \in Addr |-> 0]
  /\ private   = [a \in Addr |-> NULL]
  /\ pathTable = [i \in Slot |-> NULL]
  /\ opened    = [i \in Slot |-> NoFile]
  /\ openFile  = [f \in HostFd |-> IF f \in Inherited THEN Stdio ELSE NoFile]
-------------------------------------------------------------------------------
(***************************************************************************)
(* Allocator, host and driver.                                             *)
(***************************************************************************)

\* open() of the host takes the lowest free fd; malloc any free block; the
\* path table is searched from its start.
LowestFree(f, free) == f \in free /\ \A g \in free : f <= g
FreeFds     == HostFd \ OpenFds
FreeSlots   == Slot \ Used
FreeAddrs   == Addr \ heap

KeptBlock(h, a) == h
FreeBlock(h, a) == h \ {a}

KeptFd(of, f) == of
CloseFd(of, f) == [of EXCEPT ![f] = NoFile]

TruncateHalf(a) == a % (AddrMod \div 2)

\* os9_srqmem_emulated_addr keeps 32 bits of the pointer.
Truncate(a) == a % AddrMod

\* dhfdrv_resolve_pd_from_emulated_addr: an address of 0 and a pd whose
\* host_fd is 0 count as invalid.
Resolves(a) == a # NULL /\ hostFd[a] # 0

\* The emulated address in the pd of a used slot.
EmuAddr(i) == private[pathTable[i]]

\* dhf_manager_read and dhf_manager_write: the file they reach through the
\* emulated pd, NoFile when they answer -1.
Reaches(i) ==
  IF EmuAddr(i) \in heap /\ Resolves(EmuAddr(i)) THEN openFile[hostFd[EmuAddr(i)]]
  ELSE NoFile
-------------------------------------------------------------------------------
(***************************************************************************)
(* dhf_manager_open, by the way it ends.                                   *)
(***************************************************************************)
OpenNoMemory ==
  /\ ~crashed /\ FreeAddrs = {}
  /\ UNCHANGED vars

\* dhfdrv_open answers -1: no such path, not confined, or no host fd left.
OpenRefused ==
  /\ ~crashed
  /\ \E pd \in FreeAddrs : heap' = FreeBlock(heap \cup {pd}, pd)
  /\ UNCHANGED <<hostFd, private, pathTable, openFile, crashed, opened, unclosed,
                 orphans>>

OpenTableFull(p) ==
  /\ ~crashed /\ FreeSlots = {}
  /\ \E pd \in FreeAddrs, fd \in FreeFds :
       /\ LowestFree(fd, FreeFds)
       /\ openFile' = CloseFd([openFile EXCEPT ![fd] = p], fd)
       /\ heap' = FreeBlock(heap \cup {pd}, pd)
  /\ UNCHANGED <<hostFd, private, pathTable, crashed, opened, unclosed, orphans>>

CopiedBeforeOpen(pd, e, fd) ==
  LET r == Truncate(e) IN
  /\ heap'    = heap \cup ({pd, e} \ {NULL})
  /\ private' = [private EXCEPT ![pd] = r]
  /\ hostFd'  = [hostFd EXCEPT ![pd] = fd]
  /\ crashed' = (r # NULL /\ r \notin heap')

\* The second block: its truncated address goes into the pd, and the pd is
\* copied to where that address resolves to.
CopyToEmulated(pd, e, fd) ==
  LET r == Truncate(e) IN
  /\ heap'    = heap \cup ({pd, e} \ {NULL})
  /\ private' = [private EXCEPT ![pd] = r]
  /\ hostFd'  = [a \in Addr |-> IF a \in {pd, r} THEN fd ELSE hostFd[a]]
  /\ crashed' = (r # NULL /\ r \notin heap')

OpenDone(p) ==
  /\ ~crashed
  /\ \E pd \in FreeAddrs, fd \in FreeFds, i \in FreeSlots :
       /\ LowestFree(fd, FreeFds) /\ LowestFree(i, FreeSlots)
       /\ openFile'  = [openFile EXCEPT ![fd] = p]
       /\ pathTable' = [pathTable EXCEPT ![i] = pd]
       /\ opened'    = [opened EXCEPT ![i] = p]
       /\ \/ \E e \in FreeAddrs \ {pd} : CopyToEmulated(pd, e, fd)
          \/ FreeAddrs = {pd} /\ CopyToEmulated(pd, NULL, fd)
  /\ UNCHANGED <<unclosed, orphans>>

Open(p) == OpenTableFull(p) \/ OpenDone(p)
-------------------------------------------------------------------------------
(***************************************************************************)
(* dhf_manager_close: close what the emulated pd names, then give up the   *)
(* slot and the pd whatever the result was.  What a free block holds is    *)
(* unknown to everybody, the model sets it to 0.                           *)
(***************************************************************************)
GiveUp(i) ==
  /\ heap'      = FreeBlock(heap, pathTable[i])
  /\ pathTable' = [pathTable EXCEPT ![i] = NULL]
  /\ opened'    = [opened EXCEPT ![i] = NoFile]
  /\ orphans'   = orphans \cup ({EmuAddr(i)} \ {NULL})
  /\ hostFd'    = [hostFd EXCEPT ![pathTable[i]] = 0]
  /\ private'   = [private EXCEPT ![pathTable[i]] = NULL]

CloseForwarded(i) ==
  /\ ~crashed /\ i \in Used
  /\ Reaches(i) # NoFile
  /\ openFile' = CloseFd(openFile, i)
  /\ GiveUp(i)
  /\ UNCHANGED <<crashed, unclosed>>

CloseDone(i) ==
  /\ ~crashed /\ i \in Used
  /\ Reaches(i) # NoFile
  /\ openFile' = CloseFd(openFile, hostFd[EmuAddr(i)])
  /\ GiveUp(i)
  /\ UNCHANGED <<crashed, unclosed>>

CloseFailed(i) ==
  /\ ~crashed /\ i \in Used
  /\ Reaches(i) = NoFile
  /\ crashed' = (EmuAddr(i) # NULL /\ EmuAddr(i) \notin heap)
  /\ unclosed' = unclosed \cup {hostFd[pathTable[i]]}
  /\ GiveUp(i)
  /\ UNCHANGED openFile

Close(i) == CloseDone(i) \/ CloseFailed(i)

Next ==
  \/ OpenNoMemory \/ OpenRefused
  \/ \E p \in Path : Open(p)
  \/ \E i \in Slot : Close(i)

Spec == Init /\ [][Next]_vars
-------------------------------------------------------------------------------
(***************************************************************************)
(* Properties.                                                             *)
(***************************************************************************)

\* The host fds of the used slots.
HeldFds == {hostFd[pathTable[i]] : i \in Used}

\* A read, write or close through a manager fd never reaches a file other than
\* the one that fd was opened for: it is that file or an error.
ReachesOwnFile == \A i \in Used : Reaches(i) \in {opened[i], NoFile}

\* A host fd is open because it was inherited, because one slot holds it, or
\* because a close told its caller that it failed; no open path that ends in
\* an error, however far it had come, leaves one behind.
NoSilentFdLeak ==
  /\ OpenFds = Inherited \cup HeldFds \cup unclosed
  /\ HeldFds \cap (Inherited \cup unclosed) = {}
  /\ \A i, j \in Used : hostFd[pathTable[i]] = hostFd[pathTable[j]] => i = j

\* Every allocated block is the pd of one slot, the emulated copy of one slot
\* or the copy a closed slot left behind; no block serves two of these, so
\* free() never takes a block that somebody still reads.
BlocksAccounted ==
  LET pds  == {pathTable[i] : i \in Used}
      emus == {EmuAddr(i) : i \in Used} \ {NULL}
  IN /\ heap = pds \cup emus \cup orphans
     /\ pds \cap (emus \cup orphans) = {} /\ emus \cap orphans = {}
     /\ \A i, j \in Used : pathTable[i] = pathTable[j] => i = j
     /\ \A i, j \in Used : EmuAddr(i) = EmuAddr(j) /\ EmuAddr(i) # NULL => i = j

\* Closing one manager fd closes at most the host fd of that slot, and opening
\* one closes none: no call takes a file from under another manager fd.
OnlyOwnFdCloses ==
  [][\A f \in OpenFds :
       f \notin OpenFds' => \E i \in Used : i \notin Used' /\ hostFd[pathTable[i]] = f]_vars

\* Where every address fits its 32 bits (the 68k, or a host that allocates
\* low), no wild pointer is followed, each copy agrees with its pd and each
\* held host fd is open on the file its slot was opened for.
PointersFit == \A a \in Addr : a < AddrMod

ManagerInv ==
  /\ TypeOK /\ ~crashed
  /\ NoSilentFdLeak /\ BlocksAccounted
  /\ \A i \in Used :
       /\ openFile[hostFd[pathTable[i]]] = opened[i] /\ opened[i] \in Path
       /\ EmuAddr(i) # NULL => hostFd[EmuAddr(i)] = hostFd[pathTable[i]]
===============================================================================
