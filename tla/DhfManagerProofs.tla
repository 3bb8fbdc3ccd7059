--------------------------- MODULE DhfManagerProofs ---------------------------
(***************************************************************************)
(* The agreement of the four tables of DhfManager, for any number of       *)
(* slots, host fds, blocks and files, on a machine whose addresses fit the *)
(* 32 bits the manager keeps of them.                                      *)
(***************************************************************************)
EXTENDS DhfManager, TLAPS

\* An address that fits survives the truncation to 32 bits.
LEMMA TruncateFits ==
  ASSUME PointersFit, NEW a \in Addr \cup {NULL}
  PROVE  Truncate(a) = a
BY ManagerAssumption DEF PointersFit, Truncate, NULL

\* The tables agree when nothing has been opened yet.
LEMMA InitAgrees == Init => ManagerInv
<1> SUFFICES ASSUME Init PROVE ManagerInv
  OBVIOUS
<1> USE ManagerAssumption DEF Init, NULL, NoFile, Stdio
<1>1. TypeOK
  <2>1. heap \subseteq Addr /\ unclosed \subseteq HostFd /\ orphans \subseteq Addr
    OBVIOUS
  <2>2. hostFd \in [Addr -> HostFd \cup {0}] /\ private \in [Addr -> 0..AddrMod-1]
    OBVIOUS
  <2>3. openFile \in [HostFd -> Files] /\ opened \in [Slot -> Files]
    BY DEF Files
  <2>4. pathTable \in [Slot -> Addr \cup {NULL}] /\ crashed \in BOOLEAN
    OBVIOUS
  <2> QED BY <2>1, <2>2, <2>3, <2>4 DEF TypeOK
<1>2. Used = {} BY DEF Used
<1>3. OpenFds = Inherited BY DEF OpenFds
<1>4. NoSilentFdLeak BY <1>2, <1>3 DEF NoSilentFdLeak, HeldFds
<1>5. BlocksAccounted BY <1>2 DEF BlocksAccounted
<1> QED BY <1>1, <1>2, <1>4, <1>5 DEF ManagerInv

\* What a successful open leaves behind: one slot, one pd, one copy or none,
\* one host fd, and everything that was there before.
LEMMA OpenDoneAgrees ==
  ASSUME PointersFit, ManagerInv, NEW p \in Path, OpenDone(p)
  PROVE  ManagerInv'
<1> USE ManagerAssumption DEF NULL
<1>1. PICK pd \in FreeAddrs, fd \in FreeFds, i \in FreeSlots :
        /\ openFile'  = [openFile EXCEPT ![fd] = p]
        /\ pathTable' = [pathTable EXCEPT ![i] = pd]
        /\ opened'    = [opened EXCEPT ![i] = p]
        /\ \/ \E e \in FreeAddrs \ {pd} : CopyToEmulated(pd, e, fd)
           \/ FreeAddrs = {pd} /\ CopyToEmulated(pd, NULL, fd)
  BY Zenon DEF OpenDone
<1>2. PICK e \in (FreeAddrs \ {pd}) \cup {NULL} : CopyToEmulated(pd, e, fd)
  BY <1>1
<1>3. Truncate(e) = e
  BY <1>2, TruncateFits DEF FreeAddrs
<1>4. /\ pd \in Addr /\ pd \notin heap /\ pd # NULL
      /\ e \in Addr \cup {NULL} /\ e \notin heap /\ e # pd
      /\ fd \in HostFd /\ fd \notin OpenFds
      /\ i \in Slot /\ i \notin Used
  BY <1>1, <1>2 DEF FreeAddrs, FreeFds, FreeSlots, ManagerInv, TypeOK
<1>5. /\ heap'    = heap \cup ({pd, e} \ {NULL})
      /\ private' = [private EXCEPT ![pd] = e]
      /\ hostFd'  = [a \in Addr |-> IF a \in {pd, e} THEN fd ELSE hostFd[a]]
      /\ crashed' = (e # NULL /\ e \notin heap')
      /\ unclosed' = unclosed /\ orphans' = orphans
  BY <1>2, <1>3 DEF CopyToEmulated, OpenDone
<1> USE DEF ManagerInv
<1>6. TypeOK'
  <2>1. heap' \subseteq Addr /\ unclosed' \subseteq HostFd /\ orphans' \subseteq Addr
    BY <1>4, <1>5 DEF TypeOK
  <2>2. hostFd' \in [Addr -> HostFd \cup {0}]
    BY <1>4, <1>5 DEF TypeOK
  <2>3. private' \in [Addr -> 0..AddrMod-1]
    <3>1. e \in 0..AddrMod-1
      <4>1. CASE e = NULL BY <4>1
      <4>2. CASE e \in Addr BY <4>2 DEF PointersFit
      <4> QED BY <1>4, <4>1, <4>2
    <3> QED BY <1>5, <3>1 DEF TypeOK
  <2>4. /\ pathTable' \in [Slot -> Addr \cup {NULL}]
        /\ openFile' \in [HostFd -> Files] /\ opened' \in [Slot -> Files]
    BY <1>1, <1>4 DEF TypeOK, Files
  <2>5. crashed' \in BOOLEAN BY <1>5
  <2> QED BY <2>1, <2>2, <2>3, <2>4, <2>5 DEF TypeOK
<1>7. ~crashed'
  BY <1>4, <1>5
<1>8. /\ Used' = Used \cup {i}
      /\ pathTable'[i] = pd /\ opened'[i] = p /\ openFile'[fd] = p
      /\ EmuAddr(i)' = e /\ hostFd'[pd] = fd
      /\ e # NULL => hostFd'[e] = fd
  BY <1>1, <1>4, <1>5 DEF TypeOK, Used, EmuAddr
<1>9. \A j \in Used :
        /\ j # i /\ pathTable'[j] = pathTable[j] /\ opened'[j] = opened[j]
        /\ pathTable[j] \in heap /\ pathTable[j] \in Addr
        /\ EmuAddr(j)' = EmuAddr(j)
        /\ EmuAddr(j) # NULL => EmuAddr(j) \in heap /\ EmuAddr(j) \in Addr
  BY <1>1, <1>4, <1>5 DEF TypeOK, Used, EmuAddr, BlocksAccounted
<1>10. \A j \in Used :
        /\ hostFd'[pathTable[j]] = hostFd[pathTable[j]]
        /\ EmuAddr(j) # NULL => hostFd'[EmuAddr(j)] = hostFd[EmuAddr(j)]
        /\ hostFd[pathTable[j]] # fd /\ hostFd[pathTable[j]] \in HostFd
        /\ openFile'[hostFd[pathTable[j]]] = openFile[hostFd[pathTable[j]]]
  <2>1. \A a \in heap : a \in Addr /\ hostFd'[a] = hostFd[a]
    BY <1>4, <1>5 DEF TypeOK
  <2>2. HeldFds \subseteq OpenFds BY DEF NoSilentFdLeak
  <2>3. \A f \in OpenFds : f # fd /\ f \in HostFd /\ openFile'[f] = openFile[f]
    BY <1>1, <1>4 DEF OpenFds, TypeOK
  <2> QED BY <1>9, <2>1, <2>2, <2>3 DEF HeldFds
<1>11. NoSilentFdLeak'
  <2>1. HeldFds' = HeldFds \cup {fd}
    BY <1>8, <1>9, <1>10 DEF HeldFds
  <2>2. OpenFds' = OpenFds \cup {fd}
    BY <1>1, <1>4 DEF OpenFds, TypeOK, NoFile
  <2>3. \A j, k \in Used' : hostFd'[pathTable'[j]] = hostFd'[pathTable'[k]] => j = k
    BY <1>8, <1>9, <1>10 DEF NoSilentFdLeak
  <2> QED BY <1>4, <1>5, <2>1, <2>2, <2>3 DEF NoSilentFdLeak
<1>12. BlocksAccounted'
  <2> DEFINE pds == {pathTable[j] : j \in Used}
             emus == {EmuAddr(j) : j \in Used} \ {NULL}
  <2>1. pds' = pds \cup {pd} BY <1>8, <1>9
  <2>2. emus' = emus \cup ({e} \ {NULL}) BY <1>8, <1>9
  <2>3. heap = pds \cup emus \cup orphans /\ pds \cap (emus \cup orphans) = {}
        /\ emus \cap orphans = {}
    BY DEF BlocksAccounted
  <2>4. \A j, k \in Used' : pathTable'[j] = pathTable'[k] => j = k
    BY <1>4, <1>8, <1>9 DEF BlocksAccounted
  <2>5. \A j, k \in Used' : EmuAddr(j)' = EmuAddr(k)' /\ EmuAddr(j)' # NULL => j = k
    BY <1>4, <1>8, <1>9 DEF BlocksAccounted
  <2> HIDE DEF pds, emus
  <2>6. /\ heap' = pds' \cup emus' \cup orphans'
        /\ pds' \cap (emus' \cup orphans') = {} /\ emus' \cap orphans' = {}
    BY <1>4, <1>5, <2>1, <2>2, <2>3
  <2> USE DEF pds, emus
  <2> QED BY <2>4, <2>5, <2>6 DEF BlocksAccounted
<1>13. \A j \in Used' :
         /\ openFile'[hostFd'[pathTable'[j]]] = opened'[j] /\ opened'[j] \in Path
         /\ EmuAddr(j)' # NULL => hostFd'[EmuAddr(j)'] = hostFd'[pathTable'[j]]
  BY <1>8, <1>9, <1>10
<1> QED BY <1>6, <1>7, <1>11, <1>12, <1>13
-------------------------------------------------------------------------------
\* A slot's copy, where there is one, leads to the host fd of the slot.
LEMMA ReachesHeld ==
  ASSUME ManagerInv, NEW i \in Used
  PROVE  /\ Reaches(i) # NoFile =>
              /\ EmuAddr(i) # NULL /\ hostFd[EmuAddr(i)] = hostFd[pathTable[i]]
              /\ Reaches(i) = opened[i]
         /\ EmuAddr(i) # NULL => EmuAddr(i) \in heap
BY DEF ManagerInv, Reaches, Resolves, BlocksAccounted

\* Giving up a slot takes its pd and its copy off the books of the others.
LEMMA GiveUpAccounted ==
  ASSUME ManagerInv, NEW i \in Used, GiveUp(i)
  PROVE  /\ BlocksAccounted'
         /\ Used' = Used \ {i}
         /\ \A j \in Used' :
              /\ pathTable'[j] = pathTable[j] /\ opened'[j] = opened[j]
              /\ EmuAddr(j)' = EmuAddr(j)
              /\ hostFd'[pathTable[j]] = hostFd[pathTable[j]]
              /\ EmuAddr(j) # NULL => hostFd'[EmuAddr(j)] = hostFd[EmuAddr(j)]
<1> USE ManagerAssumption DEF GiveUp, NULL, FreeBlock
<1>1. i \in Slot /\ pathTable[i] \in heap /\ pathTable[i] \in Addr
  BY DEF ManagerInv, BlocksAccounted, TypeOK, Used
<1>2. Used' = Used \ {i}
  BY <1>1 DEF ManagerInv, TypeOK, Used
<1>3. \A j \in Used' :
        /\ j \in Used /\ j # i /\ j \in Slot
        /\ pathTable[j] # pathTable[i] /\ pathTable[j] \in Addr
        /\ EmuAddr(j) # NULL => EmuAddr(j) # pathTable[i] /\ EmuAddr(j) \in Addr
  BY <1>1, <1>2 DEF ManagerInv, BlocksAccounted, TypeOK, Used
<1>4. \A j \in Used' :
        /\ pathTable'[j] = pathTable[j] /\ opened'[j] = opened[j]
        /\ EmuAddr(j)' = EmuAddr(j)
        /\ hostFd'[pathTable[j]] = hostFd[pathTable[j]]
        /\ EmuAddr(j) # NULL => hostFd'[EmuAddr(j)] = hostFd[EmuAddr(j)]
  BY <1>3 DEF ManagerInv, TypeOK, EmuAddr
<1>5. BlocksAccounted'
  <2> DEFINE pds == {pathTable[j] : j \in Used}
             emus == {EmuAddr(j) : j \in Used} \ {NULL}
  <2>1. pds' = pds \ {pathTable[i]} BY <1>2, <1>3, <1>4
  <2>2. emus' = emus \ {EmuAddr(i)}
    BY <1>2, <1>3, <1>4 DEF ManagerInv, BlocksAccounted
  <2>3. /\ heap = pds \cup emus \cup orphans /\ pds \cap (emus \cup orphans) = {}
        /\ emus \cap orphans = {}
        /\ pathTable[i] \in pds /\ EmuAddr(i) \in emus \cup {NULL} /\ NULL \notin emus
    BY DEF ManagerInv, BlocksAccounted
  <2>4. \A j, k \in Used' : pathTable'[j] = pathTable'[k] => j = k
    BY <1>3, <1>4 DEF ManagerInv, BlocksAccounted
  <2>5. \A j, k \in Used' : EmuAddr(j)' = EmuAddr(k)' /\ EmuAddr(j)' # NULL => j = k
    BY <1>3, <1>4 DEF ManagerInv, BlocksAccounted
  <2>6. heap' = heap \ {pathTable[i]} /\ orphans' = orphans \cup ({EmuAddr(i)} \ {NULL})
    OBVIOUS
  <2> HIDE DEF pds, emus, GiveUp
  <2>7. /\ heap' = pds' \cup emus' \cup orphans'
        /\ pds' \cap (emus' \cup orphans') = {} /\ emus' \cap orphans' = {}
    BY <2>1, <2>2, <2>3, <2>6
  <2> USE DEF pds, emus
  <2> QED BY <2>4, <2>5, <2>7 DEF BlocksAccounted
<1> QED BY <1>2, <1>4, <1>5

\* Giving up a slot keeps every table within its types.
LEMMA GiveUpTypes ==
  ASSUME ManagerInv, NEW i \in Used, GiveUp(i)
  PROVE  /\ heap' \subseteq Addr /\ orphans' \subseteq Addr
         /\ hostFd' \in [Addr -> HostFd \cup {0}]
         /\ private' \in [Addr -> 0..AddrMod-1]
         /\ pathTable' \in [Slot -> Addr \cup {NULL}]
         /\ opened' \in [Slot -> Files]
<1> USE ManagerAssumption DEF GiveUp, NULL, ManagerInv
<1>1. heap' \subseteq Addr BY DEF FreeBlock, TypeOK
<1>2. orphans' \subseteq Addr
  <2>1. EmuAddr(i) \in Addr \cup {NULL} BY ReachesHeld DEF TypeOK
  <2> QED BY <2>1 DEF TypeOK
<1>3. hostFd' \in [Addr -> HostFd \cup {0}] BY DEF TypeOK
<1>4. private' \in [Addr -> 0..AddrMod-1]
  <2>1. 0 \in 0..AddrMod-1 OBVIOUS
  <2> QED BY <2>1 DEF TypeOK
<1>5. /\ pathTable' \in [Slot -> Addr \cup {NULL}] /\ opened' \in [Slot -> Files]
  BY DEF TypeOK, Files
<1> QED BY <1>1, <1>2, <1>3, <1>4, <1>5
\* Once the slot of a close is given up and its host fd is either closed or
\* counted as unclosed, the tables agree again.
LEMMA CloseAgrees ==
  ASSUME PointersFit, ManagerInv, NEW i \in Slot, Close(i)
  PROVE  ManagerInv'
<1> USE ManagerAssumption
<1> DEFINE fd == hostFd[pathTable[i]]
<1>1. i \in Used /\ GiveUp(i) BY DEF Close, CloseDone, CloseFailed
<1>2. fd \in HostFd /\ fd \in HeldFds /\ openFile[fd] = opened[i] /\ fd \notin Inherited \cup unclosed
  BY <1>1 DEF ManagerInv, NoSilentFdLeak, HeldFds, OpenFds
<1>3. \A j \in Used' : j \in Used /\ hostFd[pathTable[j]] # fd /\ hostFd[pathTable[j]] \in HeldFds
  BY <1>1, GiveUpAccounted DEF ManagerInv, NoSilentFdLeak, HeldFds
<1>4. HeldFds' = HeldFds \ {fd}
  BY <1>1, <1>3, GiveUpAccounted DEF HeldFds
<1>5. /\ crashed' = FALSE
      /\ unclosed' \subseteq HostFd
      /\ openFile' \in [HostFd -> Files]
      /\ \A f \in HostFd \ {fd} : openFile'[f] = openFile[f]
      /\ OpenFds' = Inherited \cup HeldFds' \cup unclosed'
      /\ HeldFds' \cap unclosed' = {}
  <2>1. CASE CloseDone(i)
    <3>1. openFile' = [openFile EXCEPT ![fd] = NoFile] /\ unclosed' = unclosed /\ crashed' = crashed
      BY <1>1, <2>1, ReachesHeld DEF CloseDone, CloseFd
    <3>2. OpenFds' = OpenFds \ {fd}
      BY <1>2, <3>1 DEF OpenFds, ManagerInv, TypeOK, Files
    <3>3. openFile' \in [HostFd -> Files]
      BY <3>1 DEF ManagerInv, TypeOK, Files
    <3>4. \A f \in HostFd \ {fd} : openFile'[f] = openFile[f]
      BY <3>1 DEF ManagerInv, TypeOK
    <3>5. OpenFds' = Inherited \cup HeldFds' \cup unclosed' /\ HeldFds' \cap unclosed' = {}
      BY <1>2, <1>4, <3>1, <3>2 DEF ManagerInv, NoSilentFdLeak
    <3>6. crashed' = FALSE /\ unclosed' \subseteq HostFd
      BY <3>1 DEF ManagerInv, TypeOK
    <3> QED BY <3>3, <3>4, <3>5, <3>6
  <2>2. CASE CloseFailed(i)
    <3>1. openFile' = openFile /\ unclosed' = unclosed \cup {fd}
      BY <2>2 DEF CloseFailed
    <3>2. crashed' = FALSE
      BY <1>1, <2>2, ReachesHeld DEF CloseFailed
    <3>3. OpenFds' = OpenFds
      BY <3>1 DEF OpenFds
    <3>4. OpenFds' = Inherited \cup HeldFds' \cup unclosed' /\ HeldFds' \cap unclosed' = {}
      BY <1>2, <1>4, <3>1, <3>3 DEF ManagerInv, NoSilentFdLeak
    <3> QED BY <1>2, <3>1, <3>2, <3>4 DEF ManagerInv, TypeOK
  <2> QED BY <2>1, <2>2 DEF Close
<1> HIDE DEF fd
<1>6. TypeOK'
  BY <1>1, <1>5, GiveUpTypes DEF TypeOK
<1>7. \A j \in Used' : hostFd'[pathTable'[j]] = hostFd[pathTable[j]]
  BY <1>1, GiveUpAccounted
<1>8. NoSilentFdLeak'
  <2>1. HeldFds' \cap Inherited = {} BY <1>4 DEF ManagerInv, NoSilentFdLeak
  <2>2. \A j, k \in Used' : hostFd'[pathTable'[j]] = hostFd'[pathTable'[k]] => j = k
    BY <1>3, <1>7 DEF ManagerInv, NoSilentFdLeak
  <2> QED BY <1>5, <2>1, <2>2 DEF NoSilentFdLeak
<1>9. \A j \in Used' :
        /\ openFile'[hostFd'[pathTable'[j]]] = opened'[j] /\ opened'[j] \in Path
        /\ EmuAddr(j)' # NULL => hostFd'[EmuAddr(j)'] = hostFd'[pathTable'[j]]
  <2> SUFFICES ASSUME NEW j \in Used' PROVE
        /\ openFile'[hostFd'[pathTable'[j]]] = opened'[j] /\ opened'[j] \in Path
        /\ EmuAddr(j)' # NULL => hostFd'[EmuAddr(j)'] = hostFd'[pathTable'[j]]
    OBVIOUS
  <2>1. j \in Used /\ hostFd[pathTable[j]] # fd /\ hostFd[pathTable[j]] \in HostFd
    BY <1>3 DEF ManagerInv, NoSilentFdLeak, OpenFds
  <2>2. openFile'[hostFd[pathTable[j]]] = openFile[hostFd[pathTable[j]]]
    BY <1>5, <2>1
  <2>3. /\ opened'[j] = opened[j] /\ EmuAddr(j)' = EmuAddr(j)
        /\ EmuAddr(j) # NULL => hostFd'[EmuAddr(j)] = hostFd[EmuAddr(j)]
    BY <1>1, GiveUpAccounted
  <2> QED BY <1>7, <2>1, <2>2, <2>3 DEF ManagerInv
<1>10. BlocksAccounted' BY <1>1, GiveUpAccounted
<1> QED BY <1>5, <1>6, <1>8, <1>9, <1>10 DEF ManagerInv

\* An open that ends in an error has undone every step it had taken.
LEMMA FailedOpenLeavesNothing ==
  ASSUME ManagerInv, OpenNoMemory \/ OpenRefused \/ \E p \in Path : OpenTableFull(p)
  PROVE  UNCHANGED vars
<1>1. CASE OpenNoMemory BY <1>1 DEF OpenNoMemory
<1>2. CASE OpenRefused
  <2>1. heap' = heap BY <1>2 DEF OpenRefused, FreeBlock, FreeAddrs
  <2> QED BY <1>2, <2>1 DEF OpenRefused, vars
<1>3. CASE \E p \in Path : OpenTableFull(p)
  <2>1. heap' = heap BY <1>3 DEF OpenTableFull, FreeBlock, FreeAddrs
  <2>2. openFile' = openFile
    <3>1. PICK p \in Path, fd \in FreeFds :
            openFile' = CloseFd([openFile EXCEPT ![fd] = p], fd)
      BY <1>3 DEF OpenTableFull
    <3>2. openFile[fd] = NoFile /\ openFile \in [HostFd -> Files]
      BY <3>1 DEF FreeFds, OpenFds, ManagerInv, TypeOK
    <3> QED BY <3>1, <3>2 DEF CloseFd
  <2> QED BY <1>3, <2>1, <2>2 DEF OpenTableFull, vars
<1> QED BY <1>1, <1>2, <1>3

\* Every call of the manager keeps the four tables in agreement.
LEMMA NextAgrees ==
  ASSUME PointersFit, ManagerInv, [Next]_vars
  PROVE  ManagerInv'
<1>1. ASSUME NEW p \in Path, OpenDone(p) PROVE ManagerInv'
  BY <1>1, OpenDoneAgrees
<1>2. ASSUME NEW i \in Slot, Close(i) PROVE ManagerInv'
  BY <1>2, CloseAgrees
<1>3. CASE OpenNoMemory \/ OpenRefused \/ \E p \in Path : OpenTableFull(p)
  <2>1. UNCHANGED vars BY <1>3, FailedOpenLeavesNothing
  <2> QED BY <2>1 DEF vars, ManagerInv, TypeOK, NoSilentFdLeak, HeldFds, OpenFds, Used,
             BlocksAccounted, EmuAddr
<1>4. CASE UNCHANGED vars
  BY <1>4 DEF vars, ManagerInv, TypeOK, NoSilentFdLeak, HeldFds, OpenFds, Used,
     BlocksAccounted, EmuAddr
<1> QED BY <1>1, <1>2, <1>3, <1>4 DEF Next, Open

\* The four tables of the open-file side agree in every reachable state.
THEOREM TablesAgree ==
  ASSUME PointersFit PROVE Spec => []ManagerInv
<1>1. ManagerInv /\ [Next]_vars => ManagerInv' BY NextAgrees
<1> QED BY InitAgrees, <1>1, PTL DEF Spec

\* Every variable of the open-file side keeps to its type.
THEOREM ManagerTypes ==
  ASSUME PointersFit PROVE Spec => []TypeOK
<1>1. ManagerInv => TypeOK BY DEF ManagerInv
<1> QED BY <1>1, TablesAgree, PTL

\* A manager fd reaches the file it was opened for or answers with an error,
\* never another file (dhf_manager_read and dhf_manager_write).
THEOREM NeverAnotherFile ==
  ASSUME PointersFit PROVE Spec => []ReachesOwnFile
<1>1. ManagerInv => ReachesOwnFile BY ReachesHeld DEF ReachesOwnFile
<1> QED BY <1>1, TablesAgree, PTL

\* Every host fd that is open is inherited, held by one slot, or the subject of
\* a close that reported failure (every exit of dhf_manager_open and _close).
THEOREM HostFdsAccounted ==
  ASSUME PointersFit PROVE Spec => []NoSilentFdLeak
<1>1. ManagerInv => NoSilentFdLeak BY DEF ManagerInv
<1> QED BY <1>1, TablesAgree, PTL

\* Every allocated block has one owner, so no block is freed while it is used.
THEOREM HeapAccounted ==
  ASSUME PointersFit PROVE Spec => []BlocksAccounted
<1>1. ManagerInv => BlocksAccounted BY DEF ManagerInv
<1> QED BY <1>1, TablesAgree, PTL

\* No call closes a host fd that another manager fd holds.
THEOREM ClosesOnlyItsOwn ==
  ASSUME PointersFit PROVE Spec => OnlyOwnFdCloses
<1> DEFINE Own == \A f \in OpenFds : f \notin OpenFds' =>
                    \E i \in Used : i \notin Used' /\ hostFd[pathTable[i]] = f
<1>1. ManagerInv /\ [Next]_vars => [Own]_vars
  <2> SUFFICES ASSUME ManagerInv, Next, NEW f \in OpenFds, f \notin OpenFds', vars' # vars
               PROVE  \E i \in Used : i \notin Used' /\ hostFd[pathTable[i]] = f
    BY DEF vars
  <2>1. CASE \E p \in Path : OpenDone(p)
    <3>1. PICK p \in Path, fd \in FreeFds : openFile' = [openFile EXCEPT ![fd] = p]
      BY <2>1 DEF OpenDone
    <3>2. f # fd /\ f \in HostFd /\ openFile[f] # NoFile
      BY DEF FreeFds, OpenFds
    <3> QED BY <3>1, <3>2 DEF OpenFds, ManagerInv, TypeOK
  <2>2. CASE \E i \in Slot : Close(i)
    <3>1. PICK i \in Slot : Close(i) BY <2>2
    <3>2. i \in Used /\ GiveUp(i) BY <3>1 DEF Close, CloseDone, CloseFailed
    <3>3. i \notin Used' BY <3>2, GiveUpAccounted
    <3>4. hostFd[pathTable[i]] = f
      <4>1. ASSUME CloseFailed(i) PROVE FALSE
        BY <4>1 DEF CloseFailed, OpenFds
      <4>2. CloseDone(i) BY <3>1, <4>1 DEF Close
      <4>3. openFile' = [openFile EXCEPT ![hostFd[pathTable[i]]] = NoFile]
        BY <3>2, <4>2, ReachesHeld DEF CloseDone, CloseFd
      <4> QED BY <4>3 DEF OpenFds, ManagerInv, TypeOK
    <3> QED BY <3>2, <3>3, <3>4
  <2>3. CASE OpenNoMemory \/ OpenRefused \/ \E p \in Path : OpenTableFull(p)
    BY <2>3, FailedOpenLeavesNothing
  <2> QED BY <2>1, <2>2, <2>3 DEF Next, Open
<1> QED BY <1>1, TablesAgree, PTL DEF Spec, OnlyOwnFdCloses
===============================================================================
