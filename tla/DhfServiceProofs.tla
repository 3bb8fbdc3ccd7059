--------------------------- MODULE DhfServiceProofs ----------------------------
(***************************************************************************)
(* What holds of the file service, for every set of names and files, every *)
(* number of fds and every size of dir_table: first of the handlers by     *)
(* themselves, Spec of DhfHost, then behind the mailbox and with restarts, *)
(* ServiceSpec of DhfService, for any number of requests and lives.        *)
(*                                                                         *)
(* Host and client agree on handles and fds by one inductive invariant: it *)
(* adds to the two properties that no fd is given to the client for a      *)
(* directory stream, without which a Close of a file might close a stream. *)
(* What is said of a single handler serves both specifications: behind the *)
(* mailbox a request may name any fd.                                      *)
(***************************************************************************)
EXTENDS DhfService, TLAPS

HeldPlain == \A f \in HostFd : heldFd[f].on # "stream"

IInv == TypeOK /\ HandlesAgree /\ FdsAgree /\ HeldPlain

\* What a request names.
LEMMA RequestNames ==
  ASSUME NEW F, NEW H, NEW q \in Asks(F, H)
  PROVE  /\ q.op \in {"Create", "Open", "Opendir", "Delete", "MkDir", "GetStat",
                      "SetStat", "Readdir"} => q.name \in Name
         /\ q.op \in {"CloseFile", "Read", "Write"} => q.fd \in F
         /\ q.op \in {"CloseDir", "Readdir"} => q.dir \in H
BY DEF Asks

\* A client that knows less asks for less.
LEMMA AsksGrow ==
  ASSUME NEW F, NEW G, F \subseteq G, NEW H, NEW K, H \subseteq K
  PROVE  Asks(F, H) \subseteq Asks(G, K)
BY DEF Asks

\* What a client knows of are fds and handles.
LEMMA HeldAreFds == ASSUME TypeOK PROVE Asks(Held, heldDir) \subseteq Asks(HostFd, Handle)
<1>1. Held \subseteq HostFd /\ heldDir \subseteq Handle BY DEF Held, TypeOK
<1> QED BY <1>1, AsksGrow

\* What the test for being under the base path lets through is there already, so
\* neither open() nor mkdir() has anything to make.
LEMMA NothingIsMade ==
  /\ \A name, mode : OpenAs(name, mode) => kind' = kind
  /\ \A name : MkDir(name) => kind' = kind
BY DEF OpenAs, Brought, MkDir, Exists

(***************************************************************************)
(* The handlers, by what they may change: five kinds of steps.             *)
(***************************************************************************)
Still == UNCHANGED <<openOn, dirFd, client, collided>>

\* A request opens a file, closes one, opens or closes a directory, or leaves
\* fds and slots alone.
LEMMA ServeCases ==
  ASSUME NEW F, NEW H, NEW q \in Asks(F, H), Serve(q)
  PROVE  \/ Still
         \/ \E name \in Name, mode \in {"rw", "ro"} : OpenAs(name, mode)
         \/ \E f \in F : q.op = "CloseFile" /\ CloseFile(f)
         \/ \E h \in H : q.op = "CloseDir" /\ CloseDir(h)
         \/ \E name \in Name : Opendir(name)
<1>1. CASE q.op = "Create" /\ Create(q.name) BY <1>1, RequestNames DEF Create
<1>2. CASE q.op = "Open" /\ Open(q.name) BY <1>2, RequestNames DEF Open
<1>3. CASE q.op = "CloseFile" /\ CloseFile(q.fd) BY <1>3, RequestNames
<1>4. CASE q.op = "CloseDir" /\ CloseDir(q.dir) BY <1>4, RequestNames
<1>5. CASE q.op = "Opendir" /\ Opendir(q.name) BY <1>5, RequestNames
<1>6. ASSUME NEW f, NEW b, NEW w, Transfer(f, w, b) PROVE Still
  BY <1>6 DEF Transfer, Still, process
<1>7. CASE Read(q.fd, q.fits) \/ Write(q.fd, q.fits) BY <1>6, <1>7 DEF Read, Write
<1>8. CASE \/ NotImplemented \/ EchoOK
           \/ GetStat(q.name, q.fits) \/ SetStat(q.name, q.fits)
           \/ Readdir(q.dir, q.name, q.fits) \/ Delete(q.name) \/ MkDir(q.name)
  BY <1>8 DEF NotImplemented, EchoOK, GetStat, SetStat, Readdir, Delete, MkDir,
              Still, process
<1> QED BY <1>1, <1>2, <1>3, <1>4, <1>5, <1>7, <1>8 DEF Serve

(***************************************************************************)
(* Types.                                                                  *)
(***************************************************************************)

\* Every answer is well formed.
AnswerOK == /\ errno' \in Errors \cup {OK}
            /\ result_code' \in Errors \cup {OK}
            /\ result_len' \in HostFd \cup Handle \cup {Count}

LEMMA AnswerTypes ==
  ASSUME TypeOK
  PROVE  /\ \A len \in HostFd \cup Handle \cup {Count} : Answer(len) => AnswerOK
         /\ Done => AnswerOK
         /\ \A e \in Errors : FailWith(e) \/ Refuse(e) => AnswerOK
         /\ \A n : NotConfined(n) => AnswerOK
<1> USE DEF TypeOK, AnswerOK
<1>1. \A len \in HostFd \cup Handle \cup {Count} : Answer(len) => AnswerOK BY DEF Answer
<1>2. Done => AnswerOK BY DEF Done
<1>3. \A e \in Errors : FailWith(e) \/ Refuse(e) => AnswerOK BY DEF FailWith, Refuse
<1>4. \A n : NotConfined(n) => AnswerOK BY DEF NotConfined, Errors
<1> QED BY <1>1, <1>2, <1>3, <1>4

\* Every request leaves an answer that is well formed.
LEMMA ServeAnswers ==
  ASSUME TypeOK, NEW q \in Asks(HostFd, Handle), Serve(q)
  PROVE  AnswerOK
<1> USE AnswerTypes
<1>0. Count \in HostFd \cup Handle \cup {Count} OBVIOUS
<1>1. ASSUME NEW name, NEW mode, OpenAs(name, mode) PROVE AnswerOK
  BY <1>1 DEF OpenAs, Errors, FreeFds
<1>2. ASSUME NEW f, NEW w, NEW b, Transfer(f, w, b) PROVE AnswerOK
  BY <1>0, <1>2 DEF Transfer, Errors
<1>3. ASSUME NEW f, CloseCall(f) PROVE AnswerOK
  BY <1>3 DEF CloseCall, Errors
<1>11. ASSUME NEW h, CloseDir(h) PROVE AnswerOK
  BY <1>11 DEF CloseDir, AnswerOK, TypeOK, Errors
<1>4. ASSUME NEW name, NEW b, GetStat(name, b) \/ SetStat(name, b) PROVE AnswerOK
  BY <1>0, <1>4 DEF GetStat, SetStat, Errors
<1>5. ASSUME NEW name, Opendir(name) PROVE AnswerOK
  BY <1>5 DEF Opendir, Errors
<1>6. ASSUME NEW b, Give(b) PROVE AnswerOK
  BY <1>0, <1>6 DEF Give, Errors
<1>7. ASSUME NEW h, NEW b, NextEntry(h, b) PROVE AnswerOK
  <2>1. CASE Refuse(IF errno # OK THEN errno ELSE "ENOENT")
    BY <2>1 DEF Errors, TypeOK
  <2>2. CASE \E e \in {"EBADF", "ENOTDIR"} : FailWith(e)
    BY <2>2 DEF Errors
  <2> QED BY <1>6, <1>7, <2>1, <2>2 DEF NextEntry
<1>8. ASSUME NEW h, NEW name, NEW b, Readdir(h, name, b) PROVE AnswerOK
  BY <1>7, <1>8 DEF Readdir, Errors
<1>9. ASSUME NEW name, Delete(name) \/ MkDir(name) PROVE AnswerOK
  BY <1>9 DEF Delete, MkDir, Errors
<1>10. CASE NotImplemented \/ EchoOK
  BY <1>10 DEF NotImplemented, EchoOK, Errors
<1> QED
  BY <1>1, <1>2, <1>3, <1>4, <1>5, <1>8, <1>9, <1>10, <1>11
  DEF Serve, Create, Open, Read, Write, CloseFile

\* Every request keeps the types of the files, the fds and the slots.
LEMMA ServeTypes ==
  ASSUME TypeOK, NEW q \in Asks(HostFd, Handle), Serve(q)
  PROVE  /\ kind' \in [Node -> Kinds]
         /\ openOn' \in [HostFd -> Object]
         /\ dirFd' \in [Handle -> HostFd \cup {Free}]
         /\ dirPos' \in [Handle -> 0..DirLen]
         /\ heldFd' \in [HostFd -> Object]
         /\ heldDir' \subseteq Handle
         /\ collided' \in BOOLEAN
<1> DEFINE Files  == kind' \in [Node -> Kinds]
           Slots  == dirPos' \in [Handle -> 0..DirLen]
           Others == /\ openOn' \in [HostFd -> Object]
                     /\ dirFd' \in [Handle -> HostFd \cup {Free}]
                     /\ heldFd' \in [HostFd -> Object]
                     /\ heldDir' \subseteq Handle
                     /\ collided' \in BOOLEAN
<1> USE HostAssumption
<1>0. Closed \in Object BY DEF Closed, Object
<1>1. Files
  <2>1. ASSUME NEW name \in Name, Delete(name) PROVE Files
    BY <2>1 DEF Delete, TypeOK, Kinds
  <2>2. CASE kind' = kind BY <2>2 DEF TypeOK
  <2>3. (q.op = "Delete" /\ Delete(q.name)) \/ kind' = kind
    BY NothingIsMade
    DEF Serve, Create, Open, NotImplemented, EchoOK, Read, Write, Transfer,
        CloseFile, CloseDir, GetStat, SetStat, Opendir, Readdir
  <2> QED BY <2>1, <2>2, <2>3, RequestNames
<1>2. Slots
  <2>1. ASSUME NEW h \in Handle, NEW b, NextEntry(h, b) PROVE Slots
    <3>1. CASE dirPos' = dirPos BY <3>1 DEF TypeOK
    <3>2. CASE dirPos[h] < DirLen /\ dirPos' = [dirPos EXCEPT ![h] = @ + 1]
      <4>1. dirPos[h] \in 0..DirLen BY DEF TypeOK
      <4>2. dirPos[h] + 1 \in 0..DirLen BY <3>2, <4>1
      <4> QED BY <3>2, <4>2 DEF TypeOK
    <3> QED BY <2>1, <3>1, <3>2 DEF NextEntry
  <2>2. ASSUME NEW h \in Handle, NEW name, NEW b, Readdir(h, name, b) PROVE Slots
    <3>1. CASE dirPos' = dirPos BY <3>1 DEF TypeOK
    <3> QED BY <2>1, <2>2, <3>1 DEF Readdir
  <2>3. ASSUME NEW h, dirPos' = [dirPos EXCEPT ![h] = 0] PROVE Slots
    <3>1. 0 \in 0..DirLen OBVIOUS
    <3> QED BY <2>3, <3>1 DEF TypeOK
  <2>4. CASE dirPos' = dirPos BY <2>4 DEF TypeOK
  <2>5. \/ q.op = "Readdir" /\ Readdir(q.dir, q.name, q.fits)
        \/ \E h : dirPos' = [dirPos EXCEPT ![h] = 0]
        \/ dirPos' = dirPos
    BY DEF Serve, Create, Open, OpenAs, NotImplemented, EchoOK, Read, Write, Transfer,
           CloseFile, CloseDir, GetStat, SetStat, Opendir, Delete, MkDir, process
  <2> QED BY <2>2, <2>3, <2>4, <2>5, RequestNames
<1>3. Others
  <2> USE DEF TypeOK
  <2>1. CASE Still BY <2>1 DEF Still, client
  <2>2. ASSUME NEW name \in Name, NEW mode \in {"rw", "ro"}, OpenAs(name, mode)
        PROVE  Others
    <3>1. [on |-> mode, node |-> BaseOf[name]] \in Object BY DEF Object
    <3> QED BY <2>2, <3>1 DEF OpenAs, Taken, process, client
  <2>3. ASSUME NEW f \in HostFd, CloseFile(f) PROVE Others
    BY <1>0, <2>3 DEF CloseFile, After
  <2>4. ASSUME NEW h \in Handle, CloseDir(h) PROVE Others
    BY <1>0, <2>4 DEF CloseDir, SlotGiven
  <2>5. ASSUME NEW name \in Name, Opendir(name) PROVE Others
    <3>1. [on |-> "stream", node |-> RawOf[name]] \in Object BY DEF Object
    <3>2. CASE Still BY <2>1, <3>2
    <3>3. CASE \E h \in Handle, f \in FreeFds :
                 /\ Taken(f, [on |-> "stream", node |-> RawOf[name]])
                 /\ dirFd' = [dirFd EXCEPT ![h] = f]
                 /\ heldDir' = heldDir \cup {h}
                 /\ UNCHANGED <<heldFd, collided>>
      BY <3>1, <3>3 DEF Taken, FreeFds
    <3> QED BY <2>5, <3>2, <3>3 DEF Opendir, Still, process
  <2> HIDE DEF TypeOK, Others
  <2>6. \/ Still
        \/ \E name \in Name, mode \in {"rw", "ro"} : OpenAs(name, mode)
        \/ \E f \in HostFd : CloseFile(f)
        \/ \E h \in Handle : CloseDir(h)
        \/ \E name \in Name : Opendir(name)
    BY ServeCases, Zenon
  <2> QED BY <2>1, <2>2, <2>3, <2>4, <2>5, <2>6, Zenon
<1> QED BY <1>1, <1>2, <1>3

\* Every request keeps the types.
LEMMA NextTypes == TypeOK /\ [Next]_vars => TypeOK'
<1> SUFFICES ASSUME TypeOK, [Next]_vars PROVE TypeOK'
  OBVIOUS
<1>1. ASSUME NEW q \in Asks(Held, heldDir), Serve(q), request' = q PROVE TypeOK'
  <2>1. q \in Asks(HostFd, Handle) BY HeldAreFds
  <2> QED BY <1>1, <2>1, ServeAnswers, ServeTypes DEF TypeOK, AnswerOK
<1>2. CASE UNCHANGED vars
  BY <1>2 DEF vars, process, result, client, TypeOK
<1> QED BY <1>1, <1>2 DEF Next

\* The invariant of handles and fds holds at the start ...
LEMMA InitInvariant == Init => IInv
<1> SUFFICES ASSUME Init PROVE IInv
  OBVIOUS
<1> USE HostAssumption DEF Init
<1>1. Closed \in Object /\ Std \in Object BY DEF Closed, Std, Object
<1>2. request \in Asks(HostFd, Handle) BY DEF Asks
<1>3. 0 \in 0..DirLen OBVIOUS
<1>4. TypeOK BY <1>1, <1>2, <1>3 DEF TypeOK, Errors
<1>5. Used = {} BY DEF Used
<1>6. HandlesAgree BY <1>5 DEF HandlesAgree
<1>7. FdsAgree BY <1>5 DEF FdsAgree, Std, Closed
<1>8. HeldPlain BY DEF HeldPlain, Closed
<1> QED BY <1>4, <1>6, <1>7, <1>8 DEF IInv

(***************************************************************************)
(* Handles and fds.                                                        *)
(***************************************************************************)

\* The slots in use after a step follow dir_table.
LEMMA UsedNext == Used' = {h \in Handle : dirFd'[h] # Free}
BY DEF Used, Handle, Free

\* An fd is no free slot.
LEMMA FdIsNotFree == \A f \in HostFd : f # Free
BY HostAssumption DEF Free

\* Opening a file takes an fd nobody had, for the file.
LEMMA OpenAgrees ==
  ASSUME IInv, NEW name, NEW mode \in {"rw", "ro"}, OpenAs(name, mode)
  PROVE  HandlesAgree' /\ FdsAgree' /\ HeldPlain'
<1> USE DEF IInv, HandlesAgree, HeldPlain, TypeOK
<1>1. UNCHANGED <<dirFd, heldDir, collided>> BY DEF OpenAs, process, client
<1>2. Used' = Used BY <1>1, UsedNext DEF Used
<1>3. CASE UNCHANGED <<openOn, heldFd>> BY <1>1, <1>2, <1>3 DEF FdsAgree
<1>4. ASSUME NEW f \in HostFd, openOn[f] = Closed,
             NEW o, o.on # "stream",
             openOn' = [openOn EXCEPT ![f] = o], heldFd' = [heldFd EXCEPT ![f] = o]
      PROVE  HeldPlain' /\ FdsAgree'
  <2>1. HeldPlain' BY <1>4
  <2>2. ~collided => \A h \in Used : dirFd[h] # f
    BY <1>4 DEF FdsAgree, Closed
  <2> QED BY <1>1, <1>2, <1>4, <2>1, <2>2 DEF FdsAgree
<1>5. \/ UNCHANGED <<openOn, heldFd>>
      \/ \E f \in FreeFds : LET o == [on |-> mode, node |-> BaseOf[name]] IN
           openOn' = [openOn EXCEPT ![f] = o] /\ heldFd' = [heldFd EXCEPT ![f] = o]
  BY DEF OpenAs, Taken, process, client
<1>6. ASSUME NEW f \in FreeFds PROVE f \in HostFd /\ openOn[f] = Closed
  BY DEF FreeFds
<1> QED BY <1>1, <1>2, <1>3, <1>4, <1>5, <1>6

\* Closing a file closes nothing else: what the client holds it under is a file.
LEMMA CloseFileAgrees ==
  ASSUME IInv, NEW f \in Held, CloseFile(f)
  PROVE  HandlesAgree' /\ FdsAgree' /\ HeldPlain'
<1> USE DEF IInv, HandlesAgree, HeldPlain, TypeOK
<1>1. UNCHANGED <<dirFd, heldDir, collided>> BY DEF CloseFile
<1>2. Used' = Used BY <1>1, UsedNext DEF Used
<1>3. f \in HostFd /\ heldFd[f] # Closed BY DEF Held
<1>4. openOn' = [openOn EXCEPT ![f] = Closed] /\ heldFd' = [heldFd EXCEPT ![f] = Closed]
  BY DEF CloseFile, After
<1>5. ~collided => \A h \in Used : dirFd[h] # f
  BY <1>3 DEF FdsAgree
<1>6. HeldPlain' BY <1>3, <1>4 DEF Closed
<1> QED BY <1>1, <1>2, <1>3, <1>4, <1>5, <1>6 DEF FdsAgree

\* Closing a directory gives up its slot and its stream, and unless the fd with
\* the handle's number is something else's, nothing more.
LEMMA CloseDirAgrees ==
  ASSUME IInv, NEW h \in heldDir, CloseDir(h)
  PROVE  HandlesAgree' /\ FdsAgree' /\ HeldPlain'
<1> USE DEF IInv, HandlesAgree, HeldPlain, TypeOK
<1>1. h \in Handle /\ h \in Used BY DEF Used
<1>2. dirFd' = [dirFd EXCEPT ![h] = Free] /\ heldDir' = heldDir \ {h}
      /\ heldFd' = heldFd
  BY DEF CloseDir, SlotGiven
<1>3. Used' = Used \ {h} BY <1>1, <1>2, UsedNext DEF Used
<1>4. ASSUME ~collided' PROVE FdsAgree'
  <2>1. ~collided /\ (h \in HostFd /\ openOn[h] # Closed => dirFd[h] = h)
    BY <1>4 DEF CloseDir, IsOpen
  <2> DEFINE s == dirFd[h]
  <2>2. s \in HostFd /\ openOn[s].on = "stream" /\ heldFd[s] = Closed
    <3>1. s \in HostFd BY <1>1 DEF Used
    <3>2. openOn[s].on = "stream" BY <1>1, <2>1 DEF FdsAgree
    <3> QED BY <2>1, <3>1, <3>2 DEF FdsAgree
  <2>3. openOn' = [openOn EXCEPT ![s] = Closed]
    <3>0. Closes(h) = {h, s} BY <1>1 DEF Closes
    <3>1. openOn' = [f \in HostFd |-> IF f = h \/ f = s THEN Closed ELSE openOn[f]]
      BY <3>0 DEF CloseDir
    <3>2. \A f \in HostFd : openOn'[f] = [openOn EXCEPT ![s] = Closed][f]
      BY <2>1, <2>2, <3>1
    <3> QED BY <3>1, <3>2
  <2>4. \A g \in Used' : g \in Used /\ dirFd'[g] = dirFd[g] /\ dirFd[g] # s
    BY <1>1, <1>2, <1>3, <2>1 DEF FdsAgree, Used
  <2> HIDE DEF s
  <2>5. \A g \in Used' : openOn'[dirFd'[g]].on = "stream"
    BY <2>1, <2>2, <2>3, <2>4 DEF FdsAgree, Used
  <2>6. \A g, k \in Used' : dirFd'[g] = dirFd'[k] => g = k
    BY <2>1, <2>4 DEF FdsAgree
  <2>7. ASSUME NEW f \in HostFd
        PROVE  \/ openOn'[f] = heldFd'[f]
               \/ heldFd'[f] = Closed /\ openOn'[f] = Std /\ f \in Inherited
               \/ heldFd'[f] = Closed /\ \E g \in Used' : dirFd'[g] = f
    <3>1. CASE f = s BY <1>2, <2>2, <2>3, <3>1
    <3>2. CASE f # s
      <4>1. openOn'[f] = openOn[f] BY <2>3, <3>2
      <4>2. ASSUME NEW g \in Used, dirFd[g] = f PROVE g \in Used' /\ dirFd'[g] = f
        BY <1>1, <1>2, <1>3, <3>2, <4>2 DEF s, Used
      <4> QED BY <1>2, <2>1, <4>1, <4>2 DEF FdsAgree
    <3> QED BY <3>1, <3>2
  <2> QED BY <2>5, <2>6, <2>7 DEF FdsAgree
<1> QED BY <1>2, <1>3, <1>4 DEF FdsAgree

\* Opening a directory takes a slot and an fd that nobody had.
LEMMA OpendirAgrees ==
  ASSUME IInv, NEW name, Opendir(name)
  PROVE  HandlesAgree' /\ FdsAgree' /\ HeldPlain'
<1> USE DEF IInv, HandlesAgree, HeldPlain, TypeOK
<1>1. CASE Still
  <2>1. Used' = Used BY <1>1, UsedNext DEF Still, Used
  <2> QED BY <1>1, <2>1 DEF Still, client, FdsAgree
<1>2. ASSUME NEW h \in Handle, NEW f \in FreeFds, FirstFree(h),
             Taken(f, [on |-> "stream", node |-> RawOf[name]]),
             dirFd' = [dirFd EXCEPT ![h] = f], heldDir' = heldDir \cup {h},
             UNCHANGED <<heldFd, collided>>
      PROVE  HandlesAgree' /\ FdsAgree' /\ HeldPlain'
  <2>1. h \notin Used /\ f \in HostFd /\ openOn[f] = Closed
    BY <1>2 DEF FirstFree, FreeFds
  <2>2. Used' = Used \cup {h}
    BY <1>2, <2>1, UsedNext, FdIsNotFree DEF Used
  <2>3. openOn' = [openOn EXCEPT ![f] = [on |-> "stream", node |-> RawOf[name]]]
    BY <1>2 DEF Taken
  <2>4. ~collided => \A g \in Used : dirFd[g] # f
    BY <2>1 DEF FdsAgree, Closed
  <2>5. ASSUME ~collided PROVE heldFd[f] = Closed
    BY <2>1, <2>4, <2>5 DEF FdsAgree, Closed, Std
  <2>6. FdsAgree' BY <1>2, <2>1, <2>2, <2>3, <2>4, <2>5 DEF FdsAgree, Used
  <2> QED BY <1>2, <2>2, <2>6
<1> QED BY <1>1, <1>2 DEF Opendir, Still, process

\* ... and every request keeps it.
LEMMA NextInvariant == IInv /\ [Next]_vars => IInv'
<1> SUFFICES ASSUME IInv, [Next]_vars PROVE IInv'
  OBVIOUS
<1>1. TypeOK' BY NextTypes DEF IInv
<1>2. CASE UNCHANGED <<openOn, dirFd, client, collided>>
  <2>1. Used' = Used BY <1>2, UsedNext DEF Used
  <2> QED BY <1>1, <1>2, <2>1 DEF IInv, client, HandlesAgree, FdsAgree, HeldPlain
<1>3. CASE UNCHANGED vars BY <1>2, <1>3 DEF vars, process
<1>4. ASSUME NEW q \in Asks(Held, heldDir), Serve(q) PROVE IInv'
  BY <1>1, <1>2, <1>4, ServeCases, OpenAgrees, CloseFileAgrees, CloseDirAgrees,
     OpendirAgrees DEF IInv, Still
<1> QED BY <1>3, <1>4 DEF Next

\* The types of the file service, whatever its names, fds and slots are.
THEOREM TypesHold == Spec => []TypeOK
<1>1. Init => TypeOK BY InitInvariant DEF IInv
<1>2. TypeOK /\ [Next]_vars => TypeOK' BY NextTypes
<1> QED BY <1>1, <1>2, PTL DEF Spec

\* For any number of slots and of fds, no slot of dir_table is lost or handed
\* out twice, through every failing open and close.
THEOREM SlotsAreHandles == Spec => []HandlesAgree
<1>1. IInv => HandlesAgree BY DEF IInv
<1> QED BY <1>1, InitInvariant, NextInvariant, PTL DEF Spec

\* Until a Close of a directory hits the fd that has its handle's number, every
\* stream is in one slot and every other fd is the client's or inherited.
THEOREM FdsAreAccountedFor == Spec => []FdsAgree
<1>1. IInv => FdsAgree BY DEF IInv
<1> QED BY <1>1, InitInvariant, NextInvariant, PTL DEF Spec

(***************************************************************************)
(* Steps.                                                                  *)
(***************************************************************************)

\* Only a successful Delete changes a file, the one that goes by its name.
LEMMA FilesChangeByDelete ==
  ASSUME TypeOK, NEW q \in Asks(HostFd, Handle), Serve(q)
  PROVE  \/ kind' = kind
         \/ /\ result_code' = OK /\ q = [op |-> "Delete", name |-> q.name]
            /\ kind' = [kind EXCEPT ![RawOf[q.name]] = "absent"]
<1>1. CASE q.op = "Delete" /\ Delete(q.name)
  <2>1. q = [op |-> "Delete", name |-> q.name] BY <1>1 DEF Asks
  <2> QED BY <1>1, <2>1 DEF Delete, Done
<1>2. (q.op = "Delete" /\ Delete(q.name)) \/ kind' = kind
  BY NothingIsMade
  DEF Serve, Create, Open, NotImplemented, EchoOK, Read, Write, Transfer,
      CloseFile, CloseDir, GetStat, SetStat, Opendir, Readdir
<1> QED BY <1>1, <1>2

\* A request that is refused leaves fds and slots alone, unless it is a Close.
LEMMA RefusedIsStill ==
  ASSUME NEW q, Serve(q), result_code' # OK, q.op \notin {"CloseFile", "CloseDir"}
  PROVE  UNCHANGED <<openOn, dirFd, client>>
<1>1. ASSUME NEW name, NEW mode, OpenAs(name, mode)
      PROVE  UNCHANGED <<openOn, dirFd, client>>
  BY <1>1 DEF OpenAs, Answer, process
<1>2. ASSUME NEW name, Opendir(name) PROVE UNCHANGED <<openOn, dirFd, client>>
  BY <1>2 DEF Opendir, Answer, process
<1>3. CASE \/ NotImplemented \/ EchoOK \/ Read(q.fd, q.fits) \/ Write(q.fd, q.fits)
           \/ GetStat(q.name, q.fits) \/ SetStat(q.name, q.fits)
           \/ Readdir(q.dir, q.name, q.fits) \/ Delete(q.name) \/ MkDir(q.name)
  BY <1>3 DEF NotImplemented, EchoOK, Read, Write, Transfer, GetStat, SetStat,
              Readdir, Delete, MkDir, process
<1> QED BY <1>1, <1>2, <1>3 DEF Serve, Create, Open

\* For all names, files and table sizes, a refused request has changed nothing
\* but what a Close gives up, and what is there goes only by a Delete of its own
\* name, which when it is answered OK has taken it away.
THEOREM AnswersTellEffects == Spec => EffectsAsAnswered
<1> DEFINE Effects ==
      /\ result_code' # OK =>
           /\ kind' = kind
           /\ request'.op \notin {"CloseFile", "CloseDir"}
                => UNCHANGED <<openOn, dirFd, client>>
      /\ \A n \in Node : kind[n] \notin {"absent", kind'[n]} =>
           request'.op = "Delete" /\ RawOf[request'.name] = n
      /\ request'.op = "Delete" /\ result_code' = OK =>
           kind'[RawOf[request'.name]] = "absent"
<1>1. ASSUME TypeOK, NEW q \in Asks(Held, heldDir), Serve(q), request' = q
      PROVE  Effects
  <2>0. q \in Asks(HostFd, Handle) BY <1>1, HeldAreFds
  <2>1. result_code' # OK => kind' = kind BY <1>1, <2>0, FilesChangeByDelete
  <2>2. result_code' # OK /\ q.op \notin {"CloseFile", "CloseDir"}
          => UNCHANGED <<openOn, dirFd, client>>
    BY <1>1, RefusedIsStill
  <2>3. ASSUME NEW n \in Node, kind'[n] # kind[n]
        PROVE  q.op = "Delete" /\ RawOf[q.name] = n
    BY <1>1, <2>0, <2>3, FilesChangeByDelete DEF TypeOK
  <2>4. ASSUME q.op = "Delete", result_code' = OK
        PROVE  kind'[RawOf[q.name]] = "absent"
    <3>1. q.name \in Name BY <2>0, <2>4, RequestNames
    <3>2. RawOf[q.name] \in Node \cup {Outside} BY <3>1, HostAssumption
    <3>3. Delete(q.name) BY <1>1, <2>4 DEF Serve
    <3> QED BY <1>1, <2>4, <3>2, <3>3 DEF Delete, NotConfined, FailWith, Exists, OK, TypeOK
  <2> QED BY <1>1, <2>1, <2>2, <2>3, <2>4
<1>2. TypeOK /\ [Next]_vars => [Effects]_vars BY <1>1 DEF Next
<1> QED BY <1>2, TypesHold, PTL DEF Spec, EffectsAsAnswered

(***************************************************************************)
(* No fd is lost.                                                          *)
(***************************************************************************)

\* A step that keeps fds, slots and what the client holds keeps each of them
\* accounted for; so does one that takes a free fd for the client or for a slot,
\* and one that closes what it gives up.
LEMMA ServeLosesNoFd ==
  ASSUME TypeOK, NoFdLost, NEW q \in Asks(HostFd, Handle), Serve(q)
  PROVE  NoFdLost'
<1> USE DEF TypeOK, NoFdLost
<1>1. CASE Still
  <2>1. Used' = Used BY <1>1, UsedNext DEF Still, Used
  <2> QED BY <1>1, <2>1 DEF Still, client
<1>2. ASSUME NEW name, NEW mode \in {"rw", "ro"}, OpenAs(name, mode) PROVE NoFdLost'
  <2>1. dirFd' = dirFd BY <1>2 DEF OpenAs, process
  <2>2. Used' = Used BY <2>1, UsedNext DEF Used
  <2>3. \/ UNCHANGED <<openOn, heldFd>>
        \/ \E f \in HostFd : LET o == [on |-> mode, node |-> BaseOf[name]] IN
             openOn' = [openOn EXCEPT ![f] = o] /\ heldFd' = [heldFd EXCEPT ![f] = o]
    BY <1>2 DEF OpenAs, Taken, process, client, FreeFds
  <2>4. [on |-> mode, node |-> BaseOf[name]] # Closed BY <1>2 DEF Closed
  <2> QED BY <2>1, <2>2, <2>3, <2>4
<1>3. ASSUME NEW f \in HostFd, CloseFile(f) PROVE NoFdLost'
  <2>1. dirFd' = dirFd BY <1>3 DEF CloseFile
  <2>2. Used' = Used BY <2>1, UsedNext DEF Used
  <2> QED BY <1>3, <2>1, <2>2 DEF CloseFile, After
<1>4. ASSUME NEW h \in Handle, CloseDir(h) PROVE NoFdLost'
  <2>1. dirFd' = [dirFd EXCEPT ![h] = Free] /\ heldFd' = heldFd
    BY <1>4 DEF CloseDir, SlotGiven
  <2>2. Used' = Used \ {h} BY <2>1, UsedNext DEF Used
  <2>3. \A f \in HostFd : openOn'[f] # Closed =>
          openOn'[f] = openOn[f] /\ (h \in Used => f # dirFd[h])
    BY <1>4 DEF CloseDir, Closes
  <2>4. \A g \in Used' : dirFd'[g] = dirFd[g] /\ g # h BY <2>1, <2>2 DEF Used
  <2> QED BY <2>1, <2>2, <2>3, <2>4
<1>5. ASSUME NEW name, Opendir(name) PROVE NoFdLost'
  <2>1. ASSUME NEW h \in Handle, NEW f \in HostFd, FirstFree(h),
               Taken(f, [on |-> "stream", node |-> RawOf[name]]),
               dirFd' = [dirFd EXCEPT ![h] = f], heldFd' = heldFd
        PROVE  NoFdLost'
    <3>1. h \notin Used BY <2>1 DEF FirstFree
    <3>2. Used' = Used \cup {h} BY <2>1, <3>1, UsedNext, FdIsNotFree DEF Used
    <3>3. \A g \in Used : dirFd'[g] = dirFd[g] BY <2>1, <3>1 DEF Used
    <3>4. dirFd'[h] = f BY <2>1
    <3> QED BY <2>1, <3>2, <3>3, <3>4 DEF Taken
  <2> QED BY <1>1, <1>5, <2>1 DEF Opendir, Still, process, FreeFds
<1> HIDE DEF TypeOK, NoFdLost
<1> QED BY <1>1, <1>2, <1>3, <1>4, <1>5, ServeCases

\* However many opens fail and whatever a Close of a directory hits, no fd of the
\* process is open that neither the client nor a slot can close.
THEOREM NoFdIsLost == Spec => []NoFdLost
<1>1. Init => TypeOK /\ NoFdLost
  BY InitInvariant DEF IInv, Init, NoFdLost
<1>2. TypeOK /\ NoFdLost /\ [Next]_vars => TypeOK' /\ NoFdLost'
  <2> SUFFICES ASSUME TypeOK, NoFdLost, [Next]_vars PROVE NoFdLost'
    BY NextTypes
  <2>1. CASE UNCHANGED vars
    BY <2>1 DEF vars, process, client, NoFdLost, Used
  <2>2. ASSUME NEW q \in Asks(Held, heldDir), Serve(q) PROVE NoFdLost'
    BY <2>2, HeldAreFds, ServeLosesNoFd
  <2> QED BY <2>1, <2>2 DEF Next
<1> QED BY <1>1, <1>2, PTL DEF Spec

-------------------------------------------------------------------------------
(***************************************************************************)
(* Behind the mailbox.                                                     *)
(*                                                                         *)
(* The client has one request at a time (OneAtATime).  What makes it safe  *)
(* to carry one out again is what must be true while it waits              *)
(* (RepeatIsIdle): a file that was deleted is gone, and a request that     *)
(* wrote finds no fd of the client's open, for it only waits again because *)
(* the process died.  AnswerStands is what an answer that is still under   *)
(* way says.                                                               *)
(***************************************************************************)
Idle == \A r \in Rpc!Request : stage[r] \notin {"pending", "executed"}

OneAtATime ==
  \A q, r \in Rpc!Request : q < r /\ stage[r] # "unsent" => stage[q] = "answered"

Gone == /\ asked.op = "Delete" /\ RawOf[asked.name] \in Node
        /\ kind[RawOf[asked.name]] = "absent"

RepeatIsIdle ==
  /\ effects \in {0, 1}
  /\ effects = 1 => Gone \/ asked.op = "Write"
  /\ \A r \in Rpc!Request :
       stage[r] = "pending" /\ effects = 1 => Gone \/ openOn = FreshFds

AnswerStands ==
  \A r \in Rpc!Request : stage[r] = "executed" =>
    /\ runs > 0 /\ ranIn > 0
    /\ Opened => result_len \in HostFd
    /\ asked.op = "Opendir" /\ result_code = OK => result_len \in Handle
    /\ asked.op \in {"Write", "Delete"} /\ result_code = OK => effects = 1
    /\ result_code # OK /\ effects = 1 => runs > 1

OneRunPerLife ==
  /\ crashes < life /\ runs <= life
  /\ \A r \in Rpc!Request : stage[r] = "pending" => runs < life

ServiceInv == /\ ServiceTypeOK /\ OneAtATime /\ RepeatIsIdle /\ AnswerStands
              /\ OneRunPerLife

\* The invariant of the service holds at the start.
LEMMA ServiceInitInv == ServiceInit => ServiceInv
<1> SUFFICES ASSUME ServiceInit PROVE ServiceInv
  OBVIOUS
<1> USE HostAssumption, ServiceAssumption DEF ServiceInit, Rpc!Init
<1>1. TypeOK /\ ~collided BY InitInvariant DEF IInv, Init
<1>2. asked \in Asks(HostFd, Handle) BY DEF Asks
<1>3. ServiceTypeOK
  <2>1. stage \in [Rpc!Request -> Rpc!Stage] BY DEF Rpc!Stage
  <2>2. life \in Life /\ crashes \in 0..MaxLives-1 /\ runs \in 0..MaxLives
        /\ effects \in 0..runs /\ ranIn \in 0..life
    BY DEF Life
  <2> QED BY <1>1, <1>2, <2>1, <2>2 DEF ServiceTypeOK
<1>4. OneAtATime /\ RepeatIsIdle /\ AnswerStands /\ OneRunPerLife
  BY DEF OneAtATime, RepeatIsIdle, AnswerStands, OneRunPerLife
<1> QED BY <1>3, <1>4 DEF ServiceInv

\* While one request is under way, no other is.
LEMMA Alone ==
  ASSUME ServiceInv, NEW r \in Rpc!Request, NEW q \in Rpc!Request, q # r,
         stage[r] \in {"pending", "executed"}
  PROVE  stage[q] \in {"unsent", "answered"}
<1>1. q < r \/ r < q BY DEF Rpc!Request
<1>2. stage[q] \in Rpc!Stage BY DEF ServiceInv, ServiceTypeOK
<1> QED BY <1>1, <1>2 DEF ServiceInv, OneAtATime, Rpc!Stage

\* None is when the client issues the next.
LEMMA IssueAlone ==
  ASSUME ServiceInv, NEW r \in Rpc!Request, Rpc!Call(r)
  PROVE  Idle
<1> SUFFICES ASSUME NEW q \in Rpc!Request PROVE stage[q] \notin {"pending", "executed"}
  BY DEF Idle
<1>1. q < r \/ q = r \/ r < q BY DEF Rpc!Request
<1> QED BY <1>1 DEF ServiceInv, OneAtATime, Rpc!Call

\* A handler behind the mailbox closes no directory, so no close goes astray.
LEMMA ServeSpares ==
  ASSUME ServiceTypeOK, Serve(asked)
  PROVE  asked.op # "CloseDir" /\ collided' = collided
<1>1. asked \in Asks(HostFd, Handle) BY DEF ServiceTypeOK
<1>2. asked.op # "CloseDir" BY DEF ServiceTypeOK
<1>3. ASSUME NEW name, NEW mode, OpenAs(name, mode) PROVE collided' = collided
  BY <1>3 DEF OpenAs
<1>4. ASSUME NEW f, CloseFile(f) PROVE collided' = collided BY <1>4 DEF CloseFile
<1>5. ASSUME NEW name, Opendir(name) PROVE collided' = collided BY <1>5 DEF Opendir
<1> QED BY <1>1, <1>2, <1>3, <1>4, <1>5, ServeCases DEF Still

\* Issuing a request keeps the invariant: nothing is under way.
LEMMA IssueInv ==
  ASSUME ServiceInv, NEW r \in Rpc!Request, Issue(r)
  PROVE  ServiceInv'
<1> USE DEF ServiceInv, Issue
<1>1. UNCHANGED <<kind, openOn, dirFd, dirPos, errno, result_code, result_len, request,
                  heldFd, heldDir, collided, answer, crashes, known, knownDir, life,
                  staleClosed>>
      /\ runs' = 0 /\ effects' = 0 /\ ranIn' = 0
  BY DEF vars, process, result, client, Rpc!Call
<1>2. stage[r] = "unsent" /\ stage' = [stage EXCEPT ![r] = "pending"]
      /\ \A q \in Rpc!Request : q < r => stage[q] = "answered"
  BY DEF Rpc!Call
<1>3. asked' \in Asks(HostFd, Handle) /\ asked'.op # "CloseDir" /\ about' \in Told \cup {NoFile}
  <2>1. ASSUME NEW k \in known PROVE {k.fd} \subseteq HostFd
    BY DEF ServiceTypeOK, Told
  <2>2. {} \subseteq HostFd /\ {} \subseteq Handle /\ knownDir \subseteq Handle
    BY DEF ServiceTypeOK
  <2>3. Asks({}, knownDir) \subseteq Asks(HostFd, Handle) BY <2>2, AsksGrow
  <2>4. ASSUME NEW k \in known PROVE Asks({k.fd}, {}) \subseteq Asks(HostFd, Handle)
    BY <2>1, <2>2, AsksGrow
  <2> QED BY <2>3, <2>4 DEF ServiceTypeOK
<1>4. TypeOK' BY <1>1 DEF ServiceTypeOK, TypeOK, Held, Used
<1>5. ServiceTypeOK' BY <1>1, <1>2, <1>3, <1>4, ServiceAssumption
  DEF ServiceTypeOK, Rpc!Stage, Life
<1>6. OneAtATime'
  <2>1. \A q \in Rpc!Request : stage[q] # "unsent" => q < r
    BY <1>2 DEF OneAtATime, Rpc!Request
  <2> QED BY <1>2, <2>1 DEF OneAtATime, ServiceTypeOK, Rpc!Request
<1>7. RepeatIsIdle' BY <1>1 DEF RepeatIsIdle
<1>8. AnswerStands'
  <2>1. Idle BY IssueAlone
  <2> QED BY <1>2, <2>1 DEF AnswerStands, Idle, ServiceTypeOK
<1>9. OneRunPerLife' BY <1>1 DEF OneRunPerLife, ServiceTypeOK, Life
<1> QED BY <1>5, <1>6, <1>7, <1>8, <1>9

\* The first time a handler takes effect, its request can do no more; the
\* second time it takes none.
LEMMA CarryTakes ==
  ASSUME ServiceInv, NEW r \in Rpc!Request, Carry(r)
  PROVE  /\ Takes => effects = 0 /\ effects' = 1 /\ result_code' = OK
                     /\ (Gone' \/ asked.op = "Write")
         /\ ~Takes => effects' = effects
         /\ ~Takes => result_code' # OK \/ asked.op \notin {"Write", "Delete"}
         /\ Gone => Gone'
<1> USE DEF ServiceInv, Carry, ServiceTypeOK
<1>0. stage[r] = "pending" /\ asked' = asked BY DEF Rpc!Execute, talk
<1>1. asked \in Asks(HostFd, Handle) OBVIOUS
<1>2. \/ kind' = kind
      \/ /\ result_code' = OK /\ asked.op = "Delete"
         /\ kind' = [kind EXCEPT ![RawOf[asked.name]] = "absent"]
  BY <1>1, FilesChangeByDelete
<1>3. Gone => Gone' BY <1>0, <1>2 DEF Gone, TypeOK
<1>4. asked.op = "Write" => kind' = kind BY <1>2
<1>5. CASE asked.op = "Write"
  <2>1. Write(asked.fd, asked.fits) /\ asked.fd \in HostFd
    BY <1>1, <1>5, RequestNames DEF Serve
  <2>2. openOn = FreshFds => result_code' # OK
    BY <2>1 DEF Write, Transfer, FreshFds, Std, Closed, Refuse, FailWith, OK
  <2>3. effects = 1 => result_code' # OK
    BY <1>0, <1>5, <2>2 DEF RepeatIsIdle, Gone
  <2> QED BY <1>0, <1>3, <1>4, <1>5, <2>3 DEF Takes, RepeatIsIdle
<1>6. CASE asked.op = "Delete"
  <2> DEFINE n == RawOf[asked.name]
  <2>1. Delete(asked.name) /\ asked.name \in Name
    BY <1>1, <1>6, RequestNames DEF Serve
  <2>2. n \in Node \cup {Outside} BY <2>1, HostAssumption
  <2>3. \/ kind' = kind /\ result_code' # OK
        \/ /\ n \in Node /\ kind[n] = "file" /\ result_code' = OK
           /\ kind' = [kind EXCEPT ![n] = "absent"]
    BY <2>1, <2>2 DEF Delete, NotConfined, FailWith, Done, Exists, OK
  <2>4. CASE kind' = kind /\ result_code' # OK
    BY <1>3, <1>6, <2>4 DEF Takes
  <2>5. CASE /\ n \in Node /\ kind[n] = "file" /\ result_code' = OK
             /\ kind' = [kind EXCEPT ![n] = "absent"]
    <3>1. kind'[n] = "absent" /\ kind' # kind BY <2>5 DEF TypeOK
    <3>2. Gone' /\ ~Gone BY <1>0, <1>6, <2>5, <3>1 DEF Gone
    <3> QED BY <1>0, <1>6, <2>5, <3>1, <3>2 DEF Takes, RepeatIsIdle
  <2> QED BY <2>3, <2>4, <2>5
<1>7. CASE asked.op \notin {"Write", "Delete"}
  BY <1>2, <1>3, <1>7 DEF Takes
<1> QED BY <1>5, <1>6, <1>7

\* Carrying a request out keeps it, the first time and again.
LEMMA CarryInv ==
  ASSUME ServiceInv, NEW r \in Rpc!Request, Carry(r)
  PROVE  ServiceInv'
<1> USE DEF ServiceInv, Carry
<1>1. /\ stage[r] = "pending" /\ stage' = [stage EXCEPT ![r] = "executed"]
      /\ UNCHANGED <<answer, crashes, asked, about, known, knownDir, life>>
      /\ runs' = runs + 1 /\ ranIn' = life
  BY DEF Rpc!Execute, talk
<1>2. asked \in Asks(HostFd, Handle) /\ TypeOK BY DEF ServiceTypeOK
<1>3. TypeOK' BY <1>2, ServeTypes, ServeAnswers DEF TypeOK, AnswerOK
<1>4. effects \in {0, 1} /\ runs \in 0..MaxLives /\ effects \in 0..runs
      /\ life \in Life /\ runs < life
  BY <1>1 DEF RepeatIsIdle, ServiceTypeOK, OneRunPerLife
<1>5. effects' \in {0, 1} /\ (effects' = effects \/ effects' = 1)
  BY <1>4, CarryTakes
<1>6. ServiceTypeOK'
  <2>1. ~collided' BY ServeSpares DEF ServiceTypeOK
  <2>2. runs' \in 0..MaxLives /\ effects' \in 0..runs' /\ ranIn' \in 0..life'
    BY <1>1, <1>4, <1>5, ServiceAssumption DEF Life
  <2>3. staleClosed' \in BOOLEAN BY DEF ServiceTypeOK
  <2>4. stage' \in [Rpc!Request -> Rpc!Stage] BY <1>1 DEF ServiceTypeOK, Rpc!Stage
  <2> QED BY <1>1, <1>3, <2>1, <2>2, <2>3, <2>4 DEF ServiceTypeOK
<1>7. OneAtATime'
  BY <1>1 DEF OneAtATime, ServiceTypeOK, Rpc!Request
<1>8. \A q \in Rpc!Request : stage'[q] # "pending" /\ (stage'[q] = "executed" => q = r)
  <2> SUFFICES ASSUME NEW q \in Rpc!Request
               PROVE  stage'[q] # "pending" /\ (stage'[q] = "executed" => q = r)
    OBVIOUS
  <2>1. CASE q = r BY <1>1, <2>1 DEF ServiceTypeOK
  <2>2. CASE q # r BY <1>1, <2>2, Alone DEF ServiceTypeOK
  <2> QED BY <2>1, <2>2
<1>9. RepeatIsIdle'
  <2>1. effects' = 1 => Gone' \/ asked.op = "Write" BY CarryTakes DEF RepeatIsIdle
  <2> QED BY <1>1, <1>5, <1>8, <2>1 DEF RepeatIsIdle
<1>10. AnswerStands'
  <2>1. runs' > 0 /\ ranIn' > 0 BY <1>1, <1>4 DEF Life
  <2>2. Opened' => result_len' \in HostFd
    <3>1. ASSUME Opened' PROVE \E name, mode : OpenAs(name, mode)
      BY <1>1, <3>1 DEF Opened, Serve, Create, Open
    <3>2. ASSUME NEW name, NEW mode, OpenAs(name, mode), result_code' = OK
          PROVE  result_len' \in HostFd
      BY <3>2 DEF OpenAs, FailWith, Answer, FreeFds, OK
    <3> QED BY <3>1, <3>2 DEF Opened
  <2>3. asked'.op = "Opendir" /\ result_code' = OK => result_len' \in Handle
    <3>1. ASSUME NEW name, Opendir(name), result_code' = OK
          PROVE  result_len' \in Handle
      BY <3>1 DEF Opendir, NotConfined, Refuse, FailWith, Answer, OK
    <3> QED BY <1>1, <3>1 DEF Serve
  <2>4. asked'.op \in {"Write", "Delete"} /\ result_code' = OK => effects' = 1
    BY <1>1, CarryTakes
  <2>5. result_code' # OK /\ effects' = 1 => runs' > 1
    BY <1>1, <1>4, CarryTakes
  <2> QED BY <1>8, <2>1, <2>2, <2>3, <2>4, <2>5 DEF AnswerStands
<1>11. OneRunPerLife' BY <1>1, <1>4, <1>8, ServiceAssumption DEF OneRunPerLife, Life
<1> QED BY <1>6, <1>7, <1>9, <1>10, <1>11

\* Taking an answer keeps it: the number it holds is an fd or a handle.
LEMMA DeliverInv ==
  ASSUME ServiceInv, NEW r \in Rpc!Request, Deliver(r)
  PROVE  ServiceInv'
<1> USE DEF ServiceInv, Deliver
<1>1. /\ UNCHANGED <<kind, openOn, dirFd, dirPos, errno, result_code, result_len,
                     request, heldFd, heldDir, collided, crashes, asked, about, runs,
                     effects, ranIn, life, staleClosed>>
      /\ stage[r] = "executed" /\ stage' = [stage EXCEPT ![r] = "answered"]
  BY DEF vars, process, result, client, history, Rpc!Answer
<1>2. TypeOK' BY <1>1 DEF ServiceTypeOK, TypeOK
<1>3. known' \subseteq Told
  <2>1. {ranIn} \subseteq Life /\ (Opened => {result_len} \subseteq HostFd)
    BY <1>1, ServiceAssumption DEF AnswerStands, ServiceTypeOK, Life
  <2>2. [on : {"ro", "rw"}, node : Node] \subseteq Object BY DEF Object
  <2>3. Opened => [fd : {result_len}, life : {ranIn},
                   file : [on : {"ro", "rw"}, node : Node]] \subseteq Told
    BY <2>1, <2>2 DEF Told
  <2> QED BY <2>3 DEF ServiceTypeOK
<1>4. knownDir' \subseteq Handle BY <1>1 DEF AnswerStands, ServiceTypeOK
<1>5. ServiceTypeOK' BY <1>1, <1>2, <1>3, <1>4 DEF ServiceTypeOK, Rpc!Stage
<1>6. OneAtATime' BY <1>1 DEF OneAtATime, ServiceTypeOK, Rpc!Request
<1>7. \A q \in Rpc!Request : stage'[q] \in {"pending", "executed"} => stage'[q] = stage[q]
  BY <1>1 DEF ServiceTypeOK
<1>8. RepeatIsIdle' BY <1>1, <1>7 DEF RepeatIsIdle, Gone, FreshFds
<1>9. AnswerStands' BY <1>1, <1>7 DEF AnswerStands, Opened
<1>10. OneRunPerLife' BY <1>1, <1>7 DEF OneRunPerLife
<1> QED BY <1>5, <1>6, <1>8, <1>9, <1>10

\* A restart keeps it, with or without the answer that was under way.
LEMMA RebornInv ==
  ASSUME ServiceInv, CrashAndRestart \/ ExitAndRestart
  PROVE  ServiceInv'
<1> USE ServiceAssumption DEF ServiceInv
<1>1. /\ life < MaxLives /\ life' = life + 1 /\ openOn' = FreshFds
      /\ dirFd' = [h \in Handle |-> Free] /\ dirPos' = [h \in Handle |-> 0]
      /\ errno' = OK
      /\ heldFd' = [f \in HostFd |-> Closed] /\ heldDir' = {}
      /\ UNCHANGED <<kind, result_code, result_len, request, collided, asked, about,
                     known, knownDir, runs, effects, ranIn, staleClosed>>
  BY DEF CrashAndRestart, ExitAndRestart, Reborn, result, talk
<1>2. /\ crashes' \in {crashes, crashes + 1}
      /\ \/ stage' = stage
         \/ \E r \in Rpc!Request : stage[r] = "executed"
                                   /\ stage' = [stage EXCEPT ![r] = "pending"]
  BY DEF CrashAndRestart, ExitAndRestart, Rpc!Crash, Rpc!Lose, delivery
<1>3. TypeOK'
  <2>1. Closed \in Object /\ Std \in Object BY DEF Closed, Std, Object
  <2>2. 0 \in 0..DirLen BY HostAssumption
  <2> QED BY <1>1, <2>1, <2>2 DEF ServiceTypeOK, TypeOK, FreshFds
<1>4. /\ life \in Life /\ runs \in 0..MaxLives /\ effects \in 0..runs
      /\ ranIn \in 0..life /\ crashes \in 0..MaxLives-1
      /\ crashes < life /\ runs <= life
  BY DEF ServiceTypeOK, OneRunPerLife
<1>5. ServiceTypeOK'
  <2>1. life' \in Life /\ ranIn' \in 0..life' /\ crashes' \in 0..MaxLives-1
    BY <1>1, <1>2, <1>4 DEF Life
  <2>2. stage' \in [Rpc!Request -> Rpc!Stage]
    BY <1>2 DEF ServiceTypeOK, Rpc!Stage
  <2> QED BY <1>1, <1>3, <1>4, <2>1, <2>2 DEF ServiceTypeOK
<1>6. OneAtATime' BY <1>2 DEF OneAtATime, ServiceTypeOK, Rpc!Request
<1>7. RepeatIsIdle' BY <1>1 DEF RepeatIsIdle, Gone, FreshFds
<1>8. \A q \in Rpc!Request : stage'[q] = "executed" => stage[q] = "executed"
  BY <1>2 DEF ServiceTypeOK
<1>9. AnswerStands' BY <1>1, <1>8 DEF AnswerStands, Opened
<1>10. OneRunPerLife' BY <1>1, <1>2, <1>4 DEF OneRunPerLife, Life
<1> QED BY <1>5, <1>6, <1>7, <1>9, <1>10

\* Every step of the service keeps it.
LEMMA ServiceNextInv ==
  ServiceInv /\ [ServiceNext]_<<vars, delivery, talk, history>> => ServiceInv'
<1> SUFFICES ASSUME ServiceInv, [ServiceNext]_<<vars, delivery, talk, history>>
             PROVE  ServiceInv'
  OBVIOUS
<1>1. CASE UNCHANGED <<vars, delivery, talk, history>>
  <2>1. TypeOK'
    BY <1>1 DEF vars, process, result, client, ServiceInv, ServiceTypeOK, TypeOK
  <2> QED BY <1>1, <2>1 DEF vars, process, result, client, delivery, talk, history,
       ServiceInv, ServiceTypeOK, OneAtATime, RepeatIsIdle, Gone, FreshFds,
       AnswerStands, Opened, OneRunPerLife
<1> QED BY <1>1, IssueInv, CarryInv, DeliverInv, RebornInv DEF ServiceNext

\* The types of the service, whatever is lost and however often the host starts.
THEOREM ServiceTypes == ServiceSpec => []ServiceTypeOK
<1>1. ServiceInv => ServiceTypeOK BY DEF ServiceInv
<1> QED BY <1>1, ServiceInitInv, ServiceNextInv, PTL DEF ServiceSpec

\* For any number of files, fds, requests and restarts, no request writes or
\* deletes twice.
THEOREM RepetitionIsHarmless == ServiceSpec => []EffectAtMostOnce
<1>1. ServiceInv => EffectAtMostOnce
  BY DEF ServiceInv, RepeatIsIdle, EffectAtMostOnce
<1> QED BY <1>1, ServiceInitInv, ServiceNextInv, PTL DEF ServiceSpec

\* The answer the client takes says what its request did, unless a process that
\* died had done it already.
THEOREM AnswersAreHonest == ServiceSpec => AnswerIsHonest
<1>1. ServiceInv /\ [ServiceNext]_<<vars, delivery, talk, history>> =>
        [\A r \in Rpc!Request : stage[r] = "executed" /\ stage'[r] = "answered" =>
           /\ result_code = OK /\ asked.op \in {"Write", "Delete"} => effects = 1
           /\ result_code # OK /\ effects = 1 => runs > 1]_<<stage, result, effects, runs>>
  BY DEF ServiceInv, AnswerStands
<1> QED BY <1>1, ServiceInitInv, ServiceNextInv, PTL DEF ServiceSpec, AnswerIsHonest

(***************************************************************************)
(* What client and host have open, by what the client knows (ClientKnows), *)
(* what an answer still under way will tell it (AnswerIsFresh), and that   *)
(* of this life it knows each fd for one file only (KnownOnce).            *)
(***************************************************************************)
OpenedFile ==
  [on |-> IF asked.op = "Create" THEN "rw" ELSE "ro", node |-> BaseOf[asked.name]]

ClientKnows ==
  /\ \A k \in known : k.life <= life /\ k.file.on \in {"ro", "rw"}
  /\ asked.op = "CloseFile" => about \in Told /\ asked.fd = about.fd
  /\ ~Idle => about \in known \cup {NoFile}
  /\ Idle /\ asked.op = "CloseFile" => about \notin known

AnswerIsFresh ==
  \A r \in Rpc!Request : stage[r] = "executed" =>
    /\ about.life <= ranIn
    /\ Opened => BaseOf[asked.name] \in Node
    /\ ranIn = life => /\ Opened => openOn[result_len] = OpenedFile
                       /\ asked.op = "CloseFile" => openOn[about.fd] = Closed

KnownOnce ==
  ~staleClosed => \A j, k \in known :
                    j.life = life /\ k.life = life /\ j.fd = k.fd => j = k

FilesInv == ServiceInv /\ ClientKnows /\ AnswerIsFresh /\ KnownOnce /\ OpenFilesAgree

\* What carrying out a request does to the fds.
LEMMA CarryOpens ==
  ASSUME ServiceTypeOK, Serve(asked), asked' = asked
  PROVE  \/ openOn' = openOn /\ ~Opened' /\ asked.op # "CloseFile"
         \/ /\ Opened' /\ result_len' \in FreeFds /\ BaseOf[asked.name] \in Node
            /\ openOn' = [openOn EXCEPT ![result_len'] = OpenedFile]
         \/ /\ asked.op = "CloseFile" /\ asked.fd \in HostFd
            /\ openOn' = [openOn EXCEPT ![asked.fd] = Closed]
            /\ openOn[asked.fd] # Closed => result_code' = OK
         \/ /\ asked.op = "Opendir"
            /\ \E f \in FreeFds, n \in Node :
                 openOn' = [openOn EXCEPT ![f] = [on |-> "stream", node |-> n]]
<1> USE DEF ServiceTypeOK
<1>1. asked \in Asks(HostFd, Handle) OBVIOUS
<1>2. CASE asked.op \in {"Create", "Open"}
  <2>1. asked.name \in Name BY <1>1, <1>2, RequestNames
  <2>2. OpenAs(asked.name, IF asked.op = "Create" THEN "rw" ELSE "ro")
    BY <1>2 DEF Serve, Create, Open
  <2>3. BaseOf[asked.name] \in Node \cup {Outside} BY <2>1, HostAssumption
  <2> QED BY <1>2, <2>2, <2>3
    DEF OpenAs, Opened, OpenedFile, FailWith, Answer, Taken, Exists, OK, process
<1>3. CASE asked.op = "CloseFile"
  <2>1. asked.fd \in HostFd BY <1>1, <1>3, RequestNames
  <2>2. CloseFile(asked.fd) BY <1>3 DEF Serve
  <2> QED BY <1>3, <2>1, <2>2 DEF CloseFile, CloseCall, IsOpen, After, Done
<1>4. CASE asked.op = "Opendir"
  <2>1. asked.name \in Name BY <1>1, <1>4, RequestNames
  <2>2. Opendir(asked.name) BY <1>4 DEF Serve
  <2>3. RawOf[asked.name] \in Node \cup {Outside} BY <2>1, HostAssumption
  <2> QED BY <1>4, <2>2, <2>3
    DEF Opendir, Opened, Taken, Exists, IsDir, process
<1>5. CASE asked.op \notin {"Create", "Open", "CloseFile", "Opendir"}
  <2>1. asked.op # "CloseDir" BY ServeSpares
  <2> QED BY <1>5, <2>1
    DEF Serve, Opened, NotImplemented, EchoOK, Read, Write, Transfer, GetStat, SetStat,
        Readdir, Delete, MkDir, process
<1> QED BY <1>2, <1>3, <1>4, <1>5

\* Carrying out a request keeps client and host in agreement.
LEMMA CarryFiles ==
  ASSUME FilesInv, NEW r \in Rpc!Request, Carry(r)
  PROVE  ClientKnows' /\ AnswerIsFresh' /\ KnownOnce' /\ OpenFilesAgree'
<1> USE DEF FilesInv, Carry
<1>1. /\ stage[r] = "pending" /\ stage' = [stage EXCEPT ![r] = "executed"]
      /\ UNCHANGED <<asked, about, known, knownDir, life>> /\ ranIn' = life
  BY DEF Rpc!Execute, talk
<1>2. stage'[r] = "executed" /\ ~Idle /\ ~Idle'
  BY <1>1 DEF Idle, ServiceInv, ServiceTypeOK
<1>3. \A q \in Rpc!Request : stage[q] # "executed"
  BY <1>1, Alone DEF ServiceInv
<1>4. about \in known \cup {NoFile} BY <1>2 DEF ClientKnows
<1>5. /\ ServiceTypeOK /\ openOn \in [HostFd -> Object] /\ known \subseteq Told
      /\ life \in Life
  BY DEF ServiceInv, ServiceTypeOK, TypeOK
<1>6. asked.op = "CloseFile" => about \in known /\ asked.fd = about.fd /\ about.fd \in HostFd
  <2>1. NoFile \notin Told BY HostAssumption DEF NoFile, Told, Count
  <2> QED BY <1>4, <1>5, <2>1 DEF ClientKnows, Told
<1>7. ClientKnows' BY <1>1, <1>2 DEF ClientKnows, Told, Idle, NoFile
<1>8. about.life <= life
  BY <1>4, <1>5, ServiceAssumption DEF ClientKnows, NoFile, Life
<1>9. staleClosed => staleClosed' OBVIOUS
<1>10. KnownOnce' BY <1>1, <1>9 DEF KnownOnce
<1>11. ~staleClosed => \A k \in known : k.life = life => OpenAsTold(k)
  BY DEF OpenFilesAgree
<1>12. \A f \in HostFd : openOn[f].on \in {"ro", "rw"} =>
         \E k \in known : k.fd = f /\ k.life = life /\ k.file = openOn[f]
  BY <1>3 DEF OpenFilesAgree
<1>13. \A k \in known : k.file # Closed BY DEF ClientKnows, Closed
<1>14. CASE openOn' = openOn /\ ~Opened' /\ asked.op # "CloseFile"
  <2>1. AnswerIsFresh' BY <1>1, <1>8, <1>14 DEF AnswerIsFresh
  <2> QED BY <1>1, <1>7, <1>9, <1>10, <1>11, <1>12, <1>14, <2>1
    DEF OpenFilesAgree, OpenAsTold
<1>15. CASE /\ Opened' /\ result_len' \in FreeFds /\ BaseOf[asked.name] \in Node
            /\ openOn' = [openOn EXCEPT ![result_len'] = OpenedFile]
  <2>1. result_len' \in HostFd /\ openOn[result_len'] = Closed /\ asked.op # "CloseFile"
    BY <1>1, <1>15 DEF FreeFds, Opened
  <2>2. OpenedFile' = OpenedFile BY <1>1 DEF OpenedFile
  <2>3. AnswerIsFresh' BY <1>1, <1>5, <1>8, <1>15, <2>1, <2>2 DEF AnswerIsFresh
  <2>4. ASSUME ~staleClosed', NEW k \in known, k.life = life PROVE OpenAsTold(k)'
    <3>1. OpenAsTold(k) /\ k.file # Closed BY <1>9, <1>11, <1>13, <2>4
    <3> QED BY <1>1, <1>5, <1>15, <2>1, <3>1 DEF OpenAsTold
  <2>5. ASSUME NEW f \in HostFd, openOn'[f].on \in {"ro", "rw"}
        PROVE  \/ f = result_len'
               \/ \E k \in known : k.fd = f /\ k.life = life /\ k.file = openOn'[f]
    BY <1>5, <1>12, <1>15, <2>5
  <2>6. OpenFilesAgree' BY <1>1, <1>2, <1>15, <2>4, <2>5 DEF OpenFilesAgree
  <2> QED BY <1>7, <1>10, <2>3, <2>6
<1>16. CASE /\ asked.op = "CloseFile" /\ asked.fd \in HostFd
            /\ openOn' = [openOn EXCEPT ![asked.fd] = Closed]
            /\ openOn[asked.fd] # Closed => result_code' = OK
  <2>1. ~Opened' BY <1>1, <1>16 DEF Opened
  <2>2. AnswerIsFresh' BY <1>1, <1>5, <1>6, <1>8, <1>16, <2>1 DEF AnswerIsFresh
  <2>3. ASSUME ~staleClosed', NEW k \in known, k.life = life PROVE OpenAsTold(k)'
    <3>1. OpenAsTold(k) /\ k.file # Closed BY <1>9, <1>11, <1>13, <2>3
    <3>2. CASE k = about BY <1>1, <1>16, <3>2 DEF OpenAsTold
    <3>3. CASE k # about /\ k.fd # asked.fd
      BY <1>1, <1>5, <1>16, <3>1, <3>3 DEF OpenAsTold
    <3>4. CASE k # about /\ k.fd = asked.fd
      <4>1. result_code' = OK BY <1>16, <3>1, <3>4 DEF OpenAsTold
      <4>2. about.life = life BY <1>16, <2>3, <4>1
      <4> QED BY <1>6, <1>9, <1>16, <2>3, <3>4, <4>2 DEF KnownOnce
    <3> QED BY <3>2, <3>3, <3>4
  <2>4. ASSUME NEW f \in HostFd, openOn'[f].on \in {"ro", "rw"}
        PROVE  \E k \in known : k.fd = f /\ k.life = life /\ k.file = openOn'[f]
    BY <1>5, <1>12, <1>16, <2>4 DEF Closed
  <2>5. OpenFilesAgree' BY <1>1, <2>3, <2>4 DEF OpenFilesAgree
  <2> QED BY <1>7, <1>10, <2>2, <2>5
<1>17. CASE /\ asked.op = "Opendir"
            /\ \E f \in FreeFds, n \in Node :
                 openOn' = [openOn EXCEPT ![f] = [on |-> "stream", node |-> n]]
  <2>1. ~Opened' BY <1>1, <1>17 DEF Opened
  <2>2. AnswerIsFresh' BY <1>1, <1>8, <1>17, <2>1 DEF AnswerIsFresh
  <2>3. PICK g \in FreeFds, n \in Node :
          openOn' = [openOn EXCEPT ![g] = [on |-> "stream", node |-> n]]
    BY <1>17
  <2>4. g \in HostFd /\ openOn[g] = Closed BY DEF FreeFds
  <2>5. ASSUME ~staleClosed', NEW k \in known, k.life = life PROVE OpenAsTold(k)'
    <3>1. OpenAsTold(k) /\ k.file # Closed BY <1>9, <1>11, <1>13, <2>5
    <3> QED BY <1>1, <1>5, <1>17, <2>3, <2>4, <3>1 DEF OpenAsTold
  <2>6. ASSUME NEW f \in HostFd, openOn'[f].on \in {"ro", "rw"}
        PROVE  \E k \in known : k.fd = f /\ k.life = life /\ k.file = openOn'[f]
    BY <1>5, <1>12, <2>3, <2>6
  <2>7. OpenFilesAgree' BY <1>1, <2>5, <2>6 DEF OpenFilesAgree
  <2> QED BY <1>7, <1>10, <2>2, <2>7
<1> QED BY <1>1, <1>5, <1>14, <1>15, <1>16, <1>17, CarryOpens

\* Issuing a request does: a file is given up when its Close was answered.
LEMMA IssueFiles ==
  ASSUME FilesInv, NEW r \in Rpc!Request, Issue(r)
  PROVE  ClientKnows' /\ AnswerIsFresh' /\ KnownOnce' /\ OpenFilesAgree'
<1> USE DEF FilesInv, Issue
<1>1. UNCHANGED <<openOn, known, life, staleClosed, result_code, result_len>>
  BY DEF vars, process, result
<1>2. Idle BY IssueAlone DEF Rpc!Call
<1>3. stage' = [stage EXCEPT ![r] = "pending"] BY DEF Rpc!Call
<1>4. stage'[r] = "pending" /\ ~Idle'
  BY <1>3 DEF Idle, ServiceInv, ServiceTypeOK
<1>5. \A q \in Rpc!Request : stage'[q] # "executed"
  BY <1>2, <1>3 DEF Idle, ServiceInv, ServiceTypeOK
<1>6. about' \in known \cup {NoFile}
      /\ (asked'.op = "CloseFile" => about' \in known /\ asked'.fd = about'.fd)
  <2>1. CASE asked' \in Asks({}, knownDir) /\ about' = NoFile BY <2>1 DEF Asks
  <2>2. ASSUME NEW k \in known, asked' \in Asks({k.fd}, {}), about' = k
        PROVE  about' \in known /\ (asked'.op = "CloseFile" => asked'.fd = about'.fd)
    BY <2>2, RequestNames
  <2> QED BY <2>1, <2>2
<1>7. ClientKnows'
  BY <1>1, <1>4, <1>6 DEF ClientKnows, ServiceInv, ServiceTypeOK
<1>8. AnswerIsFresh' BY <1>5 DEF AnswerIsFresh
<1>9. KnownOnce' BY <1>1 DEF KnownOnce
<1>10. OpenFilesAgree'
  <2>1. ASSUME ~staleClosed, NEW k \in known, k.life = life PROVE OpenAsTold(k)'
    <3>1. OpenAsTold(k) /\ (asked.op = "CloseFile" => k # about)
      BY <1>2, <2>1 DEF OpenFilesAgree, ClientKnows
    <3> QED BY <1>1, <3>1 DEF OpenAsTold
  <2>2. \A f \in HostFd : openOn[f].on \in {"ro", "rw"} =>
          \E k \in known : k.fd = f /\ k.life = life /\ k.file = openOn[f]
    BY <1>2 DEF OpenFilesAgree, Idle
  <2> QED BY <1>1, <2>1, <2>2 DEF OpenFilesAgree
<1> QED BY <1>7, <1>8, <1>9, <1>10

\* Taking the answer does: it names the file that was opened under its number.
LEMMA DeliverFiles ==
  ASSUME FilesInv, NEW r \in Rpc!Request, Deliver(r)
  PROVE  ClientKnows' /\ AnswerIsFresh' /\ KnownOnce' /\ OpenFilesAgree'
<1> USE DEF FilesInv, Deliver
<1>1. /\ UNCHANGED <<openOn, life, staleClosed, result_code, result_len, asked, about,
                     ranIn>>
      /\ stage[r] = "executed" /\ stage' = [stage EXCEPT ![r] = "answered"]
  BY DEF vars, process, result, history, Rpc!Answer
<1>2. \A q \in Rpc!Request : stage'[q] \notin {"pending", "executed"}
  <2> SUFFICES ASSUME NEW q \in Rpc!Request
               PROVE  stage'[q] \notin {"pending", "executed"}
    OBVIOUS
  <2>1. CASE q = r BY <1>1, <2>1 DEF ServiceInv, ServiceTypeOK
  <2>2. CASE q # r BY <1>1, <2>2, Alone DEF ServiceInv, ServiceTypeOK
  <2> QED BY <2>1, <2>2
<1>3. Idle' BY <1>2 DEF Idle
<1> DEFINE new == [fd |-> result_len, file |-> OpenedFile, life |-> ranIn]
<1>4. known' = (IF asked.op = "CloseFile" THEN known \ {about} ELSE known)
                 \cup (IF Opened THEN {new} ELSE {})
  <2>1. Opened => BaseOf[asked.name] \in Node BY <1>1 DEF AnswerIsFresh
  <2>2. {k \in [fd : {result_len}, life : {ranIn},
                file : [on : {"ro", "rw"}, node : Node]] :
           /\ Opened
           /\ k.file.on = (IF asked.op = "Create" THEN "rw" ELSE "ro")
           /\ k.file.node = BaseOf[asked.name]} = IF Opened THEN {new} ELSE {}
    BY <2>1 DEF OpenedFile
  <2> QED BY <2>2
<1>5. ranIn <= life /\ new.file.on \in {"ro", "rw"}
  BY ServiceAssumption DEF ServiceInv, ServiceTypeOK, Life, OpenedFile
<1>6. Opened => asked.op # "CloseFile" BY DEF Opened
<1>7. Opened /\ ranIn = life => openOn[result_len] = OpenedFile
  BY <1>1 DEF AnswerIsFresh
<1>8. asked.op = "CloseFile" /\ about.life = life => openOn[about.fd] = Closed
  BY <1>1, <1>5, ServiceAssumption
  DEF AnswerIsFresh, ClientKnows, Told, ServiceInv, ServiceTypeOK, Life
<1>9. ClientKnows' BY <1>1, <1>3, <1>4, <1>5, <1>6 DEF ClientKnows
<1>10. AnswerIsFresh' BY <1>2 DEF AnswerIsFresh
<1>11. \A k \in known' : \/ k = new /\ Opened
                         \/ k \in known /\ (asked.op = "CloseFile" => k # about)
  BY <1>4, <1>6
<1>12. ASSUME ~staleClosed, NEW k \in known', k.life = life
       PROVE  openOn[k.fd] = k.file /\ k.fd \in HostFd
  <2>1. CASE k \in known /\ (asked.op = "CloseFile" => k # about)
    BY <1>12, <2>1 DEF OpenFilesAgree, OpenAsTold
  <2>2. CASE k = new /\ Opened
    BY <1>1, <1>7, <1>12, <2>2 DEF ServiceInv, AnswerStands
  <2> QED BY <1>11, <2>1, <2>2
<1>13. KnownOnce'
  <2> SUFFICES ASSUME ~staleClosed, NEW j \in known', NEW k \in known',
                      j.life = life, k.life = life, j.fd = k.fd
               PROVE  j = k
    BY <1>1 DEF KnownOnce
  <2>1. j.file = k.file BY <1>12
  <2>2. j \in Told /\ k \in Told BY DeliverInv DEF ServiceInv, ServiceTypeOK
  <2> QED BY <2>1, <2>2 DEF Told
<1>14. ASSUME NEW f \in HostFd, openOn[f].on \in {"ro", "rw"}
       PROVE  \E k \in known' : k.fd = f /\ k.life = life /\ k.file = openOn[f]
  <2>1. CASE Opened /\ result_len = f /\ ranIn = life
    <3>1. new \in known' BY <1>4, <2>1
    <3>2. new.fd = f /\ new.life = life /\ new.file = openOn[f] BY <1>7, <2>1
    <3> HIDE DEF new
    <3> QED BY <3>1, <3>2
  <2>2. ASSUME NEW k \in known, k.fd = f, k.life = life, k.file = openOn[f]
        PROVE  k \in known'
    BY <1>4, <1>8, <1>14, <2>2 DEF Closed
  <2>3. \/ Opened /\ result_len = f /\ ranIn = life
        \/ \E k \in known : k.fd = f /\ k.life = life /\ k.file = openOn[f]
    BY <1>14 DEF OpenFilesAgree
  <2>4. CASE \E k \in known : k.fd = f /\ k.life = life /\ k.file = openOn[f]
    <3>1. PICK k \in known : k.fd = f /\ k.life = life /\ k.file = openOn[f]
      BY <2>4
    <3> QED BY <2>2, <3>1
  <2> QED BY <2>1, <2>3, <2>4
<1>15. OpenFilesAgree' BY <1>1, <1>12, <1>14 DEF OpenFilesAgree, OpenAsTold
<1> QED BY <1>9, <1>10, <1>13, <1>15

\* A restart does: none of the files the client knows is of the new life.
LEMMA RebornFiles ==
  ASSUME FilesInv, CrashAndRestart \/ ExitAndRestart
  PROVE  ClientKnows' /\ AnswerIsFresh' /\ KnownOnce' /\ OpenFilesAgree'
<1> USE ServiceAssumption DEF FilesInv
<1>1. /\ life' = life + 1 /\ openOn' = FreshFds
      /\ UNCHANGED <<result_code, result_len, asked, about, known, ranIn, staleClosed>>
  BY DEF CrashAndRestart, ExitAndRestart, Reborn, result, talk
<1>2. \/ stage' = stage
      \/ \E r \in Rpc!Request : stage[r] = "executed"
                                /\ stage' = [stage EXCEPT ![r] = "pending"]
  BY DEF CrashAndRestart, ExitAndRestart, Rpc!Crash, Rpc!Lose, delivery
<1>3. life \in Life /\ ranIn \in 0..life /\ known \subseteq Told
      /\ stage \in [Rpc!Request -> Rpc!Stage]
  BY DEF ServiceInv, ServiceTypeOK
<1>4. Idle' <=> Idle BY <1>2, <1>3 DEF Idle
<1>5. \A q \in Rpc!Request : stage'[q] = "executed" => stage[q] = "executed"
  BY <1>2, <1>3
<1>6. \A k \in known : k.life <= life /\ k.life < life' /\ k.life # life'
  BY <1>1, <1>3 DEF ClientKnows, Told, Life
<1>7. ranIn # life' BY <1>1, <1>3 DEF Life
<1>8. ClientKnows'
  <2>1. \A k \in known : k.life <= life' BY <1>1, <1>3, <1>6 DEF Told, Life
  <2> QED BY <1>1, <1>4, <2>1 DEF ClientKnows
<1>9. AnswerIsFresh' BY <1>1, <1>5, <1>7 DEF AnswerIsFresh, Opened
<1>10. KnownOnce' BY <1>1, <1>6 DEF KnownOnce
<1>11. \A f \in HostFd : openOn'[f].on \notin {"ro", "rw"}
  BY <1>1 DEF FreshFds, Std, Closed
<1>12. OpenFilesAgree' BY <1>1, <1>6, <1>11 DEF OpenFilesAgree
<1> QED BY <1>8, <1>9, <1>10, <1>12

\* Whatever handlers fail and whenever the host dies, a file the client was told
\* of by this life of the host is open under its number until it is closed, and
\* the host has no file open that the client does not know of.
THEOREM ClientAndHostAgree == ServiceSpec => []OpenFilesAgree
<1>1. ServiceInit => FilesInv
  <2> SUFFICES ASSUME ServiceInit PROVE FilesInv
    OBVIOUS
  <2>1. ClientKnows /\ AnswerIsFresh /\ KnownOnce
    BY DEF ServiceInit, Rpc!Init, ClientKnows, AnswerIsFresh, KnownOnce, Idle
  <2>2. OpenFilesAgree
    BY DEF ServiceInit, Init, OpenFilesAgree, Std, Closed
  <2> QED BY <2>1, <2>2, ServiceInitInv DEF FilesInv
<1>2. FilesInv /\ [ServiceNext]_<<vars, delivery, talk, history>> => FilesInv'
  <2> SUFFICES ASSUME FilesInv, [ServiceNext]_<<vars, delivery, talk, history>>
               PROVE  FilesInv'
    OBVIOUS
  <2>1. ServiceInv' BY ServiceNextInv DEF FilesInv
  <2>2. CASE UNCHANGED <<vars, delivery, talk, history>>
    BY <2>1, <2>2 DEF vars, process, result, delivery, talk, history, FilesInv,
       ClientKnows, Idle, AnswerIsFresh, Opened, OpenedFile, KnownOnce,
       OpenFilesAgree, OpenAsTold
  <2> QED
    BY <2>1, <2>2, IssueFiles, CarryFiles, DeliverFiles, RebornFiles
    DEF FilesInv, ServiceNext
<1>3. FilesInv => OpenFilesAgree BY DEF FilesInv
<1> QED BY <1>1, <1>2, <1>3, PTL DEF ServiceSpec
================================================================================
