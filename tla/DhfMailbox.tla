------------------------------ MODULE DhfMailbox ------------------------------
(***************************************************************************)
(* The command mailbox between the DHF manager (emulated 68k side) and the *)
(* host simulator: one dhf_shared_t in a memory-mapped file, written by    *)
(* two processes without a lock.  The host side is the polling loop of     *)
(* host_simulator/main.c; what a handler does to the host file system is   *)
(* the subject of module DhfHost, here it only counts as one execution of  *)
(* the request that param describes.  The manager side is not in the       *)
(* repository: it is modelled from how the host loop uses it.              *)
(*                                                                         *)
(* StartCleared, RequestNoLimit, CommandFirst and MayLandAny are slips the *)
(* code avoids; no action uses them.                                       *)
(***************************************************************************)
EXTENDS Integers

CONSTANTS
  MaxRequests,   \* bound: how many requests the manager issues
  SeqMod,        \* modulus of the uint32_t counter seq (2^32 in the code)
  WaitLimit,     \* polls of the response wait loop (1000 in the code)
  Commands,      \* the request codes in use
  Disciplines,   \* how a manager may recognise a response: by command, by seq
  InOrder,       \* do the host's plain stores become visible in program order?
  SameOrder,     \* do host and manager agree on the order of bytes in a field?
  MaxStops       \* bound: how often the host is interrupted or killed

ASSUME MailboxAssumption ==
  /\ MaxRequests \in Nat \ {0}
  /\ SeqMod \in Nat \ {0, 1}
  /\ WaitLimit \in Nat
  /\ Commands # {} /\ Commands \subseteq 1..127
  /\ Disciplines \subseteq {"command", "seq"}
  /\ InOrder \in BOOLEAN /\ SameOrder \in BOOLEAN
  /\ MaxStops \in Nat

VARIABLES
  \* dhf_shared_t
  command, seq, param, result_code,
  \* host process
  hpc,           \* where the loop of main stands; "down": no process
  hseq,          \* local copy of seq
  hres,          \* the result the handler computed
  stores,        \* stores of this iteration that are not visible yet
  waitcnt, keep_running,
  \* manager
  cpc, discipline,
  baseline,      \* seq as the manager saw it before it issued the request
  \* history
  issued,        \* number of the latest request
  executed,      \* how often each request has been carried out
  answer,        \* the answer accepted for each request
  stops, kills   \* interruptions so far, and how many of them were kills

shared  == <<command, seq, param, result_code>>
host    == <<hpc, hseq, hres, stores, waitcnt, keep_running>>
manager == <<cpc, discipline, baseline, issued, answer>>
faults  == <<stops, kills>>
vars    == <<shared, host, manager, executed, faults>>

Request  == 1..MaxRequests
Idle     == 0
Response == 128          \* 0x0080
NoAnswer == 0
HostPC   == {"down", "poll", "read", "handle", "wait"}
Store    == {"result_code", "command", "seq"}

TypeOK ==
  /\ command \in Commands \cup {Idle, Response}
  /\ seq \in 0..SeqMod-1
  /\ param \in 0..MaxRequests
  /\ result_code \in 0..MaxRequests
  /\ hpc \in HostPC
  /\ hseq \in 0..SeqMod-1
  /\ hres \in 0..MaxRequests
  /\ stores \subseteq Store
  /\ waitcnt \in 0..WaitLimit
  /\ keep_running \in BOOLEAN
  /\ cpc \in {"idle", "prepared", "waiting"}
  /\ discipline \in {"command", "seq"}
  /\ baseline \in 0..SeqMod-1
  /\ issued \in 0..MaxRequests
  /\ executed \in [Request -> Nat]
  /\ answer \in [Request -> 0..MaxRequests]
  /\ stops \in 0..MaxStops
  /\ kills \in 0..MaxStops

\* The file may hold any counter value when the host is started.
Init ==
  /\ command = Idle /\ seq \in 0..SeqMod-1 /\ param = 0 /\ result_code = 0
  /\ hpc = "down" /\ hseq = 0 /\ hres = 0 /\ stores = {}
  /\ waitcnt = 0 /\ keep_running = TRUE
  /\ cpc = "idle" /\ discipline \in Disciplines /\ baseline = seq
  /\ issued = 0
  /\ executed = [r \in Request |-> 0]
  /\ answer = [r \in Request |-> NoAnswer]
  /\ stops = 0 /\ kills = 0
-------------------------------------------------------------------------------
(***************************************************************************)
(* Host side.                                                              *)
(***************************************************************************)

StartCleared ==
  /\ hpc = "down"
  /\ hpc' = "poll" /\ hseq' = 0 /\ hres' = 0 /\ stores' = {}
  /\ waitcnt' = 0 /\ keep_running' = TRUE
  /\ command' = Idle
  /\ UNCHANGED <<seq, param, result_code, manager, executed, faults>>

\* main up to the loop: map the file and start polling.  last_seq and
\* last_cmd are read there and never used, so nothing is remembered.
Start ==
  /\ hpc = "down"
  /\ hpc' = "poll" /\ hseq' = 0 /\ hres' = 0 /\ stores' = {}
  /\ waitcnt' = 0 /\ keep_running' = TRUE
  /\ UNCHANGED <<shared, manager, executed, faults>>

\* The loop condition and the first of two separate reads.
PollSeq ==
  /\ hpc = "poll" /\ keep_running
  /\ hseq' = seq /\ hpc' = "read"
  /\ UNCHANGED <<shared, hres, stores, waitcnt, keep_running, manager, executed,
                 faults>>

Exit ==
  /\ hpc = "poll" /\ ~keep_running
  /\ hpc' = "down"
  /\ UNCHANGED <<shared, hseq, hres, stores, waitcnt, keep_running, manager,
                 executed, faults>>

\* The fields are read and written as they lie in memory.  One byte of a code
\* is 0, so a party with the other byte order sees it 256 times as large.
AsRead(c) == IF SameOrder THEN c ELSE 256 * c

RequestNoLimit(c) == c # Idle
IsRequest(c) == AsRead(c) # Idle /\ AsRead(c) < Response

PollCommand ==
  /\ hpc = "read"
  /\ hpc' = IF IsRequest(command) THEN "handle" ELSE "poll"
  /\ UNCHANGED <<shared, hseq, hres, stores, waitcnt, keep_running, manager,
                 executed, faults>>

\* The handler runs; its result and the two stores that announce it are now
\* on their way to the shared memory.
Handle ==
  /\ hpc = "handle"
  /\ executed' = [executed EXCEPT ![param] = @ + 1]
  /\ hres' = param
  /\ stores' = Store
  /\ waitcnt' = 0
  /\ hpc' = "wait"
  /\ UNCHANGED <<shared, hseq, keep_running, manager, faults>>

\* The fields are plain and the loop has no fence: only when the build and
\* the machine keep program order does a store wait for the earlier ones.
CommandFirst == [result_code |-> 2, command |-> 1, seq |-> 3]
ProgramOrder == [result_code |-> 1, command |-> 2, seq |-> 3]
MayLandAny(s) == TRUE
MayLand(s) ==
  InOrder => \A t \in stores : ProgramOrder[s] <= ProgramOrder[t]

Land(s) ==
  /\ hpc = "wait" /\ s \in stores /\ MayLand(s)
  /\ stores' = stores \ {s}
  /\ UNCHANGED <<hpc, hseq, hres, waitcnt, keep_running, param, manager, executed,
                 faults>>

LandResult ==
  /\ Land("result_code")
  /\ result_code' = hres
  /\ UNCHANGED <<command, seq>>

LandCommand ==
  /\ Land("command")
  /\ command' = Response
  /\ UNCHANGED <<seq, result_code>>

LandSeq ==
  /\ Land("seq")
  /\ seq' = (hseq + 1) % SeqMod
  /\ UNCHANGED <<command, result_code>>

\* while (sh->command == 0x0080 && keep_running && waitcnt++ < 1000): the
\* host gives the manager time to react, then polls again whatever it did.
Wait ==
  /\ hpc = "wait" /\ stores = {}
  /\ IF command = Response /\ keep_running /\ waitcnt < WaitLimit
     THEN waitcnt' = waitcnt + 1 /\ UNCHANGED hpc
     ELSE waitcnt' = 0 /\ hpc' = "poll"
  /\ UNCHANGED <<shared, hseq, hres, stores, keep_running, manager, executed,
                 faults>>

\* SIGINT: the loop finishes its iteration and leaves.
Interrupt ==
  /\ hpc # "down" /\ keep_running /\ stops < MaxStops
  /\ keep_running' = FALSE
  /\ stops' = stops + 1
  /\ UNCHANGED <<shared, hpc, hseq, hres, stores, waitcnt, manager, executed,
                 kills>>

\* SIGTERM has no handler: the process ends between two of its stores.
Kill ==
  /\ hpc # "down" /\ stops < MaxStops
  /\ hpc' = "down" /\ stores' = {}
  /\ stops' = stops + 1 /\ kills' = kills + 1
  /\ UNCHANGED <<shared, hseq, hres, waitcnt, keep_running, manager, executed>>

HostStep ==
  \/ PollSeq \/ Exit \/ PollCommand \/ Handle
  \/ LandResult \/ LandCommand \/ LandSeq \/ Wait
-------------------------------------------------------------------------------
(***************************************************************************)
(* Manager side, external: fill in the parameters, then the command; wait; *)
(* take the result; then clear the command or go straight to the next one. *)
(***************************************************************************)
Prepare ==
  /\ cpc = "idle" /\ issued < MaxRequests
  /\ issued' = issued + 1
  /\ param' = issued + 1
  /\ baseline' = seq
  /\ cpc' = "prepared"
  /\ UNCHANGED <<command, seq, result_code, host, discipline, executed, answer,
                 faults>>

Submit ==
  /\ cpc = "prepared"
  /\ command' \in Commands
  /\ cpc' = "waiting"
  /\ UNCHANGED <<seq, param, result_code, host, discipline, baseline, issued,
                 executed, answer, faults>>

\* "Set response command (0x0080 == OK)" or "bump seq to indicate update".
ResponseSeen ==
  IF discipline = "command" THEN AsRead(command) = Response ELSE seq # baseline

Accept ==
  /\ cpc = "waiting" /\ ResponseSeen
  /\ answer' = [answer EXCEPT ![issued] = result_code]
  /\ cpc' = "idle"
  /\ UNCHANGED <<shared, host, discipline, baseline, issued, executed, faults>>

Clear ==
  /\ cpc = "idle" /\ command = Response
  /\ command' = Idle
  /\ UNCHANGED <<seq, param, result_code, host, manager, executed, faults>>

Next ==
  \/ Start \/ HostStep \/ Interrupt \/ Kill
  \/ Prepare \/ Submit \/ Accept \/ Clear

Spec == Init /\ [][Next]_vars

\* The host process is scheduled while it lives and is started again after
\* it stopped; a manager that waits keeps looking.  Nobody is obliged to
\* issue a request, to clear a response or to stop the host.
Fairness == WF_vars(HostStep) /\ WF_vars(Start) /\ WF_vars(Submit) /\ WF_vars(Accept)

FairSpec == Spec /\ Fairness
-------------------------------------------------------------------------------
(***************************************************************************)
(* Properties.                                                             *)
(***************************************************************************)

\* The answer a request gets was produced for it: polling, the bounded wait
\* of the host, a slow manager that reuses the mailbox without clearing it and
\* a restarted host never make it take a result left there by another request.
AnswersMatch == \A r \in Request : answer[r] \in {NoAnswer, r}

\* An answered request was carried out, and once only unless the host was
\* killed while it was at it: the host has no memory of what it has done, so
\* every kill may cost one repetition, and nothing else does.
ExactlyOnceButForKills ==
  \A r \in Request :
    /\ answer[r] # NoAnswer => executed[r] >= 1
    /\ executed[r] <= 1 + kills

\* Whoever waits is answered.  A manager that goes by command is, whatever
\* happens to the host; one that goes by seq may be left waiting, but only
\* after the host was killed.
WaitingIsAnswered ==
  cpc = "waiting" ~> (cpc = "idle" \/ (discipline = "seq" /\ kills > 0))

\* Why the above holds when stores become visible in program order: the part
\* of the mailbox each party may rely on while the other one is at work.
RequestsPast ==
  \A r \in Request :
    /\ r > issued => executed[r] = 0 /\ answer[r] = NoAnswer
    /\ r < issued => executed[r] >= 1 /\ answer[r] = r
    /\ executed[r] <= 1 + kills

ManagerView ==
  /\ cpc # "waiting" => command \in {Idle, Response}
  /\ cpc = "idle" /\ issued > 0 => executed[issued] >= 1 /\ answer[issued] = issued
  /\ cpc # "idle" => issued > 0 /\ param = issued /\ answer[issued] = NoAnswer
  /\ cpc = "prepared" => executed[issued] = 0
  /\ cpc = "waiting" =>
       /\ command \in Commands /\ "command" \notin stores => executed[issued] <= kills
       /\ command = Response => executed[issued] >= 1 /\ result_code = issued
       /\ command # Idle

HostView ==
  /\ stores # {} => hpc = "wait" /\ "seq" \in stores
  /\ "result_code" \in stores => "command" \in stores
  /\ hpc = "handle" \/ "command" \in stores => cpc = "waiting" /\ command \in Commands
  /\ "command" \in stores =>
       /\ executed[issued] >= 1 /\ hres = issued
       /\ "result_code" \notin stores => result_code = issued

CounterView ==
  discipline = "seq" =>
    /\ cpc # "waiting" => stores = {}
    /\ cpc # "idle" /\ command # Response => seq = baseline
    /\ cpc = "prepared" \/ stores # {} => seq = baseline
    /\ stores # {} /\ "command" \notin stores => command = Response

\* The inductive invariant the theorems of DhfMailboxProofs rest on.
MailboxInv ==
  TypeOK /\ kills <= stops /\ RequestsPast /\ ManagerView /\ HostView /\ CounterView

\* The mailbox implements the promise of DhfRpc: through polling, restarts and
\* repeated execution, a request is carried out only between its submission and
\* its answer, again only after a kill, and the next one starts after that.
stage == [r \in Request |->
  IF r > issued \/ (r = issued /\ cpc = "prepared") THEN "unsent"
  ELSE IF answer[r] # NoAnswer THEN "answered"
  ELSE IF "command" \in stores \/ command = Response THEN "executed" ELSE "pending"]

Rpc == INSTANCE DhfRpc WITH stage <- stage, answer <- answer, crashes <- kills

ImplementsRpc == Rpc!Spec
===============================================================================
