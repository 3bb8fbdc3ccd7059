--------------------------- MODULE DhfMailboxProofs ---------------------------
(***************************************************************************)
(* What the mailbox of DhfMailbox guarantees for any number of requests,   *)
(* any width of seq, any wait limit and any number of interruptions, when  *)
(* the host's stores become visible in program order, whether or not the   *)
(* two sides agree on the order of bytes.  One inductive invariant,        *)
(* MailboxInv, carries all of it: who may rely on which field when.        *)
(***************************************************************************)
EXTENDS DhfMailbox, TLAPS

\* A counter modulo SeqMod stays within its width.
LEMMA CounterRange ==
  ASSUME NEW n \in Nat
  PROVE  (n + 1) % SeqMod \in 0..SeqMod-1
BY MailboxAssumption

\* The mailbox starts out in order.
LEMMA InitInv == Init => MailboxInv
<1> SUFFICES ASSUME Init PROVE MailboxInv
  OBVIOUS
<1> USE MailboxAssumption DEF Init, Request, NoAnswer, Idle, Response
<1>1. TypeOK
  BY DEF TypeOK, HostPC, Store
<1>2. kills <= stops /\ RequestsPast
  BY DEF RequestsPast
<1>3. ManagerView /\ HostView /\ CounterView
  BY DEF ManagerView, HostView, CounterView
<1> QED BY <1>1, <1>2, <1>3 DEF MailboxInv

\* A request code is neither the idle value nor the response.
LEMMA CommandsAreRequests ==
  ASSUME NEW c \in Commands
  PROVE  c # Idle /\ c # Response /\ c \in 1..127
BY MailboxAssumption DEF Idle, Response

\* What the host takes for a request is one, and what the manager takes for a
\* response is one: the wrong order of bytes hides codes, it forges none.
LEMMA BytesForgeNothing ==
  ASSUME NEW c \in Commands \cup {Idle, Response}
  PROVE  /\ IsRequest(c) => c \in Commands
         /\ AsRead(c) = Response => c = Response
<1> USE MailboxAssumption DEF Idle, Response, IsRequest, AsRead
<1>1. c \in 0..128 OBVIOUS
<1>2. CASE SameOrder BY <1>1, <1>2
<1>3. CASE ~SameOrder BY <1>1, <1>3
<1> QED BY <1>2, <1>3

\* Every step of either party, and every interruption, keeps the invariant.
LEMMA NextInv ==
  ASSUME InOrder, MailboxInv, [Next]_vars
  PROVE  MailboxInv'
<1> USE MailboxAssumption, CommandsAreRequests
    DEF MailboxInv, Request, NoAnswer, Idle, Response, shared, host, manager, faults
<1>1. CASE Start
  <2> USE <1>1 DEF Start
  <2>1. TypeOK' BY DEF TypeOK, HostPC
  <2>2. RequestsPast' /\ (kills <= stops)' BY DEF RequestsPast
  <2>3. ManagerView' BY DEF ManagerView, HostView
  <2>4. HostView' BY DEF HostView
  <2>5. CounterView' BY DEF CounterView
  <2> QED BY <2>1, <2>2, <2>3, <2>4, <2>5
<1>2. CASE PollSeq
  <2> USE <1>2 DEF PollSeq
  <2>1. TypeOK' BY DEF TypeOK, HostPC
  <2>2. RequestsPast' /\ (kills <= stops)' BY DEF RequestsPast
  <2>3. ManagerView' BY DEF ManagerView
  <2>4. HostView' BY DEF HostView
  <2>5. CounterView' BY DEF CounterView
  <2> QED BY <2>1, <2>2, <2>3, <2>4, <2>5
<1>3. CASE Exit
  <2> USE <1>3 DEF Exit
  <2>1. TypeOK' BY DEF TypeOK, HostPC
  <2>2. RequestsPast' /\ (kills <= stops)' BY DEF RequestsPast
  <2>3. ManagerView' BY DEF ManagerView
  <2>4. HostView' BY DEF HostView
  <2>5. CounterView' BY DEF CounterView
  <2> QED BY <2>1, <2>2, <2>3, <2>4, <2>5
<1>4. CASE PollCommand
  <2> USE <1>4 DEF PollCommand
  <2>1. TypeOK' BY DEF TypeOK, HostPC
  <2>2. RequestsPast' /\ (kills <= stops)' BY DEF RequestsPast
  <2>3. ManagerView' BY DEF ManagerView
  <2>4. HostView'
    <3>1. stores = {} BY DEF HostView
    <3>2. hpc' = "handle" => command \in Commands
      BY BytesForgeNothing DEF TypeOK
    <3>3. command \in Commands => cpc = "waiting" BY DEF ManagerView
    <3> QED BY <3>1, <3>2, <3>3 DEF HostView
  <2>5. CounterView' BY DEF CounterView
  <2> QED BY <2>1, <2>2, <2>3, <2>4, <2>5
<1>5. CASE Handle
  <2> USE <1>5 DEF Handle, Store
  <2>1. TypeOK'
    <3>1. executed' \in [Request -> Nat]
      <4>1. param \in Request BY DEF TypeOK, HostView, ManagerView
      <4>2. executed[param] + 1 \in Nat BY <4>1 DEF TypeOK
      <4> QED BY <4>1, <4>2 DEF TypeOK
    <3>2. hres' \in 0..MaxRequests /\ waitcnt' \in 0..WaitLimit BY DEF TypeOK
    <3>3. hpc' \in HostPC /\ stores' \subseteq Store BY DEF HostPC
    <3> QED BY <3>1, <3>2, <3>3, Zenon DEF TypeOK
  <2>2. RequestsPast' /\ (kills <= stops)' BY DEF TypeOK, RequestsPast, ManagerView, HostView
  <2>3. ManagerView' BY DEF ManagerView, HostView
  <2>4. HostView' BY DEF TypeOK, ManagerView, HostView
  <2>5. CounterView' BY DEF HostView, CounterView
  <2> QED BY <2>1, <2>2, <2>3, <2>4, <2>5
<1>6. CASE LandResult
  <2> USE <1>6 DEF LandResult, Land, MayLand, ProgramOrder, Store
  <2>1. TypeOK' BY DEF TypeOK
  <2>2. RequestsPast' /\ (kills <= stops)' BY DEF RequestsPast
  <2>3. ManagerView' BY DEF ManagerView, HostView
  <2>4. HostView' BY DEF HostView
  <2>5. CounterView' BY DEF CounterView
  <2> QED BY <2>1, <2>2, <2>3, <2>4, <2>5
<1>7. CASE LandCommand
  <2> USE <1>7 DEF LandCommand, Land, MayLand, ProgramOrder, Store
  <2>1. TypeOK' BY DEF TypeOK
  <2>2. RequestsPast' /\ (kills <= stops)' BY DEF RequestsPast
  <2>3. ManagerView' BY DEF ManagerView, HostView
  <2>4. HostView' BY DEF HostView
  <2>5. CounterView' BY DEF CounterView
  <2> QED BY <2>1, <2>2, <2>3, <2>4, <2>5
<1>8. CASE LandSeq
  <2> USE <1>8 DEF LandSeq, Land, MayLand, ProgramOrder, Store
  <2>1. TypeOK' BY CounterRange DEF TypeOK
  <2>2. RequestsPast' /\ (kills <= stops)' BY DEF RequestsPast
  <2>3. ManagerView' BY DEF ManagerView
  <2>0. stores = {"seq"} /\ stores' = {}
    <3>1. "seq" \in stores /\ stores' = stores \ {"seq"} OBVIOUS
    <3>2. "command" \notin stores BY DEF Store
    <3>3. "result_code" \notin stores BY <3>2 DEF HostView
    <3>4. stores \subseteq Store BY DEF TypeOK
    <3>5. stores \subseteq {"seq"} BY <3>2, <3>3, <3>4 DEF Store
    <3> QED BY <3>1, <3>5
  <2>4. HostView' BY <2>0 DEF HostView
  <2>5. CounterView' BY <2>0 DEF TypeOK, ManagerView, CounterView
  <2> QED BY <2>1, <2>2, <2>3, <2>4, <2>5
<1>9. CASE Wait
  <2> USE <1>9 DEF Wait
  <2>1. TypeOK'
    <3>1. waitcnt' \in 0..WaitLimit BY DEF TypeOK
    <3>2. hpc' \in HostPC BY DEF HostPC
    <3> QED BY <3>1, <3>2, Zenon DEF TypeOK
  <2>2. RequestsPast' /\ (kills <= stops)' BY DEF RequestsPast
  <2>3. ManagerView' BY DEF ManagerView
  <2>4. HostView' BY DEF HostView
  <2>5. CounterView' BY DEF CounterView
  <2> QED BY <2>1, <2>2, <2>3, <2>4, <2>5
<1>10. CASE Interrupt
  <2> USE <1>10 DEF Interrupt
  <2>1. TypeOK'
    <3>1. stops' \in 0..MaxStops BY DEF TypeOK
    <3>2. keep_running' \in BOOLEAN BY Zenon
    <3> QED BY <3>1, <3>2, Zenon DEF TypeOK
  <2>2. RequestsPast' /\ (kills <= stops)' BY DEF TypeOK, RequestsPast
  <2>3. ManagerView' BY DEF ManagerView
  <2>4. HostView' BY DEF HostView
  <2>5. CounterView' BY DEF CounterView
  <2> QED BY <2>1, <2>2, <2>3, <2>4, <2>5
<1>11. CASE Kill
  <2> USE <1>11 DEF Kill
  <2>1. TypeOK' BY DEF TypeOK, HostPC
  <2>2. RequestsPast' /\ (kills <= stops)' BY DEF TypeOK, RequestsPast
  <2>3. ManagerView' BY DEF TypeOK, RequestsPast, ManagerView
  <2>4. HostView' BY DEF HostView
  <2>5. CounterView' BY DEF CounterView
  <2> QED BY <2>1, <2>2, <2>3, <2>4, <2>5
<1>12. CASE Prepare
  <2> USE <1>12 DEF Prepare
  <2>1. TypeOK' BY DEF TypeOK
  <2>2. RequestsPast' /\ (kills <= stops)' BY DEF TypeOK, RequestsPast, ManagerView
  <2>3. ManagerView' BY DEF TypeOK, RequestsPast, ManagerView
  <2>4. HostView' BY DEF HostView
  <2>5. CounterView' BY DEF CounterView
  <2> QED BY <2>1, <2>2, <2>3, <2>4, <2>5
<1>13. CASE Submit
  <2> USE <1>13 DEF Submit
  <2>1. TypeOK' BY DEF TypeOK
  <2>2. RequestsPast' /\ (kills <= stops)' BY DEF RequestsPast
  <2>3. ManagerView' BY DEF TypeOK, ManagerView
  <2>4. HostView' BY DEF HostView
  <2>5. CounterView' BY DEF CounterView
  <2> QED BY <2>1, <2>2, <2>3, <2>4, <2>5
<1>14. CASE Accept
  <2> USE <1>14, BytesForgeNothing DEF Accept, ResponseSeen
  <2>1. TypeOK'
    <3>1. answer' \in [Request -> 0..MaxRequests] BY DEF TypeOK
    <3>2. cpc' \in {"idle", "prepared", "waiting"} OBVIOUS
    <3> QED BY <3>1, <3>2, Zenon DEF TypeOK
  <2>2. RequestsPast' /\ (kills <= stops)' BY DEF RequestsPast
  <2>3. ManagerView' BY DEF TypeOK, ManagerView, CounterView
  <2>4. HostView' BY DEF TypeOK, HostView, CounterView
  <2>5. CounterView' BY DEF CounterView
  <2> QED BY <2>1, <2>2, <2>3, <2>4, <2>5
<1>15. CASE Clear
  <2> USE <1>15 DEF Clear
  <2>1. TypeOK' BY DEF TypeOK
  <2>2. RequestsPast' /\ (kills <= stops)' BY DEF RequestsPast
  <2>3. ManagerView' BY DEF ManagerView
  <2>4. HostView' BY DEF HostView
  <2>5. CounterView' BY DEF CounterView
  <2> QED BY <2>1, <2>2, <2>3, <2>4, <2>5
<1>16. CASE UNCHANGED vars
  BY <1>16 DEF vars, TypeOK, RequestsPast, ManagerView, HostView, CounterView
<1> QED BY <1>1, <1>2, <1>3, <1>4, <1>5, <1>6, <1>7, <1>8, <1>9, <1>10, <1>11, <1>12, <1>13, <1>14, <1>15, <1>16 DEF Next, HostStep

-------------------------------------------------------------------------------
\* The inductive invariant holds throughout: between the two processes there is
\* always exactly one that may touch each field (host_simulator/main.c's loop).
THEOREM MailboxInvariant ==
  ASSUME InOrder PROVE Spec => []MailboxInv
<1>1. MailboxInv /\ [Next]_vars => MailboxInv'
  BY NextInv
<1> QED BY InitInv, <1>1, PTL DEF Spec

\* Every field of the mailbox keeps to its range, the counter to its width.
THEOREM MailboxTypes ==
  ASSUME InOrder PROVE Spec => []TypeOK
<1>1. MailboxInv => TypeOK BY DEF MailboxInv
<1> QED BY <1>1, MailboxInvariant, PTL

\* The answer the manager accepts was produced for the request it issued,
\* whatever the polling, the bounded wait, the restarts and the kills.
THEOREM AnswersBelongToRequests ==
  ASSUME InOrder PROVE Spec => []AnswersMatch
<1>1. MailboxInv => AnswersMatch
  BY MailboxAssumption DEF MailboxInv, TypeOK, RequestsPast, ManagerView,
     AnswersMatch, Request, NoAnswer
<1> QED BY <1>1, MailboxInvariant, PTL

\* No request is answered without being executed, and none is executed more
\* often than once plus once per kill of the host process.
THEOREM RepetitionNeedsKill ==
  ASSUME InOrder PROVE Spec => []ExactlyOnceButForKills
<1>1. MailboxInv => ExactlyOnceButForKills
  BY MailboxAssumption DEF MailboxInv, TypeOK, RequestsPast, ManagerView,
     ExactlyOnceButForKills, Request, NoAnswer
<1> QED BY <1>1, MailboxInvariant, PTL
-------------------------------------------------------------------------------
\* The requests issued before the latest one are all answered.
LEMMA EarlierAnswered ==
  ASSUME MailboxInv, NEW q \in Request, q < issued
  PROVE  stage[q] = "answered"
BY MailboxAssumption DEF MailboxInv, TypeOK, RequestsPast, stage, Request, NoAnswer

\* How a step that only moves the latest request changes the abstract stages.
LEMMA StageUpdate ==
  ASSUME NEW v, issued \in Request, stage'[issued] = v,
         \A r \in Request : r # issued => stage'[r] = stage[r]
  PROVE  stage' = [stage EXCEPT ![issued] = v]
<1>1. stage = [r \in Request |-> stage[r]] BY DEF stage
<1>2. stage' = [r \in Request |-> stage'[r]] BY DEF stage
<1> QED BY <1>1, <1>2

\* Each step of the mailbox is a step of the abstract exchange or none at all.
LEMMA StepsImplementRpc ==
  ASSUME InOrder, MailboxInv, MailboxInv', [Next]_vars
  PROVE  [Rpc!Next]_(Rpc!vars)
<1> USE MailboxAssumption DEF Rpc!vars, Request
<1>1. CASE Submit
  <2> USE <1>1 DEF Submit, host, faults
  <2>1. issued \in Request /\ stage[issued] = "unsent" /\ answer[issued] = NoAnswer
    BY DEF MailboxInv, TypeOK, ManagerView, stage
  <2>2. \A q \in Request : q < issued => stage[q] = "answered"
    BY EarlierAnswered
  <2>3. stage' = [stage EXCEPT ![issued] = "pending"]
    <3>1. stage'[issued] = "pending"
      <4>1. command' # Response BY CommandsAreRequests
      <4>2. "command" \notin stores' BY DEF MailboxInv, HostView
      <4> QED BY <2>1, <4>1, <4>2 DEF stage
    <3>2. \A r \in Request : r # issued => stage'[r] = stage[r]
      BY DEF MailboxInv, TypeOK, RequestsPast, stage, NoAnswer
    <3> QED BY <2>1, <3>1, <3>2, StageUpdate
  <2>4. Rpc!Call(issued)
    BY <2>1, <2>2, <2>3 DEF Rpc!Call, Rpc!Request
  <2> QED BY <2>1, <2>4 DEF Rpc!Next, Rpc!Request
<1>2. CASE Handle
  <2> USE <1>2 DEF Handle, Store, shared, manager, faults
  <2>1. issued \in Request /\ command \in Commands /\ "command" \notin stores
    BY DEF MailboxInv, TypeOK, ManagerView, HostView
  <2>2. answer[issued] = NoAnswer /\ command # Response /\ cpc = "waiting"
    BY <2>1, CommandsAreRequests DEF MailboxInv, ManagerView, HostView
  <2>3. stage[issued] = "pending"
    BY <2>1, <2>2 DEF MailboxInv, TypeOK, stage
  <2>4. stage' = [stage EXCEPT ![issued] = "executed"]
    <3>1. stage'[issued] = "executed"
      BY <2>1, <2>2 DEF MailboxInv, TypeOK, stage
    <3>2. \A r \in Request : r # issued => stage'[r] = stage[r]
      BY <2>1, <2>2 DEF MailboxInv, TypeOK, RequestsPast, stage, NoAnswer
    <3> QED BY <2>1, <3>1, <3>2, StageUpdate
  <2>5. Rpc!Execute(issued) BY <2>3, <2>4 DEF Rpc!Execute
  <2> QED BY <2>1, <2>5 DEF Rpc!Next, Rpc!Request
<1>3. CASE Accept
  <2> USE <1>3 DEF Accept, shared, host, faults
  <2>1. issued \in Request BY DEF MailboxInv, TypeOK, ManagerView
  <2>2. command = Response
    BY BytesForgeNothing DEF ResponseSeen, MailboxInv, TypeOK, CounterView
  <2>3. result_code = issued /\ executed[issued] >= 1 /\ answer[issued] = NoAnswer
    BY <2>2 DEF MailboxInv, ManagerView
  <2>4. stage[issued] = "executed"
    BY <2>1, <2>2, <2>3 DEF stage
  <2>5. stage' = [stage EXCEPT ![issued] = "answered"]
    <3>1. stage'[issued] = "answered"
      <4>1. answer'[issued] = issued BY <2>1, <2>3 DEF MailboxInv, TypeOK
      <4>2. issued' = issued /\ cpc' = "idle" /\ issued # NoAnswer
        BY <2>1 DEF NoAnswer
      <4> QED BY <2>1, <4>1, <4>2 DEF MailboxInv, TypeOK, stage
    <3>2. \A r \in Request : r # issued => stage'[r] = stage[r]
      BY <2>1 DEF MailboxInv, TypeOK, RequestsPast, stage, NoAnswer
    <3> QED BY <2>1, <3>1, <3>2, StageUpdate
  <2>6. answer' = [answer EXCEPT ![issued] = issued] BY <2>3
  <2>7. Rpc!Answer(issued) BY <2>4, <2>5, <2>6 DEF Rpc!Answer
  <2> QED BY <2>1, <2>7 DEF Rpc!Next, Rpc!Request
<1>4. CASE Prepare
  <2> USE <1>4 DEF Prepare, host, faults
  <2>1. UNCHANGED <<answer, kills>> OBVIOUS
  <2>2. stage' = stage
    BY SMTT(20) DEF MailboxInv, TypeOK, RequestsPast, ManagerView, stage, NoAnswer
  <2> QED BY <2>1, <2>2
<1>5. CASE Kill
  <2> USE <1>5 DEF Kill, shared, manager
  <2>1. UNCHANGED answer /\ kills' = kills + 1 OBVIOUS
  <2>2. CASE "command" \notin stores
    <3>1. stage' = stage BY <2>2 DEF stage
    <3> QED BY <2>1, <3>1 DEF Rpc!Next, Rpc!Crash
  <2>3. CASE "command" \in stores
    <3>1. issued \in Request /\ command # Response /\ answer[issued] = NoAnswer
          /\ cpc = "waiting"
      BY <2>3, CommandsAreRequests DEF MailboxInv, TypeOK, ManagerView, HostView
    <3>2. stage[issued] = "executed" BY <2>3, <3>1 DEF stage
    <3>3. stage' = [stage EXCEPT ![issued] = "pending"]
      <4>1. stage'[issued] = "pending" BY <3>1 DEF stage
      <4>2. \A r \in Request : r # issued => stage'[r] = stage[r]
        BY <3>1 DEF MailboxInv, TypeOK, RequestsPast, stage, NoAnswer
      <4> QED BY <3>1, <4>1, <4>2, StageUpdate
    <3>4. Rpc!Lose(issued) BY <3>2, <3>3 DEF Rpc!Lose
    <3> QED BY <2>1, <3>1, <3>4 DEF Rpc!Next, Rpc!Crash, Rpc!Request
  <2> QED BY <2>2, <2>3
<1>6. CASE LandCommand
  <2> USE <1>6 DEF LandCommand, Land, manager, faults
  <2>1. UNCHANGED <<answer, kills>> OBVIOUS
  <2>2. stage' = stage BY DEF stage
  <2> QED BY <2>1, <2>2
<1>7. CASE Clear
  <2> USE <1>7 DEF Clear, host, manager, faults
  <2>1. UNCHANGED <<answer, kills>> OBVIOUS
  <2>2. \A r \in Request : r <= issued => answer[r] # NoAnswer
    BY DEF MailboxInv, TypeOK, RequestsPast, ManagerView, NoAnswer
  <2>3. stage' = stage BY <2>2 DEF MailboxInv, TypeOK, stage
  <2> QED BY <2>1, <2>3
<1>8. CASE UNCHANGED <<cpc, issued, answer, command, kills>>
           /\ ("command" \in stores' <=> "command" \in stores)
  <2>1. stage' = stage BY <1>8 DEF stage
  <2> QED BY <1>8, <2>1
<1>9. CASE Start
  <2>1. "command" \notin stores BY <1>9 DEF Start, MailboxInv, HostView
  <2> QED BY <1>8, <1>9, <2>1 DEF Start, shared, manager, faults
<1> QED
  BY <1>1, <1>2, <1>3, <1>4, <1>5, <1>6, <1>7, <1>8, <1>9
  DEF Next, HostStep, vars, host, shared, manager, faults, PollSeq, Exit,
      PollCommand, Land, LandResult, LandSeq, Wait, Interrupt

\* The mailbox, with its polling, restarts and repeated executions, is an
\* implementation of the exchange that DhfRpc promises the manager.
THEOREM MailboxImplementsRpc ==
  ASSUME InOrder PROVE Spec => ImplementsRpc
<1>1. Init => Rpc!Init
  BY MailboxAssumption
  DEF Init, Rpc!Init, stage, Request, Rpc!Request, NoAnswer, Rpc!NoAnswer
<1>2. MailboxInv /\ MailboxInv' /\ [Next]_vars => [Rpc!Next]_(Rpc!vars)
  BY StepsImplementRpc
<1> QED
  BY <1>1, <1>2, MailboxInvariant, PTL DEF Spec, ImplementsRpc, Rpc!Spec
===============================================================================
