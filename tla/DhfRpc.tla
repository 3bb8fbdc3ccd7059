-------------------------------- MODULE DhfRpc --------------------------------
(***************************************************************************)
(* What the DHF mailbox promises the manager, with the shared memory and   *)
(* the polling left out: requests go out one after the other, each is      *)
(* carried out before it is answered, each is answered once, the answer a  *)
(* request gets is its own, and a request is carried out again only when   *)
(* the host has died before its answer could be seen.                      *)
(***************************************************************************)
EXTENDS Naturals

CONSTANT MaxRequests   \* how many requests the manager issues

VARIABLES
  stage,    \* how far each request has come
  answer,   \* the answer each request received, or NoAnswer
  crashes   \* how often the host has died

vars == <<stage, answer, crashes>>

Request  == 1..MaxRequests
Stage    == {"unsent", "pending", "executed", "answered"}
NoAnswer == 0

\* Requests are numbered in the order they are issued, and the answer to a
\* request is identified with the request's own number.
Init ==
  /\ stage   = [r \in Request |-> "unsent"]
  /\ answer  = [r \in Request |-> NoAnswer]
  /\ crashes = 0

\* The manager is sequential: it waits for one answer before the next call.
Call(r) ==
  /\ stage[r] = "unsent"
  /\ \A q \in Request : q < r => stage[q] = "answered"
  /\ stage' = [stage EXCEPT ![r] = "pending"]
  /\ UNCHANGED <<answer, crashes>>

Execute(r) ==
  /\ stage[r] = "pending"
  /\ stage' = [stage EXCEPT ![r] = "executed"]
  /\ UNCHANGED <<answer, crashes>>

Answer(r) ==
  /\ stage[r] = "executed"
  /\ stage'  = [stage EXCEPT ![r] = "answered"]
  /\ answer' = [answer EXCEPT ![r] = r]
  /\ UNCHANGED crashes

\* A crash costs at most the answer that is under way: its request is pending
\* once more, though what it did to the world has been done.
Lose(r) == stage[r] = "executed" /\ stage' = [stage EXCEPT ![r] = "pending"]

Crash ==
  /\ crashes' = crashes + 1
  /\ UNCHANGED stage \/ \E r \in Request : Lose(r)
  /\ UNCHANGED answer

Next == Crash \/ \E r \in Request : Call(r) \/ Execute(r) \/ Answer(r)

Spec == Init /\ [][Next]_vars
===============================================================================
