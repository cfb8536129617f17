---------------------------- MODULE BackendContract ----------------------------
(***************************************************************************)
(* What AgentBackendLifecycle promises to the process and to the kernel:   *)
(* its start is answered, every shutdown is answered whatever the backend  *)
(* does, a shutdown resolves only if the backend is down, and down is for  *)
(* good.  BackendLifecycle implements it.                                  *)
(***************************************************************************)
EXTENDS Naturals

CONSTANT MaxCalls          \* bound: calls of shutdown by the host

ASSUME CallsBound == MaxCalls \in Nat

Calls == 1..MaxCalls

VARIABLES
  aborted,                 \* the shutdown signal of the host
  startup,                 \* the call of start: none, waiting, resolved, rejected
  answer,                  \* shutdown calls: idle, waiting, resolved, rejected
  down                     \* the backend is stopped

contractVars == <<aborted, startup, answer, down>>

ContractInit ==
  /\ aborted = FALSE
  /\ startup = "none"
  /\ answer = [c \in Calls |-> "idle"]
  /\ down = FALSE

Abort == aborted' = TRUE /\ UNCHANGED <<startup, answer, down>>

AskStart ==
  /\ startup = "none" /\ \A c \in Calls : answer[c] = "idle"
  /\ startup' = "waiting"
  /\ UNCHANGED <<aborted, answer, down>>

AnswerStart ==
  /\ startup = "waiting"
  /\ startup' \in {"resolved", "rejected"}
  /\ UNCHANGED <<aborted, answer, down>>

(* A lifecycle that is down answers at once.                               *)
AskShutdown(c) ==
  /\ aborted /\ answer[c] = "idle"
  /\ answer' = [answer EXCEPT ![c] = IF down THEN "resolved" ELSE "waiting"]
  /\ UNCHANGED <<aborted, startup, down>>

(* The backend goes down once somebody has asked, perhaps long after the   *)
(* answer.                                                                 *)
GoesDown ==
  /\ \E c \in Calls : answer[c] # "idle"
  /\ down' = TRUE
  /\ UNCHANGED <<aborted, startup, answer>>

AnswerShutdown(c) ==
  /\ answer[c] = "waiting"
  /\ \/ down /\ answer' = [answer EXCEPT ![c] = "resolved"]
     \/ answer' = [answer EXCEPT ![c] = "rejected"]
  /\ UNCHANGED <<aborted, startup, down>>

ContractNext ==
  \/ Abort \/ AskStart \/ AnswerStart \/ GoesDown
  \/ \E c \in Calls : AskShutdown(c) \/ AnswerShutdown(c)

ContractSpec ==
  /\ ContractInit /\ [][ContractNext]_contractVars
  /\ WF_contractVars(AnswerStart)
  /\ \A c \in Calls : WF_contractVars(AnswerShutdown(c))
=============================================================================
