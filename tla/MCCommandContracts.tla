-------------------------- MODULE MCCommandContracts --------------------------
(* Four contracts the commands of a driver rest on: the delivery of their    *)
(* status, the external call of mcp.execute, the permission requests and the *)
(* start and stop of the backend.  What each of them asks of the others is   *)
(* nondeterministic there: a behaviour is one of one part.                   *)
EXTENDS CommandDelivery, McpEffect, PermissionBroker, BackendLifecycle
VARIABLE part
contractsVars == <<deliveryVars, mcpVars, brokerVars, lifecycleVars, part>>

ContractsInit ==
  /\ DeliveryInit /\ McpInit /\ BrokerInit /\ LifecycleInit
  /\ part \in {"delivery", "effect", "permission", "lifecycle"}

Delivery(step) == part = "delivery" /\ step /\ UNCHANGED <<mcpVars, brokerVars, lifecycleVars, part>>
Effect(step) == part = "effect" /\ step /\ UNCHANGED <<deliveryVars, brokerVars, lifecycleVars, part>>
Permission(step) == part = "permission" /\ step /\ UNCHANGED <<deliveryVars, mcpVars, lifecycleVars, part>>
Lifecycle(step) == part = "lifecycle" /\ step /\ UNCHANGED <<deliveryVars, mcpVars, brokerVars, part>>

ContractsNext ==
  Delivery(DeliveryNext) \/ Effect(McpNext) \/ Permission(BrokerNext) \/ Lifecycle(LifecycleNext)

(* The fairness of the part that runs.                                       *)
ContractsFair ==
  /\ \A k \in DeliveryCalls : WF_contractsVars(Delivery(Progress(k)))
  /\ \A r \in Permissions :
       WF_contractsVars(Permission(RequestStep(r))) /\ WF_contractsVars(Permission(LateStep(r)))
  /\ \A w \in Waits : WF_contractsVars(Permission(WaitStep(w)))
  /\ WF_contractsVars(Effect(TaskStep))
  /\ WF_contractsVars(Lifecycle(StartRuns)) /\ WF_contractsVars(Lifecycle(StartGivesUp))
  /\ WF_contractsVars(Lifecycle(OwnerStep)) /\ WF_contractsVars(Lifecycle(CallSettles))
  /\ WF_contractsVars(Lifecycle(AcceptLateStop)) /\ WF_contractsVars(Lifecycle(WatchResumes))
ContractsSpec == ContractsInit /\ [][ContractsNext]_contractsVars /\ ContractsFair

(* Nobody waits for ever, whatever the host acknowledges: not the caller of  *)
(* a status delivery, an aborted mcp.execute, the owner of a lease or a wait *)
(* (CallsSettle, AbortedCommandEnds and WaitsEnd of the part that runs).     *)
NobodyWaitsForEver == []<>~(DeliveryAwaited \/ EffectAwaited \/ BrokerAwaited)
=============================================================================
