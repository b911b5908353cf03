------------------------------- MODULE MCParts -------------------------------
(***************************************************************************)
(* The outbox of the meetings and seven small machines of the server, which  *)
(* share nothing, one at a time: the first state says which of them is       *)
(* explored, and the others stay where they begin.  The one that needs       *)
(* recursion is an instance, with the variables a1 to a6.                    *)
(***************************************************************************)
EXTENDS MeetingOutbox, PhoneReview, SafeConnection, OutputDelivery, MemoryDistill,
        ExecutionLedger, PluginLifecycle, TLC

CONSTANTS m1, m2, unknown, none, anyName

VARIABLES part,
          a1, a2, a3, a4, a5, a6

TextOrders == {<<"hedgedoc", "email", "sqlite">>, <<"email", "hedgedoc">>, <<"sqlite">>}

(* Plans of two nodes in a row with every policy for the models, and every   *)
(* graph of three nodes, some with a dependency that is no node.            *)
Names == {m1, m2, unknown, none}
Policies == [preferred : Names, locked : BOOLEAN, allowed : SUBSET {m1, m2, unknown},
             executor : [1 .. 2 -> Names], sound : BOOLEAN]
Fixed == [preferred |-> m1, locked |-> TRUE, allowed |-> {}, executor |-> [n \in 1 .. 3 |-> none],
          sound |-> TRUE]
Plans == {<<s, 1 :> {} @@ 2 :> {1}>> : s \in Policies}
           \cup {<<Fixed, g>> : g \in [1 .. 3 -> SUBSET (1 .. 4)]}
PlanRules == [model : {m1, unknown, none}, fallback : Names,
              allowed : {anyName, {m1}, {m2}, {m2, unknown}}]
Routing == INSTANCE PlanRouting WITH
  Models <- {m1, m2}, Unknown <- unknown, None <- none, AnyName <- anyName,
  Inputs <- Plans, Rules <- PlanRules, spec <- a1, deps <- a2, pc <- a3, routed <- a4,
  done <- a5, ran <- a6

(* Two plug-ins that register anything, and three with any dependencies.     *)
CallLists == {<<>>, <<"h">>, <<"cleanup">>, <<"cleanup", "h">>, <<"h", "cleanup">>, <<"k", "cleanup">>}
PluginSets == [1 .. 2 -> [needs : SUBSET (1 .. 2), calls : CallLists]]
                \cup [1 .. 3 -> [needs : SUBSET (1 .. 4), calls : {<<"cleanup">>}]] \cup {<<>>}

slots == <<a1, a2, a3, a4, a5, a6>>

(* A machine that is not explored chooses nothing at its beginning. *)
PartsInit ==
  /\ PluginInit
  /\ part \in {"outbox", "review", "connection", "delivery", "memory", "ledger", "plugins", "routing"}
  /\ part # "plugins" => manifest = <<>>
  /\ OutboxInit /\ ReviewInit /\ ConnectionInit /\ MemoryInit /\ LedgerInit /\ DeliveryInit
  /\ part # "review" => ~ overlap
  /\ part # "delivery" => policy = [full |-> "auto", explicit |-> FALSE, order |-> <<"sqlite">>, task |-> FALSE]
  /\ IF part = "routing" THEN Routing!Init
     ELSE a1 = 0 /\ a2 = 0 /\ a3 = 0 /\ a4 = 0 /\ a5 = 0 /\ a6 = 0

partVars == <<part, outboxVars, reviewVars, connectionVars, deliveryVars, memoryVars, ledgerVars, pluginVars, slots>>

Outbox == part = "outbox"
          /\ UNCHANGED <<part, reviewVars, connectionVars, deliveryVars, memoryVars, ledgerVars, pluginVars, slots>>
PartsNext ==
  \/ Outbox /\ OutboxNext
  \/ /\ part = "review" /\ ReviewNext
     /\ UNCHANGED <<part, outboxVars, connectionVars, deliveryVars, memoryVars, ledgerVars, pluginVars, slots>>
  \/ /\ part = "connection" /\ ConnectionNext
     /\ UNCHANGED <<part, outboxVars, reviewVars, deliveryVars, memoryVars, ledgerVars, pluginVars, slots>>
  \/ /\ part = "delivery" /\ DeliveryNext
     /\ UNCHANGED <<part, outboxVars, reviewVars, connectionVars, memoryVars, ledgerVars, pluginVars, slots>>
  \/ /\ part = "memory" /\ MemoryNext
     /\ UNCHANGED <<part, outboxVars, reviewVars, connectionVars, deliveryVars, ledgerVars, pluginVars, slots>>
  \/ /\ part = "ledger" /\ LedgerNext
     /\ UNCHANGED <<part, outboxVars, reviewVars, connectionVars, deliveryVars, memoryVars, pluginVars, slots>>
  \/ /\ part = "plugins" /\ PluginNext
     /\ UNCHANGED <<part, outboxVars, reviewVars, connectionVars, deliveryVars, memoryVars, ledgerVars, slots>>
  \/ /\ part = "routing" /\ Routing!Next
     /\ UNCHANGED <<part, outboxVars, reviewVars, connectionVars, deliveryVars, memoryVars, ledgerVars, pluginVars>>

(* The fairness of MeetingOutbox!FairOutboxSpec. *)
PartsSpec ==
  /\ PartsInit /\ [][PartsNext]_partVars
  /\ \A n \in Notifiers : WF_partVars(Outbox /\ Notify(n))
  /\ \A r \in Rounds : WF_partVars(Outbox /\ Due(r))

-------------------------------------------------------------------------------
(* What the instance promises, under the name it has in its module; what the *)
(* others promise is stated there.                                          *)

(* What the preflight passes can run, and on agreed models only (task_spec,  *)
(* model_policy).                                                           *)
PassedRunsAsAgreed == part = "routing" => Routing!PassedRunsAsAgreed
==============================================================================
