------------------------------ MODULE PlanRouting ------------------------------
(***************************************************************************)
(* From a specification of a task to the models that work on it: the        *)
(* deterministic preflight (core/task_spec.py), the translation into        *)
(* subtasks and a policy (task_spec_service.py), the choice of a model for   *)
(* every node and for the report (model_policy.py, task_orchestrator.py),    *)
(* and the fall-back when the chosen one does not answer.                    *)
(*                                                                          *)
(* One input, worked through step by step.  What the preflight asks of each *)
(* field alone (formats, limits, schedule, output) is one Boolean; models   *)
(* are names, configured or not, and a set of allowed names is empty when   *)
(* the specification allows all.  The rules of the configuration for a type *)
(* of node are chosen when the node is routed: types are not named.         *)
(***************************************************************************)
EXTENDS FiniteSets, SequencesExt

CONSTANTS Models,     \* llm.models of the configuration
          Unknown,    \* a name that is not configured
          None, AnyName,  \* no name, and a rule without allowed_models
          Inputs,     \* pairs of a specification and the dependencies of its nodes
          Rules       \* route_rules that a node may meet, or none, with the default model

VARIABLES spec, deps,
          pc,
          routed,     \* assigned_model and fallback_models of each node
          done,       \* nodes that have run
          ran         \* nodes with the models that worked on them

vars == <<spec, deps, pc, routed, done, ran>>

Nodes == DOMAIN deps
NotRouted == [model |-> None, fallbacks |-> {}, allowed |-> AnyName]

Unrouted ==
  /\ pc = "written"
  /\ routed = [n \in Nodes |-> NotRouted]
  /\ done = {} /\ ran = {}
Init ==
  /\ \E i \in Inputs : spec = i[1] /\ deps = i[2]
  /\ Unrouted

-------------------------------------------------------------------------------
(* The preflight.                                                           *)

ModelsUnavailable ==
  \/ spec.preferred \notin Models \cup {None}
  \/ ~ spec.allowed \subseteq Models
  \/ spec.preferred # None /\ spec.allowed # {} /\ spec.preferred \notin spec.allowed
  \/ spec.locked /\ spec.preferred = None
  \/ \E n \in Nodes : spec.executor[n] \notin Models \cup {None}

RECURSIVE Visit(_, _)
Fresh == [ok |-> TRUE, visiting |-> {}, visited |-> {}]
(* _visit: depth first, dependencies that are no nodes left aside.          *)
Visit(s, n) ==
  IF n \in s.visiting THEN [s EXCEPT !.ok = FALSE]
  ELSE IF n \in s.visited THEN s
  ELSE LET t == FoldLeft(LAMBDA u, d : IF u.ok /\ d \in Nodes THEN Visit(u, d) ELSE u,
                         [s EXCEPT !.visiting = s.visiting \cup {n}], SetToSeq(deps[n]))
       IN  IF t.ok THEN [t EXCEPT !.visiting = t.visiting \ {n}, !.visited = t.visited \cup {n}]
           ELSE t
Cyclic == ~ FoldLeft(LAMBDA s, n : IF s.ok THEN Visit(s, n) ELSE s, Fresh, SetToSeq(Nodes)).ok

InvalidPlan == Cyclic \/ \E n \in Nodes : ~ deps[n] \subseteq Nodes

Preflight ==
  /\ pc = "written"
  /\ pc' = IF ModelsUnavailable \/ InvalidPlan \/ ~ spec.sound THEN "blocked" ELSE "routing"
  /\ UNCHANGED <<spec, deps, routed, done, ran>>

-------------------------------------------------------------------------------
(* The choice of a model.                                                   *)

NoRule == [model |-> None, fallback |-> None, allowed |-> AnyName]
Permits(allowed, name) == name # None /\ (allowed = AnyName \/ name \in allowed)

(* The names that the specification and the rule allow. *)
Allowed(rule) ==
  IF spec.allowed = {} THEN rule.allowed
  ELSE IF rule.allowed = AnyName THEN spec.allowed
  ELSE spec.allowed \cap rule.allowed

FallbacksOfRule(rule, selected, allowed) == {rule.fallback} \cap (Models \ {selected})
Fallbacks(rule, selected, allowed) ==
  {m \in {rule.fallback} \cap (Models \ {selected}) : Permits(allowed, m)}

(* select, with the name that the node prefers and the one that the role or *)
(* the rule has: the decisions it may come to, none being an error.          *)
Select(rule, preferred, configured) ==
  LET allowed == Allowed(rule)
      With(m) == [model |-> m, fallbacks |-> Fallbacks(rule, m, allowed), allowed |-> rule.allowed]
      requested == IF Permits(allowed, spec.preferred) THEN spec.preferred ELSE None
      firsts == IF allowed = AnyName THEN {} ELSE allowed \cap Models
  IN  IF spec.locked
      THEN IF requested = None THEN {}
           ELSE {[model |-> requested, fallbacks |-> {}, allowed |-> rule.allowed]}
      ELSE IF preferred \in Models /\ Permits(allowed, preferred) THEN {With(preferred)}
      ELSE IF requested # None THEN {With(requested)}
      ELSE {With(m) : m \in IF Permits(allowed, configured) THEN {configured} \cap Models ELSE firsts}

(* build_subtasks: the node's own model, the task's, or one of the tier.    *)
Assigned(n, tier) ==
  IF spec.executor[n] # None THEN spec.executor[n]
  ELSE IF spec.preferred # None THEN spec.preferred ELSE tier

(* _classify_and_route, a node at a time. *)
Route(n) ==
  /\ pc = "routing" /\ routed[n] = NotRouted
  /\ \E rule \in Rules, tier \in Models \cup {None} :
       LET decisions == Select(rule, Assigned(n, tier), rule.model)
       IN  IF decisions = {} THEN pc' = "failed" /\ UNCHANGED routed
           ELSE /\ \E d \in decisions : routed' = [routed EXCEPT ![n] = d]
                /\ UNCHANGED pc
  /\ UNCHANGED <<spec, deps, done, ran>>
Routed ==
  /\ pc = "routing" /\ \A n \in Nodes : routed[n] # NotRouted
  /\ pc' = "running"
  /\ UNCHANGED <<spec, deps, routed, done, ran>>

(* A node whose dependencies are done; its model fails, or does the work.    *)
Run(n) ==
  /\ pc = "running" /\ n \notin done /\ deps[n] \subseteq done
  /\ \E m \in {routed[n].model} \cup routed[n].fallbacks :
       ran' = ran \cup {<<n, w>> : w \in {routed[n].model, m}}
  /\ done' = done \cup {n}
  /\ UNCHANGED <<spec, deps, pc, routed>>

(* The report, for which no rule counts; every configured model has a client *)
(* (ModelRouter), so that the default of _role_invoker is never asked.       *)
Aggregate ==
  /\ pc = "running" /\ done = Nodes
  /\ \E name \in Models \cup {Unknown, None} :
       LET decisions == Select(NoRule, None, name)
       IN  IF decisions = {} THEN pc' = "failed" /\ UNCHANGED ran
           ELSE /\ \E d \in decisions : ran' = ran \cup {<<None, d.model>>}
                /\ pc' = "reported"
  /\ UNCHANGED <<spec, deps, routed, done>>

Next == Preflight \/ Routed \/ Aggregate \/ \E n \in Nodes : Route(n) \/ Run(n)
Spec == Init /\ [][Next]_vars

-------------------------------------------------------------------------------
(* A plan that the preflight passes can be worked off: there is a next node  *)
(* until all are done.  And whatever the rules of the configuration say and  *)
(* whichever models fail, only models that the specification allows work on *)
(* the task, its locked one alone if it has one, and each node stays within *)
(* its rule.                                                                *)
PassedRunsAsAgreed ==
  /\ pc \in {"routing", "running"} =>
       done = Nodes \/ \E n \in Nodes \ done : deps[n] \subseteq done
  /\ \A r \in ran :
       /\ r[2] \in Models
       /\ spec.allowed # {} => r[2] \in spec.allowed
       /\ spec.locked => r[2] = spec.preferred
       /\ r[1] \in Nodes => Permits(routed[r[1]].allowed, r[2])
===============================================================================
