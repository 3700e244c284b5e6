--------------------------- MODULE MCPlanExecution ---------------------------
(* Small instances of PlanExecution for TLC. *)
EXTENDS PlanExecution

(* A producer and its reviewer. *)
WorkStages == <<"build", "review">>
WorkKinds == [build |-> "producer", review |-> "reviewer"]
WorkDependencies == [build |-> {}, review |-> {"build"}]

(* A planning stage, a producer and a gate; a second revision changes the   *)
(* producer.                                                                *)
GateStages == <<"plan", "build", "gate">>
GateKinds == [plan |-> "planner", build |-> "producer", gate |-> "gate"]
GateDependencies == [plan |-> {}, build |-> {}, gate |-> {"build"}]
BuildChanges ==
  [n \in Revisions |-> [s \in Stages |-> IF s = "build" THEN n ELSE 1]]
=============================================================================
