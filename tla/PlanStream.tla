------------------------------ MODULE PlanStream ------------------------------
(***************************************************************************)
(* A plan as its event stream tells it: what replaying the stream gives    *)
(* (PlanSnapshot) and what one more event makes of it, one operator per    *)
(* event type (runtime/plan_projection.go).  A stream that lost its hash   *)
(* chain is refused on read and is not represented; wording, workers and   *)
(* wall time are not either.                                               *)
(***************************************************************************)
EXTENDS Integers, FiniteSets, Sequences

CONSTANTS
  StageOrder,     \* the stages' ids, in the order a plan lists them
  Kind,           \* stage -> "producer", "reviewer", "gate" or "planner"
  DependsOn,      \* stage -> the stages it depends on
  Content,        \* revision -> stage -> its content, Absent when not in it
  Absent,
  None,           \* no run
  MaxRevision,    \* bound: revisions a plan has
  MaxGeneration,  \* bound: times a revision's stage is performed again
  MaxHead         \* bound: candidates a run commits

Stages == {StageOrder[i] : i \in DOMAIN StageOrder}
Revisions == 1 .. MaxRevision

ASSUME StreamAssumption ==
  /\ MaxRevision \in Nat \ {0} /\ MaxGeneration \in Nat /\ MaxHead \in Nat
  /\ StageOrder \in Seq(Stages)
  /\ \A i, j \in DOMAIN StageOrder : StageOrder[i] = StageOrder[j] => i = j
  /\ DependsOn \in [Stages -> SUBSET Stages]
  /\ Kind \in [Stages -> {"producer", "reviewer", "gate", "planner"}]
  /\ None \notin Revisions \X Stages \X (0 .. MaxGeneration)
  /\ None \notin {"completed", "failed", "invalidated"}

(* A run's identity is derived from the revision, the stage and the         *)
(* generation it performs, so starting the same performance twice finds     *)
(* the first run (derivedRunID).                                            *)
RunIds == Revisions \X Stages \X (0 .. MaxGeneration)
RevisionOf(r) == r[1]
StageOf(r) == r[2]
GenerationOf(r) == r[3]

(* An upstream output: a run and the candidate it stands at, 0 for none. *)
Outputs == RunIds \X (0 .. MaxHead)

Reviews == [verdict : {"accepted", "blocked"}, by : RunIds, of : Outputs]

Projections ==
  [state : {"pending", "running", "completed", "failed", "invalidated",
            "satisfied"},
   run : RunIds \cup {None}, assigned : BOOLEAN,
   generation : 0 .. MaxGeneration, under : 0 .. MaxRevision,
   proven : SUBSET Outputs, review : Reviews \cup {None}]

NewProjection ==
  [state |-> "pending", run |-> None, assigned |-> FALSE, generation |-> 0,
   under |-> 0, proven |-> {}, review |-> None]

EmptyStream ==
  [stage |-> [s \in Stages |-> NewProjection],
   approved |-> 0, governed |-> {}, superseded |-> {}, rejected |-> {},
   retired |-> {}, announced |-> {}, charged |-> {},
   spent |-> [r \in RunIds |-> 0], planned |-> 0]

Streams ==
  [stage : [Stages -> Projections], approved : 0 .. MaxRevision,
   governed : SUBSET Revisions, superseded : SUBSET Revisions,
   rejected : SUBSET Revisions, retired : SUBSET RunIds,
   announced : SUBSET RunIds, charged : SUBSET RunIds,
   spent : [RunIds -> Nat], planned : Nat]

-----------------------------------------------------------------------------
(* What each event makes of the plan (PlanSnapshot.apply). *)

(* Variant of retire that records the absence of a run too. *)
retireAny(p, r) == [p EXCEPT !.retired = @ \cup {r}]
retire(p, r) == IF r = None THEN p ELSE [p EXCEPT !.retired = @ \cup {r}]

Approved(p, revision) ==
  [p EXCEPT !.approved = IF revision >= @ THEN revision ELSE @,
            !.governed = @ \cup {revision}]

Rejected(p, revision) == [p EXCEPT !.rejected = @ \cup {revision}]

StageAssigned(p, s, r) ==
  [p EXCEPT !.stage[s].state = "pending", !.stage[s].assigned = TRUE,
            !.stage[s].run = r]

RunStarted(p, s, r) ==
  [p EXCEPT !.stage[s].state = "running", !.stage[s].run = r,
            !.stage[s].under = 0, !.announced = @ \cup {r}]

Settled(p, s, outcome) == [p EXCEPT !.stage[s].state = outcome]

(* Outcome invalidated, naming the revision it happened under: the run is   *)
(* retired and the next performance is a new generation.                    *)
Invalidated(p, s, revision) ==
  [retire(p, p.stage[s].run) EXCEPT
     !.stage[s] = [NewProjection EXCEPT
                     !.state = "invalidated", !.under = revision,
                     !.generation = p.stage[s].generation + 1]]

(* Bound: a stage can be performed once more. *)
MayPerformAgain(p, s) == p.stage[s].generation < MaxGeneration

Reviewed(p, s, review) == [p EXCEPT !.stage[s].review = review]

GateSatisfied(p, s, proven) ==
  [p EXCEPT !.stage[s].state = "satisfied", !.stage[s].proven = proven]

(* Charges are keyed, and a key counts once.  The first charge of another   *)
(* run to a failed stage reopens it with that run (reopenFailedStage).      *)
ChildRunCharged(p, s, r) ==
  LET reopened == r \notin p.charged /\ p.stage[s].state = "failed" /\ p.stage[s].run # r
      q == [p EXCEPT !.charged = @ \cup {r}]
  IN  IF ~reopened THEN q
      ELSE [retire(q, q.stage[s].run) EXCEPT
              !.stage[s].state = "running", !.stage[s].run = r]

(* A run's invocations are keyed by the total reached. *)
InvocationsCharged(p, r, total) ==
  IF total > p.spent[r] THEN [p EXCEPT !.spent[r] = total] ELSE p
PlannerCharged(p) == [p EXCEPT !.planned = @ + 1]

(* Variant of Superseded that forgets the runs of the stages it resets. *)
SupersededForgetting(p, to, invalidated) ==
  [p EXCEPT
     !.superseded = @ \cup {to},
     !.stage = [s \in Stages |->
                  IF s \in invalidated
                  THEN [NewProjection EXCEPT !.state = "invalidated"] ELSE @[s]]]
Superseded(p, to, invalidated) ==
  [p EXCEPT
     !.superseded = @ \cup {to},
     !.retired = @ \cup ({p.stage[s].run : s \in invalidated} \ {None}),
     !.stage = [s \in Stages |->
                  IF s \in invalidated
                  THEN [NewProjection EXCEPT !.state = "invalidated"]
                  ELSE @[s]]]

-----------------------------------------------------------------------------
(* What the service computes from two revisions and a replayed plan. *)

StagesOf(revision) == {s \in Stages : Content[revision][s] # Absent}

(* The stages reached from a set along dependencies, in a plan's order:     *)
(* the fixpoint loops of InvalidatedStages and                              *)
(* invalidateStaleCompletedStages.                                          *)
Downstream(seed, plan) ==
  LET closed(S) == seed \subseteq S /\ \A s \in plan : DependsOn[s] \cap S # {} => s \in S
  IN  CHOOSE S \in SUBSET Stages : closed(S) /\ \A T \in SUBSET Stages : closed(T) => S \subseteq T

InvalidatedStages(previous, next, p) ==
  LET changed == {s \in Stages : Content[previous][s] # Content[next][s]}
  IN  {s \in Downstream(changed, StagesOf(next)) : p.stage[s].state # "pending"}

terminalStageState(state) == state \in {"completed", "failed", "satisfied"}

planDependenciesSatisfied(s, p) ==
  \A d \in DependsOn[s] : p.stage[d].state \in {"completed", "satisfied"}

activeStages(p) == Cardinality({s \in Stages : p.stage[s].state = "running"})

upstreamStageIDs(s) ==
  LET closed(S) == DependsOn[s] \subseteq S /\ \A d \in S : DependsOn[d] \subseteq S
  IN  CHOOSE S \in SUBSET Stages : closed(S) /\ \A T \in SUBSET Stages : closed(T) => S \subseteq T

(* The one frozen candidate a stage is about; several that no one of them   *)
(* contains are refused, which a plan here never has (upstreamSubject).     *)
upstreamSubject(inputs) ==
  LET candidates == {o \in inputs : o[2] # 0}
  IN  IF Cardinality(candidates) = 1 THEN CHOOSE o \in candidates : TRUE ELSE None
=============================================================================
