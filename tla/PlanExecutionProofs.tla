------------------------- MODULE PlanExecutionProofs -------------------------
(***************************************************************************)
(* What the execution of a plan keeps, for any stages, dependencies,       *)
(* revisions, envelopes and crashes (module PlanExecution): types, that an *)
(* announced run is named or retired, that work is created only for the    *)
(* revision that governs, that an interrupted start is adopted, and that   *)
(* the plan is charged within its envelope.                                *)
(*                                                                         *)
(* A pass decides on a replayed plan (pass.snapshot) and appends to the    *)
(* stream.  PassOK says, position by position, how far the two agree; it   *)
(* is what makes a decision on the snapshot a decision on the plan.        *)
(***************************************************************************)
EXTENDS PlanExecution, FiniteSetTheorems, WellFoundedInduction, TLAPS

-----------------------------------------------------------------------------
(* The inductive invariant.                                                 *)

Agent(s) == Kind[s] \in {"producer", "reviewer"}
Restartable == {"pending", "invalidated"}

(* A plan as a replay gives it: only agent stages have runs, their own, a   *)
(* running stage has one, and only gates are satisfied.                     *)
PlanOK(p) ==
  /\ p \in Streams
  /\ \A s \in Stages :
       /\ p.stage[s].run # None => Agent(s) /\ StageOf(p.stage[s].run) = s
       /\ p.stage[s].state = "running" => p.stage[s].run # None
       /\ p.stage[s].state = "satisfied" => Kind[s] = "gate"

(* Two plans that agree on a stage, up to a verdict that arrived. *)
Same(x, y) ==
  /\ x.state = y.state /\ x.run = y.run /\ x.assigned = y.assigned
  /\ x.generation = y.generation /\ x.under = y.under
Agree(p, q) == \A s \in Stages : Same(p.stage[s], q.stage[s])

(* The rows: a run that was started was assigned, for a stage of its kind,  *)
(* under a revision that governs or governed.                               *)
RunsOK ==
  /\ run \in [RunIds -> Runs]
  /\ store \in Stores
  /\ \A r \in RunIds : startedRun(r) =>
       /\ store.frozen[r] \in Assignments
       /\ Agent(StageOf(r))
       /\ RevisionOf(r) <= stream.approved

(* Which revisions govern, and whether the one that does replaced another. *)
FirstGoverns == \A n \in stream.governed : n >= stream.approved
On(revision) ==
  revision \in stream.superseded \/ \A n \in stream.governed : n >= revision
GovernedOK ==
  /\ stream.approved # 0 => stream.approved \in stream.governed
  /\ \A n \in stream.governed : n <= stream.approved
  /\ stream.approved = 0 =>
       \A s \in Stages : stream.stage[s].state = "pending" /\ stream.stage[s].run = None
  /\ \A r \in RunIds :
       startedRun(r) /\ RevisionOf(r) = stream.approved => On(stream.approved)

(* The operator's call holds the lock. *)
OperatorOK ==
  /\ operator.pc \in {"idle", "contract", "supersede"}
  /\ operator.pc # "idle" => pass.pc \in {"idle", "planning"}
  /\ operator.pc = "contract" => operator.revision \in Revisions
  /\ operator.pc = "supersede" =>
       /\ operator.revision = stream.approved /\ operator.revision \in Revisions
       /\ operator.invalidated \subseteq Stages
       /\ \E n \in stream.governed : n < stream.approved
       /\ pass.pc = "planning" => pass.revision # stream.approved

Settling == {"settle", "settling"}
Starting == {"claim", "assigned", "charge", "started"}
Answering == {"planning", "revise", "contract", "settlePlanner"}
Unlocked == {"idle", "planning"}

(* The position of the pass, and the revision it serves. *)
PlacedOK ==
  /\ pass.pc \in PassPcs
  /\ PlanOK(pass.snapshot)
  /\ pass.stale \subseteq Stages
  /\ pass.pc # "idle" =>
       /\ pass.revision \in Revisions /\ pass.revision <= stream.approved
       /\ pass.pc \notin Unlocked => pass.revision = stream.approved
       /\ pass.pc # "supersede" => On(pass.revision)
       /\ pass.pc = "supersede" => pass.snapshot.governed = stream.governed
       /\ pass.pc # "started" => pass.snapshot.charged = stream.charged
  /\ pass.pc \in {"settle", "stage"} => pass.i \in Nat
  /\ pass.pc \in {"settling"} \cup Starting \cup Answering => pass.i \in DOMAIN StageOrder
  /\ pass.pc \in Starting => Agent(Current)
  /\ pass.pc \in Answering => Kind[Current] = "planner"
  /\ pass.pc = "revise" => nextFreeRevision \in Revisions

(* How far the snapshot is the plan. *)
SnapshotOK ==
  /\ pass.pc \in {"upkeep", "stage", "claim", "assigned", "revise", "contract", "settlePlanner"} =>
       Agree(pass.snapshot, stream)
  /\ pass.pc = "planning" /\ pass.revision = stream.approved => Agree(pass.snapshot, stream)
  /\ pass.pc \in Settling =>
       \A j \in DOMAIN StageOrder : j >= pass.i =>
         Same(pass.snapshot.stage[StageOrder[j]], stream.stage[StageOrder[j]])
  /\ pass.pc = "settle" /\ pass.outcome = None => Agree(pass.snapshot, stream)
  /\ pass.pc = "settling" =>
       /\ pass.outcome \in {"completed", "failed", "invalidated"}
       /\ pass.snapshot.stage[Current].state = "running"
  /\ pass.pc = "invalidate" =>
       \A s \in pass.stale :
         /\ stream.stage[s].state # "pending"
         /\ stream.stage[s].state = "invalidated" => stream.stage[s].under # pass.revision
  /\ pass.pc \in Starting =>
       /\ pass.snapshot.stage[Current].state \in Restartable
       /\ Performance \in RunIds /\ store.frozen[Performance] \in Assignments
       /\ stream.stage[Current].generation = GenerationOf(Performance)
  /\ pass.pc \in Starting \ {"claim"} => startedRun(Performance)
  /\ pass.pc \in {"charge", "started"} =>
       /\ \A s \in Stages \ {Current} : Same(pass.snapshot.stage[s], stream.stage[s])
       /\ stream.stage[Current].state = "pending" /\ stream.stage[Current].run = Performance
  /\ pass.pc \in Starting \ {"started"} => Cardinality(stream.charged) < MaxChildRuns
  /\ pass.pc = "started" => Performance \in stream.charged

(* What the stage loop may still start has been resolved. *)
Resolved(p) ==
  \A s \in StagesOf(pass.revision) :
    Agent(s) /\ ~terminalStageState(p.stage[s].state) => pass.resolved[s] \in Assignments
ResolvedOK ==
  /\ pass.pc \in Settling => Resolved(stream)
  /\ pass.pc \notin {"idle", "supersede", "invalidate"} => Resolved(pass.snapshot)

(* Announced runs are named or retired, and a stage that can be started     *)
(* names none that would be forgotten.                                      *)
AccountOK ==
  /\ \A r \in stream.announced : stream.stage[StageOf(r)].run = r \/ r \in stream.retired
  /\ \A s \in Stages :
       stream.stage[s].state \in Restartable /\ stream.stage[s].run \in stream.announced
         => stream.stage[s].run \in stream.retired

(* The envelope. *)
EnvelopeOK ==
  /\ IsFiniteSet(stream.charged)
  /\ Cardinality(stream.charged) <= MaxChildRuns

(* In a plan that was never revised every run is retired, named, or the     *)
(* performance its stage waits for; one not charged is the last.            *)
Waiting(r) ==
  /\ stream.stage[StageOf(r)].generation = GenerationOf(r)
  /\ stream.stage[StageOf(r)].state \in Restartable
FirstOK ==
  stream.approved \notin stream.superseded /\ FirstGoverns =>
    /\ \A s \in Stages :
         Agent(s) /\ stream.stage[s].state = "invalidated" => stream.stage[s].under = stream.approved
    /\ \A r \in RunIds : RevisionOf(r) = stream.approved =>
         /\ stream.stage[StageOf(r)].run = r =>
              stream.stage[StageOf(r)].generation = GenerationOf(r)
         /\ startedRun(r) =>
              /\ r \in stream.retired \/ stream.stage[StageOf(r)].run = r \/ Waiting(r)
              /\ r \notin stream.charged => Waiting(r)

PlanInv ==
  /\ PlanOK(stream) /\ RunsOK /\ GovernedOK /\ OperatorOK /\ PlacedOK /\ SnapshotOK
  /\ ResolvedOK /\ AccountOK /\ EnvelopeOK /\ FirstOK

-----------------------------------------------------------------------------
(* Sets of numbers and of stages.                                           *)

LEMMA Least ==
  ASSUME NEW S \in SUBSET Nat, S # {}
  PROVE  \E x \in S : \A y \in S : x <= y
<1>1. PICK x \in S : \A y \in S : ~(<<y, x>> \in OpToRel(<, Nat))
  BY NatLessThanWellFounded, WFMin, Zenon
<1>2. \A y \in S : ~(y < x)
  BY <1>1 DEF OpToRel
<1> QED
  BY <1>2

LEMMA FirstLeast ==
  ASSUME NEW S \in SUBSET Nat, S # {}
  PROVE  First(S) \in S /\ \A y \in S : First(S) <= y
  BY Least DEF First

(* The positions of a plan's stages. *)
LEMMA Positions ==
  /\ DOMAIN StageOrder \subseteq Nat
  /\ \A i \in DOMAIN StageOrder : StageOrder[i] \in Stages
  BY StreamAssumption DEF Stages

(* The stages reached along dependencies are stages: the intersection of    *)
(* all closed sets is closed.                                               *)
LEMMA DownstreamStages ==
  ASSUME NEW seed \in SUBSET Stages, NEW plan \in SUBSET Stages
  PROVE  Downstream(seed, plan) \in SUBSET Stages
<1> DEFINE closed(S) == seed \subseteq S /\ \A s \in plan : DependsOn[s] \cap S # {} => s \in S
           least == {s \in Stages : \A T \in SUBSET Stages : closed(T) => s \in T}
<1>1. closed(least)
  OBVIOUS
<1>2. least \in SUBSET Stages /\ \A T \in SUBSET Stages : closed(T) => least \subseteq T
  OBVIOUS
<1>3. \E S \in SUBSET Stages :
        closed(S) /\ \A T \in SUBSET Stages : closed(T) => S \subseteq T
  BY <1>1, <1>2
<1> QED
  BY <1>3 DEF Downstream

(* Nothing outside the plan is reached from within it. *)
LEMMA DownstreamWithin ==
  ASSUME NEW plan \in SUBSET Stages, NEW seed \in SUBSET plan
  PROVE  Downstream(seed, plan) \in SUBSET plan
<1> DEFINE closed(S) == seed \subseteq S /\ \A s \in plan : DependsOn[s] \cap S # {} => s \in S
           least == {s \in Stages : \A T \in SUBSET Stages : closed(T) => s \in T}
<1>1. closed(least)
  OBVIOUS
<1>2. least \in SUBSET Stages /\ \A T \in SUBSET Stages : closed(T) => least \subseteq T
  OBVIOUS
<1>3. \E S \in SUBSET Stages :
        closed(S) /\ \A T \in SUBSET Stages : closed(T) => S \subseteq T
  BY <1>1, <1>2
<1>4. closed(Downstream(seed, plan)) /\ \A T \in SUBSET Stages : closed(T) => Downstream(seed, plan) \subseteq T
  BY <1>3 DEF Downstream
<1>5. closed(plan)
  OBVIOUS
<1> QED
  BY <1>4, <1>5

LEMMA UpstreamStages ==
  ASSUME NEW s \in Stages
  PROVE  upstreamStageIDs(s) \in SUBSET Stages
<1> DEFINE closed(S) == DependsOn[s] \subseteq S /\ \A d \in S : DependsOn[d] \subseteq S
           least == {d \in Stages : \A T \in SUBSET Stages : closed(T) => d \in T}
<1>0. DependsOn[s] \subseteq Stages
  BY StreamAssumption
<1>1. closed(least)
  BY <1>0, StreamAssumption
<1>2. least \in SUBSET Stages /\ \A T \in SUBSET Stages : closed(T) => least \subseteq T
  OBVIOUS
<1>3. \E S \in SUBSET Stages :
        closed(S) /\ \A T \in SUBSET Stages : closed(T) => S \subseteq T
  BY <1>1, <1>2
<1> QED
  BY <1>3 DEF upstreamStageIDs

(* What a supersession resets are stages that have left pending. *)
LEMMA InvalidatedAreStages ==
  ASSUME NEW previous, NEW next, NEW p
  PROVE  InvalidatedStages(previous, next, p) \subseteq Stages
<1>1. StagesOf(next) \in SUBSET Stages
  BY DEF StagesOf
<1>2. {s \in Stages : Content[previous][s] # Content[next][s]} \in SUBSET Stages
  OBVIOUS
<1>3. Downstream({s \in Stages : Content[previous][s] # Content[next][s]}, StagesOf(next)) \in SUBSET Stages
  BY <1>1, <1>2, DownstreamStages
<1> QED
  BY <1>3 DEF InvalidatedStages

LEMMA StaleAreStages ==
  ASSUME NEW revision, NEW p
  PROVE  /\ StaleStages(revision, p) \in SUBSET Stages
         /\ \A s \in StaleStages(revision, p) :
              /\ p.stage[s].state # "pending"
              /\ p.stage[s].state = "invalidated" => p.stage[s].under # revision
<1> DEFINE plan == StagesOf(revision)
           moved == {s \in plan :
                       LET a == frozenAssignment(revision, s, p.stage[s])
                       IN  stageWorkStopped(p.stage[s]) /\ a # None /\ movedUpstream(a)}
           gone == {s \in plan : p.stage[s].state = "invalidated" /\ p.stage[s].under = revision}
           reached == Downstream(moved \cup gone, plan)
<1> HIDE DEF moved, gone
<1>1. StaleStages(revision, p) = {s \in reached \ gone : p.stage[s].state # "pending"}
  BY DEF StaleStages, moved, gone
<1>2. plan \in SUBSET Stages /\ moved \subseteq plan /\ gone \subseteq plan
  BY DEF StagesOf, moved, gone
<1>3. reached \in SUBSET plan
  BY <1>2, DownstreamWithin
<1>4. \A s \in plan \ gone : p.stage[s].state = "invalidated" => p.stage[s].under # revision
  BY DEF gone
<1> QED
  BY <1>1, <1>2, <1>3, <1>4

-----------------------------------------------------------------------------
(* What the events make of a plan.                                          *)

Ruled(p, q) == q.approved = p.approved /\ q.governed = p.governed /\ q.superseded = p.superseded
Booked(p, q) == q.retired = p.retired /\ q.announced = p.announced /\ q.charged = p.charged
Others(p, q, s) == \A t \in Stages \ {s} : q.stage[t] = p.stage[t]

LEMMA StreamFields ==
  ASSUME NEW p \in Streams
  PROVE  /\ p.stage \in [Stages -> Projections]
         /\ \A s \in Stages :
              /\ p.stage[s] \in Projections
              /\ p.stage[s].run \in RunIds \cup {None}
              /\ p.stage[s].generation \in 0 .. MaxGeneration
              /\ p.stage[s].under \in 0 .. MaxRevision
         /\ p.approved \in 0 .. MaxRevision /\ p.governed \subseteq Revisions
         /\ p.superseded \subseteq Revisions /\ p.retired \subseteq RunIds
         /\ p.announced \subseteq RunIds /\ p.charged \subseteq RunIds
         /\ p.spent \in [RunIds -> Nat] /\ p.planned \in Nat
<1>1. p.stage \in [Stages -> Projections]
  BY DEF Streams
<1>2. \A x \in Projections :
        x.run \in RunIds \cup {None} /\ x.generation \in 0 .. MaxGeneration /\ x.under \in 0 .. MaxRevision
  BY DEF Projections
<1> QED
  BY <1>1, <1>2 DEF Streams

(* A plan with one stage replaced. *)
LEMMA OneStage ==
  ASSUME NEW p \in Streams, NEW s \in Stages, NEW x \in Projections
  PROVE  LET q == [p EXCEPT !.stage[s] = x]
         IN  /\ q \in Streams /\ q.stage[s] = x /\ Others(p, q, s)
             /\ Ruled(p, q) /\ Booked(p, q)
<1>1. p.stage \in [Stages -> Projections]
  BY StreamFields
<1>2. [p.stage EXCEPT ![s] = x] \in [Stages -> Projections]
  BY <1>1
<1> QED
  BY <1>1, <1>2 DEF Streams, Others, Ruled, Booked

LEMMA NewIsProjection ==
  ASSUME NEW g \in 0 .. MaxGeneration, NEW revision \in 0 .. MaxRevision
  PROVE  /\ NewProjection \in Projections
         /\ [NewProjection EXCEPT !.state = "invalidated"] \in Projections
         /\ [NewProjection EXCEPT !.state = "invalidated", !.under = revision,
                                  !.generation = g] \in Projections
<1>1. 0 \in 0 .. MaxGeneration /\ 0 \in 0 .. MaxRevision
  BY StreamAssumption
<1> QED
  BY <1>1 DEF NewProjection, Projections

LEMMA AfterSettled ==
  ASSUME NEW p, PlanOK(p), NEW s \in Stages, NEW o \in {"completed", "failed"}
  PROVE  LET q == Settled(p, s, o)
         IN  /\ PlanOK(q) /\ Others(p, q, s) /\ Ruled(p, q) /\ Booked(p, q)
             /\ q.stage[s].state = o /\ q.stage[s].run = p.stage[s].run
             /\ q.stage[s].generation = p.stage[s].generation
<1> DEFINE x == [p.stage[s] EXCEPT !.state = o]
<1>1. p \in Streams /\ p.stage[s] \in Projections
  BY StreamFields DEF PlanOK
<1>2. /\ x \in Projections /\ x.state = o /\ x.run = p.stage[s].run
      /\ x.generation = p.stage[s].generation
  BY <1>1 DEF Projections
<1>3. Settled(p, s, o) = [p EXCEPT !.stage[s] = x]
  BY <1>1, StreamFields DEF Settled
<1> HIDE DEF x
<1>4. LET q == [p EXCEPT !.stage[s] = x]
      IN  q \in Streams /\ q.stage[s] = x /\ Others(p, q, s) /\ Ruled(p, q) /\ Booked(p, q)
  BY <1>1, <1>2, OneStage
<1> QED
  BY <1>1, <1>2, <1>3, <1>4 DEF PlanOK, Others

LEMMA AfterGate ==
  ASSUME NEW p, PlanOK(p), NEW s \in Stages, Kind[s] = "gate", NEW proven \in SUBSET Outputs
  PROVE  LET q == GateSatisfied(p, s, proven)
         IN  /\ PlanOK(q) /\ Others(p, q, s) /\ Ruled(p, q) /\ Booked(p, q)
             /\ q.stage[s].state = "satisfied" /\ q.stage[s].run = p.stage[s].run
             /\ q.stage[s].generation = p.stage[s].generation
<1> DEFINE x == [p.stage[s] EXCEPT !.state = "satisfied", !.proven = proven]
<1>1. p \in Streams /\ p.stage[s] \in Projections
  BY StreamFields DEF PlanOK
<1>2. /\ x \in Projections /\ x.state = "satisfied" /\ x.run = p.stage[s].run
      /\ x.generation = p.stage[s].generation
  BY <1>1 DEF Projections
<1>3. GateSatisfied(p, s, proven) = [p EXCEPT !.stage[s] = x]
  BY <1>1, StreamFields DEF GateSatisfied
<1> HIDE DEF x
<1>4. LET q == [p EXCEPT !.stage[s] = x]
      IN  q \in Streams /\ q.stage[s] = x /\ Others(p, q, s) /\ Ruled(p, q) /\ Booked(p, q)
  BY <1>1, <1>2, OneStage
<1> QED
  BY <1>1, <1>2, <1>3, <1>4 DEF PlanOK, Others

LEMMA AfterReviewed ==
  ASSUME NEW p, PlanOK(p), NEW s \in Stages, NEW review \in Reviews
  PROVE  LET q == Reviewed(p, s, review)
         IN  PlanOK(q) /\ Agree(p, q) /\ Ruled(p, q) /\ Booked(p, q)
<1> DEFINE x == [p.stage[s] EXCEPT !.review = review]
<1>1. p \in Streams /\ p.stage[s] \in Projections
  BY StreamFields DEF PlanOK
<1>2. x \in Projections /\ Same(p.stage[s], x)
  BY <1>1 DEF Projections, Same
<1>3. Reviewed(p, s, review) = [p EXCEPT !.stage[s] = x]
  BY <1>1, StreamFields DEF Reviewed
<1> HIDE DEF x
<1>4. LET q == [p EXCEPT !.stage[s] = x]
      IN  q \in Streams /\ q.stage[s] = x /\ Others(p, q, s) /\ Ruled(p, q) /\ Booked(p, q)
  BY <1>1, <1>2, OneStage
<1> QED
  BY <1>1, <1>2, <1>3, <1>4 DEF PlanOK, Others, Agree, Same

(* A performance is given up: its run is retired. *)
LEMMA AfterInvalidated ==
  ASSUME NEW p, PlanOK(p), NEW s \in Stages, NEW revision \in Revisions, MayPerformAgain(p, s)
  PROVE  LET q == Invalidated(p, s, revision)
         IN  /\ PlanOK(q) /\ Others(p, q, s) /\ Ruled(p, q)
             /\ q.announced = p.announced /\ q.charged = p.charged
             /\ q.retired = p.retired \cup ({p.stage[s].run} \ {None})
             /\ q.stage[s].state = "invalidated" /\ q.stage[s].run = None
             /\ q.stage[s].under = revision /\ ~q.stage[s].assigned
<1> DEFINE x == [NewProjection EXCEPT !.state = "invalidated", !.under = revision,
                    !.generation = p.stage[s].generation + 1]
           m == retire(p, p.stage[s].run)
<1>1. /\ p \in Streams /\ p.stage[s] \in Projections /\ p.stage[s].run \in RunIds \cup {None}
      /\ p.retired \subseteq RunIds /\ p.stage[s].generation \in 0 .. MaxGeneration
  BY StreamFields DEF PlanOK
<1>2. /\ x \in Projections /\ x.state = "invalidated" /\ x.run = None
      /\ x.under = revision /\ ~x.assigned
  <2>1. p.stage[s].generation + 1 \in 0 .. MaxGeneration
    BY <1>1, StreamAssumption DEF MayPerformAgain
  <2>2. revision \in 0 .. MaxRevision
    BY StreamAssumption DEF Revisions
  <2> QED
    BY <2>1, <2>2, NewIsProjection DEF NewProjection
<1>3. m \in Streams /\ m.stage = p.stage /\ Ruled(p, m) /\ m.announced = p.announced
      /\ m.charged = p.charged /\ m.retired = p.retired \cup ({p.stage[s].run} \ {None})
  BY <1>1 DEF retire, Streams, Ruled
<1>4. Invalidated(p, s, revision) = [m EXCEPT !.stage[s] = x]
  BY DEF Invalidated
<1> HIDE DEF x, m
<1>5. LET q == [m EXCEPT !.stage[s] = x]
      IN  q \in Streams /\ q.stage[s] = x /\ Others(m, q, s) /\ Ruled(m, q) /\ Booked(m, q)
  BY <1>2, <1>3, OneStage
<1> QED
  BY <1>1, <1>2, <1>3, <1>4, <1>5 DEF PlanOK, Others, Ruled, Booked

(* A supersession resets stages and retires their runs. *)
LEMMA AfterSuperseded ==
  ASSUME NEW p, PlanOK(p), NEW to \in Revisions, NEW I \in SUBSET Stages
  PROVE  LET q == Superseded(p, to, I)
         IN  /\ PlanOK(q)
             /\ q.approved = p.approved /\ q.governed = p.governed
             /\ q.superseded = p.superseded \cup {to}
             /\ q.announced = p.announced /\ q.charged = p.charged
             /\ q.retired = p.retired \cup ({p.stage[s].run : s \in I} \ {None})
             /\ \A s \in Stages :
                  q.stage[s] = IF s \in I THEN [NewProjection EXCEPT !.state = "invalidated"]
                               ELSE p.stage[s]
<1> DEFINE x == [NewProjection EXCEPT !.state = "invalidated"]
           f == [s \in Stages |-> IF s \in I THEN x ELSE p.stage[s]]
<1>1. p \in Streams /\ \A s \in Stages : p.stage[s] \in Projections /\ p.stage[s].run \in RunIds \cup {None}
  BY StreamFields DEF PlanOK
<1>2. x \in Projections /\ x.state = "invalidated" /\ x.run = None
  <2>1. 0 \in 0 .. MaxGeneration /\ 0 \in 0 .. MaxRevision
    BY StreamAssumption
  <2> QED
    BY <2>1, NewIsProjection DEF NewProjection
<1>3. f \in [Stages -> Projections]
  BY <1>1, <1>2
<1>4. PICK gone : gone = {p.stage[s].run : s \in I} \ {None}
  OBVIOUS
<1>5. /\ gone \subseteq RunIds
      /\ Superseded(p, to, I) =
           [p EXCEPT !.superseded = @ \cup {to}, !.retired = @ \cup gone, !.stage = f]
  BY <1>1, <1>4 DEF Superseded
<1>6. \A s \in Stages : f[s] = IF s \in I THEN x ELSE p.stage[s]
  OBVIOUS
<1> HIDE DEF x, f
<1>7. Superseded(p, to, I) \in Streams /\ Superseded(p, to, I).stage = f
  <2>1. PICK sup, ret : sup = p.superseded \cup {to} /\ ret = p.retired \cup gone
    OBVIOUS
  <2>2. sup \in SUBSET Revisions /\ ret \in SUBSET RunIds
    BY <1>1, <1>5, <2>1, StreamFields
  <2>3. Superseded(p, to, I) = [p EXCEPT !.superseded = sup, !.retired = ret, !.stage = f]
    BY <1>1, <1>5, <2>1 DEF Streams
  <2> QED
    BY <1>1, <1>3, <2>2, <2>3 DEF Streams
<1>8. PlanOK(Superseded(p, to, I))
  BY <1>2, <1>6, <1>7 DEF PlanOK
<1> QED
  BY <1>1, <1>4, <1>5, <1>6, <1>7, <1>8 DEF x, Streams

LEMMA AfterAssigned ==
  ASSUME NEW p, PlanOK(p), NEW s \in Stages, Agent(s), NEW r \in RunIds, StageOf(r) = s
  PROVE  LET q == StageAssigned(p, s, r)
         IN  /\ PlanOK(q) /\ Others(p, q, s) /\ Ruled(p, q) /\ Booked(p, q)
             /\ q.stage[s].state = "pending" /\ q.stage[s].run = r
             /\ q.stage[s].generation = p.stage[s].generation
<1> DEFINE x == [p.stage[s] EXCEPT !.state = "pending", !.assigned = TRUE, !.run = r]
<1>1. p \in Streams /\ p.stage[s] \in Projections
  BY StreamFields DEF PlanOK
<1>2. x \in Projections /\ x.state = "pending" /\ x.run = r /\ x.generation = p.stage[s].generation
  BY <1>1 DEF Projections
<1>3. StageAssigned(p, s, r) = [p EXCEPT !.stage[s] = x]
  BY <1>1, StreamFields DEF StageAssigned
<1> HIDE DEF x
<1>4. LET q == [p EXCEPT !.stage[s] = x]
      IN  q \in Streams /\ q.stage[s] = x /\ Others(p, q, s) /\ Ruled(p, q) /\ Booked(p, q)
  BY <1>1, <1>2, OneStage
<1> QED
  BY <1>1, <1>2, <1>3, <1>4 DEF PlanOK, Others

LEMMA AfterStarted ==
  ASSUME NEW p, PlanOK(p), NEW s \in Stages, Agent(s), NEW r \in RunIds, StageOf(r) = s
  PROVE  LET q == RunStarted(p, s, r)
         IN  /\ PlanOK(q) /\ Others(p, q, s) /\ Ruled(p, q)
             /\ q.retired = p.retired /\ q.charged = p.charged
             /\ q.announced = p.announced \cup {r}
             /\ q.stage[s].state = "running" /\ q.stage[s].run = r
             /\ q.stage[s].generation = p.stage[s].generation
<1> DEFINE x == [p.stage[s] EXCEPT !.state = "running", !.run = r, !.under = 0]
           m == [p EXCEPT !.announced = @ \cup {r}]
<1>1. p \in Streams /\ p.stage[s] \in Projections
  BY StreamFields DEF PlanOK
<1>2. /\ x \in Projections /\ x.state = "running" /\ x.run = r /\ r # None
      /\ x.generation = p.stage[s].generation
  <2>1. 0 \in 0 .. MaxRevision /\ r # None
    BY StreamAssumption DEF RunIds
  <2> QED
    BY <1>1, <2>1 DEF Projections
<1>3. m \in Streams /\ m.stage = p.stage /\ Ruled(p, m) /\ m.retired = p.retired
      /\ m.charged = p.charged /\ m.announced = p.announced \cup {r}
  BY <1>1 DEF Streams, Ruled
<1>4. RunStarted(p, s, r) = [m EXCEPT !.stage[s] = x]
  BY <1>1, StreamFields DEF RunStarted, Streams
<1> HIDE DEF x, m
<1>5. LET q == [m EXCEPT !.stage[s] = x]
      IN  q \in Streams /\ q.stage[s] = x /\ Others(m, q, s) /\ Ruled(m, q) /\ Booked(m, q)
  BY <1>2, <1>3, OneStage
<1> QED
  BY <1>1, <1>2, <1>3, <1>4, <1>5 DEF PlanOK, Others, Ruled, Booked

(* Charging the run of a stage that has not failed. *)
LEMMA AfterCharged ==
  ASSUME NEW p, PlanOK(p), NEW s \in Stages, NEW r \in RunIds, p.stage[s].state # "failed"
  PROVE  LET q == ChildRunCharged(p, s, r)
         IN  /\ PlanOK(q) /\ q.stage = p.stage /\ Ruled(p, q)
             /\ q.retired = p.retired /\ q.announced = p.announced
             /\ q.charged = p.charged \cup {r}
<1>1. ChildRunCharged(p, s, r) = [p EXCEPT !.charged = @ \cup {r}]
  BY DEF ChildRunCharged
<1>2. [p EXCEPT !.charged = @ \cup {r}] \in Streams
  BY DEF PlanOK, Streams
<1> QED
  BY <1>1, <1>2 DEF PlanOK, Streams, Ruled

(* Events that say nothing about stages. *)
Quiet(p, q) == Agree(p, q) /\ Ruled(p, q) /\ Booked(p, q)

LEMMA AfterSpent ==
  ASSUME NEW p, PlanOK(p), NEW r \in RunIds, NEW total \in Nat
  PROVE  PlanOK(InvocationsCharged(p, r, total)) /\ Quiet(p, InvocationsCharged(p, r, total))
<1>1. CASE total > p.spent[r]
  <2>1. p.spent \in [RunIds -> Nat] /\ [p.spent EXCEPT ![r] = total] \in [RunIds -> Nat]
    BY DEF PlanOK, Streams
  <2>2. InvocationsCharged(p, r, total) = [p EXCEPT !.spent = [p.spent EXCEPT ![r] = total]]
    BY <1>1 DEF InvocationsCharged, PlanOK, Streams
  <2> QED
    BY <2>1, <2>2 DEF PlanOK, Streams, Quiet, Agree, Same, Ruled, Booked
<1>2. CASE ~(total > p.spent[r])
  BY <1>2 DEF InvocationsCharged, Quiet, Agree, Same, Ruled, Booked
<1> QED
  BY <1>1, <1>2

LEMMA AfterPlannerCharged ==
  ASSUME NEW p, PlanOK(p)
  PROVE  PlanOK(PlannerCharged(p)) /\ Quiet(p, PlannerCharged(p))
  BY DEF PlannerCharged, PlanOK, Streams, Quiet, Agree, Same, Ruled, Booked

LEMMA AfterRejected ==
  ASSUME NEW p, PlanOK(p), NEW revision \in Revisions
  PROVE  PlanOK(Rejected(p, revision)) /\ Quiet(p, Rejected(p, revision))
  BY DEF Rejected, PlanOK, Streams, Quiet, Agree, Same, Ruled, Booked

LEMMA AfterApproved ==
  ASSUME NEW p, PlanOK(p), NEW revision \in Revisions, revision > p.approved
  PROVE  LET q == Approved(p, revision)
         IN  /\ PlanOK(q) /\ q.stage = p.stage /\ Booked(p, q)
             /\ q.approved = revision /\ q.governed = p.governed \cup {revision}
             /\ q.superseded = p.superseded
<1>1. p \in Streams /\ p.approved \in 0 .. MaxRevision /\ revision \in 0 .. MaxRevision
  BY StreamFields DEF PlanOK, Revisions
<1>2. Approved(p, revision) = [p EXCEPT !.approved = revision, !.governed = @ \cup {revision}]
  <2>1. (IF revision >= p.approved THEN revision ELSE p.approved) = revision
    BY <1>1
  <2> QED
    BY <1>1, <2>1 DEF Approved, Streams
<1>3. [p EXCEPT !.approved = revision, !.governed = @ \cup {revision}] \in Streams
  BY <1>1 DEF Streams
<1> QED
  BY <1>1, <1>2, <1>3 DEF PlanOK, Streams, Booked

-----------------------------------------------------------------------------
(* What rests on the plan and the runs that were started alone.             *)

SameStarts == \A r \in RunIds : run'[r].disposition # "none" <=> startedRun(r)
CoreOK == PlanOK(stream) /\ GovernedOK /\ AccountOK /\ EnvelopeOK /\ FirstOK

(* None of it depends on verdicts, spend or proposals. *)
LEMMA QuietCore ==
  ASSUME CoreOK, SameStarts, PlanOK(stream'), Quiet(stream, stream')
  PROVE  CoreOK'
<1>1. /\ \A s \in Stages : Same(stream.stage[s], stream'.stage[s])
      /\ Ruled(stream, stream') /\ Booked(stream, stream')
  BY DEF Quiet, Agree
<1>2. \A r \in RunIds : StageOf(r) \in Stages
  BY DEF RunIds, StageOf
<1>3. stream.announced \subseteq RunIds
  BY StreamFields DEF CoreOK, PlanOK
<1>4. GovernedOK'
  BY <1>1 DEF CoreOK, GovernedOK, Ruled, On, SameStarts, startedRun, Same
<1>5. AccountOK'
  BY <1>1, <1>2, <1>3 DEF CoreOK, AccountOK, Booked, Same
<1>6. EnvelopeOK'
  BY <1>1 DEF CoreOK, EnvelopeOK, Booked
<1>7. FirstOK'
  BY <1>1, <1>2 DEF CoreOK, FirstOK, FirstGoverns, Waiting, Ruled, Booked, Same, SameStarts, startedRun
<1> QED
  BY <1>4, <1>5, <1>6, <1>7 DEF CoreOK

LEMMA RunParts ==
  ASSUME NEW r \in RunIds
  PROVE  /\ StageOf(r) \in Stages /\ RevisionOf(r) \in Revisions
         /\ GenerationOf(r) \in 0 .. MaxGeneration
         /\ r = <<RevisionOf(r), StageOf(r), GenerationOf(r)>>
         /\ r # None
  BY StreamAssumption DEF RunIds, StageOf, RevisionOf, GenerationOf

(* A stage settles, or a gate is satisfied. *)
LEMMA SettleCore ==
  ASSUME CoreOK, RunsOK, SameStarts, NEW s \in Stages, stream.approved # 0,
         PlanOK(stream'), Others(stream, stream', s), Ruled(stream, stream'), Booked(stream, stream'),
         stream'.stage[s].run = stream.stage[s].run,
         stream'.stage[s].generation = stream.stage[s].generation,
         stream'.stage[s].state \notin Restartable,
         stream.stage[s].state \notin Restartable \/ ~Agent(s)
  PROVE  CoreOK'
<1>1. /\ \A t \in Stages \ {s} : stream'.stage[t] = stream.stage[t]
      /\ Ruled(stream, stream') /\ Booked(stream, stream')
  BY DEF Others
<1>2. stream.announced \subseteq RunIds
  BY StreamFields DEF CoreOK, PlanOK
<1>3. \A r \in RunIds : startedRun(r) /\ Waiting(r) => StageOf(r) # s
  BY DEF RunsOK, Waiting
<1>4. GovernedOK'
  BY <1>1 DEF CoreOK, GovernedOK, Ruled, On, SameStarts, startedRun
<1>5. AccountOK'
  <2>1. \A t \in Stages : stream'.stage[t].run = stream.stage[t].run
    BY <1>1
  <2> QED
    BY <1>1, <1>2, <2>1, RunParts DEF CoreOK, AccountOK, Booked
<1>6. EnvelopeOK'
  BY <1>1 DEF CoreOK, EnvelopeOK, Booked
<1>7. FirstOK'
  <2>1. SUFFICES ASSUME stream.approved \notin stream.superseded, FirstGoverns
                 PROVE  FirstOK'
    BY <1>1 DEF FirstOK, FirstGoverns, Ruled
  <2>2. \A t \in Stages : Agent(t) /\ stream'.stage[t].state = "invalidated" =>
          stream'.stage[t].under = stream.approved
    BY <1>1, <2>1 DEF CoreOK, FirstOK, Restartable
  <2>3. ASSUME NEW r \in RunIds, RevisionOf(r) = stream.approved
        PROVE  /\ stream'.stage[StageOf(r)].run = r =>
                    stream'.stage[StageOf(r)].generation = GenerationOf(r)
               /\ run'[r].disposition # "none" =>
                    /\ r \in stream.retired \/ stream'.stage[StageOf(r)].run = r \/ Waiting(r)'
                    /\ r \notin stream.charged => Waiting(r)'
    <3>1. StageOf(r) \in Stages
      BY RunParts
    <3>2. startedRun(r) /\ Waiting(r) => Waiting(r)'
      BY <1>1, <1>3, <3>1 DEF Waiting
    <3>3. /\ stream'.stage[StageOf(r)].run = stream.stage[StageOf(r)].run
          /\ stream'.stage[StageOf(r)].generation = stream.stage[StageOf(r)].generation
      BY <1>1, <3>1
    <3> QED
      BY <2>1, <2>3, <3>2, <3>3 DEF CoreOK, FirstOK, SameStarts
  <2> QED
    BY <1>1, <2>2, <2>3 DEF FirstOK, startedRun, Ruled, Booked
<1> QED
  BY <1>4, <1>5, <1>6, <1>7 DEF CoreOK

(* A performance is given up while no run waits to be adopted. *)
LEMMA InvalidateCore ==
  ASSUME CoreOK, SameStarts, NEW s \in Stages, stream.approved # 0, MayPerformAgain(stream, s),
         stream' = Invalidated(stream, s, stream.approved),
         stream.approved \notin stream.superseded /\ FirstGoverns =>
           \A r \in RunIds : startedRun(r) /\ StageOf(r) = s /\ RevisionOf(r) = stream.approved => ~Waiting(r)
  PROVE  CoreOK'
<1>0. stream.approved \in Revisions
  BY StreamFields, StreamAssumption DEF CoreOK, PlanOK, Revisions
<1>1. /\ PlanOK(stream') /\ Ruled(stream, stream')
      /\ \A t \in Stages \ {s} : stream'.stage[t] = stream.stage[t]
      /\ stream'.announced = stream.announced /\ stream'.charged = stream.charged
      /\ stream'.retired = stream.retired \cup ({stream.stage[s].run} \ {None})
      /\ stream'.stage[s].state = "invalidated" /\ stream'.stage[s].run = None
      /\ stream'.stage[s].under = stream.approved
  <2>1. PlanOK(stream)
    BY DEF CoreOK
  <2>2. LET q == Invalidated(stream, s, stream.approved)
        IN  /\ PlanOK(q) /\ Others(stream, q, s) /\ Ruled(stream, q)
            /\ q.announced = stream.announced /\ q.charged = stream.charged
            /\ q.retired = stream.retired \cup ({stream.stage[s].run} \ {None})
            /\ q.stage[s].state = "invalidated" /\ q.stage[s].run = None
            /\ q.stage[s].under = stream.approved
    BY <1>0, <2>1, AfterInvalidated
  <2> QED
    BY <2>2 DEF Others
<1>2. stream'.stage[s].run = None /\ stream'.stage[s].state = "invalidated"
      /\ stream'.stage[s].under = stream.approved
  BY <1>1
<1>3. stream.announced \subseteq RunIds /\ None \notin stream.announced
  BY StreamFields, RunParts DEF CoreOK, PlanOK
<1>4. GovernedOK'
  BY <1>1 DEF CoreOK, GovernedOK, Ruled, On, SameStarts, startedRun
<1>5. AccountOK'
  <2>1. \A r \in stream.announced :
          stream'.stage[StageOf(r)].run = r \/ r \in stream'.retired
    BY <1>1, <1>3, RunParts DEF CoreOK, AccountOK
  <2>2. \A t \in Stages :
          stream'.stage[t].state \in Restartable /\ stream'.stage[t].run \in stream.announced
            => stream'.stage[t].run \in stream'.retired
    BY <1>1, <1>2, <1>3 DEF CoreOK, AccountOK
  <2> QED
    BY <1>1, <2>1, <2>2 DEF AccountOK
<1>6. EnvelopeOK'
  BY <1>1 DEF CoreOK, EnvelopeOK
<1>7. FirstOK'
  <2>1. SUFFICES ASSUME stream.approved \notin stream.superseded, FirstGoverns
                 PROVE  FirstOK'
    BY <1>1 DEF FirstOK, FirstGoverns, Ruled
  <2>2. \A t \in Stages : Agent(t) /\ stream'.stage[t].state = "invalidated" =>
          stream'.stage[t].under = stream.approved
    <3>1. \A t \in Stages : Agent(t) /\ stream.stage[t].state = "invalidated" =>
            stream.stage[t].under = stream.approved
      BY <2>1 DEF CoreOK, FirstOK
    <3> QED
      BY <1>1, <1>2, <3>1
  <2>3. ASSUME NEW r \in RunIds, RevisionOf(r) = stream.approved
        PROVE  /\ stream'.stage[StageOf(r)].run = r =>
                    stream'.stage[StageOf(r)].generation = GenerationOf(r)
               /\ run'[r].disposition # "none" =>
                    /\ r \in stream'.retired \/ stream'.stage[StageOf(r)].run = r \/ Waiting(r)'
                    /\ r \notin stream.charged => Waiting(r)'
    <3>1. StageOf(r) \in Stages /\ r # None
      BY RunParts
    <3>2. CASE StageOf(r) = s
      BY <1>1, <1>2, <2>1, <2>3, <3>1, <3>2 DEF CoreOK, FirstOK, SameStarts
    <3>3. CASE StageOf(r) # s
      <4>1. stream'.stage[StageOf(r)] = stream.stage[StageOf(r)]
        BY <1>1, <3>1, <3>3
      <4> QED
        BY <1>1, <2>1, <2>3, <4>1 DEF CoreOK, FirstOK, SameStarts, Waiting
    <3> QED
      BY <3>2, <3>3
  <2> QED
    BY <1>1, <2>2, <2>3 DEF FirstOK, startedRun, Ruled
<1> QED
  BY <1>1, <1>4, <1>5, <1>6, <1>7 DEF CoreOK

(* A supersession of an earlier revision, or by the one that governs. *)
LEMMA SupersedeCore ==
  ASSUME CoreOK, SameStarts, NEW to \in Revisions, NEW I \in SUBSET Stages,
         stream' = Superseded(stream, to, I), stream.approved # 0,
         \E n \in stream.governed : n < stream.approved
  PROVE  CoreOK'
<1>1. /\ PlanOK(stream') /\ stream'.approved = stream.approved /\ stream'.governed = stream.governed
      /\ stream'.superseded = stream.superseded \cup {to}
      /\ stream'.announced = stream.announced /\ stream'.charged = stream.charged
      /\ stream'.retired = stream.retired \cup ({stream.stage[s].run : s \in I} \ {None})
      /\ \A s \in Stages :
           stream'.stage[s] = IF s \in I THEN [NewProjection EXCEPT !.state = "invalidated"]
                              ELSE stream.stage[s]
  BY AfterSuperseded DEF CoreOK
<1>2. \A s \in Stages : s \in I => stream'.stage[s].run = None
  BY <1>1 DEF NewProjection
<1>3. stream.announced \subseteq RunIds /\ None \notin stream.announced
  BY StreamFields, RunParts DEF CoreOK, PlanOK
<1>4. GovernedOK'
  BY <1>1 DEF CoreOK, GovernedOK, On, SameStarts, startedRun
<1>5. AccountOK'
  <2>1. ASSUME NEW r \in stream.announced
        PROVE  stream'.stage[StageOf(r)].run = r \/ r \in stream'.retired
    <3>1. StageOf(r) \in Stages /\ r # None
      BY <1>3, RunParts
    <3> QED
      BY <1>1, <3>1 DEF CoreOK, AccountOK
  <2>2. \A t \in Stages :
          stream'.stage[t].state \in Restartable /\ stream'.stage[t].run \in stream.announced
            => stream'.stage[t].run \in stream'.retired
    BY <1>1, <1>2, <1>3 DEF CoreOK, AccountOK
  <2> QED
    BY <1>1, <2>1, <2>2 DEF AccountOK
<1>6. EnvelopeOK'
  BY <1>1 DEF CoreOK, EnvelopeOK
<1>7. FirstOK'
  <2>1. ~FirstGoverns'
    <3>1. stream.approved \in Nat /\ \A n \in stream.governed : n \in Nat
      BY StreamFields DEF CoreOK, PlanOK, Revisions
    <3> QED
      BY <1>1, <3>1 DEF FirstGoverns
  <2> QED
    BY <2>1 DEF FirstOK
<1> QED
  BY <1>1, <1>4, <1>5, <1>6, <1>7 DEF CoreOK

(* An approval: nothing of the new revision was started. *)
LEMMA ApproveCore ==
  ASSUME CoreOK, RunsOK, SameStarts, NEW revision \in Revisions, revision > stream.approved,
         stream' = Approved(stream, revision)
  PROVE  CoreOK'
<1>1. /\ PlanOK(stream') /\ stream'.stage = stream.stage /\ Booked(stream, stream')
      /\ stream'.approved = revision /\ stream'.governed = stream.governed \cup {revision}
      /\ stream'.superseded = stream.superseded
  BY AfterApproved DEF CoreOK
<1>2. stream.approved \in Nat /\ revision \in Nat /\ revision # 0
      /\ (\A n \in stream.governed : n \in Nat) /\ \A r \in RunIds : RevisionOf(r) \in Nat
  BY StreamFields, RunParts DEF CoreOK, PlanOK, Revisions
<1>3. \A r \in RunIds : startedRun(r) => RevisionOf(r) # revision
  BY <1>2 DEF RunsOK
<1>4. GovernedOK'
  BY <1>1, <1>2, <1>3 DEF CoreOK, GovernedOK, SameStarts, startedRun
<1>5. AccountOK' /\ EnvelopeOK'
  BY <1>1 DEF CoreOK, AccountOK, EnvelopeOK, Booked
<1>6. FirstOK'
  <2>1. CASE stream.approved # 0
    <3>1. stream.approved \in stream'.governed /\ stream.approved < stream'.approved
      BY <1>1, <1>2, <2>1 DEF CoreOK, GovernedOK
    <3> QED
      BY <1>2, <1>1, <3>1 DEF FirstOK, FirstGoverns
  <2>2. CASE stream.approved = 0
    <3>1. \A s \in Stages : stream'.stage[s].state = "pending" /\ stream'.stage[s].run = None
      BY <1>1, <2>2 DEF CoreOK, GovernedOK
    <3> QED
      BY <1>1, <1>3, <3>1, RunParts DEF FirstOK, SameStarts, startedRun
  <2> QED
    BY <2>1, <2>2
<1> QED
  BY <1>1, <1>4, <1>5, <1>6 DEF CoreOK

(* Gates whose proof went stale are open again. *)
LEMMA ReopenCore ==
  ASSUME CoreOK, RunsOK, SameStarts, NEW G \in SUBSET Stages, stream.approved # 0,
         \A s \in G : Kind[s] = "gate",
         PlanOK(stream'), Ruled(stream, stream'), Booked(stream, stream'),
         \A s \in Stages \ G : stream'.stage[s] = stream.stage[s],
         \A s \in G : stream'.stage[s].run = stream.stage[s].run
  PROVE  CoreOK'
<1>1. \A s \in G : ~Agent(s) /\ stream.stage[s].run = None
  BY DEF CoreOK, PlanOK, Agent
<1>2. stream.announced \subseteq RunIds /\ None \notin stream.announced
  BY StreamFields, RunParts DEF CoreOK, PlanOK
<1>3. \A r \in RunIds : startedRun(r) => StageOf(r) \notin G
  BY <1>1 DEF RunsOK
<1>4. GovernedOK'
  BY DEF CoreOK, GovernedOK, Ruled, On, SameStarts, startedRun
<1>5. AccountOK'
  BY <1>1, <1>2, RunParts DEF CoreOK, AccountOK, Booked
<1>6. EnvelopeOK'
  BY DEF CoreOK, EnvelopeOK, Booked
<1>7. FirstOK'
  <2>1. SUFFICES ASSUME stream.approved \notin stream.superseded, FirstGoverns
                 PROVE  FirstOK'
    BY DEF FirstOK, FirstGoverns, Ruled
  <2>2. \A t \in Stages : Agent(t) /\ stream'.stage[t].state = "invalidated" =>
          stream'.stage[t].under = stream.approved
    BY <1>1, <2>1 DEF CoreOK, FirstOK
  <2>3. ASSUME NEW r \in RunIds, RevisionOf(r) = stream.approved
        PROVE  /\ stream'.stage[StageOf(r)].run = r =>
                    stream'.stage[StageOf(r)].generation = GenerationOf(r)
               /\ run'[r].disposition # "none" =>
                    /\ r \in stream.retired \/ stream'.stage[StageOf(r)].run = r \/ Waiting(r)'
                    /\ r \notin stream.charged => Waiting(r)'
    <3>1. StageOf(r) \in Stages /\ r # None
      BY RunParts
    <3>2. CASE StageOf(r) \in G
      BY <1>1, <1>3, <3>1, <3>2 DEF SameStarts
    <3>3. CASE StageOf(r) \notin G
      <4>1. stream'.stage[StageOf(r)] = stream.stage[StageOf(r)]
        BY <3>1, <3>3
      <4> QED
        BY <2>1, <2>3, <4>1 DEF CoreOK, FirstOK, SameStarts, Waiting
    <3> QED
      BY <3>2, <3>3
  <2> QED
    BY <2>2, <2>3 DEF FirstOK, startedRun, Ruled, Booked
<1> QED
  BY <1>4, <1>5, <1>6, <1>7 DEF CoreOK

(* A run is named by the stage that can be started. *)
LEMMA AssignCore ==
  ASSUME CoreOK, SameStarts, NEW s \in Stages, Agent(s), stream.approved \in Revisions,
         stream.stage[s].state \in Restartable,
         stream' = StageAssigned(stream, s, <<stream.approved, s, stream.stage[s].generation>>)
  PROVE  CoreOK'
<1>p. PICK P : P = <<stream.approved, s, stream.stage[s].generation>>
  OBVIOUS
<1>0. PlanOK(stream) /\ stream \in Streams
  BY DEF CoreOK, PlanOK
<1>1. P \in RunIds /\ StageOf(P) = s /\ RevisionOf(P) = stream.approved
      /\ GenerationOf(P) = stream.stage[s].generation
  BY <1>0, <1>p, StreamFields DEF RunIds, StageOf, RevisionOf, GenerationOf
<1>2. \A r \in RunIds : /\ StageOf(r) = s /\ RevisionOf(r) = stream.approved
                         /\ GenerationOf(r) = stream.stage[s].generation => r = P
  BY <1>p, RunParts
<1>3. stream' = StageAssigned(stream, s, P)
  BY <1>p
<1>4. LET q == StageAssigned(stream, s, P)
      IN  /\ PlanOK(q) /\ Others(stream, q, s) /\ Ruled(stream, q) /\ Booked(stream, q)
          /\ q.stage[s].state = "pending" /\ q.stage[s].run = P
          /\ q.stage[s].generation = stream.stage[s].generation
  BY <1>0, <1>1, AfterAssigned
<1>6. /\ PlanOK(stream') /\ Ruled(stream, stream') /\ Booked(stream, stream')
      /\ \A t \in Stages \ {s} : stream'.stage[t] = stream.stage[t]
      /\ stream'.stage[s].state = "pending" /\ stream'.stage[s].run = P
      /\ stream'.stage[s].generation = stream.stage[s].generation
  BY <1>3, <1>4 DEF Others
<1>7. stream.announced \subseteq RunIds /\ stream.approved # 0
  BY <1>0, StreamFields DEF Revisions
<1>8. GovernedOK'
  BY <1>6, <1>7 DEF CoreOK, GovernedOK, Ruled, On, SameStarts, startedRun
<1>9. AccountOK'
  <2>1. \A r \in stream.announced : stream'.stage[StageOf(r)].run = r \/ r \in stream.retired
    BY <1>6, <1>7, RunParts DEF CoreOK, AccountOK
  <2>2. P \in stream.announced => P \in stream.retired
    BY <1>1 DEF CoreOK, AccountOK
  <2> QED
    BY <1>6, <2>1, <2>2 DEF CoreOK, AccountOK, Booked
<1>10. EnvelopeOK'
  BY <1>6 DEF CoreOK, EnvelopeOK, Booked
<1>11. FirstOK'
  <2>1. SUFFICES ASSUME stream.approved \notin stream.superseded, FirstGoverns
                 PROVE  FirstOK'
    BY <1>6 DEF FirstOK, FirstGoverns, Ruled
  <2>2. \A t \in Stages : Agent(t) /\ stream'.stage[t].state = "invalidated" =>
          stream'.stage[t].under = stream.approved
    BY <1>6, <2>1 DEF CoreOK, FirstOK
  <2>3. ASSUME NEW r \in RunIds, RevisionOf(r) = stream.approved
        PROVE  /\ stream'.stage[StageOf(r)].run = r =>
                    stream'.stage[StageOf(r)].generation = GenerationOf(r)
               /\ run'[r].disposition # "none" =>
                    /\ r \in stream.retired \/ stream'.stage[StageOf(r)].run = r \/ Waiting(r)'
                    /\ r \notin stream.charged => Waiting(r)'
    <3>1. StageOf(r) \in Stages
      BY RunParts
    <3>2. CASE StageOf(r) = s
      <4>1. stream.stage[s].run = r => r = P
        BY <1>2, <2>1, <2>3, <3>2 DEF CoreOK, FirstOK
      <4>2. Waiting(r) => Waiting(r)' /\ r = P
        BY <1>2, <1>6, <2>3, <3>2 DEF Waiting, Restartable
      <4>3. Waiting(P)'
        BY <1>1, <1>6 DEF Waiting, Restartable
      <4> QED
        BY <1>1, <1>6, <2>1, <2>3, <3>2, <4>1, <4>2, <4>3 DEF CoreOK, FirstOK, SameStarts
    <3>3. CASE StageOf(r) # s
      <4>1. stream'.stage[StageOf(r)] = stream.stage[StageOf(r)]
        BY <1>6, <3>1, <3>3
      <4> QED
        BY <2>1, <2>3, <4>1 DEF CoreOK, FirstOK, SameStarts, Waiting
    <3> QED
      BY <3>2, <3>3
  <2> QED
    BY <1>6, <2>2, <2>3 DEF FirstOK, startedRun, Ruled, Booked
<1> QED
  BY <1>6, <1>8, <1>9, <1>10, <1>11 DEF CoreOK

LEMMA OneMore ==
  ASSUME NEW T, NEW x, IsFiniteSet(T)
  PROVE  IsFiniteSet(T \cup {x}) /\ Cardinality(T \cup {x}) <= Cardinality(T) + 1
<1>1. Cardinality(T) \in Nat
  BY FS_CardinalityType
<1>2. CASE x \in T
  <2>1. T \cup {x} = T
    BY <1>2
  <2> QED
    BY <1>1, <2>1
<1>3. CASE x \notin T
  BY <1>1, <1>3, FS_AddElement
<1> QED
  BY <1>2, <1>3

(* The run of a stage that was just assigned is charged. *)
LEMMA ChargeCore ==
  ASSUME CoreOK, SameStarts, NEW s \in Stages, NEW P \in RunIds, stream.stage[s].state = "pending",
         Cardinality(stream.charged) < MaxChildRuns, stream' = ChildRunCharged(stream, s, P)
  PROVE  CoreOK'
<1>1. /\ PlanOK(stream') /\ stream'.stage = stream.stage /\ Ruled(stream, stream')
      /\ stream'.retired = stream.retired /\ stream'.announced = stream.announced
      /\ stream'.charged = stream.charged \cup {P}
  BY AfterCharged DEF CoreOK
<1>2. GovernedOK'
  BY <1>1 DEF CoreOK, GovernedOK, Ruled, On, SameStarts, startedRun
<1>3. AccountOK'
  BY <1>1 DEF CoreOK, AccountOK
<1>4. EnvelopeOK'
  <2>1. IsFiniteSet(stream.charged) /\ Cardinality(stream.charged) \in Nat /\ MaxChildRuns \in Nat
    BY FS_CardinalityType, EnvelopeAssumption DEF CoreOK, EnvelopeOK
  <2>2. /\ IsFiniteSet(stream.charged \cup {P})
        /\ Cardinality(stream.charged \cup {P}) <= Cardinality(stream.charged) + 1
    BY <2>1, OneMore
  <2>3. Cardinality(stream.charged \cup {P}) \in Nat
    BY <2>2, FS_CardinalityType
  <2> QED
    BY <1>1, <2>1, <2>2, <2>3 DEF EnvelopeOK
<1>5. FirstOK'
  BY <1>1 DEF CoreOK, FirstOK, FirstGoverns, Ruled, SameStarts, startedRun, Waiting
<1> QED
  BY <1>1, <1>2, <1>3, <1>4, <1>5 DEF CoreOK

(* It is announced: no other run of the stage waits. *)
LEMMA StartCore ==
  ASSUME CoreOK, SameStarts, NEW s \in Stages, Agent(s), NEW P \in RunIds,
         StageOf(P) = s, RevisionOf(P) = stream.approved,
         GenerationOf(P) = stream.stage[s].generation,
         stream.stage[s].run = P, P \in stream.charged, stream' = RunStarted(stream, s, P)
  PROVE  CoreOK'
<1>1. LET q == RunStarted(stream, s, P)
      IN  /\ PlanOK(q) /\ Others(stream, q, s) /\ Ruled(stream, q)
          /\ q.retired = stream.retired /\ q.charged = stream.charged
          /\ q.announced = stream.announced \cup {P}
          /\ q.stage[s].state = "running" /\ q.stage[s].run = P
          /\ q.stage[s].generation = stream.stage[s].generation
  BY AfterStarted DEF CoreOK
<1>2. /\ PlanOK(stream') /\ Ruled(stream, stream')
      /\ stream'.retired = stream.retired /\ stream'.charged = stream.charged
      /\ stream'.announced = stream.announced \cup {P}
      /\ \A t \in Stages \ {s} : stream'.stage[t] = stream.stage[t]
      /\ stream'.stage[s].state = "running" /\ stream'.stage[s].run = P
      /\ stream'.stage[s].generation = stream.stage[s].generation
  BY <1>1 DEF Others
<1>3. stream.announced \subseteq RunIds /\ stream.approved # 0
  BY StreamFields, RunParts DEF CoreOK, PlanOK, Revisions
<1>4. GovernedOK'
  BY <1>2, <1>3 DEF CoreOK, GovernedOK, Ruled, On, SameStarts, startedRun
<1>5. AccountOK'
  <2>1. ASSUME NEW r \in stream'.announced
        PROVE  stream'.stage[StageOf(r)].run = r \/ r \in stream.retired
    <3>1. CASE r = P
      BY <1>2, <3>1
    <3>2. CASE r # P
      <4>1. r \in stream.announced /\ StageOf(r) \in Stages
        BY <1>2, <1>3, <2>1, <3>2, RunParts
      <4> QED
        BY <1>2, <3>2, <4>1 DEF CoreOK, AccountOK
    <3> QED
      BY <3>1, <3>2
  <2>2. ASSUME NEW t \in Stages, stream'.stage[t].state \in Restartable,
               stream'.stage[t].run \in stream'.announced
        PROVE  stream'.stage[t].run \in stream.retired
    <3>1. t # s /\ stream'.stage[t] = stream.stage[t]
      BY <1>2, <2>2 DEF Restartable
    <3>2. CASE stream.stage[t].run = P
      BY <3>1, <3>2, RunParts DEF CoreOK, PlanOK
    <3>3. CASE stream.stage[t].run # P
      BY <1>2, <2>2, <3>1, <3>3 DEF CoreOK, AccountOK
    <3> QED
      BY <3>2, <3>3
  <2> QED
    BY <1>2, <2>1, <2>2 DEF AccountOK
<1>6. EnvelopeOK'
  BY <1>2 DEF CoreOK, EnvelopeOK
<1>7. FirstOK'
  <2>1. SUFFICES ASSUME stream.approved \notin stream.superseded, FirstGoverns
                 PROVE  FirstOK'
    BY <1>2 DEF FirstOK, FirstGoverns, Ruled
  <2>2. \A t \in Stages : Agent(t) /\ stream'.stage[t].state = "invalidated" =>
          stream'.stage[t].under = stream.approved
    BY <1>2, <2>1 DEF CoreOK, FirstOK
  <2>3. ASSUME NEW r \in RunIds, RevisionOf(r) = stream.approved
        PROVE  /\ stream'.stage[StageOf(r)].run = r =>
                    stream'.stage[StageOf(r)].generation = GenerationOf(r)
               /\ run'[r].disposition # "none" =>
                    /\ r \in stream.retired \/ stream'.stage[StageOf(r)].run = r \/ Waiting(r)'
                    /\ r \notin stream.charged => Waiting(r)'
    <3>1. StageOf(r) \in Stages
      BY RunParts
    <3>2. CASE StageOf(r) = s
      <4>1. Waiting(r) => r = P
        BY <2>3, <3>2, RunParts DEF Waiting
      <4> QED
        BY <1>2, <2>1, <2>3, <3>2, <4>1 DEF CoreOK, FirstOK, SameStarts
    <3>3. CASE StageOf(r) # s
      <4>1. stream'.stage[StageOf(r)] = stream.stage[StageOf(r)]
        BY <1>2, <3>1, <3>3
      <4> QED
        BY <2>1, <2>3, <4>1 DEF CoreOK, FirstOK, SameStarts, Waiting
    <3> QED
      BY <3>2, <3>3
  <2> QED
    BY <1>2, <2>2, <2>3 DEF FirstOK, startedRun, Ruled
<1> QED
  BY <1>2, <1>4, <1>5, <1>6, <1>7 DEF CoreOK

(* A run is created for a stage that waits for it. *)
LEMMA ClaimCore ==
  ASSUME CoreOK, stream' = stream, NEW P \in RunIds, On(stream.approved), Waiting(P),
         \A r \in RunIds \ {P} : run'[r].disposition # "none" <=> startedRun(r)
  PROVE  CoreOK'
<1>1. GovernedOK'
  BY DEF CoreOK, GovernedOK, On, startedRun
<1>2. AccountOK' /\ EnvelopeOK'
  BY DEF CoreOK, AccountOK, EnvelopeOK
<1>3. Waiting(P)'
  BY DEF Waiting
<1>4. FirstOK'
  BY <1>3 DEF CoreOK, FirstOK, FirstGoverns, Waiting, startedRun
<1> QED
  BY <1>1, <1>2, <1>4 DEF CoreOK

-----------------------------------------------------------------------------
(* What a pass reads.                                                       *)

LEMMA EmptyIsPlan ==
  PlanOK(EmptyStream)
<1>1. 0 \in 0 .. MaxGeneration /\ 0 \in 0 .. MaxRevision
  BY StreamAssumption
<1>2. NewProjection \in Projections
  BY <1>1, NewIsProjection
<1>3. [s \in Stages |-> NewProjection] \in [Stages -> Projections]
  BY <1>2
<1>4. EmptyStream \in Streams
  BY <1>1, <1>3 DEF EmptyStream, Streams
<1> QED
  BY <1>4 DEF PlanOK, EmptyStream, NewProjection

LEMMA RowTypes ==
  ASSUME RunsOK, NEW r \in RunIds
  PROVE  /\ run[r] \in Runs /\ run[r].head \in 0 .. MaxHead /\ run[r].invocations \in Nat
         /\ run[r].disposition \in Dispositions /\ run[r].admitting \in Reviews \cup {None}
         /\ store.frozen[r] \in Assignments \cup {None}
<1>1. run[r] \in Runs
  BY DEF RunsOK
<1>2. store.frozen \in [RunIds -> Assignments \cup {None}]
  BY DEF RunsOK, Stores
<1> QED
  BY <1>1, <1>2 DEF Runs

LEMMA PerformanceOf ==
  ASSUME NEW revision \in Revisions, NEW s \in Stages, NEW g \in 0 .. MaxGeneration
  PROVE  LET r == <<revision, s, g>>
         IN  /\ r \in RunIds /\ RevisionOf(r) = revision /\ StageOf(r) = s /\ GenerationOf(r) = g
  BY DEF RunIds, RevisionOf, StageOf, GenerationOf

LEMMA FrozenTyped ==
  ASSUME RunsOK, NEW revision \in Revisions, NEW s \in Stages, NEW x \in Projections
  PROVE  frozenAssignment(revision, s, x) \in Assignments \cup {None}
<1>1. x.generation \in 0 .. MaxGeneration /\ x.run \in RunIds \cup {None}
  BY DEF Projections
<1>2. store.frozen[<<revision, s, x.generation>>] \in Assignments \cup {None}
  BY <1>1, PerformanceOf, RowTypes
<1>3. x.run # None => store.frozen[x.run] \in Assignments \cup {None}
  BY <1>1, RowTypes
<1> QED
  BY <1>2, <1>3 DEF frozenAssignment

(* What a stage of the plan would be assigned is an assignment. *)
LEMMA ResolveTyped ==
  ASSUME RunsOK, NEW revision \in Revisions, NEW p, PlanOK(p), NEW s \in Stages
  PROVE  Resolve(revision, p, s) \in Assignments
<1>1. p.stage[s] \in Projections /\ \A d \in Stages : p.stage[d].run \in RunIds \cup {None}
  BY StreamFields DEF PlanOK
<1>2. frozenAssignment(revision, s, p.stage[s]) \in Assignments \cup {None}
  BY <1>1, FrozenTyped
<1>3. PICK upstream : upstream = {p.stage[d].run : d \in DependsOn[s]} \ {None}
  OBVIOUS
<1>4. upstream \subseteq RunIds
  BY <1>1, <1>3, StreamAssumption
<1>5. PICK inputs : inputs = {<<r, run[r].head>> : r \in upstream}
  OBVIOUS
<1>6. inputs \in SUBSET Outputs
  BY <1>4, <1>5, RowTypes DEF Outputs
<1>7. [revision |-> revision, inputs |-> inputs] \in Assignments
  BY <1>6 DEF Assignments
<1> QED
  BY <1>2, <1>3, <1>5, <1>7 DEF Resolve

LEMMA ResolutionTyped ==
  ASSUME RunsOK, NEW revision \in Revisions, NEW p, PlanOK(p), NEW s \in StagesOf(revision),
         Agent(s), ~terminalStageState(p.stage[s].state)
  PROVE  Resolution(revision, p)[s] \in Assignments
<1>1. s \in Stages
  BY DEF StagesOf
<1> QED
  BY <1>1, ResolveTyped DEF Resolution, Agent

LEMMA AcceptanceTyped ==
  ASSUME NEW revision, NEW s, NEW x
  PROVE  stageAcceptance(revision, s, x) \in {"completed", "failed", None}
<1>1. reviewAcceptance(revision, s, x) \in {"completed", None}
  BY DEF reviewAcceptance
<1> QED
  BY <1>1 DEF stageAcceptance

LEMMA SubjectTyped ==
  ASSUME NEW inputs \in SUBSET Outputs
  PROVE  upstreamSubject(inputs) \in Outputs \cup {None}
<1>1. PICK candidates : candidates = {o \in inputs : o[2] # 0}
  OBVIOUS
<1>2. Cardinality(candidates) = 1 => candidates # {}
  BY FS_EmptySet
<1>3. candidates # {} => (CHOOSE o \in candidates : TRUE) \in candidates
  OBVIOUS
<1> QED
  BY <1>1, <1>2, <1>3 DEF upstreamSubject

LEMMA FreeTyped ==
  nextFreeRevision # None => nextFreeRevision \in Revisions
<1>1. PICK free : free = {n \in Revisions : n > pass.revision /\ n \notin store.revisions}
  OBVIOUS
<1>2. free \in SUBSET Nat
  BY <1>1 DEF Revisions
<1>3. free # {} => First(free) \in free
  BY <1>2, FirstLeast
<1> QED
  BY <1>1, <1>3 DEF nextFreeRevision, First

LEMMA CurrentStage ==
  ASSUME pass.i \in DOMAIN StageOrder
  PROVE  Current \in Stages /\ pass.i \in Nat /\ pass.i + 1 \in Nat
  BY Positions DEF Current

-----------------------------------------------------------------------------
(* How the pass follows the plan.                                           *)

PassOK == PlacedOK /\ SnapshotOK /\ ResolvedOK

LEMMA Parts ==
  PlanInv <=> CoreOK /\ RunsOK /\ OperatorOK /\ PassOK
  BY DEF PlanInv, CoreOK, PassOK

LEMMA SameIsEquivalence ==
  ASSUME NEW x, NEW y, NEW z
  PROVE  Same(x, x) /\ (Same(x, y) => Same(y, x)) /\ (Same(x, y) /\ Same(y, z) => Same(x, z))
  BY DEF Same

(* A pass that ends, by itself or in a crash, remembers nothing. *)
LEMMA IdlePass ==
  ASSUME pass' = Idle
  PROVE  PassOK'
<1>1. pass'.pc = "idle" /\ pass'.snapshot = EmptyStream /\ pass'.stale = {}
  BY DEF Idle
<1>2. PlacedOK'
  BY <1>1, EmptyIsPlan DEF PlacedOK, PassPcs, Starting, Answering
<1>3. SnapshotOK' /\ ResolvedOK'
  BY <1>1 DEF SnapshotOK, ResolvedOK, Settling, Starting
<1> QED
  BY <1>2, <1>3 DEF PassOK

(* Events that say nothing about stages leave the pass as good as it was. *)
LEMMA QuietPass ==
  ASSUME PassOK, pass' = pass, store' = store, SameStarts, Quiet(stream, stream')
  PROVE  PassOK'
<1>1. /\ \A s \in Stages : Same(stream.stage[s], stream'.stage[s])
      /\ Ruled(stream, stream') /\ Booked(stream, stream')
  BY DEF Quiet, Agree
<1>2. PlacedOK'
  BY <1>1 DEF PassOK, PlacedOK, Ruled, Booked, On, Current, nextFreeRevision
<1>3. SnapshotOK'
  <2>1. \A s \in Stages : Same(pass.snapshot.stage[s], stream.stage[s])
                            => Same(pass.snapshot.stage[s], stream'.stage[s])
    BY <1>1 DEF Same
  <2>2. pass.pc \in {"settling"} \cup Starting => Current \in Stages
    BY CurrentStage DEF PassOK, PlacedOK
  <2>3. ASSUME Agree(pass.snapshot, stream) PROVE Agree(pass.snapshot, stream)'
    BY <2>1, <2>3 DEF Agree
  <2>4. ASSUME pass.pc \in Settling
        PROVE  \A j \in DOMAIN StageOrder : j >= pass.i =>
                 Same(pass.snapshot.stage[StageOrder[j]], stream'.stage[StageOrder[j]])
    BY <2>1, <2>4, Positions DEF PassOK, SnapshotOK
  <2>5. ASSUME pass.pc = "invalidate"
        PROVE  \A s \in pass.stale :
                 /\ stream'.stage[s].state # "pending"
                 /\ stream'.stage[s].state = "invalidated" => stream'.stage[s].under # pass.revision
    BY <1>1, <2>5 DEF PassOK, SnapshotOK, PlacedOK, Same
  <2>6. ASSUME pass.pc \in Starting
        PROVE  /\ stream'.stage[Current].generation = GenerationOf(Performance)
               /\ pass.pc # "claim" => run'[Performance].disposition # "none"
               /\ pass.pc \in {"charge", "started"} =>
                    /\ \A s \in Stages \ {Current} : Same(pass.snapshot.stage[s], stream'.stage[s])
                    /\ stream'.stage[Current].state = "pending" /\ stream'.stage[Current].run = Performance
    BY <1>1, <2>1, <2>2, <2>6 DEF PassOK, SnapshotOK, Same, SameStarts, Starting
  <2>7. Current' = Current /\ Performance' = Performance
    BY DEF Current, Performance, Projection
  <2> QED
    BY <1>1, <2>3, <2>4, <2>5, <2>6, <2>7
    DEF PassOK, SnapshotOK, Ruled, Booked, startedRun, Starting
<1>4. ResolvedOK'
  <2>1. \A s \in Stages : stream'.stage[s].state = stream.stage[s].state
    BY <1>1 DEF Same
  <2> QED
    BY <2>1 DEF PassOK, ResolvedOK, Resolved, StagesOf
<1> QED
  BY <1>2, <1>3, <1>4 DEF PassOK

(* A pass that has given up the lock knows only what nobody can undo. *)
LEMMA UnlockedPass ==
  ASSUME PassOK, pass' = pass, pass.pc \in Unlocked,
         pass.pc = "planning" =>
           /\ pass.revision <= stream'.approved /\ On(pass.revision)'
           /\ stream'.charged = stream.charged
           /\ pass.revision = stream'.approved => Agree(pass.snapshot, stream')
  PROVE  PassOK'
<1>1. PlacedOK'
  BY DEF PassOK, PlacedOK, Unlocked, Starting, Answering, Current
<1>2. SnapshotOK'
  BY DEF SnapshotOK, Unlocked, Settling, Starting
<1>3. ResolvedOK'
  BY DEF PassOK, ResolvedOK, Resolved, Unlocked, Settling
<1> QED
  BY <1>1, <1>2, <1>3 DEF PassOK

(* The pass reaches the next stage of the loop. *)
LEMMA StagePass ==
  ASSUME pass'.pc = "stage", pass'.i \in Nat, pass'.stale \subseteq Stages,
         pass'.revision \in Revisions, pass'.revision = stream'.approved, On(pass.revision)',
         PlanOK(pass'.snapshot), Agree(pass'.snapshot, stream'),
         pass'.snapshot.charged = stream'.charged, Resolved(pass.snapshot)'
  PROVE  PassOK'
<1>1. stream'.approved <= stream'.approved
  BY DEF Revisions
<1>2. PlacedOK'
  BY <1>1 DEF PlacedOK, PassPcs, Unlocked, Starting, Answering
<1>3. SnapshotOK'
  BY DEF SnapshotOK, Settling, Starting
<1>4. ResolvedOK'
  BY DEF ResolvedOK, Settling
<1> QED
  BY <1>2, <1>3, <1>4 DEF PassOK

(* While a pass holds the lock no decision is under way. *)
LEMMA LockedPass ==
  ASSUME PlanInv, pass.pc \notin Unlocked
  PROVE  /\ operator.pc = "idle" /\ pass.revision = stream.approved
         /\ stream.approved \in Revisions /\ stream.approved # 0
         /\ pass.pc # "supersede" => On(stream.approved)
         /\ PlanOK(stream) /\ PlanOK(pass.snapshot) /\ pass.stale \subseteq Stages
         /\ CoreOK /\ RunsOK
<1>1. PlacedOK /\ OperatorOK /\ CoreOK /\ RunsOK
  BY DEF PlanInv, CoreOK
<1>2. pass.revision = stream.approved /\ pass.revision \in Revisions
  BY <1>1 DEF PlacedOK, Unlocked
<1>3. operator.pc = "idle"
  BY <1>1 DEF OperatorOK, Unlocked
<1>4. stream.approved # 0
  BY <1>2 DEF Revisions
<1> QED
  BY <1>1, <1>2, <1>3, <1>4 DEF PlacedOK, CoreOK, Unlocked

LEMMA OperatorRests ==
  ASSUME operator.pc = "idle", operator' = operator
  PROVE  OperatorOK'
  BY DEF OperatorOK

LEMMA RowsKept ==
  ASSUME RunsOK, run' = run, store' = store, stream'.approved = stream.approved
  PROVE  RunsOK' /\ SameStarts
  BY DEF RunsOK, startedRun, SameStarts

-----------------------------------------------------------------------------
(* Runs, operators and crashes.                                             *)

LEMMA PlanInvInit ==
  Init => PlanInv
<1> SUFFICES ASSUME Init PROVE PlanInv
  OBVIOUS
<1>1. PlanOK(stream) /\ stream = EmptyStream
  BY EmptyIsPlan DEF Init
<1>2. /\ stream.approved = 0 /\ stream.governed = {} /\ stream.announced = {}
      /\ stream.charged = {} /\ stream.superseded = {}
      /\ \A s \in Stages : stream.stage[s].state = "pending" /\ stream.stage[s].run = None
  BY <1>1 DEF EmptyStream, NewProjection
<1>3. \A r \in RunIds : run[r] = NoRun /\ ~startedRun(r)
  BY DEF Init, NoRun, startedRun
<1>4. RunsOK
  <2>1. NoRun \in Runs
    BY StreamAssumption DEF NoRun, Runs, Dispositions
  <2>2. run \in [RunIds -> Runs]
    BY <2>1 DEF Init
  <2>3. {1} \in SUBSET Revisions /\ store \in Stores
    BY StreamAssumption DEF Init, Stores, Revisions
  <2> QED
    BY <1>3, <2>2, <2>3 DEF RunsOK
<1>5. GovernedOK /\ AccountOK
  BY <1>2, <1>3 DEF GovernedOK, AccountOK
<1>6. EnvelopeOK
  BY <1>2, FS_EmptySet, EnvelopeAssumption DEF EnvelopeOK
<1>7. FirstOK
  BY <1>2, <1>3, RunParts DEF FirstOK
<1>8. OperatorOK
  BY DEF Init, OperatorOK, Decided
<1>9. PlacedOK /\ SnapshotOK /\ ResolvedOK
  <2>1. pass.pc = "idle" /\ pass.snapshot = EmptyStream /\ pass.stale = {}
    BY DEF Init, Idle
  <2> QED
    BY <2>1, EmptyIsPlan
    DEF PlacedOK, SnapshotOK, ResolvedOK, PassPcs, Settling, Starting, Answering
<1> QED
  BY <1>1, <1>4, <1>5, <1>6, <1>7, <1>8, <1>9 DEF PlanInv

LEMMA QuietIsReflexive ==
  ASSUME NEW p
  PROVE  Quiet(p, p) /\ Agree(p, p)
  BY DEF Quiet, Agree, Same, Ruled, Booked

LEMMA OneRow ==
  ASSUME RunsOK, NEW r \in RunIds, NEW x \in Runs, run' = [run EXCEPT ![r] = x],
         x.disposition # "none" <=> startedRun(r),
         store' = store, stream'.approved = stream.approved
  PROVE  RunsOK' /\ SameStarts
<1>1. run \in [RunIds -> Runs]
  BY DEF RunsOK
<1>2. run' \in [RunIds -> Runs] /\ SameStarts
  BY <1>1 DEF SameStarts, startedRun
<1> QED
  BY <1>1, <1>2 DEF RunsOK, SameStarts, startedRun

(* A step of a run, with or without an event that says nothing about        *)
(* stages, is nothing to the pass.                                          *)
LEMMA QuietStep ==
  ASSUME PlanInv, RunsOK', SameStarts, PlanOK(stream'), Quiet(stream, stream'),
         store' = store, pass' = pass, operator' = operator
  PROVE  PlanInv'
<1>1. CoreOK /\ PassOK /\ OperatorOK
  BY Parts
<1>2. CoreOK' /\ PassOK'
  BY <1>1, QuietCore, QuietPass
<1>3. OperatorOK'
  BY <1>1 DEF OperatorOK, Quiet, Ruled
<1> QED
  BY <1>2, <1>3 DEF PlanInv, CoreOK, PassOK

LEMMA RunMoves ==
  ASSUME PlanInv, NEW r \in RunIds, NEW x \in Runs, Becomes(r, x),
         startedRun(r), x.disposition # "none"
  PROVE  PlanInv'
<1>1. PlanOK(stream) /\ RunsOK
  BY DEF PlanInv
<1>2. RunsOK' /\ SameStarts
  BY <1>1, OneRow DEF Becomes
<1> QED
  BY <1>1, <1>2, QuietIsReflexive, QuietStep DEF Becomes

LEMMA RunStepKeeps ==
  ASSUME PlanInv, RunStep
  PROVE  PlanInv'
<1>1. PICK r \in RunIds :
        \/ Commit(r) \/ ReachGoal(r) \/ Resume(r) \/ Merge(r) \/ FailReview(r) \/ Stop(r)
        \/ CheckVerdict(r) \/ AppendVerdict(r)
  BY DEF RunStep
<1>2. /\ RunsOK /\ PlanOK(stream) /\ run[r] \in Runs /\ run[r].head \in 0 .. MaxHead
      /\ run[r].invocations \in Nat /\ run[r].admitting \in Reviews \cup {None}
      /\ store.frozen[r] \in Assignments \cup {None} /\ StageOf(r) \in Stages
  BY RowTypes, RunParts DEF PlanInv
<1>3. CASE Commit(r)
  <2>1. PICK h, n : h = run[r].head + 1 /\ n = run[r].invocations + 1
    OBVIOUS
  <2>2. h \in 0 .. MaxHead /\ n \in Nat /\ startedRun(r) /\ run[r].disposition = "active"
    BY <1>2, <1>3, <2>1, StreamAssumption DEF Commit, startedRun
  <2>3. PICK x : x = [run[r] EXCEPT !.head = h, !.assured = FALSE, !.invocations = n]
    OBVIOUS
  <2>4. x \in Runs /\ x.disposition = "active"
    BY <1>2, <2>2, <2>3 DEF Runs
  <2>5. Becomes(r, x)
    BY <1>2, <1>3, <2>1, <2>3 DEF Commit, Runs
  <2> QED
    BY <2>2, <2>4, <2>5, RunMoves
<1>4. CASE ReachGoal(r)
  <2>1. PICK proved \in {run[r].assured, Kind[StageOf(r)] = "producer"} :
          Becomes(r, [run[r] EXCEPT !.disposition = "goal", !.assured = proved])
    BY <1>4 DEF ReachGoal
  <2>2. PICK x : x = [run[r] EXCEPT !.disposition = "goal", !.assured = proved]
    OBVIOUS
  <2>3. proved \in BOOLEAN
    BY <1>2 DEF Runs
  <2>4. x \in Runs /\ x.disposition = "goal"
    BY <1>2, <2>2, <2>3 DEF Runs, Dispositions
  <2> QED
    BY <1>4, <2>1, <2>2, <2>4, RunMoves DEF ReachGoal, startedRun
<1>5. CASE Resume(r)
  <2>1. PICK x : x = [run[r] EXCEPT !.disposition = "active"]
    OBVIOUS
  <2>2. x \in Runs /\ x.disposition = "active"
    BY <1>2, <2>1 DEF Runs, Dispositions
  <2> QED
    BY <1>5, <2>1, <2>2, RunMoves DEF Resume, startedRun
<1>6. CASE Merge(r) \/ FailReview(r) \/ Stop(r)
  <2>1. PICK to \in {"completed", "failed", "cancelled"} :
          Becomes(r, [run[r] EXCEPT !.disposition = to])
    BY <1>6 DEF Merge, FailReview, Stop, Ends
  <2>2. startedRun(r)
    BY <1>6 DEF Merge, FailReview, Stop, Ends, startedRun
  <2>3. PICK x : x = [run[r] EXCEPT !.disposition = to]
    OBVIOUS
  <2>4. x \in Runs /\ x.disposition = to
    BY <1>2, <2>3 DEF Runs, Dispositions
  <2> QED
    BY <2>1, <2>2, <2>3, <2>4, RunMoves
<1>7. CASE CheckVerdict(r)
  <2>1. startedRun(r) /\ run[r].disposition = "active"
    BY <1>7 DEF CheckVerdict, startedRun
  <2>2. store.frozen[r] \in Assignments
    BY <1>2, <2>1 DEF RunsOK
  <2>3. PICK subject : subject = upstreamSubject(store.frozen[r].inputs)
    OBVIOUS
  <2>4. subject \in Outputs \cup {None}
    BY <2>2, <2>3, SubjectTyped DEF Assignments
  <2>5. PICK verdict \in {"accepted", "blocked"} :
          Becomes(r, [run[r] EXCEPT !.invocations = 1,
                        !.admitting = [verdict |-> verdict, by |-> r, of |-> subject]])
    BY <1>7, <2>3 DEF CheckVerdict
  <2>6. PICK review : review = [verdict |-> verdict, by |-> r, of |-> subject]
    OBVIOUS
  <2>7. review \in Reviews
    BY <1>7, <2>3, <2>4, <2>6 DEF Reviews, CheckVerdict
  <2>8. PICK x : x = [run[r] EXCEPT !.invocations = 1, !.admitting = review]
    OBVIOUS
  <2>9. x \in Runs /\ x.disposition = "active"
    BY <1>2, <2>1, <2>7, <2>8 DEF Runs
  <2> QED
    BY <2>1, <2>5, <2>6, <2>8, <2>9, RunMoves
<1>8. CASE AppendVerdict(r)
  <2>1. run[r].admitting \in Reviews
    BY <1>2, <1>8 DEF AppendVerdict
  <2>2. PICK x : x = [run[r] EXCEPT !.admitting = None]
    OBVIOUS
  <2>3. x \in Runs /\ x.disposition = run[r].disposition
    BY <1>2, <2>2 DEF Runs
  <2>4. run' = [run EXCEPT ![r] = x]
    BY <1>8, <2>2 DEF AppendVerdict
  <2>5. PlanOK(stream') /\ Quiet(stream, stream')
    BY <1>2, <1>8, <2>1, AfterReviewed DEF AppendVerdict, Quiet
  <2>6. RunsOK' /\ SameStarts
    <3>1. store' = store
      BY <1>8 DEF AppendVerdict
    <3>2. stream'.approved = stream.approved
      BY <2>5 DEF Quiet, Ruled
    <3>3. x.disposition # "none" <=> startedRun(r)
      BY <2>3 DEF startedRun
    <3> QED
      BY <1>2, <2>3, <2>4, <3>1, <3>2, <3>3, OneRow
  <2> QED
    BY <1>8, <2>5, <2>6, QuietStep DEF AppendVerdict
<1> QED
  BY <1>1, <1>3, <1>4, <1>5, <1>6, <1>7, <1>8

LEMMA CrashKeeps ==
  ASSUME PlanInv, Crash
  PROVE  PlanInv'
<1>1. CoreOK /\ RunsOK /\ PlanOK(stream)
  BY Parts DEF PlanInv
<1>2. \A r \in RunIds : run[r] \in Runs
  BY <1>1 DEF RunsOK
<1>3. \A r \in RunIds : /\ [run[r] EXCEPT !.admitting = None] \in Runs
                        /\ [run[r] EXCEPT !.admitting = None].disposition = run[r].disposition
  BY <1>2 DEF Runs
<1>4. run' \in [RunIds -> Runs] /\ SameStarts
  BY <1>3 DEF Crash, SameStarts, startedRun
<1>5. RunsOK'
  BY <1>1, <1>4 DEF Crash, RunsOK, SameStarts, startedRun
<1>6. CoreOK'
  BY <1>1, <1>4, QuietIsReflexive, QuietCore DEF Crash
<1>7. PassOK' /\ OperatorOK'
  BY IdlePass DEF Crash, OperatorOK, Decided
<1> QED
  BY <1>5, <1>6, <1>7 DEF PlanInv, CoreOK, PassOK

LEMMA ProposeKeeps ==
  ASSUME PlanInv, NEW revision \in Revisions, Propose(revision)
  PROVE  PlanInv'
<1>1. CoreOK /\ RunsOK /\ PassOK /\ PlanOK(stream)
  BY Parts DEF PlanInv
<1>2. pass.pc \in Unlocked
  BY DEF Propose, Locked, Unlocked
<1>3. RunsOK' /\ SameStarts
  BY <1>1 DEF Propose, RunsOK, Stores, startedRun, SameStarts
<1>4. CoreOK'
  BY <1>1, <1>3, QuietIsReflexive, QuietCore DEF Propose
<1>5. PassOK'
  BY <1>1, <1>2, UnlockedPass DEF Propose, PassOK, PlacedOK, SnapshotOK, On
<1>6. OperatorOK'
  BY <1>2 DEF Propose, OperatorOK, Decided, Unlocked
<1> QED
  BY <1>3, <1>4, <1>5, <1>6 DEF PlanInv, CoreOK, PassOK

LEMMA StoreContractKeeps ==
  ASSUME PlanInv, StoreContract
  PROVE  PlanInv'
<1>1. CoreOK /\ RunsOK /\ PassOK /\ OperatorOK /\ PlanOK(stream)
  BY Parts DEF PlanInv
<1>2. pass.pc \in Unlocked /\ operator.revision \in Revisions
  BY <1>1 DEF StoreContract, OperatorOK, Unlocked
<1>3. RunsOK' /\ SameStarts
  BY <1>1, <1>2 DEF StoreContract, RunsOK, Stores, startedRun, SameStarts
<1>4. CoreOK'
  BY <1>1, <1>3, QuietIsReflexive, QuietCore DEF StoreContract
<1>5. PassOK'
  BY <1>1, <1>2, UnlockedPass DEF StoreContract, PassOK, PlacedOK, SnapshotOK, On
<1>6. OperatorOK'
  BY DEF StoreContract, OperatorOK, Decided
<1> QED
  BY <1>3, <1>4, <1>5, <1>6 DEF PlanInv, CoreOK, PassOK

LEMMA ApproveKeeps ==
  ASSUME PlanInv, NEW revision \in Revisions, Approve(revision)
  PROVE  PlanInv'
<1>1. CoreOK /\ RunsOK /\ PassOK /\ PlanOK(stream) /\ GovernedOK
  BY Parts DEF PlanInv
<1>2. pass.pc \in Unlocked /\ revision > stream.approved
  BY DEF Approve, Locked, Unlocked
<1>3. /\ stream'.approved = revision /\ stream'.governed = stream.governed \cup {revision}
      /\ stream'.superseded = stream.superseded /\ stream'.charged = stream.charged
  BY <1>1, <1>2, AfterApproved DEF Approve, Booked
<1>4. /\ stream.approved \in Nat /\ revision \in Nat /\ \A r \in RunIds : RevisionOf(r) \in Nat
      /\ \A n \in stream.governed : n \in Nat
  BY <1>1, StreamFields, RunParts DEF PlanOK, Revisions
<1>5. RunsOK' /\ SameStarts
  BY <1>1, <1>2, <1>3, <1>4 DEF Approve, RunsOK, startedRun, SameStarts
<1>6. CoreOK'
  BY <1>1, <1>2, <1>5, ApproveCore DEF Approve
<1>7. PassOK'
  <2>1. pass.pc = "planning" =>
          pass.revision \in Nat /\ pass.revision <= stream.approved /\ On(pass.revision)
    BY <1>1 DEF PassOK, PlacedOK, Revisions
  <2>2. pass' = pass
    BY DEF Approve
  <2>3. pass.pc = "planning" => pass.revision < stream'.approved
    BY <1>2, <1>3, <1>4, <2>1
  <2>4. pass.pc = "planning" => On(pass.revision)'
    BY <1>2, <1>3, <1>4, <2>1, <2>2 DEF On
  <2>5. pass.pc = "planning" => pass.revision <= stream'.approved /\ pass.revision # stream'.approved
    BY <1>3, <1>4, <2>1, <2>3
  <2> QED
    BY <1>1, <1>2, <1>3, <2>2, <2>4, <2>5, UnlockedPass
<1>8. OperatorOK'
  <2>1. CASE stream.approved = 0
    BY <2>1 DEF Approve, OperatorOK, Decided
  <2>2. CASE stream.approved # 0
    <3>1. /\ operator'.pc = "supersede" /\ operator'.revision = revision
          /\ operator'.invalidated = InvalidatedStages(stream.approved, revision, stream)
          /\ pass' = pass
      BY <2>2 DEF Approve
    <3>2. operator'.invalidated \subseteq Stages
      BY <3>1, InvalidatedAreStages
    <3>3. stream.approved \in stream'.governed /\ stream.approved < stream'.approved
      BY <1>1, <1>2, <1>3, <1>4, <2>2 DEF GovernedOK
    <3>4. pass.pc = "planning" => pass.revision # stream'.approved
      BY <1>1, <1>2, <1>3, <1>4 DEF PassOK, PlacedOK, Revisions
    <3> QED
      BY <1>2, <1>3, <3>1, <3>2, <3>3, <3>4 DEF OperatorOK, Unlocked
  <2> QED
    BY <2>1, <2>2
<1> QED
  BY <1>5, <1>6, <1>7, <1>8 DEF PlanInv, CoreOK, PassOK

LEMMA AppendSupersededKeeps ==
  ASSUME PlanInv, AppendSuperseded
  PROVE  PlanInv'
<1>1. CoreOK /\ RunsOK /\ PassOK /\ OperatorOK /\ PlanOK(stream)
  BY Parts DEF PlanInv
<1>2. /\ operator.revision = stream.approved /\ operator.revision \in Revisions
      /\ operator.invalidated \subseteq Stages /\ pass.pc \in Unlocked
      /\ \E n \in stream.governed : n < stream.approved
      /\ pass.pc = "planning" => pass.revision # stream.approved
  BY <1>1 DEF AppendSuperseded, OperatorOK, Unlocked
<1>3. /\ stream'.approved = stream.approved /\ stream'.governed = stream.governed
      /\ stream'.superseded = stream.superseded \cup {operator.revision}
      /\ stream'.charged = stream.charged
  BY <1>1, <1>2, AfterSuperseded DEF AppendSuperseded
<1>4. RunsOK' /\ SameStarts
  BY <1>1, <1>3, RowsKept DEF AppendSuperseded
<1>5. CoreOK'
  <2>1. stream.approved # 0
    BY <1>2 DEF Revisions
  <2> QED
    BY <1>1, <1>2, <1>4, <2>1, SupersedeCore DEF AppendSuperseded
<1>6. PassOK'
  BY <1>1, <1>2, <1>3, UnlockedPass DEF AppendSuperseded, PassOK, PlacedOK, On
<1>7. OperatorOK'
  BY DEF AppendSuperseded, OperatorOK, Decided
<1> QED
  BY <1>4, <1>5, <1>6, <1>7 DEF PlanInv, CoreOK, PassOK

LEMMA RejectKeeps ==
  ASSUME PlanInv, NEW revision \in Revisions, Reject(revision)
  PROVE  PlanInv'
<1>1. RunsOK /\ PlanOK(stream)
  BY DEF PlanInv
<1>2. PlanOK(stream') /\ Quiet(stream, stream')
  BY <1>1, AfterRejected DEF Reject
<1>3. RunsOK' /\ SameStarts
  BY <1>1, <1>2, RowsKept DEF Reject, Quiet, Ruled
<1> QED
  BY <1>2, <1>3, QuietStep DEF Reject

-----------------------------------------------------------------------------
(* The pass up to the stage loop.                                           *)

(* With every supersession on record the governing revision is the first    *)
(* or is known to have replaced another.                                    *)
LEMMA NothingMissing ==
  ASSUME PlanInv, NEW p, p.governed = stream.governed, MissingSupersessions(p) = {},
         stream.approved # 0
  PROVE  On(stream.approved)
<1>1. stream.approved \in stream.governed /\ \A n \in stream.governed : n \in Nat
  BY StreamFields DEF PlanInv, PlanOK, GovernedOK, Revisions
<1> QED
  BY <1>1 DEF MissingSupersessions, On

LEMMA PrepareKeeps ==
  ASSUME PlanInv, operator.pc = "idle", stream.approved # 0, On(stream.approved),
         Prepare(stream.approved, stream), stream' = stream, store' = store, operator' = operator
  PROVE  PlanInv'
<1>1. CoreOK /\ RunsOK /\ PlanOK(stream)
  BY Parts DEF PlanInv
<1>2. stream.approved \in Revisions /\ stream.approved <= stream.approved
  BY <1>1, StreamFields, StreamAssumption DEF PlanOK, Revisions
<1>3. ASSUME NEW r \in RunIds
      PROVE  LET x == deliverBlockingReviews(stream.approved, stream, r)
             IN  x \in Runs /\ x.disposition = run[r].disposition
  <2>1. run[r] \in Runs /\ run[r].head \in 0 .. MaxHead
    BY <1>1, RowTypes
  <2>2. [run[r] EXCEPT !.blocked = run[r].head] \in Runs
    BY <2>1 DEF Runs
  <2>3. [run[r] EXCEPT !.blocked = run[r].head].disposition = run[r].disposition
    BY <2>1 DEF Runs
  <2> QED
    BY <2>1, <2>2, <2>3 DEF deliverBlockingReviews
<1>4. run' \in [RunIds -> Runs] /\ SameStarts
  BY <1>3 DEF Prepare, SameStarts, startedRun
<1>5. RunsOK'
  BY <1>1, <1>4 DEF RunsOK, SameStarts, startedRun
<1>6. CoreOK'
  BY <1>1, <1>4, QuietIsReflexive, QuietCore
<1>7. /\ pass'.pc = "settle" /\ pass'.i = 1 /\ pass'.revision = stream.approved
      /\ pass'.snapshot = stream /\ pass'.resolved = Resolution(stream.approved, stream)
      /\ pass'.outcome = None /\ pass'.stale = {}
  BY DEF Prepare, Idle
<1>8. PlacedOK'
  BY <1>1, <1>2, <1>7 DEF PlacedOK, PassPcs, Unlocked, Starting, Answering, On
<1>9. SnapshotOK'
  BY <1>7, QuietIsReflexive, Positions DEF SnapshotOK, Settling, Starting, Agree
<1>10. ResolvedOK'
  BY <1>1, <1>2, <1>7, ResolutionTyped DEF ResolvedOK, Resolved, Settling
<1> QED
  BY <1>5, <1>6, <1>8, <1>9, <1>10, OperatorRests DEF PlanInv, CoreOK

LEMMA BeginPassKeeps ==
  ASSUME PlanInv, BeginPass
  PROVE  PlanInv'
<1>1. CoreOK /\ RunsOK /\ PlanOK(stream) /\ operator.pc = "idle"
  BY Parts DEF PlanInv, BeginPass, Locked
<1>2. CASE MissingSupersessions(stream) = {}
  BY <1>1, <1>2, NothingMissing, PrepareKeeps DEF BeginPass
<1>3. CASE MissingSupersessions(stream) # {}
  <2>1. /\ pass'.pc = "supersede" /\ pass'.revision = stream.approved /\ pass'.snapshot = stream
        /\ pass'.stale = {} /\ run' = run /\ stream' = stream /\ store' = store
        /\ operator' = operator /\ stream.approved # 0
    BY <1>3 DEF BeginPass, Idle
  <2>2. stream.approved \in Revisions /\ stream.approved <= stream.approved
    BY <1>1, <2>1, StreamFields, StreamAssumption DEF PlanOK, Revisions
  <2>3. RunsOK' /\ SameStarts
    BY <1>1, <2>1, RowsKept
  <2>4. CoreOK'
    BY <1>1, <2>1, <2>3, QuietIsReflexive, QuietCore
  <2>5. PlacedOK'
    BY <1>1, <2>1, <2>2 DEF PlacedOK, PassPcs, Unlocked, Starting, Answering
  <2>6. SnapshotOK' /\ ResolvedOK'
    BY <2>1 DEF SnapshotOK, ResolvedOK, Settling, Starting
  <2> QED
    BY <1>1, <2>1, <2>3, <2>4, <2>5, <2>6, OperatorRests DEF PlanInv, CoreOK
<1> QED
  BY <1>2, <1>3

LEMMA recordMissingSupersessionKeeps ==
  ASSUME PlanInv, recordMissingSupersession
  PROVE  PlanInv'
<1>0. pass.pc = "supersede" /\ pass.pc \notin Unlocked
  BY DEF recordMissingSupersession, At, Unlocked
<1>1. /\ CoreOK /\ RunsOK /\ PlanOK(stream) /\ operator.pc = "idle" /\ stream.approved # 0
      /\ pass.revision = stream.approved /\ pass.snapshot.governed = stream.governed
      /\ GovernedOK /\ PlacedOK
  BY <1>0, LockedPass DEF PlacedOK, PlanInv
<1>2. CASE MissingSupersessions(pass.snapshot) = {}
  <2>1. On(stream.approved)
    BY <1>1, <1>2, NothingMissing
  <2>2. /\ Prepare(stream.approved, stream) /\ stream' = stream /\ store' = store
        /\ operator' = operator
    BY <1>1, <1>2 DEF recordMissingSupersession
  <2> QED
    BY <1>1, <2>1, <2>2, PrepareKeeps
<1>3. CASE MissingSupersessions(pass.snapshot) # {}
  <2>1. PICK missing : missing = MissingSupersessions(pass.snapshot)
    OBVIOUS
  <2>2. PICK to : to = First(missing)
    OBVIOUS
  <2>3. PICK from, I :
          /\ I = InvalidatedStages(from, to, pass.snapshot)
          /\ stream' = Superseded(stream, to, I)
          /\ run' = run /\ pass' = pass /\ store' = store /\ operator' = operator
    BY <1>3, <2>1, <2>2 DEF recordMissingSupersession
  <2>4. stream.governed \subseteq Revisions /\ stream.approved \in Nat
    BY <1>1, StreamFields DEF PlanOK
  <2>5. missing \in SUBSET Nat /\ missing # {}
    BY <1>1, <1>3, <2>1, <2>4 DEF MissingSupersessions, Revisions
  <2>6. to \in stream.governed /\ to \in Revisions /\ \E n \in stream.governed : n < to
    BY <1>1, <2>1, <2>2, <2>4, <2>5, FirstLeast DEF MissingSupersessions
  <2>7. \E n \in stream.governed : n < stream.approved
    BY <1>1, <2>4, <2>6 DEF GovernedOK, Revisions
  <2>8. I \in SUBSET Stages
    BY <2>3, InvalidatedAreStages
  <2>9. /\ stream'.approved = stream.approved /\ stream'.governed = stream.governed
        /\ stream'.charged = stream.charged
    BY <1>1, <2>3, <2>6, <2>8, AfterSuperseded
  <2>10. RunsOK' /\ SameStarts
    BY <1>1, <2>3, <2>9, RowsKept
  <2>11. CoreOK'
    BY <1>1, <2>3, <2>6, <2>7, <2>8, <2>10, SupersedeCore
  <2>12. PlacedOK'
    BY <1>0, <1>1, <2>3, <2>9 DEF PlacedOK, Unlocked, Starting, Answering
  <2>13. SnapshotOK' /\ ResolvedOK'
    BY <1>0, <2>3 DEF SnapshotOK, ResolvedOK, Settling, Starting
  <2> QED
    BY <1>1, <2>3, <2>10, <2>11, <2>12, <2>13, OperatorRests DEF PlanInv, CoreOK
<1> QED
  BY <1>2, <1>3

-----------------------------------------------------------------------------
(* The pass's locals: which of them a step changes.                         *)

Whole ==
  pass = [pc |-> pass.pc, revision |-> pass.revision, i |-> pass.i, snapshot |-> pass.snapshot,
          resolved |-> pass.resolved, awaiting |-> pass.awaiting, outcome |-> pass.outcome,
          stale |-> pass.stale]

LEMMA WholeInit == Init => Whole
  BY DEF Init, Idle, Whole

LEMMA WholeKept ==
  ASSUME Whole, [Next]_vars
  PROVE  Whole'
<1>1. ASSUME pass' = Idle PROVE Whole'
  BY <1>1 DEF Whole, Idle
<1>2. ASSUME pass' = pass PROVE Whole'
  BY <1>2 DEF Whole
<1>3. ASSUME NEW revision, NEW p, Prepare(revision, p) PROVE Whole'
  BY <1>3 DEF Prepare, Whole, Idle
<1>4. CASE BeginPass
  BY <1>3, <1>4 DEF BeginPass, Whole, Idle
<1>5. CASE recordMissingSupersession
  BY <1>2, <1>3, <1>5 DEF recordMissingSupersession
<1>6. CASE settleFinishedStages
  BY <1>6 DEF settleFinishedStages, Whole
<1>7. CASE AppendSettled
  BY <1>7 DEF AppendSettled, Whole
<1>8. CASE invalidateStaleCompletedStages
  BY <1>8 DEF invalidateStaleCompletedStages, Whole
<1>9. CASE Upkeep
  BY <1>9 DEF Upkeep, Whole
<1>10. CASE AdvanceStage
  BY <1>1, <1>10 DEF AdvanceStage, Whole
<1>11. ASSUME NEW p, NextStage(p) PROVE Whole'
  BY <1>11 DEF NextStage, Whole
<1>12. ASSUME Skip PROVE Whole'
  BY <1>12 DEF Skip, Whole
<1>13. ASSUME NEW pc, Goto(pc) PROVE Whole'
  BY <1>13 DEF Goto, Whole
<1>14. CASE gateSatisfaction
  BY <1>11, <1>12, <1>14 DEF gateSatisfaction
<1>15. CASE BlockStage \/ InvalidateOrphan \/ AppendRunStarted \/ BlockPlanner
  BY <1>11, <1>12, <1>15 DEF BlockStage, InvalidateOrphan, AppendRunStarted, BlockPlanner
<1>16. CASE FreezeAssignment \/ ClaimRun \/ AppendAssigned \/ AppendChildRun \/ InvokePlanner
            \/ PlannerRefused \/ PlannerProposed \/ StoreProposedRevision \/ StoreProposedContract
  BY <1>13, <1>16
  DEF FreezeAssignment, ClaimRun, AppendAssigned, AppendChildRun, InvokePlanner,
      PlannerRefused, PlannerProposed, StoreProposedRevision, StoreProposedContract
<1>17. CASE PlannerDropped
  BY <1>1, <1>17 DEF PlannerDropped, Whole
<1>18. CASE SettlePlanner
  BY <1>18 DEF SettlePlanner, Whole
<1>19. CASE OperatorStep \/ FinishDecision
  BY <1>2, <1>19 DEF OperatorStep, FinishDecision, Propose, Approve, Reject, StoreContract, AppendSuperseded
<1>20. CASE RunStep
  BY <1>2, <1>20
  DEF RunStep, Commit, ReachGoal, Resume, Merge, FailReview, Stop, Ends, CheckVerdict, AppendVerdict, Becomes
<1>21. CASE Crash
  BY <1>1, <1>21 DEF Crash
<1>22. CASE UNCHANGED vars
  BY <1>2, <1>22 DEF vars
<1> QED
  BY <1>4, <1>5, <1>6, <1>7, <1>8, <1>9, <1>10, <1>14, <1>15, <1>16, <1>17, <1>18, <1>19, <1>20,
     <1>21, <1>22 DEF Next, PassStep

LEMMA GotoFields ==
  ASSUME Whole, NEW pc, Goto(pc)
  PROVE  /\ pass'.pc = pc /\ pass'.i = pass.i /\ pass'.revision = pass.revision
         /\ pass'.snapshot = pass.snapshot /\ pass'.resolved = pass.resolved
         /\ pass'.outcome = pass.outcome /\ pass'.stale = pass.stale
  BY DEF Whole, Goto

LEMMA NextStageFields ==
  ASSUME Whole, NEW p, NextStage(p)
  PROVE  /\ pass'.pc = "stage" /\ pass'.i = pass.i + 1 /\ pass'.revision = pass.revision
         /\ pass'.snapshot = p /\ pass'.resolved = pass.resolved /\ pass'.stale = pass.stale
  BY DEF Whole, NextStage

LEMMA SkipFields ==
  ASSUME Whole, Skip
  PROVE  /\ pass'.pc = "stage" /\ pass'.i = pass.i + 1 /\ pass'.revision = pass.revision
         /\ pass'.snapshot = pass.snapshot /\ pass'.resolved = pass.resolved
         /\ pass'.stale = pass.stale
  BY DEF Whole, Skip

-----------------------------------------------------------------------------
(* Settling and invalidating.                                               *)

(* Settling: nothing is left to settle. *)
LEMMA SettledAllKeeps ==
  ASSUME PlanInv, pass.pc = "settle", NEW stale, NEW replayed,
         replayed = (IF pass.outcome = None THEN pass.snapshot ELSE stream),
         stale = StaleStages(pass.revision, replayed),
         pass'.pc = IF stale = {} THEN "upkeep" ELSE "invalidate",
         pass'.stale = stale, pass'.snapshot = replayed,
         pass'.revision = pass.revision, pass'.resolved = pass.resolved,
         UNCHANGED <<stream, run, store, operator>>
  PROVE  PlanInv'
<1>0. pass.pc \notin Unlocked /\ pass.pc \in Settling
  BY DEF Unlocked, Settling
<1>1. /\ CoreOK /\ RunsOK /\ PlanOK(stream) /\ PlanOK(pass.snapshot) /\ operator.pc = "idle"
      /\ pass.revision = stream.approved /\ stream.approved \in Revisions /\ On(stream.approved)
  BY <1>0, LockedPass
<1>2. PlacedOK /\ SnapshotOK /\ ResolvedOK
  BY DEF PlanInv
<1>3. PlanOK(replayed) /\ Agree(replayed, stream) /\ replayed.charged = stream.charged
  BY <1>1, <1>2, QuietIsReflexive DEF SnapshotOK, PlacedOK
<1>4. /\ stale \in SUBSET Stages
      /\ \A s \in stale : /\ replayed.stage[s].state # "pending"
                          /\ replayed.stage[s].state = "invalidated" => replayed.stage[s].under # pass.revision
  BY StaleAreStages
<1>5. \A s \in stale : /\ stream.stage[s].state # "pending"
                       /\ stream.stage[s].state = "invalidated" => stream.stage[s].under # pass.revision
  BY <1>3, <1>4 DEF Agree, Same
<1>6. pass'.pc \in {"upkeep", "invalidate"} /\ stream.approved <= stream.approved
  BY <1>1 DEF Revisions
<1>7. PlacedOK'
  BY <1>1, <1>3, <1>4, <1>6 DEF PlacedOK, PassPcs, Unlocked, Starting, Answering, On
<1>8. SnapshotOK'
  BY <1>3, <1>5, <1>6 DEF SnapshotOK, Settling, Starting
<1>9. ResolvedOK'
  BY <1>0, <1>2, <1>6 DEF ResolvedOK, Resolved, Settling
<1>10. RunsOK' /\ SameStarts
  BY <1>1, RowsKept
<1>11. CoreOK'
  BY <1>1, <1>10, QuietIsReflexive, QuietCore
<1> QED
  BY <1>1, <1>7, <1>8, <1>9, <1>10, <1>11, OperatorRests DEF PlanInv, CoreOK

LEMMA settleFinishedStagesKeeps ==
  ASSUME PlanInv, Whole, settleFinishedStages
  PROVE  PlanInv'
<1>1. PICK done : done = {i \in DOMAIN StageOrder : i >= pass.i /\ Outcome(i) # None}
  OBVIOUS
<1>0. pass.pc = "settle" /\ pass.pc \notin Unlocked
  BY DEF settleFinishedStages, At, Unlocked
<1>2. CASE done = {}
  <2>1. PICK replayed : replayed = (IF pass.outcome = None THEN pass.snapshot ELSE stream)
    OBVIOUS
  <2>2. PICK stale : stale = StaleStages(pass.revision, replayed)
    OBVIOUS
  <2>3. /\ pass' = [pass EXCEPT !.pc = IF stale = {} THEN "upkeep" ELSE "invalidate",
                       !.outcome = None, !.stale = stale, !.snapshot = replayed]
        /\ UNCHANGED <<stream, run, store, operator>>
    BY <1>1, <1>2, <2>1, <2>2 DEF settleFinishedStages
  <2>4. /\ pass'.pc = IF stale = {} THEN "upkeep" ELSE "invalidate"
        /\ pass'.stale = stale /\ pass'.snapshot = replayed
        /\ pass'.revision = pass.revision /\ pass'.resolved = pass.resolved
    BY <2>3 DEF Whole
  <2> QED
    BY <1>0, <2>1, <2>2, <2>3, <2>4, SettledAllKeeps
<1>3. CASE done # {}
  <2>1. PICK i : i = First(done)
    OBVIOUS
  <2>2. done \in SUBSET Nat
    BY <1>1, Positions
  <2>3. i \in DOMAIN StageOrder /\ i >= pass.i /\ Outcome(i) # None /\ i \in Nat
    BY <1>1, <1>3, <2>1, <2>2, FirstLeast
  <2>4. PICK s : s = StageOrder[i]
    OBVIOUS
  <2>5. s \in Stages /\ pass.snapshot.stage[s].state = "running" /\ Outcome(i) \in {"completed", "failed"}
    BY <2>3, <2>4, Positions, AcceptanceTyped DEF Outcome
  <2>6. PICK r, outcome :
          /\ r = pass.snapshot.stage[s].run
          /\ stream' = InvocationsCharged(stream, r, run[r].invocations)
          /\ outcome \in {"completed", "failed", "invalidated"}
          /\ pass' = [pass EXCEPT !.pc = "settling", !.i = i, !.outcome = outcome]
          /\ UNCHANGED <<run, store, operator>>
    BY <1>1, <1>3, <2>1, <2>4, <2>5 DEF settleFinishedStages
  <2>7. /\ CoreOK /\ RunsOK /\ PlanOK(stream) /\ PlanOK(pass.snapshot) /\ operator.pc = "idle"
        /\ pass.revision = stream.approved /\ stream.approved \in Revisions /\ On(stream.approved)
        /\ PlacedOK /\ SnapshotOK /\ ResolvedOK
    BY <1>0, LockedPass DEF PlanInv
  <2>8. r \in RunIds /\ run[r].invocations \in Nat
    BY <2>5, <2>6, <2>7, StreamFields, RowTypes DEF PlanOK
  <2>9. PlanOK(stream') /\ Quiet(stream, stream')
    BY <2>6, <2>7, <2>8, AfterSpent
  <2>10. /\ Ruled(stream, stream') /\ stream'.charged = stream.charged
         /\ \A t \in Stages : Same(stream.stage[t], stream'.stage[t])
    BY <2>9 DEF Quiet, Booked, Agree
  <2>11. /\ pass'.pc = "settling" /\ pass'.i = i /\ pass'.outcome = outcome /\ pass'.stale = pass.stale
         /\ pass'.snapshot = pass.snapshot /\ pass'.revision = pass.revision
         /\ pass'.resolved = pass.resolved
    BY <2>6 DEF Whole
  <2>12. RunsOK' /\ SameStarts
    BY <2>6, <2>7, <2>10, RowsKept DEF Ruled
  <2>13. CoreOK'
    BY <2>7, <2>9, <2>12, QuietCore
  <2>14. stream.approved <= stream.approved
    BY <2>7 DEF Revisions
  <2>15. PlacedOK'
    BY <1>0, <2>3, <2>7, <2>10, <2>11, <2>14
    DEF PlacedOK, PassPcs, Unlocked, Starting, Answering, On, Ruled
  <2>16. SnapshotOK'
    <3>1. ASSUME NEW j \in DOMAIN StageOrder, j >= i
          PROVE  Same(pass.snapshot.stage[StageOrder[j]], stream'.stage[StageOrder[j]])
      <4>1. j >= pass.i
        BY <1>0, <2>3, <2>7, <3>1, Positions DEF PlacedOK
      <4>2. Same(pass.snapshot.stage[StageOrder[j]], stream.stage[StageOrder[j]]) /\ StageOrder[j] \in Stages
        BY <1>0, <2>7, <4>1, Positions DEF SnapshotOK, Settling
      <4> QED
        BY <2>10, <4>2 DEF Same
    <3> QED
      BY <2>4, <2>5, <2>6, <2>11, <3>1 DEF SnapshotOK, Settling, Starting, Current
  <2>17. ResolvedOK'
    <3>1. \A t \in Stages : stream'.stage[t].state = stream.stage[t].state
      BY <2>10 DEF Same
    <3> QED
      BY <1>0, <2>7, <2>11, <3>1 DEF ResolvedOK, Resolved, Settling, StagesOf
  <2> QED
    BY <2>6, <2>7, <2>12, <2>13, <2>15, <2>16, <2>17, OperatorRests DEF PlanInv, CoreOK
<1> QED
  BY <1>2, <1>3

LEMMA AppendSettledKeeps ==
  ASSUME PlanInv, Whole, AppendSettled
  PROVE  PlanInv'
<1>0. pass.pc = "settling" /\ pass.pc \notin Unlocked /\ pass.pc \in Settling
  BY DEF AppendSettled, At, Unlocked, Settling
<1>1. /\ CoreOK /\ RunsOK /\ PlanOK(stream) /\ PlanOK(pass.snapshot) /\ operator.pc = "idle"
      /\ pass.revision = stream.approved /\ stream.approved \in Revisions /\ On(stream.approved)
      /\ stream.approved # 0 /\ PlacedOK /\ SnapshotOK /\ ResolvedOK
  BY <1>0, LockedPass DEF PlanInv
<1>2. /\ pass.i \in DOMAIN StageOrder /\ Current \in Stages /\ pass.i \in Nat /\ Current = StageOrder[pass.i]
      /\ pass.outcome \in {"completed", "failed", "invalidated"} /\ pass.outcome # None
      /\ pass.snapshot.stage[Current].state = "running"
  BY <1>0, <1>1, CurrentStage, StreamAssumption DEF PlacedOK, SnapshotOK, Current
<1>3. stream.stage[Current].state = "running" /\ stream.stage[Current].state \notin Restartable
  BY <1>0, <1>1, <1>2 DEF SnapshotOK, Same, Restartable
<1>4. /\ pass'.pc = "settle" /\ pass'.i = pass.i + 1 /\ pass'.outcome = pass.outcome
      /\ pass'.stale = pass.stale /\ pass'.snapshot = pass.snapshot
      /\ pass'.revision = pass.revision /\ pass'.resolved = pass.resolved
      /\ run' = run /\ store' = store /\ operator' = operator
  BY DEF AppendSettled, Whole
<1>5. /\ CoreOK' /\ RunsOK' /\ Ruled(stream, stream') /\ stream'.charged = stream.charged
      /\ Others(stream, stream', Current)
  <2>1. CASE pass.outcome = "invalidated"
    <3>1. MayPerformAgain(stream, Current) /\ stream' = Invalidated(stream, Current, stream.approved)
      BY <1>1, <2>1 DEF AppendSettled
    <3>2. Ruled(stream, stream') /\ stream'.charged = stream.charged /\ Others(stream, stream', Current)
      BY <1>1, <1>2, <3>1, AfterInvalidated
    <3>3. RunsOK' /\ SameStarts
      BY <1>1, <1>4, <3>2, RowsKept DEF Ruled
    <3>4. \A r \in RunIds : StageOf(r) = Current => ~Waiting(r)
      BY <1>3 DEF Waiting
    <3> QED
      BY <1>1, <1>2, <3>1, <3>2, <3>3, <3>4, InvalidateCore
  <2>2. CASE pass.outcome # "invalidated"
    <3>0. PICK s, o : s = Current /\ o = pass.outcome
      OBVIOUS
    <3>1. o \in {"completed", "failed"} /\ s \in Stages /\ stream' = Settled(stream, s, o)
      BY <1>2, <2>2, <3>0 DEF AppendSettled
    <3>a. LET q == Settled(stream, s, o)
          IN  /\ PlanOK(q) /\ Others(stream, q, s) /\ Ruled(stream, q) /\ Booked(stream, q)
              /\ q.stage[s].state = o /\ q.stage[s].run = stream.stage[s].run
              /\ q.stage[s].generation = stream.stage[s].generation
      BY <1>1, <3>1, AfterSettled
    <3>2. /\ PlanOK(stream') /\ Others(stream, stream', Current)
          /\ Ruled(stream, stream') /\ Booked(stream, stream')
          /\ stream'.stage[Current].run = stream.stage[Current].run
          /\ stream'.stage[Current].generation = stream.stage[Current].generation
          /\ stream'.stage[Current].state = o
      BY <3>0, <3>1, <3>a
    <3>3. RunsOK' /\ SameStarts
      BY <1>1, <1>4, <3>2, RowsKept DEF Ruled
    <3>4. stream'.stage[Current].state \notin Restartable
      BY <3>1, <3>2 DEF Restartable
    <3>5. CoreOK'
      BY <1>1, <1>2, <1>3, <3>2, <3>3, <3>4, SettleCore
    <3> QED
      BY <3>2, <3>3, <3>5 DEF Booked
  <2> QED
    BY <2>1, <2>2
<1>6. stream.approved <= stream.approved /\ pass.i + 1 \in Nat
  BY <1>1, <1>2 DEF Revisions
<1>7. PlacedOK'
  BY <1>0, <1>1, <1>4, <1>5, <1>6
  DEF PlacedOK, PassPcs, Unlocked, Starting, Answering, On, Ruled
<1>8. SnapshotOK'
  <2>1. ASSUME NEW j \in DOMAIN StageOrder, j >= pass.i + 1
        PROVE  Same(pass.snapshot.stage[StageOrder[j]], stream'.stage[StageOrder[j]])
    <3>1. j >= pass.i /\ j # pass.i
      BY <1>2, <2>1, Positions
    <3>2. StageOrder[j] \in Stages \ {Current}
      BY <1>2, <3>1, StreamAssumption, Positions
    <3> QED
      BY <1>0, <1>1, <1>5, <3>1, <3>2 DEF SnapshotOK, Others
  <2> QED
    BY <1>2, <1>4, <2>1 DEF SnapshotOK, Settling, Starting
<1>9. ResolvedOK'
  <2>1. ASSUME NEW s \in StagesOf(pass.revision), Agent(s), ~terminalStageState(stream'.stage[s].state)
        PROVE  pass.resolved[s] \in Assignments
    <3>1. s \in Stages
      BY DEF StagesOf
    <3>2. CASE s = Current
      BY <1>0, <1>1, <1>2, <2>1, <3>2 DEF ResolvedOK, Resolved, terminalStageState
    <3>3. CASE s # Current
      BY <1>0, <1>1, <1>5, <2>1, <3>1, <3>3 DEF ResolvedOK, Resolved, Others
    <3> QED
      BY <3>2, <3>3
  <2> QED
    BY <1>0, <1>1, <1>4, <2>1 DEF ResolvedOK, Resolved, Settling
<1> QED
  BY <1>1, <1>4, <1>5, <1>7, <1>8, <1>9, OperatorRests DEF PlanInv, CoreOK

(* A stage the sweep gives up is not one that waits for a run. *)
LEMMA invalidateStaleCompletedStagesKeeps ==
  ASSUME PlanInv, Whole, invalidateStaleCompletedStages
  PROVE  PlanInv'
<1>0. pass.pc = "invalidate" /\ pass.pc \notin Unlocked
  BY DEF invalidateStaleCompletedStages, At, Unlocked
<1>1. /\ CoreOK /\ RunsOK /\ PlanOK(stream) /\ PlanOK(pass.snapshot) /\ operator.pc = "idle"
      /\ pass.revision = stream.approved /\ stream.approved \in Revisions /\ On(stream.approved)
      /\ stream.approved # 0 /\ PlacedOK /\ SnapshotOK /\ pass.stale \subseteq Stages
  BY <1>0, LockedPass DEF PlanInv
<1>2. PICK s \in pass.stale :
        /\ MayPerformAgain(stream, s)
        /\ stream' = Invalidated(stream, s, pass.revision)
        /\ pass' = IF pass.stale # {s} THEN [pass EXCEPT !.stale = @ \ {s}]
                   ELSE [pass EXCEPT !.stale = {}, !.pc = "upkeep", !.snapshot = stream',
                           !.resolved = Resolution(pass.revision, stream')]
        /\ UNCHANGED <<run, store, operator>>
  BY DEF invalidateStaleCompletedStages
<1>3. s \in Stages
  BY <1>1, <1>2
<1>4. /\ PlanOK(stream') /\ Ruled(stream, stream') /\ stream'.charged = stream.charged
      /\ Others(stream, stream', s)
  BY <1>1, <1>2, <1>3, AfterInvalidated
<1>5. RunsOK' /\ SameStarts
  BY <1>1, <1>2, <1>4, RowsKept DEF Ruled
<1>6. CoreOK'
  <2>1. ASSUME stream.approved \notin stream.superseded, FirstGoverns,
               NEW r \in RunIds, startedRun(r), StageOf(r) = s
        PROVE  ~Waiting(r)
    <3>1. Agent(s)
      BY <1>1, <2>1 DEF RunsOK
    <3>2. stream.stage[s].state = "invalidated" => stream.stage[s].under = stream.approved
      BY <1>1, <1>3, <2>1, <3>1 DEF CoreOK, FirstOK
    <3>3. /\ stream.stage[s].state # "pending"
          /\ stream.stage[s].state = "invalidated" => stream.stage[s].under # stream.approved
      BY <1>0, <1>1, <1>2 DEF SnapshotOK
    <3> QED
      BY <2>1, <3>2, <3>3 DEF Waiting, Restartable
  <2> QED
    BY <1>1, <1>2, <1>3, <1>5, <2>1, InvalidateCore
<1>7. stream.approved <= stream.approved
  BY <1>1 DEF Revisions
<1>8. CASE pass.stale # {s}
  <2>1. /\ pass'.pc = "invalidate" /\ pass'.revision = pass.revision
        /\ pass'.snapshot = pass.snapshot /\ pass'.stale = pass.stale \ {s}
    BY <1>0, <1>2, <1>8 DEF Whole
  <2>2. PlacedOK'
    BY <1>0, <1>1, <1>4, <2>1 DEF PlacedOK, PassPcs, Unlocked, Starting, Answering, On, Ruled
  <2>3. SnapshotOK'
    BY <1>0, <1>1, <1>4, <2>1 DEF SnapshotOK, Settling, Starting, Others
  <2>4. ResolvedOK'
    BY <2>1 DEF ResolvedOK, Settling
  <2> QED
    BY <1>1, <1>2, <1>5, <1>6, <2>2, <2>3, <2>4, OperatorRests DEF PlanInv, CoreOK
<1>9. CASE pass.stale = {s}
  <2>1. /\ pass'.pc = "upkeep" /\ pass'.revision = pass.revision /\ pass'.stale = {}
        /\ pass'.snapshot = stream' /\ pass'.resolved = Resolution(pass.revision, stream')
    BY <1>2, <1>9 DEF Whole
  <2>2. PlacedOK'
    BY <1>0, <1>1, <1>4, <1>7, <2>1 DEF PlacedOK, PassPcs, Unlocked, Starting, Answering, On, Ruled
  <2>3. SnapshotOK'
    BY <2>1, QuietIsReflexive DEF SnapshotOK, Settling, Starting
  <2>4. ResolvedOK'
    BY <1>1, <1>4, <2>1, ResolutionTyped DEF ResolvedOK, Resolved, Settling
  <2> QED
    BY <1>1, <1>2, <1>5, <1>6, <2>2, <2>3, <2>4, OperatorRests DEF PlanInv, CoreOK
<1> QED
  BY <1>8, <1>9

LEMMA UpkeepKeeps ==
  ASSUME PlanInv, Whole, Upkeep
  PROVE  PlanInv'
<1>0. pass.pc = "upkeep" /\ pass.pc \notin Unlocked
  BY DEF Upkeep, At, Unlocked
<1>1. /\ CoreOK /\ RunsOK /\ PlanOK(stream) /\ PlanOK(pass.snapshot) /\ operator.pc = "idle"
      /\ pass.revision = stream.approved /\ stream.approved \in Revisions /\ On(stream.approved)
      /\ stream.approved # 0 /\ PlacedOK /\ SnapshotOK /\ ResolvedOK /\ pass.stale \subseteq Stages
  BY <1>0, LockedPass DEF PlanInv
<1>2. Agree(pass.snapshot, stream)
  BY <1>0, <1>1 DEF SnapshotOK
<1>3. PICK G : G = staleGates(pass.snapshot)
  OBVIOUS
<1>4. G \in SUBSET Stages /\ \A s \in G : Kind[s] = "gate"
  BY <1>1, <1>3 DEF staleGates, StagesOf, PlanOK
<1>5. PICK f, spent :
        /\ f = [s \in Stages |-> IF s \in G THEN [stream.stage[s] EXCEPT !.state = "invalidated"]
                                 ELSE stream.stage[s]]
        /\ spent = [r \in RunIds |-> attributeRunSpend(pass.snapshot, r)]
  OBVIOUS
<1>6. f \in [Stages -> Projections] /\ \A s \in Stages : f[s].run = stream.stage[s].run
  <2>1. \A s \in Stages : stream.stage[s] \in Projections
    BY <1>1, StreamFields DEF PlanOK
  <2>2. \A x \in Projections : /\ [x EXCEPT !.state = "invalidated"] \in Projections
                               /\ [x EXCEPT !.state = "invalidated"].run = x.run
    BY DEF Projections
  <2> QED
    BY <1>5, <2>1, <2>2
<1>7. spent \in [RunIds -> Nat]
  <2>1. \A r \in RunIds : run[r].invocations \in Nat /\ stream.spent[r] \in Nat
    BY <1>1, RowTypes, StreamFields DEF PlanOK
  <2>2. \A r \in RunIds : attributeRunSpend(pass.snapshot, r) \in Nat
    BY <2>1 DEF attributeRunSpend
  <2> QED
    BY <1>5, <2>2
<1>8. stream' = [stream EXCEPT !.stage = f, !.spent = spent]
  BY <1>1, <1>3, <1>5 DEF Upkeep, PlanOK, Streams
<1>9. /\ stream' \in Streams /\ stream'.stage = f /\ Ruled(stream, stream') /\ Booked(stream, stream')
  BY <1>1, <1>6, <1>7, <1>8 DEF PlanOK, Streams, Ruled, Booked
<1>10. \A s \in Stages \ G : stream'.stage[s] = stream.stage[s]
  BY <1>5, <1>9
<1>11. \A s \in G : stream'.stage[s].state = "invalidated"
  <2>1. \A x \in Projections : [x EXCEPT !.state = "invalidated"].state = "invalidated"
    BY DEF Projections
  <2> QED
    BY <1>1, <1>4, <1>5, <1>9, <2>1, StreamFields DEF PlanOK
<1>12. PlanOK(stream')
  BY <1>1, <1>4, <1>6, <1>9, <1>10, <1>11 DEF PlanOK
<1>13. run' \in [RunIds -> Runs] /\ SameStarts
  <2>1. \A r \in RunIds : run[r] \in Runs
    BY <1>1 DEF RunsOK
  <2>2. \A x \in Runs : /\ [x EXCEPT !.disposition = "cancelled"] \in Runs
                        /\ [x EXCEPT !.disposition = "cancelled"].disposition = "cancelled"
    BY DEF Runs, Dispositions
  <2>3. \A r \in RunIds : /\ stopRetiredRun(pass.snapshot, r) \in Runs
                          /\ stopRetiredRun(pass.snapshot, r).disposition # "none" <=> startedRun(r)
    BY <2>1, <2>2 DEF stopRetiredRun, open, startedRun
  <2> QED
    BY <2>3 DEF Upkeep, SameStarts
<1>14. RunsOK'
  BY <1>1, <1>9, <1>13 DEF Upkeep, RunsOK, SameStarts, startedRun, Ruled
<1>15. CoreOK'
  BY <1>1, <1>4, <1>6, <1>9, <1>10, <1>12, <1>13, ReopenCore
<1>16. /\ pass'.pc = "stage" /\ pass'.i = 1 /\ pass'.revision = pass.revision
       /\ pass'.resolved = pass.resolved /\ pass'.stale = pass.stale /\ operator' = operator
       /\ pass'.snapshot = (IF stream' = stream THEN pass.snapshot ELSE stream')
  BY DEF Upkeep, Whole
<1>17. /\ PlanOK(pass'.snapshot) /\ Agree(pass'.snapshot, stream')
       /\ pass'.snapshot.charged = stream'.charged
  BY <1>0, <1>1, <1>2, <1>9, <1>12, <1>16, QuietIsReflexive DEF PlacedOK
<1>18. Resolved(pass.snapshot)'
  <2>1. ASSUME NEW s \in StagesOf(pass.revision), Agent(s),
               ~terminalStageState(pass'.snapshot.stage[s].state)
        PROVE  pass.resolved[s] \in Assignments
    <3>1. s \in Stages \ G
      BY <1>4, <2>1 DEF StagesOf, Agent
    <3>2. pass'.snapshot.stage[s].state = pass.snapshot.stage[s].state
      BY <1>2, <1>10, <1>16, <3>1 DEF Agree, Same
    <3> QED
      BY <1>0, <1>1, <2>1, <3>2 DEF ResolvedOK, Resolved
  <2> QED
    BY <1>16, <2>1 DEF Resolved
<1>19. PassOK'
  BY <1>1, <1>9, <1>16, <1>17, <1>18, StagePass DEF On, Ruled
<1> QED
  BY <1>1, <1>14, <1>15, <1>16, <1>19, OperatorRests DEF PlanInv, CoreOK, PassOK

-----------------------------------------------------------------------------
(* The stage loop.  The snapshot agrees with the plan, up to verdicts.      *)

LEMMA InLoop ==
  ASSUME PlanInv, pass.pc \in {"stage", "claim", "assigned", "revise", "contract", "settlePlanner"}
  PROVE  /\ CoreOK /\ RunsOK /\ PlanOK(stream) /\ PlanOK(pass.snapshot) /\ operator.pc = "idle"
         /\ pass.revision = stream.approved /\ stream.approved \in Revisions /\ On(stream.approved)
         /\ stream.approved # 0 /\ stream.approved <= stream.approved /\ pass.stale \subseteq Stages
         /\ Agree(pass.snapshot, stream) /\ Resolved(pass.snapshot)
         /\ pass.snapshot.charged = stream.charged
<1>1. pass.pc \notin Unlocked
  BY DEF Unlocked
<1>2. PlacedOK /\ SnapshotOK /\ ResolvedOK
  BY DEF PlanInv
<1>3. Agree(pass.snapshot, stream) /\ Resolved(pass.snapshot) /\ pass.snapshot.charged = stream.charged
  BY <1>2 DEF PlacedOK, SnapshotOK, ResolvedOK
<1>4. stream.approved <= stream.approved
  BY <1>1, LockedPass DEF Revisions
<1> QED
  BY <1>1, <1>3, <1>4, LockedPass

(* A stage that can be started, and what it is to the plan. *)
LEMMA Startable ==
  ASSUME PlanInv, NEW kinds, AtStage(kinds)
  PROVE  /\ pass.pc = "stage" /\ pass.i \in DOMAIN StageOrder /\ pass.i + 1 \in Nat
         /\ Current \in Stages /\ Current \in StagesOf(pass.revision) /\ Kind[Current] \in kinds
         /\ pass.snapshot.stage[Current].state \in Restartable
         /\ stream.stage[Current].state \in Restartable
         /\ stream.stage[Current].generation = pass.snapshot.stage[Current].generation
<1>1. /\ pass.pc = "stage" /\ pass.i \in DOMAIN StageOrder /\ StartableAt(pass.i)
      /\ Kind[Current] \in kinds
  BY DEF AtStage, At
<1>2. Current \in Stages /\ pass.i + 1 \in Nat /\ Current = StageOrder[pass.i]
  BY <1>1, CurrentStage DEF Current
<1>3. PlanOK(pass.snapshot) /\ Agree(pass.snapshot, stream)
  BY <1>1, InLoop
<1>4. pass.snapshot.stage[Current] \in Projections
  BY <1>2, <1>3, StreamFields DEF PlanOK
<1>5. /\ Current \in StagesOf(pass.revision)
      /\ pass.snapshot.stage[Current].state \notin {"completed", "failed", "satisfied", "running"}
  BY <1>1, <1>2 DEF StartableAt, terminalStageState
<1>6. pass.snapshot.stage[Current].state \in Restartable
  BY <1>4, <1>5 DEF Projections, Restartable
<1> QED
  BY <1>1, <1>2, <1>3, <1>5, <1>6 DEF Agree, Same

(* On to the next stage, with the plan as it is now: every stage the loop   *)
(* may start is resolved if the ones whose state changed are.               *)
LEMMA ReplayedPass ==
  ASSUME PlanInv, pass.pc \in {"stage", "claim", "settlePlanner"}, PlanOK(stream'),
         Ruled(stream, stream'), NEW s \in Stages,
         \A t \in Stages \ {s} : stream'.stage[t].state = stream.stage[t].state,
         Agent(s) /\ s \in StagesOf(pass.revision) =>
           terminalStageState(stream'.stage[s].state) \/ ~terminalStageState(stream.stage[s].state),
         pass'.pc = "stage", pass'.i \in Nat, pass'.revision = pass.revision,
         pass'.snapshot = stream', pass'.resolved = pass.resolved, pass'.stale = pass.stale
  PROVE  PassOK'
<1>1. /\ PlanOK(stream) /\ pass.revision = stream.approved /\ stream.approved \in Revisions
      /\ On(stream.approved) /\ pass.stale \subseteq Stages
      /\ Agree(pass.snapshot, stream) /\ Resolved(pass.snapshot)
  BY InLoop
<1>2. Resolved(pass.snapshot)'
  <2>1. ASSUME NEW t \in StagesOf(pass.revision), Agent(t), ~terminalStageState(stream'.stage[t].state)
        PROVE  pass.resolved[t] \in Assignments
    <3>1. t \in Stages
      BY DEF StagesOf
    <3>2. ~terminalStageState(stream.stage[t].state)
      BY <2>1, <3>1
    <3> QED
      BY <1>1, <2>1, <3>1, <3>2 DEF Resolved, Agree, Same
  <2> QED
    BY <2>1 DEF Resolved
<1>3. On(pass.revision)' /\ Agree(pass'.snapshot, stream')
  BY <1>1, QuietIsReflexive DEF On, Ruled
<1> QED
  BY <1>1, <1>2, <1>3, StagePass DEF Ruled

LEMMA AdvanceStageKeeps ==
  ASSUME PlanInv, Whole, AdvanceStage
  PROVE  PlanInv'
<1>0. pass.pc = "stage"
  BY DEF AdvanceStage, At
<1>1. /\ CoreOK /\ RunsOK /\ PlanOK(pass.snapshot) /\ operator.pc = "idle"
      /\ pass.revision = stream.approved /\ stream.approved \in Revisions /\ On(stream.approved)
      /\ pass.stale \subseteq Stages /\ PlanOK(stream)
      /\ Agree(pass.snapshot, stream) /\ Resolved(pass.snapshot)
      /\ pass.snapshot.charged = stream.charged
  BY <1>0, InLoop
<1>2. RunsOK' /\ SameStarts
  BY <1>1, RowsKept DEF AdvanceStage
<1>3. CoreOK'
  BY <1>1, <1>2, QuietIsReflexive, QuietCore DEF AdvanceStage
<1>4. PassOK'
  <2>1. PICK ahead : ahead = {i \in DOMAIN StageOrder : i >= pass.i /\ StartableAt(i)}
    OBVIOUS
  <2>2. CASE ahead = {}
    BY <2>1, <2>2, IdlePass DEF AdvanceStage
  <2>3. CASE ahead # {}
    <3>1. ahead \in SUBSET Nat
      BY <2>1, Positions
    <3>2. First(ahead) \in Nat
      BY <2>3, <3>1, FirstLeast
    <3>3. pass' = [pass EXCEPT !.i = First(ahead)]
      BY <2>1, <2>3 DEF AdvanceStage
    <3>4. /\ pass'.pc = "stage" /\ pass'.i \in Nat /\ pass'.revision = pass.revision
          /\ pass'.snapshot = pass.snapshot /\ pass'.resolved = pass.resolved
          /\ pass'.stale = pass.stale /\ stream' = stream
      BY <1>0, <3>2, <3>3 DEF Whole, AdvanceStage
    <3>5. Resolved(pass.snapshot)' /\ On(pass.revision)'
      BY <1>1, <3>4 DEF Resolved, On
    <3> QED
      BY <1>1, <3>4, <3>5, StagePass
  <2> QED
    BY <2>2, <2>3
<1> QED
  BY <1>1, <1>2, <1>3, <1>4, OperatorRests DEF AdvanceStage, PlanInv, CoreOK, PassOK

(* The stage is left as it is. *)
LEMMA SkipKeeps ==
  ASSUME PlanInv, Whole, pass.pc \in {"stage", "claim"}, pass.i \in Nat, Skip,
         UNCHANGED <<run, stream, store, operator>>
  PROVE  PlanInv'
<1>1. /\ CoreOK /\ RunsOK /\ PlanOK(pass.snapshot) /\ operator.pc = "idle"
      /\ pass.revision = stream.approved /\ stream.approved \in Revisions /\ On(stream.approved)
      /\ pass.stale \subseteq Stages /\ PlanOK(stream)
      /\ Agree(pass.snapshot, stream) /\ Resolved(pass.snapshot)
      /\ pass.snapshot.charged = stream.charged
  BY InLoop
<1>2. RunsOK' /\ SameStarts
  BY <1>1, RowsKept
<1>3. CoreOK'
  BY <1>1, <1>2, QuietIsReflexive, QuietCore
<1>4. /\ pass'.pc = "stage" /\ pass'.i = pass.i + 1 /\ pass'.revision = pass.revision
      /\ pass'.snapshot = pass.snapshot /\ pass'.resolved = pass.resolved
      /\ pass'.stale = pass.stale
  BY SkipFields
<1>5. pass'.i \in Nat /\ Resolved(pass.snapshot)' /\ On(pass.revision)'
  BY <1>1, <1>4 DEF Resolved, On
<1>6. PassOK'
  BY <1>1, <1>4, <1>5, StagePass
<1> QED
  BY <1>1, <1>2, <1>3, <1>6, OperatorRests DEF PlanInv, CoreOK, PassOK

LEMMA BlockStageKeeps ==
  ASSUME PlanInv, Whole, BlockStage
  PROVE  PlanInv'
<1>1. pass.pc \in {"stage", "claim"} /\ pass.i \in DOMAIN StageOrder
  BY DEF BlockStage, AtAgentStage, AtStage, At, PlanInv, PlacedOK, Starting
<1>2. pass.i \in Nat
  BY <1>1, CurrentStage
<1> QED
  BY <1>1, <1>2, SkipKeeps DEF BlockStage

LEMMA gateSatisfactionKeeps ==
  ASSUME PlanInv, Whole, gateSatisfaction
  PROVE  PlanInv'
<1>1. /\ pass.pc = "stage" /\ pass.i \in DOMAIN StageOrder /\ pass.i + 1 \in Nat
      /\ Current \in Stages /\ Kind[Current] = "gate" /\ ~Agent(Current)
  BY Startable DEF gateSatisfaction, Agent
<1>2. CASE stream' = stream /\ Skip
  <2>1. UNCHANGED <<run, stream, store, operator>> /\ pass.i \in Nat
    BY <1>1, <1>2, CurrentStage DEF gateSatisfaction
  <2> QED
    BY <1>1, <1>2, <2>1, SkipKeeps
<1>3. CASE ~(stream' = stream /\ Skip)
  <2>1. /\ CoreOK /\ RunsOK /\ PlanOK(stream) /\ PlanOK(pass.snapshot) /\ operator.pc = "idle"
        /\ stream.approved # 0
    BY <1>1, InLoop
  <2>2. PICK upstream : upstream = {pass.snapshot.stage[s].run : s \in upstreamStageIDs(Current)} \ {None}
    OBVIOUS
  <2>3. PICK proving : proving = {r \in upstream : run[r].head > 0}
    OBVIOUS
  <2>4. PICK proven : proven = {<<r, run[r].head>> : r \in proving}
    OBVIOUS
  <2>5. /\ stream' = GateSatisfied(stream, Current, proven) /\ NextStage(stream')
        /\ UNCHANGED <<run, store, operator>>
    BY <1>3, <2>2, <2>3, <2>4 DEF gateSatisfaction
  <2>6. upstream \subseteq RunIds
    BY <1>1, <2>1, <2>2, UpstreamStages, StreamFields DEF PlanOK
  <2>7. proven \in SUBSET Outputs
    BY <2>1, <2>3, <2>4, <2>6, RowTypes DEF Outputs
  <2>8. PICK s : s = Current
    OBVIOUS
  <2>9. LET q == GateSatisfied(stream, s, proven)
        IN  /\ PlanOK(q) /\ Others(stream, q, s) /\ Ruled(stream, q) /\ Booked(stream, q)
            /\ q.stage[s].state = "satisfied" /\ q.stage[s].run = stream.stage[s].run
            /\ q.stage[s].generation = stream.stage[s].generation
    BY <1>1, <2>1, <2>7, <2>8, AfterGate
  <2>10. /\ PlanOK(stream') /\ Others(stream, stream', s) /\ Ruled(stream, stream')
         /\ Booked(stream, stream') /\ stream'.stage[s].state = "satisfied"
         /\ stream'.stage[s].run = stream.stage[s].run
         /\ stream'.stage[s].generation = stream.stage[s].generation
    BY <2>5, <2>8, <2>9
  <2>11. RunsOK' /\ SameStarts
    BY <2>1, <2>5, <2>10, RowsKept DEF Ruled
  <2>12. CoreOK'
    BY <1>1, <2>1, <2>8, <2>10, <2>11, SettleCore DEF Restartable
  <2>13. /\ pass'.pc = "stage" /\ pass'.i = pass.i + 1 /\ pass'.revision = pass.revision
         /\ pass'.snapshot = stream' /\ pass'.resolved = pass.resolved /\ pass'.stale = pass.stale
    BY <2>5, NextStageFields
  <2>14. PassOK'
    BY <1>1, <2>8, <2>10, <2>13, ReplayedPass DEF Others
  <2> QED
    BY <2>1, <2>5, <2>11, <2>12, <2>14, OperatorRests DEF PlanInv, CoreOK, PassOK
<1> QED
  BY <1>2, <1>3

(* The performance a stage would start is one of the governing revision. *)
LEMMA ItsPerformance ==
  ASSUME PlanInv, pass.revision \in Revisions, pass.i \in DOMAIN StageOrder
  PROVE  /\ Performance \in RunIds /\ RevisionOf(Performance) = pass.revision
         /\ StageOf(Performance) = Current
         /\ GenerationOf(Performance) = pass.snapshot.stage[Current].generation
<1>1. Current \in Stages /\ PlanOK(pass.snapshot)
  BY CurrentStage DEF PlanInv, PlacedOK
<1>2. pass.snapshot.stage[Current].generation \in 0 .. MaxGeneration
  BY <1>1, StreamFields DEF PlanOK
<1> QED
  BY <1>1, <1>2, PerformanceOf DEF Performance, Projection

(* An assignment whose run was never created is given up. *)
LEMMA InvalidateOrphanKeeps ==
  ASSUME PlanInv, Whole, InvalidateOrphan
  PROVE  PlanInv'
<1>1. PICK s : s = Current
  OBVIOUS
<1>2. /\ pass.pc = "stage" /\ pass.i \in DOMAIN StageOrder /\ pass.i + 1 \in Nat
      /\ s \in Stages /\ s \in StagesOf(pass.revision)
      /\ stream.stage[s].state \in Restartable
      /\ stream.stage[s].generation = pass.snapshot.stage[s].generation
  BY <1>1, Startable DEF InvalidateOrphan, AtAgentStage
<1>3. /\ CoreOK /\ RunsOK /\ PlanOK(stream) /\ operator.pc = "idle" /\ pass.revision = stream.approved
      /\ stream.approved \in Revisions /\ stream.approved # 0
  BY <1>2, InLoop
<1>4. /\ MayPerformAgain(stream, s) /\ stream' = Invalidated(stream, s, stream.approved)
      /\ NextStage(stream') /\ UNCHANGED <<run, store, operator>> /\ ~startedRun(Performance)
  BY <1>1, <1>3 DEF InvalidateOrphan, Orphaned
<1>5. PlanOK(stream') /\ Ruled(stream, stream') /\ Others(stream, stream', s)
  BY <1>2, <1>3, <1>4, AfterInvalidated
<1>6. RunsOK' /\ SameStarts
  BY <1>3, <1>4, <1>5, RowsKept DEF Ruled
<1>7. ASSUME NEW r \in RunIds, startedRun(r), StageOf(r) = s, RevisionOf(r) = stream.approved
      PROVE  ~Waiting(r)
  <2>1. SUFFICES ASSUME Waiting(r) PROVE FALSE
    OBVIOUS
  <2>2. GenerationOf(r) = pass.snapshot.stage[s].generation
    BY <1>2, <1>7, <2>1 DEF Waiting
  <2>3. r = Performance
    BY <1>1, <1>3, <1>7, <2>2, RunParts DEF Performance, Projection
  <2> QED
    BY <1>4, <1>7, <2>3
<1>8. CoreOK'
  BY <1>2, <1>3, <1>4, <1>6, <1>7, InvalidateCore
<1>9. /\ pass'.pc = "stage" /\ pass'.i = pass.i + 1 /\ pass'.revision = pass.revision
      /\ pass'.snapshot = stream' /\ pass'.resolved = pass.resolved /\ pass'.stale = pass.stale
  BY <1>4, NextStageFields
<1>10. ~terminalStageState(stream.stage[s].state)
  BY <1>2 DEF terminalStageState, Restartable
<1>11. PassOK'
  BY <1>2, <1>5, <1>9, <1>10, ReplayedPass DEF Others
<1> QED
  BY <1>3, <1>4, <1>6, <1>8, <1>11, OperatorRests DEF PlanInv, CoreOK, PassOK

LEMMA FreezeAssignmentKeeps ==
  ASSUME PlanInv, Whole, FreezeAssignment
  PROVE  PlanInv'
<1>1. /\ pass.pc = "stage" /\ pass.i \in DOMAIN StageOrder /\ Current \in Stages
      /\ Current \in StagesOf(pass.revision) /\ Agent(Current)
      /\ pass.snapshot.stage[Current].state \in Restartable
      /\ stream.stage[Current].generation = pass.snapshot.stage[Current].generation
  BY Startable DEF FreezeAssignment, AtAgentStage, Agent
<1>2. /\ CoreOK /\ RunsOK /\ PlanOK(stream) /\ PlanOK(pass.snapshot) /\ operator.pc = "idle"
      /\ pass.revision = stream.approved /\ stream.approved \in Revisions /\ On(stream.approved)
      /\ stream.approved <= stream.approved /\ pass.stale \subseteq Stages
      /\ Agree(pass.snapshot, stream) /\ Resolved(pass.snapshot)
      /\ pass.snapshot.charged = stream.charged
  BY <1>1, InLoop
<1>3. /\ Performance \in RunIds
      /\ GenerationOf(Performance) = pass.snapshot.stage[Current].generation
  BY <1>1, <1>2, ItsPerformance
<1>4. PICK P, a : P = Performance /\ a = Assignment
  OBVIOUS
<1>5. a \in Assignments
  <2>1. Durable \in Assignments \cup {None}
    BY <1>2, <1>3, RowTypes DEF Durable
  <2>2. pass.resolved[Current] \in Assignments
    BY <1>1, <1>2 DEF Resolved, terminalStageState, Restartable
  <2> QED
    BY <1>4, <2>1, <2>2 DEF Assignment
<1>6. /\ store' = [store EXCEPT !.frozen[P] = a] /\ Goto("claim")
      /\ UNCHANGED <<run, stream, operator>>
      /\ Cardinality(stream.charged) < MaxChildRuns
  BY <1>2, <1>4 DEF FreezeAssignment, MayStart
<1>7. /\ store' \in Stores /\ store'.frozen[P] = a
      /\ \A r \in RunIds \ {P} : store'.frozen[r] = store.frozen[r]
  <2>1. store \in Stores /\ store.frozen \in [RunIds -> Assignments \cup {None}]
    BY <1>2 DEF RunsOK, Stores
  <2>2. PICK f : f = [store.frozen EXCEPT ![P] = a]
    OBVIOUS
  <2>3. /\ f \in [RunIds -> Assignments \cup {None}] /\ f[P] = a
        /\ \A r \in RunIds \ {P} : f[r] = store.frozen[r]
    BY <1>3, <1>4, <1>5, <2>1, <2>2
  <2>4. store' = [store EXCEPT !.frozen = f]
    BY <1>6, <2>2
  <2>5. store' \in Stores /\ store'.frozen = f
    BY <2>1, <2>3, <2>4 DEF Stores
  <2> QED
    BY <2>3, <2>5
<1>8. RunsOK' /\ SameStarts
  BY <1>2, <1>5, <1>6, <1>7 DEF RunsOK, startedRun, SameStarts
<1>9. CoreOK'
  BY <1>2, <1>6, <1>8, QuietIsReflexive, QuietCore
<1>10. /\ pass'.pc = "claim" /\ pass'.i = pass.i /\ pass'.revision = pass.revision
       /\ pass'.snapshot = pass.snapshot /\ pass'.resolved = pass.resolved
       /\ pass'.stale = pass.stale
  BY <1>6, GotoFields
<1>11. Current' = Current /\ Performance' = P
  BY <1>4, <1>10 DEF Current, Performance, Projection
<1>12. PlacedOK'
  BY <1>1, <1>2, <1>6, <1>10, <1>11
  DEF PlacedOK, PassPcs, Unlocked, Starting, Answering, On
<1>13. SnapshotOK'
  BY <1>1, <1>2, <1>3, <1>4, <1>5, <1>6, <1>7, <1>10, <1>11
  DEF SnapshotOK, Settling, Starting, Agree
<1>14. ResolvedOK'
  BY <1>2, <1>10 DEF ResolvedOK, Resolved, Settling
<1> QED
  BY <1>2, <1>6, <1>8, <1>9, <1>12, <1>13, <1>14, OperatorRests DEF PlanInv, CoreOK

(* The run of a frozen performance is created, or found. *)
LEMMA ClaimRunKeeps ==
  ASSUME PlanInv, Whole, ClaimRun
  PROVE  PlanInv'
<1>0. pass.pc = "claim" /\ pass.pc \in Starting
  BY DEF ClaimRun, At, Starting
<1>1. /\ CoreOK /\ RunsOK /\ PlanOK(stream) /\ PlanOK(pass.snapshot) /\ operator.pc = "idle"
      /\ pass.revision = stream.approved /\ stream.approved \in Revisions /\ On(stream.approved)
      /\ stream.approved <= stream.approved /\ pass.stale \subseteq Stages
      /\ Agree(pass.snapshot, stream) /\ Resolved(pass.snapshot)
      /\ pass.snapshot.charged = stream.charged
  BY <1>0, InLoop
<1>2. /\ pass.i \in DOMAIN StageOrder /\ Agent(Current) /\ Current \in Stages
      /\ PlacedOK /\ SnapshotOK
  BY <1>0, CurrentStage DEF PlanInv, PlacedOK
<1>3. PICK P : P = Performance
  OBVIOUS
<1>4. /\ P \in RunIds /\ RevisionOf(P) = stream.approved /\ StageOf(P) = Current
  BY <1>1, <1>2, <1>3, ItsPerformance
<1>5. /\ store.frozen[P] \in Assignments /\ stream.stage[Current].generation = GenerationOf(P)
      /\ pass.snapshot.stage[Current].state \in Restartable
      /\ Cardinality(stream.charged) < MaxChildRuns
  BY <1>0, <1>2, <1>3 DEF SnapshotOK, Starting
<1>6. Waiting(P)
  BY <1>1, <1>2, <1>4, <1>5 DEF Waiting, Agree, Same
<1>7. PICK x : x = [run[P] EXCEPT !.disposition = IF @ = "none" THEN "active" ELSE @]
  OBVIOUS
<1>8. x \in Runs /\ x.disposition # "none"
  <2>1. run[P] \in Runs /\ run[P].disposition \in Dispositions
    BY <1>1, <1>4, RowTypes
  <2>2. PICK d : d = (IF run[P].disposition = "none" THEN "active" ELSE run[P].disposition)
    OBVIOUS
  <2>3. d \in Dispositions /\ d # "none" /\ x = [run[P] EXCEPT !.disposition = d]
    BY <1>7, <2>1, <2>2 DEF Dispositions
  <2> QED
    BY <2>1, <2>3 DEF Runs
<1>9. /\ run' = [run EXCEPT ![P] = x] /\ UNCHANGED <<stream, store, operator>> /\ Goto("assigned")
  BY <1>3, <1>7 DEF ClaimRun
<1>10. /\ run' \in [RunIds -> Runs] /\ run'[P].disposition # "none"
       /\ \A r \in RunIds \ {P} : run'[r] = run[r]
  <2>1. run \in [RunIds -> Runs]
    BY <1>1 DEF RunsOK
  <2> QED
    BY <1>4, <1>8, <1>9, <2>1
<1>11. RunsOK'
  BY <1>1, <1>2, <1>4, <1>5, <1>9, <1>10 DEF RunsOK, startedRun
<1>12. CoreOK'
  BY <1>1, <1>4, <1>6, <1>9, <1>10, ClaimCore DEF startedRun
<1>13. /\ pass'.pc = "assigned" /\ pass'.i = pass.i /\ pass'.revision = pass.revision
       /\ pass'.snapshot = pass.snapshot /\ pass'.resolved = pass.resolved
       /\ pass'.stale = pass.stale
  BY <1>9, GotoFields
<1>14. Current' = Current /\ Performance' = P
  BY <1>3, <1>13 DEF Current, Performance, Projection
<1>15. PlacedOK'
  BY <1>1, <1>2, <1>9, <1>13, <1>14 DEF PlacedOK, PassPcs, Unlocked, Starting, Answering, On
<1>16. SnapshotOK'
  BY <1>1, <1>4, <1>5, <1>9, <1>10, <1>13, <1>14
  DEF SnapshotOK, Settling, Starting, Agree, startedRun
<1>17. ResolvedOK'
  BY <1>1, <1>13 DEF ResolvedOK, Resolved, Settling
<1> QED
  BY <1>1, <1>9, <1>11, <1>12, <1>15, <1>16, <1>17, OperatorRests DEF PlanInv, CoreOK

LEMMA AppendAssignedKeeps ==
  ASSUME PlanInv, Whole, AppendAssigned
  PROVE  PlanInv'
<1>0. pass.pc = "assigned" /\ pass.pc \in Starting
  BY DEF AppendAssigned, At, Starting
<1>1. /\ CoreOK /\ RunsOK /\ PlanOK(stream) /\ PlanOK(pass.snapshot) /\ operator.pc = "idle"
      /\ pass.revision = stream.approved /\ stream.approved \in Revisions /\ On(stream.approved)
      /\ stream.approved <= stream.approved /\ pass.stale \subseteq Stages
      /\ Agree(pass.snapshot, stream) /\ Resolved(pass.snapshot)
      /\ pass.snapshot.charged = stream.charged
  BY <1>0, InLoop
<1>2. PICK s, P : s = Current /\ P = Performance
  OBVIOUS
<1>3. /\ pass.i \in DOMAIN StageOrder /\ Agent(s) /\ s \in Stages /\ PlacedOK /\ SnapshotOK
  BY <1>0, <1>2, CurrentStage DEF PlanInv, PlacedOK
<1>4. /\ P \in RunIds /\ RevisionOf(P) = stream.approved /\ StageOf(P) = s
  BY <1>1, <1>2, <1>3, ItsPerformance
<1>5. /\ store.frozen[P] \in Assignments /\ stream.stage[s].generation = GenerationOf(P)
      /\ pass.snapshot.stage[s].state \in Restartable /\ startedRun(P)
      /\ Cardinality(stream.charged) < MaxChildRuns
  BY <1>0, <1>2, <1>3 DEF SnapshotOK, Starting
<1>6. stream.stage[s].state \in Restartable
  BY <1>1, <1>3, <1>5 DEF Agree, Same
<1>7. P = <<stream.approved, s, stream.stage[s].generation>>
  BY <1>4, <1>5, RunParts
<1>8. /\ stream' = StageAssigned(stream, s, P) /\ UNCHANGED <<run, store, operator>>
      /\ Goto("charge")
  BY <1>2 DEF AppendAssigned
<1>9. LET q == StageAssigned(stream, s, P)
      IN  /\ PlanOK(q) /\ Others(stream, q, s) /\ Ruled(stream, q) /\ Booked(stream, q)
          /\ q.stage[s].state = "pending" /\ q.stage[s].run = P
          /\ q.stage[s].generation = stream.stage[s].generation
  BY <1>1, <1>3, <1>4, AfterAssigned
<1>10. /\ Others(stream, stream', s) /\ Ruled(stream, stream') /\ Booked(stream, stream')
       /\ stream'.stage[s].state = "pending" /\ stream'.stage[s].run = P
       /\ stream'.stage[s].generation = stream.stage[s].generation
  BY <1>8, <1>9
<1>11. RunsOK' /\ SameStarts
  BY <1>1, <1>8, <1>10, RowsKept DEF Ruled
<1>12. CoreOK'
  BY <1>1, <1>3, <1>6, <1>7, <1>8, <1>11, AssignCore
<1>13. /\ pass'.pc = "charge" /\ pass'.i = pass.i /\ pass'.revision = pass.revision
       /\ pass'.snapshot = pass.snapshot /\ pass'.resolved = pass.resolved
       /\ pass'.stale = pass.stale
  BY <1>8, GotoFields
<1>14. Current' = s /\ Performance' = P
  BY <1>2, <1>13 DEF Current, Performance, Projection
<1>15. PlacedOK'
  BY <1>1, <1>3, <1>10, <1>13, <1>14
  DEF PlacedOK, PassPcs, Unlocked, Starting, Answering, On, Ruled, Booked
<1>16. SnapshotOK'
  <2>1. \A t \in Stages \ {s} : Same(pass.snapshot.stage[t], stream'.stage[t])
    BY <1>1, <1>10 DEF Agree, Others
  <2>2. startedRun(P)'
    BY <1>5, <1>8 DEF startedRun
  <2> QED
    BY <1>4, <1>5, <1>8, <1>10, <1>13, <1>14, <2>1, <2>2
    DEF SnapshotOK, Settling, Starting, Booked
<1>17. ResolvedOK'
  BY <1>1, <1>13 DEF ResolvedOK, Resolved, Settling
<1> QED
  BY <1>1, <1>8, <1>11, <1>12, <1>15, <1>16, <1>17, OperatorRests DEF PlanInv, CoreOK

(* What is known of a run that was assigned, until it is announced. *)
LEMMA Assigned ==
  ASSUME PlanInv, pass.pc \in {"charge", "started"}
  PROVE  /\ CoreOK /\ RunsOK /\ PlanOK(stream) /\ PlanOK(pass.snapshot) /\ operator.pc = "idle"
         /\ pass.revision = stream.approved /\ stream.approved \in Revisions /\ On(stream.approved)
         /\ stream.approved <= stream.approved /\ pass.stale \subseteq Stages /\ Resolved(pass.snapshot)
         /\ pass.i \in DOMAIN StageOrder /\ Agent(Current) /\ Current \in Stages
         /\ Performance \in RunIds /\ RevisionOf(Performance) = stream.approved
         /\ StageOf(Performance) = Current
         /\ store.frozen[Performance] \in Assignments /\ startedRun(Performance)
         /\ stream.stage[Current].generation = GenerationOf(Performance)
         /\ stream.stage[Current].state = "pending" /\ stream.stage[Current].run = Performance
         /\ pass.snapshot.stage[Current].state \in Restartable
         /\ \A t \in Stages \ {Current} : Same(pass.snapshot.stage[t], stream.stage[t])
<1>0. pass.pc \notin Unlocked /\ pass.pc \in Starting /\ pass.pc # "supersede"
      /\ pass.pc \in Starting \ {"claim"}
  BY DEF Unlocked, Starting
<1>1. /\ CoreOK /\ RunsOK /\ PlanOK(stream) /\ PlanOK(pass.snapshot) /\ operator.pc = "idle"
      /\ pass.revision = stream.approved /\ stream.approved \in Revisions /\ On(stream.approved)
      /\ pass.stale \subseteq Stages
  BY <1>0, LockedPass
<1>2. PlacedOK /\ SnapshotOK /\ ResolvedOK
  BY DEF PlanInv
<1>3. pass.i \in DOMAIN StageOrder /\ Agent(Current) /\ Current \in Stages
  BY <1>0, <1>2, CurrentStage DEF PlacedOK
<1>4. stream.approved <= stream.approved /\ Resolved(pass.snapshot)
  BY <1>0, <1>1, <1>2 DEF Revisions, ResolvedOK
<1>5. /\ Performance \in RunIds /\ RevisionOf(Performance) = stream.approved
      /\ StageOf(Performance) = Current
  BY <1>1, <1>3, ItsPerformance
<1>6. /\ store.frozen[Performance] \in Assignments /\ startedRun(Performance)
      /\ stream.stage[Current].generation = GenerationOf(Performance)
      /\ stream.stage[Current].state = "pending" /\ stream.stage[Current].run = Performance
      /\ pass.snapshot.stage[Current].state \in Restartable
      /\ \A t \in Stages \ {Current} : Same(pass.snapshot.stage[t], stream.stage[t])
  BY <1>0, <1>2 DEF SnapshotOK
<1> QED
  BY <1>1, <1>3, <1>4, <1>5, <1>6

LEMMA AppendChildRunKeeps ==
  ASSUME PlanInv, Whole, AppendChildRun
  PROVE  PlanInv'
<1>0. pass.pc = "charge"
  BY DEF AppendChildRun, At
<1>1. PICK s, P : s = Current /\ P = Performance
  OBVIOUS
<1>2. /\ CoreOK /\ RunsOK /\ PlanOK(stream) /\ PlanOK(pass.snapshot) /\ operator.pc = "idle"
      /\ pass.revision = stream.approved /\ stream.approved \in Revisions /\ On(stream.approved)
      /\ stream.approved <= stream.approved /\ pass.stale \subseteq Stages /\ Resolved(pass.snapshot)
      /\ pass.i \in DOMAIN StageOrder /\ Agent(s) /\ s \in Stages /\ P \in RunIds
      /\ store.frozen[P] \in Assignments /\ startedRun(P)
      /\ stream.stage[s].generation = GenerationOf(P)
      /\ stream.stage[s].state = "pending" /\ stream.stage[s].run = P
      /\ pass.snapshot.stage[s].state \in Restartable
      /\ \A t \in Stages \ {s} : Same(pass.snapshot.stage[t], stream.stage[t])
  BY <1>0, <1>1, Assigned
<1>3. Cardinality(stream.charged) < MaxChildRuns
  BY <1>0 DEF PlanInv, SnapshotOK, Starting
<1>4. /\ stream' = ChildRunCharged(stream, s, P) /\ UNCHANGED <<run, store, operator>>
      /\ Goto("started")
  BY <1>1 DEF AppendChildRun
<1>5. /\ stream'.stage = stream.stage /\ Ruled(stream, stream')
      /\ stream'.charged = stream.charged \cup {P}
  BY <1>2, <1>4, AfterCharged
<1>6. RunsOK' /\ SameStarts
  BY <1>2, <1>4, <1>5, RowsKept DEF Ruled
<1>7. CoreOK'
  BY <1>2, <1>3, <1>4, <1>6, ChargeCore
<1>8. /\ pass'.pc = "started" /\ pass'.i = pass.i /\ pass'.revision = pass.revision
      /\ pass'.snapshot = pass.snapshot /\ pass'.resolved = pass.resolved
      /\ pass'.stale = pass.stale
  BY <1>4, GotoFields
<1>9. Current' = s /\ Performance' = P
  BY <1>1, <1>8 DEF Current, Performance, Projection
<1>10. PlacedOK'
  BY <1>2, <1>5, <1>8, <1>9 DEF PlacedOK, PassPcs, Unlocked, Starting, Answering, On, Ruled
<1>11. SnapshotOK'
  BY <1>2, <1>4, <1>5, <1>8, <1>9 DEF SnapshotOK, Settling, Starting, startedRun
<1>12. ResolvedOK'
  BY <1>2, <1>8 DEF ResolvedOK, Resolved, Settling
<1> QED
  BY <1>2, <1>4, <1>6, <1>7, <1>10, <1>11, <1>12, OperatorRests DEF PlanInv, CoreOK

LEMMA AppendRunStartedKeeps ==
  ASSUME PlanInv, Whole, AppendRunStarted
  PROVE  PlanInv'
<1>0. pass.pc = "started"
  BY DEF AppendRunStarted, At
<1>1. PICK s, P : s = Current /\ P = Performance
  OBVIOUS
<1>2. /\ CoreOK /\ RunsOK /\ PlanOK(stream) /\ operator.pc = "idle"
      /\ pass.revision = stream.approved /\ stream.approved \in Revisions /\ On(stream.approved)
      /\ pass.stale \subseteq Stages /\ Resolved(pass.snapshot)
      /\ pass.i \in DOMAIN StageOrder /\ Agent(s) /\ s \in Stages /\ P \in RunIds
      /\ RevisionOf(P) = stream.approved /\ StageOf(P) = s
      /\ stream.stage[s].generation = GenerationOf(P) /\ stream.stage[s].run = P
      /\ pass.snapshot.stage[s].state \in Restartable
      /\ \A t \in Stages \ {s} : Same(pass.snapshot.stage[t], stream.stage[t])
  BY <1>0, <1>1, Assigned
<1>3. P \in stream.charged
  BY <1>0, <1>1 DEF PlanInv, SnapshotOK
<1>4. /\ stream' = RunStarted(stream, s, P) /\ UNCHANGED <<run, store, operator>>
      /\ NextStage(stream')
  BY <1>1 DEF AppendRunStarted
<1>5. PlanOK(stream') /\ Others(stream, stream', s) /\ Ruled(stream, stream')
  BY <1>2, <1>4, AfterStarted
<1>6. RunsOK' /\ SameStarts
  BY <1>2, <1>4, <1>5, RowsKept DEF Ruled
<1>7. CoreOK'
  BY <1>2, <1>3, <1>4, <1>6, StartCore
<1>8. /\ pass'.pc = "stage" /\ pass'.i = pass.i + 1 /\ pass'.revision = pass.revision
      /\ pass'.snapshot = stream' /\ pass'.resolved = pass.resolved /\ pass'.stale = pass.stale
  BY <1>4, NextStageFields
<1>9. pass'.i \in Nat
  BY <1>2, <1>8, CurrentStage
<1>10. Resolved(pass.snapshot)'
  <2>1. ASSUME NEW t \in StagesOf(pass.revision), Agent(t), ~terminalStageState(stream'.stage[t].state)
        PROVE  pass.resolved[t] \in Assignments
    <3>1. t \in Stages
      BY DEF StagesOf
    <3>2. ~terminalStageState(pass.snapshot.stage[t].state)
      BY <1>2, <1>5, <2>1, <3>1 DEF Others, Same, terminalStageState, Restartable
    <3> QED
      BY <1>2, <2>1, <3>2 DEF Resolved
  <2> QED
    BY <1>8, <2>1 DEF Resolved
<1>11. On(pass.revision)' /\ Agree(pass'.snapshot, stream')
  BY <1>2, <1>5, <1>8, QuietIsReflexive DEF On, Ruled
<1>12. PassOK'
  BY <1>2, <1>5, <1>8, <1>9, <1>10, <1>11, StagePass DEF Ruled
<1> QED
  BY <1>2, <1>4, <1>6, <1>7, <1>12, OperatorRests DEF PlanInv, CoreOK, PassOK

-----------------------------------------------------------------------------
(* The planning stage.                                                      *)

LEMMA BlockPlannerKeeps ==
  ASSUME PlanInv, Whole, BlockPlanner
  PROVE  PlanInv'
<1>1. pass.pc = "stage" /\ pass.i + 1 \in Nat /\ Current \in Stages
  BY Startable DEF BlockPlanner, AtPlanner
<1>2. CoreOK /\ RunsOK /\ PlanOK(stream) /\ operator.pc = "idle"
  BY <1>1, InLoop
<1>3. UNCHANGED <<run, stream, store, operator>> /\ NextStage(stream)
  BY DEF BlockPlanner
<1>4. RunsOK' /\ SameStarts
  BY <1>2, <1>3, RowsKept
<1>5. CoreOK'
  BY <1>2, <1>3, <1>4, QuietIsReflexive, QuietCore
<1>6. /\ pass'.pc = "stage" /\ pass'.i = pass.i + 1 /\ pass'.revision = pass.revision
      /\ pass'.snapshot = stream' /\ pass'.resolved = pass.resolved /\ pass'.stale = pass.stale
  BY <1>3, NextStageFields
<1>7. Ruled(stream, stream') /\ \A t \in Stages : stream'.stage[t].state = stream.stage[t].state
  BY <1>3 DEF Ruled
<1>8. PassOK'
  BY <1>1, <1>2, <1>3, <1>6, <1>7, ReplayedPass
<1> QED
  BY <1>2, <1>3, <1>4, <1>5, <1>8, OperatorRests DEF PlanInv, CoreOK, PassOK

(* Before, while and after the planner works, for the revision that governs.*)
LEMMA AnsweringPass ==
  ASSUME pass'.pc \in Answering, pass'.i \in DOMAIN StageOrder, Kind[Current'] = "planner",
         pass'.stale \subseteq Stages, pass'.revision \in Revisions,
         pass'.revision = stream'.approved, On(pass.revision)',
         PlanOK(pass'.snapshot), Agree(pass'.snapshot, stream'),
         pass'.snapshot.charged = stream'.charged, Resolved(pass.snapshot)',
         pass'.pc = "revise" => nextFreeRevision' \in Revisions
  PROVE  PassOK'
<1>1. stream'.approved <= stream'.approved
  BY DEF Revisions
<1>2. PlacedOK'
  BY <1>1 DEF PlacedOK, PassPcs, Unlocked, Starting, Answering
<1>3. SnapshotOK'
  BY DEF SnapshotOK, Settling, Starting, Answering
<1>4. ResolvedOK'
  BY DEF ResolvedOK, Settling, Answering
<1> QED
  BY <1>2, <1>3, <1>4 DEF PassOK

LEMMA InvokePlannerKeeps ==
  ASSUME PlanInv, Whole, InvokePlanner
  PROVE  PlanInv'
<1>1. /\ pass.pc = "stage" /\ pass.i \in DOMAIN StageOrder /\ Kind[Current] = "planner"
  BY Startable DEF InvokePlanner, AtPlanner
<1>2. /\ CoreOK /\ RunsOK /\ PlanOK(stream) /\ PlanOK(pass.snapshot) /\ operator.pc = "idle"
      /\ pass.revision = stream.approved /\ stream.approved \in Revisions /\ On(stream.approved)
      /\ pass.stale \subseteq Stages
      /\ Agree(pass.snapshot, stream) /\ Resolved(pass.snapshot)
      /\ pass.snapshot.charged = stream.charged
  BY <1>1, InLoop
<1>3. /\ stream' = PlannerCharged(stream) /\ Goto("planning") /\ UNCHANGED <<run, store, operator>>
  BY DEF InvokePlanner
<1>4. PlanOK(stream') /\ Quiet(stream, stream')
  BY <1>2, <1>3, AfterPlannerCharged
<1>5. RunsOK' /\ SameStarts
  BY <1>2, <1>3, <1>4, RowsKept DEF Quiet, Ruled
<1>6. CoreOK'
  BY <1>2, <1>4, <1>5, QuietCore
<1>7. /\ pass'.pc = "planning" /\ pass'.i = pass.i /\ pass'.revision = pass.revision
      /\ pass'.snapshot = pass.snapshot /\ pass'.resolved = pass.resolved
      /\ pass'.stale = pass.stale
  BY <1>3, GotoFields
<1>8. Agree(pass'.snapshot, stream') /\ pass'.snapshot.charged = stream'.charged
  BY <1>2, <1>4, <1>7 DEF Quiet, Agree, Same, Booked
<1>9. Resolved(pass.snapshot)' /\ On(pass.revision)' /\ Current' = Current
  BY <1>2, <1>4, <1>7 DEF Resolved, On, Quiet, Ruled, Current
<1>10. PassOK'
  BY <1>1, <1>2, <1>4, <1>7, <1>8, <1>9, AnsweringPass DEF Answering, Quiet, Ruled
<1> QED
  BY <1>2, <1>3, <1>5, <1>6, <1>10, OperatorRests DEF PlanInv, CoreOK, PassOK

(* The planner answers while the revision it planned for still governs. *)
LEMMA Answered ==
  ASSUME PlanInv, pass.pc = "planning", ~Locked, ~approvedRevisionMoved
  PROVE  /\ CoreOK /\ RunsOK /\ PlanOK(stream) /\ PlanOK(pass.snapshot) /\ operator.pc = "idle"
         /\ pass.revision = stream.approved /\ stream.approved \in Revisions /\ On(stream.approved)
         /\ pass.stale \subseteq Stages
         /\ Agree(pass.snapshot, stream) /\ Resolved(pass.snapshot)
         /\ pass.snapshot.charged = stream.charged
         /\ pass.i \in DOMAIN StageOrder /\ Kind[Current] = "planner"
<1>1. PlacedOK /\ SnapshotOK /\ ResolvedOK /\ CoreOK /\ RunsOK
  BY DEF PlanInv, CoreOK
<1>2. operator.pc = "idle" /\ pass.revision = stream.approved
  BY DEF Locked, approvedRevisionMoved
<1>3. /\ Agree(pass.snapshot, stream) /\ Resolved(pass.snapshot)
  BY <1>1, <1>2 DEF SnapshotOK, ResolvedOK
<1>4. /\ PlanOK(pass.snapshot) /\ pass.revision \in Revisions /\ On(pass.revision)
      /\ pass.stale \subseteq Stages /\ pass.snapshot.charged = stream.charged
      /\ pass.i \in DOMAIN StageOrder /\ Kind[Current] = "planner"
  BY <1>1 DEF PlacedOK, Answering
<1> QED
  BY <1>1, <1>2, <1>3, <1>4 DEF CoreOK

LEMMA PlannerDroppedKeeps ==
  ASSUME PlanInv, Whole, PlannerDropped
  PROVE  PlanInv'
<1>0. pass.pc = "planning" /\ ~Locked /\ UNCHANGED <<run, stream, store, operator>>
  BY DEF PlannerDropped, At
<1>1. CoreOK /\ RunsOK /\ PlanOK(stream) /\ operator.pc = "idle"
  BY <1>0, Parts DEF CoreOK, Locked
<1>2. RunsOK' /\ SameStarts
  BY <1>0, <1>1, RowsKept
<1>3. CoreOK'
  BY <1>0, <1>1, <1>2, QuietIsReflexive, QuietCore
<1>4. CASE approvedRevisionMoved
  <2>1. PassOK'
    BY <1>4, IdlePass DEF PlannerDropped
  <2> QED
    BY <1>0, <1>1, <1>2, <1>3, <2>1, OperatorRests DEF PlanInv, CoreOK, PassOK
<1>5. CASE ~approvedRevisionMoved
  <2>1. /\ pass.revision = stream.approved /\ stream.approved \in Revisions /\ On(stream.approved)
        /\ pass.stale \subseteq Stages
        /\ Agree(pass.snapshot, stream) /\ Resolved(pass.snapshot)
        /\ pass.i \in DOMAIN StageOrder
    BY <1>0, <1>5, Answered
  <2>2. /\ pass'.pc = "stage" /\ pass'.i = pass.i + 1 /\ pass'.revision = pass.revision
        /\ pass'.snapshot = stream /\ pass'.resolved = pass.resolved /\ pass'.stale = pass.stale
    BY <1>5 DEF PlannerDropped, Whole
  <2>3. Resolved(pass.snapshot)' /\ On(pass.revision)'
    BY <1>0, <2>1, <2>2 DEF Resolved, On, Agree, Same, StagesOf
  <2>4. pass'.i \in Nat
    BY <2>1, <2>2, CurrentStage
  <2>5. PassOK'
    BY <1>0, <1>1, <2>1, <2>2, <2>3, <2>4, QuietIsReflexive, StagePass
  <2> QED
    BY <1>0, <1>1, <1>2, <1>3, <2>5, OperatorRests DEF PlanInv, CoreOK, PassOK
<1> QED
  BY <1>4, <1>5

LEMMA PlannerRefusedKeeps ==
  ASSUME PlanInv, Whole, PlannerRefused
  PROVE  PlanInv'
<1>0. /\ pass.pc = "planning" /\ ~Locked /\ ~approvedRevisionMoved /\ Goto("settlePlanner")
      /\ UNCHANGED <<run, stream, store, operator>>
  BY DEF PlannerRefused, At
<1>1. /\ CoreOK /\ RunsOK /\ PlanOK(stream) /\ PlanOK(pass.snapshot) /\ operator.pc = "idle"
      /\ pass.revision = stream.approved /\ stream.approved \in Revisions /\ On(stream.approved)
      /\ pass.stale \subseteq Stages
      /\ Agree(pass.snapshot, stream) /\ Resolved(pass.snapshot)
      /\ pass.snapshot.charged = stream.charged
      /\ pass.i \in DOMAIN StageOrder /\ Kind[Current] = "planner"
  BY <1>0, Answered
<1>2. RunsOK' /\ SameStarts
  BY <1>0, <1>1, RowsKept
<1>3. CoreOK'
  BY <1>0, <1>1, <1>2, QuietIsReflexive, QuietCore
<1>4. /\ pass'.pc = "settlePlanner" /\ pass'.i = pass.i /\ pass'.revision = pass.revision
      /\ pass'.snapshot = pass.snapshot /\ pass'.resolved = pass.resolved
      /\ pass'.stale = pass.stale
  BY <1>0, GotoFields
<1>5. Resolved(pass.snapshot)' /\ On(pass.revision)' /\ Current' = Current
  BY <1>0, <1>1, <1>4 DEF Resolved, On, Current
<1>6. PassOK'
  BY <1>0, <1>1, <1>4, <1>5, AnsweringPass DEF Answering
<1> QED
  BY <1>0, <1>1, <1>2, <1>3, <1>6, OperatorRests DEF PlanInv, CoreOK, PassOK

LEMMA PlannerProposedKeeps ==
  ASSUME PlanInv, Whole, PlannerProposed
  PROVE  PlanInv'
<1>0. /\ pass.pc = "planning" /\ ~Locked /\ ~approvedRevisionMoved /\ Goto("revise")
      /\ UNCHANGED <<run, stream, operator>> /\ nextFreeRevision \in Revisions
  BY FreeTyped DEF PlannerProposed, At
<1>1. /\ CoreOK /\ RunsOK /\ PlanOK(stream) /\ PlanOK(pass.snapshot) /\ operator.pc = "idle"
      /\ pass.revision = stream.approved /\ stream.approved \in Revisions /\ On(stream.approved)
      /\ pass.stale \subseteq Stages
      /\ Agree(pass.snapshot, stream) /\ Resolved(pass.snapshot)
      /\ pass.snapshot.charged = stream.charged
      /\ pass.i \in DOMAIN StageOrder /\ Kind[Current] = "planner"
  BY <1>0, Answered
<1>2. PICK q : q = [from |-> pass.revision, to |-> nextFreeRevision]
  OBVIOUS
<1>3. q \in [from : Revisions, to : Revisions]
  BY <1>0, <1>1, <1>2
<1>4. store' = [store EXCEPT !.proposals = @ \cup {q}]
  BY <1>2 DEF PlannerProposed
<1>5. /\ store' \in Stores /\ store'.frozen = store.frozen /\ store'.revisions = store.revisions
  BY <1>1, <1>3, <1>4 DEF RunsOK, Stores
<1>6. RunsOK' /\ SameStarts
  BY <1>0, <1>1, <1>5 DEF RunsOK, SameStarts, startedRun
<1>7. CoreOK'
  BY <1>0, <1>1, <1>6, QuietIsReflexive, QuietCore
<1>8. /\ pass'.pc = "revise" /\ pass'.i = pass.i /\ pass'.revision = pass.revision
      /\ pass'.snapshot = pass.snapshot /\ pass'.resolved = pass.resolved
      /\ pass'.stale = pass.stale
  BY <1>0, GotoFields
<1>9. /\ Resolved(pass.snapshot)' /\ On(pass.revision)' /\ Current' = Current
      /\ nextFreeRevision' \in Revisions
  BY <1>0, <1>1, <1>5, <1>8 DEF Resolved, On, Current, nextFreeRevision
<1>10. PassOK'
  BY <1>0, <1>1, <1>8, <1>9, AnsweringPass DEF Answering
<1> QED
  BY <1>0, <1>1, <1>6, <1>7, <1>10, OperatorRests DEF PlanInv, CoreOK, PassOK

LEMMA StoreProposedRevisionKeeps ==
  ASSUME PlanInv, Whole, StoreProposedRevision
  PROVE  PlanInv'
<1>0. /\ pass.pc = "revise" /\ Goto("contract") /\ UNCHANGED <<run, stream, operator>>
  BY DEF StoreProposedRevision, At
<1>1. /\ CoreOK /\ RunsOK /\ PlanOK(stream) /\ PlanOK(pass.snapshot) /\ operator.pc = "idle"
      /\ pass.revision = stream.approved /\ stream.approved \in Revisions /\ On(stream.approved)
      /\ pass.stale \subseteq Stages
      /\ Agree(pass.snapshot, stream) /\ Resolved(pass.snapshot)
      /\ pass.snapshot.charged = stream.charged
  BY <1>0, InLoop
<1>2. pass.i \in DOMAIN StageOrder /\ Kind[Current] = "planner" /\ nextFreeRevision \in Revisions
  BY <1>0 DEF PlanInv, PlacedOK, Answering
<1>3. PICK n : n = nextFreeRevision
  OBVIOUS
<1>4. store' = [store EXCEPT !.revisions = @ \cup {n}]
  BY <1>3 DEF StoreProposedRevision
<1>5. store' \in Stores /\ store'.frozen = store.frozen
  BY <1>1, <1>2, <1>3, <1>4 DEF RunsOK, Stores
<1>6. RunsOK' /\ SameStarts
  BY <1>0, <1>1, <1>5 DEF RunsOK, SameStarts, startedRun
<1>7. CoreOK'
  BY <1>0, <1>1, <1>6, QuietIsReflexive, QuietCore
<1>8. /\ pass'.pc = "contract" /\ pass'.i = pass.i /\ pass'.revision = pass.revision
      /\ pass'.snapshot = pass.snapshot /\ pass'.resolved = pass.resolved
      /\ pass'.stale = pass.stale
  BY <1>0, GotoFields
<1>9. Resolved(pass.snapshot)' /\ On(pass.revision)' /\ Current' = Current
  BY <1>0, <1>1, <1>8 DEF Resolved, On, Current
<1>10. PassOK'
  BY <1>0, <1>1, <1>2, <1>8, <1>9, AnsweringPass DEF Answering
<1> QED
  BY <1>0, <1>1, <1>6, <1>7, <1>10, OperatorRests DEF PlanInv, CoreOK, PassOK

LEMMA StoreProposedContractKeeps ==
  ASSUME PlanInv, Whole, StoreProposedContract
  PROVE  PlanInv'
<1>0. /\ pass.pc = "contract" /\ Goto("settlePlanner") /\ UNCHANGED <<run, stream, operator>>
  BY DEF StoreProposedContract, At
<1>1. /\ CoreOK /\ RunsOK /\ PlanOK(stream) /\ PlanOK(pass.snapshot) /\ operator.pc = "idle"
      /\ pass.revision = stream.approved /\ stream.approved \in Revisions /\ On(stream.approved)
      /\ pass.stale \subseteq Stages
      /\ Agree(pass.snapshot, stream) /\ Resolved(pass.snapshot)
      /\ pass.snapshot.charged = stream.charged
  BY <1>0, InLoop
<1>2. pass.i \in DOMAIN StageOrder /\ Kind[Current] = "planner"
  BY <1>0 DEF PlanInv, PlacedOK, Answering
<1>3. PICK new : new = {n \in store.revisions : \A m \in store.revisions : m <= n}
  OBVIOUS
<1>4. store' = [store EXCEPT !.contracts = @ \cup new]
  BY <1>3 DEF StoreProposedContract
<1>5. store' \in Stores /\ store'.frozen = store.frozen
  BY <1>1, <1>3, <1>4 DEF RunsOK, Stores
<1>6. RunsOK' /\ SameStarts
  BY <1>0, <1>1, <1>5 DEF RunsOK, SameStarts, startedRun
<1>7. CoreOK'
  BY <1>0, <1>1, <1>6, QuietIsReflexive, QuietCore
<1>8. /\ pass'.pc = "settlePlanner" /\ pass'.i = pass.i /\ pass'.revision = pass.revision
      /\ pass'.snapshot = pass.snapshot /\ pass'.resolved = pass.resolved
      /\ pass'.stale = pass.stale
  BY <1>0, GotoFields
<1>9. Resolved(pass.snapshot)' /\ On(pass.revision)' /\ Current' = Current
  BY <1>0, <1>1, <1>8 DEF Resolved, On, Current
<1>10. PassOK'
  BY <1>0, <1>1, <1>2, <1>8, <1>9, AnsweringPass DEF Answering
<1> QED
  BY <1>0, <1>1, <1>6, <1>7, <1>10, OperatorRests DEF PlanInv, CoreOK, PassOK

LEMMA SettlePlannerKeeps ==
  ASSUME PlanInv, Whole, SettlePlanner
  PROVE  PlanInv'
<1>0. pass.pc = "settlePlanner"
  BY DEF SettlePlanner, At
<1>1. PICK s : s = Current
  OBVIOUS
<1>2. pass.i \in DOMAIN StageOrder /\ s \in Stages /\ ~Agent(s)
  BY <1>0, <1>1, CurrentStage DEF PlanInv, PlacedOK, Answering, Agent
<1>3. /\ CoreOK /\ RunsOK /\ PlanOK(stream) /\ operator.pc = "idle" /\ stream.approved # 0
  BY <1>0, InLoop
<1>4. stream' = Settled(stream, s, "completed") /\ UNCHANGED <<run, store, operator>>
  BY <1>1 DEF SettlePlanner
<1>5. LET q == Settled(stream, s, "completed")
      IN  /\ PlanOK(q) /\ Others(stream, q, s) /\ Ruled(stream, q) /\ Booked(stream, q)
          /\ q.stage[s].state = "completed" /\ q.stage[s].run = stream.stage[s].run
          /\ q.stage[s].generation = stream.stage[s].generation
  BY <1>2, <1>3, AfterSettled
<1>6. /\ PlanOK(stream') /\ Others(stream, stream', s) /\ Ruled(stream, stream')
      /\ Booked(stream, stream') /\ stream'.stage[s].state = "completed"
      /\ stream'.stage[s].run = stream.stage[s].run
      /\ stream'.stage[s].generation = stream.stage[s].generation
  BY <1>4, <1>5
<1>7. RunsOK' /\ SameStarts
  BY <1>3, <1>4, <1>6, RowsKept DEF Ruled
<1>8. CoreOK'
  BY <1>2, <1>3, <1>6, <1>7, SettleCore DEF Restartable
<1>9. /\ pass'.pc = "stage" /\ pass'.i = pass.i + 1 /\ pass'.revision = pass.revision
      /\ pass'.snapshot = stream' /\ pass'.resolved = pass.resolved /\ pass'.stale = pass.stale
  BY DEF SettlePlanner, Whole
<1>10. pass'.i \in Nat
  BY <1>2, <1>9, CurrentStage
<1>11. PassOK'
  BY <1>0, <1>2, <1>6, <1>9, <1>10, ReplayedPass DEF Others
<1> QED
  BY <1>3, <1>4, <1>7, <1>8, <1>11, OperatorRests DEF PlanInv, CoreOK, PassOK

-----------------------------------------------------------------------------
(* What every execution of a plan keeps.                                    *)

LEMMA PlanInvNext ==
  ASSUME PlanInv, Whole, [Next]_vars
  PROVE  PlanInv'
<1>1. CASE PassStep
  BY <1>1, BeginPassKeeps, recordMissingSupersessionKeeps, settleFinishedStagesKeeps,
     AppendSettledKeeps, invalidateStaleCompletedStagesKeeps, UpkeepKeeps, AdvanceStageKeeps,
     gateSatisfactionKeeps, BlockStageKeeps, InvalidateOrphanKeeps, FreezeAssignmentKeeps,
     ClaimRunKeeps, AppendAssignedKeeps, AppendChildRunKeeps, AppendRunStartedKeeps,
     BlockPlannerKeeps, InvokePlannerKeeps, PlannerDroppedKeeps, PlannerRefusedKeeps,
     PlannerProposedKeeps, StoreProposedRevisionKeeps, StoreProposedContractKeeps, SettlePlannerKeeps
  DEF PassStep
<1>2. CASE OperatorStep
  BY <1>2, ProposeKeeps, ApproveKeeps, RejectKeeps DEF OperatorStep
<1>3. CASE FinishDecision
  BY <1>3, StoreContractKeeps, AppendSupersededKeeps DEF FinishDecision
<1>4. CASE RunStep
  BY <1>4, RunStepKeeps
<1>5. CASE Crash
  BY <1>5, CrashKeeps
<1>6. CASE UNCHANGED vars
  <2>1. RunsOK /\ PlanOK(stream) /\ UNCHANGED <<run, stream, store, pass, operator>>
    BY <1>6 DEF PlanInv, vars
  <2>2. RunsOK' /\ SameStarts
    BY <2>1, RowsKept
  <2> QED
    BY <2>1, <2>2, QuietIsReflexive, QuietStep
<1> QED
  BY <1>1, <1>2, <1>3, <1>4, <1>5, <1>6 DEF Next

LEMMA PlanInvAlways ==
  Spec => [](PlanInv /\ Whole)
<1>1. Init => PlanInv /\ Whole
  BY PlanInvInit, WholeInit
<1>2. PlanInv /\ Whole /\ [Next]_vars => (PlanInv /\ Whole)'
  BY PlanInvNext, WholeKept
<1> QED
  BY <1>1, <1>2, PTL DEF Spec

(* The rows, the replayed plan and what a pass remembers of it are well     *)
(* formed: no event of plan_projection.go makes a plan that is not one.     *)
THEOREM PlanTypeCorrect ==
  Spec => []TypeOK
<1>1. PlanInv => TypeOK
  BY DEF PlanInv, RunsOK, PlanOK, PlacedOK, TypeOK
<1> QED
  BY <1>1, PlanInvAlways, PTL

(* A run that was announced stays named by its stage, or is retired: no     *)
(* order of settlements, sweeps, supersessions, decisions and crashes makes *)
(* the plan forget a run that may be at work (plan_projection.go).          *)
THEOREM AnnouncedRunsAccountedAlways ==
  Spec => []AnnouncedRunsAccounted
<1>1. PlanInv => AnnouncedRunsAccounted
  BY DEF PlanInv, AccountOK, AnnouncedRunsAccounted
<1> QED
  BY <1>1, PlanInvAlways, PTL

(* While the revision that governs replaced none, every run of it that was  *)
(* created is retired, named by its stage, or what the stage waits for.     *)
LEMMA FirstRevision ==
  ASSUME PlanInv, NEW r \in RunIds, startedRun(r), RevisionOf(r) = stream.approved,
         stream.approved \notin stream.superseded
  PROVE  /\ r \in stream.retired \/ stream.stage[StageOf(r)].run = r \/ Waiting(r)
         /\ r \notin stream.charged => Waiting(r)
<1>1. GovernedOK /\ FirstOK
  BY DEF PlanInv
<1>2. On(stream.approved)
  BY <1>1 DEF GovernedOK
<1>3. FirstGoverns
  BY <1>2 DEF On, FirstGoverns
<1> QED
  BY <1>1, <1>3 DEF FirstOK

(* A start that a crash or an error interrupted in a plan's first revision  *)
(* left a run that the next start derives again (startAgentStage,           *)
(* derivedRunID): the sweep and the orphan check advance no generation      *)
(* under it.                                                                *)
THEOREM InterruptedStartsAdoptableAlways ==
  Spec => []InterruptedStartsAdoptable
<1>1. ASSUME PlanInv PROVE InterruptedStartsAdoptable
  <2>1. \A r \in RunIds : open(r) => startedRun(r)
    BY DEF open, startedRun
  <2> QED
    BY <1>1, <2>1, FirstRevision DEF InterruptedStartsAdoptable, Waiting
<1> QED
  BY <1>1, PlanInvAlways, PTL

(* The plan is charged for at most MaxChildRuns runs, and an uncharged run  *)
(* of a first revision is the one its stage stands at, although the ceiling *)
(* is read from the snapshot and charged three writes later.                *)
THEOREM CreatedRunsWithinEnvelopeAlways ==
  Spec => []CreatedRunsWithinEnvelope
<1>1. ASSUME PlanInv PROVE CreatedRunsWithinEnvelope
  <2>1. Cardinality(stream.charged) <= MaxChildRuns
    BY <1>1 DEF PlanInv, EnvelopeOK
  <2> QED
    BY <1>1, <2>1, FirstRevision DEF CreatedRunsWithinEnvelope, Waiting
<1> QED
  BY <1>1, PlanInvAlways, PTL

(* Only ClaimRun creates a run. *)
LEMMA OthersStartNothing ==
  ASSUME PlanInv, Next, ~ClaimRun, NEW r \in RunIds, ~startedRun(r)
  PROVE  run'[r].disposition = "none"
<1>0. run \in [RunIds -> Runs] /\ run[r].disposition = "none"
  BY DEF PlanInv, RunsOK, startedRun
<1>1. CASE run' = run
  BY <1>0, <1>1
<1>2. ASSUME NEW revision, NEW p, Prepare(revision, p) PROVE run'[r].disposition = "none"
  <2>1. run'[r] = deliverBlockingReviews(revision, p, r)
    BY <1>2 DEF Prepare
  <2>2. \A x \in Runs : \A h : [x EXCEPT !.blocked = h].disposition = x.disposition
    BY DEF Runs
  <2> QED
    BY <1>0, <2>1, <2>2 DEF deliverBlockingReviews
<1>3. CASE Upkeep
  BY <1>0, <1>3 DEF Upkeep, stopRetiredRun, open
<1>4. CASE RunStep
  <2>1. PICK q \in RunIds :
          \/ Commit(q) \/ ReachGoal(q) \/ Resume(q) \/ Merge(q) \/ FailReview(q) \/ Stop(q)
          \/ CheckVerdict(q) \/ AppendVerdict(q)
    BY <1>4 DEF RunStep
  <2>2. CASE q # r
    <3>1. run'[r] = run[r]
      BY <1>0, <2>1, <2>2
      DEF Commit, ReachGoal, Resume, Merge, FailReview, Stop, Ends, CheckVerdict, AppendVerdict, Becomes
    <3> QED
      BY <1>0, <3>1
  <2>3. CASE q = r
    <3>1. AppendVerdict(r)
      BY <1>0, <2>1, <2>3 DEF Commit, ReachGoal, Resume, Merge, FailReview, Stop, Ends, CheckVerdict
    <3>2. run'[r] = [run[r] EXCEPT !.admitting = None]
      BY <1>0, <3>1 DEF AppendVerdict
    <3> QED
      BY <1>0, <3>2 DEF Runs
  <2> QED
    BY <2>2, <2>3
<1>5. CASE Crash
  <2>1. run'[r] = [run[r] EXCEPT !.admitting = None]
    BY <1>5 DEF Crash
  <2> QED
    BY <1>0, <2>1 DEF Runs
<1>6. CASE BeginPass
  BY <1>1, <1>2, <1>6 DEF BeginPass
<1>7. CASE recordMissingSupersession
  BY <1>1, <1>2, <1>7 DEF recordMissingSupersession
<1>8. CASE settleFinishedStages
  BY <1>1, <1>8 DEF settleFinishedStages
<1>9. CASE AppendSettled \/ invalidateStaleCompletedStages \/ AdvanceStage \/ gateSatisfaction
           \/ BlockStage \/ InvalidateOrphan \/ FreezeAssignment
           \/ AppendAssigned \/ AppendChildRun \/ AppendRunStarted
  BY <1>1, <1>9
  DEF AppendSettled, invalidateStaleCompletedStages, AdvanceStage, gateSatisfaction, BlockStage,
      InvalidateOrphan, FreezeAssignment, AppendAssigned, AppendChildRun, AppendRunStarted
<1>10. CASE BlockPlanner \/ InvokePlanner \/ PlannerDropped \/ PlannerRefused \/ PlannerProposed
            \/ StoreProposedRevision \/ StoreProposedContract \/ SettlePlanner
  BY <1>1, <1>10
  DEF BlockPlanner, InvokePlanner, PlannerDropped, PlannerRefused, PlannerProposed,
      StoreProposedRevision, StoreProposedContract, SettlePlanner
<1>11. CASE OperatorStep \/ FinishDecision
  BY <1>1, <1>11 DEF OperatorStep, FinishDecision, Propose, Approve, Reject, StoreContract, AppendSuperseded
<1> QED
  BY <1>3, <1>4, <1>5, <1>6, <1>7, <1>8, <1>9, <1>10, <1>11 DEF Next, PassStep

(* Only PlannerProposed records a proposal of the planner's. *)
LEMMA OthersProposeNothing ==
  ASSUME PlanInv, Next, ~PlannerProposed
  PROVE  store'.proposals = store.proposals
<1>0. store \in Stores
  BY DEF PlanInv, RunsOK
<1>1. CASE store' = store
  BY <1>1
<1>2. CASE FreezeAssignment
  BY <1>0, <1>2 DEF FreezeAssignment, Stores
<1>3. CASE StoreProposedRevision \/ StoreProposedContract
  BY <1>0, <1>3 DEF StoreProposedRevision, StoreProposedContract, Stores
<1>4. CASE OperatorStep \/ FinishDecision
  BY <1>0, <1>1, <1>4
  DEF OperatorStep, FinishDecision, Propose, Approve, Reject, StoreContract, AppendSuperseded, Stores
<1>5. CASE RunStep \/ Crash
  BY <1>1, <1>5
  DEF RunStep, Commit, ReachGoal, Resume, Merge, FailReview, Stop, Ends, CheckVerdict, AppendVerdict,
      Becomes, Crash
<1>6. CASE PassStep /\ ~FreezeAssignment /\ ~StoreProposedRevision /\ ~StoreProposedContract
  BY <1>1, <1>6
  DEF PassStep, BeginPass, recordMissingSupersession, settleFinishedStages, AppendSettled,
      invalidateStaleCompletedStages, Upkeep, AdvanceStage, gateSatisfaction, BlockStage,
      InvalidateOrphan, ClaimRun, AppendAssigned, AppendChildRun, AppendRunStarted, BlockPlanner,
      InvokePlanner, PlannerDropped, PlannerRefused, SettlePlanner
<1> QED
  BY <1>2, <1>3, <1>4, <1>5, <1>6 DEF Next

(* Whatever was decided while the lock was given up to the planner, a pass  *)
(* creates runs and proposals only for the revision that governs when it    *)
(* does (planningSeam, approvedRevisionMoved).                              *)
THEOREM PassServesApprovedAlways ==
  Spec => PassServesApproved
<1> DEFINE A == /\ \A r \in RunIds :
                     ~startedRun(r) /\ run'[r].disposition # "none" => RevisionOf(r) = stream.approved
                /\ \A q \in store'.proposals \ store.proposals : q.from = stream.approved
<1>1. ASSUME PlanInv, Next PROVE A
  <2>1. CASE ClaimRun
    <3>1. pass.pc = "claim" /\ store' = store
      BY <2>1 DEF ClaimRun, At
    <3>2. pass.revision = stream.approved /\ stream.approved \in Revisions
      BY <1>1, <3>1, InLoop
    <3>3. pass.i \in DOMAIN StageOrder
      BY <1>1, <3>1 DEF PlanInv, PlacedOK, Starting
    <3>4. Performance \in RunIds /\ RevisionOf(Performance) = stream.approved
      BY <1>1, <3>2, <3>3, ItsPerformance
    <3>5. PICK P : P = Performance
      OBVIOUS
    <3>6. \A r \in RunIds \ {P} : run'[r] = run[r]
      BY <1>1, <2>1, <3>5 DEF ClaimRun, PlanInv, RunsOK
    <3> QED
      BY <3>1, <3>4, <3>5, <3>6 DEF startedRun
  <2>2. CASE PlannerProposed
    <3>1. stream.approved = pass.revision /\ run' = run
      BY <2>2 DEF PlannerProposed, approvedRevisionMoved
    <3>2. store'.proposals = store.proposals \cup {[from |-> pass.revision, to |-> nextFreeRevision]}
      BY <1>1, <2>2 DEF PlannerProposed, PlanInv, RunsOK, Stores
    <3> QED
      BY <3>1, <3>2 DEF startedRun
  <2>3. CASE ~ClaimRun /\ ~PlannerProposed
    BY <1>1, <2>3, OthersStartNothing, OthersProposeNothing
  <2> QED
    BY <2>1, <2>2, <2>3
<1>2. PlanInv /\ [Next]_vars => [A]_vars
  BY <1>1
<1>3. [][A]_vars <=> PassServesApproved
  BY DEF PassServesApproved
<1> HIDE DEF A
<1> QED
  BY <1>2, <1>3, PlanInvAlways, PTL DEF Spec

=============================================================================
