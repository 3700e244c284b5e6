---------------------------- MODULE PlanExecution ----------------------------
(***************************************************************************)
(* One plan being executed: the passes of PlanReconciler                   *)
(* (runtime/plan_reconciler.go), the operator's proposals and decisions    *)
(* (runtime/plan_service.go), the planner, and the child runs, which move  *)
(* on their own.  Passes and operators exclude each other with the plan    *)
(* lock, which a pass gives up while the planner works                     *)
(* (Supervisor.planningSeam).  Runs never take it: a reviewer's verdict    *)
(* reaches the plan stream between any two steps (admitReview).  The       *)
(* controller can crash between any two writes.                            *)
(*                                                                         *)
(* A step of a pass is what it does between two durable writes; the writes *)
(* that are independent of each other and repeated by the next pass        *)
(* (deliveries, gates, attribution and stopping) are one step.  The plan   *)
(* has no objective work graph.                                            *)
(***************************************************************************)
EXTENDS PlanStream

CONSTANTS
  MaxChildRuns,      \* BudgetEnvelope.MaxChildRuns
  MaxConcurrency,    \* BudgetEnvelope.MaxConcurrency
  MaxInvocations,    \* BudgetEnvelope.MaxProviderInvocations
  MaxProposed,       \* bound: the last revision an operator proposes
  MaxPlanning        \* the planner stage's MaxExecutionAttempts

ASSUME EnvelopeAssumption ==
  {MaxChildRuns, MaxConcurrency, MaxInvocations, MaxProposed, MaxPlanning} \subseteq Nat

VARIABLES
  run,       \* the child runs' rows and journals
  stream,    \* the plan, replayed from its stream
  store,     \* the other plan tables
  pass,      \* the pass of the reconciler: its position and its locals
  operator   \* the operator's call: its position and its locals

vars == <<run, stream, store, pass, operator>>

Dispositions ==
  {"none", "active", "goal", "completed", "failed", "cancelled"}

(* "goal" is waiting with the goal state reached and no human decision      *)
(* outstanding (awaitsHumanDecision): a run that has one is to the plan     *)
(* like one at work.  "failed" is a reviewer's invocation failing in a way  *)
(* worth a retry (reviewerFailureRecoverable), "cancelled" any other end    *)
(* short of completion.                                                     *)
Runs ==
  [disposition : Dispositions, head : 0 .. MaxHead, assured : BOOLEAN,
   invocations : Nat, blocked : 0 .. MaxHead,
   admitting : Reviews \cup {None}]
NoRun ==
  [disposition |-> "none", head |-> 0, assured |-> FALSE, invocations |-> 0,
   blocked |-> 0, admitting |-> None]

(* A frozen assignment: the revision it was resolved from and the upstream  *)
(* outputs it consumes.                                                     *)
Assignments == [revision : Revisions, inputs : SUBSET Outputs]
Stores ==
  [revisions : SUBSET Revisions, contracts : SUBSET Revisions,
   proposals : SUBSET [from : Revisions, to : Revisions],
   frozen : [RunIds -> Assignments \cup {None}]]

PassPcs ==
  {"idle", "supersede", "settle", "settling", "invalidate",
   "upkeep", "stage", "claim", "assigned", "charge", "started", "planning",
   "revise", "contract", "settlePlanner"}
Idle ==
  [pc |-> "idle", revision |-> 0, i |-> 0, snapshot |-> EmptyStream,
   resolved |-> [s \in Stages |-> None], awaiting |-> FALSE,
   outcome |-> None, stale |-> {}]
Decided == [pc |-> "idle", revision |-> 0, from |-> 0, invalidated |-> {}]

Init ==
  /\ run = [r \in RunIds |-> NoRun]
  /\ stream = EmptyStream
  /\ store = [revisions |-> {1}, contracts |-> {1}, proposals |-> {},
              frozen |-> [r \in RunIds |-> None]]
  /\ pass = Idle
  /\ operator = Decided

-----------------------------------------------------------------------------
(* Reading the runs. *)

terminalDisposition(d) == d \in {"completed", "failed", "cancelled"}

settledRun(r) ==
  LET d == run[r].disposition
  IN  CASE d \in {"completed", "goal"} -> "completed"
        [] d \in {"failed", "cancelled"} -> "failed"
        [] OTHER -> None

open(r) == run[r].disposition \in {"active", "goal"}

(* The assignment a stage's projection was performed under: this            *)
(* revision's, else the one of the run it kept from an earlier revision.    *)
frozenAssignment(revision, s, projection) ==
  LET own == store.frozen[<<revision, s, projection.generation>>]
      kept == projection.run
  IN  CASE own # None -> own
        [] own = None /\ kept # None /\ RevisionOf(kept) # revision -> store.frozen[kept]
        [] OTHER -> None

movedUpstream(assignment) ==
  \E o \in assignment.inputs :
    /\ o[2] # 0
    /\ settledRun(o[1]) = "completed"
    /\ run[o[1]].head # 0
    /\ run[o[1]].head # o[2]

startedRun(r) == run[r].disposition # "none"

(* What a stage would be assigned: what it is already frozen under, else    *)
(* the outputs its dependencies' runs stand at now (PlanService.Resolve).   *)
Resolve(revision, p, s) ==
  LET projection == p.stage[s]
      frozen == frozenAssignment(revision, s, projection)
      upstream == {p.stage[d].run : d \in DependsOn[s]} \ {None}
  IN  IF projection.assigned /\ frozen # None THEN frozen
      ELSE [revision |-> revision,
            inputs |-> {<<r, run[r].head>> : r \in upstream}]

(* Only what the stage loop can still start is ever read; a running stage   *)
(* is, when settling it asks for another performance.                       *)
Resolution(revision, p) ==
  [s \in Stages |->
     IF /\ s \in StagesOf(revision) /\ Kind[s] \in {"producer", "reviewer"}
        /\ ~terminalStageState(p.stage[s].state)
     THEN Resolve(revision, p, s) ELSE None]

PendingMaterialProposal(revision) ==
  \E q \in store.proposals :
    /\ q.from = revision
    /\ q.to > stream.approved
    /\ q.to \notin stream.rejected

(* Whether a running stage is done, and with which outcome. *)
reviewAcceptance(revision, s, projection) ==
  LET assignment == frozenAssignment(revision, s, projection)
      subject == IF assignment = None THEN None ELSE upstreamSubject(assignment.inputs)
  IN  IF /\ subject # None
         /\ projection.review # None
         /\ projection.review.verdict = "accepted"
         /\ projection.review.of = subject
      THEN "completed" ELSE None

stageAcceptance(revision, s, projection) ==
  LET r == projection.run
  IN  CASE run[r].disposition = "completed" -> "completed"
        [] run[r].disposition \in {"failed", "cancelled"} -> "failed"
        [] run[r].disposition = "goal" /\ Kind[s] = "reviewer" ->
             reviewAcceptance(revision, s, projection)
        [] run[r].disposition = "goal" /\ Kind[s] = "producer" /\ run[r].assured ->
             "completed"
        [] OTHER -> None

Spent(p) ==
  LET total[S \in SUBSET RunIds] ==
        IF S = {} THEN 0 ELSE LET r == CHOOSE x \in S : TRUE IN p.spent[r] + total[S \ {r}]
  IN  p.planned + total[{r \in RunIds : p.spent[r] > 0}]
invocationCeilingReached(p) == Spent(p) >= MaxInvocations

reviewerPerformancesPerSubject == 2

reviewerPerformances(revision, s, current, subject) ==
  Cardinality({g \in 0 .. current :
                 LET r == <<revision, s, g>>
                 IN  /\ store.frozen[r] # None
                     /\ upstreamSubject(store.frozen[r].inputs) = subject
                     /\ startedRun(r)})

(* One more performance of a reviewer whose invocation failed without a     *)
(* verdict, against the same subject, if the plan can still afford it once  *)
(* the failed one is charged.                                               *)
retryFailedReviewer(revision, s, projection, latest) ==
  LET assignment == frozenAssignment(revision, s, projection)
      subject == upstreamSubject(assignment.inputs)
  IN  /\ Kind[s] = "reviewer"
      /\ run[projection.run].disposition = "failed"
      /\ Cardinality(latest.charged) < MaxChildRuns
      /\ ~invocationCeilingReached(latest)
      /\ assignment # None
      /\ subject # None
      /\ reviewerPerformances(revision, s, projection.generation, subject)
           < reviewerPerformancesPerSubject

-----------------------------------------------------------------------------
(* The pass (PlanReconciler.Reconcile).  `snapshot' is the plan as the pass *)
(* last replayed it.                                                        *)

Locked == pass.pc \notin {"idle", "planning"} \/ operator.pc # "idle"
At(pc) == pass.pc = pc
First(I) == CHOOSE i \in I : \A j \in I : i <= j
Goto(pc) == pass' = [pass EXCEPT !.pc = pc]

(* Supersessions an interrupted decision never recorded.  *)
MissingSupersessions(p) ==
  {to \in p.governed \ stream.superseded : \E from \in p.governed : from < to}

(* A blocking verdict reaches the run whose candidate it is about, once. *)
deliverBlockingReviews(revision, p, r) ==
  LET due == \E s \in StagesOf(revision) :
               LET review == p.stage[s].review
               IN  /\ review # None /\ review.verdict = "blocked"
                   /\ review.of = <<r, run[r].head>>
  IN  IF due THEN [run[r] EXCEPT !.blocked = run[r].head] ELSE run[r]

(* Deliver the blocking reviews, resolve the stages and look for a pending  *)
(* proposal: what a pass does once the supersessions are on record.         *)
Prepare(revision, p) ==
  /\ run' = [r \in RunIds |-> deliverBlockingReviews(revision, p, r)]
  /\ pass' = [Idle EXCEPT !.pc = "settle", !.i = 1, !.revision = revision, !.snapshot = p,
                 !.resolved = Resolution(revision, p),
                 !.awaiting = PendingMaterialProposal(revision)]

BeginPass ==
  /\ At("idle") /\ ~Locked
  /\ stream.approved # 0
  /\ IF MissingSupersessions(stream) = {} THEN Prepare(stream.approved, stream)
     ELSE /\ pass' = [Idle EXCEPT !.pc = "supersede", !.revision = stream.approved,
                                  !.snapshot = stream]
          /\ UNCHANGED run
  /\ UNCHANGED <<stream, store, operator>>

(* Oldest first, each computed from the plan as it was replayed at the      *)
(* start of the pass; then replay.                                          *)
recordMissingSupersession ==
  LET missing == MissingSupersessions(pass.snapshot)
      to == First(missing)
      from == CHOOSE n \in pass.snapshot.governed :
                n < to /\ \A m \in pass.snapshot.governed : m < to => m <= n
  IN  /\ At("supersede")
      /\ IF missing = {} THEN Prepare(pass.revision, stream) /\ UNCHANGED stream
         ELSE /\ stream' = Superseded(stream, to, InvalidatedStages(from, to, pass.snapshot))
              /\ UNCHANGED <<run, pass>>
      /\ UNCHANGED <<store, operator>>

(* Stages performed against an upstream candidate that has since moved, and *)
(* everything downstream of them, are performed again.                      *)
stageWorkStopped(projection) ==
  \/ projection.state = "completed"
  \/ projection.state = "running" /\ settledRun(projection.run) # None
StaleStages(revision, p) ==
  LET plan == StagesOf(revision)
      moved == {s \in plan :
                  LET a == frozenAssignment(revision, s, p.stage[s])
                  IN  stageWorkStopped(p.stage[s]) /\ a # None /\ movedUpstream(a)}
      gone == {s \in plan : p.stage[s].state = "invalidated" /\ p.stage[s].under = revision}
  IN  {s \in Downstream(moved \cup gone, plan) \ gone : p.stage[s].state # "pending"}

(* settleFinishedStages: the next stage that is done, its outcome and the   *)
(* charge of what its run spent; then the event that settles it.  When none *)
(* is left, replay if something settled, and look for stale stages.         *)
Outcome(i) ==
  LET s == StageOrder[i]  projection == pass.snapshot.stage[s]
  IN  IF s \in StagesOf(pass.revision) /\ projection.state = "running"
      THEN stageAcceptance(pass.revision, s, projection) ELSE None
Current == StageOrder[pass.i]
Projection == pass.snapshot.stage[Current]
settleFinishedStages ==
  LET done == {i \in DOMAIN StageOrder : i >= pass.i /\ Outcome(i) # None}
      i == First(done)
      s == StageOrder[i]
      projection == pass.snapshot.stage[s]
      replayed == IF pass.outcome = None THEN pass.snapshot ELSE stream
      stale == StaleStages(pass.revision, replayed)
      charged == InvocationsCharged(stream, projection.run, run[projection.run].invocations)
      retry == Outcome(i) = "failed" /\ retryFailedReviewer(pass.revision, s, projection, charged)
  IN  /\ At("settle")
      /\ IF done = {}
         THEN /\ pass' = [pass EXCEPT !.pc = IF stale = {} THEN "upkeep" ELSE "invalidate",
                             !.outcome = None, !.stale = stale, !.snapshot = replayed]
              /\ UNCHANGED stream
         ELSE /\ stream' = charged
              /\ pass' = [pass EXCEPT !.pc = "settling", !.i = i,
                             !.outcome = IF retry THEN "invalidated" ELSE Outcome(i)]
      /\ UNCHANGED <<run, store, operator>>

AppendSettled ==
  /\ At("settling")
  /\ pass.outcome = "invalidated" => MayPerformAgain(stream, Current)
  /\ stream' = IF pass.outcome = "invalidated"
               THEN Invalidated(stream, Current, pass.revision)
               ELSE Settled(stream, Current, pass.outcome)
  /\ pass' = [pass EXCEPT !.pc = "settle", !.i = @ + 1]
  /\ UNCHANGED <<run, store, operator>>

invalidateStaleCompletedStages ==
  /\ At("invalidate")
  /\ \E s \in pass.stale :
       LET next == Invalidated(stream, s, pass.revision)
       IN  /\ MayPerformAgain(stream, s)
           /\ stream' = next
           /\ pass' = IF pass.stale # {s} THEN [pass EXCEPT !.stale = @ \ {s}]
                      ELSE [pass EXCEPT !.stale = {}, !.pc = "upkeep", !.snapshot = next,
                              !.resolved = Resolution(pass.revision, next)]
  /\ UNCHANGED <<run, store, operator>>

(* Upkeep: a gate proved against a head that moved is open again            *)
(* (reopenStaleGates); every run the plan knows is charged what it spent    *)
(* (attributeRunSpend) and a retired one is stopped (stopRetiredRun).       *)
provenHeadsMoved(proven) == \E o \in proven : run[o[1]].head # o[2]
staleGates(p) ==
  {s \in StagesOf(pass.revision) :
     p.stage[s].state = "satisfied" /\ provenHeadsMoved(p.stage[s].proven)}
attributeRunSpend(p, r) ==
  IF r \in p.retired \/ \E s \in Stages : p.stage[s].run = r
  THEN run[r].invocations ELSE stream.spent[r]
(* Variant of stopRetiredRun that leaves a run waiting at its goal. *)
stopRetiredRunAtWork(p, r) ==
  IF r \in p.retired /\ run[r].disposition = "active"
  THEN [run[r] EXCEPT !.disposition = "cancelled"] ELSE run[r]
stopRetiredRun(p, r) ==
  IF r \in p.retired /\ open(r) THEN [run[r] EXCEPT !.disposition = "cancelled"] ELSE run[r]
Upkeep ==
  LET p == pass.snapshot
      next == [stream EXCEPT
                 !.stage = [s \in Stages |-> IF s \in staleGates(p)
                                             THEN [@[s] EXCEPT !.state = "invalidated"] ELSE @[s]],
                 !.spent = [r \in RunIds |-> attributeRunSpend(p, r)]]
  IN  /\ At("upkeep")
      /\ stream' = next
      /\ run' = [r \in RunIds |-> stopRetiredRun(p, r)]
      /\ pass' = [pass EXCEPT !.pc = "stage", !.i = 1,
                              !.snapshot = IF next = stream THEN @ ELSE next]
      /\ UNCHANGED <<store, operator>>

-----------------------------------------------------------------------------
(* The stage loop. *)

Skip == pass' = [pass EXCEPT !.pc = "stage", !.i = @ + 1]
NextStage(p) == pass' = [pass EXCEPT !.pc = "stage", !.i = @ + 1, !.snapshot = p]
Performance == <<pass.revision, Current, Projection.generation>>

StartableAt(i) ==
  LET s == StageOrder[i]
  IN  /\ s \in StagesOf(pass.revision)
      /\ ~terminalStageState(pass.snapshot.stage[s].state)
      /\ pass.snapshot.stage[s].state # "running"
      /\ ~pass.awaiting
      /\ planDependenciesSatisfied(s, pass.snapshot)

(* On to the next stage that can be started, or to the pass's end. *)
AdvanceStage ==
  LET ahead == {i \in DOMAIN StageOrder : i >= pass.i /\ StartableAt(i)}
  IN  /\ At("stage") /\ pass.i \notin ahead
      /\ pass' = IF ahead = {} THEN Idle ELSE [pass EXCEPT !.i = First(ahead)]
      /\ UNCHANGED <<run, stream, store, operator>>

AtStage(kinds) ==
  /\ At("stage")
  /\ pass.i \in DOMAIN StageOrder
  /\ StartableAt(pass.i)
  /\ Kind[Current] \in kinds

(* An assurance gate is proved by the runs upstream of it that carry a      *)
(* verification: all of them current and passed, and at least one.          *)
gateSatisfaction ==
  LET upstream == {pass.snapshot.stage[s].run : s \in upstreamStageIDs(Current)} \ {None}
      proving == {r \in upstream : run[r].head > 0}
      satisfied == proving # {} /\ \A r \in proving : run[r].assured
      next == GateSatisfied(stream, Current, {<<r, run[r].head>> : r \in proving})
  IN  /\ AtStage({"gate"})
      /\ IF satisfied THEN stream' = next /\ NextStage(next)
                      ELSE Skip /\ UNCHANGED stream
      /\ UNCHANGED <<run, store, operator>>

(* startAgentStage, up to its first write.  It stops with a block when an   *)
(* upstream run is at work, when a ceiling is reached, or when the worker,  *)
(* the authority or the workspace it needs is not what was approved         *)
(* (refusePrivilegeChange, refuseWorkerDrift, unreachableUpstream), which   *)
(* may happen at any time.                                                  *)
Durable == store.frozen[Performance]
Assignment == IF Durable # None THEN Durable ELSE pass.resolved[Current]
(* Variant of Orphaned that does not look for the run. *)
OrphanedUnseen == Durable # None /\ ~Projection.assigned /\ movedUpstream(Durable)
Orphaned ==
  /\ Durable # None /\ ~Projection.assigned
  /\ movedUpstream(Durable)
  /\ ~startedRun(Performance)
(* Variant of MayStart that lets one run more than the envelope. *)
MayStartOneMore ==
  /\ \A o \in Assignment.inputs : startedRun(o[1]) => settledRun(o[1]) # None
  /\ Cardinality(pass.snapshot.charged) <= MaxChildRuns
  /\ ~invocationCeilingReached(pass.snapshot)
  /\ activeStages(pass.snapshot) < MaxConcurrency
MayStart ==
  /\ \A o \in Assignment.inputs : startedRun(o[1]) => settledRun(o[1]) # None
  /\ Cardinality(pass.snapshot.charged) < MaxChildRuns
  /\ ~invocationCeilingReached(pass.snapshot)
  /\ activeStages(pass.snapshot) < MaxConcurrency

AtAgentStage == AtStage({"producer", "reviewer"})

BlockStage ==
  /\ \/ AtAgentStage /\ ~Orphaned
     \/ At("claim")
  /\ Skip
  /\ UNCHANGED <<run, stream, store, operator>>

(* An assignment frozen against a candidate that moved, and never run, is   *)
(* replaced by a new generation.                                            *)
InvalidateOrphan ==
  LET next == Invalidated(stream, Current, pass.revision)
  IN  /\ AtAgentStage /\ Orphaned
      /\ MayPerformAgain(stream, Current)
      /\ stream' = next
      /\ NextStage(next)
      /\ UNCHANGED <<run, store, operator>>

(* The first assignment frozen for a performance is the one it keeps        *)
(* (PutPlanAssignment).                                                     *)
FreezeAssignment ==
  /\ AtAgentStage /\ ~Orphaned /\ MayStart
  /\ store' = [store EXCEPT !.frozen[Performance] = Assignment]
  /\ Goto("claim")
  /\ UNCHANGED <<run, stream, operator>>

(* StartPlanStageRun: create the performance's run, or adopt it. *)
ClaimRun ==
  /\ At("claim")
  /\ run' = [run EXCEPT ![Performance].disposition = IF @ = "none" THEN "active" ELSE @]
  /\ Goto("assigned")
  /\ UNCHANGED <<stream, store, operator>>

AppendAssigned ==
  /\ At("assigned")
  /\ stream' = StageAssigned(stream, Current, Performance)
  /\ Goto("charge")
  /\ UNCHANGED <<run, store, operator>>

AppendChildRun ==
  /\ At("charge")
  /\ stream' = ChildRunCharged(stream, Current, Performance)
  /\ Goto("started")
  /\ UNCHANGED <<run, store, operator>>

AppendRunStarted ==
  LET next == RunStarted(stream, Current, Performance)
  IN  /\ At("started")
      /\ stream' = next
      /\ NextStage(next)
      /\ UNCHANGED <<run, store, operator>>

-----------------------------------------------------------------------------
(* The planning stage (decomposeStage). *)

AtPlanner == AtStage({"planner"})
(* Variant of approvedRevisionMoved that does not look again. *)
approvedRevisionMovedUnread == FALSE
approvedRevisionMoved == stream.approved # pass.revision

BlockPlanner ==
  /\ AtPlanner
  /\ invocationCeilingReached(stream) \/ stream.planned >= MaxPlanning
  /\ NextStage(stream)
  /\ UNCHANGED <<run, stream, store, operator>>

(* The attempt is charged before it is made, and the lock released. *)
InvokePlanner ==
  /\ AtPlanner
  /\ ~invocationCeilingReached(stream) /\ stream.planned < MaxPlanning
  /\ stream' = PlannerCharged(stream)
  /\ Goto("planning")
  /\ UNCHANGED <<run, store, operator>>

(* The planner failed, or the revision it planned for is no longer the      *)
(* approved one: its answer is dropped, and in the second case the pass     *)
(* with it.                                                                 *)
PlannerDropped ==
  /\ At("planning") /\ ~Locked
  /\ IF approvedRevisionMoved THEN pass' = Idle
     ELSE pass' = [pass EXCEPT !.pc = "stage", !.i = @ + 1, !.snapshot = stream,
                               !.awaiting = PendingMaterialProposal(pass.revision)]
  /\ UNCHANGED <<run, stream, store, operator>>

(* Its answer does not compile: nothing to approve, and the stage is done. *)
PlannerRefused ==
  /\ At("planning") /\ ~Locked /\ ~approvedRevisionMoved
  /\ Goto("settlePlanner")
  /\ UNCHANGED <<run, stream, store, operator>>

nextFreeRevision ==
  LET free == {n \in Revisions : n > pass.revision /\ n \notin store.revisions}
  IN  IF free = {} THEN None ELSE CHOOSE n \in free : \A m \in free : n <= m
PlannerProposed ==
  /\ At("planning") /\ ~Locked /\ ~approvedRevisionMoved
  /\ nextFreeRevision # None
  /\ store' = [store EXCEPT !.proposals =
                 @ \cup {[from |-> pass.revision, to |-> nextFreeRevision]}]
  /\ Goto("revise")
  /\ UNCHANGED <<run, stream, operator>>

StoreProposedRevision ==
  /\ At("revise")
  /\ store' = [store EXCEPT !.revisions = @ \cup {nextFreeRevision}]
  /\ Goto("contract")
  /\ UNCHANGED <<run, stream, operator>>

(* The contract of the revision just stored, without which it cannot be     *)
(* approved.                                                                *)
StoreProposedContract ==
  /\ At("contract")
  /\ store' = [store EXCEPT !.contracts =
                 @ \cup {n \in store.revisions : \A m \in store.revisions : m <= n}]
  /\ Goto("settlePlanner")
  /\ UNCHANGED <<run, stream, operator>>

SettlePlanner ==
  LET next == Settled(stream, Current, "completed")
  IN  /\ At("settlePlanner")
      /\ stream' = next
      /\ pass' = [pass EXCEPT !.pc = "stage", !.i = @ + 1, !.snapshot = next,
                              !.awaiting = PendingMaterialProposal(pass.revision)]
      /\ UNCHANGED <<run, store, operator>>

PassStep ==
  \/ BeginPass \/ recordMissingSupersession
  \/ settleFinishedStages \/ AppendSettled
  \/ invalidateStaleCompletedStages \/ Upkeep
  \/ AdvanceStage \/ gateSatisfaction
  \/ BlockStage \/ InvalidateOrphan \/ FreezeAssignment \/ ClaimRun
  \/ AppendAssigned \/ AppendChildRun \/ AppendRunStarted
  \/ BlockPlanner \/ InvokePlanner
  \/ PlannerDropped \/ PlannerRefused \/ PlannerProposed
  \/ StoreProposedRevision \/ StoreProposedContract \/ SettlePlanner

-----------------------------------------------------------------------------
(* The operator (PlanService.Propose, PlanService.decide), under the lock.  *)
(* A decision is two events when it replaces a governing revision.          *)

Propose(revision) ==
  /\ ~Locked
  /\ revision = Cardinality(store.revisions) + 1 /\ revision <= MaxProposed
  /\ store' = [store EXCEPT !.revisions = @ \cup {revision}]
  /\ operator' = [Decided EXCEPT !.pc = "contract", !.revision = revision]
  /\ UNCHANGED <<run, stream, pass>>
StoreContract ==
  /\ operator.pc = "contract"
  /\ store' = [store EXCEPT !.contracts = @ \cup {operator.revision}]
  /\ operator' = Decided
  /\ UNCHANGED <<run, stream, pass>>

Approve(revision) ==
  LET governing == stream.approved
  IN  /\ ~Locked
      /\ revision \in store.contracts /\ revision > governing
      /\ stream' = Approved(stream, revision)
      /\ operator' = IF governing = 0 THEN Decided
                     ELSE [pc |-> "supersede", revision |-> revision, from |-> governing,
                           invalidated |-> InvalidatedStages(governing, revision, stream)]
      /\ UNCHANGED <<run, store, pass>>
AppendSuperseded ==
  /\ operator.pc = "supersede"
  /\ stream' = Superseded(stream, operator.revision, operator.invalidated)
  /\ operator' = Decided
  /\ UNCHANGED <<run, store, pass>>

Reject(revision) ==
  /\ ~Locked
  /\ revision > stream.approved /\ revision \notin stream.rejected
  /\ revision \in store.revisions
  /\ \E q \in store.proposals : q.to = revision
  /\ stream' = Rejected(stream, revision)
  /\ UNCHANGED <<run, store, pass, operator>>

OperatorStep == \E n \in Revisions : Propose(n) \/ Approve(n) \/ Reject(n)
FinishDecision == StoreContract \/ AppendSuperseded

-----------------------------------------------------------------------------
(* The child runs. *)

Becomes(r, changed) ==
  /\ run' = [run EXCEPT ![r] = changed]
  /\ UNCHANGED <<stream, store, pass, operator>>

Commit(r) ==
  /\ run[r].disposition = "active" /\ Kind[StageOf(r)] = "producer"
  /\ run[r].head < MaxHead
  /\ Becomes(r, [run[r] EXCEPT !.head = @ + 1, !.assured = FALSE, !.invocations = @ + 1])

(* A producer reaches its goal state proved or not; one that a delivered    *)
(* review blocks needs another candidate first.                             *)
ReachGoal(r) ==
  /\ run[r].disposition = "active" /\ run[r].invocations > 0
  /\ run[r].admitting = None
  /\ run[r].head = 0 \/ run[r].blocked # run[r].head
  /\ \E proved \in {run[r].assured, Kind[StageOf(r)] = "producer"} :
       Becomes(r, [run[r] EXCEPT !.disposition = "goal", !.assured = proved])

(* Feedback, a blocking review or an answer puts a producer to work again. *)
Resume(r) ==
  /\ run[r].disposition = "goal" /\ Kind[StageOf(r)] = "producer"
  /\ Becomes(r, [run[r] EXCEPT !.disposition = "active"])

Ends(r, from, to) ==
  run[r].disposition \in from /\ Becomes(r, [run[r] EXCEPT !.disposition = to])
Merge(r) == Kind[StageOf(r)] = "producer" /\ Ends(r, {"goal"}, "completed")
FailReview(r) ==
  Kind[StageOf(r)] = "reviewer" /\ run[r].admitting = None /\ Ends(r, {"active"}, "failed")
Stop(r) == Ends(r, {"active", "goal"}, "cancelled")

(* A reviewer's verdict is checked against the plan and then appended to    *)
(* it, without the lock (admitReview).                                      *)
CheckVerdict(r) ==
  LET subject == upstreamSubject(store.frozen[r].inputs)
  IN  /\ run[r].disposition = "active" /\ Kind[StageOf(r)] = "reviewer"
      /\ run[r].invocations = 0
      /\ r \notin stream.retired
      /\ subject # None
      /\ \E verdict \in {"accepted", "blocked"} :
           Becomes(r, [run[r] EXCEPT !.invocations = 1,
                         !.admitting = [verdict |-> verdict, by |-> r, of |-> subject]])
AppendVerdict(r) ==
  /\ run[r].admitting # None
  /\ stream' = Reviewed(stream, StageOf(r), run[r].admitting)
  /\ run' = [run EXCEPT ![r].admitting = None]
  /\ UNCHANGED <<store, pass, operator>>

RunStep ==
  \E r \in RunIds :
    \/ Commit(r) \/ ReachGoal(r) \/ Resume(r)
    \/ Merge(r) \/ FailReview(r) \/ Stop(r)
    \/ CheckVerdict(r) \/ AppendVerdict(r)

(* Everything in memory is lost. *)
Crash ==
  /\ pass # Idle \/ operator # Decided \/ \E r \in RunIds : run[r].admitting # None
  /\ pass' = Idle
  /\ operator' = Decided
  /\ run' = [r \in RunIds |-> [run[r] EXCEPT !.admitting = None]]
  /\ UNCHANGED <<stream, store>>

Next == PassStep \/ OperatorStep \/ FinishDecision \/ RunStep \/ Crash

(* The supervisor reconciles every plan on every tick, and a decision that  *)
(* was begun is the controller's to finish.                                 *)
Fairness == WF_vars(PassStep) /\ WF_vars(FinishDecision)
Spec == Init /\ [][Next]_vars /\ Fairness

-----------------------------------------------------------------------------
(* The rows, the replayed plan and what a pass remembers of it are well    *)
(* formed: in particular no stage's run is retired as the absence of one.   *)
TypeOK ==
  /\ run \in [RunIds -> Runs]
  /\ stream \in Streams
  /\ store \in Stores
  /\ pass.pc \in PassPcs /\ pass.snapshot \in Streams /\ pass.stale \subseteq Stages

(* Every run the plan announced and that is still open is the one its stage *)
(* names or is retired, whatever was revised, re-performed or interrupted:  *)
(* so the passes that follow charge it and, once retired, stop it.          *)
AnnouncedRunsAccounted ==
  \A r \in stream.announced :
    open(r) => stream.stage[StageOf(r)].run = r \/ r \in stream.retired

(* A run that an interrupted start of the governing revision left unnamed   *)
(* is the performance the next start derives: it is adopted, never          *)
(* abandoned (startedRun in startAgentStage).  In a revision that superseded*)
(* another the sweep may give up a stage that waits to be performed again,  *)
(* and such a run with it (invalidateStaleCompletedStages), so this is      *)
(* about a plan's first revision.                                           *)
InterruptedStartsAdoptable ==
  \A r \in RunIds :
    /\ open(r) /\ RevisionOf(r) = stream.approved /\ stream.approved \notin stream.superseded
    /\ r \notin stream.retired /\ stream.stage[StageOf(r)].run # r
    => stream.stage[StageOf(r)].generation = GenerationOf(r)

(* The plan is charged for no more runs than the envelope allows, and a run *)
(* that was created and not charged is the one performance its stage stands *)
(* at: interrupted starts do not buy a stage another run.                   *)
CreatedRunsWithinEnvelope ==
  /\ Cardinality(stream.charged) <= MaxChildRuns
  /\ \A r \in RunIds :
       /\ startedRun(r) /\ r \notin stream.charged
       /\ RevisionOf(r) = stream.approved /\ stream.approved \notin stream.superseded
       => stream.stage[StageOf(r)].generation = GenerationOf(r)

(* Whatever an operator decides while the lock is given up to the planner,  *)
(* a pass creates runs and proposals for the revision that governs then.    *)
PassServesApproved ==
  [][/\ \A r \in RunIds :
         ~startedRun(r) /\ run'[r].disposition # "none" => RevisionOf(r) = stream.approved
     /\ \A q \in store'.proposals \ store.proposals : q.from = stream.approved]_vars

(* When runs, operators and crashes rest, the passes bring the plan to a    *)
(* consistent state and keep it there: nothing is settled on a candidate    *)
(* that moved, no gate stands on a head that moved, every retired run is    *)
(* stopped, every finished run's stage is settled and all spend charged.    *)
Consistent ==
  LET revision == stream.approved
  IN  /\ \A r \in stream.retired : ~open(r)
      /\ \A s \in StagesOf(revision) :
           LET projection == stream.stage[s]
               assignment == frozenAssignment(revision, s, projection)
           IN  /\ projection.state = "completed" /\ assignment # None => ~movedUpstream(assignment)
               /\ projection.state = "satisfied" => ~provenHeadsMoved(projection.proven)
               /\ projection.state = "running" => stageAcceptance(revision, s, projection) = None
      /\ \A r \in stream.announced : stream.spent[r] = run[r].invocations
Converges ==
  <>[][PassStep \/ FinishDecision]_vars => <>[](stream.approved # 0 => Consistent)
====
