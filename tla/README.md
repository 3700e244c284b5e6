# Verification of the engineering runtime

TLA+ models of the durable core of the control plane in `src/runtime`: how
several processes share the work of engineering runs through one SQLite
database and one hash-chained journal, how an operator stops that work, how one
run takes an issue to a pull request, how a plan drives several runs, and how
one controller replaces another over the same state.

## The system and its parts

A **run** turns one source issue into a candidate change. A **supervisor** (or
a `watch` loop, or a one-shot command) repeatedly calls
`EngineeringRuntime.Reconcile` for every open run. One such **pass** replays
the run's **journal**, evaluates conditions, plans one **operation**, leases it
through the **scheduler**, does its effect, journals the outcome and finishes
the row. Several processes may do this over the same database. There are no
locks across those steps: each SQL statement is atomic, and everything else is
re-reading, compare-and-set and conditions inside statements.

| Part | State it keeps | Operations | Hard because |
|---|---|---|---|
| operation store (`sqlite_store.go`, `capacity.go`) | `run_operations` rows with a revision | put at a revision, conditional acquisition | the conditions must be in the statement; several processes |
| scheduler (`scheduler.go`, `driver_leases.go`) | none durable; which grants this process's drivers hold | Plan, Next (reclaim, expire, acquire), StartWithin, ReserveAttemptIdentity, finishAt, RestoreAttempt, RequestCancel, Relinquish | lists are stale when used; dead and live owners; lost writes |
| verification permits, review claims (`verification_permit*.go`, `review_verification_claim.go`) | permits and claims | request, acquire, release, reclaim | share one ceiling with operations; tools outlive controllers |
| operator control (`agent_binding.go` CancelRun, `pause.go`) | run row, journal | stop, repeat a stop, pause, unpause | concurrent with drivers, several writes, each can fail |
| run reconciler (`reconciler.go`, `disposition.go`) | in-memory view of one pass | load, settle store lag, check drivers, plan, run, record a disposition | decides on state read before other writers wrote |
| run journal and replay (`journal.go`, `runtime.go`) | events, run row | append (conditional for stop and pause), replay, put row | two representations of one fact |
| operation handlers, projection (`operations.go`, `projection.go`) | candidate workspace, run branch, pull request; the projection of the journal | one handler per operation kind, from source to pull request | effects outside the database, between two appends; others push, merge and answer meanwhile |
| process ownership (`owner*.go`) | owner lock files | alive or provably dead | process identity |
| supervisor, watch, fleet | active set, admission gate, plan lock | ticks, intake, quiesce, drain, stop-all | liveness; the lock is given up to the planner |
| plan reconciler and service (`plan_*.go`) | plan stream, revisions, proposals, frozen assignments | propose, decide, supersede, resolve, start, settle, invalidate and gate stages | reads of runs that change underneath; starts of five writes; budgets |
| work graph, orchestration | batches | start and accept items | as the plan |
| human authority (`authority_request.go`) | requests, answers | ask, answer | the answer needs no lease |
| decision requests (`decision_*.go`, `communication_*.go`, `plan_decision_hold.go`) | reports, messages, resolutions, pinned resumptions | ask, admit, replace, resolve, resume, deliver, hold a stage | five parties, each reading what another has just written |
| controller handoff, update, succession (`controller_*.go`) | role lock, handoff records, authority, stable entrypoint | prepare, hand over, revalidate, activate, restart, re-adopt | two controllers over one store, either may die |
| review, remediation, feedback, integration | review rows, remediation charges | dispatch, collect, publish | ordering of external events |
| provider execution, sandbox, git, forge adapters, control endpoint | external processes and services | I/O | outside the program |
| domain, policy, planning, execution, authority, product ... | none | pure rules | data, not interleaving |
| `agentkernel`, `controlplane`, `cmd`, `benchmark`, `ci`, frontend | - | library, views, entry points, tooling | - |

What makes these parts correct, and is what the properties below say. *Leases
and control*: at most one operation of a run is leased; the concurrency ceilings
hold across processes; a takeover never hits a live driver and a lease nobody
holds is released; attempts stay in budget and are named apart; a tool that is
still running fences its run; a stop that returned holds, in the rows and in
replay; a run that merged is over. *One run*: what it pushes was verified and
approved as exactly that commit, it replaces nobody's history, it opens one pull
request, and it comes to rest. *A plan*: an interrupted start is adopted, the
envelope bounds what is charged, announced runs stay accounted for, work is
created only for the revision that governs, and the plan converges.
*A question*: its answer
reaches a worker, once, and only then the plan goes on. *Controllers*: one admits work, an activation strands no run, authority never
moves back, an interrupted transition is settled. `PROJECT.json` lists the
hazards at their lines.

## Modules

| Module | Models | Composes |
|---|---|---|
| `OperationStore` | the database: rows, run rows, pauses, permits, claims; the conditions of its statements | - |
| `VerificationPermits` | permits and review claims, one action per transaction | extends `OperationStore` |
| `RunControl` | `CancelRun` write by write, beside the operations; pause; a stale `PutRun` | extends `OperationStore` |
| `Scheduler` | the pass and the scheduler, one driver per process and run; crashes and time | extends both of the above |
| `MCScheduler` | instances of `Scheduler` | |
| `SchedulerProofs`, `SchedulerSafetyProofs`, `SchedulerCapacityProofs` | theorems about `Scheduler`, each module on top of the one before | |
| `RunLifecycle` | journal and row of one run under passes and stops | - |
| `RunPromise` | what a run promises, abstractly | - |
| `MCRunLifecycle`, `RunLifecycleProofs` | instances and theorems, the refinement of `RunPromise` among them | |
| `CandidatePipeline` | one run from source to pull request: planner, pass loop, handlers, projection, workspace, forge, human | - |
| `CandidatePipelineProofs` | theorems about it | |
| `PlanStream` | a plan as replaying its events gives it, one operator per event | - |
| `PlanExecution` | the passes of the plan reconciler, operators, planner and child runs | extends `PlanStream` |
| `MCPlanExecution` | plans to execute | |
| `PlanExecutionProofs` | theorems about `PlanExecution` | |
| `DecisionRequests` | a worker's question from its report to the answer, the resumption and the plan stage that waits | - |
| `DecisionRequestsProofs` | theorems about it | |
| `Handoff` | controller processes that replace each other | - |
| `HandoffProofs` | theorems about it | |

`Scheduler` and `RunLifecycle` look at the same code from two sides. `Scheduler`
keeps of a run only whether its row is open, ended or cancelled, and lets any
stale pass write it (`SettleRun`); `RunLifecycle` keeps the whole disposition
in both representations and leaves out the operations. The dispositions a
pass can write in `RunLifecycle` are those `SettleRun` writes. `RunLifecycle`
instantiates `RunPromise` with its row, the merge and the stops that returned
(`Promise`), and `KeepsPromise` says that it implements it. `CandidatePipeline`
fills in what `Scheduler` leaves nondeterministic - which operation is wanted and
what its handler does - for the one driver that `OneLeasePerRun` and
`LiveLeaseNeverStolen` leave a run at a time. `DecisionRequests`
looks at the same driver for the invocations that questions cause, and reduces what
follows a commit to a verdict. The child runs of `PlanExecution`
are what those modules promise, as the plan reconciler reads it: one derived
identity, a candidate that moves, a goal state, one end.

### Scheduler and its store

*State.* `row[o]` is the operation document: state, lease owner, attempt
counter, physical attempt identity, and five flags for what is otherwise a
comparison with the clock or another field (the lease lapsed, cancellation was
requested, a retry is not due, `ActiveSince` is set, the wall budget is spent).
`journal[o]` is what replay says of the operation. `seen[d]` stands for the
revision column: it is the operation whose *current* revision driver `d` has
read; a write clears it for everybody, so a compare-and-set is `seen[d] = o`.
`pc`, `target`, `todo` and `view` are the locals of a driver.

*Actions.* A pass is `Load`, `LagFinish` (`reconcileStoreLag`), `CheckDrivers`
(the paused exit and `drivenElsewhere`), `Plan` or `NothingWanted`,
`AttemptsExhausted`; then `Scheduler.Next` as `BeginNext`, `ReclaimRead`,
`ReclaimPut`, `ScanCandidates`, `CandidateRead`, `ExpirePut`,
`AcquireOperation`, `NothingLeased`; then `FinishUnstarted`, `JournalStale`,
`StartWithin`, `JournalBefore`, `ReserveAttemptIdentity`, `ToolRequests`,
`JournalAfter`, `Finish`, `RestoreAttempt` or `KeepAttempt`, and `Relinquish` on
every exit. Where the code decides on what it read earlier, read and write are
two steps. `Scheduler.transition` (used by StartWithin, finishAt, RequestCancel,
RestoreAttempt) re-reads and retries until its compare-and-set wins, so it is
one step; giving up after its retries is `DriverFails`, or `StopBreaks` in a
stop. `DriverFails` can end a pass between any two of its writes; `Crash` can
end a process there, for good: a restarted process has a new owner identity.
`LeaseLapses`, `PermitLapses`, `ClaimLapses`, `RetryDue` and `BudgetElapses` are
the clock. Which operation is wanted and how it ends is nondeterministic.

### RunLifecycle

*State.* `runRow` is the row's disposition. `Reduce` starts from the row it is
given, so the journal is represented by `said`, the function from each starting
disposition to what replay makes of it: appending an event composes `Reduce`
with it, and no bound on the journal's length is needed. `merged` and `paused`
are the two other replayed facts that decide. `pc` and `state` are a pass's
place and its `runState`; `stop` is a `CancelRun`.

*Actions.* `LoadRow` and `LoadEvents` (two reads), `Settle` (`conditions` and
what `Reconcile` does with them), `Recheck`, `JournalDisposition`,
`PutDisposition`, `Adopt` (the four accesses of `recordDisposition`), `Return`,
`SettleAgain` (a wait recorded before an observation that then could not
run), `PassLimit`, `ObserveMerge`; `StopRead`, `StopAppend`, `StopPut` for the
stop; `PassFails`, `Restart`, `StopBreaks` for failures anywhere; `ChangePause`.

### CandidatePipeline

*State.* `journal` is the projection of the run's journal (`RunProjection` with
the recorded wait); `seen` stands for the epoch: the observations that succeeded
since the journal last moved. `ops` are the operations by key - kind, revision and
the mark that distinguishes bindings at one revision. `commits` records of every
commit the runtime made its ancestors and its base and, as history variables,
whether the verifier passed it and whether it holds everything a finished worker
left. `workspace`, `forge` are what lies outside; `doing` is the process's memory.

*Actions.* `Pass` is one iteration of `Reconcile` on the loaded state: it ends the
run, settles, starts an operation or observes. A handler computes the events it
returns; `AppendEvent` journals them one at a time and `Finish` ends the operation,
so a `Crash` can fall between any two. The push reads the remote in one step and
pushes in another, and `findPullRequests` and `createPullRequest` are the two calls of
pull_request.create: the second works on what the first said, may be refused beside
somebody else's pull request, and may take effect without its reply arriving.
`forge.own` counts what the runtime opened, `forge.theirs` what others did.
`BaseMoves`, `ForeignPush`, `OpensPullRequest`, `Merges` and `ChecksFail` are the
forge; `Authorize` is the human, who needs no lease.

### DecisionRequests

*State.* Questions are numbered in the order they were journalled. `observed` are the
reports nobody has decided, `admitted` and `superseded` the messages, `answers` the
resolutions, `stale` the questions whose subject's owner handed over a newer one.
`journal` is what replay gives: head, completeness, verdict and the questions of
`decisions.delivered`. `ops` are the invocations by binding (first, continuation of a
checkpoint, remediation, resumption for a set of answers at a head), `pins` the
admission records of resumptions, `row` the reason in the run row, `drive` the memory
of the driving process, `stage` what the plan pass has read so far, `settled` what the
stage completed with. `seen` is a history variable.

*Actions.* A pass is `load` (which reads the run's own answers, once) and then
`decisionPending`, `goalReached`, `commitCandidate`, `assureCandidate` or
`runOperation`. An attempt of a resumption first takes `admitDecisionResumption` and
`recoverDecisionResumptionContext`; every attempt takes `communicationContext` (which
reads the answers again), `invokeExecution`, and then the appends of its outcome one
by one: `decisionDeliveryEffect`, `executionCompleted`, `appendMessageObservation`,
`operationAfter`. `crash` can fall before each. Beside it run the batch step
(`admitOrchestratedMessages`), the operator (`ResolveDecisionRequest`), another unit
(`handoffAdmitted`) and the plan pass: `settleFinishedStages` reads the run row,
`readOpen`, `readEvents`, `readResolved` and `readDecided` are the reads of
`awaitsHumanDecision`, `stageAcceptance` reads the journal again for the verdict, and
`appendStageSettled` writes. The driver and the operator take steps between any two of
them. The batch step does not: it and the plan pass take turns in one thread of the
supervisor (`supervisor.go:711-721`), and the question's safety rests on that
(`admitBesidePlanPass`, a batch step at any moment, violates `QuestionHoldsStage`).

### PlanStream and PlanExecution

*State.* `stream` is the replayed plan (stage projections with run, generation and
proofs; governing, superseded and rejected revisions; retired and announced runs;
charges), `store` the other tables, `run` the child runs, `pass` and `operator` the
locals of the two callers. A run is named by the revision, stage and generation it
performs.

*Actions.* A pass is `BeginPass`, `recordMissingSupersession`, `settleFinishedStages`
with `AppendSettled`, `invalidateStaleCompletedStages`, `Upkeep`, and for each stage
`gateSatisfaction`, or the five writes of a start (`FreezeAssignment`, `ClaimRun`,
`AppendAssigned`, `AppendChildRun`, `AppendRunStarted`) with `InvalidateOrphan` and
`BlockStage`, or the planner's (`InvokePlanner`, `PlannerDropped`, `PlannerRefused`,
`PlannerProposed`, `StoreProposedRevision`, `StoreProposedContract`, `SettlePlanner`). It works from
`pass.snapshot`, replayed where the code replays. Operators `Propose`, `Approve`
(two events) and `Reject`; runs commit, reach their goal, resume, merge, fail, stop
and admit verdicts without the lock. `Crash` loses everything in memory.

### Handoff

*State.* The processes with their gate, turns and place; the role lock; the handoff
records with phase, recovery owner and the runs decided on; the governing authority;
the stable entrypoint; the runs with the succession evidence in their journals and the
events counted there, those of controllers (`work`, `admitted`) apart from those of
operators (`told`); trusted main. A generation is a revision of trusted main.

*Actions.* `Start`, `Resolve`, `SettleInterrupted` for a process that starts;
`BeginSubmit`, `CommitSubmit`, `StartTurn`, `EndTurn` for work; `SettleUpdate`,
`Launch`, `HoldAdmission`, `Quiesced` or `QuiesceTimeout`, `Evaluate`, `BeginHandoff`,
`Drain`, `ReleaseOwnership`, `RecordReleased`, `Proceed`, `Leave` for the
predecessor; `AcquireControllerRole`, `TakeOver`, `Revalidate`, `AdmitSuccession`,
`ActivateControllerHandoff`, `ActivateControllerGeneration`, `EnableWorkAdmission` for
the successor; `RecoverActivated`, `ReadoptController`, `ActivateReadoptedGeneration`
for repair; `Crash` anywhere. Operators take no gate: `OperatorAppends` is a pause, an
unpause or an answer to a request for authority, `CancelRun` and `PutCancelledRun` are
the two writes of a stop, between which the run is live with a moved head.

## Runs

| Run | Checks | Instance | Distinct states |
|---|---|---|---|
| `leases` | `TypeOK`, `StopReleasesRun`, `AttemptsWithinBudget`, `LiveLeaseNeverStolen`, `IdentityNeverReused` | two processes, one operation, two attempts, three identities, operator active | 964 thousand |
| `siblings` | `OneLeasePerRun` | two processes, two independent operations of one run, a wall budget on one, a delayed retry on the other | 2.2 million |
| `fence` | `PermitFencesRun`, `CeilingsHold`, `OrphanReleased` | two processes, one operation, one attempt, one tool, one review in the same or another run, ceilings of one, fairness | 689 thousand |
| `stop` | `TypeOK`, `StopHolds`, `StopYieldsOnlyToMerge`, `CrashedStopFinished`, `MergeEndsRun`, `KeepsPromise` | two passes, one repeatable stop, fairness | 388 thousand |
| `plan_reperform` | `TypeOK`, `InterruptedStartsAdoptable`, `CreatedRunsWithinEnvelope`, `Converges` | producer and reviewer, one revision, up to three re-performances, envelope of three runs and four invocations | 298 thousand |
| `plan_revise` | `AnnouncedRunsAccounted`, `PassServesApproved` | producer, gate and planner, two revisions, envelope of two runs | 651 thousand |
| `controller` | `TypeOK`, `OneAdmits`, `DecidedStateStands`, `ActivationStrandsNoRun`, `AuthorityNeverRegresses`, `InterruptedSettles` | two process slots, three generations, one run, one event of an operator | 1.1 million |
| `inherit` | `NothingAppends`, violated | as `controller`, two generations | - |
| `publish` | `TypeOK`, `PushedWasProved`, `OnePullRequest`, `HistoryKept`, `Rests` | two commits, two bases, two attempts, one fault, one step of the forge, the second commit gated, fairness | 120 thousand |
| `unfinished` | `FinishedBeforePublished`, violated | two commits, one fault | - |
| `questions` | `TypeOK`, `DeliveredWasShown`, `ResumedOnce`, `ResumptionsBounded`, `QuestionHoldsStage`, `AnswerArrives`, `StageReleased` | two questions, one about another unit's work, two attempts, two resumptions, one commit, one crash, fairness | 1.4 million |
| `interim` | `SettlesOnFinalOutput`, violated | one question, one attempt, two commits | - |

### What the violated properties show

* `unfinished`: `execution.completed` of a continuation is journalled before its
  `operation.after`, and the projection applies it to the current candidate, which
  is still the checkpoint. A crash between the two leaves the checkpoint complete
  and the continuation unwanted; its uncommitted work is never committed, and the
  checkpoint is verified and pushed. What does hold is `PushedWasProved`: it passed
  the verifier as it is.
* `interim`: the run row keeps `goal_state_reached` while a resumption runs, and the
  answer counts as delivered when the attempt returns. A plan pass between that and
  the commit and verification of what the answer caused completes the stage with the
  old head. `QuestionHoldsStage` holds: no stage completes over an answer nobody was
  shown.

* `inherit`: while the successor decides, intake is held and drivers have finished, but
  pause, unpause, authorize and stop take no gate (`workspace_control.go:72`,
  `supervisor_authority.go:28`, `agent_binding.go:480`), so a journal can move between
  the decision and the release of the role, where `controller_launch.go:268` says
  "NOTHING MAY APPEND". What does hold is `DecidedStateStands`: every run that is live
  then was decided on and no controller has added to its journal; and
  `ActivationStrandsNoRun`: the successor counts the events again under the role and
  refuses the transition.

### Behaviour the passing properties except

The statements above are as strong as the code allows; each of these was seen as a
counterexample to a stronger one.

* `reconcileStoreLag` finishes, from a replayed outcome of attempt *n*, the row
  another live process has meanwhile leased for attempt *n + 1*: `finishAt` does not
  look at the owner, and the check for a driver elsewhere comes after it
  (`docs/supervisor.md:569` says such a lease "is never taken").
  `LiveLeaseNeverStolen` excepts the settling of the row.
* The driver whose row was settled that way and leased again still calls
  `ReserveAttemptIdentity`, which does not ask whose the row is (`scheduler.go:861`):
  the new holder's identity is raised, so the attempt that holds a permit may be older
  than the identity on its row. `PermitFencesRun` therefore says that the row is
  leased by the controller that asked, under an identity no lower than the permit's.
  The instance of `fence` has one identity and cannot tell the two apart; the proof for
  all bounds did, and TLC shows it with three attempts and four identities.
* A completion decided before a stop is appended after it and wins in `Reduce`, while
  the row stays cancelled, and later passes return at the re-read
  (`disposition.go:131` says "the row and replay both say cancelled").
  `StopYieldsOnlyToMerge` says that it happens only where the candidate merged.
* A `failed` decided before the merge and put last stays in the row, which is terminal
  and no longer loaded (`agent_binding.go:370`, "a stale write of it is
  self-correcting"). `MergeEndsRun` says only that the run is over.
* A stop that dies between its two writes on a *paused* run leaves the row open until
  it is repeated: the paused exit precedes `conditions`, and unpausing refuses a run
  that replays as cancelled.
* A run created by a start that has not reached its stage event when its revision is
  superseded is neither retired nor adoptable: `InvalidatedStages` leaves out a
  pending stage (`plan_service.go:732`). The run works on, unknown to the plan
  (`plan_seam_supersession_test.go:19` is about a neighbour of this case).
  `AnnouncedRunsAccounted` speaks of announced runs.
* After a supersession a stage that was reset waits as `invalidated`, under no
  revision in particular. If its start is interrupted once the run exists and the
  candidate of a stage two dependencies upstream then moves, the sweep
  (`plan_reconciler.go:555`) counts the waiting stage among those to give up, and its
  generation advances past the run, which works on "unstopped and attributed to nothing"
  (`plan_reconciler.go:1140`, the case that `startAgentStage` itself avoids).
  `InterruptedStartsAdoptable` is therefore about plans whose governing revision
  superseded none. The proof found it; TLC shows it on a chain of three producers.
* A run is created before it is charged, and the ceiling counts charges
  (`plan_reconciler.go:1201`). If a start is interrupted in between and another stage
  starts first, the envelope is spent before the interrupted one is adopted, and one
  run more exists than `MaxChildRuns` (`domain/plan.go:541`, "how many EngineeringRuns
  this plan may create"). `CreatedRunsWithinEnvelope` bounds the charges, and allows a
  stage one uncharged run, the one it stands at. TLC shows it with two independent
  producers.
* A controller started without `--successor-of` opens its gate whatever
  `ResolveHandoffAtStartup` refused (`serve.go:139`), so a stale entrypoint can serve an
  older generation after an activation (`controller_choreography.go:190`).
  `OneAdmits` holds all the same.
* A successor that dies at `revalidated` leaves a transition only it may recover, and
  the entrypoint starts the predecessor, which may not: the update stays blocked
  until the operator acts (`controller_restart.go` asks for convergence "without a
  person"). Only the transition last recorded is settled at startup, and a repeated
  re-adoption moves the entrypoint under a transition in flight.
  `InterruptedSettles` carries these as premises.
* A foreign head observed after the run's own was recorded is never adopted by the
  projection, so each observation differs from the recorded one and is journalled
  again (`operations.go:3098` says repeated observation terminates). `Rests` is
  therefore about runs whose branch nobody else moved.
* Observations are keyed by the journal's epoch, so a run parked at its goal does not
  observe again by itself and does not notice a later merge
  (`reconciler.go:487`, `docs/running-work.md:102`).

* Between the push and the pull request `base.integrate` runs again under a new key,
  but "published" still means that a pull request was observed: a moved base rebases
  the pushed head, and the next push takes the run's own commit for somebody else's
  (`operations.go:2793`). The run waits for good; `HistoryKept` holds.
* An approval recorded after the driver loaded the state and before it appended the
  decision that asks for it is older than that decision, so it does not answer it; nothing
  evaluates again, and nothing can be answered again (`reconciler.go:810` says "A
  decision written after the answer has already seen it").
* A checkpoint's report is admitted only after `candidate.checkpointed` of its
  operation. If the process dies after journalling the report and before the outcome,
  and the next attempt finishes, that event never comes: the report is looked at on
  every pass and the plan stage is held for good (`communication_admission.go:188` says
  that a report that can never be admitted "is refused once"). `StageReleased` excepts
  it (`Orphaned`).
* The plan pass goes by the journal as `awaitsHumanDecision` reads it. A driver that
  resumes the run for something else can journal a new question between that read and
  the append of the settlement, and the stage completes over it
  (`plan_reconciler.go:1625`). `QuestionHoldsStage` is about the questions that the read
  held.
* An invocation is planned before a commit. A question answered before the first commit
  is resumed for in the uncommitted workspace; a resumption that fails takes the first
  invocation's work into the quarantine, and one that succeeds leaves two mutations for
  one commit (`reconciler.go:1337`, "committed exactly once"). The commit that is then
  wanted finds nothing. `StageReleased` excepts runs that can commit nothing.
* The binding of a resumption is fixed at the load and verified against a fresh read at
  its admission. A second answer in between, or a subject that moves on, makes it
  inadmissible, and an unfinished resumption is always taken up again: every attempt is
  refused until the run fails, as `adapters.go:570` intends. `AnswerArrives` allows it.
* What was delivered is recorded as what was loaded *and* shown. An answer between the
  two is shown by an ordinary invocation, not recorded, and resumed for again
  (`decision_resumption.go:5`, "never a duplicate"). `ResumedOnce` is about resumptions.
  The other error cannot happen (`DeliveredWasShown`).

### Bounds

`MaxIdentity` bounds the physical attempts of an operation: attempts are given
back without limit, so identities would grow for ever. Three in `leases`
let an attempt be started, given back, abandoned and taken over; one is enough in
`siblings` and `fence`, whose questions are about who holds what at one time. `OperatedRuns`
names the runs the operator acts on, `Budgeted` and `Delayed` the operations with
a wall budget or a delayed retry, so that each run has only the behaviour its
question needs. Two processes suffice for the races here: each is between a
driver and one other writer, and the operator, the tools and the clock are extra
actors. The sizes of `Ops`, `Tools` and `Reviews` are the number the question
relates. `RunLifecycle` has no bound but two passes and one stop.

In `PlanExecution`, `MaxGeneration` bounds re-performances (`MayPerformAgain` guards the
three steps that ask for one), `MaxHead` the candidates
of a run, `MaxProposed` what operators propose; the envelope's three ceilings are
small enough to be reached, so blocked stages occur. Two revisions suffice for
supersession, which relates a revision to the one it replaces, and three
generations of a stage for a retry of a retry. In `Handoff`, two process slots are
enough because a third process cannot hold or wait for anything the two do not;
three generations let a late successor meet one that superseded it; one run shows
stranding. `MaxWork` bounds the events of turns and `MaxTold` those of operators in a
run's journal: one of either is enough to move a head. In `CandidatePipeline`, `MaxRevision` bounds the commits (two: a head and
what replaces it by remediation, continuation, rebase or merge), `MaxFaults` crashes
and failing handlers, `MaxOutside` the steps of the forge. In `DecisionRequests`, `MaxRequests` bounds
the questions (two: a question and the one that replaces it, or two answered at
different moments), `MaxHeads` the commits and `MaxCrashes` the crashes; attempts and
resumptions are the code's own ceilings, small enough to be reached. The safety
properties were checked once with two commits and pass, with 9.3 million states. Larger instances of
`CandidatePipeline` - three
commits, two steps of the forge without the liveness property - were checked once and
pass, with 436 and 413 thousand states. Processes with
the same drivers are interchangeable, and symmetry is used for them in runs
without liveness properties.

Deadlock is not checked in the `Scheduler` runs: when every process has died and
every attempt is used up the system stops; nor in `Handoff`, where every process may
have died with nothing left to start, and in `CandidatePipeline` and
`DecisionRequests`, where a run ends. It
is checked in `RunLifecycle` and `PlanExecution`, whose passes never end.

### Fairness

* `Scheduler!FairSpec`: a live driver that can take its next step takes it (a
  goroutine that is running a pass is scheduled), and leases lapse. Crashes,
  failures, grants of permits and the operator are not fair. `OrphanReleased`
  further assumes, as its premise, that each process that stays alive keeps
  scanning: the supervisor's tick calls Next as long as it has open work.
* `RunLifecycle!FairSpec`: the supervisor starts passes of a run as long as its
  row is open (`ActiveRuns`), a started pass comes to an end, and a process does
  not fail for ever (`<>[](pc # "failed")`). Observing a merge and operator
  actions are not fair.
* `PlanExecution!Spec`: the supervisor reconciles every plan on every tick
  (`reconcilePlans`) and a decision that was begun is finished. Runs, operators and
  crashes are not fair; `Converges` is about what follows once they rest.
* `Handoff!Spec`: a live process takes its next step, and a service manager starts a
  controller when none holds the role. Work, trusted main and the operator are not
  fair; `InterruptedSettles` assumes that processes stop dying.
* `CandidatePipeline!FairSpec`: the supervisor drives a run that is not terminal again
  and again. The forge and the human are not fair.

* `DecisionRequests!FairSpec`: the supervisor drives the run, calls the batch step and
  reconciles the plan on every tick. The batch step is strongly fair: it waits for the
  plan pass of the tick to end, which it does every time, and is then called. Operators
  and other units owe nothing: the liveness properties have as premise that no question
  stays open.

## Proofs

`tlapm` checks eight modules. All theorems are about the specifications the runs
check, for every value of their constants under the assumptions named in the modules
that declare them. In each the property alone is not inductive: what keeps it is what
some process holds in memory between a read and a write, so each inductive invariant
adds what stands meanwhile, position by position. The invariants were first checked by
TLC on the instances of the runs, and `PipelineInv` also with three commits (1.0
million states) and `PlanInv` on larger plans (two producers, or a planner and three
revisions; 7.8 and 5.9 million states, not to the end).

### Scheduler

For every set of runs, operations, processes, tools and reviews, every ceiling,
attempt budget and dependency relation (`OperationStore`, `RunControl`, `Scheduler`
assume finite runs, tools and reviews; functions of the right type; positive
ceilings and budgets).

`SchedulerProofs`

* `TypeCorrect`: `TypeOK` with `PassOK` - a driver that handles an operation
  handles a real one, and what it is about to write is an outcome. `TypeOK` alone
  is not inductive: `Finish` and `LagFinish` write what the pass remembers, and
  only `PassOK` says it is an outcome rather than "open".
* `OneLeasePerRunAlways`. The argument: `Shrinks` - every step but a successful
  acquisition grants no lease (`ControlShrinks`, `PermitShrinks`,
  `EnvironmentShrinks`, `DriverShrinks`); a successful acquisition grants one, and
  its condition says that no other operation of the run carries any.

`SchedulerSafetyProofs`

* `RowStep` sorts the steps by what they do to a row: a successful acquisition, a
  start, the writes of the judged revision, and calm ones (`Calm`), which give
  neither a lease nor an attempt nor an identity.
* `DriverInv` is the inductive invariant: drivers handle planned operations
  (`PlannedRows`) of their own run (`OwnRun`), a driver is alive (`Living`), a leased
  row has an attempt left (`Budget`), and `Judged` - what a driver judged of a row
  when it read it is so as long as that revision is current. `Judged` is the heart:
  the budget and the liveness of the holder are tested on a read, and only the
  revision in the statement ties the test to the write.
* `AttemptsWithinBudgetAlways`, `LiveLeaseNeverStolenAlways` and
  `IdentityNeverReusedAlways` follow from it.
* `StopReleasesRunAlways` rests on `StopInv`: while a stop scans, every active
  operation of the run is still on its list, because the run row was cancelled before
  the list was read and acquisition reads the run row in its statement.

`SchedulerCapacityProofs`

* `PermitFencesRunAlways`: acquisition is refused while a permit of the run is
  granted, a permit is granted only to an attempt that is running, and a running
  attempt cannot be started again without being acquired. The theorem was first tried
  with an equality of identities, which is false: see below.
* `CeilingsHoldAlways`: only acquisition, `AcquireVerification` and `ClaimReviewSlot`
  take a place, each counts in the statement that takes it, and the count grows by
  one (`FiniteSetTheorems`).

### RunLifecycle

`RunLifecycleProofs` holds for any sets of passes and stops, with no assumption.

* `StopInvariant` is the inductive invariant: types, `StopHolds`, `MergeSeen` (a
  pass that saw a merge, or records a completion, works from a journal that has
  the merge), `NeverActivates` (a pass never journals active) and `ReplayHolds`
  (a replay from a cancelled row leaves it only after a merge). `StopYieldsOnlyToMerge`
  speaks of the row and replay at one moment and is not inductive: what keeps it
  is what passes still hold in memory.
* `LifecycleTypeCorrect`, `StopHoldsAlways` and `StopYieldsOnlyToMergeAlways`
  follow from it.
* `KeepsPromiseAlways`: the refinement. Initial states map to initial states, and
  under the inductive invariant every action maps to a step of `RunPromise` or to a
  stutter: a pass's put to `Report`, which may say completed only because `MergeSeen`
  ties a recorded completion to a journal with the merge; the put of a stop to `Stop`;
  everything between reads and writes to nothing.

### Handoff

`HandoffProofs` holds for any processes, runs and number of generations (assumed: `None`
is none of them).

* `HandoffInv` is `TypeOK` with `PlaceOK` (the record of a process fits its
  position), `RoleOK` (a process at most of its positions holds the role, and opens
  its gate and drives only there), `GovernOK` (the authority names a revision trusted
  main has reached, and a successor that has revalidated finds its predecessor
  governing still) and `DecidedStateStands`.
* `OneAdmitsAlways` is `RoleOK` for two processes. `AuthorityNeverRegressesAlways`
  needs `GovernOK`: the revalidation precedes the activation by several steps, in
  which only the holder of the role could move the authority.
  `DecidedStateStandsAlways` uses that whoever decides has held admission and
  quiesced, so nobody else admits or drives; an operator's append counts apart from
  the work and a stop takes a run away, so neither disturbs it.

### CandidatePipeline

`CandidatePipelineProofs` holds for any number of commits, bases, gated revisions,
attempts, faults and steps of others.

* `PipelineInv` has nine parts: types and budgets (`DataOK`, `OpsOK`, `DoingType`);
  the workspace is never behind the candidate (`WorkspaceOK`); the journalled verdict
  is about a complete candidate, and a passing one whose operation succeeded is about
  a commit that passed (`JudgedOK`); a decision taken before the answer it needs does
  not authorise (`DecidedOK`); what stands on the branch by the runtime's hand was
  proved (`BranchOK`); and what stands while an operation is handled (`HandOK`) and
  while its events are journalled one at a time (`EndOK`).
* `PushedWasProvedAlways` is `BranchOK`. It cannot be kept without the rest: the push
  was planned on a verdict and a decision that were journalled by other operations,
  possibly by an attempt that died between its events and its end, and `EndOK` says
  what its successor finds.
* `PipelineTypeCorrect` and the action property `HistoryKeptAlways` follow.
* `OnePullRequestAlways` rests on an invariant of its own, `OpeningOK`: while an opening
  is under way the runtime has none open. The search counts every pull request of the
  branch, open or merged, and only the runtime's own opening adds to its own, so what
  the search said of them stands until the opening, whoever else opens or merges.

### PlanExecution

`PlanExecutionProofs` holds for any stages, kinds, dependencies (cyclic ones included),
revisions and their contents, any envelope and any number of crashes. Assumed: at least
one revision, stage ids that are not repeated (`planning/graph.go:57` refuses a plan that
does), and that `None` is neither a run nor an outcome.

* A pass decides on `pass.snapshot` and appends to `stream`, and verdicts arrive in
  between. `PlanInv` says how far the two agree (`SnapshotOK`): in the stage loop on
  everything but verdicts, while settling on the stages still ahead, between an
  assignment and its announcement on all stages but that one, and while the planner works
  only as long as its revision governs.
* The other parts: a plan's stages and runs fit each other (`PlanOK`), a run that was
  started was frozen under a revision that governs or governed (`RunsOK`), the governing
  revision has its supersession on record before any of its runs exists (`GovernedOK`),
  a decision excludes a pass (`OperatorOK`), a pass that holds the lock serves the
  governing revision (`PlacedOK`), what the loop can still start has been resolved
  (`ResolvedOK`), announced runs are named or retired (`AccountOK`), the charges fit the
  envelope (`EnvelopeOK`), and a run of a first revision is retired, named, or what its
  stage waits for (`FirstOK`).
* Each event has a lemma saying what it does to a plan (`AfterSettled` to
  `AfterApproved`), each way the plan changes one about the parts that need only the plan
  (`SettleCore` to `ClaimCore`), and each action one that puts them together.
* `PlanTypeCorrect` and `AnnouncedRunsAccountedAlways` are `PlanOK` and `AccountOK`.
  `InterruptedStartsAdoptableAlways` and the second half of
  `CreatedRunsWithinEnvelopeAlways` are `FirstOK`: the sweep passes by a stage of a first
  revision that waits, because it was invalidated under that revision; the orphan check
  looks for the run. The first half is `EnvelopeOK` with `SnapshotOK`: from the test of
  the ceiling to the charge nothing else is charged. The action property
  `PassServesApprovedAlways` is `PlacedOK` and the comparison after the planner returns.

### DecisionRequests

`DecisionRequestsProofs` holds for any number of questions, attempts, resumptions,
commits and crashes.

* `DecisionInv` adds to the types and the three invariants `DataOK`, `DriveOK` (at each
  position of the driver: the invocation was started, its pin exists, what was shown
  is what was pinned, what was pinned was answered) and `ResumeOK` (a resumption that
  succeeded delivered what it was for; one about to be started is for undelivered
  answers, follows no unfinished one and is within the ceiling). `ResumedOnce` and
  `ResumptionsBounded` are decided in one pass and written in another step, and
  `ResumeOK` is what bridges the two. `StageOK` does the same for the plan pass, read by
  read: after the first every live question is answered, after the third every one is
  delivered, after the fourth no undecided report holds a question the pass went by. Each
  stands until the append because answers and deliveries are never taken back, and
  because a question becomes live only by the batch step, which waits for the pass.
* `DeliveredWasShownAlways`, `ResumedOnceAlways`, `ResumptionsBoundedAlways`,
  `DecisionTypeCorrect` and the action property `QuestionHoldsStageAlways` follow.

### Only model-checked

* The liveness properties (`OrphanReleased`, `CrashedStopFinished`, `MergeEndsRun`,
  `Converges`, `InterruptedSettles`, `Rests`, `AnswerArrives`, `StageReleased`): the
  prover does not reason about fairness.
* `ActivationStrandsNoRun`: that a generation continues a run is a chain of proofs in
  the run's journal (`Continuers`, a recursive function), and its induction over the
  journal is beyond the prover.

## What is abstracted or left out

* Reasons, payloads, capacity-wait details and goal markers of dispositions; a
  disposition may be journalled again because one of these changed.
* The hash chain, sequence numbers and payload validation of the journal: an
  append is one transaction.
* `state.invariants()` in `RunLifecycle`: a run that violates it is failed by
  every pass.
* `Heartbeat`, `RecordProviderProgress`, `BudgetState` and `Scheduler.Reconcile`,
  which the modelled path does not call; `MemoryOperationStore`, used by tests.
* The clock's values: a lease, a permit, a budget or a delay elapses at any time.
* Process identity: `owner.go` is trusted to say dead only of the dead.
* Dependencies between operations: the store's condition is modelled, but no code
  outside the tests plans an operation that has any.
* Provider, sandbox, git and forge effects: in `Scheduler` an attempt ends with any
  outcome; `CandidatePipeline` keeps what they do to workspace, branch and pull request.
* In `CandidatePipeline`: variation and reassessment of the contract, changes of the
  issue, gofmt and semantic assurance, feedback and review remediation, denials,
  failing observations, deadlines and budgets of time, deferred publication of plan
  stages. The source observation is one step; one process drives the run.
* In `DecisionRequests`: message kinds other than questions (a report may carry them,
  `mixed`), unreadable or altered reports, the limits on messages and decisions, holds
  on work graph units, invocations for feedback and reviews, waits for providers,
  pauses, stops, and the tracker of repeated failures. A failed attempt may be retried
  or stops the run; which one is nondeterministic.
* In `PlanExecution`: objective work graphs, configuration holds, workers, wall time.
  Refusals that depend on them are a nondeterministic block (`BlockStage`).
* In `CandidatePipeline`, an opening whose reply is lost has taken effect by then or
  never will: a request that reaches the forge after the next search is not modelled. The
  forge may refuse a second pull request of a branch or accept it, and those of one
  branch are merged together.
* In `Handoff`: building and verifying artifacts (a build succeeds), configuration
  boundaries, the endpoint's handshake beyond its order. Only `serve` processes are
  modelled: the CLI's `run` creates a run itself when no endpoint answers
  (`autonomy.go:454-470`), with neither the role nor the gate, and `OneAdmits` and
  `DecidedStateStands` do not speak of it.
* Everything listed as not modelled in `PROJECT.json`: mostly validation, adapters and
  views, where the state is outside the program or there is none; and the work graph
  and feedback, which have protocol state and are next.

## Plan

1. `ActivationStrandsNoRun` as a theorem, with the chain of proofs as a set closed under
   succession instead of a recursive function.
2. Work graph and orchestration batches over `PlanExecution`.
3. Feedback and review remediation as further bindings of `CandidatePipeline`.
